--------------------------- MODULE Session_proofs ---------------------------
(***************************************************************************)
(* What autosave promises, for any number of games, turns and sessions:    *)
(* every safety property of Session, and that a session reaches its files  *)
(* only through FileStore's calls.                                         *)
(***************************************************************************)
EXTENDS Session, TLAPS

\* The two files as the write in progress found them, or as they are.
Found == IF pc = "idle" THEN [path |-> path, bak |-> bak] ELSE before

\* What was acknowledged is in the file, or in the backup of a missing file.
AckedOK == acked # NoWorld => Found.path = acked \/ (Found.path = Absent /\ Found.bak = acked)

\* Behind it is the checkpoint before.
UndoOK == undo # NoWorld /\ Found.path = acked => Found.bak = undo

\* A write has one caller, which waits for it and gave it the universe to keep.
WriterOK ==
    /\ writer = "turn" => phase = "play"
    /\ writer = "save" => phase = "turn"
    /\ writer = "exit" => phase = "ending"
    /\ writer # "none" => bytes = world /\ (keep <=> writer # "save")
    /\ writer \in {"turn", "exit"} => armed

\* Autosave is on from start to end, or until its one failure.
ArmedOK ==
    /\ armed => reports = 0
    /\ reports <= 1
    /\ phase # "down" /\ asked /\ reports = 0 => armed
    /\ phase # "down" => world \in Worlds

SInv ==
    /\ TypeOK /\ FS!IInv
    /\ AckedOK /\ UndoOK /\ WriterOK /\ ArmedOK
    /\ CompletedTurnIsOnDisk /\ CleanExitIsSaved

----------------------------------------------------------------------------
(* The files: a session makes only FileStore's steps, so what is inductive *)
(* there is inductive here.                                                *)

LEMMA StoreInvariant == ASSUME FS!IInv, [FS!Next]_(FS!vars) PROVE FS!IInv'
<1> USE NoStateAssumption
        DEF FS!IInv, FS!TypeOK, FS!NeverTorn, FS!CallInv, FS!WriteContract, FS!Contents, FS!Saved
<1> DEFINE Failing == pc \in {"write", "rotate", "install"} /\ FS!FailAndRemoveTemp
<1>1. CASE \E s \in Worlds, k \in BOOLEAN : FS!Begin(s, k)
  BY <1>1 DEF FS!Begin
<1>2. CASE FS!OpenTemp \/ FS!OpenTempFails
  BY <1>2 DEF FS!OpenTemp, FS!OpenTempFails, FS!Return, FS!call
<1>3. CASE FS!WriteTemp
  BY <1>3 DEF FS!WriteTemp, FS!call
<1>4. CASE Failing
  BY <1>4 DEF FS!FailAndRemoveTemp, FS!Return, FS!call
<1>5. CASE FS!Rotate
  BY <1>5 DEF FS!Rotate, FS!MustRotate, FS!call
<1>6. CASE FS!NoRotation
  BY <1>6 DEF FS!NoRotation, FS!MustRotate, FS!call
<1>7. CASE FS!Install
  BY <1>7 DEF FS!Install, FS!Return, FS!call
<1>8. CASE FS!Finish
  BY <1>8 DEF FS!Finish, FS!NoCallNext, FS!Nowhere
<1>9. CASE FS!Crash
  BY <1>9 DEF FS!Crash, FS!NoCallNext, FS!Nowhere
<1>10. CASE UNCHANGED FS!vars
  BY <1>10 DEF FS!vars
<1>11. FS!WriteTempFails \/ FS!RotateFails \/ FS!InstallFails => Failing
  BY DEF FS!WriteTempFails, FS!RotateFails, FS!InstallFails
<1>12. QED
  BY <1>1, <1>2, <1>3, <1>4, <1>5, <1>6, <1>7, <1>8, <1>9, <1>10, <1>11 DEF FS!Next, FS!Step

LEMMA StoreStays == ASSUME SInv, UNCHANGED store PROVE FS!IInv' /\ Found' = Found
<1>1. UNCHANGED FS!vars
  BY DEF store, FS!vars
<1>2. FS!IInv'
  BY <1>1, StoreInvariant DEF SInv
<1>3. QED
  BY <1>2 DEF store, Found

LEMMA CallBegins ==
  ASSUME SInv, NEW s \in Worlds, NEW k \in BOOLEAN, FS!Begin(s, k)
  PROVE  FS!IInv' /\ Found' = Found
<1>1. FS!IInv'
  BY StoreInvariant DEF FS!Next, SInv
<1>2. QED
  BY <1>1 DEF FS!Begin, Found

----------------------------------------------------------------------------
(* Starting and dying. *)

LEMMA BootPreservesSInv ==
  ASSUME SInv, NEW w \in Worlds, NEW c \in {"turn", "exit"}, NEW a \in BOOLEAN, Boot(w, c, a)
  PROVE  SInv'
<1>1. FS!IInv' /\ Found' = Found
  BY StoreStays DEF Boot
<1>2. Ids(w) \in Builds \cup {NoIds}
  BY DEF Ids, Worlds
<1>3. pc = "idle" /\ writer = "none"
  BY DEF SInv, WriterOK, TypeOK, Boot
<1>4. /\ phase' \in {"ending", "play"} /\ ended' \in {"", "error"}
      /\ reports' = 0 /\ world' = w /\ running' = Ids(w) /\ asked' = a /\ turned' = FALSE
      /\ pc' = pc /\ UNCHANGED <<writer, acked, undo>>
  BY DEF Boot, store
<1>5. /\ armed' = a
      /\ cadence' \in {"turn", "exit"} /\ watched' \in {Ids(w), NoIds}
      /\ watching' = (armed' /\ cadence' = "turn" /\ watched' # NoIds)
  BY Zenon DEF Boot, Arm
<1>6. TypeOK'
  BY <1>1, <1>2, <1>3, <1>4, <1>5 DEF SInv, TypeOK, FS!IInv
<1>7. AckedOK' /\ UndoOK' /\ WriterOK'
  BY <1>1, <1>3, <1>4 DEF SInv, AckedOK, UndoOK, WriterOK
<1>8. ArmedOK'
  <2>1. reports' = 0
    BY DEF Boot
  <2>2. reports' <= 1
    BY <2>1
  <2>3. QED
    BY <1>4, <1>5, <2>2, Zenon DEF ArmedOK
<1>9. CompletedTurnIsOnDisk' /\ CleanExitIsSaved'
  BY <1>4 DEF CompletedTurnIsOnDisk, CleanExitIsSaved
<1>10. QED
  BY <1>1, <1>6, <1>7, <1>8, <1>9 DEF SInv

(* Until a write has installed its state, what was acknowledged before it  *)
(* can be recovered.                                                       *)
LEMMA StillRecoverable ==
  ASSUME SInv, ~JustInstalled, acked # NoWorld
  PROVE  path = acked \/ (path = Absent /\ bak = acked)
<1>1. CASE pc = "idle"
  BY <1>1 DEF SInv, AckedOK, Found
<1>2. CASE pc # "idle"
  <2>1. before.path = acked \/ (before.path = Absent /\ before.bak = acked)
    BY <1>2 DEF SInv, AckedOK, Found
  <2>2. \/ path = before.path /\ bak = before.bak
        \/ before.path # Absent /\ path = Absent /\ bak = before.path
    BY <1>2 DEF SInv, JustInstalled, FS!IInv, FS!TypeOK, FS!CallInv, FS!WriteContract
  <2>3. QED
    BY <2>1, <2>2
<1>3. QED
  BY <1>1, <1>2

LEMMA KillPreservesSInv == ASSUME SInv, Kill PROVE SInv'
<1>1. FS!IInv' /\ pc' = "idle" /\ path' = path /\ bak' = bak /\ outcome' = "none"
  <2>1. CASE pc = "idle"
    BY <2>1, StoreStays DEF Kill, store, SInv, FS!IInv, FS!CallInv
  <2>2. CASE pc # "idle"
    BY <2>2, StoreInvariant DEF Kill, SInv, FS!Next, FS!Crash, FS!NoCallNext
  <2>3. QED
    BY <2>1, <2>2
<1>2. Found' = [path |-> path, bak |-> bak]
  BY <1>1 DEF Found
<1>3. /\ phase' = "down" /\ ended' = "killed" /\ writer' = "none" /\ world' = NoWorld /\ running' = NoIds
      /\ UNCHANGED <<cadence, watched>>
  BY DEF Kill
<1>4. armed' = FALSE /\ watching' = FALSE /\ asked' = asked /\ turned' = turned
  BY DEF Kill
<1>5. reports' = reports
  BY DEF Kill
<1>6. /\ acked' = IF JustInstalled THEN bytes ELSE acked
      /\ undo' = IF writer = "none" THEN undo ELSE NoWorld
  BY DEF Kill
<1>7. acked' \in Worlds \cup {NoWorld} /\ undo' \in Worlds \cup {NoWorld}
  <2>1. JustInstalled => bytes \in Worlds
    BY DEF JustInstalled, SInv, FS!IInv, FS!TypeOK, FS!CallInv, FS!Saved
  <2>2. acked \in Worlds \cup {NoWorld} /\ undo \in Worlds \cup {NoWorld}
    BY DEF SInv, TypeOK
  <2>3. QED
    BY <1>6, <2>1, <2>2
<1>8. TypeOK'
  <2>1. reports' \in Nat /\ asked' \in BOOLEAN /\ turned' \in BOOLEAN
    BY <1>4, <1>5 DEF SInv, TypeOK
  <2>2. cadence' \in {"turn", "exit"} /\ watched' \in Builds \cup {NoIds}
    BY <1>3 DEF SInv, TypeOK
  <2>3. QED
    BY <1>1, <1>3, <1>4, <1>7, <2>1, <2>2 DEF TypeOK, FS!IInv
<1>9. AckedOK'
  <2>1. CASE JustInstalled
    BY <1>2, <1>6, <2>1 DEF AckedOK, JustInstalled, SInv, FS!IInv, FS!WriteContract
  <2>2. CASE ~JustInstalled
    BY <1>2, <1>6, <2>2, StillRecoverable DEF AckedOK
  <2>3. QED
    BY <2>1, <2>2
<1>10. UndoOK'
  <2>1. CASE writer = "none"
    <3>1. pc = "idle" /\ ~JustInstalled
      BY <2>1 DEF SInv, TypeOK, FS!IInv, FS!CallInv, JustInstalled
    <3>2. QED
      BY <1>2, <1>6, <2>1, <3>1 DEF UndoOK, Found, SInv
  <2>2. CASE writer # "none"
    BY <1>6, <2>2 DEF UndoOK
  <2>3. QED
    BY <2>1, <2>2
<1>11. WriterOK' /\ CompletedTurnIsOnDisk' /\ CleanExitIsSaved'
  BY <1>3 DEF WriterOK, CompletedTurnIsOnDisk, CleanExitIsSaved
<1>12. ArmedOK'
  <2>1. reports' <= 1
    BY <1>5 DEF SInv, ArmedOK
  <2>2. QED
    BY <1>3, <1>4, <2>1, Zenon DEF ArmedOK
<1>13. QED
  BY <1>1, <1>8, <1>9, <1>10, <1>11, <1>12 DEF SInv

----------------------------------------------------------------------------
(* Playing. *)

LEMMA FilesStay ==
  ASSUME SInv, UNCHANGED <<store, acked, undo>>
  PROVE  FS!IInv' /\ AckedOK' /\ UndoOK' /\ pc' = pc /\ path' = path
<1>1. FS!IInv' /\ Found' = Found
  BY StoreStays
<1>2. QED
  BY <1>1 DEF SInv, AckedOK, UndoOK, store

LEMMA WriteBegins ==
  ASSUME SInv, NEW s \in Worlds, NEW k \in BOOLEAN, FS!Begin(s, k), UNCHANGED <<acked, undo>>
  PROVE  /\ FS!IInv' /\ AckedOK' /\ UndoOK'
         /\ pc' = "open" /\ bytes' = s /\ keep' = k /\ path' = path
<1>1. FS!IInv' /\ Found' = Found
  BY CallBegins
<1>2. QED
  BY <1>1 DEF SInv, AckedOK, UndoOK, FS!Begin

(* Between two writes, a step of the game keeps autosave as it was. *)
LEMMA StepOfTheGame ==
  ASSUME SInv, phase # "down",
         phase' \in {"play", "turn", "ending"},
         world' \in Worlds,
         ended' \in {"", "clean", "error", "killed"},
         turned' \in BOOLEAN,
         UNCHANGED <<autosave, acked, undo, running, asked>>
  PROVE  ArmedOK' /\ CleanExitIsSaved' /\ (FS!IInv' /\ (writer' = "none" <=> pc' = "idle")
                                            /\ writer' \in {"none", "turn", "save", "exit"} => TypeOK')
<1>1. reports' = reports /\ armed' = armed /\ cadence' = cadence /\ watching' = watching /\ watched' = watched
  BY DEF autosave
<1>2. ArmedOK'
  <2>1. (armed' => reports' = 0) /\ reports' <= 1
    BY <1>1 DEF SInv, ArmedOK
  <2>2. asked' /\ reports' = 0 => armed'
    BY <1>1 DEF SInv, ArmedOK
  <2>3. QED
    BY <2>1, <2>2, Zenon DEF ArmedOK
<1>3. CleanExitIsSaved'
  BY DEF CleanExitIsSaved
<1>4. ASSUME FS!IInv', writer' = "none" <=> pc' = "idle", writer' \in {"none", "turn", "save", "exit"}
      PROVE  TypeOK'
  <2>1. FS!TypeOK'
    BY <1>4 DEF FS!IInv
  <2>2. /\ phase' \in {"down", "play", "turn", "ending"}
        /\ world' \in Worlds \cup {NoWorld}
        /\ ended' \in {"", "clean", "error", "killed"}
        /\ running' = running /\ asked' = asked /\ acked' = acked /\ undo' = undo
    OBVIOUS
  <2>3. QED
    BY <1>1, <1>4, <2>1, <2>2, Zenon DEF SInv, TypeOK
<1>5. QED
  BY <1>2, <1>3, <1>4

LEMMA WorldsMove ==
  ASSUME NEW w \in Worlds
  PROVE  Begun(w) \in Worlds /\ (MayPlay(w) => Completed(w) \in Worlds)
<1>1. CASE w = Half
  BY <1>1 DEF Begun, Completed, Worlds
<1>2. CASE w # Half
  <2>1. w \in [build : Builds, turn : 0..MaxTurn, at : {"boundary", "mid"}]
    BY <1>2 DEF Worlds
  <2>2. Begun(w) \in Worlds
    BY <1>2, <2>1 DEF Begun, Worlds
  <2>3. ASSUME MayPlay(w)
        PROVE  Completed(w) \in Worlds
    <3>1. w.turn + 1 \in 0..MaxTurn
      BY <1>2, <2>1, <2>3, SessionAssumption DEF MayPlay
    <3>2. QED
      BY <1>2, <2>1, <3>1 DEF Completed, Worlds
  <2>4. QED
    BY <2>2, <2>3
<1>3. QED
  BY <1>1, <1>2

(* Between two writes nothing is being written. *)
LEMMA IdleFacts ==
  ASSUME SInv, Idle
  PROVE  pc = "idle" /\ (phase # "down" => world \in Worlds)
  BY DEF SInv, TypeOK, Idle, ArmedOK

LEMMA TurnBeginsPreservesSInv == ASSUME SInv, TurnBegins PROVE SInv'
<1>1. FS!IInv' /\ AckedOK' /\ UndoOK' /\ pc' = pc
  BY FilesStay DEF TurnBegins, history
<1>2. phase' = "turn" /\ writer' = "none" /\ pc = "idle" /\ world' \in Worlds
  BY IdleFacts, WorldsMove DEF TurnBegins, Idle
<1>3. ArmedOK' /\ CleanExitIsSaved' /\ TypeOK'
  <2>1. phase # "down" /\ ended' \in {"", "clean", "error", "killed"} /\ turned' \in BOOLEAN
    BY DEF TurnBegins, SInv, TypeOK, history
  <2>2. QED
    BY <1>1, <1>2, <2>1, StepOfTheGame DEF TurnBegins, history
<1>4. WriterOK' /\ CompletedTurnIsOnDisk'
  BY <1>2 DEF WriterOK, CompletedTurnIsOnDisk
<1>5. QED
  BY <1>1, <1>3, <1>4 DEF SInv

(* The hook keeps the universe it is given, or does nothing. *)
LEMMA TurnEndsPreservesSInv == ASSUME SInv, TurnEnds PROVE SInv'
<1>1. /\ phase = "play" \/ phase = "turn"
      /\ phase' = "play" /\ Idle /\ pc = "idle" /\ world' \in Worlds /\ turned' = TRUE
      /\ UNCHANGED <<autosave, acked, undo, running, ended, asked>>
  BY IdleFacts, WorldsMove DEF TurnEnds, Idle
<1>2. phase # "down" /\ ended' \in {"", "clean", "error", "killed"} /\ turned' \in BOOLEAN
  BY <1>1 DEF TurnEnds, SInv, TypeOK
<1>3. CASE watching /\ running = watched
  <2>1. FS!Begin(world', TRUE) /\ writer' = "turn"
    BY <1>3 DEF TurnEnds, NoteDispatch, Checkpoint
  <2>2. FS!IInv' /\ AckedOK' /\ UndoOK' /\ pc' = "open" /\ bytes' = world' /\ keep' = TRUE
    BY <1>1, <2>1, WriteBegins
  <2>3. armed'
    BY <1>1, <1>3 DEF autosave, SInv, TypeOK
  <2>4. ArmedOK' /\ CleanExitIsSaved' /\ TypeOK'
    BY <1>1, <1>2, <2>1, <2>2, StepOfTheGame
  <2>5. WriterOK' /\ CompletedTurnIsOnDisk'
    BY <1>1, <2>1, <2>2, <2>3 DEF WriterOK, CompletedTurnIsOnDisk, Idle
  <2>6. QED
    BY <2>2, <2>4, <2>5 DEF SInv
<1>4. CASE ~(watching /\ running = watched)
  <2>1. UNCHANGED <<store, writer>>
    BY <1>4 DEF TurnEnds, NoteDispatch
  <2>2. FS!IInv' /\ AckedOK' /\ UndoOK' /\ pc' = pc /\ writer' = "none"
    BY <1>1, <2>1, FilesStay DEF Idle
  <2>3. ArmedOK' /\ CleanExitIsSaved' /\ TypeOK'
    BY <1>1, <1>2, <2>2, StepOfTheGame
  <2>4. WriterOK'
    BY <2>2 DEF WriterOK
  <2>5. CompletedTurnIsOnDisk'
    BY <1>1, <1>4 DEF CompletedTurnIsOnDisk, autosave
  <2>6. QED
    BY <2>2, <2>3, <2>4, <2>5 DEF SInv
<1>5. QED
  BY <1>3, <1>4

LEMMA SaveStatePreservesSInv == ASSUME SInv, SaveState PROVE SInv'
<1>1. /\ phase = "turn" /\ phase' = "turn" /\ world \in Worlds /\ world' = world /\ writer' = "save"
      /\ FS!Begin(world, FALSE)
      /\ UNCHANGED <<autosave, acked, undo, running, ended, asked>>
  BY IdleFacts DEF SaveState, history
<1>2. FS!IInv' /\ AckedOK' /\ UndoOK' /\ pc' = "open" /\ bytes' = world' /\ keep' = FALSE
  BY <1>1, WriteBegins
<1>3. ArmedOK' /\ CleanExitIsSaved' /\ TypeOK'
  <2>1. ended' \in {"", "clean", "error", "killed"} /\ turned' \in BOOLEAN
    BY DEF SaveState, SInv, TypeOK, history
  <2>2. QED
    BY <1>1, <1>2, <2>1, StepOfTheGame
<1>4. WriterOK' /\ CompletedTurnIsOnDisk'
  BY <1>1, <1>2 DEF WriterOK, CompletedTurnIsOnDisk
<1>5. QED
  BY <1>2, <1>3, <1>4 DEF SInv

LEMMA LoadThrowsPreservesSInv == ASSUME SInv, LoadThrows PROVE SInv'
<1>1. /\ phase = "turn" /\ phase' = "ending" /\ world' \in Worlds /\ writer' = "none" /\ pc = "idle"
      /\ UNCHANGED <<store, autosave, acked, undo, running, asked>>
  BY IdleFacts DEF LoadThrows, Worlds, history, Idle
<1>2. FS!IInv' /\ AckedOK' /\ UndoOK' /\ pc' = pc
  BY <1>1, FilesStay
<1>3. ArmedOK' /\ CleanExitIsSaved' /\ TypeOK'
  <2>1. ended' \in {"", "clean", "error", "killed"} /\ turned' \in BOOLEAN
    BY DEF LoadThrows, SInv, TypeOK, history
  <2>2. QED
    BY <1>1, <1>2, <2>1, StepOfTheGame
<1>4. WriterOK' /\ CompletedTurnIsOnDisk'
  BY <1>1 DEF WriterOK, CompletedTurnIsOnDisk
<1>5. QED
  BY <1>2, <1>3, <1>4 DEF SInv

LEMMA UnwindPreservesSInv == ASSUME SInv, Unwind PROVE SInv'
<1>1. /\ phase # "down" /\ phase' = "ending" /\ world' \in Worlds /\ writer' = "none" /\ pc = "idle"
      /\ UNCHANGED <<store, autosave, acked, undo, running, asked>>
  BY IdleFacts DEF Unwind, history, Idle
<1>2. FS!IInv' /\ AckedOK' /\ UndoOK' /\ pc' = pc
  BY <1>1, FilesStay
<1>3. ArmedOK' /\ CleanExitIsSaved' /\ TypeOK'
  <2>1. ended' \in {"", "clean", "error", "killed"} /\ turned' \in BOOLEAN
    BY DEF Unwind, SInv, TypeOK, history
  <2>2. QED
    BY <1>1, <1>2, <2>1, StepOfTheGame
<1>4. WriterOK' /\ CompletedTurnIsOnDisk'
  BY <1>1 DEF WriterOK, CompletedTurnIsOnDisk
<1>5. QED
  BY <1>2, <1>3, <1>4 DEF SInv

(* A load changes what is watched for, never whether autosave is on. *)
LEMMA LoadStatePreservesSInv == ASSUME SInv, LoadState PROVE SInv'
<1>1. PICK w \in {path} \cup [build : Builds, turn : KeptAt, at : {"mid"}] :
        w # Absent /\ world' = w /\ Rearm(w)
  BY DEF LoadState
<1>2. w \in Worlds
  <2>1. path # Absent => path \in Worlds
    BY DEF SInv, FS!IInv, FS!TypeOK, FS!NeverTorn, FS!Contents
  <2>2. [build : Builds, turn : KeptAt, at : {"mid"}] \subseteq Worlds
    BY SessionAssumption DEF Worlds
  <2>3. QED
    BY <1>1, <2>1, <2>2
<1>3. /\ phase = "turn" /\ phase' = phase /\ world' \in Worlds /\ turned' = FALSE /\ pc = "idle" /\ writer' = "none"
      /\ UNCHANGED <<store, acked, undo, running, ended, asked>>
  BY <1>1, <1>2, IdleFacts DEF LoadState, Idle
<1>4. armed' = armed /\ cadence' = cadence
  BY <1>1 DEF Rearm
<1>5. reports' = reports
  BY <1>1 DEF Rearm
<1>6. FS!IInv' /\ AckedOK' /\ UndoOK' /\ pc' = pc
  BY <1>3, FilesStay
<1>7. watched' \in Builds \cup {NoIds} /\ watching' = (armed' /\ cadence' = "turn" /\ watched' # NoIds)
  <2>1. Ids(w) \in Builds \cup {NoIds}
    BY <1>2 DEF Ids, Worlds
  <2>2. CASE armed
    BY <1>1, <1>4, <2>1, <2>2, Zenon DEF Rearm
  <2>3. CASE ~armed
    BY <1>1, <1>4, <2>3, Zenon DEF Rearm, SInv, TypeOK
  <2>4. QED
    BY <2>2, <2>3
<1>8. TypeOK'
  <2>1. /\ world' \in Worlds \cup {NoWorld} /\ watching' \in BOOLEAN
        /\ phase' = phase /\ turned' \in BOOLEAN /\ asked' = asked /\ acked' = acked /\ undo' = undo
        /\ running' = running /\ ended' = ended /\ writer' \in {"none", "turn", "save", "exit"}
        /\ writer' = "none" <=> pc' = "idle"
    BY <1>3, <1>6, <1>7
  <2>2. FS!TypeOK'
    BY <1>6 DEF FS!IInv
  <2>3. QED
    BY <1>4, <1>5, <1>7, <2>1, <2>2, Zenon DEF SInv, TypeOK
<1>9. ArmedOK'
  <2>1. (armed' => reports' = 0) /\ reports' <= 1
    BY <1>4, <1>5 DEF SInv, ArmedOK
  <2>2. asked' /\ reports' = 0 => armed'
    BY <1>3, <1>4, <1>5 DEF SInv, ArmedOK
  <2>3. QED
    BY <1>3, <2>1, <2>2, Zenon DEF ArmedOK
<1>10. WriterOK' /\ CompletedTurnIsOnDisk' /\ CleanExitIsSaved'
  BY <1>3 DEF WriterOK, CompletedTurnIsOnDisk, CleanExitIsSaved
<1>11. QED
  BY <1>6, <1>8, <1>9, <1>10 DEF SInv

----------------------------------------------------------------------------
(* Leaving, and the writes themselves. *)

(* Out of a session that autosave still watches leads only its last write. *)
LEMMA ExitPreservesSInv == ASSUME SInv, Exit PROVE SInv'
<1>1. /\ phase = "ending" /\ world \in Worlds /\ pc = "idle" /\ writer = "none"
      /\ UNCHANGED <<autosave, turned, acked, undo, running, ended, asked>>
  BY IdleFacts DEF Exit, history, Idle
<1>2. CASE armed
  <2>1. FS!Begin(world, TRUE) /\ writer' = "exit" /\ phase' = "ending" /\ world' = world
    BY <1>1, <1>2 DEF Exit, Checkpoint
  <2>2. FS!IInv' /\ AckedOK' /\ UndoOK' /\ pc' = "open" /\ bytes' = world' /\ keep' = TRUE
    BY <1>1, <2>1, WriteBegins
  <2>3. ArmedOK' /\ CleanExitIsSaved' /\ TypeOK'
    <3>1. ended' \in {"", "clean", "error", "killed"} /\ turned' \in BOOLEAN
      BY <1>1 DEF SInv, TypeOK
    <3>2. QED
      BY <1>1, <2>1, <2>2, <3>1, StepOfTheGame
  <2>4. WriterOK' /\ CompletedTurnIsOnDisk'
    BY <1>1, <1>2, <2>1, <2>2 DEF WriterOK, CompletedTurnIsOnDisk, autosave
  <2>5. QED
    BY <2>2, <2>3, <2>4 DEF SInv
<1>3. CASE ~armed
  <2>1. UNCHANGED <<store, writer, world>> /\ phase' = "down"
    BY <1>3 DEF Exit
  <2>2. FS!IInv' /\ AckedOK' /\ UndoOK' /\ pc' = pc
    BY <1>1, <2>1, FilesStay
  <2>3. armed' = armed /\ cadence' = cadence /\ watching' = watching /\ watched' = watched
    BY <1>1 DEF autosave
  <2>4. reports' = reports
    BY <1>1 DEF autosave
  <2>5. TypeOK'
    BY <1>1, <2>1, <2>2, <2>3, <2>4, Zenon DEF SInv, TypeOK, FS!IInv
  <2>6. ArmedOK' /\ CleanExitIsSaved'
    <3>1. ~(asked /\ reports = 0)
      BY <1>1, <1>3 DEF SInv, ArmedOK
    <3>2. reports' <= 1
      BY <2>4 DEF SInv, ArmedOK
    <3>3. QED
      BY <1>1, <1>3, <2>1, <2>3, <2>4, <3>1, <3>2, Zenon DEF ArmedOK, CleanExitIsSaved
  <2>7. WriterOK' /\ CompletedTurnIsOnDisk'
    BY <1>1, <2>1 DEF WriterOK, CompletedTurnIsOnDisk
  <2>8. QED
    BY <2>2, <2>5, <2>6, <2>7 DEF SInv
<1>4. QED
  BY <1>2, <1>3

(* The caller waits. *)
LEMMA WriteStepPreservesSInv == ASSUME SInv, WriteStep PROVE SInv'
<1>1. /\ pc # "idle" /\ pc' # "idle" /\ bytes' = bytes /\ keep' = keep /\ before' = before
  BY DEF WriteStep, FS!Step, FS!OpenTemp, FS!OpenTempFails, FS!WriteTemp, FS!WriteTempFails,
         FS!Rotate, FS!RotateFails, FS!NoRotation, FS!Install, FS!InstallFails,
         FS!FailAndRemoveTemp, FS!Return, FS!call
<1>2. FS!IInv'
  BY StoreInvariant DEF WriteStep, SInv, FS!Next
<1>3. Found' = Found
  BY <1>1 DEF Found
<1>4. UNCHANGED <<autosave, history, phase, writer, world, running, ended, asked>>
  BY DEF WriteStep
<1>5. writer # "none" /\ writer' # "none"
  BY <1>1, <1>4 DEF SInv, TypeOK
<1>6. /\ armed' = armed /\ cadence' = cadence /\ watching' = watching /\ watched' = watched
      /\ turned' = turned /\ acked' = acked /\ undo' = undo
  BY <1>4 DEF autosave, history
<1>7. reports' = reports
  BY <1>4 DEF autosave
<1>8. TypeOK'
  BY <1>1, <1>2, <1>4, <1>5, <1>6, <1>7, ZenonT(30) DEF SInv, TypeOK, FS!IInv
<1>9. AckedOK' /\ UndoOK' /\ WriterOK'
  BY <1>1, <1>3, <1>4, <1>6 DEF SInv, AckedOK, UndoOK, WriterOK
<1>10. ArmedOK'
  BY <1>4, <1>6, <1>7, Zenon DEF SInv, ArmedOK
<1>11. phase' # "down"
  BY <1>4, <1>5 DEF SInv, WriterOK, TypeOK
<1>12. CompletedTurnIsOnDisk' /\ CleanExitIsSaved'
  BY <1>5, <1>11 DEF CompletedTurnIsOnDisk, CleanExitIsSaved, Idle
<1>13. QED
  BY <1>2, <1>8, <1>9, <1>10, <1>12 DEF SInv

(* What the caller is told, it may believe; what it is not told of is      *)
(* still where it was.                                                     *)
LEMMA WriteReturnsPreservesSInv == ASSUME SInv, WriteReturns PROVE SInv'
<1>1. /\ pc = "returned" /\ pc' = "idle" /\ path' = path /\ bak' = bak
      /\ outcome \in {"ok", "failed"} /\ outcome' = "none"
  BY DEF WriteReturns, FS!Finish, FS!NoCallNext, SInv, FS!IInv, FS!TypeOK, FS!CallInv
<1>2. FS!IInv'
  BY StoreInvariant DEF WriteReturns, SInv, FS!Next
<1>3. Found' = [path |-> path, bak |-> bak] /\ Found = before
  BY <1>1 DEF Found
<1>4. /\ writer \in {"turn", "save", "exit"} /\ writer' = "none"
      /\ phase' = IF writer = "exit" THEN "down" ELSE phase
      /\ UNCHANGED <<turned, world, running, ended, asked>>
      /\ bytes = world /\ bytes \in Worlds /\ (keep <=> writer # "save")
  BY <1>1 DEF WriteReturns, SInv, TypeOK, WriterOK, FS!IInv, FS!TypeOK, FS!CallInv, FS!Saved
<1>5. phase # "down" /\ (phase' = "play" => writer = "turn") /\ (phase' = "down" => writer = "exit")
  BY <1>4 DEF SInv, WriterOK
<1>6. WriterOK'
  BY <1>4 DEF WriterOK
<1>7. CASE outcome = "ok"
  <2>1. /\ acked' = bytes /\ undo' = (IF writer = "save" THEN NoWorld ELSE acked) /\ UNCHANGED autosave
    BY <1>7 DEF WriteReturns
  <2>2. path = bytes /\ bak = IF keep /\ before.path # Absent THEN before.path ELSE before.bak
    BY <1>7 DEF SInv, FS!IInv, FS!WriteContract
  <2>3. armed' = armed /\ cadence' = cadence /\ watching' = watching /\ watched' = watched
    BY <2>1 DEF autosave
  <2>4. reports' = reports
    BY <2>1 DEF autosave
  <2>5. TypeOK'
    <3>1. acked \in Worlds \cup {NoWorld} /\ undo' \in Worlds \cup {NoWorld} /\ acked' \in Worlds \cup {NoWorld}
      BY <1>4, <2>1 DEF SInv, TypeOK
    <3>2. phase' \in {"down", "play", "turn", "ending"}
      BY <1>4 DEF SInv, TypeOK
    <3>3. QED
      BY <1>1, <1>2, <1>4, <2>3, <2>4, <3>1, <3>2, Zenon DEF SInv, TypeOK, FS!IInv
  <2>6. AckedOK'
    BY <1>1, <1>3, <2>1, <2>2 DEF AckedOK
  <2>7. UndoOK'
    <3>1. CASE writer = "save"
      BY <2>1, <3>1 DEF UndoOK
    <3>2. CASE writer # "save" /\ acked # NoWorld
      <4>1. acked # Absent /\ keep
        BY <1>4, <3>2, NoStateAssumption DEF SInv, TypeOK
      <4>2. before.path = acked \/ (before.path = Absent /\ before.bak = acked)
        BY <1>3, <3>2 DEF SInv, AckedOK
      <4>3. bak = acked
        BY <2>2, <4>1, <4>2
      <4>4. QED
        BY <1>3, <2>1, <3>2, <4>3 DEF UndoOK
    <3>3. QED
      BY <2>1, <3>1, <3>2 DEF UndoOK
  <2>8. ArmedOK'
    BY <1>4, <1>5, <2>3, <2>4, Zenon DEF SInv, ArmedOK
  <2>9. CompletedTurnIsOnDisk' /\ CleanExitIsSaved'
    BY <1>1, <1>4, <2>2 DEF CompletedTurnIsOnDisk, CleanExitIsSaved
  <2>10. QED
    BY <1>2, <1>6, <2>5, <2>6, <2>7, <2>8, <2>9 DEF SInv
<1>8. CASE outcome = "failed"
  <2>1. /\ acked' = acked /\ undo' = undo /\ (IF writer = "save" THEN UNCHANGED autosave ELSE Fail)
    BY <1>8 DEF WriteReturns
  <2>2. \/ path = before.path /\ bak = before.bak
        \/ before.path # Absent /\ path = Absent /\ bak = before.path
    BY <1>8 DEF SInv, FS!IInv, FS!WriteContract
  <2>3. AckedOK'
    BY <1>3, <1>8, <2>1, StillRecoverable DEF AckedOK, JustInstalled
  <2>4. UndoOK'
    <3>1. acked # Absent
      BY NoStateAssumption DEF SInv, TypeOK
    <3>2. undo # NoWorld /\ before.path = acked => before.bak = undo
      BY <1>3 DEF SInv, UndoOK
    <3>3. QED
      BY <1>3, <2>1, <2>2, <3>1, <3>2 DEF UndoOK
  <2>5. CASE writer = "save"
    <3>1. armed' = armed /\ cadence' = cadence /\ watching' = watching /\ watched' = watched
      BY <2>1, <2>5 DEF autosave
    <3>2. reports' = reports
      BY <2>1, <2>5 DEF autosave
    <3>3. TypeOK'
      BY <1>1, <1>2, <1>4, <2>1, <2>5, <3>1, <3>2, Zenon DEF SInv, TypeOK, FS!IInv
    <3>4. ArmedOK'
      BY <1>4, <1>5, <3>1, <3>2, Zenon DEF SInv, ArmedOK
    <3>5. CompletedTurnIsOnDisk' /\ CleanExitIsSaved'
      BY <1>4, <1>5, <2>5 DEF CompletedTurnIsOnDisk, CleanExitIsSaved
    <3>6. QED
      BY <1>2, <1>6, <2>3, <2>4, <3>3, <3>4, <3>5 DEF SInv
  <2>6. CASE writer # "save"
    <3>1. reports' = 1
      <4>1. reports = 0
        BY <1>4, <2>6 DEF SInv, WriterOK, ArmedOK
      <4>2. QED
        BY <2>1, <2>6, <4>1 DEF Fail
    <3>2. ~armed' /\ watching' = FALSE /\ armed' = FALSE /\ cadence' = cadence /\ watched' = watched
      BY <2>1, <2>6, Zenon DEF Fail
    <3>3. reports' \in Nat /\ reports' <= 1 /\ reports' # 0
      BY <3>1
    <3>4. phase' \in {"down", "play", "turn", "ending"}
      BY <1>4 DEF SInv, TypeOK
    <3>5. TypeOK'
      BY <1>1, <1>2, <1>4, <2>1, <3>2, <3>3, <3>4, Zenon DEF SInv, TypeOK, FS!IInv
    <3>6. ArmedOK'
      BY <1>4, <1>5, <3>2, <3>3, Zenon DEF SInv, ArmedOK
    <3>7. CompletedTurnIsOnDisk' /\ CleanExitIsSaved'
      BY <3>2, <3>3, Zenon DEF CompletedTurnIsOnDisk, CleanExitIsSaved
    <3>8. QED
      BY <1>2, <1>6, <2>3, <2>4, <3>5, <3>6, <3>7 DEF SInv
  <2>7. QED
    BY <2>5, <2>6
<1>9. QED
  BY <1>1, <1>7, <1>8

----------------------------------------------------------------------------
(* The theorems. *)

LEMMA InitEstablishesSInv == Init => SInv
<1> SUFFICES ASSUME Init PROVE SInv
  OBVIOUS
<1>1. FS!IInv
  <2>1. before \in [path : FS!Contents, bak : FS!Contents]
    BY DEF Init, FS!Nowhere, FS!Contents
  <2>2. FS!TypeOK
    BY <2>1 DEF Init, FS!TypeOK, FS!Contents, FS!Saved
  <2>3. FS!NeverTorn /\ FS!CallInv /\ FS!WriteContract
    <3>1. path = Absent /\ bak = Absent /\ pc = "idle" /\ outcome = "none" /\ bytes = Absent
      BY DEF Init
    <3>2. FS!NeverTorn
      BY <3>1, NoStateAssumption DEF FS!NeverTorn
    <3>3. FS!CallInv
      BY <3>1 DEF FS!CallInv
    <3>4. FS!WriteContract
      <4>1. outcome # "ok" /\ outcome # "failed"
        BY <3>1
      <4>2. QED
        BY <4>1, Zenon DEF FS!WriteContract
    <3>5. QED
      BY <3>2, <3>3, <3>4
  <2>4. QED
    BY <2>2, <2>3 DEF FS!IInv
<1>2. reports = 0 /\ reports \in Nat /\ reports <= 1
  <2>1. reports = 0
    BY Zenon DEF Init
  <2>2. QED
    BY <2>1
<1>3. TypeOK
  <2>1. {acked, undo} \subseteq Worlds \cup {NoWorld}
    BY DEF Init
  <2>2. {asked, turned} \subseteq BOOLEAN
    BY DEF Init
  <2>3. QED
    BY <1>1, <1>2, <2>1, <2>2, Zenon DEF Init, TypeOK, FS!IInv
<1>4. AckedOK /\ UndoOK
  BY DEF Init, AckedOK, UndoOK
<1>5. WriterOK
  BY DEF Init, WriterOK
<1>6. ArmedOK
  BY <1>2, Zenon DEF Init, ArmedOK
<1>7. CompletedTurnIsOnDisk /\ CleanExitIsSaved
  BY DEF Init, CompletedTurnIsOnDisk, CleanExitIsSaved
<1>8. QED
  BY <1>1, <1>3, <1>4, <1>5, <1>6, <1>7 DEF SInv

LEMMA StutterPreservesSInv == ASSUME SInv, UNCHANGED vars PROVE SInv'
<1>1. /\ FS!IInv' /\ AckedOK' /\ UndoOK' /\ UNCHANGED <<store, autosave, history, asked, phase, writer, world, running, ended>>
  BY FilesStay DEF vars, history
<1>2. /\ path' = path /\ pc' = pc /\ bytes' = bytes /\ keep' = keep
      /\ armed' = armed /\ cadence' = cadence /\ watching' = watching /\ watched' = watched
      /\ turned' = turned /\ acked' = acked /\ undo' = undo
  BY <1>1 DEF store, autosave, history
<1>3. reports' = reports
  BY <1>1 DEF autosave
<1>4. TypeOK'
  <2>1. TypeOK
    BY DEF SInv
  <2>2. FS!TypeOK'
    BY <1>1 DEF FS!IInv
  <2>3. UNCHANGED <<phase, writer, world, running, asked, ended>>
    BY <1>1
  <2> QED BY <1>2, <1>3, <2>1, <2>2, <2>3, ZenonT(30) DEF TypeOK
<1>5. WriterOK'
  <2>1. writer' = writer /\ phase' = phase /\ world' = world
    BY <1>1
  <2>2. WriterOK
    BY DEF SInv
  <2> QED BY <1>2, <2>1, <2>2, Zenon DEF WriterOK
<1>6. ArmedOK'
  BY <1>1, <1>2, <1>3, Zenon DEF SInv, ArmedOK
<1>7. CompletedTurnIsOnDisk' /\ CleanExitIsSaved'
  BY <1>1, <1>2, <1>3, Zenon DEF SInv, CompletedTurnIsOnDisk, CleanExitIsSaved, Idle
<1>8. QED
  BY <1>1, <1>4, <1>5, <1>6, <1>7 DEF SInv

LEMMA StepPreservesSInv == SInv /\ [Next]_vars => SInv'
<1> SUFFICES ASSUME SInv, [Next]_vars PROVE SInv'
  OBVIOUS
<1>1. CASE StartFresh
  <2>1. PICK b \in Builds, c \in {"turn", "exit"}, a \in BOOLEAN : Boot(Fresh(b), c, a)
    BY <1>1 DEF StartFresh
  <2>2. Fresh(b) \in Worlds
    BY SessionAssumption DEF Fresh, Worlds
  <2>3. QED
    BY <2>1, <2>2, BootPreservesSInv
<1>2. CASE Resume
  <2>1. path \in Worlds
    BY <1>2 DEF Resume, SInv, FS!IInv, FS!TypeOK, FS!NeverTorn, FS!Contents
  <2>2. QED
    BY <1>2, <2>1, BootPreservesSInv DEF Resume
<1>3. CASE Kill
  BY <1>3, KillPreservesSInv
<1>4. CASE TurnBegins
  BY <1>4, TurnBeginsPreservesSInv
<1>5. CASE TurnEnds
  BY <1>5, TurnEndsPreservesSInv
<1>6. CASE SaveState
  BY <1>6, SaveStatePreservesSInv
<1>7. CASE LoadState
  BY <1>7, LoadStatePreservesSInv
<1>8. CASE LoadThrows
  BY <1>8, LoadThrowsPreservesSInv
<1>9. CASE Unwind
  BY <1>9, UnwindPreservesSInv
<1>10. CASE Exit
  BY <1>10, ExitPreservesSInv
<1>11. CASE WriteStep
  BY <1>11, WriteStepPreservesSInv
<1>12. CASE WriteReturns
  BY <1>12, WriteReturnsPreservesSInv
<1>13. CASE UNCHANGED vars
  BY <1>13, StutterPreservesSInv
<1>14. QED
  BY <1>1, <1>2, <1>3, <1>4, <1>5, <1>6, <1>7, <1>8, <1>9, <1>10, <1>11, <1>12, <1>13 DEF Next, Work

(* Autosave.hh, FileStorage.cc: the files and what autosave believes of    *)
(* them stay consistent through turns, loads, failures, exits and kills.   *)
THEOREM Invariance == Spec => []SInv
<1>1. Init => SInv
  BY InitEstablishesSInv
<1>2. SInv /\ [Next]_vars => SInv'
  BY StepPreservesSInv
<1>3. QED
  BY <1>1, <1>2, PTL DEF Spec

(* Autosave.cc: the flag Object::dispatch tests is what updateWatch_ would *)
(* compute, and a write is in progress only for the caller waiting for it. *)
THEOREM TypeCorrect == Spec => []TypeOK
<1>1. SInv => TypeOK
  BY DEF SInv
<1>2. QED
  BY <1>1, Invariance, PTL

(* README.md:89: the turn just completed is on disk at the next prompt.    *)
THEOREM CompletedTurnIsOnDiskHolds == Spec => []CompletedTurnIsOnDisk
<1>1. SInv => CompletedTurnIsOnDisk
  BY DEF SInv
<1>2. QED
  BY <1>1, Invariance, PTL

(* Autosave.cc:96-98: a clean exit has saved its last state, or reported   *)
(* that it could not.                                                      *)
THEOREM CleanExitIsSavedHolds == Spec => []CleanExitIsSaved
<1>1. SInv => CleanExitIsSaved
  BY DEF SInv
<1>2. QED
  BY <1>1, Invariance, PTL

(* Autosave.hh:58-60: one report, and silence for the rest of the session. *)
THEOREM FailureIsReportedOnceHolds == Spec => []FailureIsReportedOnce
<1>1. SInv => FailureIsReportedOnce
  BY DEF SInv, ArmedOK, FailureIsReportedOnce
<1>2. QED
  BY <1>1, Invariance, PTL

(* Whatever a write reported as installed is in the file or its backup     *)
(* through every later failure, kill and restart (FileStorage.cc:128-129). *)
THEOREM AcknowledgedStateSurvivesHolds == Spec => []AcknowledgedStateSurvives
<1>1. SInv => AcknowledgedStateSurvives
  BY StillRecoverable DEF AcknowledgedStateSurvives
<1>2. QED
  BY <1>1, Invariance, PTL

(* README.md:95: the backup is one checkpoint behind, a turn of undo.      *)
THEOREM BackupIsOneCheckpointBehindHolds == Spec => []BackupIsOneCheckpointBehind
<1>1. SInv => BackupIsOneCheckpointBehind
  BY DEF SInv, UndoOK, TypeOK, Found, Idle, BackupIsOneCheckpointBehind
<1>2. QED
  BY <1>1, Invariance, PTL

(* Autosave.cc, SystemObject.cc: however a session is driven, its files    *)
(* change only by writeBytesAtomically's own steps, so that everything     *)
(* proved of that procedure holds of the sessions built on it.             *)
THEOREM SessionsUseFileStore == Spec => FS!Spec
<1>1. Init => FS!Init
  BY DEF Init, FS!Init, FS!Saved
<1>2. SInv /\ [Next]_vars => [FS!Next]_(FS!vars)
  <2> SUFFICES ASSUME SInv, [Next]_vars PROVE [FS!Next]_(FS!vars)
    OBVIOUS
  <2>1. UNCHANGED store => UNCHANGED FS!vars
    BY DEF store, FS!vars
  <2>2. CASE StartFresh \/ Resume
    BY <2>1, <2>2 DEF StartFresh, Resume, Boot
  <2>3. CASE Kill
    BY <2>1, <2>3 DEF Kill, FS!Next
  <2>4. CASE TurnBegins \/ LoadState \/ LoadThrows \/ Unwind
    BY <2>1, <2>4 DEF TurnBegins, LoadState, LoadThrows, Unwind
  <2>5. CASE TurnEnds
    <3>1. world' \in Worlds
      BY <2>5, IdleFacts, WorldsMove DEF TurnEnds
    <3>2. QED
      BY <2>1, <2>5, <3>1 DEF TurnEnds, NoteDispatch, Checkpoint, FS!Next
  <2>6. CASE SaveState \/ Exit
    <3>1. world \in Worlds
      BY <2>6, IdleFacts DEF SaveState, Exit
    <3>2. QED
      BY <2>1, <2>6, <3>1 DEF SaveState, Exit, Checkpoint, FS!Next
  <2>7. CASE Work
    BY <2>7 DEF Work, WriteStep, WriteReturns, FS!Next
  <2>8. CASE UNCHANGED vars
    BY <2>1, <2>8 DEF vars
  <2>9. QED
    BY <2>2, <2>3, <2>4, <2>5, <2>6, <2>7, <2>8 DEF Next
<1>3. QED
  BY <1>1, <1>2, Invariance, PTL DEF Spec, FS!Spec
=============================================================================
