------------------------------ MODULE Session ------------------------------
(***************************************************************************)
(* A --perform/--source session with --autosave (main.cc, Autosave.cc, the *)
(* hook in Object::dispatch and SystemObject's SAVE STATE and LOAD STATE): *)
(* turns are played, checkpoints are written through FileStore, the game   *)
(* saves over the autosave file and loads other files, the game quits,     *)
(* fails or is killed at any step, and the player starts again.            *)
(***************************************************************************)
EXTENDS Naturals

CONSTANTS
    Builds,      \* compiled games whose saves the player may load
    Quiet,       \* those with no 'main' answering 'UPDATE'
    MaxTurn,     \* bound: turns in one line of play
    KeptAt,      \* bound: the turns at which saves were kept in other files
    Absent, Torn,
    Half,        \* the universe that a load which threw has half replaced
    NoWorld, NoIds

ASSUME SessionAssumption ==
    /\ Quiet \subseteq Builds
    /\ MaxTurn \in Nat
    /\ KeptAt \subseteq 0..MaxTurn
    /\ NoIds \notin Builds

(* What the universe holds, as far as saving it is concerned: the game, how *)
(* many turns were completed, and whether it stands between two turns or    *)
(* inside one; or what a load that threw half way has left.                 *)
Worlds ==
    [build : Builds, turn : 0..MaxTurn, at : {"boundary", "mid"}] \cup {Half}

\* What stands for no state is none.
ASSUME NoStateAssumption == {Absent, Torn, NoWorld} \cap Worlds = {} /\ Absent \notin {Torn, NoWorld}

VARIABLES
    path, bak, tmp, pc, bytes, keep, outcome, before,   \* FileStore
    phase,     \* "down", "play" (between turns), "turn", "ending"
    writer,    \* whose write is in progress: "none", "turn", "save", "exit"
    world,     \* the Universe; NoWorld when no process runs
    running,   \* the ids of the main object whose methods are executing
    armed, cadence, watching,   \* Autosave's armed_, cadence_, watchingTurns_
    watched,   \* its mainObjectId_ and updateMessageId_
    reports,   \* failures reported on stderr in this session
    ended,     \* how the last process ended: "", "clean", "error", "killed"
    asked,     \* history: this process was started with --autosave
    turned,    \* history: a turn was completed in this universe
    acked,     \* history: the last state a write reported as installed
    undo       \* history: what acked was before the last checkpoint

store    == <<path, bak, tmp, pc, bytes, keep, outcome, before>>
autosave == <<armed, cadence, watching, watched, reports>>
history  == <<turned, acked, undo>>
vars     == <<store, autosave, history, asked, phase, writer, world, running, ended>>

FS == INSTANCE FileStore WITH States <- Worlds

\* resolveIds_: getObject("main") and Messages.find("UPDATE").
Ids(w) == IF w = Half \/ w.build \in Quiet THEN NoIds ELSE w.build

\* Types, and what ties the variables together: the flag that Object::dispatch
\* tests is what updateWatch_ would compute now, and a write has one caller.
TypeOK ==
    /\ FS!TypeOK
    /\ phase \in {"down", "play", "turn", "ending"}
    /\ writer \in {"none", "turn", "save", "exit"}
    /\ world \in Worlds \cup {NoWorld}
    /\ running \in Builds \cup {NoIds} /\ watched \in Builds \cup {NoIds}
    /\ armed \in BOOLEAN /\ watching \in BOOLEAN
    /\ cadence \in {"turn", "exit"}
    /\ reports \in Nat
    /\ ended \in {"", "clean", "error", "killed"}
    /\ {acked, undo} \subseteq Worlds \cup {NoWorld} /\ {asked, turned} \subseteq BOOLEAN
    /\ watching = (armed /\ cadence = "turn" /\ watched # NoIds)
    /\ writer = "none" <=> pc = "idle"

Fresh(b) == [build |-> b, turn |-> 0, at |-> "boundary"]

Init ==
    /\ path = Absent /\ bak = Absent /\ tmp = Absent
    /\ pc = "idle" /\ outcome = "none"
    /\ bytes = Absent /\ keep = FALSE /\ before = FS!Nowhere
    /\ phase = "down" /\ writer = "none" /\ ended = ""
    /\ world = NoWorld /\ running = NoIds
    /\ armed = FALSE /\ cadence = "turn" /\ watching = FALSE
    /\ watched = NoIds /\ reports = 0
    /\ asked = FALSE /\ turned = FALSE /\ acked = NoWorld /\ undo = NoWorld

----------------------------------------------------------------------------
(* Autosave. *)

\* arm(): with no turn boundary to watch, fall back to saving at exit.
Arm(w, requested) ==
    /\ armed' = TRUE
    /\ watched' = Ids(w)
    /\ cadence' = IF Ids(w) = NoIds THEN "exit" ELSE requested
    /\ watching' = (cadence' = "turn" /\ Ids(w) # NoIds)

\* A bug: a load that loses the turn boundary also gives up the exit save.
RearmOrDisarm(w) ==
    /\ watched' = IF armed THEN Ids(w) ELSE watched
    /\ watching' = (armed /\ cadence = "turn" /\ Ids(w) # NoIds)
    /\ armed' = (armed /\ Ids(w) # NoIds)
    /\ UNCHANGED <<cadence, reports>>

\* rearm(): the ids of the universe that was just loaded, cadence_ unchanged.
Rearm(w) ==
    /\ watched' = IF armed THEN Ids(w) ELSE watched
    /\ watching' = IF armed THEN cadence = "turn" /\ Ids(w) # NoIds ELSE watching
    /\ UNCHANGED <<armed, cadence, reports>>

\* A bug: the failure is reported but autosave stays on.
ReportOnly ==
    /\ reports' = reports + 1
    /\ UNCHANGED <<armed, cadence, watching, watched>>

\* A bug: autosave goes off without a word.
DisarmQuietly ==
    /\ armed' = FALSE /\ watching' = FALSE
    /\ UNCHANGED <<cadence, watched, reports>>

\* A bug: disarm() leaves the watching flag as it was.
DisarmKeepsWatching ==
    /\ reports' = reports + 1
    /\ armed' = FALSE
    /\ UNCHANGED <<cadence, watching, watched>>

\* fail_(): report, then disarm for the rest of the session.
Fail ==
    /\ reports' = reports + 1
    /\ armed' = FALSE /\ watching' = FALSE
    /\ UNCHANGED <<cadence, watched>>

\* A bug: keepBackup_ is not passed on.
CheckpointWithoutBackup(w) == FS!Begin(w, FALSE)

\* checkpoint(): the whole universe, the old file kept as a backup.
Checkpoint(w) == FS!Begin(w, TRUE)

----------------------------------------------------------------------------
(* Processes. *)

Boot(w, requested, autosaving) ==
    /\ phase = "down"
    /\ world' = w
    /\ running' = Ids(w)
    /\ IF autosaving
       THEN Arm(w, requested)
       ELSE /\ armed' = FALSE /\ watching' = FALSE
            /\ cadence' = "turn" /\ watched' = NoIds
    /\ reports' = 0
    /\ asked' = autosaving
    /\ turned' = FALSE
    \* Without a 'main' object the first dispatch throws (update_universe.cc:98-101).
    /\ IF w = Half
       THEN phase' = "ending" /\ ended' = "error"
       ELSE phase' = "play" /\ ended' = ""
    /\ UNCHANGED <<store, writer, acked, undo>>

\* From the distributed game or its source, with the target derived from it.
StartFresh == \E b \in Builds, c \in {"turn", "exit"}, a \in BOOLEAN : Boot(Fresh(b), c, a)

\* From the autosave file itself; a missing file is refused before arming.
Resume ==
    /\ path # Absent
    /\ \E c \in {"turn", "exit"}, a \in BOOLEAN : Boot(path, c, a)

\* A write has installed its state, and its caller has yet to be told.
JustInstalled == outcome = "ok"

\* ^C, a closed terminal, a crash: no exit code runs.
Kill ==
    /\ phase # "down"
    /\ phase' = "down" /\ ended' = "killed" /\ writer' = "none"
    /\ world' = NoWorld /\ running' = NoIds
    /\ armed' = FALSE /\ watching' = FALSE
    /\ undo' = IF writer = "none" THEN undo ELSE NoWorld
    /\ acked' = IF JustInstalled THEN bytes ELSE acked
    /\ IF pc = "idle" THEN UNCHANGED store ELSE FS!Crash
    /\ UNCHANGED <<cadence, watched, reports, asked, turned>>

----------------------------------------------------------------------------
(* Turns: START's loop sends 'UPDATE' to main until something throws. *)

Idle == writer = "none"

\* What a turn makes of the universe; one half replaced stays that.
Begun(w)     == IF w = Half THEN Half ELSE [w EXCEPT !.at = "mid"]
Completed(w) == IF w = Half THEN Half
                ELSE [w EXCEPT !.at = "boundary", !.turn = @ + 1]
MayPlay(w)   == w # Half => w.turn < MaxTurn

TurnBegins ==
    /\ phase = "play" /\ Idle
    /\ MayPlay(world)
    /\ phase' = "turn"
    /\ world' = Begun(world)
    /\ UNCHANGED <<store, autosave, history, writer, running, ended, asked>>

\* A bug: the hook runs before the method instead of after it.
NoteDispatchFirst(w) ==
    IF watching /\ running = watched
    THEN Checkpoint(world) /\ writer' = "turn"
    ELSE UNCHANGED <<store, writer>>

\* Object::dispatch's hook and noteDispatch.
NoteDispatch(w) ==
    IF watching /\ running = watched
    THEN Checkpoint(w) /\ writer' = "turn"
    ELSE UNCHANGED <<store, writer>>

TurnEnds ==
    /\ phase = "turn" /\ Idle
    /\ MayPlay(world)
    /\ phase' = "play"
    /\ world' = Completed(world)
    /\ turned' = TRUE
    /\ NoteDispatch(world')
    /\ UNCHANGED <<autosave, acked, undo, running, ended, asked>>

\* 'SAVE STATE' naming the autosave file: same write, no backup.
SaveState ==
    /\ phase = "turn" /\ Idle
    /\ FS!Begin(world, FALSE)
    /\ writer' = "save"
    /\ UNCHANGED <<autosave, history, phase, world, running, ended, asked>>

\* 'LOAD STATE' of the autosave file or of a save kept elsewhere.  The loop
\* that is executing still runs the methods of the main object it replaced.
LoadState ==
    /\ phase = "turn" /\ Idle
    /\ \E w \in {path} \cup [build : Builds, turn : KeptAt, at : {"mid"}] :
         /\ w # Absent
         /\ world' = w
         /\ Rearm(w)
    /\ turned' = FALSE
    /\ UNCHANGED <<store, acked, undo, phase, writer, running, ended, asked>>

\* The file is refused at its header, or breaks off in the middle: the
\* exception leaves the turn with the universe untouched or half replaced.
LoadThrows ==
    /\ phase = "turn" /\ Idle
    /\ phase' = "ending" /\ ended' = "error"
    /\ world' \in {world, Half}
    /\ UNCHANGED <<store, autosave, history, writer, running, asked>>

\* 'stop' or end of input throws QuitGame; any other error, std::exception;
\* or START returns.  In a turn or between two of them.
Unwind ==
    /\ phase \in {"play", "turn"} /\ Idle
    /\ phase' = "ending"
    /\ ended' \in {"clean", "error"}
    /\ UNCHANGED <<store, autosave, history, writer, world, running, asked>>

\* checkpoint_at_exit(), on every way out of main.
Exit ==
    /\ phase = "ending" /\ Idle
    /\ IF armed
       THEN /\ Checkpoint(world)
            /\ writer' = "exit"
            /\ UNCHANGED <<phase, world>>
       ELSE /\ phase' = "down"
            /\ UNCHANGED <<store, writer, world>>
    /\ UNCHANGED <<autosave, history, running, ended, asked>>

WriteStep ==
    /\ FS!Step
    /\ UNCHANGED <<autosave, history, phase, writer, world, running, ended, asked>>

\* A bug: the result of writeUniverseAtomically is not looked at.
TrustTheWrite ==
    /\ FS!Finish
    /\ writer' = "none"
    /\ acked' = bytes
    /\ undo' = IF writer = "save" THEN NoWorld ELSE acked
    /\ phase' = IF writer = "exit" THEN "down" ELSE phase
    /\ UNCHANGED <<autosave, turned, world, running, ended, asked>>

\* The write returns to checkpoint() or to 'SAVE STATE'.
WriteReturns ==
    /\ FS!Finish
    /\ writer' = "none"
    /\ IF outcome = "ok"
       THEN /\ acked' = bytes
            /\ undo' = IF writer = "save" THEN NoWorld ELSE acked
            /\ UNCHANGED autosave
       ELSE /\ UNCHANGED <<acked, undo>>
            /\ IF writer = "save" THEN UNCHANGED autosave ELSE Fail
    /\ phase' = IF writer = "exit" THEN "down" ELSE phase
    /\ UNCHANGED <<turned, world, running, ended, asked>>

\* What the process does of itself once a turn or the exit has begun a write.
Work == WriteStep \/ WriteReturns

Next ==
    \/ StartFresh \/ Resume \/ Kill
    \/ TurnBegins \/ TurnEnds \/ SaveState \/ LoadState \/ LoadThrows \/ Unwind
    \/ Exit \/ Work

Spec == Init /\ [][Next]_vars /\ WF_vars(Work)

----------------------------------------------------------------------------
(* Properties. *)

\* While turns are being watched, the turn just completed is on disk whenever
\* the game is back at its prompt, whatever was loaded or saved before it
\* (README.md:89, the per-turn cadence).
CompletedTurnIsOnDisk ==
    phase = "play" /\ Idle /\ watching /\ running = watched /\ turned
        => path = world

\* A process that was armed and left by quit or ^D without a reported failure
\* has its last state on disk, even if a load lost the turn boundary
\* (Autosave.cc:96-98, "degrades to an exit-time save rather than to nothing").
CleanExitIsSaved ==
    phase = "down" /\ ended = "clean" /\ asked /\ reports = 0 => path = world

\* A failed checkpoint is reported once and nothing is tried again in that
\* session, a later LOAD STATE included (Autosave.hh:58-60).
FailureIsReportedOnce == reports <= 1

\* Whatever a write reported as installed stays in the file or its backup
\* through every later failure, crash and restart, until a newer one is.
AcknowledgedStateSurvives ==
    acked # NoWorld /\ ~JustInstalled => acked \in {path, bak}

\* One turn of undo (README.md:95): beside the last acknowledged state, the
\* backup holds the one acknowledged before it.
BackupIsOneCheckpointBehind ==
    Idle /\ undo # NoWorld /\ path = acked => bak = undo

\* A watched turn that completes reaches the disk, or autosave says that it
\* failed, unless the process dies (Autosave.hh:58-60).
NoQuietFailure ==
    \A w \in {Completed(w) : w \in {v \in Worlds : MayPlay(v)}} :
        (writer = "turn" /\ world = w) ~> (path = w \/ reports > 0 \/ phase = "down")

\* main.cc:118-119: checkpoint_at_exit "captures a clean exit through quit or
\* ^D"; the file then never holds a universe that a load left half replaced.
OnlyWholeUniversesAreSaved == path # Half
=============================================================================
