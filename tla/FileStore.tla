----------------------------- MODULE FileStore -----------------------------
(***************************************************************************)
(* writeBytesAtomically (FileStorage.cc): the bytes go to path + ".tmp",   *)
(* the old contents may be rotated to path + ".bak", and the temporary is  *)
(* renamed over path.  Each file-system call is a step of its own, may     *)
(* fail, and the process may die between any two of them; a rename is      *)
(* atomic, and there is no power loss (FileStorage.hh:68-69).              *)
(***************************************************************************)
CONSTANTS
    States,   \* the serialized universes a caller may ask to install
    Absent,   \* there is no such file
    Torn      \* a file holding only part of the bytes meant for it

ASSUME FileContentsDistinct ==
    Absent \notin States /\ Torn \notin States /\ Absent # Torn

VARIABLES
    path, bak, tmp,   \* contents of path, path + ".bak", path + ".tmp"
    pc,               \* where the call in progress stands; "idle" if none
    bytes, keep,      \* its arguments bytes and keep_backup
    outcome,          \* what it returned, until the caller has looked at it
    before            \* history: path and path + ".bak" as the call found them

vars == <<path, bak, tmp, pc, bytes, keep, outcome, before>>
call == <<bytes, keep, before>>

Contents == States \cup {Absent, Torn}
Saved    == States \cup {Absent}
Nowhere  == [path |-> Absent, bak |-> Absent]

TypeOK ==
    /\ path \in Contents /\ bak \in Contents /\ tmp \in Contents
    /\ pc \in {"idle", "open", "write", "rotate", "install", "returned"}
    /\ bytes \in Saved
    /\ keep \in BOOLEAN
    /\ outcome \in {"none", "ok", "failed"}
    /\ before \in [path : Contents, bak : Contents]

\* A temporary file may be left over from a process that died earlier.
Init ==
    /\ path \in Saved /\ bak \in Saved /\ tmp \in {Absent, Torn}
    /\ pc = "idle" /\ outcome = "none"
    /\ bytes = Absent /\ keep = FALSE /\ before = Nowhere

----------------------------------------------------------------------------
(* The steps of one call. *)

Begin(s, k) ==
    /\ pc = "idle"
    /\ pc' = "open"
    /\ bytes' = s
    /\ keep' = k
    /\ before' = [path |-> path, bak |-> bak]
    /\ outcome' = "none"
    /\ UNCHANGED <<path, bak, tmp>>

Return(result) ==
    /\ pc' = "returned"
    /\ outcome' = result
    /\ UNCHANGED call

\* Opening truncates whatever stood at the temporary name.
OpenTemp ==
    /\ pc = "open"
    /\ pc' = "write"
    /\ tmp' = Torn
    /\ UNCHANGED <<path, bak, outcome, call>>

OpenTempFails ==
    /\ pc = "open"
    /\ Return("failed")
    /\ UNCHANGED <<path, bak, tmp>>

\* write() of every byte, and commit() reporting that the stream is good.
WriteTemp ==
    /\ pc = "write"
    /\ pc' = "rotate"
    /\ tmp' = bytes
    /\ UNCHANGED <<path, bak, outcome, call>>

\* Every failure past this point tries to remove the temporary file, and
\* ignores whether that worked.  What a left-over one holds does not matter:
\* nobody reads it, and the next call truncates it.
FailAndRemoveTemp ==
    /\ Return("failed")
    /\ tmp' \in {Absent, Torn}
    /\ UNCHANGED <<path, bak>>

\* A bug this module must be able to see: commit() is not looked at.
CommitUnchecked ==
    /\ pc = "write"
    /\ pc' = "rotate"
    /\ UNCHANGED <<path, bak, tmp, outcome, call>>

WriteTempFails ==
    /\ pc = "write"
    /\ FailAndRemoveTemp

MustRotate == keep /\ path # Absent

Rotate ==
    /\ pc = "rotate"
    /\ MustRotate
    /\ pc' = "install"
    /\ bak' = path
    /\ path' = Absent
    /\ UNCHANGED <<tmp, outcome, call>>

\* A bug: the call goes on although the old file could not be rotated.
RotateFailureIgnored ==
    /\ pc = "rotate"
    /\ MustRotate
    /\ pc' = "install"
    /\ UNCHANGED <<path, bak, tmp, outcome, call>>

RotateFails ==
    /\ pc = "rotate"
    /\ MustRotate
    /\ FailAndRemoveTemp

\* A bug: the old file is removed to make room for the rename.
RemoveInsteadOfReplace ==
    /\ pc = "rotate"
    /\ ~MustRotate
    /\ pc' = "install"
    /\ path' = Absent
    /\ UNCHANGED <<bak, tmp, outcome, call>>

NoRotation ==
    /\ pc = "rotate"
    /\ ~MustRotate
    /\ pc' = "install"
    /\ UNCHANGED <<path, bak, tmp, outcome, call>>

\* A bug: the bytes are copied over path, and the copy can stop part way.
CopyIntoPlace ==
    /\ pc = "install"
    /\ Return("ok")
    /\ path' \in {tmp, Torn}
    /\ tmp' = Absent
    /\ UNCHANGED bak

Install ==
    /\ pc = "install"
    /\ Return("ok")
    /\ path' = tmp
    /\ tmp' = Absent
    /\ UNCHANGED bak

InstallFails ==
    /\ pc = "install"
    /\ FailAndRemoveTemp

\* The call's arguments and locals are gone with it.
NoCallNext ==
    /\ pc' = "idle" /\ outcome' = "none"
    /\ bytes' = Absent /\ keep' = FALSE /\ before' = Nowhere

\* The caller has looked at the result, and the call is over.
Finish ==
    /\ pc = "returned"
    /\ NoCallNext
    /\ UNCHANGED <<path, bak, tmp>>

\* The process dies in the middle of the call.
Crash ==
    /\ pc # "idle"
    /\ NoCallNext
    /\ tmp' = IF tmp = Absent THEN Absent ELSE Torn
    /\ UNCHANGED <<path, bak>>

Step ==
    \/ OpenTemp \/ OpenTempFails
    \/ WriteTemp \/ WriteTempFails
    \/ Rotate \/ RotateFails \/ NoRotation
    \/ Install \/ InstallFails

Next ==
    \/ \E s \in States, k \in BOOLEAN : Begin(s, k)
    \/ Step
    \/ Finish
    \/ Crash

Spec == Init /\ [][Next]_vars

----------------------------------------------------------------------------
(* Properties. *)

\* What a restart can recover: the file, or its backup while the file is
\* missing (README.md:95, "copy it back over the save").
Stable == IF path # Absent THEN path ELSE bak

Offered == IF pc \in {"idle", "returned"} THEN Absent ELSE bytes

Slot == INSTANCE DurableSlot
            WITH None <- Absent, stable <- Stable, offered <- Offered

\* Whatever fails and whenever the process dies, what can be recovered changes
\* only from one whole state to the next, in one step, and only when the call
\* installs the state it was given (FileStorage.cc:128-129, "a crash between
\* the two renames leaves the previous state in the .bak, so nothing is ever
\* lost").
NothingIsEverLost == Slot!Spec

\* Neither path nor the backup is ever partially written (FileStorage.hh:63),
\* whatever a crash leaves behind.
NeverTorn == path # Torn /\ bak # Torn

\* What a return value tells the caller about the two files.  True: path holds
\* the new bytes, and with keep_backup the .bak is what path held before.
\* False: nothing moved, or the old contents moved to the .bak.
WriteContract ==
    /\ outcome = "ok" =>
         /\ path = bytes
         /\ bak = IF keep /\ before.path # Absent THEN before.path ELSE before.bak
    /\ outcome = "failed" =>
         \/ path = before.path /\ bak = before.bak
         \/ keep /\ before.path # Absent /\ path = Absent /\ bak = before.path

\* FileStorage.hh:71-72: "Returns false and fills error_out on failure, in
\* which case path is left as it was."
FailureLeavesPathAsItWas == outcome = "failed" => path = before.path

----------------------------------------------------------------------------
(* The inductive invariant behind them. *)

CallInv ==
    /\ bytes = Absent <=> pc = "idle"
    /\ outcome = "none" <=> pc # "returned"
    /\ pc \in {"rotate", "install"} => tmp = bytes
    /\ pc \in {"open", "write", "rotate"} =>
         path = before.path /\ bak = before.bak
    /\ pc = "install" =>
         IF keep /\ before.path # Absent
         THEN path = Absent /\ bak = before.path
         ELSE path = before.path /\ bak = before.bak

IInv == TypeOK /\ NeverTorn /\ CallInv /\ WriteContract
=============================================================================
