---------------------------- MODULE DurableSlot ----------------------------
(***************************************************************************)
(* What a caller of writeBytesAtomically is promised, with the files left  *)
(* out: a slot that holds one whole saved state, or none.  A new state is  *)
(* offered, and is later installed in one step or given up.  Nothing else, *)
(* a crash included, changes what the slot holds.                          *)
(***************************************************************************)
CONSTANTS
    States,   \* the whole saved states
    None      \* no state

VARIABLES
    stable,   \* what survives if the process dies now
    offered   \* the state a write in progress wants to install, or None

vars == <<stable, offered>>

Init ==
    /\ stable \in States \cup {None}
    /\ offered = None

Offer ==
    /\ offered = None
    /\ offered' \in States
    /\ UNCHANGED stable

Install ==
    /\ offered # None
    /\ stable' = offered
    /\ offered' = None

\* A failure or a crash: the slot keeps what it had.
GiveUp ==
    /\ offered # None
    /\ offered' = None
    /\ UNCHANGED stable

Next == Offer \/ Install \/ GiveUp

Spec == Init /\ [][Next]_vars
=============================================================================
