----------------------------- MODULE SlotTable -----------------------------
(***************************************************************************)
(* What the users of an IdIndex rely on: a key keeps one slot until it is  *)
(* removed, no two keys share one, a new key takes the lowest slot no key  *)
(* has, and a table that comes back from a save hands out the slots that   *)
(* the saved one would have.  Holes, the registry and its length are the   *)
(* implementation's business.                                                               *)
(***************************************************************************)
EXTENDS Naturals, Functions

CONSTANT Keys

VARIABLES
    owner,    \* the slot of each key in the table
    saved     \* the table last saved

vars == <<owner, saved>>

\* No key of the table has slot n, and every slot below n is some key's.
LowestUnused(n) == n \in Nat \ Range(owner) /\ 0..n-1 \subseteq Range(owner)

Empty == [k \in {} |-> 0]

Init ==
    /\ owner = Empty
    /\ saved = Empty

Bind(k) ==
    /\ k \notin DOMAIN owner
    /\ DOMAIN owner' = DOMAIN owner \cup {k}
    /\ Restrict(owner', DOMAIN owner) = owner
    /\ LowestUnused(owner'[k])
    /\ UNCHANGED saved

Unbind(k) ==
    /\ k \in DOMAIN owner
    /\ owner' = Restrict(owner, DOMAIN owner \ {k})
    /\ UNCHANGED saved

Save ==
    /\ saved' = owner
    /\ UNCHANGED owner

Restore ==
    /\ owner' = saved
    /\ UNCHANGED saved

\* A save that is refused leaves an empty table.
Clear ==
    /\ owner' = Empty
    /\ UNCHANGED saved

Next ==
    \/ \E k \in Keys : Bind(k) \/ Unbind(k)
    \/ Save \/ Restore \/ Clear

Spec == Init /\ [][Next]_vars
=============================================================================
