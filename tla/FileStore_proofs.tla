-------------------------- MODULE FileStore_proofs --------------------------
(***************************************************************************)
(* FileStore's invariants, and that it implements DurableSlot, for every   *)
(* set of states.                                                          *)
(***************************************************************************)
EXTENDS FileStore, TLAPS

USE FileContentsDistinct

LEMMA InitEstablishesIInv == Init => IInv
<1> SUFFICES ASSUME Init
             PROVE  IInv
  OBVIOUS
<1> USE DEF Init
<1>1. TypeOK
  <2>1. before \in [path : Contents, bak : Contents]
    BY DEF Nowhere, Contents
  <2>2. QED
    BY <2>1 DEF TypeOK, Contents, Saved
<1>2. NeverTorn
  BY DEF NeverTorn, Saved
<1>3. CallInv /\ WriteContract
  BY DEF CallInv, WriteContract
<1>4. QED
  BY <1>1, <1>2, <1>3 DEF IInv

(* A call's first step records what it found. *)
LEMMA BeginPreservesIInv ==
  ASSUME IInv, NEW s \in States, NEW k \in BOOLEAN, Begin(s, k)
  PROVE  IInv'
  BY DEF Begin, IInv, TypeOK, NeverTorn, CallInv, WriteContract, Contents, Saved

(* A step that returns FALSE moves neither file. *)
LEMMA FailPreservesIInv ==
  ASSUME IInv, pc \in {"write", "rotate", "install"}, FailAndRemoveTemp
  PROVE  IInv'
<1> USE DEF FailAndRemoveTemp, Return, call
<1>1. TypeOK' /\ NeverTorn' /\ CallInv'
  BY DEF IInv, TypeOK, NeverTorn, CallInv, Contents, Saved
<1>2. WriteContract'
  BY DEF IInv, TypeOK, CallInv, WriteContract, Contents, Saved
<1>3. QED
  BY <1>1, <1>2 DEF IInv

LEMMA StepPreservesIInv == IInv /\ [Next]_vars => IInv'
<1> SUFFICES ASSUME IInv, [Next]_vars
             PROVE  IInv'
  OBVIOUS
<1> USE DEF IInv, TypeOK, NeverTorn, CallInv, WriteContract, Contents, Saved
<1>1. CASE \E s \in States, k \in BOOLEAN : Begin(s, k)
  BY <1>1, BeginPreservesIInv
<1>2. CASE OpenTemp
  BY <1>2 DEF OpenTemp, call
<1>3. CASE OpenTempFails
  BY <1>3 DEF OpenTempFails, Return, call
<1>4. CASE WriteTemp
  BY <1>4 DEF WriteTemp, call
<1>5. CASE WriteTempFails
  BY <1>5, FailPreservesIInv DEF WriteTempFails
<1>6. CASE Rotate
  BY <1>6 DEF Rotate, MustRotate, call
<1>7. CASE RotateFails
  BY <1>7, FailPreservesIInv DEF RotateFails
<1>8. CASE NoRotation
  BY <1>8 DEF NoRotation, MustRotate, call
<1>9. CASE Install
  BY <1>9 DEF Install, Return, call
<1>10. CASE InstallFails
  BY <1>10, FailPreservesIInv DEF InstallFails
<1>11. CASE Finish
  BY <1>11 DEF Finish, NoCallNext, Nowhere
<1>12. CASE Crash
  BY <1>12 DEF Crash, NoCallNext, Nowhere
<1>13. CASE UNCHANGED vars
  BY <1>13 DEF vars
<1>14. QED
  BY <1>1, <1>2, <1>3, <1>4, <1>5, <1>6, <1>7, <1>8, <1>9, <1>10, <1>11, <1>12, <1>13
     DEF Next, Step

(* FileStorage.cc:103-148: the invariant holds of every call, failure and  *)
(* crash.                                                                  *)
THEOREM Invariance == Spec => []IInv
<1>1. Init => IInv
  BY InitEstablishesIInv
<1>2. IInv /\ [Next]_vars => IInv'
  BY StepPreservesIInv
<1>3. QED
  BY <1>1, <1>2, PTL DEF Spec

(* FileStorage.hh:63: path is never left partially written. *)
THEOREM NeverTornHolds == Spec => []NeverTorn
<1>1. IInv => NeverTorn
  BY DEF IInv
<1>2. QED
  BY <1>1, Invariance, PTL

(* FileStorage.cc:103-148: what TRUE and FALSE mean to the caller. *)
THEOREM WriteContractHolds == Spec => []WriteContract
<1>1. IInv => WriteContract
  BY DEF IInv
<1>2. QED
  BY <1>1, Invariance, PTL

----------------------------------------------------------------------------
(* Refinement. *)

LEMMA InitRefines == Init => Slot!Init
  BY DEF Init, Slot!Init, Stable, Offered, Saved

LEMMA StepRefines == IInv /\ [Next]_vars => [Slot!Next]_(Slot!vars)
<1> SUFFICES ASSUME IInv, [Next]_vars
             PROVE  [Slot!Next]_(Slot!vars)
  OBVIOUS
<1> USE DEF Stable, Offered, Slot!vars, Slot!Next
<1>1. ASSUME NEW s \in States, NEW k \in BOOLEAN, Begin(s, k)
      PROVE  Slot!Offer
  BY <1>1 DEF Begin, Slot!Offer
<1>2. ASSUME Offered # Absent, pc' \in {"idle", "returned"}, UNCHANGED <<path, bak>>
      PROVE  Slot!GiveUp
  BY <1>2 DEF Slot!GiveUp
<1>3. CASE OpenTemp \/ WriteTemp \/ NoRotation
  BY <1>3 DEF OpenTemp, WriteTemp, NoRotation, call
<1>4. CASE OpenTempFails \/ WriteTempFails \/ RotateFails \/ InstallFails
  BY <1>2, <1>4 DEF OpenTempFails, WriteTempFails, RotateFails, InstallFails,
                    FailAndRemoveTemp, Return, IInv, CallInv
<1>5. CASE Rotate
  BY <1>5 DEF Rotate, MustRotate, call
<1>6. CASE Install
  <2>1. Stable' = bytes /\ Offered = bytes /\ Offered' = Absent
    BY <1>6 DEF Install, Return, IInv, TypeOK, CallInv
  <2>2. QED
    BY <1>6, <2>1 DEF Slot!Install, IInv, CallInv, Install
<1>7. CASE Finish \/ Crash
  BY <1>2, <1>7 DEF Finish, Crash, NoCallNext, IInv, CallInv
<1>8. CASE UNCHANGED vars
  BY <1>8 DEF vars
<1>9. QED
  BY <1>1, <1>3, <1>4, <1>5, <1>6, <1>7, <1>8 DEF Next, Step

(* FileStorage.cc:128-129: "nothing is ever lost". *)
THEOREM Refinement == Spec => NothingIsEverLost
<1>1. Init => Slot!Init
  BY InitRefines
<1>2. IInv /\ [Next]_vars => [Slot!Next]_(Slot!vars)
  BY StepRefines
<1>3. QED
  BY <1>1, <1>2, Invariance, PTL DEF Spec, NothingIsEverLost, Slot!Spec
=============================================================================
