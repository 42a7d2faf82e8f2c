--------------------------- MODULE IdIndex_proofs ---------------------------
(***************************************************************************)
(* Proofs about IdIndex, for every set of keys: the index invariant, the   *)
(* round trip through a file, and that the index implements SlotTable.     *)
(***************************************************************************)
EXTENDS IdIndex, WellFoundedInduction, TLAPS

(* The minimum of a set of naturals is one of them and below the others.   *)
LEMMA MinOfNats ==
    ASSUME NEW S \in SUBSET Nat, S # {}
    PROVE  Min(S) \in S /\ \A y \in S : Min(S) <= y
<1>1. PICK m \in S : \A y \in S : ~ (<<y, m>> \in OpToRel(<, Nat))
  BY NatLessThanWellFounded, WFMin
<1>2. \A y \in S : m <= y
  <2> SUFFICES ASSUME NEW y \in S PROVE m <= y
    OBVIOUS
  <2>1. ~ (y < m)
    BY <1>1 DEF OpToRel
  <2> QED BY <2>1
<1>3. \E z \in S : \A y \in S : z <= y
  BY <1>2
<1> QED BY <1>3 DEF Min

(* The slot that index() gives a new key is the lowest that no key has.    *)
LEMMA NextSlotIsLowest ==
    ASSUME NEW x, IsIndex(x)
    PROVE  /\ NextSlot(x) \in Nat \ Range(x.index)
           /\ 0..NextSlot(x)-1 \subseteq Range(x.index)
           /\ x.free = {} => NextSlot(x) = x.size
           /\ x.free # {} => NextSlot(x) \in x.free
<1> DEFINE n == NextSlot(x)
<1>1. \A i \in 0..x.size-1 \ x.free : i \in Range(x.index)
  BY DEF IsIndex, Consistent, Range
<1>2. CASE x.free = {}
  <2>1. n = x.size /\ n \in Nat
    BY <1>2 DEF NextSlot, IsIndex, Consistent
  <2>2. n \notin Range(x.index)
    BY <2>1 DEF IsIndex, Consistent, Range
  <2> QED BY <1>1, <1>2, <2>1, <2>2
<1>3. CASE x.free # {}
  <2>1. x.free \in SUBSET Nat
    BY DEF IsIndex, Consistent
  <2>2. n \in x.free /\ \A y \in x.free : n <= y
    BY <1>3, <2>1, MinOfNats DEF NextSlot
  <2>3. n \in 0..x.size-1
    BY <2>2 DEF IsIndex, Consistent
  <2>4. n \notin Range(x.index)
    BY <2>2 DEF IsIndex, Consistent, Range
  <2>5. \A i \in 0..n-1 : i \in 0..x.size-1 \ x.free
    BY <2>2, <2>3 DEF IsIndex, Consistent
  <2> QED BY <1>1, <1>3, <2>2, <2>3, <2>4, <2>5
<1> QED BY <1>2, <1>3

(* index() of a new key keeps an index an index.                           *)
LEMMA IndexedIsIndex ==
    ASSUME NEW x, IsIndex(x), NEW k \in Keys, k \notin DOMAIN x.index
    PROVE  IsIndex(Indexed(x, k))
<1> DEFINE i == NextSlot(x)
           y == Indexed(x, k)
<1>1. /\ i \in Nat /\ i \notin Range(x.index)
      /\ x.free = {} => i = x.size
      /\ x.free # {} => i \in x.free
  BY NextSlotIsLowest
<1> HIDE DEF i
<1>2. /\ y = [index |-> y.index, registry |-> y.registry, size |-> y.size, free |-> y.free]
      /\ y.index = [j \in DOMAIN x.index \cup {k} |-> IF j = k THEN i ELSE x.index[j]]
      /\ y.registry = [j \in DOMAIN x.registry \cup {i} |-> IF j = i THEN k ELSE x.registry[j]]
      /\ y.size = IF x.free = {} THEN x.size + 1 ELSE x.size
      /\ y.free = x.free \ {i}
  BY DEF Indexed, i
<1> HIDE DEF y
<1>3. y.size \in Nat /\ i \in 0..y.size-1 /\ x.size <= y.size
  BY <1>1, <1>2 DEF IsIndex, Consistent
<1>4. DOMAIN y.registry = 0..y.size-1
  BY <1>1, <1>2, <1>3 DEF IsIndex, Consistent
<1>5. y.registry \in [0..y.size-1 -> Keys \cup {Blank}]
  BY <1>2, <1>4 DEF IsIndex, Consistent
<1>6. y.index \in [DOMAIN y.index -> 0..y.size-1] /\ DOMAIN y.index \subseteq Keys
  BY <1>2, <1>3 DEF IsIndex, Consistent
<1>7. y.free \subseteq 0..y.size-1 /\ i \notin y.free
  BY <1>2, <1>3 DEF IsIndex, Consistent
<1>8. \A j \in DOMAIN y.index : y.index[j] \notin y.free /\ y.registry[y.index[j]] = j
  <2> SUFFICES ASSUME NEW j \in DOMAIN y.index
               PROVE  y.index[j] \notin y.free /\ y.registry[y.index[j]] = j
    OBVIOUS
  <2>1. CASE j = k
    BY <1>2, <1>3, <2>1
  <2>2. CASE j # k
    <3>1. j \in DOMAIN x.index /\ y.index[j] = x.index[j] /\ x.index[j] # i
      BY <1>1, <1>2, <2>2 DEF Range
    <3>2. x.index[j] \in DOMAIN x.registry
      BY <3>1 DEF IsIndex, Consistent
    <3> QED BY <1>2, <3>1, <3>2 DEF IsIndex, Consistent
  <2> QED BY <2>1, <2>2
<1>9. \A j \in 0..y.size-1 \ y.free :
         y.registry[j] \in DOMAIN y.index /\ y.index[y.registry[j]] = j
  <2> SUFFICES ASSUME NEW j \in 0..y.size-1 \ y.free
               PROVE  y.registry[j] \in DOMAIN y.index /\ y.index[y.registry[j]] = j
    OBVIOUS
  <2>1. CASE j = i
    BY <1>2, <2>1
  <2>2. CASE j # i
    <3>1. j \in 0..x.size-1 \ x.free
      BY <1>1, <1>2, <1>3, <2>2 DEF IsIndex, Consistent
    <3>2. y.registry[j] = x.registry[j] /\ x.registry[j] \in DOMAIN x.index
          /\ x.index[x.registry[j]] = j
      BY <1>2, <2>2, <3>1 DEF IsIndex, Consistent
    <3> QED BY <1>2, <3>2
  <2> QED BY <2>1, <2>2
<1>10. \A j \in y.free : y.registry[j] = Blank
  BY <1>2 DEF IsIndex, Consistent
<1>11. y.size > 0 => y.size-1 \notin y.free
  BY <1>1, <1>2, <1>7 DEF IsIndex, Consistent, NoHoleAtTheEnd
<1>12. IsIndex(y)
  BY <1>2, <1>3, <1>5, <1>6, <1>7, <1>8, <1>9, <1>10, <1>11 DEF IsIndex, Consistent, NoHoleAtTheEnd
<1> QED BY <1>12 DEF y

(* Popping free slots off the end leaves an index.                         *)
LEMMA TrimmedIsIndex ==
    ASSUME NEW x, Consistent(x)
    PROVE  IsIndex(Trimmed(x)) /\ Trimmed(x).index = x.index
<1> DEFINE T == {m \in 0..x.size : m..x.size-1 \subseteq x.free}
           P(m) == m..x.size-1 \subseteq x.free /\ (m > 0 => m-1 \notin x.free)
           n == CHOOSE m \in 0..x.size : P(m)
           y == Trimmed(x)
<1>1. n \in 0..x.size /\ P(n)
  <2>1. x.size \in T /\ T \in SUBSET Nat
    BY DEF Consistent
  <2>2. Min(T) \in T /\ \A m \in T : Min(T) <= m
    BY <2>1, MinOfNats
  <2>3. PICK m \in T : \A j \in T : m <= j
    BY <2>2
  <2>4. m > 0 => m-1 \notin x.free
    <3> SUFFICES ASSUME m > 0, m-1 \in x.free
                 PROVE  FALSE
      OBVIOUS
    <3>1. m-1 \in 0..x.size /\ m-1 < m
      BY DEF Consistent
    <3>2. \A j \in m-1..x.size-1 : j = m-1 \/ j \in m..x.size-1
      BY DEF Consistent
    <3>3. m-1 \in T
      BY <3>1, <3>2
    <3> QED BY <2>3, <3>1, <3>3
  <2>5. \E j \in 0..x.size : P(j)
    BY <2>4
  <2> QED BY <2>5
<1>2. /\ y = [index |-> y.index, registry |-> y.registry, size |-> y.size, free |-> y.free]
      /\ y.index = x.index
      /\ y.registry = Restrict(x.registry, 0..n-1)
      /\ y.size = n
      /\ y.free = x.free \cap 0..n-1
  <2>1. x = [index |-> x.index, registry |-> x.registry, size |-> x.size, free |-> x.free]
    BY DEF Consistent
  <2>2. y = [x EXCEPT !.registry = Restrict(@, 0..n-1), !.size = n, !.free = @ \cap 0..n-1]
    BY DEF Trimmed
  <2> HIDE DEF n, y
  <2> QED BY <2>1, <2>2
<1> HIDE DEF n, y
<1>3. 0..n-1 \subseteq 0..x.size-1 /\ n \in Nat
  BY <1>1 DEF Consistent
<1>4. y.registry \in [0..y.size-1 -> Keys \cup {Blank}]
  BY <1>2, <1>3 DEF Consistent, Restrict
<1>5. \A k \in DOMAIN x.index : x.index[k] \in 0..n-1
  <2> SUFFICES ASSUME NEW k \in DOMAIN x.index, x.index[k] \notin 0..n-1
               PROVE  FALSE
    OBVIOUS
  <2>1. x.index[k] \in n..x.size-1
    BY <1>1 DEF Consistent
  <2> QED BY <1>1, <2>1 DEF Consistent
<1>6. y.index \in [DOMAIN y.index -> 0..y.size-1]
  BY <1>2, <1>5 DEF Consistent
<1>7. \A k \in DOMAIN y.index : y.index[k] \notin y.free /\ y.registry[y.index[k]] = k
  BY <1>2, <1>5 DEF Consistent, Restrict
<1>8. \A i \in 0..y.size-1 \ y.free :
         y.registry[i] \in DOMAIN y.index /\ y.index[y.registry[i]] = i
  BY <1>2, <1>3 DEF Consistent, Restrict
<1>9. \A i \in y.free : y.registry[i] = Blank
  BY <1>2, <1>3 DEF Consistent, Restrict
<1>10. NoHoleAtTheEnd(y)
  BY <1>1, <1>2 DEF NoHoleAtTheEnd
<1>11. DOMAIN y.index \subseteq Keys /\ y.free \subseteq 0..y.size-1
  BY <1>2 DEF Consistent
<1>12. IsIndex(y)
  BY <1>2, <1>3, <1>4, <1>6, <1>7, <1>8, <1>9, <1>10, <1>11 DEF IsIndex, Consistent
<1> QED BY <1>2, <1>12 DEF y

(* remove() of an occupied slot leaves an index without that slot's key.   *)
LEMMA RemovedIsIndex ==
    ASSUME NEW x, IsIndex(x), NEW i \in 0..x.size-1 \ x.free
    PROVE  /\ IsIndex(Removed(x, i))
           /\ x.registry[i] \in DOMAIN x.index
           /\ Removed(x, i).index = Restrict(x.index, DOMAIN x.index \ {x.registry[i]})
<1> DEFINE k == x.registry[i]
           y == [index    |-> Restrict(x.index, DOMAIN x.index \ {x.registry[i]}),
                 registry |-> [x.registry EXCEPT ![i] = Blank],
                 size     |-> x.size,
                 free     |-> x.free \cup {i}]
<1>1. k \in DOMAIN x.index /\ x.index[k] = i
  BY DEF IsIndex, Consistent
<1>2. /\ y = [index |-> y.index, registry |-> y.registry, size |-> y.size, free |-> y.free]
      /\ y.index = [j \in DOMAIN x.index \ {k} |-> x.index[j]]
      /\ y.registry = [x.registry EXCEPT ![i] = Blank]
      /\ y.size = x.size
      /\ y.free = x.free \cup {i}
  BY DEF Restrict
<1> HIDE DEF y, k
<1>3. y.registry \in [0..y.size-1 -> Keys \cup {Blank}]
  BY <1>2 DEF IsIndex, Consistent
<1>4. y.index \in [DOMAIN y.index -> 0..y.size-1] /\ DOMAIN y.index \subseteq Keys
  BY <1>2 DEF IsIndex, Consistent
<1>5. \A j \in DOMAIN y.index : y.index[j] \notin y.free /\ y.registry[y.index[j]] = j
  <2> SUFFICES ASSUME NEW j \in DOMAIN y.index
               PROVE  y.index[j] \notin y.free /\ y.registry[y.index[j]] = j
    OBVIOUS
  <2>1. j \in DOMAIN x.index /\ j # k /\ y.index[j] = x.index[j]
    BY <1>2
  <2>2. x.index[j] # i
    BY <2>1 DEF IsIndex, Consistent, k
  <2> QED BY <1>2, <2>1, <2>2 DEF IsIndex, Consistent
<1>6. \A j \in 0..y.size-1 \ y.free :
         y.registry[j] \in DOMAIN y.index /\ y.index[y.registry[j]] = j
  <2> SUFFICES ASSUME NEW j \in 0..y.size-1 \ y.free
               PROVE  y.registry[j] \in DOMAIN y.index /\ y.index[y.registry[j]] = j
    OBVIOUS
  <2>1. j # i /\ j \in 0..x.size-1 \ x.free /\ y.registry[j] = x.registry[j]
    BY <1>2 DEF IsIndex, Consistent
  <2>2. x.registry[j] \in DOMAIN x.index /\ x.index[x.registry[j]] = j
    BY <2>1 DEF IsIndex, Consistent
  <2> QED BY <1>1, <1>2, <2>1, <2>2
<1>7. \A j \in y.free : y.registry[j] = Blank
  BY <1>2 DEF IsIndex, Consistent
<1>8. y.free \subseteq 0..y.size-1 /\ y.size \in Nat
  BY <1>2 DEF IsIndex, Consistent
<1>9. Consistent(y)
  BY <1>2, <1>3, <1>4, <1>5, <1>6, <1>7, <1>8 DEF Consistent
<1>10. Removed(x, i) = Trimmed(y)
  BY DEF Removed, y
<1> QED BY <1>1, <1>2, <1>9, <1>10, TrimmedIsIndex DEF Restrict, k

(* write() leaves a file that names each key's slot.                       *)
LEMMA WrittenIsFile ==
    ASSUME NEW x, IsIndex(x)
    PROVE  IsFile(Written(x)) /\ AntiFunction(Written(x).records) = x.index
<1> DEFINE r == Written(x).records
<1>1. r = [i \in Range(x.index) |-> CHOOSE k \in DOMAIN x.index : x.index[k] = i]
  BY DEF Written
<1> HIDE DEF r
<1>2. \A k \in DOMAIN x.index : x.index[k] \in DOMAIN r /\ r[x.index[k]] = k
  <2> SUFFICES ASSUME NEW k \in DOMAIN x.index
               PROVE  x.index[k] \in DOMAIN r /\ r[x.index[k]] = k
    OBVIOUS
  <2>1. x.index[k] \in Range(x.index)
    BY DEF Range
  <2>2. \A j \in DOMAIN x.index : x.index[j] = x.index[k] => j = k
    BY DEF IsIndex, Consistent
  <2> QED BY <1>1, <2>1, <2>2
<1>3. DOMAIN r = Range(x.index) /\ Range(x.index) \subseteq 0..x.size-1
  BY <1>1 DEF IsIndex, Consistent, Range
<1>4. \A i \in DOMAIN r : r[i] \in DOMAIN x.index /\ x.index[r[i]] = i
  BY <1>2, <1>3 DEF Range
<1>5. Range(r) = DOMAIN x.index
  BY <1>2, <1>4 DEF Range
<1>6. IsFile(Written(x))
  <2>1. x.size > 0 => x.size-1 \in Range(x.index)
    BY DEF IsIndex, Consistent, NoHoleAtTheEnd, Range
  <2>2. Written(x) = [total |-> x.size, count |-> Cardinality(DOMAIN x.index), records |-> r]
    BY <1>1 DEF Written
  <2>3. IsInjective(r)
    BY <1>4 DEF IsInjective
  <2>4. r \in [DOMAIN r -> Keys] /\ x.size \in Nat
    BY <1>1, <1>4 DEF IsIndex, Consistent
  <2> QED BY <1>3, <2>1, <2>2, <2>3, <2>4 DEF IsFile
<1>7. AntiFunction(r) = x.index
  <2>1. \A k \in DOMAIN x.index :
           (CHOOSE i \in DOMAIN r : k \in Range(r) => r[i] = k) = x.index[k]
    <3> SUFFICES ASSUME NEW k \in DOMAIN x.index
                 PROVE  (CHOOSE i \in DOMAIN r : k \in Range(r) => r[i] = k) = x.index[k]
      OBVIOUS
    <3>1. \A i \in DOMAIN r : (k \in Range(r) => r[i] = k) <=> i = x.index[k]
      BY <1>2, <1>4, <1>5
    <3> QED BY <1>2, <3>1
  <2> QED BY <1>5, <2>1 DEF AntiFunction, Inverse, IsIndex, Consistent
<1> QED BY <1>6, <1>7 DEF r

(* read() into a cleared index: the occupied slots are exactly the ones the *)
(* file mentions and the free ones are the rest.                           *)
LEMMA ReadIsIndex ==
    ASSUME NEW f, IsFile(f)
    PROVE  /\ IsIndex(ReadInto(Cleared, f))
           /\ ReadInto(Cleared, f).index = AntiFunction(f.records)
<1> DEFINE r == f.records
           y == ReadInto(Cleared, f)
<1>1. \A k \in Range(r) : \E i \in DOMAIN r :
         r[i] = k /\ \A j \in DOMAIN r : r[j] = k <=> j = i
  BY DEF IsFile, IsInjective, Range
<1>2. /\ y = [index |-> y.index, registry |-> y.registry, size |-> y.size, free |-> y.free]
      /\ y.index = [k \in Range(r) |-> CHOOSE i \in DOMAIN r : r[i] = k]
      /\ y.registry = [i \in 0..f.total-1 |-> IF i \in DOMAIN r THEN r[i] ELSE Blank]
      /\ y.size = f.total
      /\ y.free = 0..f.total-1 \ DOMAIN r
  <2>1. f.total \in Nat
    BY DEF IsFile
  <2>2. RegistryRead(Cleared, f) = [i \in 0..f.total-1 |-> IF i \in DOMAIN r THEN r[i] ELSE Blank]
    BY <2>1 DEF RegistryRead, Cleared
  <2>3. IndexRead(Cleared, f) = [k \in Range(r) |-> CHOOSE i \in DOMAIN r : r[i] = k]
    BY DEF IndexRead, Cleared, NoKeys
  <2> QED BY <2>2, <2>3 DEF ReadInto
<1> HIDE DEF y
<1>3. \A k \in Range(r) : y.index[k] \in DOMAIN r /\ r[y.index[k]] = k
  BY <1>1, <1>2
<1>4. \A i \in DOMAIN r : r[i] \in Range(r) /\ y.index[r[i]] = i
  <2> SUFFICES ASSUME NEW i \in DOMAIN r
               PROVE  r[i] \in Range(r) /\ y.index[r[i]] = i
    OBVIOUS
  <2>1. r[i] \in Range(r)
    BY DEF Range
  <2> QED BY <1>3, <2>1 DEF IsFile, IsInjective
<1>5. DOMAIN r \subseteq 0..f.total-1 /\ f.total \in Nat /\ Range(r) \subseteq Keys
  BY DEF IsFile, Range
<1>6. y.registry \in [0..y.size-1 -> Keys \cup {Blank}]
  BY <1>2, <1>4, <1>5
<1>7. y.index \in [DOMAIN y.index -> 0..y.size-1] /\ DOMAIN y.index \subseteq Keys
  BY <1>2, <1>3, <1>5
<1>8. \A k \in DOMAIN y.index : y.index[k] \notin y.free /\ y.registry[y.index[k]] = k
  BY <1>2, <1>3, <1>5
<1>9. \A i \in 0..y.size-1 \ y.free :
         y.registry[i] \in DOMAIN y.index /\ y.index[y.registry[i]] = i
  BY <1>2, <1>4, <1>5
<1>10. Consistent(y)
  <2>1. \A i \in y.free : y.registry[i] = Blank
    BY <1>2
  <2>2. y.size \in Nat /\ y.free \subseteq 0..y.size-1
    BY <1>2, <1>5
  <2> QED BY <1>2, <1>6, <1>7, <1>8, <1>9, <2>1, <2>2 DEF Consistent
<1>11. NoHoleAtTheEnd(y)
  BY <1>2 DEF NoHoleAtTheEnd, IsFile
<1>12. y.index = AntiFunction(r)
  <2>1. \A k \in Range(r) :
           (CHOOSE i \in DOMAIN r : k \in Range(r) => r[i] = k) = y.index[k]
    <3> SUFFICES ASSUME NEW k \in Range(r)
                 PROVE  (CHOOSE i \in DOMAIN r : k \in Range(r) => r[i] = k) = y.index[k]
      OBVIOUS
    <3>1. \A i \in DOMAIN r : (k \in Range(r) => r[i] = k) <=> i = y.index[k]
      BY <1>3, <1>4
    <3> QED BY <1>3, <3>1
  <2> QED BY <1>2, <2>1 DEF AntiFunction, Inverse
<1> QED BY <1>10, <1>11, <1>12 DEF IsIndex, y

LEMMA ClearedIsIndex == IsIndex(Cleared)
  BY DEF IsIndex, Consistent, NoHoleAtTheEnd, Cleared, NoKeys

(* Reading back what was just written gives the same index, free slots,    *)
(* length and all.                                                         *)
LEMMA ReadWritten ==
    ASSUME NEW x, IsIndex(x)
    PROVE  ReadInto(Cleared, Written(x)) = x
<1> DEFINE f == Written(x)
           y == ReadInto(Cleared, f)
<1>1. IsFile(f) /\ AntiFunction(f.records) = x.index
  BY WrittenIsFile
<1>2. IsIndex(y) /\ y.index = x.index
  BY <1>1, ReadIsIndex
<1>3. y.size = x.size
  BY DEF ReadInto, Written
<1> HIDE DEF f, y
<1>4. y.free = x.free
  <2>1. \A i \in 0..x.size-1 : i \notin x.free <=> \E k \in DOMAIN x.index : x.index[k] = i
    BY DEF IsIndex, Consistent
  <2>2. \A i \in 0..y.size-1 : i \notin y.free <=> \E k \in DOMAIN y.index : y.index[k] = i
    BY <1>2 DEF IsIndex, Consistent
  <2>3. x.free \subseteq 0..x.size-1 /\ y.free \subseteq 0..y.size-1
    BY <1>2 DEF IsIndex, Consistent
  <2> QED BY <1>2, <1>3, <2>1, <2>2, <2>3
<1>5. \A i \in 0..x.size-1 : y.registry[i] = x.registry[i]
  <2> SUFFICES ASSUME NEW i \in 0..x.size-1
               PROVE  y.registry[i] = x.registry[i]
    OBVIOUS
  <2>1. CASE i \in x.free
    BY <1>2, <1>4, <2>1 DEF IsIndex, Consistent
  <2>2. CASE i \notin x.free
    <3>1. PICK k \in DOMAIN x.index : x.index[k] = i /\ x.registry[i] = k
      BY <2>2 DEF IsIndex, Consistent
    <3>2. y.registry[y.index[k]] = k
      BY <1>2, <3>1 DEF IsIndex, Consistent
    <3> QED BY <1>2, <3>1, <3>2
  <2> QED BY <2>1, <2>2
<1>6. y.registry = x.registry
  BY <1>2, <1>3, <1>5 DEF IsIndex, Consistent
<1>7. y = x
  BY <1>2, <1>3, <1>4, <1>6 DEF IsIndex, Consistent
<1> QED BY <1>7 DEF y, f

----------------------------------------------------------------------------
(* The theorems. *)

LEMMA InitEstablishesIInv == Init => IInv
  BY ClearedIsIndex, WrittenIsFile DEF Init, IInv

LEMMA StepPreservesIInv == IInv /\ [Next]_vars => IInv'
<1> SUFFICES ASSUME IInv, [Next]_vars
             PROVE  IInv'
  OBVIOUS
<1>1. IsIndex(ix) /\ IsFile(file)
  BY DEF IInv
<1>2. CASE \E k \in Keys : Index(k)
  BY <1>1, <1>2, IndexedIsIndex DEF Index, IInv
<1>3. CASE \E i \in DOMAIN ix.registry : Remove(i)
  <2>1. PICK i \in DOMAIN ix.registry : Remove(i)
    BY <1>3
  <2>2. i \in 0..ix.size-1 \ ix.free
    BY <1>1, <2>1 DEF Remove, IsIndex, Consistent
  <2> QED BY <1>1, <2>1, <2>2, RemovedIsIndex DEF Remove, IInv
<1>4. CASE Write
  BY <1>1, <1>4, WrittenIsFile DEF Write, IInv
<1>5. CASE Read
  BY <1>1, <1>5, ReadIsIndex DEF Read, IInv
<1>6. CASE ReadThrows
  BY <1>1, <1>6, ClearedIsIndex DEF ReadThrows, IInv
<1>7. CASE UNCHANGED vars
  BY <1>1, <1>7 DEF vars, IInv
<1> QED BY <1>2, <1>3, <1>4, <1>5, <1>6, <1>7 DEF Next

(* Keys and occupied slots stay each other's inverse, no value is taken    *)
(* for a hole, and the registry never ends in one.                         *)
THEOREM Invariance == Spec => []IInv
  BY InitEstablishesIInv, StepPreservesIInv, PTL DEF Spec

(* A save read back at any moment is the index it was taken from.          *)
THEOREM RoundTripHolds == Spec => []RoundTrip
<1>1. IInv => RoundTrip
  BY ReadWritten DEF IInv, RoundTrip
<1> QED BY <1>1, Invariance, PTL

(* Every step of the index is a step of the abstract table or stutters: new *)
(* keys get the lowest unused slot, before and after any save and restore.  *)
THEOREM Refinement == Spec => HandsOutLowestUnused
<1>1. Init => Table!Init
  <2> SUFFICES ASSUME Init
               PROVE  Table!Init
    OBVIOUS
  <2>1. ix.index = Table!Empty /\ Cleared.index = Table!Empty
    BY DEF Init, Cleared, NoKeys, Table!Empty
  <2>2. AntiFunction(file.records) = Cleared.index
    BY ClearedIsIndex, WrittenIsFile DEF Init
  <2> QED BY <2>1, <2>2 DEF Table!Init
<1>2. IInv /\ [Next]_vars => [Table!Next]_(Table!vars)
  <2> SUFFICES ASSUME IInv, [Next]_vars
               PROVE  [Table!Next]_(Table!vars)
    OBVIOUS
  <2>1. IsIndex(ix) /\ IsFile(file)
    BY DEF IInv
  <2>2. ASSUME NEW k \in Keys, Index(k)
        PROVE  Table!Bind(k)
    <3> DEFINE i == NextSlot(ix)
    <3>1. ix'.index = [j \in DOMAIN ix.index \cup {k} |-> IF j = k THEN i ELSE ix.index[j]]
      BY <2>2 DEF Index, Indexed
    <3>2. i \in Nat \ Range(ix.index) /\ 0..i-1 \subseteq Range(ix.index)
      BY <2>1, NextSlotIsLowest
    <3>3. k \notin DOMAIN ix.index /\ file' = file
      BY <2>2 DEF Index
    <3> HIDE DEF i
    <3>4. Restrict(ix'.index, DOMAIN ix.index) = ix.index
      BY <2>1, <3>1, <3>3 DEF Restrict, IsIndex, Consistent
    <3>5. ix'.index[k] = i /\ DOMAIN ix'.index = DOMAIN ix.index \cup {k}
      BY <3>1
    <3> QED BY <3>2, <3>3, <3>4, <3>5
         DEF Table!Bind, Table!LowestUnused, Table!Restrict, Restrict, Table!Range, Range
  <2>3. ASSUME NEW i \in DOMAIN ix.registry, Remove(i)
        PROVE  Table!Unbind(ix.registry[i]) /\ ix.registry[i] \in Keys
    <3>1. i \in 0..ix.size-1 \ ix.free
      BY <2>1, <2>3 DEF Remove, IsIndex, Consistent
    <3>2. /\ ix.registry[i] \in DOMAIN ix.index
          /\ ix'.index = Restrict(ix.index, DOMAIN ix.index \ {ix.registry[i]})
      BY <2>1, <2>3, <3>1, RemovedIsIndex DEF Remove
    <3> QED BY <2>1, <2>3, <3>2
         DEF Remove, Table!Unbind, Table!Restrict, Restrict, IsIndex, Consistent
  <2>4. CASE Write
    BY <2>1, <2>4, WrittenIsFile DEF Write, Table!Save, Table!Next
  <2>5. CASE Read
    BY <2>1, <2>5, ReadIsIndex DEF Read, Table!Restore, Table!Next
  <2>6. CASE ReadThrows
    BY <2>6 DEF ReadThrows, Cleared, NoKeys, Table!Clear, Table!Empty, Table!Next
  <2>7. CASE UNCHANGED vars
    BY <2>7 DEF vars, Table!vars
  <2> QED BY <2>2, <2>3, <2>4, <2>5, <2>6, <2>7 DEF Next, Table!Next
<1> QED BY <1>1, <1>2, Invariance, PTL DEF Spec, HandsOutLowestUnused, Table!Spec
=============================================================================
