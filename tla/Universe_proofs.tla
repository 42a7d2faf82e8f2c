-------------------------- MODULE Universe_proofs --------------------------
(***************************************************************************)
(* Proofs about Universe, for every heap and registry length: while the    *)
(* game keeps its two reserved objects, its registry stays an index of its *)
(* objects, 'for each' skips no survivor, references to what is left and   *)
(* lookups through types resolve, and a load gives back what was saved.    *)
(* What index(), remove(), write() and read() do is taken from the lemmas  *)
(* of IdIndex_proofs.                                                      *)
(***************************************************************************)
EXTENDS Universe, FiniteSetTheorems, WellFoundedInduction, TLAPS

P == INSTANCE IdIndex_proofs WITH
         Keys <- Heap, Blank <- Nil, RecordBytes <- 7, Rest <- 0,
         ix <- objects, file <- file

(* The operators of the universe's registry are the ones that IdIndex's    *)
(* lemmas are about: two instances of one module with one substitution.    *)
LEMMA SameIndex == \A x : R!IsIndex(x) <=> P!IsIndex(x)
  BY DEF R!IsIndex, P!IsIndex, R!Consistent, P!Consistent, R!NoHoleAtTheEnd, P!NoHoleAtTheEnd

LEMMA SameFile == \A f : R!IsFile(f) <=> P!IsFile(f)
  BY DEF R!IsFile, P!IsFile, R!IsInjective, P!IsInjective

LEMMA SameIndexed == \A x, k : R!Indexed(x, k) = P!Indexed(x, k)
  BY DEF R!Indexed, P!Indexed, R!NextSlot, P!NextSlot, R!Min, P!Min

LEMMA SameRemoved == \A x, i : R!Removed(x, i) = P!Removed(x, i)
  BY DEF R!Removed, P!Removed, R!Trimmed, P!Trimmed, R!Restrict, P!Restrict

LEMMA SameRead == \A x, f : R!ReadInto(x, f) = P!ReadInto(x, f)
  BY DEF R!ReadInto, P!ReadInto, R!RegistryRead, P!RegistryRead, R!IndexRead, P!IndexRead, R!Range, P!Range

LEMMA SameCleared == R!Cleared = P!Cleared
  BY DEF R!Cleared, P!Cleared, R!NoKeys, P!NoKeys

LEMMA SameCardinality == \A S : R!Cardinality(S) = Cardinality(S) /\ P!Cardinality(S) = Cardinality(S)
  BY DEF Cardinality, R!Cardinality, P!Cardinality

LEMMA SameWritten == \A x : R!Written(x) = P!Written(x)
  BY SameCardinality DEF R!Written, P!Written, R!Range, P!Range

----------------------------------------------------------------------------
(* The registry's operations, in the terms of the objects it holds. *)

(* index() of a new object puts it in a slot that no other has.            *)
LEMMA IndexedHolds ==
    ASSUME NEW x, R!IsIndex(x), NEW k \in Heap, k \notin DOMAIN x.index
    PROVE  LET y == R!Indexed(x, k)
               n == R!NextSlot(x)
           IN  /\ R!IsIndex(y)
               /\ DOMAIN y.index = DOMAIN x.index \cup {k}
               /\ y.index[k] = n
               /\ \A j \in DOMAIN x.index : y.index[j] = x.index[j]
               /\ n \in Nat /\ n \notin Range(x.index)
               /\ y.size = IF x.free = {} THEN n + 1 ELSE x.size
               /\ y.free = x.free \ {n}
<1> DEFINE y == R!Indexed(x, k)
           n == R!NextSlot(x)
<1>1. 7 \in Nat /\ 0 \in Nat
  OBVIOUS
<1>2. P!IsIndex(x)
  BY SameIndex
<1>3. R!IsIndex(y)
  BY <1>1, <1>2, P!IndexedIsIndex, SameIndex, SameIndexed
<1>4. /\ n \in Nat \ Range(x.index)
      /\ x.free = {} => n = x.size
  <2>1. n = P!NextSlot(x)
    BY DEF R!NextSlot, P!NextSlot, R!Min, P!Min
  <2>2. Range(x.index) = P!Range(x.index)
    BY DEF Range, P!Range
  <2> QED BY <1>1, <1>2, <2>1, <2>2, P!NextSlotIsLowest
<1>5. /\ y.index = [j \in DOMAIN x.index \cup {k} |-> IF j = k THEN n ELSE x.index[j]]
      /\ y.size = IF x.free = {} THEN x.size + 1 ELSE x.size
      /\ y.free = x.free \ {n}
  BY DEF R!Indexed
<1> HIDE DEF y, n
<1> QED BY <1>3, <1>4, <1>5 DEF y, n

(* remove() of an occupied slot takes its object out and leaves the others *)
(* where they are.                                                         *)
LEMMA RemovedHolds ==
    ASSUME NEW x, R!IsIndex(x), NEW i \in DOMAIN x.registry \ x.free
    PROVE  LET y == R!Removed(x, i)
               o == x.registry[i]
           IN  /\ R!IsIndex(y)
               /\ o \in DOMAIN x.index /\ x.index[o] = i
               /\ DOMAIN y.index = DOMAIN x.index \ {o}
               /\ \A j \in DOMAIN y.index : y.index[j] = x.index[j]
               /\ y.size <= x.size
<1> DEFINE y == R!Removed(x, i)
           o == x.registry[i]
<1>1. 7 \in Nat /\ 0 \in Nat
  OBVIOUS
<1>2. P!IsIndex(x) /\ i \in 0..x.size-1 \ x.free
  BY SameIndex DEF R!IsIndex, R!Consistent
<1>3. /\ P!IsIndex(P!Removed(x, i))
      /\ P!Removed(x, i).index = P!Restrict(x.index, DOMAIN x.index \ {o})
  BY <1>1, <1>2, P!RemovedIsIndex
<1>4. R!IsIndex(y) /\ y.index = [j \in DOMAIN x.index \ {o} |-> x.index[j]]
  <2>1. y = P!Removed(x, i)
    BY SameRemoved
  <2> QED BY <1>3, <2>1, SameIndex DEF P!Restrict
<1>5. o \in DOMAIN x.index /\ x.index[o] = i
  BY <1>2 DEF R!IsIndex, R!Consistent
<1>6. x.size \in Nat /\ \A j \in DOMAIN x.index : x.index[j] \in 0..x.size-1
  BY DEF R!IsIndex, R!Consistent
<1> HIDE DEF y, o
<1>7. y.size <= x.size
  <2>1. y.size \in Nat
    BY <1>4 DEF R!IsIndex, R!Consistent
  <2>2. CASE y.size > 0
    <3>1. y.size-1 \in 0..y.size-1 \ y.free
      BY <1>4, <2>1, <2>2 DEF R!IsIndex, R!NoHoleAtTheEnd
    <3>2. PICK k \in DOMAIN y.index : y.index[k] = y.size-1
      BY <1>4, <3>1 DEF R!IsIndex, R!Consistent
    <3>3. k \in DOMAIN x.index /\ x.index[k] = y.size-1
      BY <1>4, <3>2
    <3> QED BY <1>6, <2>1, <3>3
  <2> QED BY <1>6, <2>1, <2>2
<1> QED BY <1>4, <1>5, <1>7 DEF y, o

(* getObject(int), of any registry. *)
At(x, i) ==
    CASE i = NullObjectId   -> NullAt
      [] i = SystemObjectId -> SystemAt
      [] i \notin {NullObjectId, SystemObjectId} ->
           IF i \in DOMAIN x.registry THEN x.registry[i] ELSE Nil

(* getObject() looks in the registry and nowhere else.                     *)
LEMMA GetObjectIsAt == \A i : GetObject(i) = At(objects, i)
  BY DEF GetObject, At

\* The registry holds the two reserved objects in their slots.
SlotsOK(x) ==
    /\ R!IsIndex(x) /\ x.size <= MaxSlots
    /\ {NullAt, SystemAt} \subseteq DOMAIN x.index
    /\ x.index[NullAt] = NullObjectId /\ x.index[SystemAt] = SystemObjectId

(* getObject() leads to the object in the slot, or nowhere.                *)
LEMMA AtFinds ==
    ASSUME NEW x, SlotsOK(x)
    PROVE  /\ \A a \in DOMAIN x.index : At(x, x.index[a]) = a
           /\ \A i : At(x, i) # Nil => At(x, i) \in DOMAIN x.index /\ x.index[At(x, i)] = i
<1>1. \A a \in DOMAIN x.index : x.index[a] \in DOMAIN x.registry /\ x.registry[x.index[a]] = a
  BY DEF SlotsOK, R!IsIndex, R!Consistent
<1>2. \A a \in DOMAIN x.index : At(x, x.index[a]) = a
  <2> SUFFICES ASSUME NEW a \in DOMAIN x.index
               PROVE  At(x, x.index[a]) = a
    OBVIOUS
  <2>1. x.index[a] = NullObjectId => a = NullAt
    BY <1>1 DEF SlotsOK
  <2>2. x.index[a] = SystemObjectId => a = SystemAt
    BY <1>1 DEF SlotsOK
  <2> QED BY <1>1, <2>1, <2>2 DEF At, NullObjectId, SystemObjectId
<1>3. ASSUME NEW i, At(x, i) # Nil
      PROVE  At(x, i) \in DOMAIN x.index /\ x.index[At(x, i)] = i
  <2>1. CASE i = NullObjectId
    BY <2>1 DEF At, SlotsOK
  <2>2. CASE i = SystemObjectId
    BY <2>2 DEF At, SlotsOK, NullObjectId, SystemObjectId
  <2>3. CASE i \notin {NullObjectId, SystemObjectId}
    <3>1. i \in DOMAIN x.registry /\ At(x, i) = x.registry[i] /\ x.registry[i] # Nil
      BY <1>3, <2>3 DEF At
    <3>2. i \in 0..x.size-1 \ x.free
      BY <3>1 DEF SlotsOK, R!IsIndex, R!Consistent
    <3> QED BY <3>1, <3>2 DEF SlotsOK, R!IsIndex, R!Consistent
  <2> QED BY <2>1, <2>2, <2>3
<1> QED BY <1>2, <1>3

(* The slots that index hands out and the lengths are numbers in range.    *)
LEMMA SlotsInRange ==
    ASSUME NEW x, SlotsOK(x)
    PROVE  /\ x.size \in 0..MaxSlots
           /\ DOMAIN x.index \subseteq Heap
           /\ \A a \in DOMAIN x.index : x.index[a] \in 0..x.size-1 /\ x.index[a] \in 0..MaxSlots-1
  BY UniverseAssumption DEF SlotsOK, R!IsIndex, R!Consistent

(* createReservedObjects_ puts the two objects into slots 0 and 1.          *)
LEMMA ReservedHolds ==
    LET x == Reserved(R!Cleared)
    IN  /\ R!IsIndex(x) /\ x.size = 2 /\ x.free = {}
        /\ DOMAIN x.index = {NullAt, SystemAt}
        /\ x.index[NullAt] = NullObjectId /\ x.index[SystemAt] = SystemObjectId
<1> DEFINE c == R!Cleared
           y == R!Indexed(c, NullAt)
           x == R!Indexed(y, SystemAt)
<1>1. R!IsIndex(c)
  <2>1. 7 \in Nat /\ 0 \in Nat
    OBVIOUS
  <2>2. P!IsIndex(P!Cleared)
    BY <2>1, P!ClearedIsIndex
  <2> QED BY <2>2, SameIndex, SameCleared
<1>2. c.size = 0 /\ c.free = {} /\ DOMAIN c.index = {}
  BY DEF R!Cleared, R!NoKeys
<1> HIDE DEF c
<1>3. NullAt \in Heap /\ SystemAt \in Heap /\ NullAt # SystemAt
  BY UniverseAssumption DEF Heap
<1>4. R!NextSlot(c) = 0
  BY <1>2 DEF R!NextSlot
<1>5. /\ R!IsIndex(y) /\ DOMAIN y.index = {NullAt} /\ y.index[NullAt] = 0
      /\ y.size = 1 /\ y.free = {}
  <2>1. NullAt \notin DOMAIN c.index
    BY <1>2
  <2> HIDE DEF y
  <2> QED BY <1>1, <1>2, <1>3, <1>4, <2>1, IndexedHolds DEF y
<1> HIDE DEF y
<1>6. R!NextSlot(y) = 1
  BY <1>5 DEF R!NextSlot
<1>7. /\ R!IsIndex(x) /\ DOMAIN x.index = {NullAt, SystemAt}
      /\ x.index[NullAt] = 0 /\ x.index[SystemAt] = 1
      /\ x.size = 2 /\ x.free = {}
  <2>1. SystemAt \notin DOMAIN y.index
    BY <1>3, <1>5
  <2> HIDE DEF x
  <2>2. /\ R!IsIndex(x) /\ DOMAIN x.index = DOMAIN y.index \cup {SystemAt}
        /\ x.index[SystemAt] = 1 /\ \A j \in DOMAIN y.index : x.index[j] = y.index[j]
        /\ x.size = 1 + 1 /\ x.free = {}
    BY <1>3, <1>5, <1>6, <2>1, IndexedHolds DEF x
  <2> QED BY <1>5, <2>2
<1>8. x = Reserved(R!Cleared)
  BY DEF Reserved, c, y
<1> HIDE DEF x
<1> QED BY <1>7, <1>8 DEF NullObjectId, SystemObjectId

\* A file whose records are objects' addresses, the reserved two in their slots.
PlacedOK(g) ==
    /\ R!IsFile(g)
    /\ {NullObjectId, SystemObjectId} \subseteq DOMAIN g.records
    /\ g.records[NullObjectId] = NullAt /\ g.records[SystemObjectId] = SystemAt

(* What the reserved objects' slots hold before read() does not matter to  *)
(* a file that has records of them.                                        *)
LEMMA ReservedAreRead ==
    ASSUME NEW g, PlacedOK(g)
    PROVE  R!ReadInto(Reserved(R!Cleared), g) = R!ReadInto(R!Cleared, g)
<1> DEFINE x == Reserved(R!Cleared)
           c == R!Cleared
<1>1. x.size = 2 /\ DOMAIN x.index = {NullAt, SystemAt}
  BY ReservedHolds
<1>2. c.size = 0 /\ DOMAIN c.index = {}
  BY DEF R!Cleared, R!NoKeys
<1> HIDE DEF x, c
<1>3. 0 \in DOMAIN g.records /\ 1 \in DOMAIN g.records
  BY DEF PlacedOK, NullObjectId, SystemObjectId
<1>4. {NullAt, SystemAt} \subseteq Range(g.records)
  BY DEF PlacedOK, Range
<1>5. R!Range(g.records) = Range(g.records)
  BY DEF R!Range, Range
<1>6. R!RegistryRead(x, g) = R!RegistryRead(c, g)
  <2>1. g.total \in Nat
    BY DEF PlacedOK, R!IsFile
  <2>2. \A i \in 0..g.total-1 : i \in DOMAIN g.records \/ (~(i < x.size) /\ ~(i < c.size))
    BY <1>1, <1>2, <1>3, <2>1
  <2> QED BY <2>2 DEF R!RegistryRead
<1>7. R!IndexRead(x, g) = R!IndexRead(c, g)
  <2>1. /\ DOMAIN x.index \cup Range(g.records) = Range(g.records)
        /\ DOMAIN c.index \cup Range(g.records) = Range(g.records)
    BY <1>1, <1>2, <1>4
  <2> QED BY <1>5, <2>1 DEF R!IndexRead
<1>8. R!ReadInto(x, g) = R!ReadInto(c, g)
  BY <1>6, <1>7 DEF R!ReadInto
<1> QED BY <1>8 DEF x, c

(* read() puts every record's object into the record's slot, and write()   *)
(* gives back what was read.                                               *)
LEMMA ReadHolds ==
    ASSUME NEW g, PlacedOK(g), IsFiniteSet(DOMAIN g.records),
           g.count = Cardinality(DOMAIN g.records)
    PROVE  LET y == R!ReadInto(Reserved(R!Cleared), g)
           IN  /\ R!IsIndex(y) /\ y.size = g.total
               /\ DOMAIN y.index = Range(g.records)
               /\ \A i \in DOMAIN g.records : y.index[g.records[i]] = i
               /\ R!Written(y) = g
<1> DEFINE y == R!ReadInto(Reserved(R!Cleared), g)
           r == g.records
<1>1. 7 \in Nat /\ 0 \in Nat
  OBVIOUS
<1>2. y = R!ReadInto(R!Cleared, g)
  BY ReservedAreRead
<1>3. R!IsIndex(y)
  <2>1. P!IsFile(g)
    BY SameFile DEF PlacedOK
  <2>2. P!IsIndex(P!ReadInto(P!Cleared, g))
    BY <1>1, <2>1, P!ReadIsIndex
  <2> QED BY <1>2, <2>2, SameIndex, SameCleared, SameRead
<1>4. /\ y.index = [k \in Range(r) |-> CHOOSE i \in DOMAIN r : r[i] = k]
      /\ y.size = g.total
  <2> DEFINE c == R!Cleared
  <2>1. y.index = R!IndexRead(c, g) /\ y.size = g.total
    BY <1>2 DEF R!ReadInto
  <2>2. R!Range(r) = Range(r)
    BY DEF R!Range, Range
  <2>3. DOMAIN c.index = {}
    BY DEF R!Cleared, R!NoKeys
  <2> HIDE DEF c, y
  <2>4. R!IndexRead(c, g) = [k \in Range(r) |-> CHOOSE i \in DOMAIN r : r[i] = k]
    BY <2>2, <2>3 DEF R!IndexRead
  <2> QED BY <2>1, <2>4
<1> HIDE DEF y
<1>5. \A i, j \in DOMAIN r : r[i] = r[j] => i = j
  BY DEF PlacedOK, R!IsFile, R!IsInjective
<1>6. \A i \in DOMAIN r : r[i] \in Range(r) /\ y.index[r[i]] = i
  <2> SUFFICES ASSUME NEW i \in DOMAIN r
               PROVE  r[i] \in Range(r) /\ y.index[r[i]] = i
    OBVIOUS
  <2>1. r[i] \in Range(r)
    BY DEF Range
  <2>2. \A j \in DOMAIN r : r[j] = r[i] <=> j = i
    BY <1>5
  <2> QED BY <1>4, <2>1, <2>2
<1>7. \A k \in Range(r) : \E i \in DOMAIN r : k = r[i] /\ y.index[k] = i
  BY <1>6 DEF Range
<1>8. R!Written(y) = g
  <2>1. R!Range(y.index) = DOMAIN r
    BY <1>4, <1>6, <1>7 DEF R!Range
  <2>2. \A i \in DOMAIN r : (CHOOSE k \in DOMAIN y.index : y.index[k] = i) = r[i]
    <3> SUFFICES ASSUME NEW i \in DOMAIN r
                 PROVE  (CHOOSE k \in DOMAIN y.index : y.index[k] = i) = r[i]
      OBVIOUS
    <3>1. \A k \in DOMAIN y.index : y.index[k] = i <=> k = r[i]
      BY <1>4, <1>6, <1>7
    <3> QED BY <1>4, <1>6, <3>1
  <2>3. Cardinality(DOMAIN y.index) = Cardinality(DOMAIN r)
    <3>1. r \in Bijection(DOMAIN r, Range(r))
      <4>1. r \in [DOMAIN r -> Range(r)]
        BY <1>6 DEF PlacedOK, R!IsFile
      <4> QED BY <1>5, <1>7, <4>1 DEF Bijection, Injection, Surjection, IsInjective
    <3> QED BY <1>4, <3>1, FS_Bijection DEF ExistsBijection
  <2>4. r = [i \in DOMAIN r |-> r[i]]
    BY DEF PlacedOK, R!IsFile
  <2>5. g = [total |-> g.total, count |-> g.count, records |-> r]
    BY DEF PlacedOK, R!IsFile
  <2>6. R!Written(y) = [total |-> y.size, count |-> Cardinality(DOMAIN y.index),
                        records |-> [i \in DOMAIN r |-> CHOOSE k \in DOMAIN y.index : y.index[k] = i]]
    BY <2>1, SameCardinality DEF R!Written
  <2>7. [i \in DOMAIN r |-> CHOOSE k \in DOMAIN y.index : y.index[k] = i] = r
    BY <2>2, <2>4
  <2> HIDE DEF r
  <2> QED BY <1>4, <2>3, <2>5, <2>6, <2>7
<1> QED BY <1>3, <1>4, <1>6, <1>8 DEF y

----------------------------------------------------------------------------
(* The inductive invariant. *)

\* The object has an attribute that leads to an object which is still there.
Refers(r) == r.ref # NoRef /\ ~r.stale

\* The only types are 'null' and the compiled one, and what stands in the
\* compiled one's slot after it is gone is not a type.
Kinship(r) ==
    /\ r.parent \in {INVALID, NullObjectId, TypeId}
    /\ r.proto => \/ r.id = NullObjectId /\ r.parent = INVALID
                  \/ r.id = TypeId /\ r.parent = NullObjectId
    /\ ~r.proto => r.parent # NullObjectId

\* Objects in use know their slots and refer to slots in use.
HeldOK(x, d) ==
    \A o \in DOMAIN x.index :
        /\ d[o].id = x.index[o]
        /\ Kinship(d[o])
        /\ Refers(d[o]) => d[o].ref \in Range(x.index)

LoopOK(l, x, d) ==
    /\ l = [on |-> l.on, count |-> l.count, next |-> l.next, each |-> l.each, due |-> l.due]
    /\ l.count \in Nat /\ l.next \in Nat
    /\ l.each \in Heap \cup {Nil}
    /\ l.due \subseteq DOMAIN x.index
    /\ l.on => \A a \in l.due : d[a].id \in l.next..l.count-1 /\ ~d[a].proto

\* A save is of a universe: its records name slots and refer to records.
FileOK(f) ==
    /\ f = [total |-> f.total, count |-> f.count, records |-> f.records]
    /\ f.total \in 0..MaxSlots
    /\ f.count = Cardinality(DOMAIN f.records)
    /\ DOMAIN f.records \subseteq 0..f.total-1
    /\ {NullObjectId, SystemObjectId} \subseteq DOMAIN f.records
    /\ f.total-1 \in DOMAIN f.records
    /\ f.records \in [DOMAIN f.records -> Objects]
    /\ \A i \in DOMAIN f.records :
          /\ f.records[i].id = i
          /\ Kinship(f.records[i])
          /\ Refers(f.records[i]) => f.records[i].ref \in DOMAIN f.records

DataOK(d) == d \in [Heap -> Objects]

UInv ==
    /\ SlotsOK(objects)
    /\ DataOK(data)
    /\ HeldOK(objects, data)
    /\ LoopOK(loop, objects, data)
    /\ FileOK(file)

(* Objects that the heap holds, before and after their one field changes.  *)
LEMMA ObjectIsObject ==
    ASSUME NEW id \in INVALID..MaxSlots-1, NEW parent \in INVALID..MaxSlots-1, NEW proto \in BOOLEAN
    PROVE  LET r == Object(id, parent, proto)
           IN  r \in Objects /\ r.id = id /\ r.parent = parent /\ r.proto = proto /\ ~Refers(r)
  BY UniverseAssumption DEF Object, Objects, Refers, NoRef, INVALID

ANew(id, parent)     == Object(id, parent, FALSE)
ANewType(id, parent) == Object(id, parent, TRUE)

(* A new type is an object of the heap, as is any other new object.        *)
LEMMA TypeIsObject ==
    ASSUME NEW id \in INVALID..MaxSlots-1, NEW parent \in INVALID..MaxSlots-1, NEW r,
           r = ANewType(id, parent)
    PROVE  r \in Objects /\ r.id = id /\ r.parent = parent /\ r.proto /\ ~Refers(r)
<1>1. TRUE \in BOOLEAN
  OBVIOUS
<1>2. r \in Objects /\ r.id = id /\ r.parent = parent /\ ~Refers(r)
  BY <1>1, ObjectIsObject DEF ANewType
<1>3. r.proto
  BY DEF Object, ANewType
<1> QED BY <1>2, <1>3

LEMMA InstanceIsObject ==
    ASSUME NEW id \in INVALID..MaxSlots-1, NEW parent \in INVALID..MaxSlots-1, NEW r,
           r = ANew(id, parent)
    PROVE  r \in Objects /\ r.id = id /\ r.parent = parent /\ ~r.proto /\ ~Refers(r)
<1>1. FALSE \in BOOLEAN
  OBVIOUS
<1>2. r \in Objects /\ r.id = id /\ r.parent = parent /\ ~Refers(r)
  BY <1>1, ObjectIsObject DEF ANew
<1>3. ~r.proto
  BY DEF Object, ANew
<1> QED BY <1>2, <1>3

(* What the heap holds where nothing is has an object's fields.            *)
LEMMA NoObjectIsObject == NoObject \in Objects
<1>1. INVALID \in INVALID..MaxSlots-1
  BY UniverseAssumption DEF INVALID
<1> QED BY <1>1, ObjectIsObject DEF NoObject

GivenTo(r, i) == [r EXCEPT !.ref = i, !.stale = FALSE]

(* Giving an attribute an object leaves id, parent and kind alone.         *)
LEMMA GivenObject ==
    ASSUME NEW r \in Objects, NEW i \in 0..MaxSlots-1, NEW s, s = GivenTo(r, i)
    PROVE  /\ s \in Objects /\ s.id = r.id /\ s.proto = r.proto
           /\ Kinship(r) => Kinship(s)
           /\ s.ref = i
<1>1. /\ s.id = r.id /\ s.proto = r.proto /\ s.parent = r.parent
      /\ s.ref = i
  BY DEF Objects, GivenTo
<1>2. s \in Objects
  <2>1. i \in NoRef..MaxSlots-1
    BY UniverseAssumption DEF NoRef
  <2> QED BY <2>1 DEF Objects, GivenTo
<1>3. Kinship(r) => Kinship(s)
  BY <1>1 DEF Kinship
<1> QED BY <1>1, <1>2, <1>3

(* Marking a reference leaves id, parent and kind alone.                   *)
LEMMA StaleObject ==
    ASSUME NEW r \in Objects, NEW s, s = [r EXCEPT !.stale = TRUE]
    PROVE  /\ s \in Objects /\ s.id = r.id /\ s.proto = r.proto
           /\ Kinship(r) => Kinship(s)
           /\ ~Refers(s)
<1>1. /\ s.id = r.id /\ s.proto = r.proto /\ s.parent = r.parent
      /\ s.stale
  BY DEF Objects
<1>2. s \in Objects
  BY DEF Objects
<1>3. Kinship(r) => Kinship(s)
  BY <1>1 DEF Kinship
<1> QED BY <1>1, <1>2, <1>3 DEF Refers

(* The heap is finite, with room for the objects that make a hierarchy.    *)
LEMMA HeapIsFinite == IsFiniteSet(Heap) /\ Cardinality(Heap) \in Nat /\ Cardinality(Heap) > 3
<1> DEFINE A == Addresses \cup {NullAt}
<1>1. IsFiniteSet(Addresses) /\ \E a, b \in Addresses : a # b
  BY UniverseAssumption
<1>2. PICK a \in Addresses, b \in Addresses : a # b
  BY <1>1
<1>3. Cardinality({a}) = 1 /\ IsFiniteSet({a})
  BY FS_Singleton
<1>4. Cardinality({a} \cup {b}) = 2 /\ IsFiniteSet({a} \cup {b})
  BY <1>2, <1>3, FS_AddElement
<1>5. Cardinality(Addresses) \in Nat /\ 2 <= Cardinality(Addresses)
  <2>1. {a} \cup {b} \subseteq Addresses
    OBVIOUS
  <2> QED BY <1>1, <1>4, <2>1, FS_Subset, FS_CardinalityType
<1>6. IsFiniteSet(A) /\ Cardinality(A) = Cardinality(Addresses) + 1
  BY <1>1, FS_AddElement, UniverseAssumption
<1>7. IsFiniteSet(A \cup {SystemAt}) /\ Cardinality(A \cup {SystemAt}) = Cardinality(A) + 1
  <2>1. SystemAt \notin A
    BY UniverseAssumption
  <2> HIDE DEF A
  <2> QED BY <1>6, <2>1, FS_AddElement
<1>8. Heap = A \cup {SystemAt}
  BY DEF Heap
<1> HIDE DEF A
<1> QED BY <1>5, <1>6, <1>7, <1>8

(* A save of a universe in order is a file in order.                       *)
LEMMA ImageIsFile ==
    ASSUME NEW x, NEW d, SlotsOK(x), DataOK(d), HeldOK(x, d)
    PROVE  FileOK(ImageOf(x, d))
<1> DEFINE w == R!Written(x)
           f == ImageOf(x, d)
<1>1. /\ DOMAIN w.records = Range(x.index) /\ w.total = x.size
      /\ \A i \in DOMAIN w.records : w.records[i] \in DOMAIN x.index /\ x.index[w.records[i]] = i
  <2>1. w.records = [i \in Range(x.index) |-> CHOOSE k \in DOMAIN x.index : x.index[k] = i]
    BY DEF R!Written, R!Range, Range
  <2>2. \A i \in Range(x.index) : \E k \in DOMAIN x.index : x.index[k] = i
    BY DEF Range
  <2>3. w.total = x.size
    BY DEF R!Written
  <2> HIDE DEF w
  <2> QED BY <2>1, <2>2, <2>3
<1>2. w.count = Cardinality(Range(x.index))
  <2>1. w.count = Cardinality(DOMAIN x.index)
    BY SameCardinality DEF R!Written
  <2>2. /\ x.index \in [DOMAIN x.index -> Range(x.index)]
        /\ \A a, b \in DOMAIN x.index : x.index[a] = x.index[b] => a = b
    BY DEF SlotsOK, R!IsIndex, R!Consistent, Range
  <2>3. x.index \in Bijection(DOMAIN x.index, Range(x.index))
    <3>1. \A y \in Range(x.index) : \E a \in DOMAIN x.index : x.index[a] = y
      BY DEF Range
    <3> QED BY <2>2, <3>1 DEF Bijection, Injection, Surjection, IsInjective
  <2>4. IsFiniteSet(DOMAIN x.index)
    <3>1. IsFiniteSet(Heap)
      BY HeapIsFinite
    <3> QED BY <3>1, SlotsInRange, FS_Subset
  <2> QED BY <2>1, <2>3, <2>4, FS_Bijection DEF ExistsBijection
<1>3. /\ f = [total |-> f.total, count |-> f.count, records |-> f.records]
      /\ f.total = x.size /\ f.count = Cardinality(Range(x.index))
      /\ f.records = [i \in Range(x.index) |-> d[w.records[i]]]
  <2> HIDE DEF w
  <2>1. f = [total |-> w.total, count |-> w.count,
             records |-> [i \in DOMAIN w.records |-> d[w.records[i]]]]
    BY DEF ImageOf, w
  <2> HIDE DEF f
  <2> QED BY <1>1, <1>2, <2>1
<1> HIDE DEF f, w
<1>4. Range(x.index) \subseteq 0..x.size-1 /\ x.size \in 0..MaxSlots
  BY SlotsInRange DEF Range
<1>5. {NullObjectId, SystemObjectId} \subseteq Range(x.index)
  BY DEF SlotsOK, Range
<1>6. x.size-1 \in Range(x.index)
  <2>1. x.size > 0
    BY <1>4, <1>5 DEF NullObjectId
  <2>2. x.size-1 \in 0..x.size-1 \ x.free
    BY <1>4, <2>1 DEF SlotsOK, R!IsIndex, R!NoHoleAtTheEnd
  <2> QED BY <2>2 DEF SlotsOK, R!IsIndex, R!Consistent, Range
<1>7. f.records \in [DOMAIN f.records -> Objects]
  <2>1. \A i \in Range(x.index) : d[w.records[i]] \in Objects
    BY <1>1, SlotsInRange DEF DataOK
  <2> QED BY <1>3, <2>1
<1>8. \A i \in DOMAIN f.records :
          /\ f.records[i].id = i
          /\ Kinship(f.records[i])
          /\ Refers(f.records[i]) => f.records[i].ref \in DOMAIN f.records
  BY <1>1, <1>3 DEF HeldOK
<1>9. FileOK(f)
  BY <1>3, <1>4, <1>5, <1>6, <1>7, <1>8 DEF FileOK
<1> QED BY <1>9 DEF f

(* Putting one more object into a registry in order.                       *)
LEMMA IndexedIsOK ==
    ASSUME NEW x, SlotsOK(x), NEW k \in Heap, k \notin DOMAIN x.index, R!NextSlot(x) < MaxSlots
    PROVE  LET y == R!Indexed(x, k)
               n == R!NextSlot(x)
           IN  /\ SlotsOK(y)
               /\ DOMAIN y.index = DOMAIN x.index \cup {k} /\ y.index[k] = n
               /\ \A j \in DOMAIN x.index : y.index[j] = x.index[j]
               /\ n \in 0..MaxSlots-1
               /\ Range(x.index) \cup {n} \subseteq Range(y.index)
<1> DEFINE y == R!Indexed(x, k)
           n == R!NextSlot(x)
<1>1. /\ R!IsIndex(y) /\ DOMAIN y.index = DOMAIN x.index \cup {k} /\ y.index[k] = n
      /\ \A j \in DOMAIN x.index : y.index[j] = x.index[j]
      /\ n \in Nat /\ y.size = IF x.free = {} THEN n + 1 ELSE x.size
  BY IndexedHolds DEF SlotsOK
<1> HIDE DEF y
<1>2. y.size <= MaxSlots /\ n \in 0..MaxSlots-1
  <2>1. n < MaxSlots /\ x.size <= MaxSlots
    BY DEF SlotsOK
  <2> HIDE DEF n
  <2> QED BY <1>1, <2>1, UniverseAssumption
<1>3. Range(x.index) \cup {n} \subseteq Range(y.index)
  BY <1>1 DEF Range
<1> QED BY <1>1, <1>2, <1>3 DEF SlotsOK, y, n

(* A compiled universe is in order.                                        *)
LEMMA InitEstablishesUInv == Init => UInv
<1> SUFFICES ASSUME Init
             PROVE  UInv
  OBVIOUS
<1> DEFINE x0 == Reserved(R!Cleared)
           a == CHOOSE c \in Addresses : TRUE
           b == CHOOSE c \in Addresses : c # a
           x1 == R!Indexed(x0, a)
           x2 == R!Indexed(x1, b)
<1>1. a \in Addresses /\ b \in Addresses /\ a # b
  <2>1. \E c, e \in Addresses : c # e
    BY UniverseAssumption
  <2>2. a \in Addresses
    BY <2>1
  <2> HIDE DEF a
  <2>3. \E c \in Addresses : c # a
    BY <2>1
  <2> QED BY <2>2, <2>3
<1>2. objects = x2
  BY DEF Init, Compiled
<1> HIDE DEF a, b
<1>3. /\ SlotsOK(x0) /\ DOMAIN x0.index = {NullAt, SystemAt}
      /\ x0.size = 2 /\ x0.free = {}
      /\ x0.index[NullAt] = 0 /\ x0.index[SystemAt] = 1
  BY ReservedHolds, UniverseAssumption DEF SlotsOK, NullObjectId, SystemObjectId
<1> HIDE DEF x0
<1>4. /\ SlotsOK(x1) /\ DOMAIN x1.index = {NullAt, SystemAt, a}
      /\ x1.size = 3 /\ x1.free = {}
      /\ x1.index[NullAt] = 0 /\ x1.index[SystemAt] = 1 /\ x1.index[a] = 2
  <2>1. R!NextSlot(x0) = 2 /\ 2 < MaxSlots
    BY <1>3, UniverseAssumption DEF R!NextSlot
  <2>2. a \in Heap /\ a \notin DOMAIN x0.index
    BY <1>1, <1>3, UniverseAssumption DEF Heap
  <2>3. x1.size = 3 /\ x1.free = {}
    BY <1>3, <2>1, <2>2, IndexedHolds DEF SlotsOK
  <2> HIDE DEF x1
  <2> QED BY <1>3, <2>1, <2>2, <2>3, IndexedIsOK DEF x1
<1> HIDE DEF x1
<1>5. /\ SlotsOK(x2) /\ DOMAIN x2.index = {NullAt, SystemAt, a, b}
      /\ x2.index[NullAt] = 0 /\ x2.index[SystemAt] = 1 /\ x2.index[a] = 2 /\ x2.index[b] = 3
  <2>1. R!NextSlot(x1) = 3 /\ 3 < MaxSlots
    BY <1>4, UniverseAssumption DEF R!NextSlot
  <2>2. b \in Heap /\ b \notin DOMAIN x1.index
    BY <1>1, <1>4, UniverseAssumption DEF Heap
  <2> HIDE DEF x2
  <2> QED BY <1>4, <2>1, <2>2, IndexedIsOK DEF x2
<1> HIDE DEF x2
<1>6. /\ data[NullAt] = ANewType(0, INVALID) /\ data[SystemAt] = ANew(1, INVALID)
      /\ data[a] = ANewType(2, 0) /\ data[b] = ANew(3, 2)
      /\ DOMAIN data = Heap /\ \A c \in Heap : c \notin DOMAIN x2.index => data[c] = NoObject
      /\ data = [c \in Heap |-> data[c]]
  <2>1. {NullAt, SystemAt, a, b} \subseteq Heap
    BY <1>1 DEF Heap
  <2> DEFINE F(c) == IF c \notin DOMAIN objects.index THEN NoObject
                     ELSE CASE objects.index[c] = 0 -> ANewType(0, INVALID)
                            [] objects.index[c] = 1 -> ANew(1, INVALID)
                            [] objects.index[c] = 2 -> ANewType(2, 0)
                            [] objects.index[c] = 3 -> ANew(3, 2)
  <2>2. data = [c \in Heap |-> F(c)]
    BY Zenon DEF Init, Live, NullObjectId, SystemObjectId, TypeId, ANew, ANewType
  <2>3. \A c : c \notin DOMAIN x2.index => F(c) = NoObject
    BY <1>2
  <2>4. F(NullAt) = ANewType(0, INVALID) /\ F(SystemAt) = ANew(1, INVALID)
    BY <1>2, <1>5
  <2>5. F(a) = ANewType(2, 0) /\ F(b) = ANew(3, 2)
    BY <1>2, <1>5
  <2> HIDE DEF F
  <2> QED BY <2>1, <2>2, <2>3, <2>4, <2>5
<1>7. \A c \in {NullAt, SystemAt, a, b} :
        /\ data[c] \in Objects /\ data[c].id = x2.index[c] /\ Kinship(data[c]) /\ ~Refers(data[c])
  <2>1. {INVALID, 0, 1, 2, 3} \subseteq INVALID..MaxSlots-1
    BY UniverseAssumption DEF INVALID
  <2>2. /\ data[NullAt] \in Objects /\ data[NullAt].id = 0 /\ data[NullAt].parent = INVALID
        /\ data[NullAt].proto /\ ~Refers(data[NullAt])
    BY <1>6, <2>1, TypeIsObject
  <2>3. /\ data[SystemAt] \in Objects /\ data[SystemAt].id = 1 /\ data[SystemAt].parent = INVALID
        /\ ~data[SystemAt].proto /\ ~Refers(data[SystemAt])
    BY <1>6, <2>1, InstanceIsObject
  <2>4. /\ data[a] \in Objects /\ data[a].id = 2 /\ data[a].parent = 0
        /\ data[a].proto /\ ~Refers(data[a])
    BY <1>6, <2>1, TypeIsObject
  <2>5. /\ data[b] \in Objects /\ data[b].id = 3 /\ data[b].parent = 2
        /\ ~data[b].proto /\ ~Refers(data[b])
    BY <1>6, <2>1, InstanceIsObject
  <2>6. \A c \in {NullAt, SystemAt, a, b} : Kinship(data[c])
    BY <2>2, <2>3, <2>4, <2>5 DEF Kinship, NullObjectId, TypeId, INVALID
  <2> QED BY <1>5, <2>2, <2>3, <2>4, <2>5, <2>6
<1>8. DataOK(data)
  <2>1. \A c \in Heap : data[c] \in Objects
    BY <1>5, <1>6, <1>7, NoObjectIsObject
  <2> QED BY <1>6, <2>1 DEF DataOK
<1>9. HeldOK(objects, data)
  BY <1>2, <1>5, <1>7 DEF HeldOK
<1>10. LoopOK(loop, objects, data)
  BY DEF Init, NoLoop, LoopOK
<1>11. FileOK(file)
  BY <1>2, <1>5, <1>8, <1>9, ImageIsFile DEF Init
<1> QED BY <1>2, <1>5, <1>8, <1>9, <1>10, <1>11 DEF UInv

----------------------------------------------------------------------------
(* Each action keeps the invariant. *)

(* A new object gets an unused slot, and the attribute that is given it    *)
(* refers to it.                                                           *)
LEMMA CreateKeepsUInv == UInv /\ Create => UInv'
<1> SUFFICES ASSUME UInv, Create
             PROVE  UInv'
  OBVIOUS
<1> DEFINE n == R!NextSlot(objects)
           k == NewAddress
<1>1. /\ n < MaxSlots /\ Unused # {} /\ objects' = R!Indexed(objects, k)
      /\ loop' = loop /\ file' = file
  BY DEF Create
<1>2. PICK p \in {a \in Live : data[a].id \in Holders} \cup {Nil} :
         data' = [a \in Heap |-> IF a = k THEN Object(n, TypeId, FALSE)
                                 ELSE IF a = p THEN [data[a] EXCEPT !.ref = n, !.stale = FALSE]
                                 ELSE data[a]]
  BY DEF Create
<1>3. k \in Heap /\ k \notin DOMAIN objects.index
  <2>1. k \in Unused
    BY <1>1 DEF NewAddress
  <2> QED BY <2>1 DEF Unused, Live, Heap
<1>4. SlotsOK(objects) /\ DataOK(data) /\ HeldOK(objects, data) /\ LoopOK(loop, objects, data)
  BY DEF UInv
<1> HIDE DEF k
<1>5. /\ SlotsOK(objects')
      /\ DOMAIN objects'.index = DOMAIN objects.index \cup {k} /\ objects'.index[k] = n
      /\ \A j \in DOMAIN objects.index : objects'.index[j] = objects.index[j]
      /\ n \in 0..MaxSlots-1
      /\ Range(objects.index) \cup {n} \subseteq Range(objects'.index)
  BY <1>1, <1>3, <1>4, IndexedIsOK
<1> HIDE DEF n
<1>6. data'[k] \in Objects /\ data'[k].id = n /\ Kinship(data'[k]) /\ ~Refers(data'[k])
  <2>1. data'[k] = ANew(n, TypeId)
    BY <1>2, <1>3 DEF ANew
  <2>2. n \in INVALID..MaxSlots-1 /\ TypeId \in INVALID..MaxSlots-1
    BY <1>5, UniverseAssumption DEF INVALID, TypeId
  <2>3. /\ data'[k] \in Objects /\ data'[k].id = n /\ data'[k].parent = TypeId
        /\ ~data'[k].proto /\ ~Refers(data'[k])
    BY <2>1, <2>2, InstanceIsObject
  <2> QED BY <2>3 DEF Kinship, TypeId, NullObjectId
<1>7. \A a \in Heap : a # k =>
         /\ data'[a] \in Objects /\ data'[a].id = data[a].id /\ data'[a].proto = data[a].proto
         /\ Kinship(data[a]) => Kinship(data'[a])
         /\ data'[a].ref = n \/ data'[a] = data[a]
  <2> SUFFICES ASSUME NEW a \in Heap, a # k
               PROVE  /\ data'[a] \in Objects /\ data'[a].id = data[a].id
                      /\ data'[a].proto = data[a].proto
                      /\ Kinship(data[a]) => Kinship(data'[a])
                      /\ data'[a].ref = n \/ data'[a] = data[a]
    OBVIOUS
  <2>1. data[a] \in Objects
    BY <1>4 DEF DataOK
  <2>2. CASE a = p
    <3> DEFINE N == Object(n, TypeId, FALSE)
    <3>1. data'[a] = IF a = k THEN N ELSE IF a = p THEN GivenTo(data[a], n) ELSE data[a]
      BY <1>2, Zenon DEF GivenTo
    <3> HIDE DEF N
    <3>2. data'[a] = GivenTo(data[a], n)
      BY <2>2, <3>1
    <3> QED BY <1>5, <2>1, <3>2, GivenObject
  <2>3. CASE a # p
    <3>1. data'[a] = data[a]
      BY <1>2, <2>3
    <3> QED BY <2>1, <3>1
  <2> QED BY <2>2, <2>3
<1>8. DataOK(data')
  <2>1. data' = [a \in Heap |-> data'[a]]
    <3> DEFINE F(a) == IF a = k THEN Object(n, TypeId, FALSE)
                       ELSE IF a = p THEN [data[a] EXCEPT !.ref = n, !.stale = FALSE]
                       ELSE data[a]
    <3>1. data' = [a \in Heap |-> F(a)]
      BY <1>2
    <3> HIDE DEF F
    <3> QED BY <3>1
  <2>2. \A a \in Heap : data'[a] \in Objects
    BY <1>6, <1>7
  <2> QED BY <2>1, <2>2 DEF DataOK
<1>9. HeldOK(objects', data')
  <2> SUFFICES ASSUME NEW o \in DOMAIN objects'.index
               PROVE  /\ data'[o].id = objects'.index[o]
                      /\ Kinship(data'[o])
                      /\ Refers(data'[o]) => data'[o].ref \in Range(objects'.index)
    BY DEF HeldOK
  <2>1. CASE o = k
    BY <1>5, <1>6, <2>1
  <2>2. CASE o # k
    <3>1. o \in DOMAIN objects.index /\ o \in Heap
      BY <1>4, <1>5, <2>2, SlotsInRange
    <3>2. /\ data[o].id = objects.index[o] /\ Kinship(data[o])
          /\ Refers(data[o]) => data[o].ref \in Range(objects.index)
      BY <1>4, <3>1 DEF HeldOK
    <3>3. /\ data'[o].id = data[o].id /\ Kinship(data'[o])
          /\ data'[o].ref = n \/ data'[o] = data[o]
      BY <1>7, <2>2, <3>1, <3>2
    <3> QED BY <1>5, <3>1, <3>2, <3>3
  <2> QED BY <2>1, <2>2
<1>10. LoopOK(loop', objects', data')
  <2>1. \A a \in loop.due : a \in Heap /\ a # k
    BY <1>3, <1>4, SlotsInRange DEF LoopOK
  <2>2. \A a \in loop.due : data'[a].id = data[a].id /\ (data'[a].proto <=> data[a].proto)
    BY <1>7, <2>1
  <2> QED BY <1>1, <1>4, <1>5, <2>2 DEF LoopOK
<1> QED BY <1>1, <1>5, <1>8, <1>9, <1>10 DEF UInv

(* An object that leaves the universe takes no other with it: those that   *)
(* stay keep their slots, and what refers to it is marked.                 *)
LEMMA GoneHolds ==
    ASSUME NEW o \in Live, DataOK(data), HeldOK(objects, data), SlotsOK(objects)
    PROVE  /\ DataOK(Gone(o))
           /\ \A a \in Live \ {o} :
                /\ Gone(o)[a].id = data[a].id /\ Gone(o)[a].proto = data[a].proto
                /\ Kinship(Gone(o)[a])
                /\ Refers(Gone(o)[a]) => /\ Gone(o)[a].ref \in Range(objects.index)
                                         /\ Gone(o)[a].ref # data[o].id
<1> DEFINE Marked(a) == a \in Live /\ data[a].ref = data[o].id /\ ~data[a].stale
           G(a) == IF a = o THEN NoObject
                   ELSE IF Marked(a) THEN [data[a] EXCEPT !.stale = TRUE] ELSE data[a]
           d == Gone(o)
<1>1. d = [a \in Heap |-> G(a)]
  BY DEF Gone
<1> HIDE DEF d
<1>2. \A a \in Heap : G(a) \in Objects
  <2> SUFFICES ASSUME NEW a \in Heap
               PROVE  G(a) \in Objects
    OBVIOUS
  <2>1. data[a] \in Objects
    BY DEF DataOK
  <2>2. [data[a] EXCEPT !.stale = TRUE] \in Objects
    BY <2>1, StaleObject
  <2> QED BY <2>1, <2>2, NoObjectIsObject
<1>3. ASSUME NEW a \in Live \ {o}
      PROVE  /\ G(a).id = data[a].id /\ G(a).proto = data[a].proto
             /\ Kinship(G(a))
             /\ Refers(G(a)) => G(a).ref \in Range(objects.index) /\ G(a).ref # data[o].id
  <2>1. a \in Heap /\ data[a] \in Objects /\ Kinship(data[a])
    BY SlotsInRange DEF DataOK, HeldOK, Live
  <2>2. CASE Marked(a)
    <3>1. G(a) = [data[a] EXCEPT !.stale = TRUE]
      BY <2>2
    <3> HIDE DEF G
    <3> QED BY <2>1, <3>1, StaleObject
  <2>3. CASE ~Marked(a)
    <3>1. G(a) = data[a]
      BY <2>3
    <3>2. Refers(data[a]) => data[a].ref # data[o].id
      BY <2>3 DEF Refers
    <3>3. Refers(data[a]) => data[a].ref \in Range(objects.index)
      BY DEF HeldOK, Live
    <3> HIDE DEF G
    <3> QED BY <2>1, <3>1, <3>2, <3>3
  <2> QED BY <2>2, <2>3
<1>4. Live \subseteq Heap
  BY SlotsInRange DEF Live
<1> HIDE DEF G
<1>5. DataOK(d)
  BY <1>1, <1>2 DEF DataOK
<1>6. \A a \in Live \ {o} : d[a] = G(a)
  BY <1>1, <1>4
<1> QED BY <1>3, <1>5, <1>6 DEF d

(* A destroyed object's slot is free and nothing unmarked refers to it.    *)
LEMMA DestroyKeepsUInv ==
    ASSUME UInv, NEW i, i \notin {NullObjectId, SystemObjectId}, Destroy(i)
    PROVE  UInv'
<1> DEFINE o == objects.registry[i]
<1>1. /\ i \in DOMAIN objects.registry \ objects.free
      /\ objects' = R!Removed(objects, i)
      /\ data' = Gone(o)
      /\ loop' = [loop EXCEPT !.due = @ \ {o}]
      /\ file' = file
  BY DEF Destroy
<1>2. SlotsOK(objects) /\ DataOK(data) /\ HeldOK(objects, data) /\ LoopOK(loop, objects, data)
  BY DEF UInv
<1>3. /\ R!IsIndex(objects')
      /\ o \in Live /\ objects.index[o] = i
      /\ DOMAIN objects'.index = Live \ {o}
      /\ \A j \in DOMAIN objects'.index : objects'.index[j] = objects.index[j]
      /\ objects'.size <= objects.size
  BY <1>1, <1>2, RemovedHolds DEF SlotsOK, Live
<1> HIDE DEF o
<1>4. SlotsOK(objects')
  <2>1. o # NullAt /\ o # SystemAt
    BY <1>2, <1>3 DEF SlotsOK
  <2>2. objects'.size <= MaxSlots
    <3>1. objects.size <= MaxSlots /\ objects.size \in Nat
      BY <1>2 DEF SlotsOK, R!IsIndex, R!Consistent
    <3>2. objects'.size \in Nat
      BY <1>3 DEF R!IsIndex, R!Consistent
    <3> QED BY <1>3, <3>1, <3>2, UniverseAssumption
  <2> QED BY <1>2, <1>3, <2>1, <2>2 DEF SlotsOK, Live
<1>5. data[o].id = i
  BY <1>2, <1>3 DEF HeldOK, Live
<1>6. /\ DataOK(data')
      /\ \A a \in Live \ {o} :
           /\ data'[a].id = data[a].id /\ data'[a].proto = data[a].proto
           /\ Kinship(data'[a])
           /\ Refers(data'[a]) => data'[a].ref \in Range(objects.index) /\ data'[a].ref # i
  BY <1>1, <1>2, <1>3, <1>5, GoneHolds
<1>7. HeldOK(objects', data')
  <2>1. \A r \in Range(objects.index) : r # i => r \in Range(objects'.index)
    <3> SUFFICES ASSUME NEW a \in DOMAIN objects.index, objects.index[a] # i
                 PROVE  objects.index[a] \in Range(objects'.index)
      BY DEF Range
    <3>1. a \in DOMAIN objects'.index /\ objects'.index[a] = objects.index[a]
      BY <1>3 DEF Live
    <3> QED BY <3>1 DEF Range
  <2>2. \A a \in Live \ {o} : data'[a].id = objects'.index[a]
    BY <1>2, <1>3, <1>6 DEF HeldOK, Live
  <2> QED BY <1>3, <1>6, <2>1, <2>2 DEF HeldOK
<1>8. LoopOK(loop', objects', data')
  <2>1. /\ loop'.on = loop.on /\ loop'.count = loop.count /\ loop'.next = loop.next
        /\ loop'.each = loop.each /\ loop'.due = loop.due \ {o}
        /\ loop' = [on |-> loop'.on, count |-> loop'.count, next |-> loop'.next,
                    each |-> loop'.each, due |-> loop'.due]
    BY <1>1, <1>2 DEF LoopOK
  <2>2. \A a \in loop'.due : a \in Live \ {o}
    BY <1>2, <2>1 DEF LoopOK, Live
  <2>3. \A a \in loop'.due : data'[a].id = data[a].id /\ (data'[a].proto <=> data[a].proto)
    BY <1>6, <2>2
  <2>4. loop'.on => \A a \in loop'.due : data'[a].id \in loop'.next..loop'.count-1 /\ ~data'[a].proto
    <3>1. loop'.on <=> loop.on
      BY <2>1
    <3> QED BY <1>2, <2>1, <2>3, <3>1 DEF LoopOK
  <2>5. loop.count \in Nat /\ loop.next \in Nat /\ loop.each \in Heap \cup {Nil}
    BY <1>2 DEF LoopOK
  <2> QED BY <1>3, <2>1, <2>2, <2>4, <2>5 DEF LoopOK
<1> QED BY <1>1, <1>4, <1>6, <1>7, <1>8 DEF UInv

(* What a loop lets go of is not part of the universe.                     *)
LEMMA HeapWithHolds ==
    ASSUME DataOK(data), SlotsOK(objects), HeldOK(objects, data), NEW e
    PROVE  /\ DataOK(HeapWith(e))
           /\ HeldOK(objects, HeapWith(e))
           /\ \A a \in Live : HeapWith(e)[a] = data[a]
<1> DEFINE d == HeapWith(e)
<1>1. d = [a \in Heap |-> IF a \in Live \cup {e} THEN data[a] ELSE NoObject]
  BY DEF HeapWith
<1> HIDE DEF d
<1>2. DataOK(d)
  BY <1>1, NoObjectIsObject DEF DataOK
<1>3. \A a \in Live : d[a] = data[a]
  BY <1>1, SlotsInRange DEF Live
<1>4. HeldOK(objects, d)
  BY <1>3 DEF HeldOK, Live
<1> QED BY <1>2, <1>3, <1>4 DEF d

(* An object in the universe, not a type, is one the loop can visit.       *)
LEMMA LiveIsVisitable ==
    ASSUME UInv, NEW a \in Live
    PROVE  /\ Visitable(a) <=> ~data[a].proto
           /\ GetObject(data[a].id) = a
<1>1. data[a].id = objects.index[a] /\ data[a].id \in Nat /\ a # Nil
  BY SlotsInRange, UniverseAssumption DEF UInv, HeldOK, Live, Heap
<1>2. data[a].id # INVALID
  BY <1>1 DEF INVALID
<1>3. GetObject(data[a].id) = a
  BY <1>1, AtFinds, GetObjectIsAt DEF UInv, Live
<1> QED BY <1>1, <1>2, <1>3 DEF Visitable

(* A loop begins with every visitable object still ahead of it.            *)
LEMMA ForBeginsKeepsUInv == UInv /\ ForBegins => UInv'
<1> SUFFICES ASSUME UInv, ForBegins
             PROVE  UInv'
  OBVIOUS
<1>1. /\ objects' = objects /\ data' = data /\ file' = file
      /\ loop' = [on |-> TRUE, count |-> objects.size, next |-> UserObjectsBeginAt,
                  each |-> Nil, due |-> Due]
  BY DEF ForBegins
<1>2. SlotsOK(objects) /\ DataOK(data) /\ HeldOK(objects, data)
  BY DEF UInv
<1>3. Due \subseteq Live /\ \A a \in Due : data[a].id >= 2 /\ Visitable(a)
  BY DEF Due, UserObjectsBeginAt
<1>4. \A a \in Due : data[a].id \in 2..objects.size-1 /\ ~data[a].proto
  <2> SUFFICES ASSUME NEW a \in Due
               PROVE  data[a].id \in 2..objects.size-1 /\ ~data[a].proto
    OBVIOUS
  <2>1. data[a].id \in 0..objects.size-1 /\ objects.size \in Nat
    BY <1>2, <1>3, SlotsInRange DEF HeldOK, Live
  <2>2. ~data[a].proto
    BY <1>3, LiveIsVisitable
  <2>3. data[a].id >= 2
    BY <1>3
  <2>4. data[a].id \in 2..objects.size-1
    BY <2>1, <2>3
  <2> QED BY <2>2, <2>4
<1>5. LoopOK(loop', objects, data)
  <2> DEFINE u == Due
  <2> HIDE DEF u
  <2>1. /\ loop'.count = objects.size /\ loop'.next = 2 /\ loop'.each = Nil /\ loop'.due = u
        /\ loop' = [on |-> loop'.on, count |-> loop'.count, next |-> loop'.next,
                    each |-> loop'.each, due |-> loop'.due]
    BY <1>1 DEF UserObjectsBeginAt, u
  <2>2. objects.size \in Nat
    BY <1>2, SlotsInRange
  <2>3. u \subseteq DOMAIN objects.index
    BY <1>3 DEF Live, u
  <2>4. \A a \in u : data[a].id \in 2..objects.size-1 /\ ~data[a].proto
    BY <1>4 DEF u
  <2> QED BY <2>1, <2>2, <2>3, <2>4 DEF LoopOK
<1> QED BY <1>1, <1>2, <1>5 DEF UInv

(* The loop stops at the first object it can visit, so the ones due are    *)
(* beyond it.                                                              *)
LEMMA ForVisitsKeepsUInv == UInv /\ ForVisits => UInv'
<1> SUFFICES ASSUME UInv, ForVisits
             PROVE  UInv'
  OBVIOUS
<1>1. PICK i \in loop.next..loop.count-1 :
         /\ Visitable(GetObject(i))
         /\ \A j \in loop.next..i-1 : ~Visitable(GetObject(j))
         /\ loop' = [loop EXCEPT !.next = i + 1, !.each = GetObject(i),
                                 !.due = @ \ {GetObject(i)}]
  BY DEF ForVisits
<1>2. loop.on /\ objects' = objects /\ file' = file /\ data' = HeapWith(loop'.each)
  BY DEF ForVisits
<1>3. SlotsOK(objects) /\ DataOK(data) /\ HeldOK(objects, data) /\ LoopOK(loop, objects, data)
  BY DEF UInv
<1>4. /\ DataOK(data') /\ HeldOK(objects', data')
      /\ \A a \in Live : data'[a] = data[a]
  BY <1>2, <1>3, HeapWithHolds
<1> DEFINE g == GetObject(i)
<1>5. /\ loop'.on = loop.on /\ loop'.count = loop.count /\ loop'.next = i + 1
      /\ loop'.each = g /\ loop'.due = loop.due \ {g}
      /\ loop' = [on |-> loop'.on, count |-> loop'.count, next |-> loop'.next,
                  each |-> loop'.each, due |-> loop'.due]
  BY <1>1, <1>3 DEF LoopOK
<1>6. g \in Heap \cup {Nil}
  BY <1>3, AtFinds, GetObjectIsAt, SlotsInRange
<1>7. \A a \in loop'.due : data'[a].id \in i+1..loop.count-1 /\ ~data'[a].proto
  <2> SUFFICES ASSUME NEW a \in loop.due, a # g
               PROVE  data'[a].id \in i+1..loop.count-1 /\ ~data'[a].proto
    BY <1>5
  <2>1. a \in Live /\ data[a].id \in loop.next..loop.count-1 /\ ~data[a].proto
    BY <1>2, <1>3 DEF LoopOK, Live
  <2>2. GetObject(data[a].id) = a /\ Visitable(a)
    BY <2>1, LiveIsVisitable
  <2>3. data[a].id \notin loop.next..i-1 /\ data[a].id # i
    BY <1>1, <2>2
  <2>4. data[a].id \in i+1..loop.count-1
    <3>1. loop.next \in Nat /\ loop.count \in Nat
      BY <1>3 DEF LoopOK
    <3> QED BY <2>1, <2>3, <3>1
  <2> QED BY <1>4, <2>1, <2>4
<1>8. LoopOK(loop', objects', data')
  <2>1. loop.count \in Nat /\ i+1 \in Nat /\ loop.due \subseteq DOMAIN objects.index
    BY <1>3 DEF LoopOK
  <2> HIDE DEF g
  <2> QED BY <1>2, <1>5, <1>6, <1>7, <2>1 DEF LoopOK
<1> QED BY <1>2, <1>3, <1>4, <1>8 DEF UInv

(* Without a loop only the universe itself is left.                        *)
LEMMA NoLoopKeepsUInv ==
    ASSUME UInv, objects' = objects, file' = file, loop' = NoLoop, data' = HeapWith(Nil)
    PROVE  UInv'
<1>1. SlotsOK(objects) /\ DataOK(data) /\ HeldOK(objects, data)
  BY DEF UInv
<1>2. DataOK(data') /\ HeldOK(objects', data')
  BY <1>1, HeapWithHolds
<1>3. LoopOK(loop', objects', data')
  BY DEF LoopOK, NoLoop
<1> QED BY <1>1, <1>2, <1>3 DEF UInv

(* Whatever is destroyed is not reserved, or the process ends.             *)
LEMMA DestroySomeKeepsUInv ==
    ASSUME ~MayDestroyReserved, UInv, DestroySome
    PROVE  UInv'
<1>1. PICK i \in Victims : Destroy(i) \/ DestroyNothing(i)
  BY DEF DestroySome
<1>2. i \notin {NullObjectId, SystemObjectId}
  BY DEF Victims
<1>3. CASE Destroy(i)
  BY <1>2, <1>3, DestroyKeepsUInv
<1>4. CASE DestroyNothing(i)
  BY <1>4, NoLoopKeepsUInv DEF DestroyNothing
<1> QED BY <1>1, <1>3, <1>4

(* A save leaves a file in order.                                          *)
LEMMA SaveKeepsUInv == UInv /\ Save => UInv'
  BY ImageIsFile DEF UInv, Save

----------------------------------------------------------------------------
(* Loading. *)

(* The records of a save are put at addresses apart from each other, the   *)
(* reserved objects' in the objects that are there.                        *)
LEMMA PlacementHolds ==
    ASSUME NEW slots, {NullObjectId, SystemObjectId} \subseteq slots,
           NEW free \in SUBSET Addresses, Places(slots, free) # {}
    PROVE  LET at == Placement(slots, free)
           IN  /\ at \in [slots -> Heap]
               /\ \A i, j \in slots : at[i] = at[j] => i = j
               /\ at[NullObjectId] = NullAt /\ at[SystemObjectId] = SystemAt
<1> DEFINE U == slots \ {NullObjectId, SystemObjectId}
           place == CHOOSE f \in Places(slots, free) : TRUE
           at == Placement(slots, free)
<1>1. place \in Places(slots, free)
  OBVIOUS
<1>2. place \in [U -> free] /\ \A i, j \in U : place[i] = place[j] => i = j
  BY <1>1 DEF Places, Injection, IsInjective
<1>3. at = [i \in slots |-> CASE i = NullObjectId -> NullAt
                             [] i = SystemObjectId -> SystemAt
                             [] i \notin {NullObjectId, SystemObjectId} -> place[i]]
  BY DEF Placement
<1> HIDE DEF place, at
<1>4. NullObjectId # SystemObjectId
  BY DEF NullObjectId, SystemObjectId
<1>5. at[NullObjectId] = NullAt /\ at[SystemObjectId] = SystemAt
  BY <1>3, <1>4
<1>6. \A i \in U : at[i] = place[i] /\ place[i] \in Addresses
  BY <1>2, <1>3
<1>7. at \in [slots -> Heap]
  BY <1>3, <1>5, <1>6 DEF Heap
<1>8. ASSUME NEW i \in slots, NEW j \in slots, at[i] = at[j]
      PROVE  i = j
  <2>1. NullAt # SystemAt /\ NullAt \notin Addresses /\ SystemAt \notin Addresses
    BY UniverseAssumption
  <2>2. CASE i \in U /\ j \in U
    BY <1>2, <1>6, <1>8, <2>2
  <2>3. CASE i \notin U \/ j \notin U
    BY <1>5, <1>6, <1>8, <2>1, <2>3
  <2> QED BY <2>2, <2>3
<1> QED BY <1>5, <1>7, <1>8 DEF at

(* A load puts each record's object in the record's slot, and writing the  *)
(* registry again gives what was read.                                     *)
LEMMA LoadHolds ==
    ASSUME UInv, Load
    PROVE  LET at == Placement(DOMAIN file.records, Addresses \ {loop.each})
           IN  /\ at \in [DOMAIN file.records -> Heap]
               /\ SlotsOK(objects')
               /\ DOMAIN objects'.index = Range(at)
               /\ \A i \in DOMAIN file.records :
                     objects'.index[at[i]] = i /\ data'[at[i]] = file.records[i]
               /\ R!Written(objects') = [file EXCEPT !.records = at]
               /\ DataOK(data')
<1> DEFINE slots == DOMAIN file.records
           at == Placement(slots, Addresses \ {loop.each})
           g == [file EXCEPT !.records = at]
<1>1. /\ Places(slots, Addresses \ {loop.each}) # {}
      /\ objects' = R!ReadInto(Reserved(R!Cleared), g)
  BY DEF Load, ClearedObjects
<1>2. /\ file = [total |-> file.total, count |-> file.count, records |-> file.records]
      /\ file.total \in 0..MaxSlots /\ file.count = Cardinality(slots)
      /\ slots \subseteq 0..file.total-1 /\ file.total-1 \in slots
      /\ {NullObjectId, SystemObjectId} \subseteq slots
      /\ \A i \in slots : file.records[i] \in Objects
  BY DEF UInv, FileOK
<1>3. /\ at \in [slots -> Heap]
      /\ \A i, j \in slots : at[i] = at[j] => i = j
      /\ at[NullObjectId] = NullAt /\ at[SystemObjectId] = SystemAt
  BY <1>1, <1>2, PlacementHolds
<1> HIDE DEF at
<1>4. /\ g = [total |-> g.total, count |-> g.count, records |-> g.records]
      /\ g.total = file.total /\ g.count = file.count /\ g.records = at
  BY <1>2
<1> HIDE DEF g
<1>5. PlacedOK(g)
  <2>1. g.total \in Nat
    BY <1>2, <1>4, UniverseAssumption
  <2>2. R!IsInjective(at)
    BY <1>3 DEF R!IsInjective
  <2>3. DOMAIN at = slots
    BY <1>3
  <2>4. R!IsFile(g)
    BY <1>2, <1>3, <1>4, <2>1, <2>2, <2>3 DEF R!IsFile
  <2> QED BY <1>2, <1>3, <1>4, <2>3, <2>4 DEF PlacedOK
<1>6. IsFiniteSet(DOMAIN g.records) /\ g.count = Cardinality(DOMAIN g.records)
  <2>1. IsFiniteSet(0..file.total-1)
    <3>1. 0 \in Int /\ file.total-1 \in Int
      BY <1>2, UniverseAssumption
    <3> QED BY <3>1, FS_Interval
  <2>2. IsFiniteSet(slots)
    BY <1>2, <2>1, FS_Subset
  <2> QED BY <1>2, <1>3, <1>4, <2>2
<1>7. /\ R!IsIndex(objects') /\ objects'.size = file.total
      /\ DOMAIN objects'.index = Range(at)
      /\ \A i \in slots : objects'.index[at[i]] = i
      /\ R!Written(objects') = g
  BY <1>1, <1>3, <1>4, <1>5, <1>6, ReadHolds
<1>8. SlotsOK(objects')
  <2>1. file.total <= MaxSlots
    BY <1>2, UniverseAssumption
  <2>2. {NullAt, SystemAt} \subseteq Range(at)
    BY <1>2, <1>3 DEF Range
  <2> QED BY <1>2, <1>3, <1>7, <2>1, <2>2 DEF SlotsOK
<1> DEFINE Rec(a) == file.records[CHOOSE i \in slots : at[i] = a]
           Rest(a) == IF a = loop.each THEN data[a]
                      ELSE IF a = NullAt THEN Object(NullObjectId, INVALID, TRUE)
                      ELSE IF a = SystemAt THEN Object(SystemObjectId, INVALID, FALSE)
                      ELSE NoObject
<1>9. data' = [a \in Heap |-> IF \E i \in slots : at[i] = a THEN Rec(a) ELSE Rest(a)]
  <2>1. DOMAIN at = slots
    BY <1>3
  <2>2. data' = [a \in Heap |-> IF \E i \in DOMAIN at : at[i] = a
                                THEN file.records[CHOOSE i \in DOMAIN at : at[i] = a]
                                ELSE Rest(a)]
    BY Zenon DEF Load, at
  <2> HIDE DEF Rest
  <2> QED BY <2>1, <2>2
<1>10. \A a \in Heap : Rest(a) \in Objects
  <2>1. \A a \in Heap : data[a] \in Objects
    BY DEF UInv, DataOK
  <2>2. {INVALID, NullObjectId, SystemObjectId} \subseteq INVALID..MaxSlots-1
    BY UniverseAssumption DEF INVALID, NullObjectId, SystemObjectId
  <2>3. ANewType(NullObjectId, INVALID) \in Objects /\ ANew(SystemObjectId, INVALID) \in Objects
    BY <2>2, TypeIsObject, InstanceIsObject
  <2>4. \A a : Rest(a) = IF a = loop.each THEN data[a]
                         ELSE IF a = NullAt THEN ANewType(NullObjectId, INVALID)
                         ELSE IF a = SystemAt THEN ANew(SystemObjectId, INVALID)
                         ELSE NoObject
    BY Zenon DEF ANew, ANewType
  <2> HIDE DEF Rest
  <2> QED BY <2>1, <2>3, <2>4, NoObjectIsObject
<1> HIDE DEF Rest
<1>11. \A i \in slots : data'[at[i]] = file.records[i]
  <2> SUFFICES ASSUME NEW i \in slots
               PROVE  data'[at[i]] = file.records[i]
    OBVIOUS
  <2>1. at[i] \in Heap
    BY <1>3
  <2>2. (CHOOSE j \in slots : at[j] = at[i]) = i
    BY <1>3
  <2> QED BY <1>9, <2>1, <2>2
<1>12. DataOK(data')
  <2>1. \A a \in Heap : data'[a] \in Objects
    <3> SUFFICES ASSUME NEW a \in Heap
                 PROVE  data'[a] \in Objects
      OBVIOUS
    <3>1. CASE \E i \in slots : at[i] = a
      BY <1>2, <1>11, <3>1
    <3>2. CASE ~ \E i \in slots : at[i] = a
      BY <1>9, <1>10, <3>2
    <3> QED BY <3>1, <3>2
  <2>2. data' = [a \in Heap |-> data'[a]]
    BY <1>9
  <2> QED BY <2>1, <2>2 DEF DataOK
<1> QED BY <1>3, <1>7, <1>8, <1>11, <1>12 DEF at, g

(* A load leaves a universe in order, and a loop nothing is due in.        *)
LEMMA LoadKeepsUInv == UInv /\ Load => UInv'
<1> SUFFICES ASSUME UInv, Load
             PROVE  UInv'
  OBVIOUS
<1> DEFINE at == Placement(DOMAIN file.records, Addresses \ {loop.each})
<1>1. /\ at \in [DOMAIN file.records -> Heap]
      /\ SlotsOK(objects')
      /\ DOMAIN objects'.index = Range(at)
      /\ \A i \in DOMAIN file.records :
            objects'.index[at[i]] = i /\ data'[at[i]] = file.records[i]
      /\ DataOK(data')
  BY LoadHolds
<1> HIDE DEF at
<1>2. FileOK(file) /\ LoopOK(loop, objects, data)
  BY DEF UInv
<1>3. file' = file /\ loop' = [loop EXCEPT !.due = {}]
  BY DEF Load
<1>4. HeldOK(objects', data')
  <2> SUFFICES ASSUME NEW o \in DOMAIN objects'.index
               PROVE  /\ data'[o].id = objects'.index[o]
                      /\ Kinship(data'[o])
                      /\ Refers(data'[o]) => data'[o].ref \in Range(objects'.index)
    BY DEF HeldOK
  <2>1. PICK i \in DOMAIN file.records : o = at[i]
    BY <1>1 DEF Range
  <2>2. data'[o] = file.records[i] /\ objects'.index[o] = i
    BY <1>1, <2>1
  <2>3. \A j \in DOMAIN file.records : j \in Range(objects'.index)
    <3> SUFFICES ASSUME NEW j \in DOMAIN file.records
                 PROVE  j \in Range(objects'.index)
      OBVIOUS
    <3>1. at[j] \in DOMAIN objects'.index /\ objects'.index[at[j]] = j
      BY <1>1 DEF Range
    <3> QED BY <3>1 DEF Range
  <2> QED BY <1>2, <2>2, <2>3 DEF FileOK
<1>5. LoopOK(loop', objects', data')
  <2>1. /\ loop'.count = loop.count /\ loop'.next = loop.next
        /\ loop'.each = loop.each /\ loop'.due = {}
        /\ loop' = [on |-> loop'.on, count |-> loop'.count, next |-> loop'.next,
                    each |-> loop'.each, due |-> loop'.due]
    BY <1>2, <1>3 DEF LoopOK
  <2>2. loop.count \in Nat /\ loop.next \in Nat /\ loop.each \in Heap \cup {Nil}
    BY <1>2 DEF LoopOK
  <2> QED BY <2>1, <2>2 DEF LoopOK
<1> QED BY <1>1, <1>2, <1>3, <1>4, <1>5 DEF UInv

(* Every step keeps the invariant.                                         *)
LEMMA StepKeepsUInv ==
    ASSUME ~MayDestroyReserved
    PROVE  UInv /\ [Next]_vars => UInv'
<1> SUFFICES ASSUME UInv, [Next]_vars
             PROVE  UInv'
  OBVIOUS
<1>1. CASE Create
  BY <1>1, CreateKeepsUInv
<1>2. CASE DestroySome
  BY <1>2, DestroySomeKeepsUInv
<1>3. CASE ForBegins
  BY <1>3, ForBeginsKeepsUInv
<1>4. CASE ForVisits
  BY <1>4, ForVisitsKeepsUInv
<1>5. CASE ForEnds
  BY <1>5, NoLoopKeepsUInv DEF ForEnds
<1>6. CASE Save
  BY <1>6, SaveKeepsUInv
<1>7. CASE Load
  BY <1>7, LoadKeepsUInv
<1>8. CASE UNCHANGED vars
  BY <1>8 DEF vars, UInv
<1> QED BY <1>1, <1>2, <1>3, <1>4, <1>5, <1>6, <1>7, <1>8 DEF Next

----------------------------------------------------------------------------
(* The theorems.  As in the runs that expect them to hold, the game never  *)
(* destroys one of the two reserved objects.                               *)

(* The registry, the objects, the loop and the save stay in order.         *)
THEOREM Invariance ==
    ASSUME ~MayDestroyReserved
    PROVE  Spec => []UInv
<1>1. UInv /\ [Next]_vars => UInv'
  BY StepKeepsUInv
<1> QED BY InitEstablishesUInv, <1>1, PTL DEF Spec

(* Every object in the universe is in the slot that its id names, whatever *)
(* was created, destroyed, saved and loaded, inside a loop or not.         *)
THEOREM RegistryIsOK ==
    ASSUME ~MayDestroyReserved
    PROVE  Spec => []RegistryOK
<1>1. UInv => RegistryOK
  <2> SUFFICES ASSUME UInv
               PROVE  RegistryOK
    OBVIOUS
  <2>1. R!IsIndex(objects) /\ objects.size <= MaxSlots
    BY DEF UInv, SlotsOK
  <2>2. data \in [Heap -> Objects]
    BY DEF UInv, DataOK
  <2>3. \A a \in Live : data[a].id = objects.index[a]
    BY DEF UInv, HeldOK, Live
  <2>4. loop.each \in Heap \cup {Nil} /\ loop.due \subseteq Live
    BY DEF UInv, LoopOK, Live
  <2> QED BY <2>1, <2>2, <2>3, <2>4 DEF RegistryOK
<1> QED BY <1>1, Invariance, PTL

(* 'for each' misses none of the objects that were there when it began and *)
(* still are, although slots are emptied and filled again under it.        *)
THEOREM NoSurvivorIsSkippedHolds ==
    ASSUME ~MayDestroyReserved
    PROVE  Spec => []NoSurvivorIsSkipped
<1>1. UInv => NoSurvivorIsSkipped
  <2> SUFFICES ASSUME UInv, loop.on, NEW a \in loop.due
               PROVE  /\ data[a].id \in loop.next..loop.count-1
                      /\ GetObject(data[a].id) = a /\ Visitable(a)
    BY DEF NoSurvivorIsSkipped
  <2>1. a \in Live /\ data[a].id \in loop.next..loop.count-1 /\ ~data[a].proto
    BY DEF UInv, LoopOK, Live
  <2> QED BY <2>1, LiveIsVisitable
<1> QED BY <1>1, Invariance, PTL

(* A reference to an object that was not destroyed leads to that object.   *)
THEOREM LiveReferencesResolveHolds ==
    ASSUME ~MayDestroyReserved
    PROVE  Spec => []LiveReferencesResolve
<1>1. UInv => LiveReferencesResolve
  <2> SUFFICES ASSUME UInv, NEW o \in Live, data[o].ref # NoRef /\ ~data[o].stale
               PROVE  /\ GetObject(data[o].ref) # Nil
                      /\ data[GetObject(data[o].ref)].id = data[o].ref
    BY DEF LiveReferencesResolve
  <2>1. data[o].ref \in Range(objects.index)
    BY DEF UInv, HeldOK, Live, Refers
  <2>2. PICK a \in Live : data[o].ref = objects.index[a]
    BY <2>1 DEF Range, Live
  <2>3. data[a].id = objects.index[a]
    BY DEF UInv, HeldOK, Live
  <2>4. GetObject(data[o].ref) = a
    BY <2>2, <2>3, LiveIsVisitable
  <2>5. a # Nil
    BY SlotsInRange, UniverseAssumption DEF UInv, Live, Heap
  <2> QED BY <2>2, <2>3, <2>4, <2>5
<1> QED BY <1>1, Invariance, PTL

(* A load leaves exactly the universe that was saved, holes included.      *)
THEOREM LoadRestoresHolds ==
    ASSUME ~MayDestroyReserved
    PROVE  Spec => LoadRestores
<1>1. ASSUME UInv, Load
      PROVE  ImageOf(objects', data') = file
  <2> DEFINE at == Placement(DOMAIN file.records, Addresses \ {loop.each})
             w == R!Written(objects')
  <2>1. /\ at \in [DOMAIN file.records -> Heap]
        /\ \A i \in DOMAIN file.records : data'[at[i]] = file.records[i]
        /\ w = [file EXCEPT !.records = at]
    BY <1>1, LoadHolds
  <2> HIDE DEF at, w
  <2>2. /\ file = [total |-> file.total, count |-> file.count, records |-> file.records]
        /\ file.records = [i \in DOMAIN file.records |-> file.records[i]]
    BY <1>1 DEF UInv, FileOK
  <2>3. w.total = file.total /\ w.count = file.count /\ w.records = at
    BY <2>1, <2>2
  <2>4. [i \in DOMAIN w.records |-> data'[w.records[i]]] = file.records
    BY <2>1, <2>2, <2>3
  <2>5. ImageOf(objects', data') = [total |-> w.total, count |-> w.count,
                                    records |-> [i \in DOMAIN w.records |-> data'[w.records[i]]]]
    BY DEF ImageOf, w
  <2> QED BY <2>2, <2>3, <2>4, <2>5
<1>2. UInv /\ [Next]_vars => [Load => ImageOf(objects', data') = file]_vars
  BY <1>1
<1> QED BY <1>2, Invariance, PTL DEF Spec, LoadRestores

(* From any object in the universe the way up is an object, a type and the *)
(* type of types at most.                                                  *)
LEMMA ThreeStepsUp ==
    ASSUME UInv, NEW o \in Live
    PROVE  LET p == ParentOf(o)
               q == ParentOf(p)
           IN  p # Nil /\ q # Nil => ParentOf(q) = Nil
<1> DEFINE p == ParentOf(o)
           q == ParentOf(p)
<1>1. \A a : ParentOf(a) # Nil =>
                /\ ParentOf(a) = GetObject(data[a].parent)
                /\ data[ParentOf(a)].proto
                /\ ~(data[a].parent < 0)
  BY DEF ParentOf
<1>2. \A i : GetObject(i) # Nil => GetObject(i) \in Live /\ objects.index[GetObject(i)] = i
  BY AtFinds, GetObjectIsAt DEF UInv, Live
<1>3. \A a \in Live : /\ data[a].id = objects.index[a]
                      /\ Kinship(data[a])
  BY DEF UInv, HeldOK, Live
<1> HIDE DEF p, q
<1> SUFFICES ASSUME p # Nil, q # Nil, ParentOf(q) # Nil
             PROVE  FALSE
  BY DEF p, q
<1>4. p \in Live /\ data[p].proto
  BY <1>1, <1>2 DEF p
<1>5. /\ q \in Live /\ data[q].proto /\ q = GetObject(data[p].parent)
      /\ ~(data[p].parent < 0)
  BY <1>1, <1>2 DEF q
<1>6. data[p].parent = NullObjectId
  BY <1>3, <1>4, <1>5 DEF Kinship, INVALID
<1>7. data[q].id = NullObjectId
  BY <1>2, <1>3, <1>5, <1>6
<1>8. data[q].parent = INVALID
  BY <1>3, <1>5, <1>7 DEF Kinship, NullObjectId, TypeId
<1> QED BY <1>1, <1>8 DEF INVALID

(* Looking an attribute or a method up through parent() comes to an end.   *)
THEOREM LookupsEndHolds ==
    ASSUME ~MayDestroyReserved
    PROVE  Spec => []LookupsEnd
<1> DEFINE C == Cardinality(Heap)
           Rung(o, f) == [n \in 0..C |-> IF n = 0 THEN o
                                         ELSE IF f[n-1] = Nil THEN Nil ELSE ParentOf(f[n-1])]
<1>1. ASSUME UInv, NEW o \in Live, NEW up, up = CHOOSE f : f = Rung(o, f)
      PROVE  up[C] = Nil
  <2> DEFINE p == ParentOf(o)
             q == IF p = Nil THEN Nil ELSE ParentOf(p)
             g == [n \in 0..C |-> IF n = 0 THEN o ELSE IF n = 1 THEN p ELSE IF n = 2 THEN q ELSE Nil]
  <2>1. C \in Nat /\ C > 3
    BY HeapIsFinite
  <2>2. o # Nil
    BY <1>1, SlotsInRange, UniverseAssumption DEF UInv, Live, Heap
  <2>3. q # Nil => ParentOf(q) = Nil
    BY <1>1, ThreeStepsUp
  <2>4. p = Nil => q = Nil
    OBVIOUS
  <2>5. p # Nil => q = ParentOf(p)
    OBVIOUS
  <2> HIDE DEF C
  <2>6. g = Rung(o, g)
    <3> SUFFICES ASSUME NEW n \in 0..C
                 PROVE  g[n] = IF n = 0 THEN o
                               ELSE IF g[n-1] = Nil THEN Nil ELSE ParentOf(g[n-1])
      OBVIOUS
    <3> HIDE DEF p, q
    <3>1. CASE n = 0
      BY <2>1, <3>1
    <3>2. CASE n = 1
      BY <2>1, <2>2, <3>2 DEF p
    <3>3. CASE n = 2
      BY <2>1, <2>4, <2>5, <3>3
    <3>4. CASE n = 3
      BY <2>1, <2>3, <3>4
    <3>5. CASE n > 3
      <4>1. n-1 \in 0..C /\ n-1 > 2 /\ n-1 \in Int
        BY <2>1, <3>5
      <4>2. g[n-1] = Nil /\ g[n] = Nil
        BY <2>1, <3>5, <4>1
      <4> QED BY <3>5, <4>2
    <3> QED BY <2>1, <3>1, <3>2, <3>3, <3>4, <3>5
  <2>7. up = Rung(o, up)
    <3> HIDE DEF g, Rung
    <3> QED BY <1>1, <2>6
  <2>8. \A n \in 0..C : up[n] = IF n = 0 THEN o
                                ELSE IF up[n-1] = Nil THEN Nil ELSE ParentOf(up[n-1])
    BY <2>7
  <2> HIDE DEF Rung, g
  <2>9. up[3] = Nil
    <3>1. up[0] = o
      BY <2>1, <2>8
    <3>2. up[1] = p
      BY <2>1, <2>2, <2>8, <3>1
    <3> HIDE DEF p
    <3>3. up[2] = q
      BY <2>1, <2>8, <3>2
    <3> HIDE DEF q
    <3> QED BY <2>1, <2>3, <2>8, <3>3
  <2> DEFINE S == {n \in 3..C : up[n] # Nil}
  <2>10. S = {}
    <3> SUFFICES ASSUME S # {}
                 PROVE  FALSE
      OBVIOUS
    <3>1. S \in SUBSET Nat
      BY <2>1
    <3>2. PICK m \in S : \A n \in S : ~ (<<n, m>> \in OpToRel(<, Nat))
      BY <3>1, NatLessThanWellFounded, WFMin
    <3>3. m \in 3..C /\ m # 3 /\ up[m] # Nil
      BY <2>9, <3>2
    <3>4. m-1 \in 3..C /\ m-1 < m
      BY <2>1, <3>3
    <3>5. m-1 \notin S
      <4>1. m \in Nat /\ m-1 \in Nat
        BY <2>1, <3>3
      <4>2. <<m-1, m>> \in OpToRel(<, Nat)
        BY <3>4, <4>1 DEF OpToRel
      <4> HIDE DEF S
      <4> QED BY <3>2, <4>2
    <3>6. up[m-1] = Nil
      BY <3>4, <3>5
    <3> QED BY <2>1, <2>8, <3>3, <3>6
  <2> QED BY <2>1, <2>10
<1>2. UInv => LookupsEnd
  BY <1>1 DEF LookupsEnd
<1> QED BY <1>2, Invariance, PTL
=============================================================================
