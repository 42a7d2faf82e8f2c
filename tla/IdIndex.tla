------------------------------ MODULE IdIndex ------------------------------
(***************************************************************************)
(* IdIndex<T> (IdIndex.hh), the registry behind the names, messages, text  *)
(* literals and objects of a universe: index_ from keys to slots,          *)
(* registry_ from slots to keys, and free_, the slots given back.  The     *)
(* first part gives each member function as an operator on an index, for   *)
(* the modules that hold one; the second runs one index on its own.        *)
(***************************************************************************)
EXTENDS Naturals, FiniteSets, Functions, FiniteSetsExt

CONSTANTS
    Keys,
    Blank,         \* T{}, what an unoccupied slot holds; may itself be a key
    RecordBytes,   \* the fewest bytes a record takes in a file
    Rest           \* the bytes that follow the index in the file

ASSUME IdIndexAssumption == RecordBytes \in Nat /\ Rest \in Nat

NoKeys == [k \in {} |-> 0]

Cleared == [index |-> NoKeys, registry |-> [i \in {} |-> Blank], size |-> 0, free |-> {}]

NextSlot(x) == IF x.free = {} THEN x.size ELSE Min(x.free)

\* index() on a miss.
Indexed(x, k) ==
    LET i == NextSlot(x)
    IN  [index    |-> [j \in DOMAIN x.index \cup {k} |-> IF j = k THEN i ELSE x.index[j]],
         registry |-> [j \in DOMAIN x.registry \cup {i} |-> IF j = i THEN k ELSE x.registry[j]],
         size     |-> IF x.free = {} THEN x.size + 1 ELSE x.size,
         free     |-> x.free \ {i}]

\* A bug: the while loop of remove() is not there.
Untrimmed(x) == x

\* The while loop at the end of remove(): free slots are popped off the end.
Trimmed(x) ==
    LET n == CHOOSE n \in 0..x.size :
                 /\ n..x.size-1 \subseteq x.free
                 /\ n > 0 => n-1 \notin x.free
    IN  [x EXCEPT !.registry = Restrict(@, 0..n-1), !.size = n, !.free = @ \cap 0..n-1]

\* remove() of an occupied slot.
Removed(x, i) ==
    Trimmed([index    |-> Restrict(x.index, DOMAIN x.index \ {x.registry[i]}),
             registry |-> [x.registry EXCEPT ![i] = Blank],
             size     |-> x.size,
             free     |-> x.free \cup {i}])

\* A bug: a slot counts as occupied when what it holds is not T{}.
WrittenByValue(x) ==
    [total   |-> x.size,
     count   |-> Cardinality(DOMAIN x.index),
     records |-> Restrict(x.registry, {i \in DOMAIN x.registry : x.registry[i] # Blank})]

\* write(): the slot count, the record count, and the records in slot order.
Written(x) ==
    [total   |-> x.size,
     count   |-> Cardinality(DOMAIN x.index),
     records |-> [i \in Range(x.index) |-> CHOOSE k \in DOMAIN x.index : x.index[k] = i]]

\* The counts read() refuses: more slots than bytes left, more records than slots.
Readable(f) == f.total <= RecordBytes * f.count + Rest /\ f.count <= f.total

RegistryRead(x, f) ==
    [i \in 0..f.total-1 |-> IF i \in DOMAIN f.records THEN f.records[i]
                            ELSE IF i < x.size THEN x.registry[i] ELSE Blank]

IndexRead(x, f) ==
    [k \in DOMAIN x.index \cup Range(f.records) |->
        IF k \in Range(f.records)
        THEN CHOOSE i \in DOMAIN f.records : f.records[i] = k
        ELSE x.index[k]]

\* A bug: read() leaves free_ empty.
ReadWithoutHoles(x, f) ==
    [index |-> IndexRead(x, f), registry |-> RegistryRead(x, f), size |-> f.total,
     free  |-> {}]

\* read() into an index that need not be empty.
ReadInto(x, f) ==
    [index |-> IndexRead(x, f), registry |-> RegistryRead(x, f), size |-> f.total,
     free  |-> 0..f.total-1 \ DOMAIN f.records]

----------------------------------------------------------------------------
(* One index, and a file it is saved to and restored from. *)

VARIABLES ix, file

vars == <<ix, file>>

Init == ix = Cleared /\ file = Written(Cleared)

Index(k) ==
    /\ k \notin DOMAIN ix.index
    /\ ix' = Indexed(ix, k)
    /\ UNCHANGED file

Remove(i) ==
    /\ i \in DOMAIN ix.registry \ ix.free
    /\ ix' = Removed(ix, i)
    /\ UNCHANGED file

Write ==
    /\ file' = Written(ix)
    /\ UNCHANGED ix

\* clear() and read(), as a universe that is loaded does.
Read ==
    /\ Readable(file)
    /\ ix' = ReadInto(Cleared, file)
    /\ UNCHANGED file

ReadThrows ==
    /\ ~Readable(file)
    /\ ix' = Cleared
    /\ UNCHANGED file

Next ==
    \/ \E k \in Keys : Index(k)
    \/ \E i \in DOMAIN ix.registry : Remove(i)
    \/ Write \/ Read \/ ReadThrows

Spec == Init /\ [][Next]_vars

----------------------------------------------------------------------------
(* Properties. *)

\* Keys and occupied slots are each other's inverse, and a slot is free or
\* occupied whatever it holds (IdIndex.hh:35-41).
Consistent(x) ==
    /\ x = [index |-> x.index, registry |-> x.registry, size |-> x.size, free |-> x.free]
    /\ x.size \in Nat
    /\ x.registry \in [0..x.size-1 -> Keys \cup {Blank}]
    /\ x.index \in [DOMAIN x.index -> 0..x.size-1] /\ DOMAIN x.index \subseteq Keys
    /\ x.free \subseteq 0..x.size-1
    /\ \A k \in DOMAIN x.index : x.index[k] \notin x.free /\ x.registry[x.index[k]] = k
    /\ \A i \in 0..x.size-1 \ x.free :
         x.registry[i] \in DOMAIN x.index /\ x.index[x.registry[i]] = i
    /\ \A i \in x.free : x.registry[i] = Blank

\* "A hole at the end is not a hole, it is a shorter registry" (IdIndex.hh:91).
NoHoleAtTheEnd(x) == x.size > 0 => x.size-1 \notin x.free

IsIndex(x) == Consistent(x) /\ NoHoleAtTheEnd(x)

\* A file whose records were written by write() from an index.
IsFile(f) ==
    /\ f = [total |-> f.total, count |-> f.count, records |-> f.records]
    /\ f.total \in Nat
    /\ f.records \in [DOMAIN f.records -> Keys]
    /\ DOMAIN f.records \subseteq 0..f.total-1
    /\ IsInjective(f.records)
    /\ f.total > 0 => f.total-1 \in DOMAIN f.records

IInv == IsIndex(ix) /\ IsFile(file)

\* A round trip arrives at the same index, holes and length included, although
\* no hole is written down (TestIdIndex.cc:66-68).
RoundTrip == ReadInto(Cleared, Written(ix)) = ix

\* Whatever is removed, saved, restored or refused, and in whatever order, the
\* index hands out the slots that a table without holes, lengths and files
\* would, the lowest unused one first (IdIndex.hh:70-72, 193-195).
Table == INSTANCE SlotTable
             WITH owner <- ix.index, saved <- AntiFunction(file.records)

HandsOutLowestUnused == Table!Spec
=============================================================================
