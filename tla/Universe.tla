------------------------------ MODULE Universe ------------------------------
(***************************************************************************)
(* The objects of a running game (Universe.cc, Object.cc): 'create',       *)
(* 'destroy' and 'for each' (Statement.cc) over an object registry whose   *)
(* slots are reused, references that are slot numbers, types looked up by  *)
(* parent id, and the universe written to a file and read back in the      *)
(* middle of it all.  The statements a game executes are arbitrary.        *)
(***************************************************************************)
EXTENDS Integers, FiniteSets, Functions, FiniteSetsExt

CONSTANTS
    Addresses,          \* where the heap can put an object of the game
    NullAt, SystemAt,   \* where the reserved objects are
    Nil,                \* nullptr
    MaxSlots,           \* bound: the registry's length
    Holders,            \* bound: ids of the objects whose attribute is written
    MayDestroyReserved  \* whether the game ever destroys 'null' or 'system'

ASSUME UniverseAssumption ==
    /\ MaxSlots \in Nat /\ Holders \subseteq 0..MaxSlots-1 /\ MayDestroyReserved \in BOOLEAN
    /\ IsFiniteSet(Addresses) /\ MaxSlots > 3 /\ \E a, b \in Addresses : a # b
    /\ {NullAt, SystemAt, Nil} \cap Addresses = {}
    /\ NullAt # SystemAt /\ Nil \notin {NullAt, SystemAt}

VARIABLES
    objects,   \* objects_
    data,      \* what the object at each address holds
    loop,      \* the ForStatement being executed
    file,      \* the universe last saved
    running    \* FALSE once an exception or a crash has ended the process

vars == <<objects, data, loop, file, running>>

Heap == Addresses \cup {NullAt, SystemAt}

R == INSTANCE IdIndex WITH
         Keys <- Heap, Blank <- Nil, RecordBytes <- 7, Rest <- 0,
         ix <- objects, file <- file

INVALID == -1
NoRef   == -2
NullObjectId == 0
SystemObjectId == 1
UserObjectsBeginAt == 2

\* id_, parentId_, prototype_, one attribute holding an object, and, as
\* history, whether the object it was given has been destroyed since.
Objects == [id : INVALID..MaxSlots-1, parent : INVALID..MaxSlots-1,
            proto : BOOLEAN, ref : NoRef..MaxSlots-1, stale : BOOLEAN]

Object(id, parent, proto) ==
    [id |-> id, parent |-> parent, proto |-> proto, ref |-> NoRef, stale |-> FALSE]

NoObject == Object(INVALID, INVALID, FALSE)
NoLoop   == [on |-> FALSE, count |-> 0, next |-> 0, each |-> Nil, due |-> {}]

----------------------------------------------------------------------------
(* Lookups. *)

\* getObject(int): the reserved objects whatever the registry holds.
GetObject(i) ==
    CASE i = NullObjectId   -> NullAt
      [] i = SystemObjectId -> SystemAt
      [] i \notin {NullObjectId, SystemObjectId} ->
           IF i \in DOMAIN objects.registry THEN objects.registry[i] ELSE Nil

\* A bug: parent() takes whatever stands at the parent's id.
ParentUnchecked(o) ==
    IF data[o].parent < 0 THEN Nil ELSE GetObject(data[o].parent)

\* parent(): an object that is not a type has taken a type's slot otherwise.
ParentOf(o) ==
    LET p == IF data[o].parent < 0 THEN Nil ELSE GetObject(data[o].parent)
    IN  IF p # Nil /\ data[p].proto THEN p ELSE Nil

Live == DOMAIN objects.index

\* The heap gives a new object some address that no shared_ptr leads to.
Unused == Addresses \ (Live \cup {loop.each})
NewAddress == CHOOSE a \in Unused : TRUE

\* What is on the heap once 'each' leads elsewhere.
HeapWith(each) == [a \in Heap |-> IF a \in Live \cup {each} THEN data[a] ELSE NoObject]

\* The type, the named object and the reserved objects a program is compiled with.
TypeId  == 2
NamedIds == 0..3

\* The ids a statement can lay its hands on.
Held ==
    NamedIds \cup {data[o].ref : o \in Live}
        \cup (IF loop.each = Nil THEN {} ELSE {data[loop.each].id})

----------------------------------------------------------------------------
(* Statements. *)

\* defineNewObject, and CreateStatement's assignment to an object's attribute
\* or to nothing that can be assigned to.
Create ==
    /\ running
    /\ LET i == R!NextSlot(objects)
       IN  /\ i < MaxSlots /\ Unused # {}
           /\ objects' = R!Indexed(objects, NewAddress)
           /\ \E p \in {a \in Live : data[a].id \in Holders} \cup {Nil} :
                data' = [a \in Heap |->
                              IF a = NewAddress THEN Object(i, TypeId, FALSE)
                              ELSE IF a = p THEN [data[a] EXCEPT !.ref = i, !.stale = FALSE]
                              ELSE data[a]]
    /\ UNCHANGED <<loop, file, running>>

Victims == Held \ (IF MayDestroyReserved THEN {NoRef} ELSE {NoRef, NullObjectId, SystemObjectId})

\* The object leaves the universe; references to it stay as they are.
Gone(o) ==
    [a \in Heap |->
        IF a = o THEN NoObject
        ELSE IF a \in Live /\ data[a].ref = data[o].id /\ ~data[a].stale
             THEN [data[a] EXCEPT !.stale = TRUE]
             ELSE data[a]]

\* A bug: the last object is moved into the hole.
DestroyAndCompact(i) ==
    LET last == objects.size - 1
        o == objects.registry[i]
        m == objects.registry[last]
        gone == Gone(o)
    IN  /\ i \in DOMAIN objects.registry \ objects.free
        /\ objects' = IF i = last THEN R!Removed(objects, i)
                      ELSE [R!Removed(objects, last) EXCEPT
                               !.registry[i] = m,
                               !.index = [k \in DOMAIN objects.index \ {o} |->
                                             IF k = m THEN i ELSE objects.index[k]]]
        /\ data' = IF i = last THEN gone ELSE [gone EXCEPT ![m].id = i]
        /\ loop' = [loop EXCEPT !.due = @ \ {o}]
        /\ UNCHANGED <<file, running>>

\* destroyObject of an occupied slot.
Destroy(i) ==
    /\ i \in DOMAIN objects.registry \ objects.free
    /\ objects' = R!Removed(objects, i)
    /\ data' = Gone(objects.registry[i])
    /\ loop' = [loop EXCEPT !.due = @ \ {objects.registry[i]}]
    /\ UNCHANGED <<file, running>>

\* at() throws past the end; in a hole the id is set through a null pointer,
\* or remove()'s assertion fails.
DestroyNothing(i) ==
    /\ i \notin DOMAIN objects.registry \ objects.free
    /\ running' = FALSE
    /\ loop' = NoLoop
    /\ data' = HeapWith(Nil)
    /\ UNCHANGED <<objects, file>>

DestroySome ==
    /\ running
    /\ \E i \in Victims : Destroy(i) \/ DestroyNothing(i)

----------------------------------------------------------------------------
(* ForStatement. *)

Visitable(o) == o # Nil /\ data[o].id # INVALID /\ ~data[o].proto

\* History: the objects there when the loop began and not visited yet.
Due == {a \in Live : data[a].id >= UserObjectsBeginAt /\ Visitable(a)}

ForBegins ==
    /\ running /\ ~loop.on
    /\ loop' = [on |-> TRUE, count |-> objects.size, next |-> UserObjectsBeginAt,
                each |-> Nil, due |-> Due]
    /\ UNCHANGED <<objects, data, file, running>>

\* The next object the selection is evaluated on; 'each' is bound to it.
ForVisits ==
    /\ running /\ loop.on
    /\ \E i \in loop.next..loop.count-1 :
         /\ Visitable(GetObject(i))
         /\ \A j \in loop.next..i-1 : ~Visitable(GetObject(j))
         /\ loop' = [loop EXCEPT !.next = i + 1, !.each = GetObject(i),
                                 !.due = @ \ {GetObject(i)}]
    /\ data' = HeapWith(loop'.each)
    /\ UNCHANGED <<objects, file, running>>

\* No object is left to visit, or the action broke the loop.
ForEnds ==
    /\ running /\ loop.on
    /\ \/ loop.each # Nil
       \/ \A i \in loop.next..loop.count-1 : ~Visitable(GetObject(i))
    /\ loop' = NoLoop
    /\ data' = HeapWith(Nil)
    /\ UNCHANGED <<objects, file, running>>

----------------------------------------------------------------------------
(* Saving and loading. *)

\* A bug: the records are numbered as they are written.
ImageCompacted(x, d) ==
    LET w == R!Written(x)
        rank == [i \in DOMAIN w.records |-> Cardinality({j \in DOMAIN w.records : j < i})]
    IN  [total |-> w.count, count |-> w.count,
         records |-> [r \in 0..w.count-1 |->
                        d[w.records[CHOOSE i \in DOMAIN w.records : rank[i] = r]]]]

\* A universe as operator<< writes it.  Records name slots, not addresses.
ImageOf(x, d) ==
    LET w == R!Written(x)
    IN  [total |-> w.total, count |-> w.count,
         records |-> [i \in DOMAIN w.records |-> d[w.records[i]]]]

Save ==
    /\ running
    /\ file' = ImageOf(objects, data)
    /\ UNCHANGED <<objects, data, loop, running>>

\* A bug: objects_ keeps what it held.
KeptObjects == objects

\* operator>> clears objects_ before it reads.
ClearedObjects == R!Cleared

\* createReservedObjects_: records of slots 0 and 1 are read into these two.
Reserved(x) == R!Indexed(R!Indexed(x, NullAt), SystemAt)

\* Where the objects that a record brings are put: apart, and nowhere in use.
Places(slots, free) == Injection(slots \ {NullObjectId, SystemObjectId}, free)

Placement(slots, free) ==
    LET place == CHOOSE f \in Places(slots, free) : TRUE
    IN  [i \in slots |-> CASE i = NullObjectId -> NullAt
                           [] i = SystemObjectId -> SystemAt
                           [] i \notin {NullObjectId, SystemObjectId} -> place[i]]

\* operator>>.  A loop that is running goes on, with its 'each' kept alive.
Load ==
    /\ file.count = Cardinality(DOMAIN file.records) /\ R!Readable(file)
    /\ Places(DOMAIN file.records, Addresses \ {loop.each}) # {}
    /\ LET at == Placement(DOMAIN file.records, Addresses \ {loop.each})
       IN  /\ objects' = R!ReadInto(Reserved(ClearedObjects), [file EXCEPT !.records = at])
           /\ data' = [a \in Heap |->
                         IF \E i \in DOMAIN at : at[i] = a
                         THEN file.records[CHOOSE i \in DOMAIN at : at[i] = a]
                         ELSE IF a = loop.each THEN data[a]
                         ELSE IF a = NullAt THEN Object(NullObjectId, INVALID, TRUE)
                         ELSE IF a = SystemAt THEN Object(SystemObjectId, INVALID, FALSE)
                         ELSE NoObject]
    /\ loop' = [loop EXCEPT !.due = {}]
    /\ running' = TRUE
    /\ UNCHANGED file

\* What the compiler built, one type and one named object, and the file it left.
Compiled == R!Indexed(R!Indexed(Reserved(R!Cleared), CHOOSE a \in Addresses : TRUE),
                      CHOOSE b \in Addresses : b # CHOOSE a \in Addresses : TRUE)

Init ==
    /\ objects = Compiled
    /\ data = [a \in Heap |->
                  IF a \notin Live THEN NoObject
                  ELSE CASE objects.index[a] = NullObjectId -> Object(NullObjectId, INVALID, TRUE)
                         [] objects.index[a] = SystemObjectId -> Object(SystemObjectId, INVALID, FALSE)
                         [] objects.index[a] = TypeId -> Object(TypeId, NullObjectId, TRUE)
                         [] objects.index[a] = 3 -> Object(3, TypeId, FALSE)]
    /\ loop = NoLoop
    /\ file = ImageOf(objects, data)
    /\ running = TRUE

Next ==
    \/ Create \/ DestroySome
    \/ ForBegins \/ ForVisits \/ ForEnds
    \/ Save \/ Load

Spec == Init /\ [][Next]_vars

----------------------------------------------------------------------------
(* Properties. *)

\* The registry is an index of the live objects, each of which knows its slot:
\* getObject(o->id()) is o (Universe.cc:179-184).
RegistryOK ==
    /\ R!IsIndex(objects) /\ objects.size <= MaxSlots
    /\ data \in [Heap -> Objects]
    /\ \A a \in Live : data[a].id = objects.index[a]
    /\ loop.each \in Heap \cup {Nil} /\ loop.due \subseteq Live

\* Looking an attribute or a method up through parent() comes to an end
\* whatever was destroyed and whatever took its slot; the types can be gone
\* while their instances live (Object.cc:24-31).
LookupsEnd ==
    \A o \in Live :
        LET up[n \in 0..Cardinality(Heap)] ==
                IF n = 0 THEN o
                ELSE IF up[n-1] = Nil THEN Nil ELSE ParentOf(up[n-1])
        IN  up[Cardinality(Heap)] = Nil

\* 'for each' misses none of the objects that were there when it began and
\* still are, although its range is fixed and the registry changes under it
\* (Statement.cc:589-599).
NoSurvivorIsSkipped ==
    loop.on => \A a \in loop.due :
        /\ data[a].id \in loop.next..loop.count-1
        /\ GetObject(data[a].id) = a /\ Visitable(a)

\* A reference to an object that was not destroyed leads to that object,
\* before and after every save and load.
LiveReferencesResolve ==
    \A o \in Live :
        data[o].ref # NoRef /\ ~data[o].stale =>
            /\ GetObject(data[o].ref) # Nil
            /\ data[GetObject(data[o].ref)].id = data[o].ref

\* A load leaves the universe that was saved, holes included, so that a
\* resumed game creates its objects where a continuous one would
\* (IdIndex.hh:193-195).
LoadRestores == [][Load => ImageOf(objects', data') = file]_vars

\* Universe.hh:99-100: "the referenced object is gone, and all existing
\* references to it will be UNDEFINED".
DestroyedIsUndefined ==
    \A o \in Live : data[o].stale => GetObject(data[o].ref) = Nil

\* IdIndex.hh:159-161: a registry "cannot hold more records than it has slots",
\* and read() refuses a file that says otherwise.
RecordsFitSlots == file.count <= file.total
=============================================================================
