------------------------------- MODULE Formats -------------------------------
(***************************************************************************)
(* The binary format (Serialization.cc, and the write and read of Value,   *)
(* Expression, Statement, Object and Universe): what is written is a       *)
(* sequence of bytes, what is read a value and the bytes that are left, or *)
(* an exception.                                                           *)
(***************************************************************************)
EXTENDS Integers, Sequences, SequencesExt, FiniteSetsExt

----------------------------------------------------------------------------
(* Integers: six bits and a sign, then seven bits at a time. *)

RECURSIVE Continued(_)
Continued(n) == IF n < 128 THEN <<n>> ELSE <<128 + (n % 128)>> \o Continued(n \div 128)

\* A bug: 64 has six bits.
IntBytesOff(n) ==
    LET m == IF n < 0 THEN -n ELSE n
        first == 2 * (m % 64) + (IF n < 0 THEN 1 ELSE 0)
    IN  IF m <= 64 THEN <<first>> ELSE <<128 + first>> \o Continued(m \div 64)

IntBytes(n) ==
    LET m == IF n < 0 THEN -n ELSE n
        first == 2 * (m % 64) + (IF n < 0 THEN 1 ELSE 0)
    IN  IF m < 64 THEN <<first>> ELSE <<128 + first>> \o Continued(m \div 64)

Got(v, rest) == [ok |-> TRUE, v |-> v, rest |-> rest]
Thrown == [ok |-> FALSE, v |-> 0, rest |-> <<>>]

\* The place of the first byte that says there are no more, or one past all.
LastByte(bytes) ==
    IF \E i \in DOMAIN bytes : bytes[i] < 128
    THEN CHOOSE i \in DOMAIN bytes : bytes[i] < 128 /\ \A j \in 1..i-1 : bytes[j] >= 128
    ELSE Len(bytes) + 1

ReadInteger(bytes) ==
    LET n == LastByte(bytes)
        m == FoldRight(LAMBDA b, r : (128 * r) + (b % 128), SubSeq(bytes, 2, n), 0)
        size == (64 * m) + ((bytes[1] % 128) \div 2)
    IN  IF n > Len(bytes) THEN Thrown
        ELSE Got(IF bytes[1] % 2 = 1 THEN -size ELSE size, SubSeq(bytes, n + 1, Len(bytes)))

\* No more things are announced than the bytes that are left can hold.
ReadCount(bytes) ==
    LET n == ReadInteger(bytes)
    IN  IF n.ok /\ n.v \in 0..Len(n.rest) THEN n ELSE Thrown

Text(s) == IntBytes(Len(s)) \o s
ReadText(bytes) ==
    LET n == ReadCount(bytes)
    IN  IF n.ok THEN Got(SubSeq(n.rest, 1, n.v), SubSeq(n.rest, n.v + 1, Len(n.rest))) ELSE n

----------------------------------------------------------------------------
(* What is written. *)

Place(list, x) == IntBytes(SelectInSeq(list, LAMBDA y : y = x) - 1)

\* In the order of their enumerators; a place is what the file holds.
ReservedWords == <<"ABSENT", "FALSE", "TRUE", "UNDEFINED", "based", "break", "case", "class", "create",
    "default", "destroy", "display", "do", "each", "else", "end", "for", "if", "include", "key",
    "keyword", "message", "methods", "named", "of", "on", "read", "self", "sender", "stop", "then",
    "type", "while", "write", "writes", "write_centered">>
OperatorNames == <<"@", "&", "&:=", "*", "*:=", "+", "+:=", "-", "-->", "-:=", "->", ".", "/", "/:=", ":=",
    "<", "<=", "=", "~=", ">", ">=", "random", "^", "and", "chs", "leftfrom", "length", "not",
    "numeric", "or", "rightfrom", "string", "within", "head", "tail", "<-">>
ValueTypes == <<"undefined", "absent", "break", "boolean", "message", "literal", "number", "string",
                "identifier", "object", "attribute", "head">>
NodeTypes == <<"reserved", "unary", "binary", "identifier", "value">>
StatementTypes == <<"compound", "expression", "if", "case", "create", "destroy", "for", "while",
                    "output", "paragraph">>

ManyOf(Bytes(_), seq) == IntBytes(Len(seq)) \o FlattenSeq([i \in DOMAIN seq |-> Bytes(seq[i])])

RECURSIVE ValueBytes(_), ExpressionBytes(_), StatementBytes(_)
ValueBytes(v) ==
    LET kind == CHOOSE k \in DOMAIN v : k # "tail"
    IN  Place(ValueTypes, kind) \o
        CASE kind \in {"undefined", "absent", "break"} -> <<>>
          [] kind = "boolean"   -> IntBytes(IF v.boolean THEN 1 ELSE 0)
          [] kind \in {"message", "literal", "number", "identifier", "object"} -> IntBytes(v[kind])
          [] kind = "string"    -> Text(v.string)
          [] kind = "attribute" -> IntBytes(v.attribute[1]) \o IntBytes(v.attribute[2])
          [] kind = "head"      -> ValueBytes(v.head) \o ValueBytes(v.tail)

ExpressionBytes(e) ==
    Place(NodeTypes, e.node) \o
    CASE e.node = "reserved"   -> Place(ReservedWords, e.word)
      [] e.node = "unary"      -> Place(OperatorNames, e.op) \o ExpressionBytes(e.right)
      [] e.node = "binary"     -> Place(OperatorNames, e.op) \o ExpressionBytes(e.left) \o ExpressionBytes(e.right)
      [] e.node = "identifier" -> IntBytes(e.identifier)
      [] e.node = "value"      -> ValueBytes(e.value)

StatementBytes(t) ==
    LET branch(c) == ExpressionBytes(c.match) \o StatementBytes(c.action)
    IN  Place(StatementTypes, t.statement) \o
        CASE t.statement = "compound"   -> ManyOf(StatementBytes, t.statements)
          [] t.statement = "expression" -> ExpressionBytes(t.expression)
          [] t.statement = "if"         -> ExpressionBytes(t.condition) \o StatementBytes(t.then)
                \o (IF "else" \in DOMAIN t THEN IntBytes(1) \o StatementBytes(t.else) ELSE IntBytes(0))
          [] t.statement = "case"       -> ExpressionBytes(t.test) \o ManyOf(branch, t.cases)
                \o (IF "default" \in DOMAIN t THEN IntBytes(1) \o StatementBytes(t.default) ELSE IntBytes(0))
          [] t.statement = "create"     -> IntBytes(t.type) \o ExpressionBytes(t.target)
          [] t.statement = "destroy"    -> ExpressionBytes(t.victim)
          [] t.statement = "for"        -> ExpressionBytes(t.selection) \o StatementBytes(t.action)
          [] t.statement = "while"      -> ExpressionBytes(t.condition) \o StatementBytes(t.action)
          [] t.statement = "output"     -> Place(ReservedWords, t.kind) \o ManyOf(ExpressionBytes, t.expressions)
          [] t.statement = "paragraph"  -> ManyOf(IntBytes, t.literals)

\* A std::map is written in the order of its keys.
Keys(f) == SetToSortSeq(DOMAIN f, LAMBDA i, j : i < j)

ObjectBytes(o) ==
    LET attribute(k) == IntBytes(k) \o ExpressionBytes(o.attributes[k])
        method(k)    == IntBytes(k) \o StatementBytes(o.methods[k])
    IN  IntBytes(o.parent) \o IntBytes(o.id) \o IntBytes(IF o.proto THEN 1 ELSE 0)
        \o ManyOf(attribute, Keys(o.attributes)) \o ManyOf(method, Keys(o.methods))

\* A sequence of unknown length: a 1 before every element, and a 0.
ChainOf(Bytes(_), seq) == FlattenSeq([i \in DOMAIN seq |-> <<2>> \o Bytes(seq[i])]) \o <<0>>

\* The system object is none of the game's: only what it remembers is written.
SystemBytes(y) ==
    LET parseable(p) == Text(p[1]) \o IntBytes(p[2])
        match(p) == ChainOf(ValueBytes, p[1]) \o IntBytes(p[2])
    IN  IntBytes(y.state) \o ManyOf(Text, y.sorted) \o IntBytes(y.mode) \o ChainOf(IntBytes, y.proximate)
        \o ChainOf(parseable, y.verbs) \o ChainOf(parseable, y.nouns)
        \o ChainOf(match, y.verbMatches) \o ChainOf(match, y.nounMatches)
        \o Text(y.command) \o Text(y.normalized) \o ChainOf(ValueBytes, y.parsed)

\* Every record is preceded by its slot; these registries have no holes.
RegistryBytes(Bytes(_), seq) ==
    IntBytes(Len(seq)) \o IntBytes(Len(seq)) \o FlattenSeq([i \in DOMAIN seq |-> IntBytes(i - 1) \o Bytes(seq[i])])

SystemObjectId == 1
Cookie == <<127, 65, 67, 88>>
CurrentFormatVersion == 1

UniverseBytes(u) ==
    LET name(k) == IntBytes(k) \o IntBytes(u.names[k])
        object(o) == IntBytes(1) \o (IF "state" \in DOMAIN o THEN SystemBytes(o) ELSE ObjectBytes(o))
    IN  Cookie \o IntBytes(CurrentFormatVersion) \o IntBytes(0) \o RegistryBytes(Text, u.messages)
        \o RegistryBytes(Text, u.literals) \o RegistryBytes(Text, u.identifiers)
        \o ManyOf(name, Keys(u.names)) \o RegistryBytes(object, u.objects)

----------------------------------------------------------------------------
(* What is read. *)

\* Whatever is part of something else is read by its kind.
RECURSIVE Read(_, _)

\* The parts of a thing, one after the other.
Appended(r, x) == IF r.ok /\ x.ok THEN Got(Append(r.v, x.v), x.rest) ELSE Thrown
Parts(bytes, kinds) == FoldLeft(LAMBDA r, kind : Appended(r, Read(kind, r.rest)), Got(<<>>, bytes), kinds)

Then(r, v) == IF r.ok THEN Got(v, r.rest) ELSE r

\* What several parts make; one part stands for itself.
Grouped(parts) == IF Len(parts) = 1 THEN parts[1] ELSE parts

\* So many of them, the number read as an int or as a count.
Repeated(n, kinds) ==
    LET k == Len(kinds)
        grouped(all) == Then(all, [i \in 1..n.v |-> Grouped(SubSeq(all.v, k * (i - 1) + 1, k * i))])
    IN  IF n.ok THEN grouped(Parts(n.rest, [i \in 1..(n.v * k) |-> kinds[1 + ((i - 1) % k)]])) ELSE n

\* A chain: as long as there is another element.
RECURSIVE Chained(_, _)
Chained(bytes, kinds) ==
    LET linked(v, others) == IF others.ok THEN Got(<<Grouped(v)>> \o others.v, others.rest) ELSE others
        element(one) == IF one.ok THEN linked(one.v, Chained(one.rest, kinds)) ELSE one
        link(more) == IF ~more.ok \/ more.v = 0 THEN [more EXCEPT !.v = <<>>] ELSE element(Parts(more.rest, kinds))
    IN  link(ReadInteger(bytes))

\* A map from pairs of a key and what it leads to.
AsMap(pairs) ==
    [k \in {pairs[i][1] : i \in DOMAIN pairs} |->
        pairs[CHOOSE i \in DOMAIN pairs : pairs[i][1] = k][2]]
MapOf(r) == Then(r, AsMap(r.v))

ReadValue(bytes) ==
    LET made(kind, p) ==
            Then(p, CASE kind \in {"undefined", "absent", "break"} -> kind :> TRUE
                      [] kind = "boolean"   -> kind :> (p.v[1] # 0)
                      [] kind = "attribute" -> kind :> p.v
                      [] kind = "head"      -> [head |-> p.v[1], tail |-> p.v[2]]
                      [] OTHER              -> kind :> p.v[1])
        parts(kind) == CASE kind \in {"undefined", "absent", "break"} -> <<>>
                         [] kind = "string"    -> <<"text">>
                         [] kind = "attribute" -> <<"int", "int">>
                         [] kind = "head"      -> <<"value", "value">>
                         [] OTHER              -> <<"int">>
        of(kind, rest) == made(kind, Parts(rest, parts(kind)))
        typed(type) == IF type.ok THEN of(ValueTypes[type.v + 1], type.rest) ELSE type
    IN  typed(ReadInteger(bytes))

ReadExpression(bytes) ==
    LET made(node, p) ==
            Then(p, CASE node = "reserved"   -> [node |-> node, word |-> ReservedWords[p.v[1] + 1]]
                      [] node = "identifier" -> [node |-> node, identifier |-> p.v[1]]
                      [] node = "unary"      -> [node |-> node, op |-> OperatorNames[p.v[1] + 1], right |-> p.v[2]]
                      [] node = "binary"     -> [node |-> node, op |-> OperatorNames[p.v[1] + 1],
                                                 left |-> p.v[2], right |-> p.v[3]]
                      [] node = "value"      -> [node |-> node, value |-> p.v[1]])
        parts(node) == CASE node \in {"reserved", "identifier"} -> <<"int">>
                         [] node = "unary"  -> <<"int", "expression">>
                         [] node = "binary" -> <<"int", "expression", "expression">>
                         [] node = "value"  -> <<"value">>
        of(node, rest) == made(node, Parts(rest, parts(node)))
        typed(type) == IF type.ok THEN of(NodeTypes[type.v + 1], type.rest) ELSE type
    IN  typed(ReadInteger(bytes))

\* An 'else' or a default, when the int that says so is not 0.
Optional(r, field) ==
    LET added(t) == Then(t, (field :> t.v) @@ r.v)
        flagged(flag) == IF ~flag.ok THEN flag
                         ELSE IF flag.v = 0 THEN Got(r.v, flag.rest) ELSE added(Read("statement", flag.rest))
    IN  IF r.ok THEN flagged(ReadInteger(r.rest)) ELSE r

StatementParts(kind) ==
    CASE kind = "compound"  -> <<"statements">>
      [] kind = "paragraph" -> <<"literals">>
      [] kind = "case"      -> <<"expression", "cases">>
      [] kind = "output"    -> <<"int", "expressions">>
      [] kind = "create"    -> <<"int", "expression">>
      [] kind \in {"expression", "destroy"} -> <<"expression">>
      [] kind \in {"if", "for", "while"}    -> <<"expression", "statement">>
StatementOf(kind, v) ==
    ("statement" :> kind) @@
    CASE kind = "compound"   -> [statements |-> v[1]]
      [] kind = "paragraph"  -> [literals |-> v[1]]
      [] kind = "case"       -> [test |-> v[1],
                                 cases |-> [i \in DOMAIN v[2] |-> [match |-> v[2][i][1], action |-> v[2][i][2]]]]
      [] kind = "output"     -> [kind |-> ReservedWords[v[1] + 1], expressions |-> v[2]]
      [] kind = "create"     -> [type |-> v[1], target |-> v[2]]
      [] kind = "expression" -> [expression |-> v[1]]
      [] kind = "destroy"    -> [victim |-> v[1]]
      [] kind = "if"         -> [condition |-> v[1], then |-> v[2]]
      [] kind = "for"        -> [selection |-> v[1], action |-> v[2]]
      [] kind = "while"      -> [condition |-> v[1], action |-> v[2]]
ReadStatement(bytes) ==
    LET made(kind, p) == Then(p, StatementOf(kind, p.v))
        complete(kind, r) == IF kind \in {"if", "case"} THEN Optional(r, IF kind = "if" THEN "else" ELSE "default") ELSE r
        of(kind, rest) == complete(kind, made(kind, Parts(rest, StatementParts(kind))))
        typed(type) == IF type.ok THEN of(StatementTypes[type.v + 1], type.rest) ELSE type
    IN  typed(ReadInteger(bytes))

ReadObject(bytes) ==
    LET made(p) == Then(p, [parent |-> p.v[1], id |-> p.v[2], proto |-> p.v[3] # 0,
                            attributes |-> p.v[4], methods |-> p.v[5]])
    IN  made(Parts(bytes, <<"int", "int", "int", "attributes", "methods">>))

\* The slot of the system object has a system object to read into already.
ReadSystem(bytes) ==
    LET made(p) == Then(p, [state |-> p.v[1], sorted |-> p.v[2], mode |-> p.v[3], proximate |-> p.v[4],
                            verbs |-> p.v[5], nouns |-> p.v[6], verbMatches |-> p.v[7], nounMatches |-> p.v[8],
                            command |-> p.v[9], normalized |-> p.v[10], parsed |-> p.v[11]])
    IN  made(Parts(bytes, <<"int", "texts", "int", "ints", "parseables", "parseables", "matches", "matches",
                            "text", "text", "values">>))

\* A record of the objects: the slot, whether there is one, and the object.
ReadSlot(bytes) ==
    LET placed(i, o) == Then(o, <<i, o.v>>)
        slot(p) == IF p.ok THEN placed(p.v[1], IF p.v[1] = SystemObjectId THEN ReadSystem(p.rest)
                                                                          ELSE ReadObject(p.rest)) ELSE p
    IN  slot(Parts(bytes, <<"int", "int">>))

\* IdIndex::read, of what RegistryBytes writes; the records name their slots.
ReadRegistry(bytes, kind) ==
    LET at(records, i) == records[SelectLastInSeq(records, LAMBDA r : r[1] = i - 1)][2]
        placed(total, records) ==
            IF records.ok /\ \A i \in DOMAIN records.v : records.v[i][1] \in 0..total - 1
            THEN Got([i \in 1..total |-> at(records.v, i)], records.rest) ELSE Thrown
        counted(total, count) ==
            IF count.ok /\ count.v <= total THEN placed(total, Repeated(count, <<kind>>)) ELSE Thrown
        sized(total) == IF total.ok THEN counted(total.v, ReadCount(total.rest)) ELSE total
    IN  sized(ReadCount(bytes))

Read(kind, bytes) ==
    CASE kind = "int"        -> ReadInteger(bytes)
      [] kind = "text"       -> ReadText(bytes)
      [] kind = "value"      -> ReadValue(bytes)
      [] kind = "expression" -> ReadExpression(bytes)
      [] kind = "statement"  -> ReadStatement(bytes)
      [] kind = "ints"       -> Chained(bytes, <<"int">>)
      [] kind = "values"     -> Chained(bytes, <<"value">>)
      [] kind = "parseables" -> Chained(bytes, <<"text", "int">>)
      [] kind = "matches"    -> Chained(bytes, <<"values", "int">>)
      [] kind = "text slot"  -> Parts(bytes, <<"int", "text">>)
      [] kind = "object slot" -> ReadSlot(bytes)
      [] kind = "text slots"   -> ReadRegistry(bytes, "text slot")
      [] kind = "object slots" -> ReadRegistry(bytes, "object slot")
      [] kind = "names"      -> MapOf(Repeated(ReadCount(bytes), <<"int", "int">>))
      [] kind = "attributes" -> MapOf(Repeated(ReadInteger(bytes), <<"int", "expression">>))
      [] kind = "methods"    -> MapOf(Repeated(ReadInteger(bytes), <<"int", "statement">>))
      [] kind = "cases"      -> Repeated(ReadInteger(bytes), <<"expression", "statement">>)
      [] kind \in {"texts", "literals", "expressions", "statements"} ->
         Repeated(ReadInteger(bytes), << CASE kind = "texts" -> "text" [] kind = "literals" -> "int"
                                           [] kind = "expressions" -> "expression" [] kind = "statements" -> "statement" >>)

ReadFormatHeader(bytes) ==
    LET version == ReadInteger(SubSeq(bytes, 5, Len(bytes)))
    IN  IF Len(bytes) < 4 \/ SubSeq(bytes, 1, 4) # Cookie THEN Got(0, bytes)
        ELSE IF version.ok /\ version.v \in 1..CurrentFormatVersion THEN version ELSE Thrown

\* Without a header the file has to begin the way the old ones did.
ReadUniverse(bytes) ==
    LET made(p) == Then(p, [messages |-> p.v[2], literals |-> p.v[3], identifiers |-> p.v[4],
                            names |-> p.v[5], objects |-> p.v[6]])
        headed(header) ==
            IF ~header.ok \/ (header.v = 0 /\ (bytes = <<>> \/ bytes[1] \notin {0, 2})) THEN Thrown
            ELSE made(Parts(header.rest, <<"int", "text slots", "text slots", "text slots", "names", "object slots">>))
    IN  headed(ReadFormatHeader(bytes))
=============================================================================
