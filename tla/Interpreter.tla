----------------------------- MODULE Interpreter -----------------------------
(***************************************************************************)
(* How a game runs: expressions are evaluated and statements executed      *)
(* (Expression.cc, Statement.cc) over objects that inherit, send messages  *)
(* and are created and destroyed meanwhile (Object.cc, Universe.cc).       *)
(* Run maps a universe to a value and the universe it leaves, by way of    *)
(* every context pushed and every exception; the state machine             *)
(* executes one statement of the prompt, or of a game's method, per step.  *)
(***************************************************************************)
EXTENDS Values, FiniteSets

CONSTANTS
    Names,       \* ObjectIdentifiers: the ids of the named objects
    Worlds,      \* the sequences of objects a game may have been compiled to
    Commands,    \* the statements executed at the top
    Lines,       \* what the player answers before declining to
    MaxObjects,  \* bound: objects ever made
    MaxDepth,    \* bound: contexts on the stack
    MaxRounds,   \* bound: rounds of a 'while'
    MaxCommands  \* bound: statements executed at the top

ASSUME BoundsAssumption == {MaxObjects, MaxDepth, MaxRounds, MaxCommands} \subseteq Nat

VARIABLES
    machine,   \* the universe, and how the process stands
    answer     \* what the last statement yielded

vars == <<machine, answer>>

\* Objects are at addresses, the places in 'heap'; 0 is nullptr.
NullAt == 1
SystemAt == 2
INVALID == -1
UserObjectsBeginAt == 2

Base == [self |-> NullAt, sender |-> NullAt, message |-> Undefined, each |-> 0]

----------------------------------------------------------------------------
(* The universe. *)

\* Every step of a computation yields a value and a universe.  After an
\* exception or the end of the process nothing more is evaluated.
Yield(v, s) == [v |-> v, s |-> s]
Fail(s, how) == Yield(Undefined, [s EXCEPT !.ended = IF @ = "no" THEN how ELSE @])
Going(r) == r.s.ended = "no"

Here(s) == s.context[Len(s.context)]

\* A bug: an exception skips the code after the block.
PoppedUnlessThrown(r) == IF Going(r) THEN [r EXCEPT !.s.context = Front(@)] ELSE r

\* ContextScope: popped however the block is left.
Pushed(s, c) == [s EXCEPT !.context = Append(@, c)]
Popped(r)    == [r EXCEPT !.s.context = Front(@)]

GetObject(s, i) ==
    CASE i = 0 -> NullAt
      [] i = 1 -> SystemAt
      [] i \notin {0, 1} -> IF i \in DOMAIN s.slots THEN s.slots[i] ELSE 0

ParentAt(s, a) ==
    LET p == IF s.heap[a].parent < 0 THEN 0 ELSE GetObject(s, s.heap[a].parent)
    IN  IF p # 0 /\ s.heap[p].proto THEN p ELSE 0

\* The nearest object up from a, a included, with such an attribute or method.
RECURSIVE Owner(_, _, _, _)
Owner(s, a, part, key) ==
    IF a = 0 \/ key \in DOMAIN s.heap[a][part] THEN a
    ELSE Owner(s, ParentAt(s, a), part, key)

\* The lowest hole, or one slot more.
NextSlot(s) ==
    LET free == {i \in DOMAIN s.slots : s.slots[i] = 0} \cup {Cardinality(DOMAIN s.slots)}
    IN  CHOOSE i \in free : \A j \in free : i <= j

NewObject(s, type) ==
    LET i == NextSlot(s)
        o == [id |-> i, parent |-> type, proto |-> FALSE, attributes |-> <<>>, methods |-> <<>>]
    IN  [s EXCEPT !.heap = Append(@, o), !.slots = (i :> Len(s.heap) + 1) @@ @]

Trimmed(slots) ==
    LET last == {i \in DOMAIN slots : slots[i] # 0}
    IN  [i \in 0..(CHOOSE i \in last : \A j \in last : j <= i) |-> slots[i]]

\* A bug: the object goes on under the id its slot is reused for.
DestroyedUnmarked(s, i) ==
    IF i \notin DOMAIN s.slots THEN Fail(s, "exception")
    ELSE IF s.slots[i] = 0 THEN Fail(s, "crash")
    ELSE Yield(Undefined, [s EXCEPT !.slots = Trimmed([@ EXCEPT ![i] = 0])])

\* at() throws past the end, and a hole has no object to mark.
Destroyed(s, i) ==
    IF i \notin DOMAIN s.slots THEN Fail(s, "exception")
    ELSE IF s.slots[i] = 0 THEN Fail(s, "crash")
    ELSE Yield(Undefined, [s EXCEPT !.heap[s.slots[i]].id = INVALID,
                                    !.slots = Trimmed([@ EXCEPT ![i] = 0])])

\* setAttribute.  The expression that was there is freed, though it may be the
\* one that is being evaluated.
SetAttribute(s, a, attribute, v) ==
    [s EXCEPT !.heap[a].attributes = (attribute :> [node |-> "value", value |-> v]) @@ @,
              !.reading = [k \in DOMAIN @ |->
                  IF @[k].at = <<a, attribute>> THEN [@[k] EXCEPT !.freed = TRUE] ELSE @[k]]]

----------------------------------------------------------------------------
(* References to attributes, and the conversions that look behind them. *)

\* What an expression is evaluated to, or a statement to; it is defined below,
\* where there are both, and all that they do goes through it.
RECURSIVE Run(_, _)

\* dereference_: the stored expression, evaluated for the object that was
\* asked.  The rest of the context is the reader's.
Read(s, a, owner, attribute) ==
    LET frame == [at |-> <<owner, attribute>>, freed |-> FALSE]
        reading == [Pushed(s, [Here(s) EXCEPT !.self = a]) EXCEPT !.reading = Append(@, frame)]
    IN  IF owner = 0 THEN Yield(Undefined, s)
        ELSE IF Len(s.context) >= MaxDepth THEN Fail(s, "bound")
        ELSE [Popped(Run(reading, s.heap[owner].attributes[attribute])) EXCEPT !.s.reading = Front(@)]
Dereference(s, a, attribute) ==
    Read(s, a, IF a = 0 THEN 0 ELSE Owner(s, a, "attributes", attribute), attribute)

\* valueConversion: one reference is followed, and no further.
Peeled(r) ==
    IF Going(r) /\ Is(r.v, "attribute") 
    THEN Dereference(r.s, GetObject(r.s, r.v.attribute[1]), r.v.attribute[2]) ELSE r

\* The other conversions go on until there is a value.
RECURSIVE Resolve(_)
Resolve(r) == IF Going(r) /\ Is(r.v, "attribute") THEN Resolve(Peeled(r)) ELSE r

\* A list that mentions a nameless object that is gone cannot be displayed.
RECURSIVE Mentioned(_)
Mentioned(v) ==
    IF IsList(v) THEN Mentioned(v.head) \cup Mentioned(v.tail)
    ELSE IF Is(v, "object") THEN {v.object} ELSE {}

As(kind, x) ==
    CASE kind = "behind" -> x
      [] kind = "number" -> [x EXCEPT !.v = NumberOf(@)]
      [] kind = "object" -> [x EXCEPT !.v = ObjectOf(@)]
      [] kind = "truth"  -> [x EXCEPT !.v = Boolean(IsTrueEnough(@))]
      [] kind = "string" ->
         IF IsList(x.v) /\ \E i \in Mentioned(x.v) :
               GetObject(x.s, i) = 0 /\ \A n \in DOMAIN Names : Names[n] # i
         THEN Fail(x.s, "crash")
         ELSE [x EXCEPT !.v = StringOf(@)]

Converted(kind, r) ==
    CASE kind = "as is"  -> r
      [] kind = "value"  -> Peeled(r)
      [] kind = "attribute" -> IF Is(r.v, "attribute") THEN r ELSE [r EXCEPT !.v = Undefined]
      [] kind \notin {"as is", "value", "attribute"} -> As(kind, Resolve(r))

Evaluated(kind, s, e) == Converted(kind, Run(s, e))

\* AttributeValue::assign.  To what is not an attribute nothing is assigned.
Assigned(s, target, v) ==
    LET a == GetObject(s, target.attribute[1])
    IN  IF s.ended # "no" \/ ~Is(target, "attribute") \/ a = 0 THEN Yield(Undefined, s)
        ELSE Yield(target, SetAttribute(s, a, target.attribute[2], v))

----------------------------------------------------------------------------
(* Messages. *)

\* Methods found through a parent run for the object the message came to.
Method(s, a, m) ==
    LET owner == Owner(s, a, "methods", m)
    IN  IF owner = 0 THEN Yield(Absent, s) ELSE Run(s, s.heap[owner].methods[m])

\* dispatch: by the head; the default method when the answer is ABSENT.
Answered(r, a) ==
    IF Going(r) /\ r.v = Absent THEN Method(r.s, a, DefaultMethod) ELSE r
Dispatch(s, a) ==
    LET m == MessageOf(HeadOf(Here(s).message))
    IN  Answered(IF IsDefined(m) THEN Method(s, a, m.message) ELSE Yield(Absent, s), a)

\* What runs meanwhile are methods, not the expressions that are being read.
Activation(s, c, a) ==
    LET entered == [Pushed(s, c) EXCEPT !.reading = Append(@, [at |-> <<>>, freed |-> FALSE])]
    IN  IF Len(s.context) >= MaxDepth THEN Fail(s, "bound")
        ELSE [Popped(Dispatch(entered, a)) EXCEPT !.s.reading = Front(@)]

Send(s, a, m) == Activation(s, [Here(s) EXCEPT !.self = a, !.sender = Here(s).self, !.message = m], a)
Pass(s, a, m) == Activation(s, [Here(s) EXCEPT !.message = m], a)

\* A bug: types are sent messages like any object.
SendEvenToTypes(s, op, a, m) == IF op = "-->" THEN Pass(s, a, m) ELSE Send(s, a, m)

\* A type answers on behalf of whoever asks.
Deliver(s, op, a, m) ==
    IF op = "-->" \/ s.heap[a].proto THEN Pass(s, a, m) ELSE Send(s, a, m)

----------------------------------------------------------------------------
(* Expressions. *)

\* What the names of the language stand for in this context.
Reserved(s, word) ==
    LET it(a) == IF a = 0 THEN Fail(s, "crash") ELSE Yield(ObjectRef(s.heap[a].id), s)
    IN  CASE word = "self"    -> it(Here(s).self)
          [] word = "sender"  -> it(Here(s).sender)
          [] word = "each"    -> it(Here(s).each)
          [] word = "message" -> Yield(Here(s).message, s)
          [] word \in {"read", "key"} ->
             IF s.input = <<>> THEN Yield(Undefined, s)
             ELSE Yield(String(IF word = "read" THEN Head(s.input)
                               ELSE IF Head(s.input) = <<>> THEN <<Space>> ELSE <<Head(s.input)[1]>>),
                        [s EXCEPT !.input = Tail(@)])

\* An attribute of self, an object, or just a name.
Named(s, id) ==
    LET self == Here(s).self
    IN  IF self # 0 /\ Owner(s, self, "attributes", id) # 0 THEN AttributeRef(s.heap[self].id, id)
        ELSE IF id \in DOMAIN Names THEN ObjectRef(Names[id])
        ELSE Identifier(id)

UnaryOf(op, x) ==
    IF ~Going(x) THEN x
    ELSE IF op # "random" THEN [x EXCEPT !.v = Unary(op, @)]
    ELSE IF IsDefined(x.v) /\ x.v.number > 0
         THEN [x EXCEPT !.v = Numeric(1 + (x.s.drawn % x.v.number)), !.s.drawn = @ + 1]
         ELSE [x EXCEPT !.v = Undefined]
UnaryKind(op, v) ==
    CASE op \in {"chs", "numeric", "random"} -> "number"
      [] op = "not" -> "truth"
      [] op = "string" \/ (op = "length" /\ ~IsList(v)) -> "string"
      [] op \in {"head", "tail"} \/ (op = "length" /\ IsList(v)) -> "value"
UnaryFrom(op, r) == UnaryOf(op, Converted(UnaryKind(op, r.v), r))
UnaryNode(s, e) == UnaryFrom(e.op, Evaluated("value", s, e.right))

Cumulative == [x \in {"+:=", "-:=", "*:=", "/:=", "&:="} |->
                  CASE x = "+:=" -> "+" [] x = "-:=" -> "-" [] x = "*:=" -> "*"
                    [] x = "/:=" -> "/" [] x = "&:=" -> "&"]
Comparisons == {"=", "~=", "<", "<=", ">=", ">"}
Surgeries   == {"within", "leftfrom", "rightfrom"}
Sums        == {"+", "-", "*", "/", "^"}

\* How each operator converts its operands as it evaluates them.
LeftKind(op) ==
    CASE op \in {"@", "->", "-->"} \cup Comparisons \cup Surgeries -> "value"
      [] op = "&" -> "string"
      [] op \in Sums -> "number"
      [] op = ":=" -> "attribute"
      [] op \in {".", "<-"} -> "object"
      [] op \in {"and", "or"} \cup DOMAIN Cumulative -> "as is"
RightKind(op) ==
    CASE op \in {"@", "<-", ":=", "within"} \cup Comparisons -> "value"
      [] op = "&" -> "string"
      [] op \in Sums \cup {"leftfrom", "rightfrom"} -> "number"
      [] op \in {"->", "-->"} -> "object"
      [] op \in {"and", "or"} \cup DOMAIN Cumulative -> "as is"

\* Both operands are evaluated, the left one first; then both may be converted
\* once more, which reads them again.
Both(l, r) ==
    [l |-> l.v, r |-> r.v,
     s |-> IF Going(r) /\ r.s.reading # <<>> /\ r.s.reading[Len(r.s.reading)].freed
           THEN Fail(r.s, "freed").s ELSE r.s]
RightOf(l, e) == IF Going(l) THEN Evaluated(RightKind(e.op), l.s, e.right) ELSE l
AfterLeft(l, e) == Both(l, RightOf(l, e))
Operands(s, e) == AfterLeft(Evaluated(LeftKind(e.op), s, e.left), e)

LeftAgain(l, o, kind) == LET r == Converted(kind, Yield(o.r, l.s)) IN [l |-> l.v, r |-> r.v, s |-> r.s]
Again(o, kind, kind2) == LeftAgain(Converted(kind, Yield(o.l, o.s)), o, kind2)

\* A division by zero is a signal, a bad count an exception.
Outcome(v, s) ==
    IF s.ended # "no" THEN Yield(Undefined, s)
    ELSE IF v = Crash THEN Fail(s, "crash") ELSE IF v = Throw THEN Fail(s, "exception") ELSE Yield(v, s)

\* compare_lists, then eval_compare.  A reference counts as defined.
ByConversions(op, o, x) == Outcome(Boolean(ByConversion(op, x.l, x.r, SameValue(o.l, o.r))), x.s)
Comparison(op, o) ==
    IF IsList(o.l) \/ IsList(o.r) THEN Yield(Compared(op, o.l, o.r), o.s)
    ELSE IF ~Is(o.l, "attribute") /\ ~Is(o.r, "attribute")
         THEN Yield(Boolean(Compare(op, o.l, o.r)), o.s)
    ELSE IF op = "=" /\ SameValue(o.l, o.r) THEN Yield(Boolean(TRUE), o.s)
    ELSE IF ~IsDefined(o.l) \/ ~IsDefined(o.r) THEN Yield(Boolean(op = "~="), o.s)
    ELSE ByConversions(op, o, Again(o, "behind", "behind"))

Combined(op, v, w) == IF op = "&" THEN OnStrings(v, w) ELSE OnNumbers(op, v, w)

\* History: whose attribute a plain name was, and whose was assigned.
Noted(s, left, r) ==
    LET self == Here(s).self
    IN  IF left.node = "identifier" /\ Is(r.v, "attribute")
        THEN [r EXCEPT !.s.writes = Append(@,
                 [self |-> self, to |-> GetObject(r.s, r.v.attribute[1]),
                  died |-> s.heap[self].id # r.s.heap[self].id])]
        ELSE r

Cut(op, x) == Outcome(Surgery(op, x.l, x.r), x.s)
TextSurgery(op, o, x) ==
    IF IsList(o.l) \/ (op = "within" /\ IsList(o.r)) THEN Yield(Undefined, x.s) ELSE Cut(op, x)

\* The right side is looked at only where the left one does not settle it.
Junction(op, o, l) ==
    IF Going(l) /\ l.v.boolean = (op = "and") THEN Converted("truth", Yield(o.r, l.s)) ELSE l

Accumulated(target, sum) == IF Going(sum) THEN Assigned(sum.s, target, sum.v) ELSE sum
Accumulate(op, o, x) == Accumulated(o.l, Outcome(Combined(Cumulative[op], x.l, x.r), x.s))

SendOn(op, o, a) ==
    IF ~IsDefined(o.r) \/ a = 0 THEN Yield(Undefined, o.s) ELSE Deliver(o.s, op, a, o.l)

Applied(s, e, o) ==
    LET op == e.op
        kind == IF op = "&:=" THEN "string" ELSE "number"
    IN  IF o.s.ended # "no" THEN Yield(Undefined, o.s)
        ELSE CASE op = "@" -> Yield(Pair(o.l, o.r), o.s)
               [] op \in {"&"} \cup Sums -> Outcome(Combined(op, o.l, o.r), o.s)
               [] op \in Surgeries ->
                  TextSurgery(op, o, Again(o, "string", IF op = "within" THEN "string" ELSE "as is"))
               [] op \in {"and", "or"} -> Junction(op, o, Converted("truth", Yield(o.l, o.s)))
               [] op \in DOMAIN Cumulative -> Accumulate(op, o, Again(o, kind, kind))
               [] op \in Comparisons -> Comparison(op, o)
               [] op = ":=" -> Noted(s, e.left, Assigned(o.s, o.l, o.r))
               [] op \in {"->", "-->"} -> SendOn(op, o, GetObject(o.s, o.r.object))
BinaryNode(s, e) == Applied(s, e, Operands(s, e))

\* Without a recipient, the message is not even evaluated.
Sent(r, a) == IF Going(r) THEN [r EXCEPT !.v = ObjectRef(r.s.heap[a].id)] ELSE r
SendWhat(m, a) == IF Going(m) THEN Sent(Deliver(m.s, "<-", a, m.v), a) ELSE m
SendWhom(l, a, e) ==
    IF ~Going(l) \/ ~IsDefined(l.v) THEN l
    ELSE IF a = 0 THEN [l EXCEPT !.v = Undefined]
    ELSE SendWhat(Evaluated("value", l.s, e.right), a)
SendFrom(l, e) == SendWhom(l, GetObject(l.s, l.v.object), e)
SendTo(s, e) == SendFrom(Evaluated("object", s, e.left), e)

DotOf(l, e) ==
    IF Going(l) /\ IsDefined(l.v) THEN [l EXCEPT !.v = AttributeRef(@.object, e.right.identifier)] ELSE l
Dot(s, e) == DotOf(Evaluated("object", s, e.left), e)

Eval(s, e) ==
    IF s.ended # "no" THEN Yield(Undefined, s)
    ELSE IF s.reading # <<>> /\ s.reading[Len(s.reading)].freed THEN Fail(s, "freed")
    ELSE CASE e.node = "value"      -> Yield(e.value, s)
           [] e.node = "reserved"   -> Reserved(s, e.word)
           [] e.node = "identifier" -> Yield(Named(s, e.identifier), s)
           [] e.node = "unary"      -> UnaryNode(s, e)
           [] e.node = "binary"     -> IF e.op = "." THEN Dot(s, e)
                                       ELSE IF e.op = "<-" THEN SendTo(s, e) ELSE BinaryNode(s, e)

----------------------------------------------------------------------------
(* Statements. *)

\* A statement that is a message is handled as if it had been passed to self.
ExpressionStatement(s, t) ==
    IF t.expression.node = "value" /\ Is(t.expression.value, "message")
    THEN Pass(s, Here(s).self, t.expression.value)
    ELSE Evaluated("value", s, t.expression)

\* A 'break' goes through to the loop around.
RECURSIVE InTurn(_, _)
InTurn(r, rest) ==
    IF ~Going(r) \/ r.v = Break \/ rest = <<>> THEN r ELSE InTurn(Run(r.s, Head(rest)), Tail(rest))
Compound(s, t) == InTurn(Yield(Undefined, s), t.statements)

IfChosen(c, t) ==
    IF ~Going(c) THEN c
    ELSE IF c.v.boolean THEN Run(c.s, t.then)
    ELSE IF "else" \in DOMAIN t THEN Run(c.s, t.else) ELSE [c EXCEPT !.v = Undefined]
IfStatement(s, t) == IfChosen(Evaluated("truth", s, t.condition), t)

\* The first branch that compares equal; comparing does not ask for lists.
Matches(o) ==
    LET alike(x) == Yield(Boolean(Compare("=", x.l, x.r)), x.s)
    IN  IF IsList(o.l) \/ IsList(o.r) THEN alike(Again(o, "behind", "behind")) ELSE Comparison("=", o)
RECURSIVE Branch(_, _, _, _)
Branch(s, t, test, i) ==
    LET taken(c, equal) ==
            IF ~Going(c) THEN c
            ELSE IF ~Going(equal) THEN equal
            ELSE IF equal.v.boolean
                 THEN Run([equal.s EXCEPT !.matches = Append(@, <<test, c.v>>)], t.cases[i].action)
            ELSE Branch(equal.s, t, test, i + 1)
        against(c) == taken(c, Matches([l |-> test, r |-> c.v, s |-> c.s]))
    IN  IF i <= Len(t.cases) THEN against(Evaluated("value", s, t.cases[i].match))
        ELSE IF "default" \in DOMAIN t THEN Run(s, t.default) ELSE Yield(Undefined, s)
BranchOn(c, t) == IF Going(c) THEN Branch(c.s, t, c.v, 1) ELSE c
CaseStatement(s, t) == BranchOn(Evaluated("value", s, t.test), t)

\* The object is made before its name is looked at.
Created(target, o) ==
    IF Going(target)
    THEN [Assigned(target.s, target.v, ObjectRef(o)) EXCEPT !.v = ObjectRef(o)] ELSE target
CreateStatement(s, t) ==
    IF Len(s.heap) >= MaxObjects THEN Fail(s, "bound")
    ELSE Created(Evaluated("attribute", NewObject(s, t.type), t.target), NextSlot(s))

DestroyedObject(v) == IF Going(v) /\ IsDefined(v.v) THEN Destroyed(v.s, v.v.object) ELSE v
DestroyStatement(s, t) == DestroyedObject(Evaluated("object", s, t.victim))

\* 'write', 'writes', 'display', 'write_centered' and 'stop'.
Shown(kind, v, shown) ==
    (IF kind = "display" THEN <<Open>> \o Display(v) \o <<Close>> ELSE <<>>)
    \o (IF IsDefined(shown) THEN shown.string ELSE <<>>)
RECURSIVE Output(_, _, _)
Output(r, t, i) ==
    LET written(v, x) ==
            IF Going(x) THEN [x EXCEPT !.v = v, !.s.output = @ \o Shown(t.kind, v, x.v)] ELSE x
        element(e) == written(e.v, Converted("string", e))
    IN  IF ~Going(r) THEN r
        ELSE IF i <= Len(t.expressions) THEN Output(element(Run(r.s, t.expressions[i])), t, i + 1)
        ELSE IF t.kind = "stop" THEN Fail(r.s, "quit") ELSE r

\* '>>' lines run together into paragraphs; one that is empty or begins with a
\* space stands by itself.
Paragraph(s, t) ==
    LET text(i) == LiteralText[t.literals[i]]
        flows(i) == i \in DOMAIN t.literals /\ text(i) # <<>> /\ text(i)[1] # Space
        glue(i) == IF ~flows(i - 1) THEN <<>>
                   ELSE IF ~flows(i) THEN <<NewLine>>
                   ELSE IF Last(text(i - 1)) = Stop THEN <<Space, Space>>
                   ELSE IF Last(text(i - 1)) = Space THEN <<>> ELSE <<Space>>
        line(i) == glue(i) \o text(i) \o (IF flows(i) THEN <<>> ELSE <<NewLine>>)
        n == Len(t.literals)
        all == FlattenSeq([i \in 1..n |-> line(i)]) \o (IF flows(n) THEN <<NewLine>> ELSE <<>>)
    IN  Yield(String(IF n = 0 THEN <<>> ELSE text(n)), [s EXCEPT !.output = @ \o all])

\* The range is fixed when the loop begins; types are passed over.
Looped(r) == IF Going(r) /\ r.v = Break THEN [r EXCEPT !.v = Undefined] ELSE r

Selected(c, t, result) ==
    IF ~Going(c) THEN c
    ELSE IF c.v.boolean THEN Run(c.s, t.action) ELSE [c EXCEPT !.v = result]
EachAt(r, t, a) == Selected(Evaluated("truth", Pushed(r.s, [Here(r.s) EXCEPT !.each = a]), t.selection), t, r.v)
RECURSIVE ForFrom(_, _, _, _)
ForFrom(r, t, i, count) ==
    LET a == GetObject(r.s, i)
    IN  IF ~Going(r) \/ r.v = Break \/ i >= count THEN r
        ELSE IF a = 0 \/ r.s.heap[a].id = INVALID \/ r.s.heap[a].proto THEN ForFrom(r, t, i + 1, count)
        ELSE IF Len(r.s.context) >= MaxDepth THEN Fail(r.s, "bound")
        ELSE ForFrom(Popped(EachAt(r, t, a)), t, i + 1, count)
ForStatement(s, t) == Looped(ForFrom(Yield(Undefined, s), t, UserObjectsBeginAt, Cardinality(DOMAIN s.slots)))

RECURSIVE While(_, _, _)
While(r, t, rounds) ==
    LET again(x) == IF ~Going(x) \/ x.v = Break THEN x ELSE While(x, t, rounds + 1)
        round(c) == IF ~Going(c) THEN c
                    ELSE IF ~c.v.boolean THEN [c EXCEPT !.v = r.v]
                    ELSE IF rounds = MaxRounds THEN Fail(c.s, "bound") ELSE again(Run(c.s, t.action))
    IN  round(Evaluated("truth", r.s, t.condition))
WhileStatement(s, t) == Looped(While(Yield(Undefined, s), t, 0))

Exec(s, t) ==
    IF s.ended # "no" THEN Yield(Undefined, s)
    ELSE CASE t.statement = "expression" -> ExpressionStatement(s, t)
           [] t.statement = "compound"   -> Compound(s, t)
           [] t.statement = "if"         -> IfStatement(s, t)
           [] t.statement = "case"       -> CaseStatement(s, t)
           [] t.statement = "create"     -> CreateStatement(s, t)
           [] t.statement = "destroy"    -> DestroyStatement(s, t)
           [] t.statement = "output"     -> Output(Yield(Undefined, s), t, 1)
           [] t.statement = "paragraph"  -> Paragraph(s, t)
           [] t.statement = "for"        -> ForStatement(s, t)
           [] t.statement = "while"      -> WhileStatement(s, t)

\* Expressions and statements are told apart by their tags.
Run(s, x) == IF "node" \in DOMAIN x THEN Eval(s, x) ELSE Exec(s, x)

----------------------------------------------------------------------------
(* Running. *)

Init ==
    /\ \E w \in Worlds :
         machine = [heap |-> w, slots |-> [i \in 0..Len(w)-1 |-> i + 1], context |-> <<Base>>,
                    input |-> Lines, output |-> <<>>, drawn |-> 0, done |-> 0, ended |-> "no",
                    reading |-> <<>>, writes |-> <<>>, matches |-> <<>>]
    /\ answer = Undefined

\* One line of the prompt, which survives what the statement throws; QuitGame
\* is an exception like any other to it.
Ended(r) ==
    /\ r.s.ended # "bound"
    /\ machine' = IF r.s.ended \in {"exception", "quit"} THEN [r.s EXCEPT !.ended = "no"] ELSE r.s
    /\ answer' = r.v
Execute(t) ==
    /\ machine.ended = "no" /\ machine.done < MaxCommands
    /\ Ended(Run([machine EXCEPT !.output = <<>>, !.writes = <<>>, !.matches = <<>>, !.done = @ + 1], t))

Next == \E t \in Commands : Execute(t)

Spec == Init /\ [][Next]_vars

----------------------------------------------------------------------------
(* Properties. *)

\* Whatever a statement pushed while it ran, and however it ended (a value, an
\* exception out of the depth of it, the end of the game), the prompt goes on
\* with the context the universe began with: null as self, and no each
\* (Universe.cc:389-395, Object.cc:62-74, ReadEvalPrintLoop.cc:83-86).
ContextRestored == machine.context = <<Base>> /\ machine.reading = <<>>

\* An instance that assigns to an attribute it inherits gets one of its own:
\* no method, run for an instance or for its type on somebody's behalf, changes
\* what the other instances inherit (Object.cc:42-60, Value.cc:462-470).  Here
\* no command assigns to T.x, which is the way to change the type on purpose.
TypesKeepTheirAttributes ==
    [][\A a \in DOMAIN machine.heap \ {NullAt} :
          machine.heap[a].proto => machine'.heap[a].attributes = machine.heap[a].attributes]_vars

\* Assigning to a plain name writes to self and nobody else.  A method that
\* goes on after its object was destroyed writes nowhere, also when a newcomer
\* has the slot (Universe.cc:186-191).  The one exception is an assignment whose
\* own right side destroys self: its left side names the slot by then.
WritesGoToSelf ==
    \A i \in DOMAIN machine.writes :
        machine.writes[i].died \/ machine.writes[i].to = machine.writes[i].self

\* Two comparisons never contradict each other, whatever is compared: equality
\* is symmetric and '~=' its negation; '<' and '>=' are opposites, and '<=' is
\* '<' or '=', where there is an order (Expression.cc:419-496).
Stored(o) == {o.attributes[k].value : k \in {i \in DOMAIN o.attributes : o.attributes[i].node = "value"}}
InUse == {answer} \cup UNION {Stored(machine.heap[a]) : a \in DOMAIN machine.heap}
ComparisonsAgree ==
    LET says(op, v, w) == Compared(op, v, w) = Boolean(TRUE)
        ordered(v, w) == \E op \in {"<", ">"} : says(op, v, w)
    IN  \A v, w \in InUse :
            /\ says("=", v, w) = says("=", w, v)
            /\ says("~=", v, w) = ~says("=", v, w)
            /\ says("<", v, w) = says(">", w, v)
            /\ ordered(v, w) => says("<", v, w) = ~says(">=", v, w)
            /\ ~(says("<", v, w) /\ says("=", v, w))

\* Expression.cc:414-418: "Two lists are equal when their elements are, a list
\* and anything else are simply not the same value".
ListsMatchOnlyLists ==
    \A i \in DOMAIN machine.matches :
        LET m == machine.matches[i]
        IN  IsList(m[1]) \/ IsList(m[2]) => SameValue(m[1], m[2])
=============================================================================
