------------------------------ MODULE Printer -------------------------------
(***************************************************************************)
(* How a program is written: the other direction of Compiler, from what it *)
(* says to lexemes, with no more parentheses than the precedence of the    *)
(* operators needs and with the lines broken in one of several styles.     *)
(* The reference that Compiler is checked against.                         *)
(***************************************************************************)
EXTENDS Compiler

\* A program is a sequence of declarations, each of one object: its name, its
\* parent, whether it is a type, its attributes and methods, in order.  The
\* first is object 2.  Identifiers, messages and literals are numbered in the
\* order they appear in, and spelled as their number.
Spelled(id) == IF id = 0 THEN NullName ELSE IF id = 1 THEN SystemName ELSE <<id>>
NameOf(program, object) == IF object = 0 THEN 0 ELSE program[object - 1].name

NameLexeme(id) == [identifier |-> Spelled(id)]
Newline == NEWLINE
Remark == [comment |-> TRUE]

\* What ends a statement or an attribute, and what may follow an operator.
EndOf(style) ==
    CASE style = "semicolons" -> <<[semicolon |-> TRUE]>>
      [] style = "remarks"    -> <<Newline, Remark, Newline, Newline>>
      [] style = "remarks at the end of lines" -> <<Remark, Newline>>
      [] OTHER                -> <<Newline>>
BreakOf(style) == IF style = "broken" THEN <<Newline>> ELSE <<>>

----------------------------------------------------------------------------
(* Expressions. *)

\* The operators that stand open at the left and at the right end of what is
\* written, and what has to be in parentheses because of them.
RECURSIVE LeftSpine(_), RightSpine(_)
LeftNeeds(l, op)  == \E p \in RightSpine(l) : ~Binds(p, op)
RightNeeds(r, op) == \E p \in LeftSpine(r) : Binds(op, p)
UnaryNeeds(r, op) == \E p \in LeftSpine(r) : Precedence(p) < Precedence(op)

\* The elements of a list that ends as lists do.
RECURSIVE Elements(_)
IsPair(e) == e.node = "binary" /\ e.op = "@"
RECURSIVE EndsAsList(_)
EndsAsList(e) == IsPair(e) /\ (e.right = Val([undefined |-> TRUE]) \/ EndsAsList(e.right))
Elements(e) == IF EndsAsList(e) THEN <<e.left>> \o Elements(e.right) ELSE <<>>

LeftSpine(e) ==
    IF e.node # "binary" \/ EndsAsList(e) THEN {}
    ELSE {e.op} \cup (IF LeftNeeds(e.left, e.op) THEN {} ELSE LeftSpine(e.left))
RightSpine(e) ==
    IF e.node \notin {"unary", "binary"} \/ EndsAsList(e) THEN {}
    ELSE LET closed == IF e.node = "unary" THEN UnaryNeeds(e.right, e.op) ELSE RightNeeds(e.right, e.op)
         IN  {e.op} \cup (IF closed THEN {} ELSE RightSpine(e.right))

Sign == ("numeric" :> "+") @@ ("chs" :> "-") @@ ("string" :> "&")
InParentheses(lexemes, needed) ==
    IF needed THEN <<Punctuation("(")>> \o lexemes \o <<Punctuation(")")>> ELSE lexemes

LeafLexeme(e) ==
    CASE e.node = "identifier" -> NameLexeme(e.identifier)
      [] e.node = "reserved"   -> ReservedWord(e.word)
      [] e.node = "value" /\ Has(e.value, "message") -> [message |-> <<e.value.message>>]
      [] e.node = "value" /\ Has(e.value, "literal") -> [text |-> <<e.value.literal>>]
      [] e.node = "value" /\ Has(e.value, "number")  -> e.value
      [] e.node = "value" /\ Has(e.value, "boolean") -> ReservedWord(IF e.value.boolean THEN "TRUE" ELSE "FALSE")
      [] e.node = "value" /\ Has(e.value, "undefined") -> ReservedWord("UNDEFINED")
      [] e.node = "value" /\ Has(e.value, "absent")  -> ReservedWord("ABSENT")
      [] e.node = "value" /\ Has(e.value, "break")   -> ReservedWord("break")

\* In a list, an element that begins with a sign would go on the one before.
RECURSIVE PrintExpression(_, _)
PrintExpression(e, style) ==
    LET of(x) == PrintExpression(x, style)
        element(x) == InParentheses(of(x), Has(of(x)[1], "op") /\ of(x)[1].op \in {"+", "-", "&"})
        signed == style = "plain" /\ e.op \in DOMAIN Sign
    IN  IF EndsAsList(e)
        THEN <<Punctuation("[")>> \o FlattenSeq([i \in 1..Len(Elements(e)) |-> element(Elements(e)[i])])
             \o <<Punctuation("]")>>
        ELSE IF e.node = "binary"
        THEN InParentheses(of(e.left), LeftNeeds(e.left, e.op)) \o <<[op |-> e.op]>> \o BreakOf(style)
             \o InParentheses(of(e.right), RightNeeds(e.right, e.op))
        ELSE IF e.node = "unary"
        THEN <<[op |-> IF signed THEN Sign[e.op] ELSE e.op]>> \o BreakOf(style)
             \o InParentheses(of(e.right), UnaryNeeds(e.right, e.op))
        ELSE <<LeafLexeme(e)>>

\* What may be written at all: names right of a dot and left of ':=', and no
\* arrow that points the other way left of an arrow.
RECURSIVE Allowed(_)
Allowed(e) ==
    CASE e.node = "unary"  -> Allowed(e.right)
      [] e.node = "binary" ->
         /\ Allowed(e.left) /\ Allowed(e.right)
         /\ e.op = "." => e.right.node = "identifier"
         /\ e.op \in Assignments =>
               e.left.node = "identifier" \/ (e.left.node = "binary" /\ e.left.op = ".")
         /\ ~(e.op \in Arrows /\ e.left.node = "binary" /\ e.left.op \in Arrows
              /\ {"<-"} \cap {e.op, e.left.op} # {} /\ e.op # e.left.op)
      [] OTHER -> TRUE

----------------------------------------------------------------------------
(* Statements. *)

Words(seq) == [i \in DOMAIN seq |-> ReservedWord(seq[i])]

RECURSIVE PrintStatement(_, _, _)
PrintStatement(t, program, style) ==
    LET expr(e) == PrintExpression(e, style)
        stmt(s) == PrintStatement(s, program, style)
        each(s) == stmt(s) \o EndOf(style)
        case(b) == expr(b.match) \o <<Punctuation(":")>> \o each(b.action)
        word(w) == <<ReservedWord(w)>>
        open    == <<Punctuation("{")>>
        close   == <<Punctuation("}")>>
        comma(i) == IF i = 1 THEN <<>> ELSE <<Punctuation(",")>>
        all(Of(_), seq) == FlattenSeq([i \in DOMAIN seq |-> Of(seq[i])])
    IN  CASE t.statement = "compound"   -> open \o all(each, t.statements) \o close
          [] t.statement = "expression" -> expr(t.expression)
          [] t.statement = "if" -> word("if") \o expr(t.condition) \o word("then") \o stmt(t.then)
                \o (IF Has(t, "else") THEN BreakOf(style) \o word("else") \o stmt(t.else) ELSE <<>>)
          [] t.statement = "case" -> word("case") \o expr(t.test) \o word("of") \o open \o all(case, t.cases)
                \o (IF Has(t, "default") THEN word("default") \o <<Punctuation(":")>> \o each(t.default) ELSE <<>>)
                \o close
          [] t.statement = "create" -> word("create") \o <<NameLexeme(NameOf(program, t.type))>>
                \o word("named") \o expr(t.target)
          [] t.statement = "destroy" -> word("destroy") \o expr(t.victim)
          [] t.statement = "for"   -> word("for") \o expr(t.selection) \o word("do") \o stmt(t.action)
          [] t.statement = "while" -> word("while") \o expr(t.condition) \o word("do") \o stmt(t.action)
          [] t.statement = "output" -> word(t.kind)
                \o FlattenSeq([i \in DOMAIN t.expressions |-> comma(i) \o expr(t.expressions[i])])
          [] t.statement = "paragraph" ->
                FlattenSeq([i \in DOMAIN t.literals |-> <<[quote |-> <<t.literals[i]>>], Newline>>])

----------------------------------------------------------------------------
(* Declarations and files. *)

PrintObject(o, program, style) ==
    LET parent == NameLexeme(NameOf(program, o.parent))
        heading == IF o.proto THEN <<ReservedWord("type"), NameLexeme(o.name)>> \o Words(<<"based", "on">>) \o <<parent>>
                   ELSE <<parent, NameLexeme(o.name)>>
        attribute(a) == <<NameLexeme(a[1]), Punctuation(":")>> \o PrintExpression(a[2], style) \o EndOf(style)
        key(m) == IF m = DefaultMethod THEN ReservedWord("default") ELSE [message |-> <<m>>]
        method(m) == <<key(m[1]), Punctuation(":")>> \o PrintStatement(m[2], program, style) \o EndOf(style)
        all(Of(_), seq) == FlattenSeq([i \in DOMAIN seq |-> Of(seq[i])])
    IN  heading \o EndOf(style) \o all(attribute, o.attributes)
        \o (IF o.methods = <<>> THEN <<>> ELSE Words(<<"methods">>) \o EndOf(style) \o all(method, o.methods))
        \o Words(<<"end">>) \o <<Newline>>

\* One file; or a library with all objects but the last, which includes itself
\* and is included twice, the second time for nothing.
Main == <<100>>
Library == <<101>>
Including(name) == <<ReservedWord("include"), [text |-> name], Newline>>
PrintProgram(program, style) ==
    LET object(i) == PrintObject(program[i], program, style)
        n == Len(program)
        files(text) ==
            IF style # "library" THEN Main :> FlattenSeq(text)
            ELSE (Main :> Including(Library) \o Including(Library) \o text[n])
                 @@ (Library :> Including(Library) \o FlattenSeq(SubSeq(text, 1, n - 1)))
    IN  files([i \in 1..n |-> object(i)])

AsFunction(pairs) ==
    [k \in {pairs[i][1] : i \in DOMAIN pairs} |-> pairs[SelectLastInSeq(pairs, LAMBDA p : p[1] = k)][2]]
Meaning(program) ==
    [i \in DOMAIN program |->
        [parent |-> program[i].parent, id |-> i + 1, proto |-> program[i].proto,
         attributes |-> AsFunction(program[i].attributes), methods |-> AsFunction(program[i].methods)]]

\* Every name that is used and that no declaration defines.
UndefinedIn(program, files) ==
    LET used == UNION {{files[f][i].identifier : i \in {j \in DOMAIN files[f] : Has(files[f][j], "identifier")}} :
                          f \in DOMAIN files}
        defined == UNION {{program[i].name} \cup DOMAIN AsFunction(program[i].attributes) : i \in DOMAIN program}
    IN  used \ {Spelled(id) : id \in {0, 1} \cup defined}

Project(program, refused, style, played) ==
    LET saying(files) ==
            [main |-> Main, files |-> files, played |-> played, undefined |-> UndefinedIn(program, files),
             means |-> IF refused THEN Refused ELSE Meaning(program)]
    IN  saying(PrintProgram(program, style))
=============================================================================
