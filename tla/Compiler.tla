------------------------------ MODULE Compiler ------------------------------
(***************************************************************************)
(* From source files to a universe, and from there to a file and back:     *)
(* TokenStream, the parsers of Expression.cc and Statement.cc, the         *)
(* declarations of Universe.cc and the search for included files of        *)
(* Wellspring.cc.  A source file is a sequence of lexemes, records whose   *)
(* one field says what they are; every line of it ends with a newline.     *)
(***************************************************************************)
EXTENDS Formats

CONSTANTS
    Projects    \* what may be compiled: files by name, the name of the main
                \* one, what they say (Printer), and what the system object
                \* may remember when the game is stored

VARIABLES
    project,
    c,          \* the compiler: a token stream, the streams around it, a universe
    status,     \* "compiling", "compiled", "failed", or how the process ended
    file,       \* what is on disk
    loaded      \* what came of reading it

vars == <<project, c, status, file, loaded>>

Has(x, kind) == kind \in DOMAIN x
Punctuation(p) == [punctuation |-> p]
ReservedWord(w) == [reserved |-> w]
NEWLINE == [newline |-> TRUE]

----------------------------------------------------------------------------
(* Tokens. *)

Significant(s) == Head(s.newlines)
ConsiderNewline(s) == [s EXCEPT !.newlines = <<TRUE>> \o @]
RestoreNewlineSignificance(s) == [s EXCEPT !.newlines = Tail(@)]
DidNotConsume(s) == [s EXCEPT !.consumed = FALSE]

\* IdIndex::index: the place of what is known, or a new one.
Known(list, x) == IF Contains(list, x) THEN list ELSE Append(list, x)
IndexOf(list, x) == SelectInSeq(Known(list, x), LAMBDA y : y = x) - 1

\* The token a lexeme makes; names and texts are entered in the universe.
Taken(s, lexeme) ==
    LET entered(part, kind) ==
          [s EXCEPT !.token = kind :> IndexOf(s.u[part], lexeme[kind]), !.u[part] = Known(@, lexeme[kind])]
    IN  CASE Has(lexeme, "identifier") -> entered("identifiers", "identifier")
          [] Has(lexeme, "message")    -> entered("messages", "message")
          [] Has(lexeme, "text")       -> entered("literals", "text")
          [] Has(lexeme, "quote")      -> entered("literals", "quote")
          [] Has(lexeme, "semicolon")  -> [s EXCEPT !.token = NEWLINE]
          [] Has(lexeme, "op")         -> IF Contains(OperatorNames, lexeme.op) THEN [s EXCEPT !.token = lexeme]
                                          ELSE [s EXCEPT !.ended = "terminated", !.more = FALSE]
          [] Has(lexeme, "unterminated") -> [s EXCEPT !.ended = "thrown", !.more = FALSE]
          [] OTHER                     -> [s EXCEPT !.token = lexeme]

\* At the end of the source the last token stays where it was.  A comment goes
\* on to the end of its line and over it.
RECURSIVE Scan(_)
Scan(s) ==
    LET lexeme == Head(s.rest)
        after == [s EXCEPT !.rest = Tail(@), !.more = TRUE]
    IN  IF s.rest = <<>> \/ s.ended # "no" THEN [s EXCEPT !.more = FALSE]
        ELSE IF Has(lexeme, "comment") THEN Scan([s EXCEPT !.rest = Tail(Tail(@))])
        ELSE IF (Has(lexeme, "newline") \/ Has(lexeme, "semicolon")) /\ ~Significant(s) THEN Scan(after)
        ELSE Taken(after, lexeme)

\* An unconsumed newline is passed over when it no longer matters.
Fetch(s) ==
    LET t == [s EXCEPT !.consumed = TRUE, !.more = TRUE]
    IN  IF ~s.consumed /\ s.ended = "no" /\ (s.token # NEWLINE \/ Significant(s)) THEN t ELSE Scan(t)

\* Token::number: a place in a table, what a numeral says, or a character.
Number(token) ==
    LET characters == "(" :> 40 @@ ")" :> 41 @@ "," :> 44 @@ ":" :> 58 @@ "[" :> 91 @@ "]" :> 93
                      @@ "{" :> 123 @@ "}" :> 125
    IN  CASE Has(token, "reserved")    -> IndexOf(ReservedWords, token.reserved)
          [] Has(token, "op")          -> IndexOf(OperatorNames, token.op)
          [] Has(token, "punctuation") -> characters[token.punctuation]
          [] OTHER                     -> token[CHOOSE kind \in DOMAIN token : TRUE]

\* What a parser makes, and the stream it leaves; or nothing.
Made(what, s) == [ok |-> TRUE, v |-> what, s |-> s]
Nothing(s)    == [ok |-> FALSE, v |-> 0, s |-> s]

InsistOn(token, s) ==
    LET t == Fetch(s) IN IF t.more /\ t.token = token THEN Made(token, t) ELSE Nothing(t)

----------------------------------------------------------------------------
(* Identifiers: what each has been seen to be.  A clash is only printed. *)

\* A bug: the first use of an identifier decides.
ClassifyOnce(s, id, kind) ==
    IF id \notin DOMAIN s.u.kinds THEN [s EXCEPT !.u.kinds = (id :> kind) @@ @] ELSE s

Classify(s, id, kind) ==
    LET known == s.u.kinds[id]
    IN  IF \/ id \notin DOMAIN s.u.kinds
           \/ known = "unknown"
           \/ known = "referenced" /\ kind = "defined"
        THEN [s EXCEPT !.u.kinds = (id :> kind) @@ @] ELSE s

\* reportUndefinedIdentifiers
NeverDefined(u) == {id \in DOMAIN u.kinds : u.kinds[id] \in {"unknown", "referenced"}}

----------------------------------------------------------------------------
(* Expressions. *)

UnaryOperators == {"(", "chs", "numeric", "not", "string", "random", "length", "head", "tail"}
Assignments == {"*:=", "/:=", "+:=", "-:=", "&:=", ":="}
Arrows == {"->", "-->", "<-"}
IsBinary(op) == op \notin UnaryOperators
RightAssociative(op) == op \in {"^", "@"} \cup Assignments \cup UnaryOperators

Precedence(op) ==
    CASE op = "(" -> 14
      [] op = "." -> 13
      [] op \in UnaryOperators \ {"(", "not"} -> 12
      [] op = "^" -> 11
      [] op \in {"*", "/"} -> 10
      [] op \in {"+", "-", "&"} -> 9
      [] op = "within" -> 8
      [] op \in {"leftfrom", "rightfrom"} -> 7
      [] op \in Arrows -> 6
      [] op \in {"=", "~=", ">", "<", ">=", "<="} -> 5
      [] op = "not" -> 4
      [] op = "and" -> 3
      [] op \in {"or", "@"} -> 2
      [] op \in Assignments -> 1

Val(v) == [node |-> "value", value |-> v]
Unary(op, e) == [node |-> "unary", op |-> op, right |-> e]
Binary(l, op, r) == [node |-> "binary", op |-> op, left |-> l, right |-> r]

\* bindsBefore, of two operators that stand next to each other.
Binds(op, other) ==
    \/ Precedence(other) < Precedence(op)
    \/ Precedence(other) = Precedence(op) /\ ~RightAssociative(other)

\* A bug: down one operator and no further.
TieOneLevel(e, op, rside) ==
    IF e.node \notin {"unary", "binary"} \/ Binds(e.op, op) THEN Binary(e, op, rside)
    ELSE [e EXCEPT !.right = Binary(@, op, rside)]

\* tie_on_rside: down the right side, as far as the operators bind less.
RECURSIVE TieOnRightSide(_, _, _)
TieOnRightSide(e, op, rside) ==
    IF e.node \notin {"unary", "binary"} \/ Binds(e.op, op) THEN Binary(e, op, rside)
    ELSE [e EXCEPT !.right = TieOnRightSide(@, op, rside)]

\* Without the parentheses.
RECURSIVE Tighten(_)
Tighten(e) ==
    CASE e.node = "unary"  -> IF e.op = "(" THEN Tighten(e.right) ELSE [e EXCEPT !.right = Tighten(@)]
      [] e.node = "binary" -> [e EXCEPT !.left = Tighten(@), !.right = Tighten(@)]
      [] OTHER             -> e

GetScalar(s) ==
    LET t == s.token
        constants == ("UNDEFINED" :> "undefined") @@ ("ABSENT" :> "absent") @@ ("break" :> "break")
    IN  CASE Has(t, "text")       -> Made(Val([literal |-> t.text]), s)
          [] Has(t, "quote")      -> Made(Val([literal |-> t.quote]), s)
          [] Has(t, "message") \/ Has(t, "number") -> Made(Val(t), s)
          [] Has(t, "identifier") -> Made([node |-> "identifier", identifier |-> t.identifier],
                                          Classify(s, t.identifier, "unknown"))
          [] Has(t, "reserved")   ->
             IF t.reserved \in DOMAIN constants THEN Made(Val(constants[t.reserved] :> TRUE), s)
             ELSE IF t.reserved \in {"TRUE", "FALSE"} THEN Made(Val([boolean |-> t.reserved = "TRUE"]), s)
             ELSE IF t.reserved \in {"read", "key", "each", "self", "sender", "message"}
             THEN Made([node |-> "reserved", word |-> t.reserved], s) ELSE Nothing(s)
          [] OTHER                -> Nothing(s)

RECURSIVE FormExpr(_, _), FormListExpr(_)

Wrapped(op, r) == IF r.ok THEN Made(Unary(op, r.v), r.s) ELSE r

\* What '+', '-' and '&' mean in front of an operand.
GetOperandNode(s) ==
    LET t == s.token
        prefix == ("+" :> "numeric") @@ ("-" :> "chs") @@ ("&" :> "string")
        op == IF t.op \in DOMAIN prefix THEN prefix[t.op] ELSE t.op
    IN  CASE t = Punctuation("(") -> Wrapped("(", FormExpr(s, 0))
          [] t = Punctuation("[") -> FormListExpr(s)
          [] Has(t, "punctuation") /\ t.punctuation \notin {"(", "["} -> Nothing(s)
          [] Has(t, "op") -> IF IsBinary(op) THEN Nothing(s) ELSE Wrapped(op, FormExpr(s, Precedence(op)))
          [] OTHER -> Wrapped("(", GetScalar(s))

RECURSIVE GetOperand(_)
GetOperand(s) ==
    LET found(r) == IF r.ok THEN r ELSE Nothing(DidNotConsume(r.s))
        at(t) == IF ~t.more THEN Nothing(DidNotConsume(t))
                 ELSE IF t.token = NEWLINE THEN GetOperand(t) ELSE found(GetOperandNode(t))
    IN  at(Fetch(s))

\* A closing parenthesis is consumed at level 0 only.
RECURSIVE Continued_(_, _, _)
Continued_(e, s, stop) ==
    LET tied(op, r) == IF r.ok THEN Continued_(TieOnRightSide(e, op, r.v), r.s, stop) ELSE r
        at(t) == IF ~t.more THEN Made(e, t)
                 ELSE IF ~Has(t.token, "op") \/ ~IsBinary(t.token.op)
                 THEN Made(e, IF t.token = Punctuation(")") /\ stop = 0 THEN t ELSE DidNotConsume(t))
                 ELSE IF Precedence(t.token.op) < stop THEN Made(e, DidNotConsume(t))
                 ELSE tied(t.token.op, GetOperand(t))
    IN  at(Fetch(s))

FromOperand(r, stop) == IF r.ok THEN Continued_(r.v, r.s, stop) ELSE r
FormExpr(s, stop) == FromOperand(GetOperand(s), stop)

\* The elements up to the closing bracket, as pairs that end in UNDEFINED.
FormListExpr(s) ==
    LET joined(e, r) == IF r.ok THEN Made(Unary("(", Binary(Tighten(e), "@", r.v.right)), r.s) ELSE Nothing(r.s)
        others(r) == IF r.ok THEN joined(r.v, FormListExpr(r.s)) ELSE Nothing(r.s)
        at(t) == IF ~t.more \/ t.token = Punctuation("]")
                 THEN Made(Unary("(", Val([undefined |-> TRUE])), t)
                 ELSE others(FormExpr(DidNotConsume(t), 0))
    IN  at(Fetch(s))

\* Both sides of a dot and of an assignment, and no '->' left of a '<-' or the
\* other way round.
RECURSIVE Verify(_, _)
Verify(e, s) ==
    LET l == Verify(e.left, s)
        r == Verify(e.right, IF e.node = "unary" THEN s ELSE l.s)
        mixed == /\ e.op \in Arrows /\ e.left.node = "binary" /\ e.left.op \in Arrows
                 /\ (e.op = "<-") # (e.left.op = "<-")
        referenced(side) == Made(e, Classify(r.s, side.identifier, "referenced"))
    IN  IF e.node \notin {"unary", "binary"} THEN Made(e, s)
        ELSE IF e.node = "unary" THEN r
        ELSE IF ~l.ok THEN l ELSE IF ~r.ok THEN r ELSE IF mixed THEN Nothing(r.s)
        ELSE IF e.op = "." THEN IF e.right.node = "identifier" THEN referenced(e.right) ELSE Nothing(r.s)
        ELSE IF e.op \in Assignments
        THEN IF e.left.node = "identifier" THEN referenced(e.left)
             ELSE IF e.left.node = "binary" /\ e.left.op = "." THEN r ELSE Nothing(r.s)
        ELSE r

MakeExpr(s) ==
    LET valid(e, r) == IF r.ok THEN Made(e, r.s) ELSE r
        checked(e, t) == valid(e, Verify(e, t))
        formed(r, t) == IF r.ok THEN checked(Tighten(r.v), t) ELSE Nothing(t)
        whole(r) == formed(r, RestoreNewlineSignificance(r.s))
    IN  whole(FormExpr(ConsiderNewline(s), 0))

----------------------------------------------------------------------------
(* Statements. *)

\* An expression or a statement, wherever one is wanted.
RECURSIVE Parse(_, _)

\* One parser after the other; each is given what was made before.
And(r, Then_(_, _)) == IF r.ok THEN Then_(r.v, r.s) ELSE r

RECURSIVE MakeCompound(_, _)
MakeCompound(s, statements) ==
    LET t == Fetch(s)
    IN  IF ~t.more THEN Nothing(t)
        ELSE IF t.token = Punctuation("}") THEN Made([statement |-> "compound", statements |-> statements], t)
        ELSE And(Parse("statement", DidNotConsume(t)), LAMBDA one, s1 : MakeCompound(s1, Append(statements, one)))

MakeIf(s) ==
    And(Parse("expression", s), LAMBDA condition, s1 :
    And(InsistOn(ReservedWord("then"), s1), LAMBDA w, s2 :
    And(Parse("statement", s2), LAMBDA then, s3 :
        LET t == Fetch(s3)
            it == [statement |-> "if", condition |-> condition, then |-> then]
        IN  IF t.more /\ t.token = ReservedWord("else")
            THEN And(Parse("statement", t), LAMBDA else, s4 : Made([else |-> else] @@ it, s4))
            ELSE Made(it, DidNotConsume(t)))))

\* ':' and the statement after it.
MakeAction(s) == And(InsistOn(Punctuation(":"), s), LAMBDA p, t : Parse("statement", t))

RECURSIVE MakeCases(_, _)
MakeCases(s, it) ==
    LET t == Fetch(s)
    IN  IF ~t.more THEN Nothing(t)
        ELSE IF t.token = Punctuation("}") THEN Made(it, t)
        ELSE IF t.token = ReservedWord("default")
        THEN IF Has(it, "default") THEN Nothing(t)
             ELSE And(MakeAction(t), LAMBDA action, s1 : MakeCases(s1, [default |-> action] @@ it))
        ELSE And(Parse("expression", DidNotConsume(t)), LAMBDA match, s1 :
             And(MakeAction(s1), LAMBDA action, s2 :
                 MakeCases(s2, [it EXCEPT !.cases = Append(@, [match |-> match, action |-> action])])))

MakeCase(s) ==
    And(Parse("expression", s), LAMBDA test, s1 :
    And(InsistOn(ReservedWord("of"), s1), LAMBDA w, s2 :
    And(InsistOn(Punctuation("{"), s2), LAMBDA p, s3 :
        MakeCases(s3, [statement |-> "case", test |-> test, cases |-> <<>>]))))

\* The type has to be there already, and to be a type.
TypeNamed(s) ==
    LET id == s.token.identifier
    IN  IF ~Has(s.token, "identifier") \/ id \notin DOMAIN s.u.names THEN Nothing(s)
        ELSE IF s.u.names[id] = SystemObjectId \/ ~s.u.objects[s.u.names[id] + 1].proto THEN Nothing(s)
        ELSE Made(s.u.names[id], s)

MakeCreate(s) ==
    LET t == Fetch(s)
    IN  And(IF t.more THEN TypeNamed(t) ELSE Nothing(t), LAMBDA type, s1 :
        And(InsistOn(ReservedWord("named"), s1), LAMBDA w, s2 :
        And(Parse("expression", s2), LAMBDA target, s3 :
            Made([statement |-> "create", type |-> type, target |-> target], s3))))

MakeLoop(s, kind, head) ==
    And(Parse("expression", s), LAMBDA e, s1 :
    And(InsistOn(ReservedWord("do"), s1), LAMBDA w, s2 :
    And(Parse("statement", s2), LAMBDA action, s3 :
        Made([statement |-> kind, action |-> action] @@ (head :> e), s3))))

\* Expressions and commas, unless the line ends at once.
RECURSIVE MoreOutput(_, _)
MoreOutput(s, it) ==
    And(Parse("expression", s), LAMBDA e, s1 :
        LET t == Fetch(s1)
            longer == [it EXCEPT !.expressions = Append(@, e)]
        IN  IF ~t.more THEN Made(longer, t)
            ELSE IF t.token = Punctuation(",") THEN MoreOutput(t, longer)
            ELSE Made(longer, DidNotConsume(t)))
MakeOutput(s, kind) ==
    LET t == Fetch(ConsiderNewline(s))
        restored == RestoreNewlineSignificance(t)
        it == [statement |-> "output", kind |-> kind, expressions |-> <<>>]
    IN  IF t.more /\ t.token = NEWLINE THEN Made(it, restored) ELSE MoreOutput(DidNotConsume(restored), it)

RECURSIVE MakeParagraph(_, _)
MakeParagraph(s, literals) ==
    LET t == Fetch(s)
    IN  IF t.more /\ Has(t.token, "quote") THEN MakeParagraph(t, Append(literals, t.token.quote))
        ELSE Made([statement |-> "paragraph", literals |-> literals], IF t.more THEN DidNotConsume(t) ELSE t)

MakeExpressionStatement(s) ==
    And(Parse("expression", s), LAMBDA e, t : Made([statement |-> "expression", expression |-> e], t))

MakeStatement(s) ==
    LET t == Fetch(s)
        word == IF Has(t.token, "reserved") THEN t.token.reserved ELSE "none"
    IN  IF ~t.more THEN Nothing(t)
        ELSE CASE t.token = Punctuation("{") -> MakeCompound(t, <<>>)
               [] Has(t.token, "quote")      -> MakeParagraph(DidNotConsume(t), <<>>)
               [] word = "if"      -> MakeIf(t)
               [] word = "case"    -> MakeCase(t)
               [] word = "create"  -> MakeCreate(t)
               [] word = "destroy" -> And(Parse("expression", t), LAMBDA e, s1 :
                                          Made([statement |-> "destroy", victim |-> e], s1))
               [] word \in {"display", "write", "writes", "write_centered", "stop"} -> MakeOutput(t, word)
               [] word = "for"     -> MakeLoop(t, "for", "selection")
               [] word = "while"   -> MakeLoop(t, "while", "condition")
               [] OTHER            -> MakeExpressionStatement(DidNotConsume(t))

Parse(what, s) == IF what = "expression" THEN MakeExpr(s) ELSE MakeStatement(s)

----------------------------------------------------------------------------
(* Declarations. *)

\* INT_MAX in the code: the default method comes after those for messages.
DefaultMethod == 1000

NoAttributes == [id \in {} |-> 0]
NewObject(s, proto) ==
    [s EXCEPT !.u.objects = Append(@, [parent |-> 0, id |-> Len(@), proto |-> proto,
                                       attributes |-> NoAttributes, methods |-> NoAttributes])]
Latest(s) == Len(s.u.objects)

\* The file is at its end when no 'end' comes.
RECURSIVE DeclareMethods(_), DeclareObject(_)
DeclareMethods(s) ==
    LET t == Fetch(s)
        key == IF Has(t.token, "message") THEN t.token.message ELSE DefaultMethod
    IN  IF ~t.more THEN Nothing(t)
        ELSE IF t.token = ReservedWord("end") THEN Made(TRUE, t)
        ELSE IF t.token # ReservedWord("default") /\ ~Has(t.token, "message") THEN Nothing(t)
        ELSE And(MakeAction(t), LAMBDA body, s1 :
                 DeclareMethods([s1 EXCEPT !.u.objects[Latest(s1)].methods = (key :> body) @@ @]))

DeclareObject(s) ==
    LET t == Fetch(s)
        id == t.token.identifier
    IN  IF ~t.more THEN Nothing(t)
        ELSE IF t.token = ReservedWord("end") THEN Made(TRUE, t)
        ELSE IF t.token = ReservedWord("methods") THEN DeclareMethods(t)
        ELSE IF ~Has(t.token, "identifier") THEN Nothing(t)
        ELSE And(InsistOn(Punctuation(":"), Classify(t, id, "defined")), LAMBDA p, s1 :
             And(Parse("expression", s1), LAMBDA e, s2 :
                 DeclareObject([s2 EXCEPT !.u.objects[Latest(s2)].attributes = (id :> e) @@ @])))

Bound(s, id) == [s EXCEPT !.u.names = (id :> Latest(s) - 1) @@ @]

\* An instance that is named 'null' has no name.
Instantiate(s, type) ==
    LET t == Fetch(s)
        id == t.token.identifier
        made == NewObject(Classify(t, id, "object"), FALSE)
        named == IF id \in DOMAIN t.u.names /\ t.u.names[id] = 0 THEN made ELSE Bound(made, id)
    IN  IF ~t.more \/ ~Has(t.token, "identifier") THEN Nothing(t)
        ELSE DeclareObject([named EXCEPT !.u.objects[Latest(named)].parent = type])

\* Its name is known while its own declaration is read.
DefineType(s) ==
    LET t == Fetch(s)
        id == t.token.identifier
        made == Bound(NewObject(Classify(t, id, "object"), TRUE), id)
    IN  IF ~t.more \/ ~Has(t.token, "identifier") THEN Nothing(t)
        ELSE And(InsistOn(ReservedWord("based"), made), LAMBDA b, s1 :
             And(InsistOn(ReservedWord("on"), s1), LAMBDA o, s2 :
             LET n == Fetch(s2) IN
             And(IF n.more THEN TypeNamed(n) ELSE Nothing(n), LAMBDA type, s3 :
                 DeclareObject([s3 EXCEPT !.u.objects[Latest(s3)].parent = type]))))

\* One identifier, and more after commas.  What comes after a comma is a keyword
\* before anybody looks what it is; one that is no identifier ends the list.
RECURSIVE MakeKeywords(_)
MakeKeywords(s) ==
    LET t == Classify(s, Number(s.token), "keyword")
        comma == Fetch(t)
        next == Fetch(comma)
    IN  IF ~Has(s.token, "identifier") THEN Made(TRUE, DidNotConsume(t))
        ELSE IF ~comma.more \/ comma.token # Punctuation(",") THEN Made(TRUE, DidNotConsume(comma))
        ELSE IF next.more THEN MakeKeywords(next) ELSE Nothing(next)

----------------------------------------------------------------------------
(* Sources, and the declarations in them. *)

NewStream(lexemes) ==
    [rest |-> lexemes, token |-> ReservedWord("ABSENT"), consumed |-> TRUE, more |-> TRUE,
     newlines |-> <<FALSE>>, ended |-> "no"]

\* The registries a universe begins with; "null" and "system" have names.
NoObjects ==
    << [parent |-> -1, id |-> 0, proto |-> TRUE, attributes |-> NoAttributes, methods |-> NoAttributes],
       [state |-> 0, sorted |-> <<>>, mode |-> 0, proximate |-> <<>>, verbs |-> <<>>, nouns |-> <<>>,
        verbMatches |-> <<>>, nounMatches |-> <<>>, command |-> <<>>, normalized |-> <<>>, parsed |-> <<>>] >>
NullName == <<110>>
SystemName == <<115>>
EmptyUniverse ==
    [messages |-> <<>>, literals |-> <<>>, identifiers |-> <<NullName, SystemName>>,
     names |-> (0 :> 0) @@ (1 :> 1), kinds |-> (0 :> "object") @@ (1 :> "object"), objects |-> NoObjects]

Init ==
    /\ project \in Projects
    /\ c = [around |-> <<>>, opened |-> {project.main}, u |-> EmptyUniverse]
           @@ NewStream(project.files[project.main])
    /\ status = "compiling"
    /\ file = <<>>
    /\ loaded = Thrown

\* A declaration that was made or not.
Comes(r) ==
    /\ c' = r.s
    /\ status' = IF r.s.ended # "no" THEN r.s.ended ELSE IF r.ok THEN "compiling" ELSE "failed"

Token == Fetch(c)
Compiling == status = "compiling" /\ UNCHANGED <<project, file, loaded>>
Declaring(words) == Compiling /\ Token.more /\ Has(Token.token, "reserved") /\ Token.token.reserved \in words

DeclareType == Declaring({"type", "class"}) /\ Comes(DefineType(Token))

DeclareKeywords ==
    /\ Declaring({"keyword"})
    /\ LET t == Fetch(Token)
       IN  Comes(IF t.more /\ Has(t.token, "identifier") THEN MakeKeywords(t) ELSE Nothing(t))

\* By the name as it is spelled, and once: the stream goes on where it was when
\* the included one is at its end.
Include ==
    /\ Declaring({"include"})
    /\ LET t == Fetch(Token)
           name == t.u.literals[t.token.text + 1]
           outer == [k \in DOMAIN NewStream(<<>>) |-> t[k]]
       IN  Comes(IF ~t.more \/ ~Has(t.token, "text") THEN Nothing(t)
                 ELSE IF name \in c.opened THEN Made(TRUE, t)
                 ELSE IF name \notin DOMAIN project.files THEN Nothing(t)
                 ELSE Made(TRUE, NewStream(project.files[name]) @@
                          [t EXCEPT !.around = <<outer>> \o @, !.opened = @ \cup {name}]))

\* An instance of what is named; nothing at all if that is no type.
DeclareInstance ==
    /\ Compiling /\ Token.more /\ Has(Token.token, "identifier")
    /\ LET type == TypeNamed(Token)
       IN  Comes(IF type.ok THEN Instantiate(Token, type.v)
                 ELSE IF Token.token.identifier \in DOMAIN c.u.names THEN Made(TRUE, Token)
                 ELSE Nothing(Token))

DeclareNothing ==
    /\ Compiling /\ Token.more
    /\ ~Has(Token.token, "identifier")
    /\ Has(Token.token, "reserved") => Token.token.reserved \notin {"type", "class", "keyword", "include"}
    /\ Comes(Nothing(Token))

\* Back to the source that included this one, or to the end.
EndOfSource ==
    /\ Compiling /\ ~Token.more
    /\ IF Token.ended = "no" /\ c.around # <<>>
       THEN c' = Head(c.around) @@ [Token EXCEPT !.around = Tail(@)] /\ UNCHANGED status
       ELSE c' = Token /\ status' = IF Token.ended = "no" THEN "compiled" ELSE Token.ended

----------------------------------------------------------------------------
(* Files. *)

Store ==
    /\ status = "compiled" /\ file = <<>>
    /\ \E y \in project.played :
          c' = [c EXCEPT !.u.objects[SystemObjectId + 1] = y]
    /\ file' = UniverseBytes(c'.u)
    /\ UNCHANGED <<project, status, loaded>>

\* A file that was cut off somewhere.
Tear ==
    /\ status = "compiled" /\ file # <<>>
    /\ \E n \in 1..Len(file)-1 : file' = SubSeq(file, 1, n)
    /\ status' = "torn"
    /\ UNCHANGED <<project, c, loaded>>

Load ==
    /\ status \in {"compiled", "torn"} /\ file # <<>>
    /\ loaded' = ReadUniverse(file)
    /\ status' = IF status = "torn" THEN "torn file read" ELSE "file read"
    /\ UNCHANGED <<project, c, file>>

Next ==
    \/ DeclareType \/ DeclareKeywords \/ Include \/ DeclareInstance \/ DeclareNothing \/ EndOfSource
    \/ Store \/ Tear \/ Load

Spec == Init /\ [][Next]_vars

----------------------------------------------------------------------------
(* Properties. *)

\* What compiles says what was written, operators grouped as their precedence
\* and associativity have it and every statement with its parts, whether lines
\* go on after an operator and before 'else' or not; what a programmer may not
\* write is refused, and nothing else is (Expression.cc:875-1092, Statement.cc:698-755, Universe.cc:209-387).
Refused == <<>>   \* what a program says that nobody may write
Declared == SubSeq(c.u.objects, 3, Len(c.u.objects))
ParsesAsWritten ==
    /\ status = "compiled" => Declared = project.means
    /\ status # "compiling" => (status = "failed") = (project.means = Refused)

\* archetype-mode.el:171, "# comment to end of line"; Statement.cc:423-425, "If
\* the token immediately following the write statement is NEWLINE, then the
\* write was intended to be a null write".  What a comment stands behind ends
\* with its line, like any other.
CommentsEndWithTheirLine ==
    (\E f \in DOMAIN project.files : [comment |-> TRUE] \in ToSet(project.files[f])) => ParsesAsWritten

\* A keyword list that ends in a comma runs on to the word that begins the next
\* declaration, whose number is then taken for a name's (Universe.cc:332-338).
TakenForKeywords ==
    {IndexOf(ReservedWords, word) : word \in {w \in {"type", "class", "keyword", "include"} :
        \E f \in DOMAIN project.files : LET text == project.files[f] IN
            \E i \in {n \in DOMAIN text : text[n] = Punctuation(",")} : \E j \in i+1..Len(text) :
                text[j] = ReservedWord(w) /\ \A k \in i+1..j-1 : text[k] = NEWLINE}}

\* A name is reported as never defined only when nothing defines it, and then
\* wherever it is used and the declarations stand, unless its number is one that
\* was taken for a keyword's (Universe.cc:121-144).
Reported == {c.u.identifiers[id + 1] : id \in NeverDefined(c.u)}
UndefinedAreReported ==
    status = "compiled" =>
        /\ Reported \subseteq project.undefined
        /\ \A name \in project.undefined \ Reported : IndexOf(c.u.identifiers, name) \in TakenForKeywords

\* Universe.cc:139, "Identifier ... was never defined", of whatever was not.
EveryUndefinedIsReported == status = "compiled" => project.undefined \subseteq Reported

\* A file that is read back is the universe that was stored, every object with
\* its attributes and methods and whatever the system object was in the middle
\* of; a file that is cut off is refused (Serialization.cc, Universe.cc:502-544).
Stored == [k \in {"messages", "literals", "identifiers", "names", "objects"} |-> c.u[k]]
LoadsWhatWasStored ==
    /\ status = "file read" => loaded.ok /\ loaded.v = Stored /\ loaded.rest = <<>>
    /\ status = "torn file read" => ~loaded.ok
=============================================================================
