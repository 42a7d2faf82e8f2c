----------------------------- MODULE MCCompiler -----------------------------
(* Small programs for Compiler: every expression of a few operators, and two  *)
(* programs that have every declaration and statement, in every style.        *)
EXTENDS Printer

Leaf(i) == [node |-> "identifier", identifier |-> i]
Num(n) == Val([number |-> n])
Word_(w) == [node |-> "reserved", word |-> w]
X == 2   \* the attribute the expressions are given to

\* All expressions of n operands, numbered from i.
RECURSIVE Expressions(_, _, _)
Expressions(n, i, ops) ==
    IF n = 1 THEN {Leaf(i)}
    ELSE UNION {{Binary(l, op, r) : l \in Expressions(k, i, ops), op \in ops,
                                    r \in Expressions(n - k, i + k, ops)} : k \in 1..n-1}

\* With one prefix operator more.
RECURSIVE Prefixed(_, _)
Prefixed(e, ops) ==
    {Unary(op, e) : op \in ops} \cup
    IF e.node # "binary" THEN {}
    ELSE {Binary(l, e.op, e.right) : l \in Prefixed(e.left, ops)} \cup
         {Binary(e.left, e.op, r) : r \in Prefixed(e.right, ops)}

AllOperators == {".", "^", "*", "-", "within", "->", "<-", "=", "and", "or", "@", ":="}

FewOperators == {".", "^", "-", "<-", "->", "and", "@", ":="}

WithAttribute(e) ==
    << [name |-> 0, parent |-> 0, proto |-> FALSE, attributes |-> <<<<X, e>>>>, methods |-> <<>>] >>
ExpressionPrograms ==
    {<<WithAttribute(e), ~Allowed(e), "plain", {}>> :
        e \in Expressions(3, X + 1, AllOperators) \cup Expressions(4, X + 1, FewOperators)
              \cup UNION {Prefixed(f, {"chs", "not", "head"}) : f \in Expressions(3, X + 1, AllOperators)}}

Expr(e) == [statement |-> "expression", expression |-> e]
Out(k, es) == [statement |-> "output", kind |-> k, expressions |-> es]
Block(ts) == [statement |-> "compound", statements |-> ts]

\* Identifiers 2 and 4 are T and a, an instance; 3, 5 and 6 are attributes.
Everything(l) ==
    << [name |-> 2, parent |-> 0, proto |-> TRUE,
        attributes |-> << <<3, Val([undefined |-> TRUE])>>, <<3, Binary(Binary(Leaf(4), ".", Leaf(5)), "@", Val([absent |-> TRUE]))>> >>,
        methods |-> <<>>],
       [name |-> 4, parent |-> 2, proto |-> FALSE,
        attributes |-> << <<5, Binary(Num(64), "@", Binary(Unary("chs", Leaf(3)), "@", Val([undefined |-> TRUE])))>>,
                          <<6, Val([undefined |-> TRUE])>> >>,
        methods |-> <<
          <<0, Block(<<
             Out("write", <<>>),
             Expr(Unary("string", Leaf(5))),
             Expr(Binary(Binary(Leaf(4), ".", Leaf(3)), "+:=", Num(1))),
             [statement |-> "create", type |-> 2, target |-> Leaf(6)],
             Out("writes", <<Val([message |-> 1]), Binary(Word_("read"), "&", Val([boolean |-> FALSE]))>>),
             Out("stop", <<Word_("sender")>>)>>)>>,
          <<2, [statement |-> "if", condition |-> Unary("not", Leaf(7)), then |-> Expr(Val([break |-> TRUE])),
                else |-> [statement |-> "for", selection |-> Binary(Word_("each"), "->", Leaf(3)),
                          action |-> [statement |-> "destroy", victim |-> Word_("each")]]]>>,
          <<DefaultMethod, [statement |-> "case", test |-> Word_("message"),
                cases |-> << [match |-> Val([literal |-> l]), action |-> Block(<<Out("display", <<Word_("self")>>)>>)],
                             [match |-> Leaf(8), action |-> Out("write", <<>>)] >>,
                default |-> [statement |-> "while", condition |-> Val([boolean |-> TRUE]),
                             action |-> Block(<<[statement |-> "paragraph", literals |-> <<l + 1, l>>]>>)]]>> >>] >>

Fresh == NoObjects[2]
Midway == [Fresh EXCEPT !.state = 7, !.sorted = << <<1, 2>>, <<>> >>, !.mode = 1, !.proximate = <<2, 70>>,
             !.nouns = << << <<3>>, 2>> >>,
             !.verbMatches = << << <<[string |-> <<3>>], [string |-> <<4>>]>>, 3>> >>,
             !.normalized = <<5>>, !.parsed = <<[object |-> 3], [string |-> <<6>>]>>]

StatementPrograms ==
    {<<Everything(0), FALSE, style, {Fresh, Midway}>> : style \in {"plain", "broken", "semicolons", "remarks"}}
LibraryProgram == <<Everything(1), FALSE, "library", {Fresh}>>

\* What nobody may write: a list left open, a type that is none, and the like.
Faulty(lexemes) ==
    [main |-> Main, files |-> Main :> lexemes, played |-> {}, undefined |-> {}, means |-> Refused]
Instance(rest) == <<NameLexeme(0), NameLexeme(2)>> \o rest
End == Words(<<"end">>)
FaultyProjects == {Faulty(l \o <<Newline>>) : l \in {
    Words(<<"methods">>),
    <<NameLexeme(2), NameLexeme(3)>> \o End,
    <<ReservedWord("include"), [text |-> Library]>>,
    <<ReservedWord("type"), NameLexeme(2)>> \o Words(<<"based", "on">>) \o <<NameLexeme(1)>> \o End,
    Instance(Words(<<"methods", "write", "end">>)),
    Instance(<<>>),
    <<ReservedWord("keyword"), NameLexeme(2), Punctuation(",")>>,
    <<ReservedWord("keyword"), NameLexeme(2), Punctuation(","), [text |-> <<9>>]>> \o Instance(End),
    Instance(<<NameLexeme(3), Punctuation(":"), Punctuation("["), NameLexeme(3)>> \o End),
    Instance(<<NameLexeme(3), Punctuation(":"), Punctuation("(")>> \o End)}}

\* Keywords, and an instance of an instance, which is passed over.
Keywords ==
    [main |-> Main, played |-> {}, undefined |-> {},
     files |-> Main :> <<ReservedWord("keyword"), NameLexeme(2), Punctuation(","), NameLexeme(3), Newline>>
                       \o Instance(<<NameLexeme(4), Punctuation(":"), NameLexeme(3), Newline>> \o End)
                       \o <<NameLexeme(1), Newline>>,
     means |-> <<[parent |-> 0, id |-> 2, proto |-> FALSE, attributes |-> (4 :> Leaf(3)), methods |-> NoAttributes]>>]

\* A keyword list that ends in a comma, and the declaration it runs on to.  The
\* number of 'class' is 7, and so is that of a name: used later, or defined
\* later, or used earlier, as it is or right of a dot.
Given(attribute, e) ==
    <<NameLexeme(attribute), Punctuation(":")>> \o PrintExpression(e, "plain") \o <<Newline>>
OpenList(name, word) ==
    <<ReservedWord("keyword"), NameLexeme(name), Punctuation(","), Newline, ReservedWord(word)>>
TypeNamed_(name) == <<NameLexeme(name)>> \o Words(<<"based", "on">>) \o <<NameLexeme(0), Newline>>
Numbered(n, proto, attributes) ==
    [parent |-> 0, id |-> n, proto |-> proto, attributes |-> attributes, methods |-> NoAttributes]
Listed(l, e) == Binary(Leaf(l), "@", e)
Said(lexemes, undefined, means) ==
    [main |-> Main, played |-> {}, files |-> Main :> lexemes, means |-> means,
     undefined |-> {Spelled(id) : id \in undefined}]
OpenLists ==
    LET later == Listed(5, Listed(6, Leaf(7)))
        numbers == Listed(5, Listed(6, Num(1)))
    IN  {Said(OpenList(2, word) \o TypeNamed_(3) \o Given(4, later) \o End, {5, 6, 7},
              <<Numbered(2, TRUE, 4 :> later)>>) : word \in {"class", "type"}}
        \cup {Said(OpenList(2, "class") \o TypeNamed_(3) \o Given(4, numbers) \o Given(7, Leaf(4)) \o End, {5, 6},
                   <<Numbered(2, TRUE, (4 :> numbers) @@ (7 :> Leaf(4)))>>)}
        \cup {Said(Instance(Given(3, Listed(4, Listed(5, e))) \o End) \o OpenList(8, "class") \o TypeNamed_(9) \o End,
                   {4, 5, 6, 7}, <<Numbered(2, FALSE, 3 :> Listed(4, Listed(5, e))), Numbered(3, TRUE, NoAttributes)>>) :
                 e \in {Listed(6, Leaf(7)), Binary(Leaf(6), ".", Leaf(7))}}
        \cup {Said(OpenList(2, "keyword") \o <<NameLexeme(3), Newline>> \o Instance(Given(4, Leaf(3)) \o End), {},
                   <<Numbered(2, FALSE, 4 :> Leaf(3))>>)}

MCProjects ==
    {Project(p[1], p[2], p[3], p[4]) : p \in ExpressionPrograms \cup StatementPrograms \cup {LibraryProgram}}
    \cup {Keywords} \cup OpenLists \cup FaultyProjects
MCRemarks == {Project(Everything(0), FALSE, "remarks at the end of lines", {Fresh})}
=============================================================================
