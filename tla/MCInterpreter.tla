---------------------------- MODULE MCInterpreter ----------------------------
(* A small program for Interpreter: a type T, two instances, what they do.    *)
EXTENDS Interpreter

Val(v)       == [node |-> "value", value |-> v]
Num(n)       == Val(Numeric(n))
Msg(m)       == Val(Message(m))
Txt(l)       == Val(TextLiteral(l))
Reserved_(w)     == [node |-> "reserved", word |-> w]
Id(i)        == [node |-> "identifier", identifier |-> i]
Un(op, e)    == [node |-> "unary", op |-> op, right |-> e]
Bin(l, op, r) == [node |-> "binary", op |-> op, left |-> l, right |-> r]
Self   == Reserved_("self")
Expr(e)      == [statement |-> "expression", expression |-> e]
Block(ts)    == [statement |-> "compound", statements |-> ts]
If(c, t)     == [statement |-> "if", condition |-> c, then |-> t]
For(e, t)    == [statement |-> "for", selection |-> e, action |-> t]
While_(e, t) == [statement |-> "while", condition |-> e, action |-> t]
Create(e)    == [statement |-> "create", type |-> 2, target |-> e]
Destroy(e)   == [statement |-> "destroy", victim |-> e]
Out(k, es)   == [statement |-> "output", kind |-> k, expressions |-> es]
Case(e, m, t, d) == [statement |-> "case", test |-> e,
                     cases |-> <<[match |-> m, action |-> t]>>, default |-> d]

MCMessageText == << <<40>>, <<41>>, <<1>> >>                \* GO, DIE, 1
MCLiteralText == << <<1>>, <<>>, <<40, 16>>, <<Open, 1, Close>>, <<Space, 40>> >>

\* Identifiers: attributes x, alias and made; then the objects.
x == 1  alias == 2  made == 3
T == 10  a == 11  b == 12
MCNames == (T :> 2) @@ (a :> 3) @@ (b :> 4)

Go == Message(1)  Die == Message(2)
Set(e) == Expr(Bin(Id(x), ":=", e))
List1 == Bin(Num(1), "@", Val(Undefined))

\* What an instance of T may do when it is told to GO.
GoBodies == {
    Set(Bin(Id(x), "+", Num(1))),
    Block(<<Destroy(Self), Create(Bin(Id(b), ".", Id(made))), Set(Num(5))>>),
    Set(Bin(Msg(2), "->", Self)),
    Expr(Val(Absent)),
    Set(Bin(Txt(1), "rightfrom", Id(x))),
    Block(<<Expr(Bin(Bin(Msg(3), "@", Num(4)), "->", Id(T))), Expr(Val(Break))>>),
    Expr(Bin(Bin(Reserved_("sender"), ".", Id(x)), ":=", Reserved_("message")))}

DieBody == Block(<<Destroy(Self), Create(Bin(Id(b), ".", Id(made))), Expr(Num(7))>>)

Object(id, parent, proto, attributes, methods) ==
    [id |-> id, parent |-> parent, proto |-> proto, attributes |-> attributes, methods |-> methods]

World(go, mine) ==
    << Object(0, -1, TRUE, <<>>, <<>>), Object(1, -1, FALSE, <<>>, <<>>),
       Object(2, 0, TRUE, (x :> Num(0)) @@ (alias :> Id(x)) @@ (made :> Val(Undefined)),
              (1 :> go) @@ (2 :> DieBody) @@ (3 :> Set(Reserved_("message")))
              @@ (DefaultMethod :> Set(Num(-1)))),
       Object(3, 2, FALSE, <<>>, IF mine THEN 1 :> Set(Txt(1)) ELSE <<>>),
       Object(4, 2, FALSE, (x :> List1), <<>>) >>

MCWorlds == {World(go, mine) : go \in GoBodies, mine \in BOOLEAN}

MCLines == << <<1>>, <<>>, <<41, 1>> >>

MCCommands == {
    Expr(Bin(Msg(1), "->", Id(a))),
    Expr(Bin(Bin(Id(b), "<-", Msg(1)), "<-", Txt(4))),
    Expr(Bin(Msg(1), "-->", Id(T))),
    For(Reserved_("each"), Block(<<Expr(Bin(Msg(1), "->", Reserved_("each")))>>)),
    For(Bin(Bin(Reserved_("each"), ".", Id(x)), "=", Num(1)),
        For(Val(Boolean(TRUE)), Block(<<Expr(Bin(Bin(Reserved_("each"), ".", Id(x)), "+:=", Num(1))), Expr(Val(Break))>>))),
    Expr(Bin(Bin(Id(a), ".", Id(x)), ":=", Reserved_("read"))),
    Expr(Bin(Bin(Id(a), ".", Id(x)), "&:=", Txt(3))),
    Case(Bin(Id(b), ".", Id(x)), Txt(4), Expr(Bin(Bin(Id(b), ".", Id(x)), ":=", Val(Boolean(TRUE)))),
         Destroy(Bin(Id(b), ".", Id(made)))),
    While_(Bin(Bin(Id(a), ".", Id(alias)), "<", Num(2)),
           Expr(Bin(Bin(Id(a), ".", Id(x)), "+:=", Num(1)))),
    If(Bin(Un("length", Bin(Id(b), ".", Id(alias))), "~=", Un("head", Bin(Id(b), ".", Id(x)))),
       Out("stop", <<Bin(Id(b), ".", Id(x)), Reserved_("key")>>)),
    [statement |-> "paragraph", literals |-> <<3, 1, 5, 2>>]
}
=============================================================================
