-------------------------------- MODULE Values --------------------------------
(***************************************************************************)
(* The values of the language (Value.cc, Value.hh), their conversions, and *)
(* the operators on plain values (Expression.cc).  A value is a record     *)
(* whose one field says what it is; a text is a sequence of character      *)
(* codes.  What has to look into the universe is in Interpreter.           *)
(***************************************************************************)
EXTENDS Integers, Sequences, SequencesExt

CONSTANTS
    MessageText,   \* the texts of Messages, by id
    LiteralText    \* the texts of TextLiterals, by id

ASSUME TextsAssumption ==
    /\ MessageText \in Seq(Seq(Nat)) /\ LiteralText \in Seq(Seq(Nat))

\* INT_MAX in the code: the default method comes after those for messages.
DefaultMethod == 1000

----------------------------------------------------------------------------
(* The kinds of value. *)

Undefined       == [undefined |-> TRUE]
Absent          == [absent |-> TRUE]
Break           == [break |-> TRUE]
Boolean(b)      == [boolean |-> b]
Message(m)      == [message |-> m]
TextLiteral(l)  == [literal |-> l]
Numeric(n)      == [number |-> n]
String(s)       == [string |-> s]
Identifier(i)   == [identifier |-> i]
ObjectRef(o)    == [object |-> o]
AttributeRef(o, a) == [attribute |-> <<o, a>>]
Pair(h, t)      == [head |-> h, tail |-> t]

Is(v, kind)  == kind \in DOMAIN v
IsDefined(v) == ~Is(v, "undefined")
IsList(v)    == Is(v, "head")

\* isSameValueAs: same kind and same content, lists element by element.
SameValue(v, w) == v = w

\* Of every value but a reference to an attribute.
IsTrueEnough(v) ==
    /\ ~Is(v, "undefined") /\ ~Is(v, "absent")
    /\ Is(v, "boolean") => v.boolean

HeadOf(v) == IF IsList(v) THEN v.head ELSE v
TailOf(v) == IF IsList(v) THEN v.tail ELSE Undefined

\* An improper tail is a thing in the list too.
RECURSIVE ListLength(_)
ListLength(v) ==
    1 + (IF IsList(v.tail) THEN ListLength(v.tail) ELSE IF IsDefined(v.tail) THEN 1 ELSE 0)

----------------------------------------------------------------------------
(* Conversions. *)

\* Character codes: 0 to 9 are the digits; letters come after all of these.
Minus == 10
Quote == 11
Open  == 12
Close == 13
Space == 14
At    == 15
Stop  == 16   \* what ends a sentence
NewLine == 17
Word(w) == <<18 + w>>   \* a reserved word, a name or a number, as one character

RECURSIVE Digits(_)
Digits(n) == IF n < 10 THEN <<n>> ELSE Append(Digits(n \div 10), n % 10)

NumberText(n) == IF n < 0 THEN <<Minus>> \o Digits(-n) ELSE Digits(n)

\* numeric_value_from_string.  No sign is understood, and no text is 0.
NumberFromText(s) ==
    IF \E i \in DOMAIN s : s[i] > 9 THEN Undefined
    ELSE Numeric(FoldLeft(LAMBDA n, d : 10 * n + d, 0, s))

\* The values that are reserved words.  Of these four classes, and of the three
\* below, SameValue is the identity and Formats!ValueBytes what is written.
ReservedName(v) ==
    Word(IF Is(v, "boolean") THEN (IF v.boolean THEN 1 ELSE 2)
         ELSE IF Is(v, "undefined") THEN 3 ELSE IF Is(v, "absent") THEN 4 ELSE 5)

Spelling(v) == MessageText[v.message]

\* getString
TextOf(v) == IF Is(v, "literal") THEN LiteralText[v.literal] ELSE v.string
HasText(v) == Is(v, "literal") \/ Is(v, "string")

\* display: as the value appears in an echo, or in a list.
RECURSIVE Display(_), DisplayRest(_)
Display(v) ==
    CASE Is(v, "message")   -> <<Quote>> \o Spelling(v) \o <<Quote>>
      [] HasText(v)         -> <<Quote>> \o TextOf(v) \o <<Quote>>
      [] Is(v, "number")    -> NumberText(v.number)
      [] Is(v, "object")    -> Word(10 + v.object)
      [] Is(v, "identifier") -> Word(20 + v.identifier)
      [] Is(v, "attribute") -> Word(30 + v.attribute[2])
      [] IsList(v) /\ (IsList(v.tail) \/ ~IsDefined(v.tail)) ->
             <<Open>> \o Display(v.head) \o DisplayRest(v.tail) \o <<Close>>
      [] IsList(v) /\ ~IsList(v.tail) /\ IsDefined(v.tail) ->
             <<Open>> \o Display(v.head) \o <<At>> \o Display(v.tail) \o <<Close>>
      [] OTHER              -> ReservedName(v)
DisplayRest(t) ==
    IF IsList(t) THEN <<Space>> \o Display(t.head) \o DisplayRest(t.tail)
    ELSE IF IsDefined(t) THEN <<At>> \o Display(t) ELSE <<>>

StringOf(v) ==
    CASE HasText(v)       -> String(TextOf(v))
      [] Is(v, "message") -> String(Spelling(v))
      [] Is(v, "number")  -> String(NumberText(v.number))
      [] Is(v, "boolean") -> String(ReservedName(v))
      [] IsList(v)        -> String(Display(v))
      [] OTHER            -> Undefined

NumberOf(v) ==
    CASE Is(v, "number")  -> v
      [] Is(v, "boolean") -> Numeric(IF v.boolean THEN 1 ELSE 0)
      [] HasText(v)       -> NumberFromText(TextOf(v))
      [] OTHER            -> Undefined

\* A text is a message when some message is spelled like it.
MessageOf(v) ==
    IF Is(v, "message") THEN v
    ELSE IF HasText(v) /\ TextOf(v) \in ToSet(MessageText)
    THEN Message(CHOOSE m \in DOMAIN MessageText : MessageText[m] = TextOf(v))
    ELSE Undefined

ObjectOf(v) == IF Is(v, "object") THEN v ELSE Undefined

----------------------------------------------------------------------------
(* Operators on values. *)

Less(s, t) ==
    \E i \in 1..Len(t) :
        /\ i <= Len(s) + 1 /\ SubSeq(s, 1, i - 1) = SubSeq(t, 1, i - 1)
        /\ i <= Len(s) => s[i] < t[i]

\* A bug: what is not less is greater.
HoldsStrictly(op, equal, less) ==
    CASE op = "="  -> equal
      [] op = "~=" -> ~equal
      [] op = "<"  -> less
      [] op = "<=" -> less \/ equal
      [] op \in {">=", ">"} -> ~less

\* Of six comparisons of two things, given how they stand.
Holds(op, equal, less) ==
    CASE op = "="  -> equal
      [] op = "~=" -> ~equal
      [] op = "<"  -> less
      [] op = "<=" -> less \/ equal
      [] op = ">=" -> ~less
      [] op = ">"  -> ~less /\ ~equal

\* Two defined values: as numbers, then as texts, then as objects.
ByConversion(op, v, w, same) ==
    LET both(f(_)) == IsDefined(f(v)) /\ IsDefined(f(w))
        m == NumberOf(v).number
        n == NumberOf(w).number
        s == StringOf(v).string
        t == StringOf(w).string
    IN  IF both(NumberOf) THEN Holds(op, m = n, m < n)
        ELSE IF both(StringOf) THEN Holds(op, s = t, Less(s, t))
        ELSE IF both(ObjectOf) THEN op \in {"=", "~="} /\ Holds(op, v = w, FALSE)
        ELSE op = "~=" /\ ~same

\* eval_compare of two values none of which is a reference to an attribute.
Compare(op, v, w) ==
    IF op = "=" /\ SameValue(v, w) THEN TRUE
    ELSE IF IsDefined(v) # IsDefined(w) THEN op = "~="
    ELSE IF ~IsDefined(v) THEN op = "="
    ELSE ByConversion(op, v, w, SameValue(v, w))

\* compare_lists before eval_compare: what the six operators yield.
Compared(op, v, w) ==
    IF ~IsList(v) /\ ~IsList(w) THEN Boolean(Compare(op, v, w))
    ELSE CASE op = "="  -> Boolean(SameValue(v, w))
           [] op = "~=" -> Boolean(~SameValue(v, w))
           [] op \notin {"=", "~="} -> Undefined

\* Integers are rounded towards zero; a division by zero ends the process.
Quotient(m, n) ==
    LET q == (IF m < 0 THEN -m ELSE m) \div (IF n < 0 THEN -n ELSE n)
    IN  IF (m < 0) = (n < 0) THEN q ELSE -q
Crash == [crash |-> TRUE]
Throw == [throw |-> TRUE]

Power(m, n) ==
    IF n >= 0 THEN m ^ n
    ELSE IF m = 1 \/ (m = -1 /\ n % 2 = 0) THEN 1 ELSE IF m = -1 THEN -1 ELSE 0

Arithmetic(op, m, n) ==
    CASE op = "+" -> Numeric(m + n)
      [] op = "-" -> Numeric(m - n)
      [] op = "*" -> Numeric(m * n)
      [] op = "^" -> Numeric(Power(m, n))
      [] op = "/" -> IF n = 0 THEN Crash ELSE Numeric(Quotient(m, n))

Within(s, t) ==
    LET at == {i \in 1..Len(t) : i + Len(s) - 1 <= Len(t) /\ SubSeq(t, i, i + Len(s) - 1) = s}
    IN  IF s = <<>> \/ at = {} THEN Undefined
        ELSE Numeric(CHOOSE i \in at : \A j \in at : i <= j)

\* A negative count is a very large one to substr.
LeftFrom(s, n) == String(IF n < 0 \/ n > Len(s) THEN s ELSE SubSeq(s, 1, n))

\* Nothing stands before the first character: substr throws.
RightFrom(s, n) == IF n <= 0 THEN Throw ELSE String(SubSeq(s, n, Len(s)))

\* What two operands come to, both converted; undefined if one of them is.
OnNumbers(op, v, w) ==
    IF IsDefined(v) /\ IsDefined(w) THEN Arithmetic(op, v.number, w.number) ELSE Undefined
OnStrings(v, w) ==
    IF IsDefined(v) /\ IsDefined(w) THEN String(v.string \o w.string) ELSE Undefined

\* 'within', 'leftfrom' and 'rightfrom' go no further than text.
Surgery(op, v, w) ==
    LET s == StringOf(v)
    IN  IF IsList(v) \/ (op = "within" /\ IsList(w)) \/ ~IsDefined(s) THEN Undefined
        ELSE IF op = "within"
             THEN IF IsDefined(StringOf(w)) THEN Within(s.string, StringOf(w).string) ELSE Undefined
        ELSE IF ~IsDefined(NumberOf(w)) THEN Undefined
        ELSE IF op = "leftfrom" THEN LeftFrom(s.string, NumberOf(w).number)
                                ELSE RightFrom(s.string, NumberOf(w).number)

\* UnaryOperator::evaluate, of a plain value; OP_RANDOM is not here.
Unary(op, v) ==
    CASE op = "chs"     -> IF IsDefined(NumberOf(v)) THEN Numeric(-NumberOf(v).number) ELSE Undefined
      [] op = "numeric" -> NumberOf(v)
      [] op = "not"     -> Boolean(~IsTrueEnough(v))
      [] op = "string"  -> StringOf(v)
      [] op = "length"  -> IF IsList(v) THEN Numeric(ListLength(v))
                           ELSE IF IsDefined(StringOf(v)) THEN Numeric(Len(StringOf(v).string))
                           ELSE Undefined
      [] op = "head"    -> HeadOf(v)
      [] op = "tail"    -> TailOf(v)
=============================================================================
