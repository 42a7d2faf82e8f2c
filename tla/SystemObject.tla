----------------------------- MODULE SystemObject -----------------------------
(***************************************************************************)
(* What the objects of a game say to 'system' (SystemObject.cc): a         *)
(* conversation in stages, of one message after another or of one list,    *)
(* that fills the sorter (SystemSorter.cc) and the parser, asks them, and  *)
(* saves and loads the universe of which the system object is a part.      *)
(***************************************************************************)
EXTENDS SystemParser, Bags

CONSTANTS
    Objects,      \* who may speak to 'system'
    Openings,     \* what has been said, by whom, when the player comes in
    Sayings,      \* <<sender, message>>: what may be said after that
    MaxMessages   \* bound: how much of it is said

Undefined == [undefined |-> TRUE]
Simple  == [message : STRING] \cup [text : Seq(Seq(DOMAIN Spellings))] \cup {Undefined}
Message == Simple \cup [list : Seq(Simple)]

ASSUME MessagesAssumption ==
    /\ \A x \in Sayings : x \in Objects \X Message
    /\ \A opening \in Openings : opening \in Seq(Objects \X Message)
    /\ MaxMessages \in Nat

VARIABLES
    system,    \* the system object of the universe
    file,      \* the system object in the saved universe; <<>> without one
    debug,     \* the flags of the process
    reply,     \* what the last sender got
    said

vars == <<system, file, debug, reply, said>>

States == {"IDLING", "INIT SORTER", "OPEN SORTER", "CLOSE SORTER", "NEXT SORTED", "PLAYER CMD",
           "NORMALIZE", "OPEN PARSER", "VERB LIST", "NOUN LIST", "CLOSE PARSER", "INIT PARSER",
           "WHICH OBJECT", "ROLL CALL", "PRESENT", "PARSE", "NEXT OBJECT", "DEBUG MESSAGES",
           "DEBUG EXPRESSIONS", "DEBUG STATEMENTS", "SAVE STATE", "LOAD STATE", "BANNER"}
Flags == {"DEBUG MESSAGES", "DEBUG EXPRESSIONS", "DEBUG STATEMENTS"}

Msg(s)  == [message |-> s]
Text(t) == [text |-> t]
Truth(b) == [boolean |-> b]
IsState(m) == "message" \in DOMAIN m /\ m.message \in States
IsText(m)  == "text" \in DOMAIN m

NewSystem == [state |-> "IDLING", sorter |-> EmptyBag, parser |-> NewParser]

----------------------------------------------------------------------------
(* A world is what a message may change: 'me' is the object that listens,   *)
(* which after a load is no longer that of the universe.                    *)

Universe(w) == IF w.fresh = <<>> THEN w.me ELSE w.fresh[1]
Enters(w, s)   == [w EXCEPT !.me.state = s, !.reply = Undefined]
Replies(w, v) == [w EXCEPT !.me.state = "IDLING", !.reply = v]

\* nextSorted
NextSorted(w) ==
    LET all == BagToSet(w.me.sorter)
        lowest == CHOOSE t \in all : \A u \in all : u = t \/ TextLess(t, u)
    IN  IF all = {} THEN Replies(w, Undefined)
        ELSE [Replies(w, Text(<<lowest>>)) EXCEPT !.me.sorter = @ (-) SetToBag({lowest})]

\* What is taken from the front; the history of a match is not part of it.
NextObject(w) ==
    LET items == w.me.parser.parsed
        v == Head(items)
    IN  IF items = <<>> THEN Replies(w, Undefined)
        ELSE [Replies(w, IF "word" \in DOMAIN v THEN v ELSE [object |-> v.object])
              EXCEPT !.me.parser.parsed = Tail(@)]

Toggled(w, flag) ==
    [Replies(w, Truth(flag \notin w.debug)) EXCEPT
        !.debug = IF flag \in @ THEN @ \ {flag} ELSE @ \cup {flag}]

\* IDLING: a message that is no instruction is not understood.
Idling(w, m, sender) ==
    LET s == m.message
    IN  IF ~IsState(m) THEN [w EXCEPT !.reply = Undefined]
        ELSE CASE s = "INIT SORTER" -> [Enters(w, "OPEN SORTER") EXCEPT !.me.sorter = EmptyBag]
               [] s = "NEXT SORTED" -> NextSorted(w)
               [] s = "INIT PARSER" -> [Enters(w, "OPEN PARSER") EXCEPT !.me.parser = NewParser]
               [] s = "ROLL CALL"   -> [Replies(w, Undefined) EXCEPT !.me.parser.proximate = {}]
               [] s = "PRESENT"     -> [Replies(w, Undefined) EXCEPT !.me.parser.proximate = @ \cup {sender}]
               [] s = "NORMALIZE"   -> Replies(w, [words |-> w.me.parser.normalized])
               [] s = "NEXT OBJECT" -> NextObject(w)
               [] s \in Flags       -> Toggled(w, s)
               [] s \in {"PARSE", "CLOSE SORTER", "CLOSE PARSER", "VERB LIST", "NOUN LIST"} ->
                      Replies(w, Undefined)
               [] OTHER -> Enters(w, s)   \* what waits for more

\* A bug: whatever figureState_ found is kept.
SortingHeedsAll(w, m) ==
    IF IsState(m) THEN Enters(w, IF m.message = "CLOSE SORTER" THEN "IDLING" ELSE m.message)
    ELSE [w EXCEPT !.reply = m]

Sorting(w, m) ==
    IF IsState(m) THEN Enters(w, IF m.message = "CLOSE SORTER" THEN "IDLING" ELSE "OPEN SORTER")
    ELSE IF IsText(m) THEN [w EXCEPT !.me.sorter = @ (+) SetToBag({FlattenSeq(m.text)}), !.reply = m]
    ELSE [w EXCEPT !.reply = Undefined]

Learning(w, m, sender) ==
    CASE m = Msg("CLOSE PARSER") -> [Enters(w, "IDLING") EXCEPT !.me.parser = Close(@)]
      [] m = Msg("VERB LIST")    -> [Enters(w, "OPEN PARSER") EXCEPT !.me.parser.mode = "verbs"]
      [] m = Msg("NOUN LIST")    -> [Enters(w, "OPEN PARSER") EXCEPT !.me.parser.mode = "nouns"]
      [] IsText(m) -> [Enters(w, "OPEN PARSER") EXCEPT !.me.parser = AddParseable(@, sender, m.text)]
      [] OTHER -> Enters(w, "OPEN PARSER")

PlayerCommand(w, text) == [Enters(w, "IDLING") EXCEPT !.me.parser = Parse(@, text)]

WhichObject(w, text) ==
    LET p == w.me.parser
        a == Asked(p, text)
    IN  [Replies(w, IF Len(a.items) = 1 /\ "object" \in DOMAIN a.items[1]
                 THEN [object |-> a.items[1].object] ELSE Undefined)
         EXCEPT !.me.parser.heard = <<Hearing(p, "noun", a.words, a.items)>>]

\* The state is left before the universe is written.
SaveState(w, written) ==
    LET idle == Replies(w, Truth(written))
    IN  IF written THEN [idle EXCEPT !.file = <<Universe(idle)>>] ELSE idle

\* resetSystem_ is for the object that was there before.
LoadState(w) ==
    IF w.file = <<>> THEN Replies(w, Truth(FALSE))
    ELSE [w EXCEPT !.me = NewSystem, !.fresh = w.file, !.reply = Truth(TRUE)]

\* interpret_: by the state, which an argument that is no text only ends.
Interpret(w, m, sender, written) ==
    LET s == w.me.state
    IN  CASE s = "IDLING"      -> Idling(w, m, sender)
          [] s = "OPEN SORTER" -> Sorting(w, m)
          [] s = "OPEN PARSER" -> Learning(w, m, sender)
          [] s = "PLAYER CMD"   /\ IsText(m) -> PlayerCommand(w, m.text)
          [] s = "WHICH OBJECT" /\ IsText(m) -> WhichObject(w, m.text)
          [] s = "SAVE STATE"   /\ IsText(m) -> SaveState(w, written)
          [] s = "LOAD STATE"   /\ IsText(m) -> LoadState(w)
          [] OTHER -> Enters(w, "IDLING")

\* executeDefaultMethod: a list is one conversation in one send.
Told(w, m, sender, written) ==
    FoldLeft(LAMBDA x, each : Interpret(x, each, sender, written), w,
             IF "list" \in DOMAIN m THEN m.list ELSE <<m>>)

----------------------------------------------------------------------------
(* The conversation. *)

World(s, f, d) == [me |-> s, fresh |-> <<>>, file |-> f, debug |-> d, reply |-> Undefined]

Opened(opening) ==
    Universe(FoldLeft(LAMBDA w, x : Told(w, x[2], x[1], FALSE), World(NewSystem, <<>>, {}), opening))

Init == /\ \E opening \in Openings : system = Opened(opening)
        /\ file = <<>> /\ debug = {} /\ reply = Undefined /\ said = 0

\* Any object may speak at any time, whoever is in the middle of something.
Say(sender, m) ==
    /\ said < MaxMessages /\ said' = said + 1
    /\ \E written \in BOOLEAN :
         LET w == Told(World(system, file, debug), m, sender, written)
         IN  /\ system' = Universe(w) /\ file' = w.file
             /\ debug' = w.debug /\ reply' = w.reply

\* The universe is also written between two messages, while the game waits for
\* the player, and a process that starts again reads it back.
Checkpoint == /\ file # <<system>> /\ said < MaxMessages
              /\ file' = <<system>>
              /\ UNCHANGED <<system, debug, reply, said>>

Restart == /\ file # <<>> /\ said < MaxMessages
           /\ system' = file[1] /\ debug' = {} /\ reply' = Undefined
           /\ UNCHANGED <<file, said>>

Next == \/ \E x \in Sayings : Say(x[1], x[2])
        \/ Checkpoint
        \/ Restart

Spec == Init /\ [][Next]_vars

----------------------------------------------------------------------------
(* Properties. *)

\* Between two messages, also after a restart in the middle of a conversation,
\* the system is where it can hear the next one: what it says it "unexpectedly
\* found" (SystemObject.cc:186-192, 217-224, 291-305) is never found.
AlwaysListening ==
    system.state \in {"IDLING", "OPEN SORTER", "OPEN PARSER", "PLAYER CMD", "WHICH OBJECT",
                      "SAVE STATE", "LOAD STATE", "BANNER"}

Heard == ToSet(system.parser.heard)

Known(h, kind) == IF kind = "verb" THEN h.verbs ELSE h.nouns
Matched(item, kind) == "object" \in DOMAIN item /\ item.kind = kind

\* The words an item stands for, and what each word became.
Covered(item) == IF "word" \in DOMAIN item THEN <<item.word>> ELSE item.match.words
WordsOf(items) == FlattenSeq([i \in DOMAIN items |-> Covered(items[i])])
Fates(items) == FlattenSeq([i \in DOMAIN items |-> [k \in DOMAIN Covered(items[i]) |-> items[i]]])

KeepsWords(h) ==
    /\ WordsOf(h.items) = h.words
    /\ \A kind \in {"verb", "noun"} : \A i \in DOMAIN h.items :
          Matched(h.items[i], kind) =>
              \E m \in Known(h, kind) : m.words = h.items[i].match.words /\ m.id = h.items[i].object

\* A command comes out of the parser with every word of it but the articles,
\* in the order they were typed, each as itself or in exactly one of the phrases
\* that objects took the place of, and a phrase was one its object, or a namesake
\* of it, sent (SystemParser.cc:139-176, 200-202).
EveryWordIsHeard == \A h \in Heard : KeepsWords(h)

TypedAt(words, phrase, i) == SubSeq(words, i, i + Len(phrase) - 1) = phrase

Won(h, m, kind, i) ==
    LET fate(j) == Fates(h.items)[i + j - 1]
    IN  \/ \E k \in DOMAIN h.items : Matched(h.items[k], kind) /\ h.items[k].match.words = m.words
        \/ \E j \in DOMAIN m.words :
              "object" \in DOMAIN fate(j) /\ (fate(j).kind # kind => fate(j).kind = h.first)
                                          /\ (fate(j).kind = kind => fate(j).match.size >= m.size)

\* While the vocabulary is as one CLOSE PARSER made it, the longest phrase wins:
\* where a phrase was typed, none of its words went to a shorter phrase of its
\* kind, and not all of them went to nothing, unless the phrase was found
\* elsewhere too or the kind tried first took a word of it
\* (SystemParser.cc:79-85, 102-115).
LongestPhraseWins ==
    \A h \in Heard : h.whole =>
        \A kind \in {"verb", "noun"} : \A m \in Known(h, kind) :
        \A i \in 1..(Len(h.words) - Len(m.words) + 1) :
            TypedAt(h.words, m.words, i) => Won(h, m, kind, i)

NamesakeIsChosen(h) ==
    \A i \in DOMAIN h.items :
        Matched(h.items[i], "noun") /\ h.items[i].object \notin h.near =>
            \A m \in h.nouns : m.words = h.items[i].match.words /\ m.id \in h.near =>
                \E k \in DOMAIN h.items \ {i} : "object" \in DOMAIN h.items[k] /\ h.items[k].object = m.id

\* SystemParser.hh:43-44: "If another, non-present object has its same name, the
\* parser will choose the present one."  One that the command names already need
\* not be chosen a second time.
PresentNamesakeIsChosen == \A h \in Heard : NamesakeIsChosen(h)

\* It does while the vocabulary is as one CLOSE PARSER made it, and no phrase of
\* another number of words sorts between two spellings of the same name.
NearestNamesakeIsChosen ==
    \A h \in Heard : h.whole /\ h.together => NamesakeIsChosen(h)
=============================================================================
