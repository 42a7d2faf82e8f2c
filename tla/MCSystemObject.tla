---------------------------- MODULE MCSystemObject ----------------------------
(* A small vocabulary for SystemObject, and what is said with it.             *)
EXTENDS SystemObject

Spelling(size, word) == [size |-> size, word |-> word]
MCSpellings ==
    << Spelling(1, ""), Spelling(4, "lamp"), Spelling(2, "at"), Spelling(5, "brass"),
       Spelling(7, "guards"), Spelling(4, "lamp"), Spelling(5, "light"), Spelling(4, "look"),
       Spelling(3, "the") >>
comma == 1  Lamp == 2  at == 3  brass == 4  guards == 5  lamp == 6  light == 7  look == 8  the == 9

\* Objects: two verbs, three things, and one that speaks for the game.
Verb1 == 11  Verb2 == 12  A == 21  B == 22  C == 23  Main == 31
MCObjects == {Verb1, Verb2, A, B, C, Main}

Vocabulary(nouns) ==
    << <<Main, Msg("INIT PARSER")>>, <<Main, Msg("VERB LIST")>>,
       <<Verb1, Text(<< <<light>>, <<look>> >>)>>, <<Verb2, Text(<< <<look, at>>, <<>> >>)>>,
       <<Main, Msg("NOUN LIST")>> >> \o nouns \o << <<Main, Msg("CLOSE PARSER")>> >>

MCOpenings ==
    { <<>>,
      Vocabulary(<< <<A, Text(<< <<lamp>>, <<brass, lamp>> >>)>>,
                    <<B, Text(<< <<guards, lamp>>, <<lamp>>, <<comma>> >>)>>,
                    <<C, Text(<< <<brass>>, <<light>>, <<lamp, light>> >>)>> >>),
      Vocabulary(<< <<A, Text(<< <<lamp>> >>)>>, <<B, Text(<< <<lamp, at>>, <<Lamp>> >>)>>,
                    <<C, Text(<< <<guards, lamp>>, <<light, lamp>> >>)>> >>) }

Command(words) == <<Main, [list |-> <<Msg("PLAYER CMD"), Text(<<words>>)>>]>>

MCSayings ==
    { <<a, Msg("PRESENT")>> : a \in {A, B, C} }
    \cup { <<Main, Msg(s)>> : s \in {"ROLL CALL", "WHICH OBJECT", "NEXT OBJECT", "OPEN PARSER", "NOUN LIST",
                                     "CLOSE PARSER", "OPEN SORTER", "INIT SORTER", "CLOSE SORTER", "NEXT SORTED",
                                     "BANNER", "NORMALIZE", "SAVE STATE", "DEBUG MESSAGES"} }
    \cup { Command(<<light, the, brass, lamp>>), Command(<<look, at, Lamp, comma, light>>),
           Command(<<look, guards, lamp, at, lamp>>), Command(<<light, lamp, brass, light, lamp>>) }
    \cup { <<Main, [list |-> <<Msg("WHICH OBJECT"), Text(<< <<the, lamp>> >>)>>]>>,
           <<Main, [list |-> <<Msg("LOAD STATE"), Text(<< <<lamp>> >>), Msg("INIT SORTER"), Undefined>>]>>,
           <<C, [list |-> <<Msg("OPEN PARSER"), Msg("NOUN LIST"), Text(<< <<lamp>>, <<brass, lamp>> >>),
                            Msg("CLOSE PARSER")>>]>>,
           <<B, Text(<< <<guards, lamp>>, <<light>> >>)>>, <<B, Undefined>> }
=============================================================================
