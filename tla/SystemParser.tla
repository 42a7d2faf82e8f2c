----------------------------- MODULE SystemParser -----------------------------
(***************************************************************************)
(* The player's words (SystemParser.cc): the vocabulary the objects send   *)
(* in, and commands matched against it.  A text is a sequence of slots,    *)
(* what stands between the bars of "get|pick up"; a slot is a sequence of  *)
(* spellings.  Two spellings may be one word, and one may be none.         *)
(***************************************************************************)
EXTENDS Integers, Sequences, SequencesExt, FiniteSets

CONSTANT
    Spellings   \* what one may type between blanks, in the order of texts:
                \* [size |-> characters, word |-> the word it is, or ""]

ASSUME SpellingsAssumption == Spellings \in Seq([size : Nat, word : STRING])

Fillers == {"a", "an", "the"}

\* unpunctuated() and lowercase(), read by words.
Word(i) == LET w == Spellings[i].word IN IF w = "" THEN <<>> ELSE <<w>>
Words(slot) == FlattenSeq([i \in DOMAIN slot |-> Word(slot[i])])

Size(slot) == FoldLeft(LAMBDA n, i : n + Spellings[i].size, Len(slot) - 1, slot)

TextLess(s, t) ==
    \E i \in 1..Len(t) :
        /\ i <= Len(s) + 1 /\ SubSeq(s, 1, i - 1) = SubSeq(t, 1, i - 1)
        /\ i <= Len(s) => s[i] < t[i]

NewParser ==
    [mode |-> "verbs", proximate |-> {}, verbs |-> <<>>, nouns |-> <<>>,
     verbMatches |-> <<>>, nounMatches |-> <<>>, normalized |-> <<>>, parsed |-> <<>>,
     closings |-> 0,     \* history: how often close() was called
     together |-> TRUE,  \* history: whether the last time all names stood together
     heard |-> <<>>]     \* history: the last words matched, and with what outcome

----------------------------------------------------------------------------
(* The vocabulary. *)

AddParseable(p, sender, text) ==
    [p EXCEPT ![p.mode] = @ \o [i \in DOMAIN text |-> [slot |-> text[i], size |-> Size(text[i]), id |-> sender]]]

LongestPhraseFirst(p, q) ==
    IF p.size = q.size THEN TextLess(q.slot, p.slot) ELSE p.size > q.size

\* list::sort leaves equal elements in their order.
Sorted(list) ==
    LET before(i, j) == \/ LongestPhraseFirst(list[i], list[j])
                        \/ i < j /\ ~LongestPhraseFirst(list[j], list[i])
        place == [i \in DOMAIN list |-> Cardinality({j \in DOMAIN list : before(j, i)}) + 1]
    IN  [n \in DOMAIN list |-> list[CHOOSE i \in DOMAIN list : place[i] = n]]

\* A slot without words would match everywhere.
Phrase(named) ==
    LET words == Words(named.slot)
    IN  IF words = <<>> THEN <<>> ELSE <<[words |-> words, id |-> named.id, size |-> named.size]>>
Phrases(list) == FlattenSeq([i \in DOMAIN list |-> Phrase(list[i])])

\* A phrase of another number of words is never sorted between two of the same
\* words, which is what the search for a near namesake counts on.
StandTogether(names) ==
    \A a, b \in names :
        LongestPhraseFirst(a, b) /\ Len(Words(b.slot)) \notin {0, Len(Words(a.slot))} =>
            \A c \in names : LongestPhraseFirst(b, c) => Words(c.slot) # Words(a.slot)

\* A bug: phrases are tried in the order the objects sent them.
CloseUnsorted(p) ==
    [p EXCEPT !.verbMatches = @ \o Phrases(p.verbs), !.nounMatches = @ \o Phrases(p.nouns),
              !.closings = @ + 1, !.together = StandTogether(ToSet(p.nouns))]

\* All that was received so far, sorted, goes after what is there.
Close(p) ==
    LET verbs == Sorted(p.verbs)
        nouns == Sorted(p.nouns)
    IN  [p EXCEPT !.verbs = verbs, !.verbMatches = @ \o Phrases(verbs),
                  !.nouns = nouns, !.nounMatches = @ \o Phrases(nouns), !.closings = @ + 1,
                  !.together = StandTogether(ToSet(p.nouns))]

----------------------------------------------------------------------------
(* Matching.  An item is a word, or the object that took the place of some. *)

\* Where the phrase begins for the first time; 0 if it does not.
At(items, phrase) ==
    LET found == {i \in DOMAIN items : /\ i + Len(phrase) - 1 <= Len(items)
                                       /\ \A j \in DOMAIN phrase : items[i + j - 1] = [word |-> phrase[j]]}
    IN  IF found = {} THEN 0 ELSE CHOOSE i \in found : \A j \in found : i <= j

\* A bug: the end of the match is taken to be its last word.
ReplacedButLast(items, i, match, id, kind) ==
    SubSeq(items, 1, i - 1) \o <<[object |-> id, match |-> match, kind |-> kind]>>
        \o SubSeq(items, i + Len(match.words) - 1, Len(items))

\* 'match' is history.
Replaced(items, i, match, id, kind) ==
    SubSeq(items, 1, i - 1) \o <<[object |-> id, match |-> match, kind |-> kind]>>
        \o SubSeq(items, i + Len(match.words), Len(items))

MatchVerbs(p, items) ==
    FoldLeft(LAMBDA its, m : IF At(its, m.words) = 0 THEN its
                             ELSE Replaced(its, At(its, m.words), m, m.id, "verb"),
             items, p.verbMatches)

\* A bug: the first entry wins, wherever its object is.
FirstNamed(p, k) == p.nounMatches[k].id

\* The next entries with as many words are looked through for a near namesake.
Nearest(p, k) ==
    LET list == p.nounMatches
        n == Len(list[k].words)
        near == {j \in k+1..Len(list) : /\ list[j].words = list[k].words /\ list[j].id \in p.proximate
                                        /\ \A i \in k+1..j : Len(list[i].words) = n}
    IN  IF list[k].id \in p.proximate \/ near = {} THEN list[k].id
        ELSE list[CHOOSE j \in near : \A i \in near : j <= i].id

MatchNouns(p, items) ==
    FoldLeft(LAMBDA its, k : LET m == p.nounMatches[k]
                             IN  IF At(its, m.words) = 0 THEN its
                                 ELSE Replaced(its, At(its, m.words), m, Nearest(p, k), "noun"),
             items, [k \in DOMAIN p.nounMatches |-> k])

Significant(words) ==
    FlattenSeq([i \in DOMAIN words |-> IF words[i] \in Fillers THEN <<>> ELSE <<words[i]>>])
Items(words) == LET s == Significant(words) IN [i \in DOMAIN s |-> [word |-> s[i]]]

\* History: what the matching made of which words, when who was near.
Hearing(p, first, words, items) ==
    [first |-> first, words |-> Significant(words), items |-> items, near |-> p.proximate,
     verbs |-> ToSet(p.verbMatches), nouns |-> ToSet(p.nounMatches), whole |-> p.closings = 1,
     together |-> p.together]

Parse(p, text) ==
    LET words == Words(FlattenSeq(text))
        items == MatchNouns(p, MatchVerbs(p, Items(words)))
    IN  [p EXCEPT !.normalized = words, !.parsed = items, !.heard = <<Hearing(p, "verb", words, items)>>]

\* whichObject: nouns first.  Its result is the one item that is left.
Asked(p, text) ==
    LET words == Words(FlattenSeq(text))
    IN  [words |-> words, items |-> MatchVerbs(p, MatchNouns(p, Items(words)))]
=============================================================================
