------------------------------- MODULE Turn -------------------------------
(***************************************************************************)
(* run_turn_collecting (update_universe.cc) and TurnInput: a turn of the   *)
(* game runs until it asks for an answer it was not given; the universe is *)
(* then put back, the driver gets one more answer from the player, and the *)
(* turn is run again from the top.  Random numbers come from a generator   *)
(* whose state the universe carries (Universe.cc, Random.hh).  The driver  *)
(* saves and loads between turns, and while one is asking (wasm_api.cc).   *)
(***************************************************************************)
EXTENDS Naturals, Sequences, SequencesExt

CONSTANTS
    Answers, Declined, Eof, NoSeed, Period,
    MaxAnswers,   \* bound: answers given to one turn
    MaxEvents,    \* bound: what a game is known to have done when a turn begins
    MaxOps        \* bound: operations of one turn

ASSUME TurnAssumption ==
    /\ Period \in Nat \ {0} /\ NoSeed \notin 0..Period-1
    /\ Declined \notin Answers /\ Eof \notin Answers
    /\ MaxAnswers \in Nat \ {0} /\ {MaxEvents, MaxOps} \subseteq Nat

VARIABLES
    game,       \* what one turn of this game does
    universe,   \* what a save of the universe would hold: what the game has
                \* done, %seed, and ended_
    rng,        \* random_ and seeded_, which no save holds
    saved,      \* the last save
    snapshot,   \* run_turn_collecting's snapshot
    input,      \* its TurnInput
    at,         \* the operation of the turn that comes next
    status,     \* "rest", "running", "asks", "complete", "error"
    shown       \* history: what the last attempt at this turn did before it asked

vars == <<game, universe, rng, saved, snapshot, input, at, status, shown>>

Operations == {"line", "key", "draw", "stop", "fail"}
Items      == BoundedSeq(Answers \cup {Declined}, MaxAnswers)
Events     == Operations \X (Answers \cup {Eof} \cup 0..Period-1)
Universes  == [done : Seq(Events), seed : 0..Period-1 \cup {NoSeed}, ended : BOOLEAN]
Unplayed   == [done |-> <<>>, seed |-> NoSeed, ended |-> FALSE]
NoInput    == [items |-> <<>>, next |-> 0, declined |-> FALSE]

TurnInput(items) == [items |-> items, next |-> 0, declined |-> FALSE]

NextState(s) == (s + 1) % Period
Odd(s) == s % 2 = 1

Init ==
    /\ game \in BoundedSeq(Operations, MaxOps)
    /\ universe = Unplayed /\ saved = Unplayed /\ snapshot = Unplayed
    /\ rng = [state |-> 0, seeded |-> FALSE]
    /\ input = NoInput /\ at = 0 /\ status = "rest" /\ shown = <<>>

----------------------------------------------------------------------------
(* The universe and its generator. *)

\* A bug: what the generator was when the universe was put back goes on.
GeneratorKept(u) == rng

\* loadSeed_: seeded_ says whether the universe came with a seed.
LoadSeed(u) ==
    IF u.seed = NoSeed THEN [rng EXCEPT !.seeded = FALSE]
    ELSE [state |-> u.seed, seeded |-> TRUE]

\* ensureSeeded, with s from the random device.
Seeded(u, s) == IF rng.seeded THEN u ELSE [u EXCEPT !.seed = s]
SeededRng(s) == IF rng.seeded THEN rng ELSE [state |-> s, seeded |-> TRUE]

\* A bug: the snapshot is taken before the universe is seeded.
SnapshotUnseeded(u, s) == u

\* The snapshot is taken of a universe that is seeded already.
Snapshot(u, s) == Seeded(u, s)

----------------------------------------------------------------------------
(* An attempt at a turn. *)

\* Dispatching into a universe that has ended throws.
Attempt(items) ==
    /\ \E s \in IF rng.seeded THEN {rng.state} ELSE 0..Period-1 :
         /\ universe' = Seeded(universe, s)
         /\ rng' = SeededRng(s)
         /\ snapshot' = Snapshot(universe, s)
    /\ input' = TurnInput(items)
    /\ at' = 1
    /\ status' = IF universe.ended THEN "error" ELSE "running"
    /\ UNCHANGED <<game, saved>>

Running(ops) == status = "running" /\ at <= Len(game) /\ game[at] \in ops

Does(event) == universe' = [universe EXCEPT !.done = Append(@, event)]

\* nextRandom and storeSeed_.  What the game does next depends on the draw.
Draw ==
    /\ Running({"draw"})
    /\ rng' = [rng EXCEPT !.state = NextState(@)]
    /\ universe' = [universe EXCEPT !.done = Append(@, <<"draw", rng'.state>>),
                                    !.seed = rng'.state]
    /\ at' = IF Odd(rng'.state) THEN at + 2 ELSE at + 1
    /\ UNCHANGED <<game, saved, snapshot, input, status, shown>>

Exhausted == input.next >= Len(input.items)
Item == input.items[input.next + 1]

\* A bug: declining answers one question only.
DeclineOnce ==
    /\ Running({"line", "key"})
    /\ ~Exhausted /\ Item = Declined
    /\ input' = [input EXCEPT !.next = @ + 1]
    /\ Does(<<game[at], Eof>>)
    /\ at' = at + 1
    /\ UNCHANGED <<game, rng, saved, snapshot, status, shown>>

\* A bug: items are counted off after declining, past the last one.
DeclineCounts ==
    /\ Running({"line", "key"})
    /\ \/ input.declined
       \/ ~input.declined /\ ~Exhausted /\ Item = Declined
    /\ input' = [input EXCEPT !.next = @ + 1, !.declined = TRUE]
    /\ Does(<<game[at], Eof>>)
    /\ at' = at + 1
    /\ UNCHANGED <<game, rng, saved, snapshot, status, shown>>

\* getLine and getKey: the player declined this question, or an earlier one.
ReadsEof ==
    /\ Running({"line", "key"})
    /\ \/ input.declined
       \/ ~input.declined /\ ~Exhausted /\ Item = Declined
    /\ input' = IF input.declined THEN input
                ELSE [input EXCEPT !.next = @ + 1, !.declined = TRUE]
    /\ Does(<<game[at], Eof>>)
    /\ at' = at + 1
    /\ UNCHANGED <<game, rng, saved, snapshot, status, shown>>

ReadsItem ==
    /\ Running({"line", "key"})
    /\ ~input.declined /\ ~Exhausted /\ Item # Declined
    /\ input' = [input EXCEPT !.next = @ + 1]
    /\ Does(<<game[at], Item>>)
    /\ at' = at + 1
    /\ UNCHANGED <<game, rng, saved, snapshot, status, shown>>

ThisTurn == SubSeq(universe.done, Len(snapshot.done) + 1, Len(universe.done))

\* A bug: the question is handed over with the turn half done.
AsksHalfWay ==
    /\ Running({"line", "key"})
    /\ ~input.declined /\ Exhausted
    /\ status' = "asks"
    /\ shown' = ThisTurn
    /\ UNCHANGED <<game, universe, rng, saved, snapshot, input, at>>

\* NeedsInput unwinds the turn, and the snapshot is loaded.
Asks ==
    /\ Running({"line", "key"})
    /\ ~input.declined /\ Exhausted
    /\ status' = "asks"
    /\ universe' = snapshot
    /\ rng' = LoadSeed(snapshot)
    /\ shown' = ThisTurn
    /\ UNCHANGED <<game, saved, snapshot, input, at>>

\* QuitGame is caught, and ends the game.
Stops ==
    /\ Running({"stop"})
    /\ universe' = [universe EXCEPT !.ended = TRUE]
    /\ status' = "complete"
    /\ UNCHANGED <<game, rng, saved, snapshot, input, at, shown>>

\* Any other exception is caught in arch_turn; nothing is put back.
Fails ==
    /\ Running({"fail"})
    /\ status' = "error"
    /\ UNCHANGED <<game, universe, rng, saved, snapshot, input, at, shown>>

Completes ==
    /\ status = "running" /\ at > Len(game)
    /\ status' = "complete"
    /\ UNCHANGED <<game, universe, rng, saved, snapshot, input, at, shown>>

----------------------------------------------------------------------------
(* The driver. *)

\* A turn begins with nothing in hand, or with a command.
Begin ==
    /\ status = "rest" /\ Len(universe.done) < MaxEvents
    /\ \E items \in BoundedSeq(Answers, 1) : Attempt(items)
    /\ shown' = <<>>

\* The player answers or declines, and the whole turn is run again.
Answer ==
    /\ status = "asks" /\ Len(input.items) < MaxAnswers
    /\ \E item \in Answers \cup {Declined} : Attempt(Append(input.items, item))
    /\ UNCHANGED shown

AtRest ==
    /\ status' = "rest"
    /\ snapshot' = Unplayed /\ input' = NoInput /\ at' = 0 /\ shown' = <<>>

\* The driver has taken the result, or the turn that asked is abandoned.
Rest ==
    /\ status \in {"asks", "complete", "error"}
    /\ AtRest
    /\ UNCHANGED <<game, universe, rng, saved>>

\* arch_save.
Save ==
    /\ status \in {"rest", "asks"}
    /\ saved' = universe
    /\ UNCHANGED <<game, universe, rng, snapshot, input, at, status, shown>>

\* arch_load: a universe of its own, whose generator was never used.
Load ==
    /\ status \in {"rest", "asks"}
    /\ universe' = saved
    /\ rng' = IF saved.seed = NoSeed THEN [state |-> 0, seeded |-> FALSE]
              ELSE [state |-> saved.seed, seeded |-> TRUE]
    /\ AtRest
    /\ UNCHANGED <<game, saved>>

Next ==
    \/ Begin \/ Answer \/ Rest \/ Save \/ Load
    \/ Draw \/ ReadsEof \/ ReadsItem \/ Asks \/ Stops \/ Fails \/ Completes

Spec == Init /\ [][Next]_vars

----------------------------------------------------------------------------
(* Properties. *)

TypeOK ==
    /\ game \in BoundedSeq(Operations, MaxOps)
    /\ {universe, saved, snapshot} \subseteq Universes
    /\ rng \in [state : 0..Period-1, seeded : BOOLEAN]
    /\ input \in [items : Items, next : Nat, declined : BOOLEAN]
    /\ input.next <= Len(input.items)
    /\ shown \in Seq(Events)
    /\ at \in 0..MaxOps+2
    /\ status \in {"rest", "running", "asks", "complete", "error"}

\* "A save taken at any moment resumes where the sequence actually stands"
\* (Universe.cc:490-492): the seed in the universe is the generator's state.
SeedIsCarried ==
    IF rng.seeded THEN universe.seed = rng.state ELSE universe.seed = NoSeed

\* Each attempt at a turn does what the one before it did, draw for draw, up to
\* the question it stopped at: the player is never shown a turn that is then
\* replaced by another (update_universe.cc:171-173).
ReplaysAgree ==
    status \in {"running", "asks", "complete"} =>
        LET now == IF status = "asks" THEN shown ELSE ThisTurn
        IN  IsPrefix(now, shown) \/ IsPrefix(shown, now)

\* "One declined answer is always enough to end a turn" (play.js:311-312).
DeclineEndsTheTurn == status = "asks" => Declined \notin ToSet(input.items)

\* Asking, putting back and running again amounts to playing whole turns, and
\* whatever is saved, while a question is up too, stands between two of them
\* (update_universe.hh:42-44, wasm_api.cc:82-86).
Whole == INSTANCE WholeTurn
             WITH world <- IF status = "running" THEN snapshot ELSE universe

TurnsHappenWhole == Whole!Spec
=============================================================================
