---------------------------- MODULE Turn_proofs ----------------------------
(***************************************************************************)
(* Proofs about Turn, for every set of answers, period and game: its       *)
(* types, that the seed is carried, that declining ends a turn, and that   *)
(* no attempt at a turn contradicts the one before it.                     *)
(***************************************************************************)
EXTENDS Turn, WellFoundedInduction, TLAPS

(* dispatch_to_universe seeds the universe before the game's first operation. *)
RunsSeeded == status = "running" => rng.seeded /\ at # 0

(* TurnInput has handed out no declined item until declined_ is set.       *)
NoneDeclinedSoFar ==
    ~input.declined => \A i \in 1..input.next : input.items[i] # Declined

IInv == TypeOK /\ SeedIsCarried /\ DeclineEndsTheTurn /\ RunsSeeded /\ NoneDeclinedSoFar

(* A bounded sequence is a sequence of at most that length.                *)
LEMMA BoundedIsSeq ==
    ASSUME NEW S, NEW n \in Nat, NEW s \in BoundedSeq(S, n)
    PROVE  s \in Seq(S) /\ Len(s) <= n
BY DEF BoundedSeq, SeqOf

(* And conversely.                                                         *)
LEMMA SeqIsBounded ==
    ASSUME NEW S, NEW n \in Nat, NEW s \in Seq(S), Len(s) <= n
    PROVE  s \in BoundedSeq(S, n)
<1>1. s \in [1..Len(s) -> S] /\ Len(s) \in 0..n
  OBVIOUS
<1> QED BY <1>1 DEF BoundedSeq, SeqOf

(* Where the type invariant holds, the parts of the state are what they are *)
(* named for.                                                              *)
LEMMA Parts ==
    ASSUME TypeOK
    PROVE  /\ universe \in Universes /\ saved \in Universes /\ snapshot \in Universes
           /\ game \in Seq(Operations) /\ Len(game) <= MaxOps
           /\ input.items \in Seq(Answers \cup {Declined})
           /\ Len(input.items) <= MaxAnswers
<1>1. MaxOps \in Nat /\ MaxAnswers \in Nat
  BY TurnAssumption
<1>2. game \in BoundedSeq(Operations, MaxOps) /\ input.items \in Items
  BY DEF TypeOK
<1>3. game \in Seq(Operations) /\ Len(game) <= MaxOps
  BY <1>1, <1>2, BoundedIsSeq
<1>4. input.items \in Seq(Answers \cup {Declined}) /\ Len(input.items) <= MaxAnswers
  BY <1>1, <1>2, BoundedIsSeq DEF Items
<1> QED BY <1>3, <1>4 DEF TypeOK

(* At the start nothing has been played.                                   *)
LEMMA Initially == Init => IInv
<1> SUFFICES ASSUME Init PROVE IInv
  OBVIOUS
<1>1. MaxOps \in Nat /\ MaxAnswers \in Nat /\ Period \in Nat \ {0}
  BY TurnAssumption
<1>2. Unplayed \in Universes
  BY DEF Unplayed, Universes
<1>3. NoInput.items \in Items
  <2>1. <<>> \in Seq(Answers \cup {Declined}) /\ Len(<<>>) <= MaxAnswers
    BY <1>1
  <2>2. <<>> \in BoundedSeq(Answers \cup {Declined}, MaxAnswers)
    BY <1>1, <2>1, SeqIsBounded
  <2> QED BY <2>2 DEF NoInput, Items
<1>4. TypeOK
  BY <1>1, <1>2, <1>3 DEF Init, TypeOK, NoInput
<1> QED BY <1>4 DEF IInv, Init, SeedIsCarried, DeclineEndsTheTurn, RunsSeeded,
                   NoneDeclinedSoFar, Unplayed, NoInput

(* What an attempt at a turn leaves behind, whatever the items in hand.    *)
LEMMA AttemptStep ==
    ASSUME IInv, NEW items \in Items, Attempt(items), shown' \in Seq(Events)
    PROVE  IInv'
<1>1. MaxOps \in Nat /\ Period \in Nat \ {0} /\ NoSeed \notin 0..Period-1
  BY TurnAssumption
<1>2. PICK s \in 0..Period-1 :
          /\ universe' = Seeded(universe, s)
          /\ rng' = SeededRng(s)
          /\ snapshot' = Seeded(universe, s)
  BY <1>1 DEF Attempt, IInv, TypeOK, Snapshot
<1>3. universe \in Universes /\ rng \in [state : 0..Period-1, seeded : BOOLEAN]
  BY Parts DEF IInv, TypeOK
<1>4. Seeded(universe, s) \in Universes
  BY <1>2, <1>3 DEF Seeded, Universes
<1>5. rng' \in [state : 0..Period-1, seeded : BOOLEAN] /\ rng'.seeded
  BY <1>2, <1>3 DEF SeededRng
<1>6. universe'.seed = rng'.state
  BY <1>2, <1>3 DEF Seeded, SeededRng, Universes, IInv, SeedIsCarried
<1>7. input' = [items |-> items, next |-> 0, declined |-> FALSE]
  BY DEF Attempt, TurnInput
<1>8. Len(items) \in Nat
  <2>1. items \in BoundedSeq(Answers \cup {Declined}, MaxAnswers)
    BY DEF Items
  <2>2. items \in Seq(Answers \cup {Declined})
    BY <2>1, BoundedIsSeq, TurnAssumption
  <2> QED BY <2>2
<1>9. status' \in {"running", "error"} /\ at' = 1 /\ UNCHANGED <<game, saved>>
  BY DEF Attempt
<1>10. TypeOK'
  BY <1>1, <1>2, <1>4, <1>5, <1>7, <1>8, <1>9 DEF TypeOK, IInv
<1>11. SeedIsCarried' /\ RunsSeeded'
  BY <1>5, <1>6, <1>9 DEF SeedIsCarried, RunsSeeded
<1>12. DeclineEndsTheTurn' /\ NoneDeclinedSoFar'
  BY <1>7, <1>9 DEF DeclineEndsTheTurn, NoneDeclinedSoFar
<1> QED BY <1>10, <1>11, <1>12 DEF IInv

(* The driver's steps.                                                     *)
LEMMA BeginStep == ASSUME IInv, Begin PROVE IInv'
<1>1. PICK items \in BoundedSeq(Answers, 1) : Attempt(items)
  BY DEF Begin
<1>2. items \in Items
  <2>1. items \in Seq(Answers) /\ Len(items) <= 1
    BY <1>1, BoundedIsSeq
  <2>2. items \in Seq(Answers \cup {Declined}) /\ Len(items) <= MaxAnswers
    BY <2>1, TurnAssumption
  <2> QED BY <2>2, SeqIsBounded, TurnAssumption DEF Items
<1>3. shown' \in Seq(Events)
  BY DEF Begin
<1> QED BY <1>1, <1>2, <1>3, AttemptStep

LEMMA AnswerStep == ASSUME IInv, Answer PROVE IInv'
<1>1. PICK item \in Answers \cup {Declined} : Attempt(Append(input.items, item))
  BY DEF Answer
<1>2. Append(input.items, item) \in Items
  <2>1. input.items \in Seq(Answers \cup {Declined}) /\ Len(input.items) < MaxAnswers
    BY Parts DEF IInv, Answer
  <2>2. /\ Append(input.items, item) \in Seq(Answers \cup {Declined})
        /\ Len(Append(input.items, item)) <= MaxAnswers
    BY <1>1, <2>1, TurnAssumption
  <2> QED BY <2>2, SeqIsBounded, TurnAssumption DEF Items
<1>3. shown' \in Seq(Events)
  BY DEF Answer, IInv, TypeOK
<1> QED BY <1>1, <1>2, <1>3, AttemptStep

(* Back at rest, nothing is left of the turn.                              *)
LEMMA RestStep ==
    ASSUME IInv, AtRest, UNCHANGED <<game, saved>>,
           universe' \in Universes, rng' \in [state : 0..Period-1, seeded : BOOLEAN],
           SeedIsCarried'
    PROVE  IInv'
<1>1. NoInput.items \in Items /\ NoInput = [items |-> <<>>, next |-> 0, declined |-> FALSE]
  <2>1. <<>> \in Seq(Answers \cup {Declined}) /\ Len(<<>>) <= MaxAnswers /\ MaxAnswers \in Nat
    BY TurnAssumption
  <2>2. <<>> \in BoundedSeq(Answers \cup {Declined}, MaxAnswers)
    BY <2>1, SeqIsBounded
  <2> QED BY <2>2 DEF NoInput, Items
<1>2. Unplayed \in Universes
  BY DEF Unplayed, Universes
<1>3. TypeOK'
  BY <1>1, <1>2, TurnAssumption DEF TypeOK, IInv, AtRest
<1>4. DeclineEndsTheTurn' /\ NoneDeclinedSoFar' /\ RunsSeeded'
  BY <1>1 DEF AtRest, DeclineEndsTheTurn, NoneDeclinedSoFar, RunsSeeded
<1> QED BY <1>3, <1>4 DEF IInv

LEMMA LoadStep == ASSUME IInv, Load PROVE IInv'
<1>1. universe' \in Universes /\ UNCHANGED <<game, saved>> /\ AtRest
  BY Parts DEF Load, IInv
<1>2. saved.seed \in 0..Period-1 \cup {NoSeed} /\ 0 \in 0..Period-1
  BY TurnAssumption, Parts DEF Universes, IInv
<1>3. rng' \in [state : 0..Period-1, seeded : BOOLEAN]
  BY <1>2 DEF Load
<1>4. SeedIsCarried'
  BY <1>2 DEF Load, SeedIsCarried
<1> QED BY <1>1, <1>3, <1>4, RestStep

LEMMA LeaveStep == ASSUME IInv, Rest PROVE IInv'
<1>1. universe' \in Universes /\ UNCHANGED <<game, saved, universe, rng>> /\ AtRest
  BY Parts DEF Rest, IInv
<1>2. rng' \in [state : 0..Period-1, seeded : BOOLEAN] /\ SeedIsCarried'
  BY <1>1 DEF IInv, TypeOK, SeedIsCarried
<1> QED BY <1>1, <1>2, RestStep

LEMMA SaveStep == ASSUME IInv, Save PROVE IInv'
<1>1. saved' = universe /\ UNCHANGED <<game, universe, rng, snapshot, input, at, status, shown>>
  BY DEF Save
<1>2. TypeOK'
  BY <1>1 DEF IInv, TypeOK
<1> QED BY <1>1, <1>2 DEF IInv, SeedIsCarried, DeclineEndsTheTurn, RunsSeeded, NoneDeclinedSoFar

(* What a step of the game tells: one more event, of those there are.      *)
LEMMA ToldIsEvent ==
    ASSUME IInv, NEW e \in Events, Does(e)
    PROVE  universe' \in Universes /\ universe'.seed = universe.seed
<1>1. universe \in Universes
  BY Parts DEF IInv
<1>2. Append(universe.done, e) \in Seq(Events)
  BY <1>1 DEF Universes
<1> QED BY <1>1, <1>2 DEF Does, Universes

LEMMA OpOfRunning ==
    ASSUME IInv, NEW ops, Running(ops)
    PROVE  /\ at \in 1..Len(game) /\ game[at] \in Operations
           /\ Len(game) \in Nat /\ Len(game) <= MaxOps
<1>1. game \in Seq(Operations) /\ Len(game) <= MaxOps
  BY Parts DEF IInv
<1>2. at \in Nat /\ at <= Len(game) /\ at # 0
  BY DEF Running, IInv, TypeOK, RunsSeeded
<1> QED BY <1>1, <1>2

LEMMA DrawStep == ASSUME IInv, Draw PROVE IInv'
<1>1. /\ Period \in Nat \ {0} /\ MaxOps \in Nat /\ NoSeed \notin 0..Period-1
  BY TurnAssumption
<1>2. /\ at \in 1..Len(game) /\ Len(game) \in Nat /\ Len(game) <= MaxOps
  BY OpOfRunning DEF Draw
<1>3. rng \in [state : 0..Period-1, seeded : BOOLEAN] /\ rng.seeded /\ universe \in Universes
  BY Parts DEF IInv, TypeOK, RunsSeeded, Draw, Running
<1>4. NextState(rng.state) \in 0..Period-1
  BY <1>1, <1>3 DEF NextState
<1>5. rng' \in [state : 0..Period-1, seeded : BOOLEAN] /\ rng'.seeded
  BY <1>3, <1>4 DEF Draw
<1>6. <<"draw", rng'.state>> \in Events
  BY <1>5 DEF Events, Operations
<1>7. universe' \in Universes /\ universe'.seed = rng'.state
  <2>1. Append(universe.done, <<"draw", rng'.state>>) \in Seq(Events)
    BY <1>3, <1>6 DEF Universes
  <2> QED BY <1>3, <1>5, <2>1 DEF Draw, Universes
<1>8. at' \in 1..MaxOps+2
  BY <1>1, <1>2 DEF Draw
<1>9. UNCHANGED <<game, saved, snapshot, input, status, shown>>
  BY DEF Draw
<1>10. TypeOK'
  BY <1>5, <1>7, <1>8, <1>9 DEF IInv, TypeOK
<1>11. SeedIsCarried' /\ RunsSeeded'
  BY <1>5, <1>7, <1>8 DEF SeedIsCarried, RunsSeeded
<1> QED BY <1>9, <1>10, <1>11 DEF IInv, DeclineEndsTheTurn, NoneDeclinedSoFar

LEMMA ReadsEofStep == ASSUME IInv, ReadsEof PROVE IInv'
<1>1. MaxOps \in Nat
  BY TurnAssumption
<1>2. /\ at \in 1..Len(game) /\ game[at] \in Operations
      /\ Len(game) \in Nat /\ Len(game) <= MaxOps
  BY OpOfRunning DEF ReadsEof
<1>3. <<game[at], Eof>> \in Events
  BY <1>2 DEF Events
<1>4. universe' \in Universes /\ universe'.seed = universe.seed
  BY <1>3, ToldIsEvent DEF ReadsEof
<1>5. /\ input' \in [items : Items, next : Nat, declined : BOOLEAN]
      /\ input'.declined /\ input'.items = input.items /\ input'.next <= Len(input.items)
  <2>1. input \in [items : Items, next : Nat, declined : BOOLEAN] /\ input.next <= Len(input.items)
    BY DEF IInv, TypeOK
  <2>2. Len(input.items) \in Nat
    BY Parts DEF IInv
  <2>3. CASE input.declined
    BY <2>1, <2>2, <2>3 DEF ReadsEof
  <2>4. CASE ~input.declined
    <3>1. input.next < Len(input.items) /\ input' = [input EXCEPT !.next = @ + 1, !.declined = TRUE]
      BY <2>1, <2>2, <2>4 DEF ReadsEof, Exhausted
    <3>2. input' = [items |-> input.items, next |-> input.next + 1, declined |-> TRUE]
      BY <2>1, <3>1
    <3>3. input.items \in Items /\ input.next \in Nat
      BY <2>1
    <3>4. input' \in [items : Items, next : Nat, declined : BOOLEAN]
      BY <3>2, <3>3
    <3>5. input'.next = input.next + 1 /\ input'.items = input.items
      BY <3>2
    <3>6. input'.declined = TRUE
      BY <3>2
    <3> QED BY <2>2, <3>1, <3>3, <3>4, <3>5, <3>6
  <2> QED BY <2>3, <2>4
<1>6. at' \in 1..MaxOps+2 /\ UNCHANGED <<game, rng, saved, snapshot, status, shown>>
  BY <1>1, <1>2 DEF ReadsEof
<1>7. TypeOK'
  BY <1>4, <1>5, <1>6 DEF IInv, TypeOK
<1>8. SeedIsCarried' /\ RunsSeeded'
  BY <1>4, <1>6 DEF IInv, SeedIsCarried, RunsSeeded
<1>9. DeclineEndsTheTurn' /\ NoneDeclinedSoFar'
  BY <1>5, <1>6 DEF ReadsEof, Running, DeclineEndsTheTurn, NoneDeclinedSoFar
<1> QED BY <1>7, <1>8, <1>9 DEF IInv

LEMMA ReadsItemStep == ASSUME IInv, ReadsItem PROVE IInv'
<1>1. MaxOps \in Nat
  BY TurnAssumption
<1>2. /\ at \in 1..Len(game) /\ game[at] \in Operations
      /\ Len(game) \in Nat /\ Len(game) <= MaxOps
  BY OpOfRunning DEF ReadsItem
<1>3. /\ input \in [items : Items, next : Nat, declined : BOOLEAN]
      /\ input.items \in Seq(Answers \cup {Declined}) /\ input.next < Len(input.items)
  BY Parts DEF IInv, TypeOK, ReadsItem, Exhausted
<1>4. Item \in Answers
  BY <1>3 DEF ReadsItem, Item
<1>5. universe' \in Universes /\ universe'.seed = universe.seed
  <2>1. <<game[at], Item>> \in Events
    BY <1>2, <1>4 DEF Events
  <2> QED BY <2>1, ToldIsEvent DEF ReadsItem
<1>6. /\ input' \in [items : Items, next : Nat, declined : BOOLEAN]
      /\ input'.items = input.items /\ input'.next = input.next + 1
      /\ input'.next <= Len(input.items)
  BY <1>3 DEF ReadsItem
<1>7. at' \in 1..MaxOps+2 /\ UNCHANGED <<game, rng, saved, snapshot, status, shown>>
  BY <1>1, <1>2 DEF ReadsItem
<1>8. TypeOK'
  BY <1>5, <1>6, <1>7 DEF IInv, TypeOK
<1>9. SeedIsCarried' /\ RunsSeeded'
  BY <1>5, <1>7 DEF IInv, SeedIsCarried, RunsSeeded
<1>10. NoneDeclinedSoFar'
  <2>1. input.items[input.next + 1] # Declined
    BY DEF ReadsItem, Item
  <2>2. \A i \in 1..input.next : input.items[i] # Declined
    BY DEF IInv, NoneDeclinedSoFar, ReadsItem
  <2> QED BY <1>3, <1>6, <2>1, <2>2 DEF NoneDeclinedSoFar
<1>11. DeclineEndsTheTurn'
  BY <1>7 DEF ReadsItem, Running, DeclineEndsTheTurn
<1> QED BY <1>8, <1>9, <1>10, <1>11 DEF IInv

(* Everything the turn was given has been handed out, and none declined.   *)
LEMMA AsksStep == ASSUME IInv, Asks PROVE IInv'
<1>1. universe \in Universes /\ snapshot \in Universes /\ input.items \in Seq(Answers \cup {Declined})
  BY Parts DEF IInv
<1>2. UNCHANGED <<game, saved, snapshot, input, at>> /\ status' = "asks" /\ universe' = snapshot
  BY DEF Asks
<1>3. shown' \in Seq(Events)
  <2>1. universe.done \in Seq(Events) /\ snapshot.done \in Seq(Events)
    BY <1>1 DEF Universes
  <2>2. ThisTurn \in Seq(Events)
    BY <2>1 DEF ThisTurn
  <2> QED BY <2>2 DEF Asks
<1>4. rng' \in [state : 0..Period-1, seeded : BOOLEAN] /\ SeedIsCarried'
  BY <1>1, <1>2 DEF Asks, LoadSeed, Universes, SeedIsCarried, IInv, TypeOK
<1>5. TypeOK'
  BY <1>1, <1>2, <1>3, <1>4 DEF IInv, TypeOK
<1>6. DeclineEndsTheTurn'
  <2>1. \A i \in 1..Len(input.items) : input.items[i] # Declined
    BY <1>1 DEF Asks, Exhausted, IInv, TypeOK, NoneDeclinedSoFar
  <2> QED BY <1>1, <1>2, <2>1 DEF DeclineEndsTheTurn, ToSet
<1> QED BY <1>2, <1>4, <1>5, <1>6 DEF IInv, RunsSeeded, NoneDeclinedSoFar

LEMMA EndStep == ASSUME IInv, Stops \/ Fails \/ Completes PROVE IInv'
<1>1. universe \in Universes
  BY Parts DEF IInv
<1>2. /\ UNCHANGED <<game, rng, saved, snapshot, input, at, shown>>
      /\ status' \in {"complete", "error"}
      /\ universe' \in {universe, [universe EXCEPT !.ended = TRUE]}
  BY DEF Stops, Fails, Completes
<1>3. universe' \in Universes /\ universe'.seed = universe.seed
  BY <1>1, <1>2 DEF Universes
<1>4. TypeOK'
  BY <1>2, <1>3 DEF IInv, TypeOK
<1> QED BY <1>2, <1>3, <1>4 DEF IInv, SeedIsCarried, DeclineEndsTheTurn, RunsSeeded,
                                NoneDeclinedSoFar

(* Every step keeps the invariant.                                         *)
LEMMA Inductive == IInv /\ [Next]_vars => IInv'
<1> SUFFICES ASSUME IInv, [Next]_vars PROVE IInv'
  OBVIOUS
<1>1. CASE UNCHANGED vars
  BY <1>1 DEF vars, IInv, TypeOK, SeedIsCarried, DeclineEndsTheTurn, RunsSeeded, NoneDeclinedSoFar
<1>2. CASE Begin
  BY <1>2, BeginStep
<1>3. CASE Answer
  BY <1>3, AnswerStep
<1>4. CASE Rest
  BY <1>4, LeaveStep
<1>5. CASE Save
  BY <1>5, SaveStep
<1>6. CASE Load
  BY <1>6, LoadStep
<1>7. CASE Draw
  BY <1>7, DrawStep
<1>8. CASE ReadsEof
  BY <1>8, ReadsEofStep
<1>9. CASE ReadsItem
  BY <1>9, ReadsItemStep
<1>10. CASE Asks
  BY <1>10, AsksStep
<1>11. CASE Stops \/ Fails \/ Completes
  BY <1>11, EndStep
<1> QED BY <1>1, <1>2, <1>3, <1>4, <1>5, <1>6, <1>7, <1>8, <1>9, <1>10, <1>11 DEF Next

(* The strengthened invariant holds of every reachable state.              *)
THEOREM Invariance == Spec => []IInv
BY Initially, Inductive, PTL DEF Spec

(* The state of the model is what it is declared to be, for every game.    *)
THEOREM TypeCorrect == Spec => []TypeOK
<1>1. IInv => TypeOK
  BY DEF IInv
<1> QED BY <1>1, Invariance, PTL

(* A save taken at any moment carries the generator's state                *)
(* (Universe.cc:488-495): it resumes where the sequence stands.            *)
THEOREM SeedIsCarriedHolds == Spec => []SeedIsCarried
<1>1. IInv => SeedIsCarried
  BY DEF IInv
<1> QED BY <1>1, Invariance, PTL

(* A turn that was declined an answer asks for nothing more                *)
(* (TurnInput.hh:36-40), so a driver can bring any turn to an end.         *)
THEOREM DeclineEndsTheTurnHolds == Spec => []DeclineEndsTheTurn
<1>1. IInv => DeclineEndsTheTurn
  BY DEF IInv
<1> QED BY <1>1, Invariance, PTL

----------------------------------------------------------------------------
(* Attempts agree.  What an attempt does is a path of points of the turn,  *)
(* each given by the one before it and the answers; one more answer leaves *)
(* the path as it was and lets it go on.                                   *)

(* Where an attempt is: the operation that comes next, the generator, the  *)
(* answers handed out, and whether one was declined (1) or not (0).        *)
Point(a, r, n, d) == [at |-> a, rand |-> r, next |-> n, dec |-> d]

Start(seed) == Point(1, seed, 0, 0)

PointNow == Point(at, rng.state, input.next, IF input.declined THEN 1 ELSE 0)

(* From p the game g, given these answers, tells e and goes on from q.     *)
TellsDraw(g, p, e, q) ==
    /\ g[p.at] = "draw"
    /\ e = <<"draw", NextState(p.rand)>>
    /\ q = Point(IF Odd(NextState(p.rand)) THEN p.at + 2 ELSE p.at + 1,
                 NextState(p.rand), p.next, p.dec)

TellsEofAgain(g, p, e, q) ==
    /\ g[p.at] \in {"line", "key"} /\ p.dec = 1
    /\ e = <<g[p.at], Eof>>
    /\ q = Point(p.at + 1, p.rand, p.next, 1)

TellsEof(g, items, p, e, q) ==
    /\ g[p.at] \in {"line", "key"} /\ p.dec = 0
    /\ p.next \in 0..Len(items)-1 /\ items[p.next + 1] = Declined
    /\ e = <<g[p.at], Eof>>
    /\ q = Point(p.at + 1, p.rand, p.next + 1, 1)

TellsItem(g, items, p, e, q) ==
    /\ g[p.at] \in {"line", "key"} /\ p.dec = 0
    /\ p.next \in 0..Len(items)-1 /\ items[p.next + 1] # Declined
    /\ e = <<g[p.at], items[p.next + 1]>>
    /\ q = Point(p.at + 1, p.rand, p.next + 1, 0)

Tells(g, items, p, e, q) ==
    \/ TellsDraw(g, p, e, q)
    \/ TellsEofAgain(g, p, e, q)
    \/ TellsEof(g, items, p, e, q)
    \/ TellsItem(g, items, p, e, q)

(* A turn of g that starts from a seed has told t and is at q.             *)
Along(g, items, seed, t, q, W) ==
    /\ W[1] = Start(seed) /\ W[Len(t) + 1] = q
    /\ \A i \in 1..Len(t) : Tells(g, items, W[i], t[i], W[i+1])

Path(g, items, seed, t, q) == \E W : Along(g, items, seed, t, q, W)

(* The same answers at the same point give the same event and point.       *)
LEMMA TellsOneThing ==
    ASSUME NEW g, NEW items, NEW p, NEW e, NEW q, NEW f, NEW r,
           Tells(g, items, p, e, q), Tells(g, items, p, f, r)
    PROVE  e = f /\ q = r
<1>1. CASE TellsDraw(g, p, e, q)
  <2>1. TellsDraw(g, p, f, r)
    BY <1>1 DEF Tells, TellsDraw, TellsEofAgain, TellsEof, TellsItem
  <2> QED BY <1>1, <2>1 DEF TellsDraw
<1>2. CASE TellsEofAgain(g, p, e, q)
  <2>1. TellsEofAgain(g, p, f, r)
    BY <1>2 DEF Tells, TellsDraw, TellsEofAgain, TellsEof, TellsItem
  <2> QED BY <1>2, <2>1 DEF TellsEofAgain
<1>3. CASE TellsEof(g, items, p, e, q)
  <2>1. TellsEof(g, items, p, f, r)
    BY <1>3 DEF Tells, TellsDraw, TellsEofAgain, TellsEof, TellsItem
  <2> QED BY <1>3, <2>1 DEF TellsEof
<1>4. CASE TellsItem(g, items, p, e, q)
  <2>1. TellsItem(g, items, p, f, r)
    BY <1>4 DEF Tells, TellsDraw, TellsEofAgain, TellsEof, TellsItem
  <2> QED BY <1>4, <2>1 DEF TellsItem
<1> QED BY <1>1, <1>2, <1>3, <1>4 DEF Tells

(* An answer more does not change what is told where the others suffice.   *)
LEMMA TellsTheSame ==
    ASSUME NEW S, NEW items \in Seq(S), NEW x, NEW g, NEW p, NEW e, NEW q,
           Tells(g, items, p, e, q)
    PROVE  Tells(g, Append(items, x), p, e, q)
<1> DEFINE more == Append(items, x)
<1>1. ASSUME p.next \in 0..Len(items)-1
      PROVE  p.next \in 0..Len(more)-1 /\ more[p.next + 1] = items[p.next + 1]
  <2>1. Len(more) = Len(items) + 1 /\ Len(items) \in Nat
    OBVIOUS
  <2>2. p.next + 1 \in 1..Len(items)
    BY <1>1, <2>1
  <2>3. more[p.next + 1] = items[p.next + 1]
    BY <2>2
  <2> HIDE DEF more
  <2> QED BY <1>1, <2>1, <2>3
<1> HIDE DEF more
<1>2. TellsEof(g, items, p, e, q) => TellsEof(g, more, p, e, q)
  BY <1>1 DEF TellsEof
<1>3. TellsItem(g, items, p, e, q) => TellsItem(g, more, p, e, q)
  BY <1>1 DEF TellsItem
<1>4. Tells(g, more, p, e, q)
  BY <1>2, <1>3 DEF Tells
<1> QED BY <1>4 DEF more

(* One more answer leaves what the turn has told so far as it was.          *)
LEMMA PathIsKept ==
    ASSUME NEW S, NEW items \in Seq(S), NEW x, NEW g, NEW seed, NEW t, NEW q,
           Path(g, items, seed, t, q)
    PROVE  Path(g, Append(items, x), seed, t, q)
<1>1. PICK W : Along(g, items, seed, t, q, W)
  BY DEF Path
<1>2. Along(g, Append(items, x), seed, t, q, W)
  BY <1>1, TellsTheSame DEF Along
<1> QED BY <1>2 DEF Path

(* A turn that has not told anything is at its start.                      *)
LEMMA PathStarts ==
    ASSUME NEW g, NEW items, NEW seed
    PROVE  Path(g, items, seed, <<>>, Start(seed))
<1> DEFINE W == [i \in 1..1 |-> Start(seed)]
<1>1. W[1] = Start(seed)
  OBVIOUS
<1>2. Len(<<>>) = 0
  OBVIOUS
<1> HIDE DEF W
<1>3. Along(g, items, seed, <<>>, Start(seed), W)
  BY <1>1, <1>2 DEF Along
<1> QED BY <1>3 DEF Path

(* One more thing told is one more point on the path.                      *)
LEMMA PathGoesOn ==
    ASSUME NEW S, NEW t \in Seq(S), NEW e \in S, NEW g, NEW items, NEW seed, NEW p, NEW q,
           Path(g, items, seed, t, p), Tells(g, items, p, e, q)
    PROVE  Path(g, items, seed, Append(t, e), q)
<1>1. PICK W : Along(g, items, seed, t, p, W)
  BY DEF Path
<1> DEFINE n == Len(t)
           u == Append(t, e)
           V == [i \in 1..n+2 |-> IF i = n + 2 THEN q ELSE W[i]]
<1>2. n \in Nat /\ Len(u) = n + 1 /\ u[n+1] = e /\ \A i \in 1..n : u[i] = t[i]
  OBVIOUS
<1>3. V[1] = W[1] /\ V[n+1] = W[n+1] /\ V[n+2] = q
  BY <1>2
<1>4. \A i \in 1..n : V[i] = W[i] /\ V[i+1] = W[i+1]
  BY <1>2
<1> HIDE DEF n, u, V
<1>5. W[1] = Start(seed) /\ W[n+1] = p /\ \A i \in 1..n : Tells(g, items, W[i], t[i], W[i+1])
  BY <1>1 DEF Along, n
<1>6. \A i \in 1..n+1 : Tells(g, items, V[i], u[i], V[i+1])
  <2> SUFFICES ASSUME NEW i \in 1..n+1
               PROVE  Tells(g, items, V[i], u[i], V[i+1])
    OBVIOUS
  <2>1. CASE i = n + 1
    <3>1. i + 1 = n + 2
      BY <1>2, <2>1
    <3> QED BY <1>2, <1>3, <1>5, <2>1, <3>1
  <2>2. CASE i \in 1..n
    BY <1>2, <1>4, <1>5, <2>2
  <2> QED BY <1>2, <2>1, <2>2
<1>7. Along(g, items, seed, u, q, V)
  <2>1. Len(u) + 1 = n + 2
    BY <1>2
  <2> QED BY <1>2, <1>3, <1>5, <1>6, <2>1 DEF Along
<1> QED BY <1>7 DEF Path, u

(* Two paths with the same answers from the same seed are one as far as    *)
(* the shorter goes.                                                       *)
LEMMA PathsAgree ==
    ASSUME NEW S, NEW s \in Seq(S), NEW t \in Seq(S), Len(s) <= Len(t),
           NEW g, NEW items, NEW seed, NEW q, NEW r,
           Path(g, items, seed, s, q), Path(g, items, seed, t, r)
    PROVE  IsPrefix(s, t)
<1>1. PICK W : Along(g, items, seed, s, q, W)
  BY DEF Path
<1>2. PICK V : Along(g, items, seed, t, r, V)
  BY DEF Path
<1> DEFINE n == Len(s)
           B == {i \in 1..n+1 : W[i] # V[i]}
<1>3. n \in Nat /\ \A i \in 1..n : i \in 1..Len(t)
  OBVIOUS
<1>4. W[1] = V[1]
  BY <1>1, <1>2 DEF Along
<1>5. \A i \in 1..n : /\ Tells(g, items, W[i], s[i], W[i+1])
                      /\ Tells(g, items, V[i], t[i], V[i+1])
  BY <1>1, <1>2, <1>3 DEF Along
<1> HIDE DEF n
<1>6. B = {}
  <2> SUFFICES ASSUME B # {}
               PROVE  FALSE
    OBVIOUS
  <2>1. B \in SUBSET Nat
    BY <1>3
  <2>2. PICK m \in B : \A i \in B : ~ (<<i, m>> \in OpToRel(<, Nat))
    BY <2>1, NatLessThanWellFounded, WFMin
  <2>3. m \in 1..n+1 /\ W[m] # V[m] /\ m # 1
    BY <1>4, <2>2
  <2>4. m-1 \in 1..n /\ m-1 < m /\ m-1 \in Nat /\ m \in Nat /\ (m-1)+1 = m
    BY <1>3, <2>3
  <2>5. m-1 \notin B
    <3>1. <<m-1, m>> \in OpToRel(<, Nat)
      BY <2>4 DEF OpToRel
    <3> HIDE DEF B
    <3> QED BY <2>2, <3>1
  <2>6. W[m-1] = V[m-1]
    BY <1>3, <2>4, <2>5
  <2>7. W[m] = V[m]
    BY <1>5, <2>4, <2>6, TellsOneThing
  <2> QED BY <2>3, <2>7
<1>7. \A i \in 1..n : s[i] = t[i]
  <2> SUFFICES ASSUME NEW i \in 1..n
               PROVE  s[i] = t[i]
    OBVIOUS
  <2>1. i \in 1..n+1
    BY <1>3
  <2>2. W[i] = V[i]
    BY <1>6, <2>1
  <2> QED BY <1>5, <2>2, TellsOneThing
<1>8. SubSeq(s, 1, n) = SubSeq(t, 1, n)
  BY <1>3, <1>7 DEF n
<1> QED BY <1>8 DEF IsPrefix, n

----------------------------------------------------------------------------
(* The invariant. *)

(* While a turn is being played, what it has told so far leads from the    *)
(* snapshot's seed to where it is now; and so does, to some point, what    *)
(* the attempt before it had told.  A turn that asks has been put back.    *)
NowIsAPath ==
    /\ snapshot.seed \in 0..Period-1
    /\ Len(snapshot.done) <= Len(universe.done)
    /\ Path(game, input.items, snapshot.seed, ThisTurn, PointNow)

ShownIsAPath == \E q : Path(game, input.items, snapshot.seed, shown, q)

PutBack == universe = snapshot /\ rng.seeded

RInv ==
    /\ status \in {"running", "complete"} => NowIsAPath
    /\ status \in {"running", "asks", "complete"} => ShownIsAPath
    /\ status = "asks" => PutBack

(* An attempt starts at the start, from the seed of the snapshot.          *)
LEMMA AttemptStarts ==
    ASSUME IInv, NEW items \in Items, Attempt(items)
    PROVE  /\ NowIsAPath'
           /\ rng.seeded => snapshot' = universe
<1>1. Period \in Nat \ {0} /\ NoSeed \notin 0..Period-1
  BY TurnAssumption
<1>2. PICK s \in 0..Period-1 :
          /\ universe' = Seeded(universe, s)
          /\ rng' = SeededRng(s)
          /\ snapshot' = Seeded(universe, s)
  BY <1>1 DEF Attempt, IInv, TypeOK, Snapshot
<1>3. universe \in Universes /\ rng \in [state : 0..Period-1, seeded : BOOLEAN]
  BY Parts DEF IInv, TypeOK
<1>4. snapshot' = universe' /\ snapshot'.done \in Seq(Events)
  BY <1>2, <1>3 DEF Seeded, Universes
<1>5. snapshot'.seed = rng'.state /\ rng'.state \in 0..Period-1
  BY <1>2, <1>3 DEF Seeded, SeededRng, Universes, IInv, SeedIsCarried
<1>6. at' = 1 /\ input' = [items |-> items, next |-> 0, declined |-> FALSE] /\ game' = game
  BY DEF Attempt, TurnInput
<1>7. PointNow' = Start(snapshot'.seed)
  BY <1>5, <1>6 DEF PointNow, Start, Point
<1>8. ThisTurn' = <<>>
  <2> DEFINE d == snapshot'.done
  <2>1. ThisTurn' = SubSeq(d, Len(d) + 1, Len(d)) /\ d \in Seq(Events)
    BY <1>4 DEF ThisTurn
  <2> HIDE DEF d
  <2>2. SubSeq(d, Len(d) + 1, Len(d)) = <<>>
    BY <2>1
  <2> QED BY <2>1, <2>2
<1>9. Path(game', input'.items, snapshot'.seed, ThisTurn', PointNow')
  BY <1>7, <1>8, PathStarts
<1>10. Len(snapshot'.done) <= Len(universe'.done)
  <2>1. Len(snapshot'.done) \in Nat
    BY <1>4
  <2> QED BY <1>4, <2>1
<1>11. rng.seeded => snapshot' = universe
  BY <1>2 DEF Seeded
<1> QED BY <1>5, <1>9, <1>10, <1>11 DEF NowIsAPath

(* A turn begins: it has told nothing and is at its start.                  *)
LEMMA BeginKeepsRInv == ASSUME IInv, Begin PROVE RInv'
<1>1. PICK items \in BoundedSeq(Answers, 1) : Attempt(items)
  BY DEF Begin
<1>2. items \in Items
  <2>1. items \in Seq(Answers) /\ Len(items) <= 1
    BY <1>1, BoundedIsSeq
  <2>2. items \in Seq(Answers \cup {Declined}) /\ Len(items) <= MaxAnswers
    BY <2>1, TurnAssumption
  <2> QED BY <2>2, SeqIsBounded, TurnAssumption DEF Items
<1>3. NowIsAPath'
  BY <1>1, <1>2, AttemptStarts
<1>4. ShownIsAPath'
  <2>1. shown' = <<>>
    BY DEF Begin
  <2>2. Path(game', input'.items, snapshot'.seed, shown', Start(snapshot'.seed))
    BY <2>1, PathStarts
  <2> QED BY <2>2 DEF ShownIsAPath
<1>5. status' # "asks"
  BY <1>1 DEF Attempt
<1> QED BY <1>3, <1>4, <1>5 DEF RInv

(* The turn is run again from where the last attempt began, with one       *)
(* answer more.                                                            *)
LEMMA AnswerKeepsRInv == ASSUME IInv, RInv, Answer PROVE RInv'
<1>1. PICK item \in Answers \cup {Declined} : Attempt(Append(input.items, item))
  BY DEF Answer
<1>2. input.items \in Seq(Answers \cup {Declined}) /\ Len(input.items) < MaxAnswers
  BY Parts DEF IInv, Answer
<1>3. Append(input.items, item) \in Items
  <2>1. /\ Append(input.items, item) \in Seq(Answers \cup {Declined})
        /\ Len(Append(input.items, item)) <= MaxAnswers
    BY <1>1, <1>2, TurnAssumption
  <2> QED BY <2>1, SeqIsBounded, TurnAssumption DEF Items
<1>4. NowIsAPath' /\ (rng.seeded => snapshot' = universe)
  BY <1>1, <1>3, AttemptStarts
<1>5. ShownIsAPath'
  <2>1. PutBack /\ ShownIsAPath
    BY DEF RInv, Answer
  <2>2. snapshot' = snapshot /\ shown' = shown /\ game' = game
    BY <1>1, <1>4, <2>1 DEF PutBack, Answer, Attempt
  <2>3. input'.items = Append(input.items, item)
    BY <1>1 DEF Attempt, TurnInput
  <2>4. PICK q : Path(game, input.items, snapshot.seed, shown, q)
    BY <2>1 DEF ShownIsAPath
  <2>5. Path(game, Append(input.items, item), snapshot.seed, shown, q)
    BY <1>2, <2>4, PathIsKept
  <2> QED BY <2>2, <2>3, <2>5 DEF ShownIsAPath
<1>6. status' # "asks"
  BY <1>1 DEF Attempt
<1> QED BY <1>4, <1>5, <1>6 DEF RInv

(* What follows the first m of a sequence grows with the sequence.          *)
LEMMA GrownTail ==
    ASSUME NEW S, NEW d \in Seq(S), NEW e \in S, NEW m \in Nat, m <= Len(d),
           NEW u, u = Append(d, e)
    PROVE  SubSeq(u, m + 1, Len(u)) = Append(SubSeq(d, m + 1, Len(d)), e)
<1> DEFINE n == Len(d)
           s == SubSeq(u, m + 1, n + 1)
           t == SubSeq(d, m + 1, n)
<1>1. n \in Nat /\ m <= n /\ Len(u) = n + 1 /\ u \in Seq(S)
  OBVIOUS
<1>2. \A i \in 1..n : u[i] = d[i]
  OBVIOUS
<1>3. u[n+1] = e
  OBVIOUS
<1> HIDE DEF n
<1>4. s \in Seq(S) /\ Len(s) = n + 1 - m /\ \A i \in 1..(n + 1 - m) : s[i] = u[m + i]
  BY <1>1 DEF n
<1>5. t \in Seq(S) /\ Len(t) = n - m /\ \A i \in 1..(n - m) : t[i] = d[m + i]
  BY <1>1 DEF n
<1> HIDE DEF s, t
<1>6. Append(t, e) \in Seq(S) /\ Len(Append(t, e)) = n + 1 - m
  BY <1>1, <1>5
<1>7. \A i \in 1..(n + 1 - m) : Append(t, e)[i] = s[i]
  <2> SUFFICES ASSUME NEW i \in 1..(n + 1 - m)
               PROVE  Append(t, e)[i] = s[i]
    OBVIOUS
  <2>1. CASE i = n + 1 - m
    <3>1. i = Len(t) + 1 /\ m + i = n + 1
      BY <1>1, <1>5, <2>1
    <3>2. Append(t, e)[Len(t) + 1] = e
      BY <1>5
    <3>3. s[i] = u[m + i]
      BY <1>4
    <3> QED BY <1>3, <3>1, <3>2, <3>3
  <2>2. CASE i \in 1..(n - m)
    <3>1. Append(t, e)[i] = t[i]
      BY <1>1, <1>5, <2>2
    <3>2. m + i \in 1..n
      BY <1>1, <2>2
    <3>3. s[i] = u[m + i]
      BY <1>4
    <3>4. t[i] = d[m + i]
      BY <1>5, <2>2
    <3>5. u[m + i] = d[m + i]
      BY <1>2, <3>2
    <3> QED BY <3>1, <3>3, <3>4, <3>5
  <2>3. i = n + 1 - m \/ i \in 1..(n - m)
    BY <1>1
  <2> QED BY <2>1, <2>2, <2>3
<1>8. s = Append(t, e)
  BY <1>4, <1>6, <1>7
<1> QED BY <1>1, <1>8 DEF s, t, n

(* One event more in the universe is one more in this turn.                *)
LEMMA ThisTurnGrows ==
    ASSUME IInv, NowIsAPath, NEW e \in Events, universe'.done = Append(universe.done, e),
           snapshot' = snapshot
    PROVE  /\ ThisTurn' = Append(ThisTurn, e) /\ ThisTurn \in Seq(Events)
           /\ Len(snapshot'.done) <= Len(universe'.done)
<1> DEFINE d == universe.done
           b == snapshot.done
           u == universe'.done
<1>1. d \in Seq(Events) /\ b \in Seq(Events) /\ Len(b) <= Len(d)
  BY Parts DEF IInv, Universes, NowIsAPath
<1>2. ThisTurn = SubSeq(d, Len(b) + 1, Len(d)) /\ ThisTurn' = SubSeq(u, Len(b) + 1, Len(u))
  BY DEF ThisTurn
<1>3. u = Append(d, e) /\ snapshot'.done = b
  OBVIOUS
<1> HIDE DEF d, b, u
<1>4. Len(b) \in Nat
  BY <1>1
<1>5. SubSeq(u, Len(b) + 1, Len(u)) = Append(SubSeq(d, Len(b) + 1, Len(d)), e)
  BY <1>1, <1>3, <1>4, GrownTail
<1>6. SubSeq(d, Len(b) + 1, Len(d)) \in Seq(Events)
  BY <1>1
<1>7. Len(b) <= Len(u)
  <2>1. Len(u) = Len(d) + 1 /\ Len(d) \in Nat
    BY <1>1, <1>3
  <2> QED BY <1>1, <1>4, <2>1
<1> QED BY <1>2, <1>3, <1>5, <1>6, <1>7 DEF u

(* A step of the game is a step along the path.                            *)
LEMMA TellingKeepsRInv ==
    ASSUME IInv, RInv, status = "running", UNCHANGED <<game, snapshot, status, shown>>,
           NEW e \in Events, universe'.done = Append(universe.done, e),
           input'.items = input.items,
           Tells(game, input.items, PointNow, e, PointNow')
    PROVE  RInv'
<1>1. NowIsAPath /\ ShownIsAPath
  BY DEF RInv
<1>2. /\ ThisTurn' = Append(ThisTurn, e) /\ ThisTurn \in Seq(Events)
      /\ Len(snapshot'.done) <= Len(universe'.done)
  BY <1>1, ThisTurnGrows
<1>3. Path(game, input.items, snapshot.seed, Append(ThisTurn, e), PointNow')
  <2>1. Path(game, input.items, snapshot.seed, ThisTurn, PointNow)
    BY <1>1 DEF NowIsAPath
  <2> QED BY <1>2, <2>1, PathGoesOn
<1>4. NowIsAPath'
  BY <1>1, <1>2, <1>3 DEF NowIsAPath
<1>5. ShownIsAPath'
  BY <1>1 DEF ShownIsAPath
<1> QED BY <1>4, <1>5 DEF RInv

(* A drawn number goes on from the point the generator is at.               *)
LEMMA DrawKeepsRInv == ASSUME IInv, RInv, Draw PROVE RInv'
<1> DEFINE r == NextState(rng.state)
           e == <<"draw", r>>
<1>1. rng \in [state : 0..Period-1, seeded : BOOLEAN] /\ Period \in Nat \ {0}
  BY TurnAssumption DEF IInv, TypeOK
<1>2. r \in 0..Period-1
  BY <1>1 DEF NextState
<1>3. rng'.state = r
  BY <1>1 DEF Draw
<1>4. /\ status = "running" /\ game[at] = "draw"
      /\ UNCHANGED <<game, snapshot, status, shown, input>>
      /\ at' = IF Odd(rng'.state) THEN at + 2 ELSE at + 1
  BY DEF Draw, Running
<1> HIDE DEF r
<1>5. universe'.done = Append(universe.done, e)
  <2>1. universe \in Universes
    BY Parts DEF IInv
  <2> QED BY <1>3, <2>1 DEF Draw, Universes
<1>6. e \in Events
  BY <1>2 DEF Events, Operations
<1>7. Tells(game, input.items, PointNow, e, PointNow')
  <2> DEFINE p == PointNow
  <2>1. p = Point(at, rng.state, input.next, p.dec) /\ p.at = at /\ p.rand = rng.state /\ p.next = input.next
    BY DEF PointNow, Point
  <2>2. PointNow' = Point(at', r, input.next, p.dec)
    BY <1>3, <1>4 DEF PointNow, Point
  <2> HIDE DEF p, e
  <2>3. TellsDraw(game, p, e, PointNow')
    BY <1>3, <1>4, <2>1, <2>2 DEF TellsDraw, r, e
  <2> QED BY <2>3 DEF Tells, p
<1>8. input'.items = input.items
  BY <1>4
<1> HIDE DEF e
<1> QED BY <1>4, <1>5, <1>6, <1>7, <1>8, TellingKeepsRInv

(* The player declined this question, or an earlier one.                   *)
LEMMA ReadsEofKeepsRInv == ASSUME IInv, RInv, ReadsEof PROVE RInv'
<1> DEFINE e == <<game[at], Eof>>
           p == PointNow
<1>1. /\ at \in 1..Len(game) /\ game[at] \in Operations
      /\ game[at] \in {"line", "key"}
  BY OpOfRunning DEF ReadsEof, Running
<1>2. status = "running" /\ UNCHANGED <<game, snapshot, status, shown, rng>> /\ at' = at + 1
  BY DEF ReadsEof, Running
<1>3. e \in Events
  BY <1>1 DEF Events
<1>4. universe'.done = Append(universe.done, e)
  <2>1. universe \in Universes
    BY Parts DEF IInv
  <2> QED BY <2>1 DEF ReadsEof, Does, Universes
<1> HIDE DEF e
<1>5. /\ p.at = at /\ p.rand = rng.state /\ p.next = input.next
      /\ p.dec = IF input.declined THEN 1 ELSE 0
  BY DEF PointNow, Point
<1>6. /\ input.next \in Nat /\ Len(input.items) \in Nat /\ input.next <= Len(input.items)
      /\ input \in [items : Items, next : Nat, declined : BOOLEAN]
  BY Parts DEF IInv, TypeOK
<1> HIDE DEF p
<1>7. CASE input.declined
  <2>1. input' = input
    BY <1>7 DEF ReadsEof
  <2>2. PointNow' = Point(at + 1, rng.state, input.next, 1)
    BY <1>2, <1>7, <2>1 DEF PointNow
  <2>3. TellsEofAgain(game, p, e, PointNow')
    BY <1>1, <1>5, <1>7, <2>2 DEF TellsEofAgain, e
  <2>4. Tells(game, input.items, PointNow, e, PointNow')
    BY <2>3 DEF Tells, p
  <2>5. input'.items = input.items
    BY <2>1
  <2> QED BY <1>2, <1>3, <1>4, <2>4, <2>5, TellingKeepsRInv
<1>8. CASE ~input.declined
  <2>1. /\ ~Exhausted /\ Item = Declined
        /\ input' = [input EXCEPT !.next = @ + 1, !.declined = TRUE]
    BY <1>8 DEF ReadsEof
  <2>2. input'.next = input.next + 1 /\ input'.items = input.items /\ input'.declined
    BY <1>6, <2>1
  <2>3. PointNow' = Point(at + 1, rng.state, input.next + 1, 1)
    BY <1>2, <2>2 DEF PointNow
  <2>4. input.next \in 0..Len(input.items)-1 /\ input.items[input.next + 1] = Declined
    BY <1>6, <2>1 DEF Exhausted, Item
  <2>5. p.dec = 0
    BY <1>5, <1>8
  <2>6. TellsEof(game, input.items, p, e, PointNow')
    BY <1>1, <1>5, <2>3, <2>4, <2>5 DEF TellsEof, e
  <2>7. Tells(game, input.items, PointNow, e, PointNow')
    BY <2>6 DEF Tells, p
  <2> QED BY <1>2, <1>3, <1>4, <2>2, <2>7, TellingKeepsRInv
<1> QED BY <1>7, <1>8

(* An answer in hand is told and the cursor goes past it.                   *)
LEMMA ReadsItemKeepsRInv == ASSUME IInv, RInv, ReadsItem PROVE RInv'
<1> DEFINE e == <<game[at], Item>>
           p == PointNow
<1>1. /\ at \in 1..Len(game) /\ game[at] \in Operations
      /\ game[at] \in {"line", "key"}
  BY OpOfRunning DEF ReadsItem, Running
<1>2. status = "running" /\ UNCHANGED <<game, snapshot, status, shown, rng>> /\ at' = at + 1
  BY DEF ReadsItem, Running
<1>3. /\ input.next \in Nat /\ Len(input.items) \in Nat /\ input.next <= Len(input.items)
      /\ input.items \in Seq(Answers \cup {Declined})
  BY Parts DEF IInv, TypeOK
<1>4. /\ ~Exhausted /\ Item # Declined /\ ~input.declined
      /\ input' = [input EXCEPT !.next = @ + 1]
  BY DEF ReadsItem
<1>5. /\ input.next \in 0..Len(input.items)-1
      /\ Item = input.items[input.next + 1] /\ Item \in Answers
  BY <1>3, <1>4 DEF Exhausted, Item
<1>6. e \in Events
  BY <1>1, <1>5 DEF Events
<1>7. universe'.done = Append(universe.done, e)
  <2>1. universe \in Universes
    BY Parts DEF IInv
  <2> QED BY <2>1 DEF ReadsItem, Does, Universes
<1>8. input'.next = input.next + 1 /\ input'.items = input.items /\ ~input'.declined
  <2>1. input \in [items : Items, next : Nat, declined : BOOLEAN]
    BY DEF IInv, TypeOK
  <2> QED BY <1>4, <2>1
<1> HIDE DEF e
<1>9. p.at = at /\ p.rand = rng.state /\ p.next = input.next /\ p.dec = 0
  BY <1>4 DEF PointNow, Point
<1> HIDE DEF p
<1>10. PointNow' = Point(at + 1, rng.state, input.next + 1, 0)
  BY <1>2, <1>8 DEF PointNow
<1>11. TellsItem(game, input.items, p, e, PointNow')
  BY <1>1, <1>4, <1>5, <1>9, <1>10 DEF TellsItem, e
<1>12. Tells(game, input.items, PointNow, e, PointNow')
  BY <1>11 DEF Tells, p
<1> QED BY <1>2, <1>6, <1>7, <1>8, <1>12, TellingKeepsRInv

(* The turn is put back, and what it told is what the player is shown.     *)
LEMMA AsksKeepsRInv == ASSUME IInv, RInv, Asks PROVE RInv'
<1>1. NowIsAPath
  BY DEF RInv, Asks, Running
<1>2. /\ status' = "asks" /\ universe' = snapshot /\ rng' = LoadSeed(snapshot)
      /\ shown' = ThisTurn /\ UNCHANGED <<game, snapshot, input>>
  BY DEF Asks
<1>3. PutBack'
  <2>1. snapshot.seed # NoSeed
    BY <1>1, TurnAssumption DEF NowIsAPath
  <2>2. rng'.seeded
    BY <1>2, <2>1 DEF LoadSeed
  <2> QED BY <1>2, <2>2 DEF PutBack
<1>4. ShownIsAPath'
  BY <1>1, <1>2 DEF NowIsAPath, ShownIsAPath
<1> QED BY <1>2, <1>3, <1>4 DEF RInv

(* A turn that ends tells nothing more.                                     *)
LEMMA EndKeepsRInv == ASSUME IInv, RInv, Stops \/ Fails \/ Completes PROVE RInv'
<1>1. /\ UNCHANGED <<game, rng, saved, snapshot, input, at, shown>>
      /\ status = "running" /\ status' \in {"complete", "error"}
      /\ universe' \in {universe, [universe EXCEPT !.ended = TRUE]}
  BY DEF Stops, Fails, Completes, Running
<1>2. universe'.done = universe.done
  <2>1. universe \in Universes
    BY Parts DEF IInv
  <2> QED BY <1>1, <2>1 DEF Universes
<1>3. ThisTurn' = ThisTurn /\ PointNow' = PointNow
  BY <1>1, <1>2 DEF ThisTurn, PointNow
<1>4. NowIsAPath /\ ShownIsAPath
  BY <1>1 DEF RInv
<1>5. NowIsAPath' /\ ShownIsAPath'
  BY <1>1, <1>2, <1>3, <1>4 DEF NowIsAPath, ShownIsAPath
<1> QED BY <1>1, <1>5 DEF RInv

(* Every step of the module keeps the two paths.                            *)
LEMMA RInvInductive == IInv /\ RInv /\ [Next]_vars => RInv'
<1> SUFFICES ASSUME IInv, RInv, [Next]_vars
             PROVE  RInv'
  OBVIOUS
<1>1. CASE UNCHANGED <<game, universe, rng, snapshot, input, at, status, shown>>
  <2>1. ThisTurn' = ThisTurn /\ PointNow' = PointNow
    BY <1>1 DEF ThisTurn, PointNow
  <2> QED BY <1>1, <2>1 DEF RInv, NowIsAPath, ShownIsAPath, PutBack
<1>2. CASE Begin
  BY <1>2, BeginKeepsRInv
<1>3. CASE Answer
  BY <1>3, AnswerKeepsRInv
<1>4. CASE Rest \/ Load
  BY <1>4 DEF Rest, Load, AtRest, RInv
<1>5. CASE Draw
  BY <1>5, DrawKeepsRInv
<1>6. CASE ReadsEof
  BY <1>6, ReadsEofKeepsRInv
<1>7. CASE ReadsItem
  BY <1>7, ReadsItemKeepsRInv
<1>8. CASE Asks
  BY <1>8, AsksKeepsRInv
<1>9. CASE Stops \/ Fails \/ Completes
  BY <1>9, EndKeepsRInv
<1>10. CASE UNCHANGED vars
  BY <1>1, <1>10 DEF vars
<1>11. CASE Save
  BY <1>1, <1>11 DEF Save
<1> QED BY <1>2, <1>3, <1>4, <1>5, <1>6, <1>7, <1>8, <1>9, <1>10, <1>11 DEF Next

----------------------------------------------------------------------------
(* The theorem. *)

(* The player is never shown a turn that is then replaced by another: what *)
(* an attempt tells and what the one before it told are one as far as the  *)
(* shorter goes.                                                           *)
THEOREM ReplaysAgreeHolds == Spec => []ReplaysAgree
<1>1. Init => RInv
  BY DEF Init, RInv
<1>2. IInv /\ RInv => ReplaysAgree
  <2> SUFFICES ASSUME IInv, RInv, status \in {"running", "asks", "complete"}
               PROVE  LET now == IF status = "asks" THEN shown ELSE ThisTurn
                      IN  IsPrefix(now, shown) \/ IsPrefix(shown, now)
    BY DEF ReplaysAgree
  <2> DEFINE now == IF status = "asks" THEN shown ELSE ThisTurn
  <2>1. PICK q : Path(game, input.items, snapshot.seed, shown, q)
    BY DEF RInv, ShownIsAPath
  <2>2. shown \in Seq(Events)
    BY DEF IInv, TypeOK
  <2>3. now \in Seq(Events) /\ \E r : Path(game, input.items, snapshot.seed, now, r)
    <3>1. CASE status = "asks"
      BY <2>1, <2>2, <3>1
    <3>2. CASE status # "asks"
      <4>1. NowIsAPath
        BY <3>2 DEF RInv
      <4>2. universe.done \in Seq(Events) /\ snapshot.done \in Seq(Events)
        BY Parts DEF IInv, Universes
      <4>3. ThisTurn \in Seq(Events)
        BY <4>2 DEF ThisTurn
      <4> QED BY <3>2, <4>1, <4>3 DEF NowIsAPath
    <3> QED BY <3>1, <3>2
  <2> HIDE DEF now
  <2>4. Len(now) <= Len(shown) \/ Len(shown) <= Len(now)
    BY <2>2, <2>3
  <2>5. IsPrefix(now, shown) \/ IsPrefix(shown, now)
    BY <2>1, <2>2, <2>3, <2>4, PathsAgree
  <2> QED BY <2>5 DEF now
<1> QED BY <1>1, <1>2, RInvInductive, Invariance, PTL DEF Spec
=============================================================================
