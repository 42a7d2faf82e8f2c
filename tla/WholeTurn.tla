----------------------------- MODULE WholeTurn -----------------------------
(***************************************************************************)
(* What a driver that cannot wait for a player promises: the game behaves  *)
(* as though every turn had been played at once, with all of its answers   *)
(* at hand, and a save holds what the game was between two turns.          *)
(***************************************************************************)
EXTENDS Naturals, Sequences, SequencesExt

CONSTANTS
    Answers,    \* what a player may type at a 'read' or a 'key'
    Declined,   \* the player declines to answer
    Eof,        \* what the game is told then
    NoSeed,     \* %seed is not there: the universe was never played
    Period,     \* the random sequence repeats after so many draws
    MaxAnswers  \* bound: answers given to one turn

VARIABLES
    game,    \* what one turn of the game does, an operation after another
    world,   \* what is known of the universe: done, seed and ended
    saved    \* the universe that was saved

vars == <<game, world, saved>>

NextState(s) == (s + 1) % Period
Odd(s) == s % 2 = 1

New(w) == [world |-> w, used |-> 0, declined |-> FALSE, skip |-> FALSE, status |-> "running"]

Did(t, event) == [t EXCEPT !.world.done = Append(@, event)]

(* A draw that comes out odd makes the game skip what it would have done     *)
(* next.                                                                     *)
Drew(t) ==
    LET s == NextState(t.world.seed)
    IN  [Did(t, <<"draw", s>>) EXCEPT !.world.seed = s, !.skip = Odd(s)]

Stopped(t) == [t EXCEPT !.world.ended = TRUE, !.status = "complete"]

(* A question gets the next of the turn's answers, as long as there are any. *)
Told(t, op, answers) ==
    IF t.declined THEN Did(t, <<op, Eof>>)
    ELSE IF t.used = Len(answers) THEN [t EXCEPT !.status = "asks"]
    ELSE IF answers[t.used + 1] = Declined
         THEN [Did(t, <<op, Eof>>) EXCEPT !.used = @ + 1, !.declined = TRUE]
         ELSE [Did(t, <<op, answers[t.used + 1]>>) EXCEPT !.used = @ + 1]

(* One operation, with the answers given to the turn.                        *)
After(t, op, answers) ==
    IF t.status # "running" THEN t
    ELSE IF t.skip THEN [t EXCEPT !.skip = FALSE]
    ELSE CASE op = "draw" -> Drew(t)
           [] op = "stop" -> Stopped(t)
           [] op = "fail" -> [t EXCEPT !.status = "error"]
           [] OTHER -> Told(t, op, answers)

(* How the turn stands after each operation.                               *)
Course(w, answers) ==
    LET turn[i \in 0..Len(game)] ==
            IF i = 0 THEN New(w) ELSE After(turn[i-1], game[i], answers)
    IN  turn

Play(w, answers) ==
    LET t == Course(w, answers)[Len(game)]
    IN  IF t.status = "running" THEN [t EXCEPT !.status = "complete"] ELSE t

Seed ==
    /\ world.seed = NoSeed
    /\ \E s \in 0..Period-1 : world' = [world EXCEPT !.seed = s]
    /\ UNCHANGED <<game, saved>>

\* A turn that fails part way has done what it had done.
Turn ==
    /\ ~world.ended /\ world.seed # NoSeed
    /\ \E answers \in BoundedSeq(Answers \cup {Declined}, MaxAnswers) :
         /\ Play(world, answers).status # "asks"
         /\ world' = Play(world, answers).world
    /\ UNCHANGED <<game, saved>>

Save == saved' = world /\ UNCHANGED <<game, world>>

Load == world' = saved /\ UNCHANGED <<game, saved>>

Unplayed == [done |-> <<>>, seed |-> NoSeed, ended |-> FALSE]

Init == world = Unplayed /\ saved = Unplayed

Next == Seed \/ Turn \/ Save \/ Load

Spec == Init /\ [][Next]_vars
=============================================================================
