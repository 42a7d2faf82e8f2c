-------------------------- MODULE WholeTurn_proofs --------------------------
(***************************************************************************)
(* Proof that Turn implements WholeTurn, for every set of answers, period  *)
(* and game: asking, putting back and running again amounts to playing     *)
(* whole turns.  A running turn is where the turn played at once would be, *)
(* after as many operations and with the answers in hand.                  *)
(***************************************************************************)
EXTENDS Turn_proofs

----------------------------------------------------------------------------
(* Whole turns. *)

(* A turn played at once after n operations, in terms of one operation less. *)
Goes(f, n, w, answers) ==
    f = [i \in 0..n |-> IF i = 0 THEN Whole!New(w) ELSE Whole!After(f[i-1], game[i], answers)]

(* A turn has a course, however many operations it has.                    *)
LEMMA CourseExists ==
    ASSUME NEW n \in Nat, NEW w, NEW answers
    PROVE  \E f : Goes(f, n, w, answers)
<1> DEFINE B == {k \in Nat : ~\E f : Goes(f, k, w, answers)}
<1>1. B = {}
  <2> SUFFICES ASSUME B # {} PROVE FALSE
    OBVIOUS
  <2>1. B \in SUBSET Nat
    OBVIOUS
  <2>2. PICK m \in B : \A i \in B : ~ (<<i, m>> \in OpToRel(<, Nat))
    BY <2>1, NatLessThanWellFounded, WFMin
  <2>3. m \in Nat /\ ~\E f : Goes(f, m, w, answers)
    BY <2>2
  <2>4. m # 0
    <3>1. ASSUME m = 0 PROVE Goes([i \in 0..0 |-> Whole!New(w)], 0, w, answers)
      BY DEF Goes
    <3> QED BY <2>3, <3>1
  <2>5. m-1 \in Nat /\ m-1 < m /\ (m-1)+1 = m
    BY <2>3, <2>4
  <2>6. m-1 \notin B
    <3>1. <<m-1, m>> \in OpToRel(<, Nat)
      BY <2>3, <2>5 DEF OpToRel
    <3> HIDE DEF B
    <3> QED BY <2>2, <3>1
  <2>7. PICK f : Goes(f, m-1, w, answers)
    BY <2>5, <2>6
  <2> DEFINE last == Whole!After(f[m-1], game[m], answers)
             g == [i \in 0..m |-> IF i = m THEN last ELSE f[i]]
  <2>8. \A i \in 0..m-1 : f[i] = IF i = 0 THEN Whole!New(w) ELSE Whole!After(f[i-1], game[i], answers)
    BY <2>7 DEF Goes
  <2> HIDE DEF last
  <2>9. \A i \in 0..m : g[i] = IF i = 0 THEN Whole!New(w) ELSE Whole!After(g[i-1], game[i], answers)
    <3> SUFFICES ASSUME NEW i \in 0..m
                 PROVE  g[i] = IF i = 0 THEN Whole!New(w) ELSE Whole!After(g[i-1], game[i], answers)
      OBVIOUS
    <3>1. CASE i = m
      <4>1. g[i] = last /\ g[i-1] = f[m-1] /\ i # 0
        BY <2>3, <2>4, <2>5, <3>1
      <4> QED BY <3>1, <4>1 DEF last
    <3>2. CASE i # m
      <4>1. i \in 0..m-1 /\ g[i] = f[i] /\ (i # 0 => g[i-1] = f[i-1])
        BY <2>3, <2>5, <3>2
      <4> HIDE DEF g
      <4> QED BY <2>8, <4>1
    <3> QED BY <3>1, <3>2
  <2>10. Goes(g, m, w, answers)
    BY <2>9 DEF Goes
  <2> QED BY <2>3, <2>10
<1> QED BY <1>1

(* And the course of a turn goes on from one operation to the next.        *)
LEMMA CourseGoes ==
    ASSUME NEW w, NEW answers, Len(game) \in Nat
    PROVE  /\ Whole!Course(w, answers)[0] = Whole!New(w)
           /\ \A i \in 1..Len(game) :
                 Whole!Course(w, answers)[i] =
                     Whole!After(Whole!Course(w, answers)[i-1], game[i], answers)
<1> DEFINE n == Len(game)
           C == Whole!Course(w, answers)
<1>1. \E f : Goes(f, n, w, answers)
  BY CourseExists
<1>2. C = CHOOSE f : Goes(f, n, w, answers)
  BY DEF Whole!Course, Goes
<1>3. Goes(C, n, w, answers)
  <2> HIDE DEF C
  <2> QED BY <1>1, <1>2
<1>4. \A i \in 0..n : C[i] = IF i = 0 THEN Whole!New(w) ELSE Whole!After(C[i-1], game[i], answers)
  <2> HIDE DEF C
  <2> QED BY <1>3 DEF Goes
<1>5. 0 \in 0..n /\ \A i \in 1..n : i \in 0..n /\ i # 0
  OBVIOUS
<1> HIDE DEF C
<1>6. C[0] = Whole!New(w)
  BY <1>4, <1>5
<1>7. \A i \in 1..n : C[i] = Whole!After(C[i-1], game[i], answers)
  BY <1>4, <1>5
<1> QED BY <1>6, <1>7 DEF C

(* A turn that is over stays as it is.                                     *)
LEMMA OverStays ==
    ASSUME NEW w, NEW answers, Len(game) \in Nat, NEW k \in 0..Len(game),
           Whole!Course(w, answers)[k].status # "running"
    PROVE  Whole!Course(w, answers)[Len(game)] = Whole!Course(w, answers)[k]
<1> DEFINE n == Len(game)
           C == Whole!Course(w, answers)
           B == {i \in k..n : C[i] # C[k]}
<1>1. \A i \in 1..n : C[i] = Whole!After(C[i-1], game[i], answers)
  BY CourseGoes
<1>2. n \in Nat /\ k \in 0..n /\ C[k].status # "running"
  OBVIOUS
<1> HIDE DEF C, n
<1>3. B = {}
  <2> SUFFICES ASSUME B # {} PROVE FALSE
    OBVIOUS
  <2>1. B \in SUBSET Nat
    BY <1>2
  <2>2. PICK m \in B : \A i \in B : ~ (<<i, m>> \in OpToRel(<, Nat))
    BY <2>1, NatLessThanWellFounded, WFMin
  <2>3. m \in k..n /\ C[m] # C[k]
    BY <2>2
  <2>4. m-1 \in k..n /\ m \in 1..n /\ m-1 < m /\ m-1 \in Nat /\ m \in Nat
    BY <1>2, <2>3
  <2>5. m-1 \notin B
    <3>1. <<m-1, m>> \in OpToRel(<, Nat)
      BY <2>4 DEF OpToRel
    <3> HIDE DEF B
    <3> QED BY <2>2, <3>1
  <2>6. C[m-1] = C[k]
    BY <2>4, <2>5
  <2>7. C[m] = C[k]
    BY <1>1, <1>2, <2>4, <2>6 DEF Whole!After
  <2> QED BY <2>3, <2>7
<1>4. n \in k..n
  BY <1>2
<1> QED BY <1>3, <1>4 DEF n, C

(* A truth value that an operator is given goes by its name in what follows. *)
No  == FALSE
Yes == TRUE

(* What is known of a universe, and how far a turn is, as records of       *)
(* WholeTurn; and what becomes of one when a field changes.                *)

World(done, seed, ended) == [done |-> done, seed |-> seed, ended |-> ended]

Stage(u, n, d, skip, st) ==
    [world |-> u, used |-> n, declined |-> d, skip |-> skip, status |-> st]

Half(u, n, d, skip) == Stage(u, n, d, skip, "running")

WithDone(u, x)     == [u EXCEPT !.done = x]
WithSeed(u, x)     == [u EXCEPT !.seed = x]
WithEnded(u, x)    == [u EXCEPT !.ended = x]
WithWorld(t, x)    == [t EXCEPT !.world = x]
WithUsed(t, x)     == [t EXCEPT !.used = x]
WithDeclined(t, x) == [t EXCEPT !.declined = x]
WithSkip(t, x)     == [t EXCEPT !.skip = x]
WithStatus(t, x)   == [t EXCEPT !.status = x]

(* While a turn runs it is where it would be had it been played at once    *)
(* with the answers in hand; a draw may skip past the last operation.      *)
PlayedSoFar ==
    /\ snapshot.seed # NoSeed /\ ~snapshot.ended
    /\ \/ /\ at \in 1..Len(game)+1
          /\ Whole!Course(snapshot, input.items)[at-1]
                 = Half(universe, input.next, input.declined, No)
       \/ /\ at = Len(game)+2
          /\ Whole!Course(snapshot, input.items)[Len(game)]
                 = Half(universe, input.next, input.declined, Yes)

PInv == status = "running" => PlayedSoFar

(* One field changes and the others stay.                                  *)
LEMMA WorldChanges ==
    ASSUME NEW D, NEW S, NEW E, NEW x
    PROVE  /\ WithDone(World(D, S, E), x) = World(x, S, E)
           /\ WithSeed(World(D, S, E), x) = World(D, x, E)
           /\ WithEnded(World(D, S, E), x) = World(D, S, x)
<1>1. WithDone(World(D, S, E), x) = World(x, S, E)
  BY DEF WithDone, World
<1>2. WithSeed(World(D, S, E), x) = World(D, x, E)
  BY DEF WithSeed, World
<1>3. WithEnded(World(D, S, E), x) = World(D, S, x)
  BY DEF WithEnded, World
<1> QED BY <1>1, <1>2, <1>3

(* The fields of what is known of a universe.                              *)
LEMMA WorldHolds ==
    ASSUME NEW D, NEW S, NEW E
    PROVE  World(D, S, E).done = D /\ World(D, S, E).seed = S /\ World(D, S, E).ended = E
  BY DEF World

(* The same of how far a turn is.                                          *)
LEMMA StageChanges ==
    ASSUME NEW u, NEW n, NEW d, NEW b, NEW st, NEW x
    PROVE  /\ WithWorld(Stage(u, n, d, b, st), x) = Stage(x, n, d, b, st)
           /\ WithUsed(Stage(u, n, d, b, st), x) = Stage(u, x, d, b, st)
           /\ WithDeclined(Stage(u, n, d, b, st), x) = Stage(u, n, x, b, st)
           /\ WithSkip(Stage(u, n, d, b, st), x) = Stage(u, n, d, x, st)
           /\ WithStatus(Stage(u, n, d, b, st), x) = Stage(u, n, d, b, x)
<1>1. WithWorld(Stage(u, n, d, b, st), x) = Stage(x, n, d, b, st)
  BY DEF Stage, WithWorld
<1>2. WithUsed(Stage(u, n, d, b, st), x) = Stage(u, x, d, b, st)
  BY DEF Stage, WithUsed
<1>3. WithDeclined(Stage(u, n, d, b, st), x) = Stage(u, n, x, b, st)
  BY DEF Stage, WithDeclined
<1>4. WithSkip(Stage(u, n, d, b, st), x) = Stage(u, n, d, x, st)
  BY DEF Stage, WithSkip
<1>5. WithStatus(Stage(u, n, d, b, st), x) = Stage(u, n, d, b, x)
  BY DEF Stage, WithStatus
<1> QED BY <1>1, <1>2, <1>3, <1>4, <1>5

(* The fields of how far a turn is.                                        *)
LEMMA StageHolds ==
    ASSUME NEW u, NEW n, NEW d, NEW b, NEW st
    PROVE  LET t == Stage(u, n, d, b, st)
           IN  t.world = u /\ t.used = n /\ t.declined = d /\ t.skip = b /\ t.status = st
  BY DEF Stage

(* WholeTurn's operations in these terms.                                  *)
LEMMA OperationsChange ==
    ASSUME NEW t, NEW op, NEW answers, t.status = "running", NEW e
    PROVE  /\ Whole!Did(t, e) = WithWorld(t, WithDone(t.world, Append(t.world.done, e)))
           /\ t.skip = Yes => Whole!After(t, op, answers) = WithSkip(t, No)
           /\ t.skip = No =>
                /\ op = "draw" => Whole!After(t, op, answers) = Whole!Drew(t)
                /\ op = "stop" => Whole!After(t, op, answers) = Whole!Stopped(t)
                /\ op = "fail" => Whole!After(t, op, answers) = WithStatus(t, "error")
                /\ op \in {"line", "key"} =>
                       Whole!After(t, op, answers) = Whole!Told(t, op, answers)
<1>1. Whole!Did(t, e) = WithWorld(t, WithDone(t.world, Append(t.world.done, e)))
  BY DEF Whole!Did, WithWorld, WithDone
<1>2. t.skip = Yes => Whole!After(t, op, answers) = [t EXCEPT !.skip = No]
  BY DEF Whole!After, No, Yes
<1>3. ASSUME t.skip = No, op = "draw" PROVE Whole!After(t, op, answers) = Whole!Drew(t)
  BY <1>3 DEF Whole!After, No, Yes
<1>4. ASSUME t.skip = No, op = "stop" PROVE Whole!After(t, op, answers) = Whole!Stopped(t)
  BY <1>4 DEF Whole!After, No, Yes
<1>5. ASSUME t.skip = No, op = "fail" PROVE Whole!After(t, op, answers) = [t EXCEPT !.status = "error"]
  BY <1>5 DEF Whole!After, No, Yes
<1>6. ASSUME t.skip = No, op \in {"line", "key"} PROVE Whole!After(t, op, answers) = Whole!Told(t, op, answers)
  BY <1>6 DEF Whole!After, No, Yes
<1> QED BY <1>1, <1>2, <1>3, <1>4, <1>5, <1>6 DEF WithSkip, WithStatus

(* The game is told one thing more.                                        *)
LEMMA TellsOne ==
    ASSUME NEW D, NEW S, NEW E, NEW n, NEW d, NEW b, NEW e
    PROVE  Whole!Did(Half(World(D, S, E), n, d, b), e) = Half(World(Append(D, e), S, E), n, d, b)
<1> DEFINE t == Stage(World(D, S, E), n, d, b, "running")
<1>1. t.world = World(D, S, E) /\ t.status = "running"
  BY StageHolds
<1>2. Whole!Did(t, e) = WithWorld(t, WithDone(t.world, Append(t.world.done, e)))
  BY <1>1, OperationsChange
<1>3. WithDone(t.world, Append(t.world.done, e)) = World(Append(D, e), S, E)
  BY <1>1, WorldChanges, WorldHolds
<1>4. WithWorld(t, World(Append(D, e), S, E)) = Stage(World(Append(D, e), S, E), n, d, b, "running")
  BY StageChanges
<1> QED BY <1>2, <1>3, <1>4 DEF Half

(* What the operations make of a turn under way.                           *)
LEMMA AfterDraw ==
    ASSUME NEW D, NEW S, NEW E, NEW n, NEW d, NEW answers, NEW s, s = NextState(S)
    PROVE  Whole!After(Half(World(D, S, E), n, d, No), "draw", answers)
             = Half(World(Append(D, <<"draw", s>>), s, E), n, d, Odd(s))
<1> DEFINE t == Stage(World(D, S, E), n, d, No, "running")
           e == <<"draw", s>>
           v == World(Append(D, e), S, E)
           w == World(Append(D, e), s, E)
           r == Stage(v, n, d, No, "running")
           q == Stage(w, n, d, No, "running")
<1>1. t.status = "running" /\ t.skip = No /\ t.world = World(D, S, E) /\ r.world = v
  BY StageHolds
<1>2. Whole!Did(t, e) = r
  BY TellsOne DEF Half
<1>3. WithSeed(v, s) = w /\ t.world.seed = S
  BY <1>1, WorldChanges, WorldHolds
<1>4. WithWorld(r, w) = q
  BY StageChanges
<1>5. WithSkip(q, Odd(s)) = Stage(w, n, d, Odd(s), "running")
  BY StageChanges
<1>6. Whole!NextState(t.world.seed) = s /\ Whole!Odd(s) = Odd(s)
  BY <1>3 DEF Whole!NextState, NextState, Whole!Odd, Odd
<1> HIDE DEF t, r, q, v, w
<1>7. Whole!After(t, "draw", answers) = Whole!Drew(t)
  BY <1>1, OperationsChange
<1>8. Whole!Drew(t) = [r EXCEPT !.world.seed = s, !.skip = Odd(s)]
  BY <1>2, <1>6 DEF Whole!Drew
<1>9. [r EXCEPT !.world.seed = s, !.skip = Odd(s)] = WithSkip(WithWorld(r, WithSeed(r.world, s)), Odd(s))
  BY DEF WithSkip, WithWorld, WithSeed
<1>10. Whole!After(t, "draw", answers) = Stage(w, n, d, Odd(s), "running")
  BY <1>1, <1>3, <1>4, <1>5, <1>7, <1>8, <1>9
<1> QED BY <1>10 DEF Half, t, w

(* What a draw skips is not done.                                          *)
LEMMA AfterSkip ==
    ASSUME NEW u, NEW n, NEW d, NEW op, NEW answers
    PROVE  Whole!After(Half(u, n, d, Yes), op, answers) = Half(u, n, d, No)
<1> DEFINE t == Stage(u, n, d, Yes, "running")
<1>1. t.status = "running" /\ t.skip = Yes
  BY StageHolds
<1>2. Whole!After(t, op, answers) = WithSkip(t, No)
  BY <1>1, OperationsChange
<1>3. WithSkip(t, No) = Stage(u, n, d, No, "running")
  BY StageChanges
<1> QED BY <1>2, <1>3 DEF Half

(* A question is told what the answers say.                                *)
LEMMA AfterQuestion ==
    ASSUME NEW D, NEW S, NEW E, NEW n, NEW d, NEW op \in {"line", "key"}, NEW answers
    PROVE  LET t == Half(World(D, S, E), n, d, No)
           IN  /\ t.declined = d /\ t.used = n
               /\ Whole!After(t, op, answers) = Whole!Told(t, op, answers)
<1> DEFINE t == Stage(World(D, S, E), n, d, No, "running")
<1>1. t.status = "running" /\ t.skip = No /\ t.declined = d /\ t.used = n
  BY StageHolds
<1> HIDE DEF t
<1>2. Whole!After(t, op, answers) = Whole!Told(t, op, answers)
  BY <1>1, OperationsChange
<1> QED BY <1>1, <1>2 DEF Half, t

(* A question after one that was declined.                                 *)
LEMMA AfterEofAgain ==
    ASSUME NEW D, NEW S, NEW E, NEW n, NEW op \in {"line", "key"}, NEW answers
    PROVE  Whole!After(Half(World(D, S, E), n, Yes, No), op, answers)
             = Half(World(Append(D, <<op, Eof>>), S, E), n, Yes, No)
<1> DEFINE t == Half(World(D, S, E), n, Yes, No)
<1>1. t.declined = Yes /\ Whole!After(t, op, answers) = Whole!Told(t, op, answers)
  BY AfterQuestion
<1>2. Whole!Did(t, <<op, Eof>>) = Half(World(Append(D, <<op, Eof>>), S, E), n, Yes, No)
  BY TellsOne
<1> HIDE DEF t
<1>3. Whole!Told(t, op, answers) = Whole!Did(t, <<op, Eof>>)
  BY <1>1 DEF Whole!Told, Yes
<1> QED BY <1>1, <1>2, <1>3 DEF t

(* The question that is declined.                                          *)
LEMMA AfterEof ==
    ASSUME NEW D, NEW S, NEW E, NEW n, NEW op \in {"line", "key"}, NEW answers,
           n # Len(answers), answers[n + 1] = Declined
    PROVE  Whole!After(Half(World(D, S, E), n, No, No), op, answers)
             = Half(World(Append(D, <<op, Eof>>), S, E), n + 1, Yes, No)
<1> DEFINE t == Half(World(D, S, E), n, No, No)
           v == World(Append(D, <<op, Eof>>), S, E)
           r == Stage(v, n, No, No, "running")
           q == Stage(v, n + 1, No, No, "running")
<1>1. t.declined = No /\ t.used = n /\ Whole!After(t, op, answers) = Whole!Told(t, op, answers)
  BY AfterQuestion
<1>2. Whole!Did(t, <<op, Eof>>) = r /\ r.used = n
  BY TellsOne, StageHolds DEF Half
<1>3. WithUsed(r, n + 1) = q
  BY StageChanges
<1>4. WithDeclined(q, Yes) = Stage(v, n + 1, Yes, No, "running")
  BY StageChanges
<1> HIDE DEF t, v, r, q
<1>5. Whole!Told(t, op, answers) = [r EXCEPT !.used = r.used + 1, !.declined = Yes]
  BY <1>1, <1>2 DEF Whole!Told, Yes, No
<1>6. [r EXCEPT !.used = r.used + 1, !.declined = Yes] = WithDeclined(WithUsed(r, r.used + 1), Yes)
  BY DEF WithDeclined, WithUsed
<1>7. Whole!Told(t, op, answers) = Stage(v, n + 1, Yes, No, "running")
  BY <1>2, <1>3, <1>4, <1>5, <1>6
<1> QED BY <1>1, <1>7 DEF Half, t, v

(* A question that gets its answer.                                        *)
LEMMA AfterItem ==
    ASSUME NEW D, NEW S, NEW E, NEW n, NEW op \in {"line", "key"}, NEW answers,
           n # Len(answers), answers[n + 1] # Declined
    PROVE  Whole!After(Half(World(D, S, E), n, No, No), op, answers)
             = Half(World(Append(D, <<op, answers[n + 1]>>), S, E), n + 1, No, No)
<1> DEFINE t == Half(World(D, S, E), n, No, No)
           e == <<op, answers[n + 1]>>
           v == World(Append(D, e), S, E)
           r == Stage(v, n, No, No, "running")
<1>1. t.declined = No /\ t.used = n /\ Whole!After(t, op, answers) = Whole!Told(t, op, answers)
  BY AfterQuestion
<1>2. Whole!Did(t, e) = r /\ r.used = n
  BY TellsOne, StageHolds DEF Half
<1>3. WithUsed(r, n + 1) = Stage(v, n + 1, No, No, "running")
  BY StageChanges
<1> HIDE DEF t, v, r
<1>4. Whole!Told(t, op, answers) = [r EXCEPT !.used = r.used + 1]
  BY <1>1, <1>2 DEF Whole!Told, No
<1>5. Whole!Told(t, op, answers) = WithUsed(r, n + 1)
  BY <1>2, <1>4 DEF WithUsed
<1> QED BY <1>1, <1>3, <1>5 DEF Half, t, v

(* Stopping and failing end the turn.                                      *)
LEMMA AfterEnd ==
    ASSUME NEW D, NEW S, NEW E, NEW n, NEW d, NEW answers
    PROVE  /\ Whole!After(Half(World(D, S, E), n, d, No), "stop", answers)
                = Stage(World(D, S, Yes), n, d, No, "complete")
           /\ Whole!After(Half(World(D, S, E), n, d, No), "fail", answers)
                = Stage(World(D, S, E), n, d, No, "error")
<1> DEFINE t == Stage(World(D, S, E), n, d, No, "running")
           r == Stage(World(D, S, Yes), n, d, No, "running")
<1>1. t.status = "running" /\ t.skip = No /\ t.world = World(D, S, E)
  BY StageHolds
<1>2. WithEnded(World(D, S, E), Yes) = World(D, S, Yes) /\ WithWorld(t, World(D, S, Yes)) = r
  BY WorldChanges, StageChanges
<1>3. /\ WithStatus(r, "complete") = Stage(World(D, S, Yes), n, d, No, "complete")
      /\ WithStatus(t, "error") = Stage(World(D, S, E), n, d, No, "error")
  BY StageChanges
<1> HIDE DEF t, r
<1>4. /\ Whole!After(t, "stop", answers) = Whole!Stopped(t)
      /\ Whole!After(t, "fail", answers) = WithStatus(t, "error")
  BY <1>1, OperationsChange
<1>5. Whole!Stopped(t) = WithStatus(WithWorld(t, WithEnded(t.world, Yes)), "complete")
  BY DEF Whole!Stopped, WithStatus, WithWorld, WithEnded, Yes
<1> QED BY <1>1, <1>2, <1>3, <1>4, <1>5 DEF Half, t

(* A running turn with an operation to do.                                 *)
LEMMA TurnIsHalf ==
    ASSUME IInv, PInv, NEW ops, Running(ops)
    PROVE  /\ at \in 1..Len(game) /\ Len(game) \in Nat
           /\ snapshot.seed # NoSeed /\ ~snapshot.ended
           /\ Whole!Course(snapshot, input.items)[at]
                = Whole!After(Half(universe, input.next, input.declined, No), game[at], input.items)
<1>1. at \in 1..Len(game) /\ Len(game) \in Nat
  BY OpOfRunning
<1>2. PlayedSoFar /\ at # Len(game) + 2
  BY <1>1 DEF PInv, Running
<1>3. Whole!Course(snapshot, input.items)[at-1] = Half(universe, input.next, input.declined, No)
  BY <1>2 DEF PlayedSoFar
<1>4. Whole!Course(snapshot, input.items)[at]
        = Whole!After(Whole!Course(snapshot, input.items)[at-1], game[at], input.items)
  BY <1>1, CourseGoes
<1> QED BY <1>1, <1>2, <1>3, <1>4 DEF PlayedSoFar

(* It goes on to the operation after it.                                   *)
LEMMA GoesOn ==
    ASSUME IInv, PInv, NEW ops, Running(ops), at' = at + 1,
           UNCHANGED <<game, snapshot, status>>, input'.items = input.items,
           Whole!After(Half(universe, input.next, input.declined, No), game[at], input.items)
             = Half(universe', input'.next, input'.declined, No)
    PROVE  PInv'
<1>1. at \in 1..Len(game) /\ Len(game) \in Nat
  BY TurnIsHalf
<1>2. at' \in 1..Len(game')+1 /\ at'-1 = at
  BY <1>1
<1>3. Whole!Course(snapshot, input.items)[at] = Half(universe', input'.next, input'.declined, No)
  BY TurnIsHalf
<1>4. Whole!Course(snapshot, input.items)' = Whole!Course(snapshot, input.items)
  BY DEF Whole!Course, Whole!New, Whole!After, Whole!Did, Whole!NextState, Whole!Odd, Whole!Drew,
         Whole!Stopped, Whole!Told
<1> QED BY <1>2, <1>3, <1>4, TurnIsHalf DEF PInv, PlayedSoFar

(* The universe in WholeTurn's terms, and how an operation changes it.     *)
LEMMA UniverseIsWorld ==
    ASSUME NEW u \in Universes, NEW e, NEW s
    PROVE  /\ u = World(u.done, u.seed, u.ended)
           /\ WithDone(u, Append(u.done, e)) = World(Append(u.done, e), u.seed, u.ended)
           /\ WithSeed(WithDone(u, Append(u.done, e)), s) = World(Append(u.done, e), s, u.ended)
           /\ WithEnded(u, Yes) = World(u.done, u.seed, Yes)
<1>1. u = World(u.done, u.seed, u.ended)
  BY DEF Universes, World
<1>2. WithDone(u, Append(u.done, e)) = World(Append(u.done, e), u.seed, u.ended)
  BY <1>1, WorldChanges
<1>3. WithSeed(WithDone(u, Append(u.done, e)), s) = World(Append(u.done, e), s, u.ended)
  BY <1>2, WorldChanges
<1>4. WithEnded(u, Yes) = World(u.done, u.seed, Yes)
  BY <1>1, WorldChanges
<1> QED BY <1>1, <1>2, <1>3, <1>4

(* The course is of the game, the snapshot and the answers, and of nothing *)
(* else that a step may change.                                            *)
LEMMA SameCourse ==
    ASSUME UNCHANGED <<game, snapshot>>, input'.items = input.items
    PROVE  Whole!Course(snapshot, input.items)' = Whole!Course(snapshot, input.items)
  BY DEF Whole!Course, Whole!New, Whole!After, Whole!Did, Whole!NextState, Whole!Odd, Whole!Drew,
         Whole!Stopped, Whole!Told

(* A turn begins, or begins again, at the start of its course.             *)
LEMMA AttemptPlays ==
    ASSUME IInv, NEW items \in Items, Attempt(items), IInv'
    PROVE  PInv'
<1> SUFFICES ASSUME status' = "running" PROVE PlayedSoFar'
  BY DEF PInv
<1>1. PICK s \in 0..Period-1 :
          /\ universe' = Seeded(universe, s)
          /\ snapshot' = Seeded(universe, s)
  BY TurnAssumption DEF Attempt, IInv, TypeOK, Snapshot
<1>2. universe' = snapshot' /\ ~universe.ended /\ at' = 1 /\ game' = game
      /\ input' = [items |-> items, next |-> 0, declined |-> FALSE]
  BY <1>1 DEF Attempt, TurnInput
<1>3. universe \in Universes /\ universe' \in Universes /\ rng'.seeded
  BY Parts DEF IInv, TypeOK, RunsSeeded
<1>4. snapshot'.seed # NoSeed
  BY <1>2, <1>3, TurnAssumption DEF IInv, SeedIsCarried, TypeOK
<1>5. ~snapshot'.ended
  BY <1>1, <1>2, <1>3 DEF Seeded, Universes
<1>6. Len(game') \in Nat
  <2>1. game \in Seq(Operations)
    BY Parts DEF IInv
  <2> QED BY <1>2, <2>1
<1>7. (Whole!Course(snapshot, input.items)[0] = Whole!New(snapshot))'
  <2>1. Whole!New(snapshot)' = Whole!New(snapshot')
    BY DEF Whole!New
  <2>2. Whole!Course(snapshot, input.items)' = Whole!Course(snapshot', input'.items)
    BY <1>2 DEF Whole!Course, Whole!New, Whole!After, Whole!Did, Whole!NextState, Whole!Odd,
                Whole!Drew, Whole!Stopped, Whole!Told
  <2>3. Whole!Course(snapshot', input'.items)[0] = Whole!New(snapshot')
    BY <1>2, <1>6, CourseGoes
  <2> QED BY <2>1, <2>2, <2>3
<1>8. Whole!New(snapshot)' = Half(universe', input'.next, input'.declined, No)
  BY <1>2 DEF Whole!New, Half, Stage, No
<1>9. at' \in 1..Len(game')+1 /\ at'-1 = 0
  BY <1>2, <1>6
<1> QED BY <1>4, <1>5, <1>7, <1>8, <1>9 DEF PlayedSoFar

(* A draw takes the turn on along its course, past what it skips.          *)
LEMMA DrawPlays == ASSUME IInv, PInv, Draw PROVE PInv'
<1> DEFINE s == NextState(rng.state)
           e == <<"draw", s>>
           a == input.items
           C == Whole!Course(snapshot, a)
<1>1. Running({"draw"}) /\ game[at] = "draw" /\ status = "running"
  BY DEF Draw, Running
<1>2. /\ at \in 1..Len(game) /\ Len(game) \in Nat
      /\ snapshot.seed # NoSeed /\ ~snapshot.ended
      /\ C[at] = Whole!After(Half(universe, input.next, input.declined, No), "draw", a)
  BY <1>1, TurnIsHalf
<1>3. universe \in Universes /\ rng.seeded /\ universe.seed = rng.state
  BY <1>1, Parts DEF IInv, RunsSeeded, SeedIsCarried
<1>4. rng'.state = s /\ universe' = [universe EXCEPT !.done = Append(@, e), !.seed = s]
      /\ at' = (IF Odd(s) THEN at + 2 ELSE at + 1)
  <2>1. rng \in [state : 0..Period-1, seeded : BOOLEAN]
    BY DEF IInv, TypeOK
  <2>2. rng'.state = s
    BY <2>1 DEF Draw
  <2> QED BY <2>2 DEF Draw
<1>5. universe = World(universe.done, universe.seed, universe.ended)
      /\ universe' = World(Append(universe.done, e), s, universe.ended)
  <2> HIDE DEF e, s
  <2>1. universe' = WithSeed(WithDone(universe, Append(universe.done, e)), s)
    BY <1>4 DEF WithSeed, WithDone
  <2> QED BY <1>3, <2>1, UniverseIsWorld
<1>6. C[at] = Half(universe', input.next, input.declined, Odd(s))
  BY <1>2, <1>3, <1>5, AfterDraw
<1>7. Whole!Course(snapshot, input.items)' = C /\ UNCHANGED <<game, snapshot, status, input>>
  BY SameCourse DEF Draw
<1> HIDE DEF C, s
<1>8. CASE ~Odd(s)
  <2>1. Odd(s) = No
    BY <1>8 DEF Odd, No
  <2>2. at' \in 1..Len(game)+1 /\ at'-1 = at
    BY <1>2, <1>4, <1>8
  <2> QED BY <1>2, <1>6, <1>7, <2>1, <2>2 DEF PInv, PlayedSoFar
<1>9. CASE Odd(s)
  <2>1. Odd(s) = Yes
    BY <1>9 DEF Odd, Yes
  <2>2. CASE at = Len(game)
    <3>1. at' = Len(game') + 2
      BY <1>4, <1>7, <1>9, <2>2
    <3> QED BY <1>2, <1>6, <1>7, <2>1, <2>2, <3>1 DEF PInv, PlayedSoFar
  <2>3. CASE at # Len(game)
    <3>1. at + 1 \in 1..Len(game) /\ (at + 1) - 1 = at /\ at' \in 1..Len(game)+1 /\ at'-1 = at + 1
      BY <1>2, <1>4, <1>9, <2>3
    <3>2. C[at + 1] = Whole!After(C[at], game[at + 1], a)
      BY <1>2, <3>1, CourseGoes DEF C
    <3>3. C[at + 1] = Half(universe', input.next, input.declined, No)
      BY <1>6, <2>1, <3>2, AfterSkip
    <3> QED BY <1>2, <1>7, <3>1, <3>3 DEF PInv, PlayedSoFar
  <2> QED BY <2>2, <2>3
<1> QED BY <1>8, <1>9

(* A question that is declined takes it on,                                *)
LEMMA ReadsEofPlays == ASSUME IInv, PInv, ReadsEof PROVE PInv'
<1> DEFINE D == universe.done
           S == universe.seed
           E == universe.ended
           n == input.next
           op == game[at]
           e == <<op, Eof>>
           a == input.items
<1>1. /\ Running({"line", "key"}) /\ game[at] \in {"line", "key"}
      /\ at' = at + 1 /\ UNCHANGED <<game, snapshot, status>>
      /\ universe' = [universe EXCEPT !.done = Append(@, e)]
  BY DEF ReadsEof, Running, Does
<1>2. universe \in Universes
  BY Parts DEF IInv
<1>3. universe = World(universe.done, universe.seed, universe.ended)
      /\ universe' = World(Append(universe.done, e), universe.seed, universe.ended)
  <2> HIDE DEF e
  <2>1. universe' = WithDone(universe, Append(universe.done, e))
    BY <1>1 DEF WithDone
  <2> QED BY <1>2, <2>1, UniverseIsWorld
<1>4. input \in [items : Items, next : Nat, declined : BOOLEAN]
  BY DEF IInv, TypeOK
<1>5. CASE input.declined
  <2>1. input' = input /\ input.declined = Yes
    BY <1>4, <1>5 DEF ReadsEof, Yes
  <2>2. Whole!After(Half(universe, input.next, input.declined, No), game[at], a)
          = Half(universe', input'.next, input'.declined, No)
    <3>1. Whole!After(Half(World(D, S, E), n, Yes, No), op, a)
            = Half(World(Append(D, e), S, E), n, Yes, No)
      BY <1>1, AfterEofAgain
    <3> QED BY <1>3, <2>1, <3>1
  <2> QED BY <1>1, <2>1, <2>2, GoesOn
<1>6. CASE ~input.declined
  <2>1. /\ ~Exhausted /\ Item = Declined /\ input.declined = No
        /\ input' = [input EXCEPT !.next = @ + 1, !.declined = TRUE]
    BY <1>4, <1>6 DEF ReadsEof, No
  <2>2. input.next # Len(a) /\ a[input.next + 1] = Declined
    BY <1>4, <2>1 DEF Exhausted, Item
  <2>3. input'.items = a /\ input'.next = input.next + 1 /\ input'.declined = Yes
    BY <1>4, <2>1 DEF Yes
  <2>4. Whole!After(Half(universe, input.next, input.declined, No), game[at], a)
          = Half(universe', input'.next, input'.declined, No)
    <3>1. Whole!After(Half(World(D, S, E), n, No, No), op, a)
            = Half(World(Append(D, e), S, E), n + 1, Yes, No)
      BY <1>1, <2>2, AfterEof
    <3> QED BY <1>3, <2>1, <2>3, <3>1
  <2> QED BY <1>1, <2>3, <2>4, GoesOn
<1> QED BY <1>5, <1>6

(* and so does one that is answered.                                       *)
LEMMA ReadsItemPlays == ASSUME IInv, PInv, ReadsItem PROVE PInv'
<1> DEFINE D == universe.done
           S == universe.seed
           E == universe.ended
           n == input.next
           op == game[at]
           e == <<op, Item>>
           a == input.items
<1>1. /\ Running({"line", "key"}) /\ game[at] \in {"line", "key"}
      /\ at' = at + 1 /\ UNCHANGED <<game, snapshot, status>>
      /\ universe' = [universe EXCEPT !.done = Append(@, e)]
  BY DEF ReadsItem, Running, Does
<1>2. universe \in Universes
  BY Parts DEF IInv
<1>3. universe = World(universe.done, universe.seed, universe.ended)
      /\ universe' = World(Append(universe.done, e), universe.seed, universe.ended)
  <2> HIDE DEF e
  <2>1. universe' = WithDone(universe, Append(universe.done, e))
    BY <1>1 DEF WithDone
  <2> QED BY <1>2, <2>1, UniverseIsWorld
<1>4. input \in [items : Items, next : Nat, declined : BOOLEAN]
  BY DEF IInv, TypeOK
<1>5. /\ ~Exhausted /\ Item # Declined /\ input.declined = No
      /\ input' = [input EXCEPT !.next = @ + 1]
  BY <1>4 DEF ReadsItem, No
<1>6. input.next # Len(a) /\ Item = a[input.next + 1] /\ a[input.next + 1] # Declined
  BY <1>4, <1>5 DEF Exhausted, Item
<1>7. input'.items = a /\ input'.next = input.next + 1 /\ input'.declined = No
  BY <1>4, <1>5
<1>8. Whole!After(Half(universe, input.next, input.declined, No), game[at], a)
        = Half(universe', input'.next, input'.declined, No)
  <2>1. Whole!After(Half(World(D, S, E), n, No, No), op, a)
          = Half(World(Append(D, <<op, a[n + 1]>>), S, E), n + 1, No, No)
    BY <1>1, <1>6, AfterItem
  <2> QED BY <1>3, <1>5, <1>6, <1>7, <2>1
<1> QED BY <1>1, <1>7, <1>8, GoesOn

(* Every step keeps a running turn on its course.                          *)
LEMMA PlaysOn == IInv /\ IInv' /\ PInv /\ [Next]_vars => PInv'
<1> SUFFICES ASSUME IInv, IInv', PInv, [Next]_vars PROVE PInv'
  OBVIOUS
<1>1. CASE UNCHANGED vars
  <2>1. UNCHANGED <<game, snapshot, universe, at, status>> /\ input' = input
    BY <1>1 DEF vars
  <2>2. Whole!Course(snapshot, input.items)' = Whole!Course(snapshot, input.items)
    BY <2>1, SameCourse
  <2> QED BY <2>1, <2>2 DEF PInv, PlayedSoFar
<1>2. CASE Begin
  <2>1. PICK items \in BoundedSeq(Answers, 1) : Attempt(items)
    BY <1>2 DEF Begin
  <2>2. items \in Items
    <3>1. items \in Seq(Answers) /\ Len(items) <= 1
      BY BoundedIsSeq
    <3>2. items \in Seq(Answers \cup {Declined}) /\ Len(items) <= MaxAnswers
      BY <3>1, TurnAssumption
    <3> QED BY <3>2, SeqIsBounded, TurnAssumption DEF Items
  <2> QED BY <2>1, <2>2, AttemptPlays
<1>3. CASE Answer
  <2>1. PICK item \in Answers \cup {Declined} : Attempt(Append(input.items, item))
    BY <1>3 DEF Answer
  <2>2. Append(input.items, item) \in Items
    <3>1. input'.items \in Items /\ input'.items = Append(input.items, item)
      BY <2>1 DEF Attempt, TurnInput, IInv, TypeOK
    <3> QED BY <3>1
  <2> QED BY <2>1, <2>2, AttemptPlays
<1>4. CASE Rest \/ Save \/ Load \/ Asks \/ Stops \/ Fails \/ Completes
  <2>1. status' # "running"
    BY <1>4 DEF Rest, AtRest, Save, Load, Asks, Stops, Fails, Completes
  <2> QED BY <2>1 DEF PInv
<1>5. CASE Draw
  BY <1>5, DrawPlays
<1>6. CASE ReadsEof
  BY <1>6, ReadsEofPlays
<1>7. CASE ReadsItem
  BY <1>7, ReadsItemPlays
<1> QED BY <1>1, <1>2, <1>3, <1>4, <1>5, <1>6, <1>7 DEF Next

----------------------------------------------------------------------------
(* The refinement. *)

(* The dispatch that finds no seed is WholeTurn's Seed; any other attempt  *)
(* changes nothing that a driver can save.                                 *)
LEMMA AttemptRefines ==
    ASSUME IInv, status # "running", NEW items, Attempt(items)
    PROVE  Whole!Seed \/ UNCHANGED Whole!vars
<1>1. PICK s \in 0..Period-1 :
          /\ universe' = Seeded(universe, s)
          /\ snapshot' = Seeded(universe, s)
  BY TurnAssumption DEF Attempt, IInv, TypeOK, Snapshot
<1> DEFINE w == IF status = "running" THEN snapshot ELSE universe
<1>2. w = universe /\ w' = universe' /\ UNCHANGED <<game, saved>>
  BY <1>1 DEF Attempt
<1>3. CASE rng.seeded
  BY <1>1, <1>2, <1>3 DEF Seeded, Whole!vars
<1>4. CASE ~rng.seeded
  <2>1. universe.seed = NoSeed
    BY <1>4 DEF IInv, SeedIsCarried
  <2>2. w' = [w EXCEPT !.seed = s]
    BY <1>1, <1>2, <1>4 DEF Seeded
  <2> QED BY <1>2, <2>1, <2>2 DEF Whole!Seed
<1> QED BY <1>3, <1>4

(* A turn that ends has done what the whole turn does.                     *)
LEMMA TurnHappens ==
    ASSUME IInv, PInv, status = "running", status' # "running", UNCHANGED <<game, saved>>,
           NEW n, NEW d, NEW b, NEW st, st # "asks",
           Whole!Play(snapshot, input.items) = Stage(universe', n, d, b, st)
    PROVE  Whole!Turn
<1> DEFINE w == IF status = "running" THEN snapshot ELSE universe
           t == Stage(universe', n, d, b, st)
<1>1. w = snapshot /\ w' = universe' /\ ~w.ended /\ w.seed # NoSeed
  BY DEF PInv, PlayedSoFar
<1>2. t.status # "asks" /\ t.world = universe'
  BY StageHolds
<1>3. input.items \in Whole!BoundedSeq(Answers \cup {Declined}, MaxAnswers)
  BY DEF IInv, TypeOK, Items, BoundedSeq, SeqOf, Whole!BoundedSeq, Whole!SeqOf
<1> HIDE DEF t
<1>4. Whole!Play(w, input.items).status # "asks" /\ w' = Whole!Play(w, input.items).world
  BY <1>1, <1>2 DEF t
<1> QED BY <1>1, <1>3, <1>4 DEF Whole!Turn

(* Quitting and failing are the turn's last operation.                     *)
LEMMA EndRefines ==
    ASSUME IInv, PInv, Stops \/ Fails
    PROVE  Whole!Turn
<1> DEFINE a == input.items
           n == input.next
           d == input.declined
           C == Whole!Course(snapshot, a)
           st == IF game[at] = "stop" THEN "complete" ELSE "error"
<1>1. /\ Running({"stop", "fail"}) /\ status = "running" /\ status' # "running"
      /\ UNCHANGED <<game, saved>> /\ game[at] \in {"stop", "fail"}
      /\ universe' = IF game[at] = "stop" THEN [universe EXCEPT !.ended = TRUE] ELSE universe
  BY DEF Stops, Fails, Running
<1>2. /\ at \in 1..Len(game) /\ Len(game) \in Nat
      /\ C[at] = Whole!After(Half(universe, n, d, No), game[at], a)
  BY <1>1, TurnIsHalf
<1>3. universe \in Universes
  BY Parts DEF IInv
<1>4. universe = World(universe.done, universe.seed, universe.ended)
  BY <1>3, UniverseIsWorld
<1>5. C[at] = Stage(universe', n, d, No, st)
  <2>1. CASE game[at] = "stop"
    <3>1. universe' = WithEnded(universe, Yes)
      BY <1>1, <2>1 DEF WithEnded, Yes
    <3>2. universe' = World(universe.done, universe.seed, Yes)
      BY <1>3, <3>1, UniverseIsWorld
    <3> QED BY <1>2, <1>4, <2>1, <3>2, AfterEnd
  <2>2. CASE game[at] = "fail"
    BY <1>1, <1>2, <1>4, <2>2, AfterEnd
  <2> QED BY <1>1, <2>1, <2>2
<1>6. C[at].status = st /\ st \notin {"running", "asks"}
  BY <1>5, StageHolds
<1>7. C[Len(game)] = C[at]
  BY <1>2, <1>6, OverStays
<1>8. Whole!Play(snapshot, a) = C[at]
  <2> HIDE DEF st
  <2> QED BY <1>6, <1>7 DEF Whole!Play
<1> HIDE DEF st
<1> QED BY <1>1, <1>5, <1>6, <1>8, TurnHappens

(* A turn that came to its end has done all of its operations.             *)
LEMMA CompletesRefines ==
    ASSUME IInv, PInv, Completes
    PROVE  Whole!Turn
<1> DEFINE a == input.items
           n == input.next
           d == input.declined
           C == Whole!Course(snapshot, a)
<1>1. /\ status = "running" /\ status' # "running" /\ UNCHANGED <<game, saved, universe>>
      /\ at > Len(game)
  BY DEF Completes
<1>2. PlayedSoFar
  BY <1>1 DEF PInv
<1>3. Len(game) \in Nat
  <2>1. game \in Seq(Operations)
    BY Parts DEF IInv
  <2> QED BY <2>1
<1>4. PICK b \in {No, Yes} : C[Len(game)] = Half(universe, n, d, b)
  <2>1. at \in 1..Len(game)+1 => at-1 = Len(game)
    BY <1>1, <1>3
  <2> QED BY <1>2, <2>1 DEF PlayedSoFar
<1> DEFINE t == Stage(universe, n, d, b, "running")
<1>5. C[Len(game)] = t /\ t.status = "running" /\ WithStatus(t, "complete") = Stage(universe', n, d, b, "complete")
  BY <1>1, <1>4, StageHolds, StageChanges DEF Half
<1>6. Whole!Play(snapshot, a) = Stage(universe', n, d, b, "complete")
  <2> HIDE DEF t
  <2> QED BY <1>5 DEF Whole!Play, WithStatus
<1> QED BY <1>1, <1>6, TurnHappens

(* Every step is a step of whole turns, or changes nothing of them.        *)
LEMMA StepRefines == IInv /\ PInv /\ [Next]_vars => [Whole!Next]_(Whole!vars)
<1> SUFFICES ASSUME IInv, PInv, [Next]_vars PROVE Whole!Next \/ UNCHANGED Whole!vars
  OBVIOUS
<1> DEFINE w == IF status = "running" THEN snapshot ELSE universe
<1>1. CASE UNCHANGED vars
  BY <1>1 DEF vars, Whole!vars
<1>2. CASE Begin \/ Answer
  <2>1. \E items : Attempt(items)
    BY <1>2 DEF Begin, Answer
  <2>2. status # "running"
    BY <1>2 DEF Begin, Answer
  <2> QED BY <2>1, <2>2, AttemptRefines DEF Whole!Next
<1>3. CASE Draw \/ ReadsEof \/ ReadsItem
  BY <1>3 DEF Draw, ReadsEof, ReadsItem, Running, Whole!vars
<1>4. CASE Asks
  BY <1>4 DEF Asks, Running, Whole!vars
<1>5. CASE Rest
  BY <1>5 DEF Rest, AtRest, Whole!vars
<1>6. CASE Save
  <2>1. w = universe /\ w' = universe /\ saved' = universe /\ game' = game
    BY <1>6 DEF Save
  <2> QED BY <2>1 DEF Whole!Save, Whole!Next
<1>7. CASE Load
  <2>1. w' = saved /\ UNCHANGED <<game, saved>>
    BY <1>7 DEF Load, AtRest
  <2> QED BY <2>1 DEF Whole!Load, Whole!Next
<1>8. CASE Stops \/ Fails
  BY <1>8, EndRefines DEF Whole!Next
<1>9. CASE Completes
  BY <1>9, CompletesRefines DEF Whole!Next
<1> QED BY <1>1, <1>2, <1>3, <1>4, <1>5, <1>6, <1>7, <1>8, <1>9 DEF Next

(* Putting back and running again cannot be told from turns played at once, *)
(* with all of their answers, and every save stands between two of them    *)
(* (update_universe.hh:42-44, wasm_api.cc:82-86).                          *)
THEOREM TurnsHappenWholeHolds == Spec => TurnsHappenWhole
<1>1. Init => Whole!Init /\ PInv
  BY DEF Init, Whole!Init, Unplayed, Whole!Unplayed, PInv
<1> QED BY <1>1, Invariance, PlaysOn, StepRefines, PTL DEF Spec, TurnsHappenWhole, Whole!Spec
=============================================================================
