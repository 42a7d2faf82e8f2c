---------------------------- MODULE Page_proofs ----------------------------
(***************************************************************************)
(* Page's safety properties, for any number of games, turns and requests.  *)
(* What has to hold is stated of a page as takeTurn has it (Now), because  *)
(* the actions are built from operators on such pages.  The last part is   *)
(* about what is stored, and has an invariant of its own.                  *)
(***************************************************************************)
EXTENDS Page, TLAPS

Starters == {"start", "start idle"}
Requests == [op : {"get", "put", "drop"}, slug : Games, bytes : Universes \cup {None},
             next : Turns \cup Starters \cup {"nothing"}]
Pages == [universe : Universes \cup {Blank}, busy : BOOLEAN, pending : Turns \cup {None},
          turns : [Turns -> Calls \cup {None}], requests : Seq(Requests), lost : BOOLEAN]

LiveOn(s) == {t \in Turns : s.turns[t] # None}
NoStarter(q) == \A i \in 1..Len(q) : q[i].next \notin Starters

\* One turn at a time, which owns the page and its universe.
TurnsOK(s) ==
    /\ \A t, u \in LiveOn(s) : t = u
    /\ \A t \in LiveOn(s) : s.busy /\ ~s.turns[t].stale /\ s.turns[t].items <= s.turns[t].attempt + 1
    /\ s.pending # None => s.pending \in LiveOn(s)

\* At most one request a turn waits for, and at most one that start() does.
QueueOK(s) ==
    LET q == s.requests
    IN  /\ \A i \in 1..Len(q) : q[i].next \in Turns => q[i].next \in LiveOn(s) /\ s.pending = None
        /\ \A i, j \in 1..Len(q) : q[i].next \in Turns /\ q[j].next \in Turns => i = j
        /\ \A i, j \in 1..Len(q) : q[i].next \in Starters /\ q[j].next \in Starters => i = j
        /\ \A i \in 1..Len(q) : (q[i].op = "put") = (q[i].next \notin Starters)
        /\ \A i \in 1..Len(q) : IF q[i].op = "put" THEN q[i].bytes \in Universes ELSE q[i].bytes = None
        /\ \A i \in 1..Len(q) : q[i].next = "start" => s.busy

\* No universe is brought in twice, nor while a turn is in progress.
BringingOK(s, load) ==
    /\ LiveOn(s) # {} => load = None /\ NoStarter(s.requests)
    /\ load # None => /\ NoStarter(s.requests)
                      /\ load.idle \/ s.busy
                      /\ load.at = "source" => ~load.idle

\* What belongs to a game is that game's.
GamesOK(s, cur, load, st) ==
    /\ s.universe # Blank /\ (load = None \/ load.at = "file") => s.universe.game = cur
    /\ load # None => load.game = cur /\ load.bytes.game = cur
    /\ \A i \in 1..Len(s.requests) :
          s.requests[i].op = "put" => s.requests[i].bytes.game = s.requests[i].slug
    /\ \A g \in Games : st[g] # None => st[g].game = g

Sound(s, cur, load, st, fails) ==
    /\ s \in Pages /\ cur \in Games /\ load \in Loads \cup {None}
    /\ st \in [Games -> Universes \cup {None}] /\ fails \subseteq {"fetch", "read"}
    /\ TurnsOK(s) /\ QueueOK(s) /\ BringingOK(s, load)
    /\ "fetch" \notin fails => GamesOK(s, cur, load, st)

IInv == Sound(Now, current, loading, stored, failed)

LEMMA Distinct ==
  /\ None \notin Turns /\ None \notin Games /\ None \notin Universes
  /\ None \notin Calls /\ None \notin Loads /\ Blank \notin Universes
  /\ "nothing" \notin Turns /\ "start" \notin Turns /\ "start idle" \notin Turns
  BY PageAssumption, TurnsAssumption, TokensAssumption

LEMMA VersionBound == MaxVersion \in Nat /\ MaxVersion >= 1
<1>1. MaxVersion \in Nat \ {0}
  BY PageAssumption
<1>2. QED
  BY <1>1

----------------------------------------------------------------------------
(* The operators the actions are built from. *)

LEMMA ChangedIsSameGame ==
  ASSUME NEW u \in Universes, NEW v \in Changed(u)
  PROVE  v \in Universes /\ v.game = u.game
<1>1. PICK e \in BOOLEAN : v = [u EXCEPT !.version = IF @ = MaxVersion THEN 1 ELSE @ + 1, !.ended = e]
  BY DEF Changed
<1>2. u.version \in 0..MaxVersion
  BY DEF Universes
<1>3. (IF u.version = MaxVersion THEN 1 ELSE u.version + 1) \in 0..MaxVersion
  BY <1>2, VersionBound
<1>4. QED
  BY <1>1, <1>3 DEF Universes

(* A page that came of an action is the page of the next state. *)
LEMMA Lands ==
  ASSUME NEW r \in Pages, Becomes(r), Sound(r, current', loading', stored', failed')
  PROVE  IInv'
<1>1. Now' = r
  BY DEF Becomes, Now, Pages
<1>2. QED
  BY <1>1 DEF IInv

LEMMA NowIsPage == ASSUME IInv PROVE Now \in Pages /\ Live = LiveOn(Now)
  BY DEF IInv, Sound, Now, Live, LiveOn

(* One request more. *)
LEMMA Appending ==
  ASSUME NEW q \in Seq(Requests), NEW x \in Requests
  PROVE  /\ Append(q, x) \in Seq(Requests)
         /\ Len(Append(q, x)) = Len(q) + 1
         /\ \A i \in 1..Len(Append(q, x)) :
               Append(q, x)[i] = IF i = Len(q) + 1 THEN x ELSE q[i]
  OBVIOUS

(* One request less. *)
LEMMA Answering ==
  ASSUME NEW q \in Seq(Requests), q # <<>>
  PROVE  /\ Head(q) \in Requests /\ Head(q) = q[1] /\ 1 \in 1..Len(q)
         /\ Tail(q) \in Seq(Requests)
         /\ \A i \in 1..Len(Tail(q)) : i + 1 \in 1..Len(q) /\ Tail(q)[i] = q[i + 1] /\ i + 1 # 1
  OBVIOUS

----------------------------------------------------------------------------
(* A turn, from one wait to the next. *)

\* A page on which a turn runs: nothing waits, for the turn or for start().
Running(t, call, s) ==
    /\ s \in Pages /\ t \in Turns /\ call \in Calls
    /\ ~call.stale /\ call.items <= call.attempt + 1
    /\ s.busy /\ s.pending = None /\ LiveOn(s) \subseteq {t}
    /\ QueueOK(s) /\ NoStarter(s.requests)
    /\ \A i \in 1..Len(s.requests) : s.requests[i].next \notin Turns

\* What the page is when the turn waits again, or is over.
Rests(r) == r \in Pages /\ TurnsOK(r) /\ QueueOK(r) /\ BringingOK(r, None)

(* The page the turn leaves has that turn and no other. *)
LEMMA OnlyTurn ==
  ASSUME NEW t, NEW call, NEW s, Running(t, call, s),
         NEW r, r.turns[t] = call, \A u \in Turns \ {t} : r.turns[u] = s.turns[u]
  PROVE  LiveOn(r) = {t}
<1>1. t \in Turns /\ call # None
  BY Distinct DEF Running
<1>2. \A u \in Turns \ {t} : r.turns[u] = None
  BY DEF Running, LiveOn
<1>3. QED
  BY <1>1, <1>2 DEF LiveOn

LEMMA AsksRests ==
  ASSUME NEW t, NEW call, NEW s, Running(t, call, s), NEW r \in Asks(t, call, s)
  PROVE  Rests(r) /\ r.requests = s.requests /\ r.universe = s.universe
<1>1. r = [s EXCEPT !.turns[t] = call, !.pending = t]
  BY DEF Asks
<1>2. /\ r \in Pages /\ r.requests = s.requests /\ r.universe = s.universe /\ r.busy
      /\ r.pending = t /\ r.turns = [s.turns EXCEPT ![t] = call]
  BY <1>1 DEF Running, Pages
<1> r.turns[t] = call /\ \A v \in Turns \ {t} : r.turns[v] = s.turns[v]
  BY <1>2 DEF Running, Pages
<1> LiveOn(r) = {t}
  BY OnlyTurn
<1>3. TurnsOK(r)
  BY <1>2 DEF TurnsOK, Running
<1>4. QueueOK(r)
  BY <1>2 DEF QueueOK, Running
<1>5. BringingOK(r, None)
  BY <1>2 DEF BringingOK, Running
<1>6. QED
  BY <1>2, <1>3, <1>4, <1>5 DEF Rests

\* The turn t has left the page s, which is r now.
Left(t, s, r) ==
    /\ r \in Pages /\ r.requests = s.requests /\ r.busy = FALSE /\ r.pending = None
    /\ r.turns[t] = None /\ \A v \in Turns \ {t} : r.turns[v] = s.turns[v]

LEMMA LeaveRests ==
  ASSUME NEW t, NEW call, NEW s, Running(t, call, s), NEW r, Left(t, s, r)
  PROVE  Rests(r)
<1>1. LiveOn(r) = {}
  BY DEF Running, LiveOn, Left
<1>2. QueueOK(r)
  BY <1>1 DEF QueueOK, Running, NoStarter, Starters, Left
<1>3. TurnsOK(r) /\ BringingOK(r, None)
  BY <1>1 DEF TurnsOK, BringingOK, Left
<1>4. QED
  BY <1>2, <1>3 DEF Rests, Left

LEMMA CompletesRests ==
  ASSUME NEW t, NEW call, NEW s, Running(t, call, s), NEW g \in Games,
         NEW r \in Completes(t, call, g, s)
  PROVE  \E u \in Changed(s.universe) :
            /\ s.universe \in Universes /\ Rests(r) /\ r.universe = u
            /\ r.requests = Append(s.requests, Put(g, u, t))
<1>1. s.universe \in Universes
  BY DEF Completes, Runs, Running, Pages
<1>2. PICK u \in Changed(s.universe) :
        r = [s EXCEPT !.universe = u, !.turns[t] = call, !.requests = Append(@, Put(g, u, t))]
  BY DEF Completes
<1>3. u \in Universes
  BY <1>1, ChangedIsSameGame
<1> DEFINE x == Put(g, u, t)
           q == s.requests
<1>4. x \in Requests /\ x.op = "put" /\ x.bytes = u /\ x.slug = g /\ x.next = t
  BY <1>3 DEF Put, Request, Requests, Running
<1>5. q \in Seq(Requests)
  BY DEF Running, Pages
<1>6. /\ Append(q, x) \in Seq(Requests) /\ Len(Append(q, x)) = Len(q) + 1
      /\ \A i \in 1..Len(Append(q, x)) : Append(q, x)[i] = IF i = Len(q) + 1 THEN x ELSE q[i]
  BY <1>4, <1>5, Appending
<1>7. /\ r \in Pages /\ r.requests = Append(q, x) /\ r.universe = u /\ r.busy
      /\ r.pending = None /\ r.turns = [s.turns EXCEPT ![t] = call]
  BY <1>2, <1>3, <1>6 DEF Running, Pages
<1> r.turns[t] = call /\ \A v \in Turns \ {t} : r.turns[v] = s.turns[v]
  BY <1>7 DEF Running, Pages
<1> LiveOn(r) = {t}
  BY OnlyTurn
<1>8. ASSUME NEW i \in 1..Len(r.requests)
      PROVE  r.requests[i] = x \/ (i \in 1..Len(q) /\ r.requests[i] = q[i])
  <2>1. Len(q) \in Nat /\ i \in 1..(Len(q) + 1)
    BY <1>5, <1>6, <1>7
  <2>2. r.requests[i] = IF i = Len(q) + 1 THEN x ELSE q[i]
    BY <1>6, <1>7
  <2>3. QED
    BY <2>1, <2>2
<1>9. NoStarter(r.requests)
  <2>1. x.next \notin Starters
    BY <1>4, TurnsAssumption DEF Starters, Running
  <2>2. QED
    BY <1>8, <2>1 DEF NoStarter, Running
<1>10. QueueOK(r)
  <2>1. \A i \in 1..Len(r.requests) : r.requests[i].next \in Turns => i = Len(q) + 1
    BY <1>5, <1>6, <1>7 DEF Running
  <2>2. \A i \in 1..Len(r.requests) : r.requests[i].op = "put" /\ r.requests[i].bytes \in Universes
    BY <1>3, <1>4, <1>8 DEF QueueOK, Running, NoStarter
  <2>3. \A i \in 1..Len(r.requests) : r.requests[i].next \in Turns => r.requests[i].next = t
    BY <1>4, <1>8 DEF Running
  <2>4. QED
    BY <1>7, <1>9, <2>1, <2>2, <2>3 DEF QueueOK, NoStarter
<1>11. TurnsOK(r)
  BY <1>7, Distinct DEF TurnsOK, Running
<1>12. BringingOK(r, None)
  BY <1>9 DEF BringingOK
<1>13. QED
  BY <1>1, <1>7, <1>10, <1>11, <1>12 DEF Rests

\* What a turn does to the games: it changes its own, and asks to keep that.
LEMMA ErrsRests ==
  ASSUME NEW t, NEW call, NEW s, Running(t, call, s), NEW r \in Errs(t, s)
  PROVE  /\ Rests(r) /\ r.requests = s.requests
         /\ r.universe = s.universe \/ (s.universe \in Universes /\ r.universe \in Changed(s.universe))
<1>1. s.universe \in Universes \cup {Blank} /\ s.lost \in BOOLEAN
  BY DEF Running, Pages
<1>2. CASE r = Leave(t, s)
  <2>1. /\ r \in Pages /\ r.requests = s.requests /\ ~r.busy /\ r.pending = None
        /\ r.universe = s.universe /\ r.turns = [s.turns EXCEPT ![t] = None]
    BY <1>2 DEF Leave, Running, Pages
  <2>2. r.turns[t] = None /\ \A v \in Turns \ {t} : r.turns[v] = s.turns[v]
    BY <2>1 DEF Running, Pages
  <2>3. Left(t, s, r)
    BY <2>1, <2>2 DEF Left
  <2>4. QED
    BY <2>1, <2>3, LeaveRests
<1>3. CASE \E u \in IF Runs(s) THEN Changed(s.universe) ELSE {} :
              r = [Leave(t, s) EXCEPT !.universe = u, !.lost = TRUE]
  <2>1. PICK u \in IF Runs(s) THEN Changed(s.universe) ELSE {} :
                r = [Leave(t, s) EXCEPT !.universe = u, !.lost = TRUE]
    BY <1>3
  <2>2. s.universe \in Universes /\ u \in Changed(s.universe)
    BY <1>1, <2>1 DEF Runs
  <2>3. u \in Universes
    BY <2>2, ChangedIsSameGame
  <2>4. /\ r \in Pages /\ r.requests = s.requests /\ ~r.busy /\ r.pending = None
        /\ r.universe = u /\ r.turns = [s.turns EXCEPT ![t] = None]
    BY <2>1, <2>3 DEF Leave, Running, Pages
  <2>5. r.turns[t] = None /\ \A v \in Turns \ {t} : r.turns[v] = s.turns[v]
    BY <2>4 DEF Running, Pages
  <2>6. Left(t, s, r)
    BY <2>4, <2>5 DEF Left
  <2>7. QED
    BY <2>2, <2>4, <2>6, LeaveRests
<1>4. QED
  BY <1>2, <1>3 DEF Errs

LEMMA AttemptRests ==
  ASSUME NEW t, NEW call, NEW s, Running(t, call, s), current \in Games,
         NEW declined, NEW r \in Attempt(t, call, declined, s), NEW st
  PROVE  Rests(r) /\ (GamesOK(s, current, None, st) => GamesOK(r, current, None, st))
<1>1. CASE r \in Asks(t, call, s)
  BY <1>1, AsksRests DEF GamesOK
<1>2. CASE r \in Errs(t, s)
  <2>1. /\ Rests(r) /\ r.requests = s.requests
        /\ r.universe = s.universe \/ (s.universe \in Universes /\ r.universe.game = s.universe.game)
    BY <1>2, ErrsRests, ChangedIsSameGame
  <2>2. QED
    BY <2>1, Distinct DEF GamesOK
<1>3. CASE r \in Completes(t, call, current, s)
  <2>1. PICK u \in Changed(s.universe) :
           /\ s.universe \in Universes /\ Rests(r) /\ r.universe = u
           /\ r.requests = Append(s.requests, Put(current, u, t))
    BY <1>3, CompletesRests
  <2>2. u \in Universes /\ u.game = s.universe.game
    BY <2>1, ChangedIsSameGame
  <2> DEFINE x == Put(current, u, t)
  <2>3. x \in Requests /\ x.bytes = u /\ x.slug = current
    BY <2>2 DEF Put, Request, Requests, Running
  <2>4. s.requests \in Seq(Requests)
    BY DEF Running, Pages
  <2>5. ASSUME GamesOK(s, current, None, st) PROVE GamesOK(r, current, None, st)
    <3>1. s.universe.game = current
      BY <2>1, <2>5, Distinct DEF GamesOK
    <3>2. ASSUME NEW i \in 1..Len(r.requests), r.requests[i].op = "put"
          PROVE  r.requests[i].bytes.game = r.requests[i].slug
      <4>1. /\ i \in 1..(Len(s.requests) + 1) /\ Len(s.requests) \in Nat
            /\ r.requests[i] = IF i = Len(s.requests) + 1 THEN x ELSE s.requests[i]
        BY <2>1, <2>3, <2>4, <3>2, Appending
      <4>2. CASE i = Len(s.requests) + 1
        BY <2>2, <2>3, <3>1, <4>1, <4>2
      <4>3. CASE i # Len(s.requests) + 1
        BY <2>5, <3>2, <4>1, <4>3 DEF GamesOK
      <4>4. QED
        BY <4>2, <4>3
    <3>3. QED
      BY <2>1, <2>2, <2>5, <3>1, <3>2 DEF GamesOK
  <2>6. QED
    BY <2>1, <2>5
<1>4. QED
  BY <1>1, <1>2, <1>3 DEF Attempt

(* A step of a turn, when nothing else is going on. *)
LEMMA TurnStep ==
  ASSUME IInv, loading' = None, UNCHANGED <<current, failed>>,
         stored' \in [Games -> Universes \cup {None}],
         NEW r, Rests(r), Becomes(r),
         "fetch" \notin failed => GamesOK(r, current, None, stored')
  PROVE  IInv'
<1>1. r \in Pages
  BY DEF Rests
<1>2. Sound(r, current', loading', stored', failed')
  BY DEF IInv, Sound, Rests
<1>3. QED
  BY <1>1, <1>2, Lands

----------------------------------------------------------------------------
(* The player. *)

(* The question on the screen is the only turn's, and nothing else waits. *)
LEMMA AnsweredTurnRuns ==
  ASSUME IInv, pending # None, NEW call \in Calls,
         ~call.stale, call.items <= call.attempt + 1,
         NEW s, s = [Now EXCEPT !.pending = None]
  PROVE  Running(pending, call, s) /\ s.requests = requests /\ s.universe = universe
<1>1. /\ Now \in Pages /\ TurnsOK(Now) /\ QueueOK(Now) /\ BringingOK(Now, loading)
  BY DEF IInv, Sound
<1>2. pending \in Turns /\ pending \in LiveOn(Now)
  BY <1>1 DEF Now, Pages, TurnsOK
<1>3. /\ s \in Pages /\ s.pending = None /\ s.busy = busy /\ s.turns = turns
      /\ s.requests = requests /\ s.universe = universe
  BY <1>1 DEF Now, Pages
<1>4. s.busy /\ LiveOn(s) \subseteq {pending}
  BY <1>1, <1>2, <1>3 DEF TurnsOK, LiveOn, Now
<1>5. NoStarter(s.requests)
  BY <1>1, <1>2, <1>3 DEF BringingOK, Now
<1>6. \A i \in 1..Len(s.requests) : s.requests[i].next \notin Turns
  BY <1>1, <1>3 DEF QueueOK, Now
<1>7. QueueOK(s)
  BY <1>1, <1>3, <1>4, <1>6 DEF QueueOK, Now
<1>8. QED
  BY <1>2, <1>3, <1>4, <1>5, <1>6, <1>7 DEF Running

LEMMA LeaveIsRest ==
  ASSUME NEW t, NEW call, NEW s, Running(t, call, s), NEW r, r = Leave(t, s)
  PROVE  Rests(r) /\ r.requests = s.requests /\ r.universe = s.universe
<1>1. /\ r \in Pages /\ r.requests = s.requests /\ r.busy = FALSE /\ r.pending = None
      /\ r.universe = s.universe /\ r.turns = [s.turns EXCEPT ![t] = None]
  BY DEF Leave, Running, Pages
<1>2. r.turns[t] = None /\ \A v \in Turns \ {t} : r.turns[v] = s.turns[v]
  BY <1>1 DEF Running, Pages
<1>3. Left(t, s, r)
  BY <1>1, <1>2 DEF Left
<1>4. QED
  BY <1>1, <1>3, LeaveRests

LEMMA AnotherAttempt ==
  ASSUME NEW c \in Calls, ~c.stale, c.items <= c.attempt + 1, c.attempt # MAX_PROMPTS
  PROVE  LET again == [[c EXCEPT !.items = @ + 1, !.asked = TRUE] EXCEPT !.attempt = @ + 1]
         IN  again \in Calls /\ ~again.stale /\ again.items <= again.attempt + 1
<1>1. MAX_PROMPTS \in Nat
  BY PageAssumption
<1>2. /\ c.items \in Nat /\ c.attempt \in 0..MAX_PROMPTS /\ c.quiet \in 0..MAX_QUIET_TURNS
      /\ c.stale \in BOOLEAN
  BY DEF Calls
<1>3. c.attempt + 1 \in 0..MAX_PROMPTS /\ c.items + 1 \in 0..MAX_PROMPTS + 2
  BY <1>1, <1>2
<1> DEFINE first == [c EXCEPT !.items = @ + 1, !.asked = TRUE]
           again == [first EXCEPT !.attempt = @ + 1]
<1>4. first \in Calls /\ first.items = c.items + 1 /\ first.attempt = c.attempt /\ first.stale = c.stale
  BY <1>3 DEF Calls
<1> HIDE DEF first
<1>5. /\ again \in Calls /\ again.items = c.items + 1 /\ again.attempt = c.attempt + 1
      /\ again.stale = c.stale
  BY <1>3, <1>4 DEF Calls
<1>6. again.items <= again.attempt + 1
  BY <1>2, <1>5
<1>7. QED
  BY <1>5, <1>6 DEF first

LEMMA AnswerStep == ASSUME IInv, Answer PROVE IInv'
<1>1. PICK declines \in BOOLEAN :
        LET call == [turns[pending] EXCEPT !.items = @ + 1, !.asked = TRUE]
            s == [Now EXCEPT !.pending = None]
        IN  \E r \in IF call.attempt = MAX_PROMPTS
                     THEN {Leave(pending, s)}
                     ELSE Attempt(pending, [call EXCEPT !.attempt = @ + 1], declines, s) :
              Becomes(r)
  BY DEF Answer
<1> DEFINE old == turns[pending]
           call == [turns[pending] EXCEPT !.items = @ + 1, !.asked = TRUE]
           again == [call EXCEPT !.attempt = @ + 1]
           s == [Now EXCEPT !.pending = None]
<1>2. /\ pending # None /\ Now \in Pages /\ TurnsOK(Now) /\ BringingOK(Now, loading)
      /\ current \in Games /\ stored \in [Games -> Universes \cup {None}]
      /\ "fetch" \notin failed => GamesOK(Now, current, loading, stored)
  BY DEF Answer, IInv, Sound
<1>3. pending \in LiveOn(Now) /\ pending \in Turns /\ turns = Now.turns
  BY <1>2 DEF TurnsOK, Now, Pages
<1>4. old \in Calls /\ ~old.stale /\ old.items <= old.attempt + 1
  BY <1>2, <1>3 DEF TurnsOK, Pages, LiveOn
<1>5. loading = None /\ loading' = None /\ UNCHANGED <<current, stored, failed>>
  BY <1>2, <1>3 DEF BringingOK, Answer
<1>6. Running(pending, old, s) /\ s.requests = requests /\ s.universe = universe
  BY <1>2, <1>4, AnsweredTurnRuns
<1>7. "fetch" \notin failed => GamesOK(s, current, None, stored)
  BY <1>2, <1>5, <1>6 DEF GamesOK, Now
<1>8. CASE call.attempt = MAX_PROMPTS
  <2>1. Becomes(Leave(pending, s))
    BY <1>1, <1>8
  <2> DEFINE r == Leave(pending, s)
  <2>2. Rests(r) /\ r.requests = s.requests /\ r.universe = s.universe
    BY <1>6, LeaveIsRest, ZenonT(30)
  <2> HIDE DEF s, old, call
  <2>3. "fetch" \notin failed => GamesOK(r, current, None, stored)
    BY <1>7, <2>2 DEF GamesOK
  <2>4. QED
    BY <1>2, <1>5, <2>1, <2>2, <2>3, TurnStep
<1>9. CASE call.attempt # MAX_PROMPTS
  <2>1. PICK r \in Attempt(pending, again, declines, s) : Becomes(r)
    BY <1>1, <1>9
  <2>2. old.attempt # MAX_PROMPTS
    BY <1>4, <1>9 DEF Calls
  <2>3. again \in Calls /\ ~again.stale /\ again.items <= again.attempt + 1
    BY <1>4, <2>2, AnotherAttempt
  <2>4. Running(pending, again, s)
    BY <1>2, <2>3, AnsweredTurnRuns
  <2> HIDE DEF s, old, call, again
  <2>5. Rests(r) /\ (GamesOK(s, current, None, stored) => GamesOK(r, current, None, stored))
    BY <1>2, <2>1, <2>4, AttemptRests
  <2>6. QED
    BY <1>2, <1>5, <1>7, <2>1, <2>5, TurnStep
<1>10. QED
  BY <1>8, <1>9

(* An idle page that the player may use has nothing under way. *)
LEMMA IdleIsFree ==
  ASSUME IInv, ~busy, Patience
  PROVE  LiveOn(Now) = {} /\ loading = None /\ NoStarter(requests)
<1>1. /\ TurnsOK(Now) /\ QueueOK(Now) /\ BringingOK(Now, loading) /\ Now \in Pages
  BY DEF IInv, Sound
<1>2. LiveOn(Now) = {}
  BY <1>1 DEF TurnsOK, Now
<1>3. loading = None
  BY <1>1 DEF BringingOK, Patience, Now
<1>4. NoStarter(requests)
  <2>1. ASSUME NEW i \in 1..Len(requests) PROVE requests[i].next \notin Starters
    <3>1. requests \in Seq(Requests)
      BY <1>1 DEF Pages, Now
    <3>2. i \in DOMAIN requests
      BY <3>1
    <3>3. requests[i].next # "start idle"
      BY <3>2 DEF Patience
    <3>4. requests[i].next # "start"
      BY <1>1 DEF QueueOK, Now
    <3>5. QED
      BY <3>3, <3>4 DEF Starters
  <2>2. QED
    BY <2>1 DEF NoStarter
<1>5. QED
  BY <1>2, <1>3, <1>4

LEMMA NewTurnIsIdle == ASSUME Live = {} PROVE NewTurn \in Turns
<1>1. \E t \in Turns : t \notin Live
  BY TurnsAssumption
<1>2. QED
  BY <1>1 DEF NewTurn

LEMMA CallIsCall ==
  ASSUME NEW n \in {0, 1}
  PROVE  Call(n) \in Calls /\ ~Call(n).stale /\ Call(n).items <= Call(n).attempt + 1
<1>1. MAX_PROMPTS \in Nat /\ MAX_QUIET_TURNS \in Nat
  BY PageAssumption
<1>2. QED
  BY <1>1 DEF Call, Calls

LEMMA CommandRuns ==
  ASSUME IInv, Command, NEW s, s = [Now EXCEPT !.busy = TRUE]
  PROVE  /\ Running(NewTurn, Call(1), s) /\ loading = None
         /\ s.requests = requests /\ s.universe = universe /\ s.lost = lost
<1>1. /\ Now \in Pages /\ QueueOK(Now)
  BY DEF IInv, Sound
<1>2. LiveOn(Now) = {} /\ loading = None /\ NoStarter(requests)
  BY IdleIsFree DEF Command
<1>3. Live = {}
  BY <1>2, NowIsPage
<1>4. NewTurn \in Turns
  BY <1>3, NewTurnIsIdle
<1>5. /\ s \in Pages /\ s.busy /\ s.pending = None /\ LiveOn(s) = {}
      /\ s.requests = requests /\ s.universe = universe /\ s.lost = lost
  BY <1>1, <1>2 DEF Now, Pages, LiveOn, Command
<1>6. \A i \in 1..Len(s.requests) : s.requests[i].next \notin Turns
  BY <1>1, <1>2, <1>5 DEF QueueOK, Now
<1>7. QueueOK(s)
  BY <1>1, <1>5, <1>6 DEF QueueOK, Now
<1>8. Running(NewTurn, Call(1), s)
  BY <1>2, <1>4, <1>5, <1>6, <1>7, CallIsCall DEF Running
<1>9. QED
  BY <1>2, <1>5, <1>8

LEMMA CommandStep == ASSUME IInv, Command PROVE IInv'
<1> DEFINE s == [Now EXCEPT !.busy = TRUE]
<1>1. /\ current \in Games /\ stored \in [Games -> Universes \cup {None}]
      /\ "fetch" \notin failed => GamesOK(Now, current, loading, stored)
  BY DEF IInv, Sound
<1>2. /\ Running(NewTurn, Call(1), s) /\ loading = None
      /\ s.requests = requests /\ s.universe = universe
  BY CommandRuns
<1>3. PICK r \in Attempt(NewTurn, Call(1), FALSE, s) : Becomes(r)
  BY DEF Command
<1>4. "fetch" \notin failed => GamesOK(s, current, None, stored)
  BY <1>1, <1>2 DEF GamesOK, Now
<1>5. loading' = None /\ UNCHANGED <<current, stored, failed>>
  BY <1>2 DEF Command
<1> HIDE DEF s
<1>6. Rests(r) /\ (GamesOK(s, current, None, stored) => GamesOK(r, current, None, stored))
  BY <1>1, <1>2, <1>3, AttemptRests
<1>7. QED
  BY <1>1, <1>3, <1>4, <1>5, <1>6, TurnStep

----------------------------------------------------------------------------
(* The controls that replace the universe. *)

\* A page that nothing holds: no turn, and no universe on its way.
Free(s) ==
    /\ s \in Pages /\ s.pending = None /\ LiveOn(s) = {} /\ NoStarter(s.requests)
    /\ QueueOK(s) /\ \A i \in 1..Len(s.requests) : s.requests[i].next \notin Turns

(* A control that is let through finds, or makes, such a page. *)
LEMMA ControlFrees ==
  ASSUME IInv, Control, NEW s, s = Abandon(Now)
  PROVE  /\ Free(s) /\ loading = None
         /\ s.requests = requests /\ s.universe = universe /\ s.busy = busy
<1>1. /\ Now \in Pages /\ TurnsOK(Now) /\ QueueOK(Now) /\ BringingOK(Now, loading)
  BY DEF IInv, Sound
<1>2. CASE pending = None
  <2>1. s = Now
    BY <1>2 DEF Abandon, Now
  <2>2. ~busy /\ Patience
    BY <1>2 DEF Control, Interrupting
  <2>3. LiveOn(s) = {} /\ loading = None /\ NoStarter(requests)
    BY <2>1, <2>2, IdleIsFree
  <2>4. \A i \in 1..Len(s.requests) : s.requests[i].next \notin Turns
    BY <1>1, <2>1, <2>3 DEF QueueOK
  <2>5. QED
    BY <1>1, <1>2, <2>1, <2>3, <2>4 DEF Free, Now
<1>3. CASE pending # None
  <2>1. s = [universe |-> universe, busy |-> busy, pending |-> None,
             turns |-> [turns EXCEPT ![pending] = None], requests |-> requests, lost |-> lost]
    BY <1>3 DEF Abandon, Now
  <2>2. /\ s \in Pages /\ s.pending = None /\ s.requests = requests /\ s.universe = universe
        /\ s.busy = busy /\ s.turns = [turns EXCEPT ![pending] = None]
    <3>1. /\ universe \in Universes \cup {Blank} /\ busy \in BOOLEAN /\ lost \in BOOLEAN
          /\ turns \in [Turns -> Calls \cup {None}] /\ requests \in Seq(Requests)
      BY <1>1 DEF Now, Pages
    <3>2. [turns EXCEPT ![pending] = None] \in [Turns -> Calls \cup {None}]
      BY <3>1
    <3> DEFINE rest == [turns EXCEPT ![pending] = None]
    <3> HIDE DEF rest
    <3>3. QED
      BY <2>1, <3>1, <3>2 DEF Pages, rest
  <2>3. pending \in LiveOn(Now) /\ turns \in [Turns -> Calls \cup {None}]
    BY <1>1, <1>3 DEF TurnsOK, Now, Pages
  <2>4. \A t \in LiveOn(Now) : t = pending
    BY <1>1, <2>3 DEF TurnsOK
  <2>5. LiveOn(s) = {}
    BY <2>2, <2>3, <2>4 DEF LiveOn, Now
  <2>6. loading = None /\ NoStarter(requests)
    BY <1>1, <2>3 DEF BringingOK, Now
  <2>7. \A i \in 1..Len(s.requests) : s.requests[i].next \notin Turns
    BY <1>1, <1>3, <2>2 DEF QueueOK, Now
  <2>8. QueueOK(s)
    BY <1>1, <2>2, <2>7 DEF QueueOK, Now
  <2>9. QED
    BY <2>2, <2>5, <2>6, <2>7, <2>8 DEF Free
<1>4. QED
  BY <1>2, <1>3

(* Storage is asked for something by a start() that begins. *)
LEMMA BeginningIsSound ==
  ASSUME IInv, NEW s, Free(s), s.requests = requests, s.universe = universe, s.busy = busy,
         loading = None, NEW op \in {"get", "drop"}, NEW g \in Games,
         NEW r, r = [s EXCEPT !.requests = Append(@, Request(op, g, None, Starter))],
         Becomes(r), UNCHANGED <<current, loading, stored, failed>>
  PROVE  IInv'
<1> DEFINE x == Request(op, g, None, Starter)
           q == s.requests
<1>1. /\ x \in Requests /\ x.op = op /\ x.bytes = None /\ x.next \in Starters
      /\ x.next = "start" => s.busy
  BY DEF Request, Requests, Starter, Starters
<1>2. q \in Seq(Requests) /\ s \in Pages
  BY DEF Free, Pages
<1>3. /\ Append(q, x) \in Seq(Requests) /\ Len(Append(q, x)) = Len(q) + 1
      /\ \A i \in 1..Len(Append(q, x)) : Append(q, x)[i] = IF i = Len(q) + 1 THEN x ELSE q[i]
  BY <1>1, <1>2, Appending
<1>4. /\ r \in Pages /\ r.requests = Append(q, x) /\ r.universe = s.universe
      /\ r.busy = s.busy /\ r.pending = None /\ r.turns = s.turns
  BY <1>2, <1>3 DEF Free, Pages
<1> HIDE DEF x
<1>5. LiveOn(r) = {}
  BY <1>4 DEF Free, LiveOn
<1>6. ASSUME NEW i \in 1..Len(r.requests)
      PROVE  \/ i = Len(q) + 1 /\ r.requests[i] = x
             \/ i \in 1..Len(q) /\ r.requests[i] = q[i]
  <2>1. Len(q) \in Nat /\ i \in 1..(Len(q) + 1)
    BY <1>2, <1>3, <1>4
  <2>2. r.requests[i] = IF i = Len(q) + 1 THEN x ELSE q[i]
    BY <1>3, <1>4
  <2>3. QED
    BY <2>1, <2>2
<1>7. QueueOK(r)
  <2>1. x.next \notin Turns /\ x.op # "put"
    BY <1>1, Distinct DEF Starters
  <2>2. \A i \in 1..Len(r.requests) : r.requests[i].next \notin Turns
    BY <1>6, <2>1 DEF Free
  <2>3. \A i \in 1..Len(r.requests) : r.requests[i].next \in Starters => i = Len(q) + 1
    BY <1>6 DEF Free, NoStarter
  <2>4. \A i \in 1..Len(r.requests) :
          /\ (r.requests[i].op = "put") = (r.requests[i].next \notin Starters)
          /\ IF r.requests[i].op = "put" THEN r.requests[i].bytes \in Universes
             ELSE r.requests[i].bytes = None
    BY <1>1, <1>6, <2>1 DEF Free, QueueOK
  <2>5. \A i \in 1..Len(r.requests) : r.requests[i].next = "start" => r.busy
    BY <1>1, <1>4, <1>6 DEF Free, NoStarter, Starters
  <2>6. QED
    BY <2>2, <2>3, <2>4, <2>5 DEF QueueOK
<1>8. /\ current' \in Games /\ loading' = None
      /\ stored' \in [Games -> Universes \cup {None}] /\ failed' \subseteq {"fetch", "read"}
  BY DEF IInv, Sound
<1>9. TurnsOK(r) /\ BringingOK(r, loading')
  BY <1>4, <1>5, <1>8 DEF TurnsOK, BringingOK
<1>10. "fetch" \notin failed' => GamesOK(r, current', loading', stored')
  <2>1. "fetch" \notin failed => GamesOK(Now, current, None, stored)
    BY DEF IInv, Sound
  <2>2. \A i \in 1..Len(r.requests) :
          r.requests[i].op = "put" => i \in 1..Len(q) /\ r.requests[i] = q[i]
    BY <1>1, <1>6
  <2>3. QED
    BY <1>4, <1>8, <2>1, <2>2 DEF GamesOK, Now
<1>11. QED
  BY <1>4, <1>7, <1>8, <1>9, <1>10, Lands DEF Sound

LEMMA ChangeGameStep == ASSUME IInv, NEW g \in Games, ChangeGame(g) PROVE IInv'
<1> DEFINE s == Abandon(Now)
<1>1. /\ Free(s) /\ loading = None
      /\ s.requests = requests /\ s.universe = universe /\ s.busy = busy
  BY ControlFrees DEF ChangeGame
<1>2. /\ Becomes([s EXCEPT !.requests = Append(@, Request("get", g, None, Starter))])
      /\ UNCHANGED <<current, loading, stored, failed>>
  BY DEF ChangeGame
<1> HIDE DEF s
<1>3. QED
  BY <1>1, <1>2, BeginningIsSound

LEMMA RestartStep == ASSUME IInv, Restart PROVE IInv'
<1> DEFINE s == Abandon(Now)
<1>1. /\ Free(s) /\ loading = None
      /\ s.requests = requests /\ s.universe = universe /\ s.busy = busy
  BY ControlFrees DEF Restart
<1>2. /\ Becomes([s EXCEPT !.requests = Append(@, Request("drop", current, None, Starter))])
      /\ UNCHANGED <<current, loading, stored, failed>>
  BY DEF Restart
<1>3. current \in Games
  BY DEF IInv, Sound
<1> HIDE DEF s
<1>4. QED
  BY <1>1, <1>2, <1>3, BeginningIsSound

LEMMA UploadStep == ASSUME IInv, Upload PROVE IInv'
<1> DEFINE s == Abandon(Now)
<1>1. /\ Free(s) /\ loading = None
      /\ s.requests = requests /\ s.universe = universe /\ s.busy = busy
  BY ControlFrees DEF Upload
<1>2. PICK u \in Universes :
        /\ u.game = current
        /\ loading' = [at |-> "file", game |-> current, bytes |-> u, from |-> "disk",
                       idle |-> ~busy]
  BY DEF Upload
<1>3. Becomes(s) /\ UNCHANGED <<current, stored, failed>>
  BY DEF Upload
<1> HIDE DEF s
<1>4. /\ current \in Games /\ stored \in [Games -> Universes \cup {None}]
      /\ failed \subseteq {"fetch", "read"} /\ busy \in BOOLEAN
      /\ "fetch" \notin failed => GamesOK(Now, current, None, stored)
  BY <1>1 DEF IInv, Sound, Now, Pages
<1>5. /\ loading' \in Loads /\ loading'.at = "file" /\ loading'.game = current
      /\ loading'.bytes = u /\ loading'.idle = ~busy
  BY <1>2, <1>4 DEF Loads
<1>6. TurnsOK(s) /\ BringingOK(s, loading')
  BY <1>1, <1>5 DEF TurnsOK, BringingOK, Free
<1>7. "fetch" \notin failed => GamesOK(s, current, loading', stored)
  BY <1>1, <1>2, <1>4, <1>5 DEF GamesOK, Now
<1>8. QED
  BY <1>1, <1>3, <1>4, <1>5, <1>6, <1>7, Lands DEF Sound, Free

LEMMA FileReadStep == ASSUME IInv, FileRead PROVE IInv'
<1>1. /\ Now \in Pages /\ TurnsOK(Now) /\ QueueOK(Now) /\ BringingOK(Now, loading)
      /\ current \in Games /\ loading \in Loads
      /\ "fetch" \notin failed => GamesOK(Now, current, loading, stored)
  BY DEF IInv, Sound, FileRead
<1>2. LiveOn(Now) = {} /\ NoStarter(requests) /\ pending = None
  BY <1>1 DEF BringingOK, FileRead, TurnsOK, Now
<1> DEFINE r == [Now EXCEPT !.busy = TRUE]
<1>3. /\ r \in Pages /\ r.busy = TRUE /\ r.turns = turns /\ r.requests = requests
      /\ r.pending = pending /\ r.universe = universe /\ Becomes(r)
  BY <1>1 DEF Now, Pages, FileRead, Becomes
<1> HIDE DEF r
<1>4. LiveOn(r) = {}
  BY <1>2, <1>3 DEF LiveOn, Now
<1>5. /\ loading' \in Loads /\ loading'.at = "source" /\ loading'.game = current
      /\ loading'.bytes = loading.bytes /\ loading'.idle = FALSE
      /\ current' = current /\ UNCHANGED <<stored, failed>>
  BY <1>1 DEF FileRead, Start, Loads
<1>6. TurnsOK(r) /\ BringingOK(r, loading')
  BY <1>2, <1>3, <1>4, <1>5 DEF TurnsOK, BringingOK
<1>7. QueueOK(r)
  BY <1>1, <1>2, <1>3, <1>4 DEF QueueOK, Now
<1>8. "fetch" \notin failed => GamesOK(r, current, loading', stored)
  BY <1>1, <1>3, <1>5, Distinct DEF GamesOK, Now
<1>9. QED
  BY <1>3, <1>5, <1>6, <1>7, <1>8, Lands DEF Sound, IInv

LEMMA ReadFailsStep == ASSUME IInv, ReadFails PROVE IInv'
<1>1. /\ Now \in Pages /\ TurnsOK(Now) /\ QueueOK(Now) /\ BringingOK(Now, loading)
      /\ "fetch" \notin failed => GamesOK(Now, current, loading, stored)
  BY DEF IInv, Sound
<1>2. /\ Becomes(Now) /\ loading.at = "file" /\ loading' = None
      /\ failed' = failed \cup {"read"} /\ UNCHANGED <<current, stored>>
  BY DEF ReadFails, Becomes, Now
<1>3. BringingOK(Now, None)
  BY <1>1 DEF BringingOK
<1>4. "fetch" \notin failed => GamesOK(Now, current, None, stored)
  BY <1>1, <1>2 DEF GamesOK
<1>5. QED
  BY <1>1, <1>2, <1>3, <1>4, Lands DEF Sound, IInv

(* A universe that could not be had leaves the page to the player. *)
LEMMA GivesUp ==
  ASSUME IInv, loading # None, NEW u \in {universe, Blank},
         universe' = u, busy' = FALSE, loading' = None,
         UNCHANGED <<current, pending, turns, requests, stored, lost>>,
         (failed' = failed /\ u = Blank) \/ failed' = failed \cup {"fetch"}
  PROVE  IInv'
<1>1. /\ Now \in Pages /\ TurnsOK(Now) /\ QueueOK(Now) /\ BringingOK(Now, loading)
      /\ "fetch" \notin failed => GamesOK(Now, current, loading, stored)
  BY DEF IInv, Sound
<1>2. LiveOn(Now) = {} /\ NoStarter(requests) /\ pending = None
  BY <1>1 DEF BringingOK, TurnsOK, Now
<1> DEFINE r == [Now EXCEPT !.busy = FALSE, !.universe = u]
<1>3. /\ r \in Pages /\ r.busy = FALSE /\ r.turns = turns /\ r.requests = requests
      /\ r.pending = pending /\ r.universe = u /\ Becomes(r)
  BY <1>1 DEF Now, Pages, Becomes
<1> HIDE DEF r
<1>4. LiveOn(r) = {}
  BY <1>2, <1>3 DEF LiveOn, Now
<1>5. TurnsOK(r) /\ BringingOK(r, None)
  BY <1>2, <1>3, <1>4 DEF TurnsOK, BringingOK
<1>6. QueueOK(r)
  BY <1>1, <1>2, <1>3, <1>4 DEF QueueOK, Now, NoStarter, Starters
<1>7. "fetch" \notin failed' => GamesOK(r, current, None, stored)
  BY <1>1, <1>3 DEF GamesOK, Now
<1>8. QED
  BY <1>3, <1>5, <1>6, <1>7, Lands DEF Sound, IInv

LEMMA LoadFailsStep == ASSUME IInv, LoadFails PROVE IInv'
  BY GivesUp DEF LoadFails

LEMMA FetchFailsStep == ASSUME IInv, FetchFails PROVE IInv'
  BY GivesUp DEF FetchFails

----------------------------------------------------------------------------
(* A universe arrives. *)

\* The requests once an uploaded universe is to be stored, or another is not.
Kept == IF loading.from = "disk" THEN Append(requests, Put(loading.game, loading.bytes, "nothing"))
        ELSE requests

LEMMA KeptIsQuiet ==
  ASSUME IInv, loading # None
  PROVE  /\ Kept \in Seq(Requests) /\ NoStarter(Kept)
         /\ \A i \in 1..Len(Kept) :
               /\ Kept[i].next \notin Turns /\ Kept[i].op = "put" /\ Kept[i].bytes \in Universes
               /\ "fetch" \notin failed => Kept[i].bytes.game = Kept[i].slug
<1>1. /\ Now \in Pages /\ TurnsOK(Now) /\ QueueOK(Now) /\ BringingOK(Now, loading)
      /\ loading \in Loads
      /\ "fetch" \notin failed => GamesOK(Now, current, loading, stored)
  BY DEF IInv, Sound
<1>2. LiveOn(Now) = {} /\ NoStarter(requests) /\ requests \in Seq(Requests)
  BY <1>1 DEF BringingOK, Now, Pages
<1>3. \A i \in 1..Len(requests) :
         /\ requests[i].next \notin Turns /\ requests[i].op = "put" /\ requests[i].bytes \in Universes
         /\ "fetch" \notin failed => requests[i].bytes.game = requests[i].slug
  <2> SUFFICES ASSUME NEW i \in 1..Len(requests)
               PROVE  /\ requests[i].next \notin Turns /\ requests[i].op = "put"
                      /\ requests[i].bytes \in Universes
                      /\ "fetch" \notin failed => requests[i].bytes.game = requests[i].slug
    OBVIOUS
  <2>1. Now.requests = requests
    BY DEF Now
  <2>2. requests[i].next \notin Starters
    BY <1>2 DEF NoStarter
  <2>3. requests[i].next \notin Turns /\ requests[i].op = "put" /\ requests[i].bytes \in Universes
    BY <1>1, <1>2, <2>1, <2>2 DEF QueueOK
  <2>4. "fetch" \notin failed => requests[i].bytes.game = requests[i].slug
    BY <1>1, <2>1, <2>3 DEF GamesOK
  <2>5. QED
    BY <2>3, <2>4
<1>4. CASE loading.from # "disk"
  BY <1>2, <1>3, <1>4 DEF Kept
<1>5. CASE loading.from = "disk"
  <2> DEFINE x == Put(loading.game, loading.bytes, "nothing")
  <2>1. /\ x \in Requests /\ x.op = "put" /\ x.bytes = loading.bytes /\ x.slug = loading.game
        /\ x.next \notin Turns /\ x.next \notin Starters /\ x.bytes \in Universes
    <3>1. loading.game \in Games /\ loading.bytes \in Universes
      BY <1>1 DEF Loads
    <3>2. /\ x.op = "put" /\ x.bytes = loading.bytes /\ x.slug = loading.game
          /\ x.next = "nothing"
      BY DEF Put, Request
    <3>3. x \in Requests
      BY <3>1 DEF Put, Request, Requests
    <3>4. QED
      BY <3>1, <3>2, <3>3, Distinct DEF Starters
  <2>2. "fetch" \notin failed => x.bytes.game = x.slug
    <3>1. "fetch" \notin failed => loading.bytes.game = current /\ loading.game = current
      BY <1>1, Distinct DEF GamesOK
    <3>2. QED
      BY <2>1, <3>1
  <2>3. Kept = Append(requests, x)
    BY <1>5 DEF Kept
  <2> HIDE DEF x
  <2>4. /\ Kept \in Seq(Requests) /\ Len(Kept) = Len(requests) + 1
        /\ \A i \in 1..Len(Kept) : Kept[i] = IF i = Len(requests) + 1 THEN x ELSE requests[i]
    BY <1>2, <2>1, <2>3, Appending
  <2>5. ASSUME NEW i \in 1..Len(Kept)
        PROVE  Kept[i] = x \/ (i \in 1..Len(requests) /\ Kept[i] = requests[i])
    <3>1. Len(requests) \in Nat /\ i \in 1..(Len(requests) + 1)
      BY <1>2, <2>4
    <3>2. Kept[i] = IF i = Len(requests) + 1 THEN x ELSE requests[i]
      BY <2>4
    <3>3. QED
      BY <3>1, <3>2
  <2>6. NoStarter(Kept)
    BY <1>2, <2>1, <2>5 DEF NoStarter
  <2>7. QED
    BY <1>3, <2>1, <2>2, <2>4, <2>5, <2>6
<1>6. QED
  BY <1>4, <1>5

\* The page with the universe that has arrived, before its first turn.
Arrived ==
    [Now EXCEPT
       !.universe = loading.bytes, !.busy = FALSE,
       !.turns = [t \in Turns |-> IF t \in Live THEN [turns[t] EXCEPT !.stale = TRUE] ELSE None],
       !.requests = IF loading.from = "disk"
                    THEN Append(@, Put(loading.game, loading.bytes, "nothing"))
                    ELSE @]

LEMMA ArrivedIsFree ==
  ASSUME IInv, loading # None, NEW p \in {Arrived, [Arrived EXCEPT !.busy = TRUE]}
  PROVE  /\ Free(p) /\ p.universe = loading.bytes /\ p.requests = Kept /\ p.lost = lost
         /\ NewTurn \in Turns /\ loading.bytes \in Universes
<1>1. /\ Now \in Pages /\ TurnsOK(Now) /\ BringingOK(Now, loading) /\ loading \in Loads
  BY DEF IInv, Sound
<1>2. LiveOn(Now) = {} /\ pending = None /\ Live = {}
  BY <1>1, NowIsPage, Distinct DEF BringingOK, TurnsOK, Now
<1>3. loading.bytes \in Universes
  BY <1>1 DEF Loads
<1>4. /\ Arrived \in Pages /\ Arrived.universe = loading.bytes /\ Arrived.pending = None
      /\ Arrived.turns = [t \in Turns |-> None] /\ Arrived.requests = Kept /\ Arrived.lost = lost
  <2> DEFINE emptied == [t \in Turns |-> IF t \in Live THEN [turns[t] EXCEPT !.stale = TRUE] ELSE None]
             kept == IF loading.from = "disk"
                     THEN Append(Now.requests, Put(loading.game, loading.bytes, "nothing"))
                     ELSE Now.requests
             s == Arrived
  <2>1. emptied = [t \in Turns |-> None]
    BY <1>2
  <2>2. kept = Kept
    BY DEF Kept, Now
  <2>3. emptied \in [Turns -> Calls \cup {None}] /\ kept \in Seq(Requests)
    BY <2>1, <2>2, KeptIsQuiet
  <2>4. s = [Now EXCEPT !.universe = loading.bytes, !.busy = FALSE, !.turns = emptied, !.requests = kept]
    BY DEF Arrived
  <2> HIDE DEF s, emptied, kept
  <2>5. /\ s \in Pages /\ s.universe = loading.bytes /\ s.pending = Now.pending
        /\ s.turns = emptied /\ s.requests = kept /\ s.lost = Now.lost
    BY <1>1, <1>3, <2>3, <2>4 DEF Pages
  <2>6. QED
    BY <1>2, <2>1, <2>2, <2>5 DEF Now, s
<1>5. /\ p \in Pages /\ p.universe = loading.bytes /\ p.pending = None
      /\ p.turns = [t \in Turns |-> None] /\ p.requests = Kept /\ p.lost = lost
  BY <1>4 DEF Pages
<1>6. LiveOn(p) = {}
  BY <1>5 DEF LiveOn
<1>7. QueueOK(p)
  BY <1>5, KeptIsQuiet DEF QueueOK, NoStarter, Starters
<1>8. QED
  BY <1>2, <1>3, <1>5, <1>6, <1>7, KeptIsQuiet, NewTurnIsIdle DEF Free

LEMMA ArrivedRuns ==
  ASSUME IInv, loading # None, NEW s, s = [Arrived EXCEPT !.busy = TRUE]
  PROVE  Running(NewTurn, Call(0), s)
<1>1. Free(s) /\ Free(Arrived) /\ NewTurn \in Turns
  BY ArrivedIsFree
<1>2. s.busy
  BY <1>1 DEF Free, Pages
<1>3. QED
  BY <1>1, <1>2, CallIsCall DEF Running, Free

LEMMA LoadedStep == ASSUME IInv, Loaded PROVE IInv'
<1> DEFINE go == [Arrived EXCEPT !.busy = TRUE]
<1>1. /\ loading # None /\ current \in Games /\ stored \in [Games -> Universes \cup {None}]
      /\ "fetch" \notin failed => GamesOK(Now, current, loading, stored)
  BY DEF IInv, Sound, Loaded
<1>2. /\ IF Ended(loading.bytes) THEN Becomes(Arrived)
         ELSE \E r \in Attempt(NewTurn, Call(0), FALSE, go) : Becomes(r)
      /\ loading' = None /\ UNCHANGED <<current, stored, failed>>
  BY DEF Loaded, Arrived
<1>3. ASSUME NEW p \in {Arrived, go}
      PROVE  /\ Free(p)
             /\ "fetch" \notin failed => GamesOK(p, current, None, stored)
  <2>1. Free(p) /\ p.universe = loading.bytes /\ p.requests = Kept
    BY <1>1, ArrivedIsFree
  <2>2. "fetch" \notin failed => GamesOK(p, current, None, stored)
    BY <1>1, <2>1, KeptIsQuiet DEF GamesOK
  <2>3. QED
    BY <2>1, <2>2
<1>4. CASE Ended(loading.bytes)
  <2>1. Rests(Arrived)
    BY <1>3 DEF Rests, Free, TurnsOK, BringingOK
  <2>2. QED
    BY <1>1, <1>2, <1>3, <1>4, <2>1, TurnStep
<1>5. CASE ~Ended(loading.bytes)
  <2>1. PICK r \in Attempt(NewTurn, Call(0), FALSE, go) : Becomes(r)
    BY <1>2, <1>5
  <2>2. Running(NewTurn, Call(0), go)
    BY <1>1, ArrivedRuns
  <2>3. "fetch" \notin failed => GamesOK(go, current, None, stored)
    BY <1>3
  <2> HIDE DEF go
  <2>4. Rests(r) /\ (GamesOK(go, current, None, stored) => GamesOK(r, current, None, stored))
    BY <1>1, <2>1, <2>2, AttemptRests
  <2>5. QED
    BY <1>1, <1>2, <2>1, <2>3, <2>4, TurnStep
<1>6. QED
  BY <1>4, <1>5

----------------------------------------------------------------------------
(* Storage answers. *)

\* The page once the first request is off the queue, before whoever waits goes on.
Tailed(s) ==
    /\ s \in Pages /\ s.universe = universe /\ s.pending = pending /\ s.turns = turns
    /\ s.requests = Tail(requests) /\ (s.busy = busy \/ s.busy = TRUE)

LEMMA TailedIsSound ==
  ASSUME IInv, requests # <<>>, NEW s, Tailed(s)
  PROVE  /\ QueueOK(s) /\ LiveOn(s) = LiveOn(Now)
         /\ NoStarter(requests) => NoStarter(s.requests)
         /\ Head(requests).next \in Starters => NoStarter(s.requests)
         /\ Head(requests).next \in Turns =>
               \A i \in 1..Len(s.requests) : s.requests[i].next \notin Turns
         /\ \A i \in 1..Len(s.requests) : "fetch" \notin failed =>
               (s.requests[i].op = "put" => s.requests[i].bytes.game = s.requests[i].slug)
<1>1. /\ Now \in Pages /\ QueueOK(Now)
      /\ "fetch" \notin failed => GamesOK(Now, current, loading, stored)
  BY DEF IInv, Sound
<1>2. requests \in Seq(Requests) /\ Now.requests = requests
  BY <1>1 DEF Now, Pages
<1>3. /\ Head(requests) = requests[1] /\ 1 \in 1..Len(requests)
      /\ \A i \in 1..Len(s.requests) :
            /\ i + 1 \in 1..Len(requests) /\ s.requests[i] = requests[i + 1] /\ i + 1 # 1
  BY <1>2, Answering DEF Tailed
<1>4. LiveOn(s) = LiveOn(Now)
  BY DEF Tailed, LiveOn, Now
<1>5. QueueOK(s)
  <2>1. \A i, j \in 1..Len(s.requests) : i + 1 = j + 1 => i = j
    <3>1. s.requests \in Seq(Requests)
      BY DEF Tailed, Pages
    <3>2. QED
      BY <3>1
  <2>2. \A i \in 1..Len(s.requests) :
           s.requests[i].next \in Turns => s.requests[i].next \in LiveOn(s) /\ s.pending = None
    BY <1>1, <1>2, <1>3, <1>4 DEF QueueOK, Tailed, Now
  <2>3. /\ \A i, j \in 1..Len(s.requests) :
               s.requests[i].next \in Turns /\ s.requests[j].next \in Turns => i = j
        /\ \A i, j \in 1..Len(s.requests) :
               s.requests[i].next \in Starters /\ s.requests[j].next \in Starters => i = j
    <3>1. ASSUME NEW i \in 1..Len(s.requests), NEW j \in 1..Len(s.requests),
                 \/ s.requests[i].next \in Turns /\ s.requests[j].next \in Turns
                 \/ s.requests[i].next \in Starters /\ s.requests[j].next \in Starters
          PROVE  i + 1 = j + 1
      <4>1. /\ i + 1 \in 1..Len(requests) /\ s.requests[i] = requests[i + 1]
            /\ j + 1 \in 1..Len(requests) /\ s.requests[j] = requests[j + 1]
        BY <1>3
      <4> DEFINE a == i + 1
                 b == j + 1
      <4> HIDE DEF a, b
      <4>2. /\ a \in 1..Len(requests) /\ s.requests[i] = requests[a]
            /\ b \in 1..Len(requests) /\ s.requests[j] = requests[b]
        BY <4>1 DEF a, b
      <4>3. a = b
        BY <1>1, <1>2, <3>1, <4>2 DEF QueueOK
      <4>4. QED
        BY <4>3 DEF a, b
    <3>2. QED
      BY <2>1, <3>1
  <2>4. \A i \in 1..Len(s.requests) :
          /\ (s.requests[i].op = "put") = (s.requests[i].next \notin Starters)
          /\ IF s.requests[i].op = "put" THEN s.requests[i].bytes \in Universes
             ELSE s.requests[i].bytes = None
    BY <1>1, <1>2, <1>3 DEF QueueOK
  <2>5. \A i \in 1..Len(s.requests) : s.requests[i].next = "start" => s.busy
    BY <1>1, <1>2, <1>3 DEF QueueOK, Tailed, Now
  <2>6. QED
    BY <2>2, <2>3, <2>4, <2>5 DEF QueueOK
<1>6. /\ NoStarter(requests) => NoStarter(s.requests)
      /\ Head(requests).next \in Starters => NoStarter(s.requests)
  BY <1>1, <1>2, <1>3 DEF NoStarter, QueueOK
<1>7. Head(requests).next \in Turns =>
         \A i \in 1..Len(s.requests) : s.requests[i].next \notin Turns
  BY <1>1, <1>2, <1>3 DEF QueueOK
<1>8. \A i \in 1..Len(s.requests) : "fetch" \notin failed =>
         (s.requests[i].op = "put" => s.requests[i].bytes.game = s.requests[i].slug)
  BY <1>1, <1>2, <1>3 DEF GamesOK
<1>9. QED
  BY <1>4, <1>5, <1>6, <1>7, <1>8

(* What storage does of a request keeps the games apart. *)
LEMMA StoredIsSound ==
  ASSUME IInv, requests # <<>>, NEW done,
         stored' = IF ~done \/ Head(requests).op = "get" THEN stored
                   ELSE [stored EXCEPT ![Head(requests).slug] = Head(requests).bytes]
  PROVE  /\ stored' \in [Games -> Universes \cup {None}]
         /\ "fetch" \notin failed => \A g \in Games : stored'[g] # None => stored'[g].game = g
<1>1. /\ Now \in Pages /\ QueueOK(Now) /\ stored \in [Games -> Universes \cup {None}]
      /\ "fetch" \notin failed => GamesOK(Now, current, loading, stored)
  BY DEF IInv, Sound
<1>2. requests \in Seq(Requests) /\ Now.requests = requests
  BY <1>1 DEF Now, Pages
<1> DEFINE q == Head(requests)
<1>3. q \in Requests /\ q = requests[1] /\ 1 \in 1..Len(requests)
  BY <1>2, Answering
<1>4. IF q.op = "put" THEN q.bytes \in Universes ELSE q.bytes = None
  BY <1>1, <1>2, <1>3 DEF QueueOK
<1>5. "fetch" \notin failed => /\ \A g \in Games : stored[g] # None => stored[g].game = g
                               /\ q.op = "put" => q.bytes.game = q.slug
  BY <1>1, <1>2, <1>3 DEF GamesOK
<1>6. q.slug \in Games /\ q.bytes \in Universes \cup {None}
  BY <1>3 DEF Requests
<1> HIDE DEF q
<1>7. CASE stored' = stored
  BY <1>1, <1>5, <1>7
<1>8. CASE stored' = [stored EXCEPT ![q.slug] = q.bytes]
  <2>1. stored' \in [Games -> Universes \cup {None}]
    BY <1>1, <1>6, <1>8
  <2>2. \A g \in Games : stored'[g] = IF g = q.slug THEN q.bytes ELSE stored[g]
    BY <1>1, <1>6, <1>8
  <2>3. QED
    BY <1>4, <1>5, <2>1, <2>2
<1>9. QED
  BY <1>7, <1>8 DEF q

(* start() has heard from storage and waits for the universe. *)
LEMMA StartStep ==
  ASSUME IInv, requests # <<>>, Head(requests).next \in Starters,
         NEW s, Tailed(s), s.busy = TRUE, Becomes(s),
         NEW g \in Games, NEW u \in Universes, "fetch" \notin failed => u.game = g,
         NEW from \in {"store", "web"}, Start(g, u, from), failed' = failed,
         stored' \in [Games -> Universes \cup {None}],
         "fetch" \notin failed => \A h \in Games : stored'[h] # None => stored'[h].game = h
  PROVE  IInv'
<1>1. /\ Now \in Pages /\ TurnsOK(Now) /\ BringingOK(Now, loading) /\ failed \subseteq {"fetch", "read"}
  BY DEF IInv, Sound
<1>2. requests \in Seq(Requests) /\ Now.requests = requests
  BY <1>1 DEF Now, Pages
<1>3. ~NoStarter(requests)
  BY <1>2, Answering DEF NoStarter
<1>4. LiveOn(Now) = {} /\ pending = None
  BY <1>1, <1>2, <1>3 DEF BringingOK, TurnsOK, Now
<1>5. /\ QueueOK(s) /\ LiveOn(s) = {} /\ NoStarter(s.requests)
      /\ \A i \in 1..Len(s.requests) : "fetch" \notin failed =>
            (s.requests[i].op = "put" => s.requests[i].bytes.game = s.requests[i].slug)
  BY <1>4, TailedIsSound
<1>6. /\ loading' \in Loads /\ loading'.at = "source" /\ loading'.game = g
      /\ loading'.bytes = u /\ loading'.idle = FALSE /\ current' = g
  BY DEF Start, Loads
<1>7. TurnsOK(s) /\ BringingOK(s, loading')
  BY <1>4, <1>5, <1>6 DEF TurnsOK, BringingOK, Tailed
<1>8. "fetch" \notin failed' => GamesOK(s, current', loading', stored')
  BY <1>5, <1>6, Distinct DEF GamesOK
<1>9. QED
  BY <1>1, <1>5, <1>6, <1>7, <1>8, Lands DEF Sound, Tailed

LEMMA NextTurnIsCall ==
  ASSUME NEW c \in Calls, ~c.stale, c.asked \/ c.quiet # MAX_QUIET_TURNS
  PROVE  /\ NextTurn(c) \in Calls /\ ~NextTurn(c).stale
         /\ NextTurn(c).items <= NextTurn(c).attempt + 1
<1>1. MAX_PROMPTS \in Nat /\ MAX_QUIET_TURNS \in Nat
  BY PageAssumption
<1>2. c.quiet \in 0..MAX_QUIET_TURNS
  BY DEF Calls
<1>3. (IF c.asked THEN 0 ELSE c.quiet + 1) \in 0..MAX_QUIET_TURNS
  <2>1. CASE c.asked
    BY <1>1, <2>1
  <2>2. CASE ~c.asked
    BY <1>1, <1>2, <2>2
  <2>3. QED
    BY <2>1, <2>2
<1> DEFINE quiet == IF c.asked THEN 0 ELSE c.quiet + 1
<1>4. NextTurn(c) = [c EXCEPT !.items = 0, !.attempt = 0, !.asked = FALSE, !.quiet = quiet]
  BY DEF NextTurn
<1>5. quiet \in 0..MAX_QUIET_TURNS
  BY <1>3
<1> HIDE DEF quiet
<1>6. 0 \in 0..MAX_PROMPTS /\ 0 \in 0..MAX_PROMPTS + 2
  BY <1>1
<1>7. /\ NextTurn(c) \in Calls /\ NextTurn(c).items = 0 /\ NextTurn(c).attempt = 0
      /\ NextTurn(c).stale = c.stale
  BY <1>4, <1>5, <1>6 DEF Calls
<1>8. QED
  BY <1>7

\* The turn whose request was answered, in the page without that request.
Resumed(t, s) ==
    /\ s.turns[t] \in Calls
    /\ Running(t, s.turns[t], s)
    /\ ~Settles(s.turns[t], s) => Running(t, NextTurn(s.turns[t]), s)

LEMMA AnsweredTurnResumes ==
  ASSUME IInv, requests # <<>>, NEW t, t = Head(requests).next, t \in Turns,
         NEW s, Tailed(s), s.busy = busy
  PROVE  Resumed(t, s) /\ loading = None
<1>1. /\ Now \in Pages /\ TurnsOK(Now) /\ QueueOK(Now) /\ BringingOK(Now, loading)
  BY DEF IInv, Sound
<1>2. requests \in Seq(Requests) /\ Now.requests = requests
  BY <1>1 DEF Now, Pages
<1>3. t \in LiveOn(Now) /\ pending = None
  BY <1>1, <1>2, Answering DEF QueueOK, Now
<1>4. loading = None /\ NoStarter(requests)
  BY <1>1, <1>2, <1>3 DEF BringingOK
<1>5. /\ QueueOK(s) /\ NoStarter(s.requests) /\ LiveOn(s) = LiveOn(Now)
      /\ \A i \in 1..Len(s.requests) : s.requests[i].next \notin Turns
  BY <1>4, TailedIsSound
<1>6. LiveOn(s) \subseteq {t}
  BY <1>1, <1>3, <1>5 DEF TurnsOK
<1> DEFINE call == s.turns[t]
<1>7. call \in Calls /\ ~call.stale /\ call.items <= call.attempt + 1 /\ s.busy
  <2>1. s.turns = Now.turns /\ s.busy = Now.busy
    BY DEF Tailed, Now
  <2>2. call \in Calls
    BY <1>1, <1>3, <2>1 DEF Pages, LiveOn
  <2>3. QED
    BY <1>1, <1>3, <2>1, <2>2 DEF TurnsOK
<1>8. ASSUME NEW c \in Calls, ~c.stale, c.items <= c.attempt + 1
      PROVE  Running(t, c, s)
  BY <1>3, <1>5, <1>6, <1>7, <1>8 DEF Running, Tailed
<1>9. ASSUME ~Settles(call, s) PROVE Running(t, NextTurn(call), s)
  <2>1. call.asked \/ call.quiet # MAX_QUIET_TURNS
    BY <1>9 DEF Settles
  <2> HIDE DEF call
  <2>2. QED
    BY <1>7, <1>8, <2>1, NextTurnIsCall
<1>10. QED
  BY <1>4, <1>7, <1>8, <1>9 DEF Resumed

(* autosave() has heard from storage: the turn is over, or the next one begins. *)
LEMMA AfterSaveStep ==
  ASSUME IInv, requests # <<>>, NEW t, t = Head(requests).next, t \in Turns,
         NEW s, Tailed(s), s.busy = busy, NEW r \in AfterSave(t, s), Becomes(r),
         UNCHANGED <<current, loading, failed>>,
         stored' \in [Games -> Universes \cup {None}],
         "fetch" \notin failed => \A h \in Games : stored'[h] # None => stored'[h].game = h
  PROVE  IInv'
<1>1. /\ current \in Games
      /\ "fetch" \notin failed => GamesOK(Now, current, loading, stored)
  BY DEF IInv, Sound
<1>2. Resumed(t, s) /\ loading = None
  BY AnsweredTurnResumes
<1> DEFINE call == s.turns[t]
<1>3. "fetch" \notin failed => GamesOK(s, current, None, stored')
  <2>1. \A i \in 1..Len(s.requests) : "fetch" \notin failed =>
           (s.requests[i].op = "put" => s.requests[i].bytes.game = s.requests[i].slug)
    BY TailedIsSound
  <2>2. s.universe = Now.universe
    BY DEF Tailed, Now
  <2>3. QED
    BY <1>1, <1>2, <2>1, <2>2 DEF GamesOK
<1>4. Rests(r) /\ ("fetch" \notin failed => GamesOK(r, current, None, stored'))
  <2>1. CASE Settles(call, s)
    <3>1. r = Leave(t, s)
      BY <2>1 DEF AfterSave
    <3>2. Rests(r) /\ r.requests = s.requests /\ r.universe = s.universe
      BY <1>2, <3>1, LeaveIsRest DEF Resumed
    <3>3. QED
      BY <1>3, <3>2 DEF GamesOK
  <2>2. CASE ~Settles(call, s)
    <3>1. r \in Attempt(t, NextTurn(call), FALSE, s)
      BY <2>2 DEF AfterSave
    <3>2. Running(t, NextTurn(call), s)
      BY <1>2, <2>2 DEF Resumed
    <3> HIDE DEF call
    <3>3. Rests(r) /\ (GamesOK(s, current, None, stored') => GamesOK(r, current, None, stored'))
      BY <1>1, <3>1, <3>2, AttemptRests
    <3>4. QED
      BY <1>3, <3>3
  <2>3. QED
    BY <2>1, <2>2
<1>5. QED
  BY <1>2, <1>4, TurnStep

LEMMA StorageStep == ASSUME IInv, StorageAnswers PROVE IInv'
<1> DEFINE q == Head(requests)
<1>1. /\ Now \in Pages /\ QueueOK(Now) /\ BringingOK(Now, loading) /\ TurnsOK(Now)
      /\ current \in Games /\ failed \subseteq {"fetch", "read"}
      /\ stored \in [Games -> Universes \cup {None}]
      /\ "fetch" \notin failed => GamesOK(Now, current, loading, stored)
  BY DEF IInv, Sound
<1>2. requests # <<>> /\ UNCHANGED failed
  BY DEF StorageAnswers
<1>3. requests \in Seq(Requests) /\ Now.requests = requests
  BY <1>1 DEF Now, Pages
<1>4. q \in Requests /\ q = requests[1] /\ 1 \in 1..Len(requests) /\ Tail(requests) \in Seq(Requests)
  BY <1>2, <1>3, Answering
<1>5. PICK done \in BOOLEAN :
        /\ stored' = IF ~done \/ q.op = "get" THEN stored
                     ELSE [stored EXCEPT ![q.slug] = q.bytes]
        /\ LET s == [Now EXCEPT !.requests = Tail(@),
                                !.lost = IF q.op = "put" THEN ~done \/ (@ /\ q.next = "nothing")
                                         ELSE @]
           IN CASE q.op = "put" /\ q.next = "nothing" ->
                  Becomes(s) /\ UNCHANGED <<current, loading>>
             [] q.op = "put" /\ q.next # "nothing" ->
                  /\ \E r \in AfterSave(q.next, s) : Becomes(r)
                  /\ UNCHANGED <<current, loading>>
             [] q.op = "drop" ->
                  Becomes([s EXCEPT !.busy = TRUE]) /\ Start(current, Pristine(current), "web")
             [] q.op = "get" ->
                  /\ Becomes([s EXCEPT !.busy = TRUE])
                  /\ IF done /\ stored[q.slug] # None
                     THEN Start(q.slug, stored[q.slug], "store")
                     ELSE Start(q.slug, Pristine(q.slug), "web")
  BY DEF StorageAnswers
<1>6. /\ stored' \in [Games -> Universes \cup {None}]
      /\ "fetch" \notin failed => \A g \in Games : stored'[g] # None => stored'[g].game = g
  BY <1>2, <1>5, StoredIsSound
<1> DEFINE loses == IF q.op = "put" THEN ~done \/ (Now.lost /\ q.next = "nothing") ELSE Now.lost
           s == [Now EXCEPT !.requests = Tail(@),
                            !.lost = IF q.op = "put" THEN ~done \/ (@ /\ q.next = "nothing")
                                     ELSE @]
           go == [s EXCEPT !.busy = TRUE]
<1>7. Tailed(s) /\ s.busy = busy
  <2>1. loses \in BOOLEAN
    BY <1>1 DEF Now, Pages
  <2>2. s = [Now EXCEPT !.requests = Tail(Now.requests), !.lost = loses]
    OBVIOUS
  <2> HIDE DEF loses, s, q
  <2>3. /\ s \in Pages /\ s.universe = Now.universe /\ s.pending = Now.pending
        /\ s.turns = Now.turns /\ s.requests = Tail(requests) /\ s.busy = Now.busy
    BY <1>1, <1>3, <1>4, <2>1, <2>2 DEF Pages
  <2>4. QED
    BY <2>3 DEF Tailed, Now
<1> HIDE DEF s
<1>8. Tailed(go) /\ go.busy = TRUE
  BY <1>7 DEF Tailed, Pages
<1> HIDE DEF go
<1>9. /\ (q.op = "put") = (q.next \notin Starters)
      /\ q.op \in {"get", "put", "drop"} /\ q.slug \in Games
      /\ q.next \in Turns \cup Starters \cup {"nothing"}
  BY <1>1, <1>3, <1>4 DEF QueueOK, Requests
<1>10. CASE q.op = "put" /\ q.next = "nothing"
  <2>1. Becomes(s) /\ UNCHANGED <<current, loading>>
    BY <1>5, <1>10 DEF s
  <2>2. /\ QueueOK(s) /\ LiveOn(s) = LiveOn(Now) /\ (NoStarter(requests) => NoStarter(s.requests))
        /\ \A i \in 1..Len(s.requests) : "fetch" \notin failed =>
              (s.requests[i].op = "put" => s.requests[i].bytes.game = s.requests[i].slug)
    BY <1>2, <1>7, TailedIsSound
  <2>3. TurnsOK(s) /\ BringingOK(s, loading)
    BY <1>1, <1>7, <2>2 DEF TurnsOK, BringingOK, Tailed, Now
  <2>4. "fetch" \notin failed => GamesOK(s, current, loading, stored')
    BY <1>1, <1>6, <1>7, <2>2 DEF GamesOK, Tailed, Now
  <2>5. QED
    BY <1>1, <1>2, <1>6, <1>7, <2>1, <2>2, <2>3, <2>4, Lands DEF Sound, Tailed, IInv
<1>11. CASE q.op = "put" /\ q.next # "nothing"
  <2>1. PICK r \in AfterSave(q.next, s) : Becomes(r)
    BY <1>5, <1>11 DEF s
  <2>2. UNCHANGED <<current, loading>>
    BY <1>5, <1>11
  <2>3. q.next \in Turns
    BY <1>9, <1>11
  <2>4. QED
    BY <1>2, <1>6, <1>7, <2>1, <2>2, <2>3, AfterSaveStep
<1>12. ASSUME NEW g \in Games
       PROVE  Pristine(g) \in Universes /\ Pristine(g).game = g
  BY VersionBound DEF Pristine, Universes
<1>13. CASE q.op = "drop"
  <2>1. Becomes(go) /\ Start(current, Pristine(current), "web")
    BY <1>5, <1>13 DEF go, s
  <2>2. q.next \in Starters
    BY <1>9, <1>13
  <2>3. QED
    BY <1>1, <1>2, <1>6, <1>8, <1>12, <2>1, <2>2, StartStep
<1>14. CASE q.op = "get"
  <2>1. /\ Becomes(go)
        /\ IF done /\ stored[q.slug] # None THEN Start(q.slug, stored[q.slug], "store")
           ELSE Start(q.slug, Pristine(q.slug), "web")
    BY <1>5, <1>14 DEF go, s
  <2>2. q.next \in Starters
    BY <1>9, <1>14
  <2>3. CASE done /\ stored[q.slug] # None
    <3> DEFINE u == stored[q.slug]
    <3>1. u \in Universes /\ ("fetch" \notin failed => u.game = q.slug)
      BY <1>1, <1>9, <2>3 DEF GamesOK
    <3>2. Start(q.slug, u, "store")
      BY <2>1, <2>3
    <3> HIDE DEF u
    <3>3. QED
      BY <1>2, <1>6, <1>8, <1>9, <2>1, <2>2, <3>1, <3>2, StartStep
  <2>4. CASE ~(done /\ stored[q.slug] # None)
    <3>1. Start(q.slug, Pristine(q.slug), "web")
      BY <2>1, <2>4
    <3>2. QED
      BY <1>2, <1>6, <1>8, <1>9, <1>12, <2>1, <2>2, <3>1, StartStep
  <2>5. QED
    BY <2>3, <2>4
<1>15. QED
  BY <1>9, <1>10, <1>11, <1>13, <1>14

LEMMA OneRequest ==
  ASSUME NEW x \in Requests
  PROVE  /\ <<x>> \in Seq(Requests) /\ Len(<<x>>) = 1 /\ <<x>>[1] = x
         /\ \A i \in 1..Len(<<x>>) : i = 1
<1>1. <<x>> \in Seq(Requests)
  OBVIOUS
<1>2. Len(<<x>>) = 1 /\ <<x>>[1] = x
  OBVIOUS
<1>3. \A i \in 1..1 : i = 1
  OBVIOUS
<1>4. QED
  BY <1>1, <1>2, <1>3

(* A page that is opened again knows only what is stored. *)
LEMMA FreshIsSound ==
  ASSUME NEW g \in Games, NEW st \in [Games -> Universes \cup {None}],
         NEW fails \in SUBSET {"fetch", "read"},
         "fetch" \notin fails => \A h \in Games : st[h] # None => st[h].game = h,
         NEW s, s = [universe |-> Blank, busy |-> FALSE, pending |-> None,
                     turns |-> [t \in Turns |-> None],
                     requests |-> <<Request("get", g, None, "start idle")>>, lost |-> FALSE]
  PROVE  Sound(s, g, None, st, fails)
<1> DEFINE x == Request("get", g, None, "start idle")
<1>1. x \in Requests /\ x.op = "get" /\ x.bytes = None /\ x.next = "start idle"
  BY DEF Request, Requests, Starters
<1> HIDE DEF x
<1>2. /\ s.requests = <<x>> /\ s.universe = Blank /\ s.pending = None /\ s.busy = FALSE
      /\ s.turns = [t \in Turns |-> None] /\ s \in Pages
  BY <1>1, OneRequest DEF Pages, x
<1>3. LiveOn(s) = {}
  BY <1>2 DEF LiveOn
<1>4. Len(s.requests) = 1 /\ s.requests[1] = x
  BY <1>1, <1>2, OneRequest
<1>5. \A i \in 1..Len(s.requests) : i = 1
  BY <1>1, <1>2, OneRequest
<1>6. x.next \notin Turns /\ x.next \in Starters /\ x.next # "start" /\ x.op # "put"
  BY <1>1, Distinct DEF Starters
<1>7. QueueOK(s)
  BY <1>1, <1>2, <1>4, <1>5, <1>6 DEF QueueOK
<1>8. TurnsOK(s) /\ BringingOK(s, None)
  BY <1>2, <1>3 DEF TurnsOK, BringingOK
<1>9. "fetch" \notin fails => GamesOK(s, g, None, st)
  <2>1. \A i \in 1..Len(s.requests) : s.requests[i].op # "put"
    BY <1>4, <1>5, <1>6
  <2>2. QED
    BY <1>2, <2>1 DEF GamesOK
<1>10. QED
  BY <1>2, <1>7, <1>8, <1>9 DEF Sound

LEMMA ReloadStep == ASSUME IInv, NEW g \in Games, Reload(g) PROVE IInv'
<1>1. /\ stored' \in [Games -> Universes \cup {None}] /\ failed' \in SUBSET {"fetch", "read"}
      /\ current' = g /\ loading' = None
  BY DEF IInv, Sound, Reload
<1>2. "fetch" \notin failed' => \A h \in Games : stored'[h] # None => stored'[h].game = h
  BY DEF IInv, Sound, Reload, GamesOK
<1> DEFINE s == [universe |-> Blank, busy |-> FALSE, pending |-> None,
                 turns |-> [t \in Turns |-> None],
                 requests |-> <<Request("get", g, None, "start idle")>>, lost |-> FALSE]
<1>3. Now' = s
  BY DEF Now, Reload
<1> HIDE DEF s
<1>4. Sound(s, g, None, stored', failed')
  BY <1>1, <1>2, FreshIsSound DEF s
<1>5. QED
  BY <1>1, <1>3, <1>4 DEF IInv

LEMMA InitSound == Init => IInv
<1> SUFFICES ASSUME Init PROVE IInv
  OBVIOUS
<1>1. /\ stored \in [Games -> Universes \cup {None}] /\ failed \in SUBSET {"fetch", "read"}
      /\ current \in Games /\ loading = None
      /\ "fetch" \notin failed => \A h \in Games : stored[h] # None => stored[h].game = h
  BY DEF Init
<1> DEFINE s == [universe |-> Blank, busy |-> FALSE, pending |-> None,
                 turns |-> [t \in Turns |-> None],
                 requests |-> <<Request("get", current, None, "start idle")>>, lost |-> FALSE]
<1>2. Now = s
  BY DEF Now, Init
<1> HIDE DEF s
<1>3. Sound(s, current, None, stored, failed)
  BY <1>1, FreshIsSound DEF s
<1>4. QED
  BY <1>1, <1>2, <1>3 DEF IInv

LEMMA StepSound == IInv /\ [Next]_vars => IInv'
<1> SUFFICES ASSUME IInv, [Next]_vars PROVE IInv'
  OBVIOUS
<1>1. CASE Answer
  BY <1>1, AnswerStep
<1>2. CASE Command
  BY <1>2, CommandStep
<1>3. CASE \E g \in Games : ChangeGame(g)
  BY <1>3, ChangeGameStep
<1>4. CASE \E g \in Games : Reload(g)
  BY <1>4, ReloadStep
<1>5. CASE Restart
  BY <1>5, RestartStep
<1>6. CASE Upload
  BY <1>6, UploadStep
<1>7. CASE StorageAnswers
  BY <1>7, StorageStep
<1>8. CASE FileRead
  BY <1>8, FileReadStep
<1>9. CASE ReadFails
  BY <1>9, ReadFailsStep
<1>10. CASE Loaded
  BY <1>10, LoadedStep
<1>11. CASE LoadFails
  BY <1>11, LoadFailsStep
<1>12. CASE FetchFails
  BY <1>12, FetchFailsStep
<1>13. CASE UNCHANGED vars
  <2>1. Now' = Now /\ UNCHANGED <<current, loading, stored, failed>>
    BY <1>13 DEF vars, Now
  <2>2. QED
    BY <2>1 DEF IInv
<1>14. QED
  BY <1>1, <1>2, <1>3, <1>4, <1>5, <1>6, <1>7, <1>8, <1>9, <1>10, <1>11, <1>12, <1>13
     DEF Next, Work

LEMMA AlwaysSound == Spec => []IInv
  BY InitSound, StepSound, PTL DEF Spec

----------------------------------------------------------------------------

LEMMA LiveIsOfNow == Live = LiveOn(Now)
  BY DEF Live, LiveOn, Now

\* The page's variables keep their types (play.js:18-80): whatever the browser
\* answers, and in whatever order the player uses the controls.
THEOREM TypeCorrect == Spec => []TypeOK
<1>1. IInv => TypeOK
  <2> SUFFICES ASSUME IInv PROVE TypeOK
    OBVIOUS
  <2>1. pending \in Live \cup {None}
    BY LiveIsOfNow DEF IInv, Sound, TurnsOK, Now
  <2>2. /\ universe \in Universes \cup {Blank} /\ current \in Games /\ busy \in BOOLEAN
        /\ lost \in BOOLEAN /\ turns \in [Turns -> Calls \cup {None}]
    BY DEF IInv, Sound, Pages, Now
  <2>3. loading \in Loads \cup {None} /\ failed \subseteq {"fetch", "read"}
    BY DEF IInv, Sound
  <2>4. stored \in [Games -> Universes \cup {None}]
    BY DEF IInv, Sound
  <2>5. QED
    BY <2>1, <2>2, <2>3, <2>4 DEF TypeOK
<1>2. QED
  BY <1>1, AlwaysSound, PTL

\* Never two turns in progress, nor one while a universe is being brought in, and
\* a turn in progress owns busy: the generation that abandonTurn moves on keeps a
\* turn from giving busy away (play.js:257-259), for any number of turns, of
\* requests that wait, and of prompts in a turn.
THEOREM OneOwnerHolds == Spec => []OneOwner
<1>1. IInv => OneOwner
  <2> SUFFICES ASSUME IInv PROVE OneOwner
    OBVIOUS
  <2>1. /\ Now \in Pages /\ TurnsOK(Now) /\ BringingOK(Now, loading)
    BY DEF IInv, Sound
  <2>2. \A t, u \in Live : t = u
    BY <2>1, LiveIsOfNow DEF TurnsOK
  <2>3. ASSUME NEW t \in Live PROVE busy /\ ~Waiting
    <3>1. busy
      BY <2>1, LiveIsOfNow DEF TurnsOK, Now
    <3>2. loading = None /\ NoStarter(requests)
      BY <2>1, LiveIsOfNow DEF BringingOK, Now
    <3>3. DOMAIN requests = 1..Len(requests)
      BY <2>1 DEF Pages, Now
    <3>4. QED
      BY <3>1, <3>2, <3>3 DEF Waiting, NoStarter, Starters
  <2>4. QED
    BY <2>2, <2>3 DEF OneOwner
<1>2. QED
  BY <1>1, AlwaysSound, PTL

\* The question on the screen belongs to the universe that will be given the
\* answer: a turn that waits is never there once the universe has been replaced
\* (play.js:530-534).
THEOREM AnswerGoesToWhoAskedHolds == Spec => []AnswerGoesToWhoAsked
<1>1. IInv => AnswerGoesToWhoAsked
  <2> SUFFICES ASSUME IInv, pending # None PROVE ~turns[pending].stale
    BY DEF AnswerGoesToWhoAsked
  <2>1. TurnsOK(Now) /\ Now.pending = pending /\ Now.turns = turns
    BY DEF IInv, Sound, Now
  <2>2. QED
    BY <2>1 DEF TurnsOK
<1>2. QED
  BY <1>1, AlwaysSound, PTL

\* Unless a game that was asked for could not be fetched, what is stored under a
\* game's name is a session of that game, however late the requests are answered
\* (play.js:457-459).
THEOREM SaveBelongsToItsGameHolds == Spec => []SaveBelongsToItsGame
<1>1. IInv => SaveBelongsToItsGame
  <2> SUFFICES ASSUME IInv, "fetch" \notin failed PROVE SavesStayApart
    BY DEF SaveBelongsToItsGame
  <2>1. GamesOK(Now, current, loading, stored)
    BY DEF IInv, Sound
  <2>2. QED
    BY <2>1 DEF GamesOK, SavesStayApart
<1>2. QED
  BY <1>1, AlwaysSound, PTL

----------------------------------------------------------------------------
(* What is stored.  What the page shows at a prompt is what storage has,    *)
(* once it has answered: on top of the invariant above this needs to know   *)
(* what the requests still on their way will have made of the session.      *)

\* The session of the game g is u once every request of q has been carried out.
IsPut(x, g) == x.op = "put" /\ x.slug = g
WillHold(q, g, u, st) ==
    \/ \E i \in 1..Len(q) : /\ IsPut(q[i], g) /\ q[i].bytes = u
                            /\ \A j \in 1..Len(q) : IsPut(q[j], g) => j <= i
    \/ st[g] = u /\ \A j \in 1..Len(q) : ~IsPut(q[j], g)

\* A universe that has not been played, or will be found again, or is known lost.
Safe(u, gone, q, g, st) == u = Blank \/ u.version = 0 \/ gone \/ WillHold(q, g, u, st)

\* The request a turn waits for is the last one and holds the universe as it is;
\* nothing is asked of storage after a start() has begun.
QueueEnds(s, cur) ==
    LET q == s.requests
    IN  \A i \in 1..Len(q) :
          /\ q[i].next \in Starters => i = Len(q)
          /\ q[i].next \in Turns => i = Len(q) /\ q[i].slug = cur /\ q[i].bytes = s.universe

\* What is loaded is what is stored, or the game as it is distributed.
SourceOK(load, q, st) ==
    load # None /\ load.at = "source" =>
        /\ load.from = "store" => q = <<>> /\ st[load.game] = load.bytes
        /\ load.from = "web" => load.bytes.version = 0

Stores(s, cur, load, st, fails) ==
    /\ QueueEnds(s, cur)
    /\ SourceOK(load, s.requests, st)
    /\ s.pending # None => s.universe # Blank
    /\ "fetch" \notin fails /\ (load = None \/ load.at = "file") =>
           Safe(s.universe, s.lost, s.requests, cur, st)

KInv == Stores(Now, current, loading, stored, failed)

----------------------------------------------------------------------------
(* Requests that come and go. *)

LEMMA PutIsLast ==
  ASSUME NEW q \in Seq(Requests), NEW x \in Requests, NEW g, NEW u, NEW st,
         IsPut(x, g), x.bytes = u
  PROVE  WillHold(Append(q, x), g, u, st)
<1> DEFINE r == Append(q, x)
           n == Len(q) + 1
<1>1. /\ Len(r) = n /\ Len(q) \in Nat
      /\ \A i \in 1..Len(r) : r[i] = IF i = Len(q) + 1 THEN x ELSE q[i]
  BY Appending
<1> HIDE DEF r
<1>2. n \in 1..Len(r) /\ r[n] = x /\ \A j \in 1..Len(r) : j <= n
  BY <1>1
<1>3. QED
  BY <1>2 DEF WillHold, r

LEMMA OtherAppended ==
  ASSUME NEW q \in Seq(Requests), NEW x \in Requests, NEW g, NEW u, NEW st,
         ~IsPut(x, g), WillHold(q, g, u, st)
  PROVE  WillHold(Append(q, x), g, u, st)
<1> DEFINE r == Append(q, x)
<1>1. /\ Len(r) = Len(q) + 1 /\ Len(q) \in Nat
      /\ \A i \in 1..Len(r) : r[i] = IF i = Len(q) + 1 THEN x ELSE q[i]
  BY Appending
<1> HIDE DEF r
<1>2. /\ \A i \in 1..Len(q) : i \in 1..Len(r) /\ r[i] = q[i]
      /\ \A j \in 1..Len(r) : IsPut(r[j], g) => j \in 1..Len(q) /\ IsPut(q[j], g)
  BY <1>1
<1>3. CASE \E i \in 1..Len(q) : /\ IsPut(q[i], g) /\ q[i].bytes = u
                                /\ \A j \in 1..Len(q) : IsPut(q[j], g) => j <= i
  <2>1. PICK i \in 1..Len(q) : /\ IsPut(q[i], g) /\ q[i].bytes = u
                               /\ \A j \in 1..Len(q) : IsPut(q[j], g) => j <= i
    BY <1>3
  <2>2. i \in 1..Len(r) /\ IsPut(r[i], g) /\ r[i].bytes = u
    BY <1>2, <2>1
  <2>3. QED
    BY <1>2, <2>1, <2>2 DEF WillHold, r
<1>4. CASE st[g] = u /\ \A j \in 1..Len(q) : ~IsPut(q[j], g)
  BY <1>2, <1>4 DEF WillHold, r
<1>5. QED
  BY <1>3, <1>4 DEF WillHold

(* The first request is carried out, or was not about this game. *)
LEMMA HeadCarriedOut ==
  ASSUME NEW q \in Seq(Requests), q # <<>>, NEW g, NEW u, NEW st, NEW after,
         WillHold(q, g, u, st),
         after[g] = IF IsPut(Head(q), g) THEN Head(q).bytes ELSE st[g]
  PROVE  WillHold(Tail(q), g, u, after)
<1> DEFINE r == Tail(q)
<1>1. /\ Head(q) = q[1] /\ 1 \in 1..Len(q) /\ r \in Seq(Requests)
      /\ \A i \in 1..Len(r) : i + 1 \in 1..Len(q) /\ r[i] = q[i + 1] /\ i + 1 # 1
  BY Answering
<1>2. Len(q) \in Nat /\ Len(r) = Len(q) - 1
  OBVIOUS
<1> HIDE DEF r
<1>3. CASE \E i \in 1..Len(q) : /\ IsPut(q[i], g) /\ q[i].bytes = u
                                /\ \A j \in 1..Len(q) : IsPut(q[j], g) => j <= i
  <2>1. PICK i \in 1..Len(q) : /\ IsPut(q[i], g) /\ q[i].bytes = u
                               /\ \A j \in 1..Len(q) : IsPut(q[j], g) => j <= i
    BY <1>3
  <2>2. CASE i = 1
    <3>1. after[g] = u
      BY <1>1, <2>1, <2>2
    <3>2. ASSUME NEW j \in 1..Len(r) PROVE ~IsPut(r[j], g)
      <4>1. j \in Nat /\ j >= 1 /\ ~(j + 1 <= 1)
        BY <1>2
      <4>2. QED
        BY <1>1, <2>1, <2>2, <4>1
    <3>3. QED
      BY <3>1, <3>2 DEF WillHold, r
  <2>3. CASE i # 1
    <3> DEFINE k == i - 1
    <3>1. k \in 1..Len(r) /\ k + 1 = i /\ k \in Nat
      BY <1>2, <2>3
    <3>2. r[k] = q[i]
      BY <1>1, <3>1
    <3>3. ASSUME NEW j \in 1..Len(r), IsPut(r[j], g) PROVE j <= k
      <4>1. j + 1 <= i
        BY <1>1, <2>1, <3>3
      <4>2. QED
        BY <3>1, <4>1
    <3> HIDE DEF k
    <3>4. QED
      BY <2>1, <3>1, <3>2, <3>3 DEF WillHold, r
  <2>4. QED
    BY <2>2, <2>3
<1>4. CASE st[g] = u /\ \A j \in 1..Len(q) : ~IsPut(q[j], g)
  <2>1. after[g] = u
    BY <1>1, <1>4
  <2>2. \A j \in 1..Len(r) : ~IsPut(r[j], g)
    BY <1>1, <1>4
  <2>3. QED
    BY <2>1, <2>2 DEF WillHold, r
<1>5. QED
  BY <1>3, <1>4 DEF WillHold

----------------------------------------------------------------------------
(* A turn, from one wait to the next. *)

(* A page whose requests nobody waits for. *)
LEMMA QuietQueueEnds ==
  ASSUME NEW s, NoStarter(s.requests),
         \A i \in 1..Len(s.requests) : s.requests[i].next \notin Turns
  PROVE  \A cur : QueueEnds(s, cur)
  BY DEF NoStarter, QueueEnds

\* What is known of the page a turn begins on, and what is left when it waits.
Playing(s, st) == "fetch" \notin failed => Safe(s.universe, s.lost, s.requests, current, st)
Settled(r, st) == Stores(r, current, None, st, failed)

LEMMA SameIsSettled ==
  ASSUME NEW t, NEW call, NEW s, Running(t, call, s), NEW st, Playing(s, st), NEW r,
         r.requests = s.requests, r.universe = s.universe, r.lost = s.lost,
         r.pending # None => r.universe # Blank
  PROVE  Settled(r, st)
<1>1. QueueEnds(r, current)
  BY QuietQueueEnds DEF Running
<1>2. QED
  BY <1>1 DEF Settled, Stores, SourceOK, Playing

\* The universe is as it was, or what was done to it was lost.
SameOrLost(s, r) == (r.universe = s.universe /\ r.lost = s.lost) \/ r.lost = TRUE

(* A turn that fails asks nothing. *)
LEMMA ErrsLeave ==
  ASSUME NEW t, NEW call, NEW s, Running(t, call, s), NEW r \in Errs(t, s)
  PROVE  r.pending = None /\ SameOrLost(s, r)
<1>1. s \in Pages /\ s.pending = None
  BY DEF Running
<1>2. CASE r = Leave(t, s)
  BY <1>1, <1>2 DEF Leave, Pages, SameOrLost
<1>3. CASE \E u \in IF Runs(s) THEN Changed(s.universe) ELSE {} :
              r = [Leave(t, s) EXCEPT !.universe = u, !.lost = TRUE]
  BY <1>1, <1>3 DEF Leave, Pages, SameOrLost
<1>4. QED
  BY <1>2, <1>3 DEF Errs

LEMMA AttemptSettles ==
  ASSUME NEW t, NEW call, NEW s, Running(t, call, s), current \in Games,
         NEW st, Playing(s, st), NEW declined, NEW r \in Attempt(t, call, declined, s)
  PROVE  Settled(r, st)
<1>1. s \in Pages
  BY DEF Running
<1>2. CASE r \in Asks(t, call, s)
  <2>1. r = [s EXCEPT !.turns[t] = call, !.pending = t] /\ s.universe # Blank
    BY <1>2 DEF Asks, Runs
  <2>2. r.requests = s.requests /\ r.universe = s.universe /\ r.lost = s.lost
    BY <1>1, <2>1 DEF Pages
  <2>3. QED
    BY <2>1, <2>2, SameIsSettled
<1>3. CASE r \in Errs(t, s)
  <2>1. Rests(r) /\ r.requests = s.requests /\ r.pending = None
    BY <1>3, ErrsRests, ErrsLeave
  <2>2. CASE r.universe = s.universe /\ r.lost = s.lost
    BY <2>1, <2>2, SameIsSettled
  <2>3. CASE r.lost = TRUE
    <3>1. QueueEnds(r, current)
      BY <2>1, QuietQueueEnds DEF Running
    <3>2. QED
      BY <2>1, <2>3, <3>1 DEF Settled, Stores, SourceOK, Safe
  <2>4. SameOrLost(s, r)
    BY <1>3, ErrsLeave
  <2>5. QED
    BY <2>2, <2>3, <2>4, Zenon DEF SameOrLost
<1>4. CASE r \in Completes(t, call, current, s)
  <2>1. PICK u \in Changed(s.universe) :
           /\ s.universe \in Universes /\ Rests(r) /\ r.universe = u
           /\ r.requests = Append(s.requests, Put(current, u, t))
    BY <1>4, CompletesRests
  <2>2. u \in Universes
    BY <2>1, ChangedIsSameGame
  <2> DEFINE x == Put(current, u, t)
             q == s.requests
  <2>3. x \in Requests /\ x.op = "put" /\ x.bytes = u /\ x.slug = current /\ x.next = t
    BY <2>2 DEF Put, Request, Requests, Running
  <2>4. q \in Seq(Requests)
    BY <1>1 DEF Pages
  <2> HIDE DEF x
  <2>5. QueueEnds(r, current)
    <3>1. /\ Len(r.requests) = Len(q) + 1 /\ Len(q) \in Nat
          /\ \A i \in 1..Len(r.requests) : r.requests[i] = IF i = Len(q) + 1 THEN x ELSE q[i]
      BY <2>1, <2>3, <2>4, Appending DEF x
    <3>2. ASSUME NEW i \in 1..Len(r.requests)
          PROVE  /\ r.requests[i].next \in Starters => i = Len(r.requests)
                 /\ r.requests[i].next \in Turns =>
                      i = Len(r.requests) /\ r.requests[i].slug = current /\ r.requests[i].bytes = r.universe
      <4>1. CASE i = Len(q) + 1
        BY <2>1, <2>3, <3>1, <4>1
      <4>2. CASE i # Len(q) + 1
        BY <3>1, <4>2 DEF Running, NoStarter
      <4>3. QED
        BY <4>1, <4>2
    <3>3. QED
      BY <3>2 DEF QueueEnds
  <2>6. WillHold(r.requests, current, r.universe, st)
    BY <2>1, <2>3, <2>4, PutIsLast DEF IsPut, x
  <2>7. QED
    BY <2>1, <2>2, <2>5, <2>6, Distinct DEF Settled, Stores, SourceOK, Safe
<1>5. QED
  BY <1>2, <1>3, <1>4 DEF Attempt

(* A step of a turn lands on the page it leaves. *)
LEMMA LandsSettled ==
  ASSUME NEW r \in Pages, Becomes(r), Stores(r, current', loading', stored', failed')
  PROVE  KInv'
<1>1. Now' = r
  BY DEF Becomes, Now, Pages
<1>2. QED
  BY <1>1 DEF KInv

LEMMA TurnSettles ==
  ASSUME NEW r \in Pages, Becomes(r), Settled(r, stored'),
         loading' = None, UNCHANGED <<current, failed>>
  PROVE  KInv'
<1>1. Stores(r, current', loading', stored', failed')
  BY DEF Settled
<1>2. QED
  BY <1>1, LandsSettled

----------------------------------------------------------------------------
(* The player. *)

(* Leaving a turn keeps what is known of its universe. *)
LEMMA LeaveSettles ==
  ASSUME NEW t, NEW call, NEW s, Running(t, call, s), NEW st, Playing(s, st),
         NEW r, r = Leave(t, s)
  PROVE  r \in Pages /\ Settled(r, st)
<1>1. Rests(r) /\ r.requests = s.requests /\ r.universe = s.universe
  BY LeaveIsRest
<1>2. s \in Pages /\ s.pending = None
  BY DEF Running
<1>3. r.lost = s.lost /\ r.pending = None
  BY <1>2 DEF Leave, Pages
<1>4. QED
  BY <1>1, <1>3, SameIsSettled DEF Rests

LEMMA NowIsPlaying ==
  ASSUME KInv, loading = None, NEW s,
         s.universe = universe, s.lost = lost, s.requests = requests
  PROVE  Playing(s, stored)
  BY DEF KInv, Stores, Playing, Now

LEMMA AnswerSettles == ASSUME IInv, KInv, Answer PROVE KInv'
<1>1. PICK declines \in BOOLEAN :
        LET call == [turns[pending] EXCEPT !.items = @ + 1, !.asked = TRUE]
            s == [Now EXCEPT !.pending = None]
        IN  \E r \in IF call.attempt = MAX_PROMPTS
                     THEN {Leave(pending, s)}
                     ELSE Attempt(pending, [call EXCEPT !.attempt = @ + 1], declines, s) :
              Becomes(r)
  BY DEF Answer
<1> DEFINE old == turns[pending]
           call == [turns[pending] EXCEPT !.items = @ + 1, !.asked = TRUE]
           again == [call EXCEPT !.attempt = @ + 1]
           s == [Now EXCEPT !.pending = None]
<1>2. /\ pending # None /\ Now \in Pages /\ TurnsOK(Now) /\ BringingOK(Now, loading)
      /\ current \in Games
  BY DEF Answer, IInv, Sound
<1>3. pending \in LiveOn(Now) /\ pending \in Turns /\ turns = Now.turns
  BY <1>2 DEF TurnsOK, Now, Pages
<1>4. old \in Calls /\ ~old.stale /\ old.items <= old.attempt + 1
  BY <1>2, <1>3 DEF TurnsOK, Pages, LiveOn
<1>5. loading = None /\ loading' = None /\ UNCHANGED <<current, stored, failed>>
  BY <1>2, <1>3 DEF BringingOK, Answer
<1>6. Running(pending, old, s) /\ s.requests = requests /\ s.universe = universe
  BY <1>2, <1>4, AnsweredTurnRuns
<1>7. s.lost = lost
  BY <1>2 DEF Now, Pages
<1>8. Playing(s, stored)
  BY <1>5, <1>6, <1>7, NowIsPlaying
<1>9. CASE call.attempt = MAX_PROMPTS
  <2>1. Becomes(Leave(pending, s))
    BY <1>1, <1>9
  <2> HIDE DEF s, old
  <2>2. Leave(pending, s) \in Pages /\ Settled(Leave(pending, s), stored)
    BY <1>6, <1>8, LeaveSettles
  <2>3. QED
    BY <1>5, <2>1, <2>2, TurnSettles
<1>10. CASE call.attempt # MAX_PROMPTS
  <2>1. PICK r \in Attempt(pending, again, declines, s) : Becomes(r)
    BY <1>1, <1>10
  <2>2. old.attempt # MAX_PROMPTS
    BY <1>4, <1>10 DEF Calls
  <2>3. again \in Calls /\ ~again.stale /\ again.items <= again.attempt + 1
    BY <1>4, <2>2, AnotherAttempt
  <2>4. Running(pending, again, s)
    BY <1>2, <2>3, AnsweredTurnRuns
  <2> HIDE DEF s, old, call, again
  <2>5. Rests(r) /\ Settled(r, stored)
    BY <1>2, <1>8, <2>1, <2>4, AttemptRests, AttemptSettles
  <2>6. QED
    BY <1>5, <2>1, <2>5, TurnSettles DEF Rests
<1>11. QED
  BY <1>9, <1>10

LEMMA CommandSettles == ASSUME IInv, KInv, Command PROVE KInv'
<1> DEFINE s == [Now EXCEPT !.busy = TRUE]
<1>1. /\ Running(NewTurn, Call(1), s) /\ loading = None
      /\ s.requests = requests /\ s.universe = universe /\ s.lost = lost
  BY CommandRuns
<1>2. PICK r \in Attempt(NewTurn, Call(1), FALSE, s) : Becomes(r)
  BY DEF Command
<1>3. current \in Games /\ loading' = None /\ UNCHANGED <<current, stored, failed>>
  BY <1>1 DEF Command, IInv, Sound
<1> HIDE DEF s
<1>4. Playing(s, stored)
  BY <1>1, NowIsPlaying
<1>5. Rests(r) /\ Settled(r, stored)
  BY <1>1, <1>2, <1>3, <1>4, AttemptRests, AttemptSettles
<1>6. QED
  BY <1>2, <1>3, <1>5, TurnSettles DEF Rests

----------------------------------------------------------------------------
(* The controls, and the page closed. *)

(* A start() that begins asks for nothing that could be kept. *)
LEMMA BeginningSettles ==
  ASSUME IInv, KInv, Control, NEW op \in {"get", "drop"}, NEW g \in Games,
         NEW r, r = [Abandon(Now) EXCEPT !.requests = Append(@, Request(op, g, None, Starter))],
         Becomes(r), UNCHANGED <<current, loading, stored, failed>>
  PROVE  KInv'
<1> DEFINE s == Abandon(Now)
           x == Request(op, g, None, Starter)
           q == requests
<1>1. /\ Free(s) /\ loading = None
      /\ s.requests = requests /\ s.universe = universe /\ s.busy = busy
  BY ControlFrees
<1>2. s.lost = lost
  BY DEF Abandon, Leave, Now
<1>3. x \in Requests /\ x.op # "put" /\ x.next \in Starters
  BY DEF Request, Requests, Starter, Starters
<1>4. q \in Seq(Requests)
  BY <1>1 DEF Free, Pages
<1>5. r = [s EXCEPT !.requests = Append(@, x)]
  OBVIOUS
<1> HIDE DEF s, x
<1>6. /\ Append(q, x) \in Seq(Requests) /\ Len(Append(q, x)) = Len(q) + 1 /\ Len(q) \in Nat
      /\ \A i \in 1..Len(Append(q, x)) : Append(q, x)[i] = IF i = Len(q) + 1 THEN x ELSE q[i]
  BY <1>3, <1>4, Appending
<1>7. /\ r \in Pages /\ r.requests = Append(q, x) /\ r.universe = universe /\ r.lost = lost
      /\ r.pending = None
  BY <1>1, <1>2, <1>5, <1>6 DEF Free, Pages
<1>8. QueueEnds(r, current)
  <2>1. ASSUME NEW i \in 1..Len(r.requests)
        PROVE  /\ r.requests[i].next \in Starters => i = Len(r.requests)
               /\ r.requests[i].next \notin Turns
    <3>1. CASE i = Len(q) + 1
      BY <1>3, <1>6, <1>7, <3>1, Distinct DEF Starters
    <3>2. CASE i # Len(q) + 1
      BY <1>1, <1>6, <1>7, <3>2 DEF Free, NoStarter
    <3>3. QED
      BY <3>1, <3>2
  <2>2. QED
    BY <2>1 DEF QueueEnds
<1>9. "fetch" \notin failed => Safe(r.universe, r.lost, r.requests, current, stored)
  <2>1. "fetch" \notin failed => Safe(universe, lost, q, current, stored)
    BY <1>1 DEF KInv, Stores, Now
  <2>2. WillHold(q, current, universe, stored) => WillHold(Append(q, x), current, universe, stored)
    BY <1>3, <1>4, OtherAppended DEF IsPut
  <2>3. QED
    BY <1>7, <2>1, <2>2 DEF Safe
<1>10. Stores(r, current', loading', stored', failed')
  BY <1>1, <1>7, <1>8, <1>9 DEF Stores, SourceOK
<1>11. QED
  BY <1>7, <1>10, LandsSettled

LEMMA UploadSettles == ASSUME IInv, KInv, Upload PROVE KInv'
<1> DEFINE s == Abandon(Now)
<1>1. /\ Free(s) /\ loading = None
      /\ s.requests = requests /\ s.universe = universe /\ s.busy = busy
  BY ControlFrees DEF Upload
<1>2. s.lost = lost
  BY DEF Abandon, Leave, Now
<1>3. Becomes(s) /\ loading'.at = "file" /\ UNCHANGED <<current, stored, failed>>
  BY DEF Upload
<1> HIDE DEF s
<1>4. Playing(s, stored)
  BY <1>1, <1>2, NowIsPlaying
<1>5. QueueEnds(s, current)
  BY <1>1, QuietQueueEnds DEF Free
<1>6. Stores(s, current', loading', stored', failed')
  BY <1>1, <1>3, <1>4, <1>5 DEF Stores, SourceOK, Playing, Free
<1>7. QED
  BY <1>1, <1>3, <1>6, LandsSettled DEF Free

(* A page that is opened again has nothing to lose. *)
LEMMA FreshSettles ==
  ASSUME NEW g \in Games, NEW st, NEW fails, NEW s,
         s = [universe |-> Blank, busy |-> FALSE, pending |-> None,
              turns |-> [t \in Turns |-> None],
              requests |-> <<Request("get", g, None, "start idle")>>, lost |-> FALSE]
  PROVE  Stores(s, g, None, st, fails)
<1> DEFINE x == Request("get", g, None, "start idle")
<1>1. s.universe = Blank /\ s.pending = None /\ s.requests = <<x>>
  OBVIOUS
<1>2. x \in Requests /\ x.next = "start idle"
  BY DEF Request, Requests, Starters
<1> HIDE DEF x
<1>3. Len(s.requests) = 1 /\ s.requests[1] = x /\ \A i \in 1..Len(s.requests) : i = 1
  BY <1>1, <1>2, OneRequest
<1>4. QueueEnds(s, g)
  BY <1>2, <1>3, Distinct DEF QueueEnds
<1>5. QED
  BY <1>1, <1>4 DEF Stores, SourceOK, Safe

LEMMA ReloadSettles == ASSUME NEW g \in Games, Reload(g) PROVE KInv'
<1> DEFINE s == [universe |-> Blank, busy |-> FALSE, pending |-> None,
                 turns |-> [t \in Turns |-> None],
                 requests |-> <<Request("get", g, None, "start idle")>>, lost |-> FALSE]
<1>1. Now' = s /\ current' = g /\ loading' = None
  BY DEF Now, Reload
<1> HIDE DEF s
<1>2. Stores(s, g, None, stored', failed')
  BY FreshSettles DEF s
<1>3. QED
  BY <1>1, <1>2 DEF KInv

LEMMA InitSettles == ASSUME Init PROVE KInv
<1> DEFINE s == [universe |-> Blank, busy |-> FALSE, pending |-> None,
                 turns |-> [t \in Turns |-> None],
                 requests |-> <<Request("get", current, None, "start idle")>>, lost |-> FALSE]
<1>1. Now = s /\ loading = None
  BY DEF Now, Init
<1> HIDE DEF s
<1>2. Stores(s, current, None, stored, failed)
  BY FreshSettles DEF s, Init
<1>3. QED
  BY <1>1, <1>2 DEF KInv

----------------------------------------------------------------------------
(* A universe arrives, or does not. *)

LEMMA BringingIsQuiet ==
  ASSUME IInv, loading # None
  PROVE  /\ pending = None /\ NoStarter(requests) /\ requests \in Seq(Requests)
         /\ \A i \in 1..Len(requests) : requests[i].next \notin Turns
<1>1. /\ Now \in Pages /\ TurnsOK(Now) /\ QueueOK(Now) /\ BringingOK(Now, loading)
  BY DEF IInv, Sound
<1>2. LiveOn(Now) = {} /\ NoStarter(requests)
  BY <1>1 DEF BringingOK, Now
<1>3. pending = None /\ \A i \in 1..Len(requests) : requests[i].next \notin Turns
  BY <1>1, <1>2 DEF TurnsOK, QueueOK, Now
<1>4. QED
  BY <1>1, <1>2, <1>3 DEF Pages, Now

(* While one is brought in, only what it will be has to be known. *)
LEMMA BringingSettles ==
  ASSUME IInv, loading # None, requests' = requests, pending' = pending,
         SourceOK(loading', requests, stored'),
         "fetch" \notin failed' /\ (loading' = None \/ loading'.at = "file") =>
             Safe(universe', lost', requests, current', stored')
  PROVE  KInv'
<1>1. /\ pending = None /\ NoStarter(requests)
      /\ \A i \in 1..Len(requests) : requests[i].next \notin Turns
  BY BringingIsQuiet
<1> DEFINE s == Now'
<1>2. s.requests = requests /\ s.pending = None /\ s.universe = universe' /\ s.lost = lost'
  BY <1>1 DEF Now
<1> HIDE DEF s
<1>3. QueueEnds(s, current')
  BY <1>1, <1>2, QuietQueueEnds
<1>4. Stores(s, current', loading', stored', failed')
  BY <1>2, <1>3 DEF Stores
<1>5. QED
  BY <1>4 DEF KInv, s

LEMMA FileReadSettles == ASSUME IInv, FileRead PROVE KInv'
<1>1. /\ loading # None /\ requests' = requests /\ pending' = pending
      /\ loading' = [at |-> "source", game |-> current, bytes |-> loading.bytes,
                     from |-> "disk", idle |-> FALSE]
  BY DEF FileRead, Start
<1>2. loading' # None
  <2>1. current \in Games /\ loading \in Loads
    BY <1>1 DEF IInv, Sound
  <2>2. loading' \in Loads
    BY <1>1, <2>1 DEF Loads
  <2>3. QED
    BY <2>2, Distinct
<1>3. SourceOK(loading', requests, stored')
  BY <1>1 DEF SourceOK
<1>4. QED
  BY <1>1, <1>2, <1>3, BringingSettles

LEMMA ReadFailsSettles == ASSUME IInv, KInv, ReadFails PROVE KInv'
<1>1. /\ loading # None /\ loading.at = "file" /\ loading' = None /\ failed' = failed \cup {"read"}
      /\ UNCHANGED <<universe, current, pending, requests, stored, lost>>
  BY DEF ReadFails
<1>2. "fetch" \notin failed => Safe(universe, lost, requests, current, stored)
  BY <1>1 DEF KInv, Stores, Now
<1>3. QED
  BY <1>1, <1>2, BringingSettles DEF SourceOK

LEMMA LoadFailsSettles == ASSUME IInv, LoadFails PROVE KInv'
<1>1. loading # None /\ loading' = None /\ universe' = Blank /\ requests' = requests /\ pending' = pending
  BY DEF LoadFails
<1>2. QED
  BY <1>1, BringingSettles DEF SourceOK, Safe

LEMMA FetchFailsSettles == ASSUME IInv, FetchFails PROVE KInv'
<1>1. /\ loading # None /\ loading' = None /\ requests' = requests /\ pending' = pending
      /\ "fetch" \in failed'
  BY DEF FetchFails
<1>2. QED
  BY <1>1, BringingSettles DEF SourceOK

(* What has arrived is stored, will be, or has not been played. *)
LEMMA ArrivedPlays ==
  ASSUME IInv, KInv, Loaded, NEW p \in {Arrived, [Arrived EXCEPT !.busy = TRUE]}
  PROVE  Playing(p, stored)
<1>1. /\ loading # None /\ loading.at = "source" /\ loading \in Loads /\ current \in Games
      /\ "fetch" \notin failed => loading.game = current
  BY DEF Loaded, IInv, Sound, GamesOK
<1>2. p.universe = loading.bytes /\ p.requests = Kept /\ p.lost = lost
  BY <1>1, ArrivedIsFree
<1>3. SourceOK(loading, requests, stored)
  BY DEF KInv, Stores, Now
<1>4. ASSUME "fetch" \notin failed PROVE Safe(p.universe, p.lost, p.requests, current, stored)
  <2>1. loading.game = current
    BY <1>1, <1>4
  <2>2. CASE loading.from = "disk"
    <3> DEFINE x == Put(loading.game, loading.bytes, "nothing")
    <3>1. Kept = Append(requests, x)
      BY <2>2 DEF Kept
    <3>2. x \in Requests /\ IsPut(x, current) /\ x.bytes = loading.bytes
      BY <1>1, <2>1 DEF Put, Request, Requests, IsPut, Loads
    <3>3. requests \in Seq(Requests)
      BY <1>1, BringingIsQuiet
    <3> HIDE DEF x
    <3>4. QED
      BY <1>2, <3>1, <3>2, <3>3, PutIsLast DEF Safe
  <2>3. CASE loading.from = "store"
    <3>1. requests = <<>> /\ stored[current] = loading.bytes /\ Kept = requests
      BY <1>1, <1>3, <2>1, <2>3 DEF SourceOK, Kept
    <3>2. Len(requests) = 0
      BY <3>1
    <3>3. QED
      BY <1>2, <3>1, <3>2 DEF Safe, WillHold
  <2>4. CASE loading.from = "web"
    BY <1>1, <1>2, <1>3, <2>4 DEF SourceOK, Safe
  <2>5. QED
    BY <1>1, <2>2, <2>3, <2>4 DEF Loads
<1>5. QED
  BY <1>4 DEF Playing

LEMMA LoadedSettles == ASSUME IInv, KInv, Loaded PROVE KInv'
<1> DEFINE go == [Arrived EXCEPT !.busy = TRUE]
<1>1. /\ loading # None /\ current \in Games
      /\ IF Ended(loading.bytes) THEN Becomes(Arrived)
         ELSE \E r \in Attempt(NewTurn, Call(0), FALSE, go) : Becomes(r)
      /\ loading' = None /\ UNCHANGED <<current, stored, failed>>
  BY DEF Loaded, Arrived, IInv, Sound
<1>2. Playing(Arrived, stored) /\ Playing(go, stored)
  BY ArrivedPlays
<1>3. CASE Ended(loading.bytes)
  <2>1. Free(Arrived)
    BY <1>1, ArrivedIsFree
  <2>2. Settled(Arrived, stored)
    BY <1>2, <2>1, QuietQueueEnds DEF Settled, Stores, SourceOK, Free, Playing
  <2>3. QED
    BY <1>1, <1>3, <2>1, <2>2, TurnSettles DEF Free
<1>4. CASE ~Ended(loading.bytes)
  <2>1. PICK r \in Attempt(NewTurn, Call(0), FALSE, go) : Becomes(r)
    BY <1>1, <1>4
  <2>2. Running(NewTurn, Call(0), go)
    BY <1>1, ArrivedRuns
  <2> HIDE DEF go
  <2>3. Rests(r) /\ Settled(r, stored)
    BY <1>1, <1>2, <2>1, <2>2, AttemptRests, AttemptSettles
  <2>4. QED
    BY <1>1, <2>1, <2>3, TurnSettles DEF Rests
<1>5. QED
  BY <1>3, <1>4

----------------------------------------------------------------------------
(* Storage answers. *)

\* What becomes of the stored sessions when the request q is carried out, or fails.
CarriedOut(q, done) ==
    stored' = IF ~done \/ q.op = "get" THEN stored ELSE [stored EXCEPT ![q.slug] = q.bytes]

LEMMA DoneIsHeld ==
  ASSUME IInv, requests # <<>>, NEW done \in BOOLEAN, CarriedOut(Head(requests), done), done,
         Head(requests).op = "put", NEW u, WillHold(requests, current, u, stored)
  PROVE  WillHold(Tail(requests), current, u, stored')
<1> DEFINE q == Head(requests)
<1>1. /\ stored \in [Games -> Universes \cup {None}] /\ current \in Games
      /\ requests \in Seq(Requests)
  BY DEF IInv, Sound, Pages, Now
<1>2. q \in Requests /\ q.slug \in Games
  BY <1>1, Answering DEF Requests
<1>3. stored' = [stored EXCEPT ![q.slug] = q.bytes]
  BY DEF CarriedOut
<1>4. stored'[current] = IF q.slug = current THEN q.bytes ELSE stored[current]
  BY <1>1, <1>2, <1>3
<1>5. stored'[current] = IF IsPut(q, current) THEN q.bytes ELSE stored[current]
  BY <1>4 DEF IsPut
<1>6. QED
  BY <1>1, <1>5, HeadCarriedOut

(* A request nobody waits for. *)
LEMMA QuietPutSettles ==
  ASSUME IInv, KInv, requests # <<>>, Head(requests).op = "put",
         NEW done \in BOOLEAN, CarriedOut(Head(requests), done),
         NEW s, Tailed(s), s.lost = (~done \/ lost), Becomes(s),
         UNCHANGED <<current, loading, failed>>
  PROVE  KInv'
<1>1. requests \in Seq(Requests)
  BY DEF IInv, Sound, Pages, Now
<1>2. s \in Pages /\ s.requests = Tail(requests) /\ s.universe = universe /\ s.pending = pending
  BY DEF Tailed
<1>3. /\ \A i \in 1..Len(s.requests) : i + 1 \in 1..Len(requests) /\ s.requests[i] = requests[i + 1]
      /\ Len(s.requests) + 1 = Len(requests) /\ Len(s.requests) \in Nat
  BY <1>1, <1>2, Answering
<1>4. QueueEnds(Now, current) /\ Now.requests = requests /\ Now.universe = universe
  BY DEF KInv, Stores, Now
<1>5. QueueEnds(s, current)
  <2>1. ASSUME NEW i \in 1..Len(s.requests), i + 1 = Len(requests) PROVE i = Len(s.requests)
    BY <1>3, <2>1
  <2>2. QED
    BY <1>2, <1>3, <1>4, <2>1, ZenonT(30) DEF QueueEnds
<1>6. SourceOK(loading, s.requests, stored')
  BY DEF KInv, Stores, SourceOK, Now
<1>7. ASSUME "fetch" \notin failed, loading = None \/ loading.at = "file"
      PROVE  Safe(s.universe, s.lost, s.requests, current, stored')
  <2>1. Safe(universe, lost, requests, current, stored)
    BY <1>7 DEF KInv, Stores, Now
  <2>2. CASE done /\ WillHold(requests, current, universe, stored)
    BY <1>2, <2>2, DoneIsHeld DEF Safe
  <2>3. CASE ~(done /\ WillHold(requests, current, universe, stored))
    <3>1. universe = Blank \/ universe.version = 0 \/ s.lost
      BY <2>1, <2>3, Zenon DEF Safe
    <3>2. QED
      BY <1>2, <3>1, Zenon DEF Safe
  <2>4. QED
    BY <2>2, <2>3
<1>8. Stores(s, current', loading', stored', failed')
  BY <1>2, <1>5, <1>6, <1>7 DEF Stores, KInv, Now
<1>9. QED
  BY <1>2, <1>8, LandsSettled

(* The request a turn waits for: it is the last, and holds what the turn did. *)
LEMMA TurnPutSettles ==
  ASSUME IInv, KInv, requests # <<>>, Head(requests).op = "put", Head(requests).next \in Turns,
         NEW done \in BOOLEAN, CarriedOut(Head(requests), done),
         NEW s, Tailed(s), s.busy = busy, s.lost = ~done,
         NEW r \in AfterSave(Head(requests).next, s), Becomes(r),
         UNCHANGED <<current, loading, failed>>
  PROVE  KInv'
<1> DEFINE q == Head(requests)
           t == q.next
<1>1. requests \in Seq(Requests) /\ current \in Games /\ stored \in [Games -> Universes \cup {None}]
  BY DEF IInv, Sound, Pages, Now
<1>2. q = requests[1] /\ 1 \in 1..Len(requests)
  BY <1>1, Answering
<1>3. QueueEnds(Now, current) /\ Now.requests = requests /\ Now.universe = universe
  BY DEF KInv, Stores, Now
<1>4. 1 = Len(requests) /\ q.slug = current /\ q.bytes = universe
  BY <1>2, <1>3 DEF QueueEnds
<1>5. Len(s.requests) = 0 /\ s.universe = universe /\ s \in Pages
  BY <1>1, <1>4 DEF Tailed
<1>6. Playing(s, stored')
  <2>1. CASE done
    <3>1. stored' = [stored EXCEPT ![q.slug] = q.bytes]
      BY <2>1 DEF CarriedOut
    <3>2. stored'[current] = universe
      BY <1>1, <1>4, <3>1
    <3>3. WillHold(s.requests, current, s.universe, stored')
      BY <1>5, <3>2 DEF WillHold
    <3>4. QED
      BY <3>3 DEF Playing, Safe
  <2>2. CASE ~done
    BY <2>2, Zenon DEF Playing, Safe
  <2>3. QED
    BY <2>1, <2>2
<1>7. Resumed(t, s) /\ loading = None
  BY AnsweredTurnResumes
<1> DEFINE call == s.turns[t]
<1>8. Rests(r) /\ Settled(r, stored')
  <2>1. CASE Settles(call, s)
    <3>1. r = Leave(t, s) /\ Running(t, call, s)
      BY <1>7, <2>1 DEF AfterSave, Resumed
    <3> HIDE DEF call, t
    <3>2. QED
      BY <1>6, <3>1, LeaveSettles, LeaveIsRest
  <2>2. CASE ~Settles(call, s)
    <3>1. r \in Attempt(t, NextTurn(call), FALSE, s) /\ Running(t, NextTurn(call), s)
      BY <1>7, <2>2 DEF AfterSave, Resumed
    <3> HIDE DEF call, t
    <3>2. QED
      BY <1>1, <1>6, <3>1, AttemptRests, AttemptSettles
  <2>3. QED
    BY <2>1, <2>2
<1>9. QED
  BY <1>7, <1>8, TurnSettles DEF Rests

(* start() has heard from storage: its request was the last. *)
LEMMA StartSettles ==
  ASSUME IInv, KInv, requests # <<>>, Head(requests).next \in Starters,
         NEW s, Tailed(s), Becomes(s),
         NEW g \in Games, NEW u \in Universes, NEW from \in {"store", "web"}, Start(g, u, from),
         from = "store" => stored'[g] = u,
         from = "web" => u.version = 0
  PROVE  KInv'
<1>1. /\ requests \in Seq(Requests) /\ Now.requests = requests
      /\ TurnsOK(Now) /\ BringingOK(Now, loading) /\ Now.pending = pending
  BY DEF IInv, Sound, Pages, Now
<1>2. Head(requests) = requests[1] /\ 1 \in 1..Len(requests)
  BY <1>1, Answering
<1>3. 1 = Len(requests)
  BY <1>1, <1>2 DEF KInv, Stores, QueueEnds
<1>4. s.requests = <<>> /\ Len(s.requests) = 0 /\ s \in Pages
  BY <1>1, <1>3 DEF Tailed
<1>5. s.pending = None
  BY <1>1, <1>2 DEF BringingOK, NoStarter, TurnsOK, Tailed
<1>6. /\ loading' \in Loads /\ loading'.at = "source" /\ loading'.game = g
      /\ loading'.bytes = u /\ loading'.from = from
  BY DEF Start, Loads
<1>7. SourceOK(loading', s.requests, stored')
  BY <1>4, <1>6 DEF SourceOK
<1>8. QueueEnds(s, current')
  BY <1>4 DEF QueueEnds
<1>9. Stores(s, current', loading', stored', failed')
  BY <1>5, <1>6, <1>7, <1>8, Distinct DEF Stores
<1>10. QED
  BY <1>4, <1>9, LandsSettled

LEMMA StorageSettles == ASSUME IInv, KInv, StorageAnswers PROVE KInv'
<1> DEFINE q == Head(requests)
<1>1. /\ Now \in Pages /\ QueueOK(Now) /\ current \in Games
      /\ stored \in [Games -> Universes \cup {None}] /\ requests \in Seq(Requests)
      /\ requests # <<>> /\ UNCHANGED failed
  BY DEF IInv, Sound, StorageAnswers, Pages, Now
<1>2. q \in Requests /\ q = requests[1] /\ 1 \in 1..Len(requests) /\ Tail(requests) \in Seq(Requests)
  BY <1>1, Answering
<1>3. PICK done \in BOOLEAN :
        /\ stored' = IF ~done \/ q.op = "get" THEN stored
                     ELSE [stored EXCEPT ![q.slug] = q.bytes]
        /\ LET s == [Now EXCEPT !.requests = Tail(@),
                                !.lost = IF q.op = "put" THEN ~done \/ (@ /\ q.next = "nothing")
                                         ELSE @]
           IN CASE q.op = "put" /\ q.next = "nothing" ->
                  Becomes(s) /\ UNCHANGED <<current, loading>>
             [] q.op = "put" /\ q.next # "nothing" ->
                  /\ \E r \in AfterSave(q.next, s) : Becomes(r)
                  /\ UNCHANGED <<current, loading>>
             [] q.op = "drop" ->
                  Becomes([s EXCEPT !.busy = TRUE]) /\ Start(current, Pristine(current), "web")
             [] q.op = "get" ->
                  /\ Becomes([s EXCEPT !.busy = TRUE])
                  /\ IF done /\ stored[q.slug] # None
                     THEN Start(q.slug, stored[q.slug], "store")
                     ELSE Start(q.slug, Pristine(q.slug), "web")
  BY DEF StorageAnswers
<1> DEFINE loses == IF q.op = "put" THEN ~done \/ (Now.lost /\ q.next = "nothing") ELSE Now.lost
           s == [Now EXCEPT !.requests = Tail(@),
                            !.lost = IF q.op = "put" THEN ~done \/ (@ /\ q.next = "nothing")
                                     ELSE @]
           go == [s EXCEPT !.busy = TRUE]
<1>4. CarriedOut(q, done)
  BY <1>3 DEF CarriedOut
<1>5. Tailed(s) /\ s.busy = busy /\ s.lost = loses
  <2>1. loses \in BOOLEAN
    BY <1>1 DEF Now, Pages
  <2>2. s = [Now EXCEPT !.requests = Tail(Now.requests), !.lost = loses]
    OBVIOUS
  <2>3. Now.requests = requests
    BY DEF Now
  <2> HIDE DEF loses, s, q
  <2>4. /\ s \in Pages /\ s.universe = Now.universe /\ s.pending = Now.pending
        /\ s.turns = Now.turns /\ s.requests = Tail(requests) /\ s.busy = Now.busy
        /\ s.lost = loses
    BY <1>1, <1>2, <2>1, <2>2, <2>3 DEF Pages
  <2>5. QED
    BY <2>4 DEF Tailed, Now
<1> HIDE DEF s
<1>6. Tailed(go)
  BY <1>5 DEF Tailed, Pages
<1> HIDE DEF go
<1>7. /\ (q.op = "put") = (q.next \notin Starters)
      /\ q.op \in {"get", "put", "drop"} /\ q.slug \in Games
      /\ q.next \in Turns \cup Starters \cup {"nothing"}
  <2>1. Now.requests = requests
    BY DEF Now
  <2>2. QED
    BY <1>1, <1>2, <2>1 DEF QueueOK, Requests
<1>8. CASE q.op = "put" /\ q.next = "nothing"
  <2>1. Becomes(s) /\ UNCHANGED <<current, loading>>
    BY <1>3, <1>8 DEF s
  <2>2. s.lost = (~done \/ lost)
    BY <1>5, <1>8, Zenon DEF Now
  <2>3. QED
    BY <1>1, <1>4, <1>5, <1>8, <2>1, <2>2, QuietPutSettles
<1>9. CASE q.op = "put" /\ q.next # "nothing"
  <2>1. PICK r \in AfterSave(q.next, s) : Becomes(r)
    BY <1>3, <1>9 DEF s
  <2>2. UNCHANGED <<current, loading>>
    BY <1>3, <1>9
  <2>3. q.next \in Turns
    BY <1>7, <1>9
  <2>4. s.lost = ~done
    BY <1>5, <1>9, Zenon
  <2>5. QED
    BY <1>1, <1>4, <1>5, <1>9, <2>1, <2>2, <2>3, <2>4, TurnPutSettles
<1>10. ASSUME NEW g \in Games PROVE Pristine(g) \in Universes /\ Pristine(g).version = 0
  BY VersionBound DEF Pristine, Universes
<1>11. CASE q.op = "drop"
  <2>1. Becomes(go) /\ Start(current, Pristine(current), "web")
    BY <1>3, <1>11 DEF go, s
  <2>2. q.next \in Starters
    BY <1>7, <1>11
  <2>3. QED
    BY <1>1, <1>6, <1>10, <2>1, <2>2, StartSettles
<1>12. CASE q.op = "get"
  <2>1. /\ Becomes(go)
        /\ IF done /\ stored[q.slug] # None THEN Start(q.slug, stored[q.slug], "store")
           ELSE Start(q.slug, Pristine(q.slug), "web")
    BY <1>3, <1>12 DEF go, s
  <2>2. q.next \in Starters /\ stored' = stored
    BY <1>3, <1>7, <1>12
  <2>3. CASE done /\ stored[q.slug] # None
    <3> DEFINE u == stored[q.slug]
    <3>1. u \in Universes /\ Start(q.slug, u, "store") /\ stored'[q.slug] = u
      BY <1>1, <1>7, <2>1, <2>2, <2>3
    <3> HIDE DEF u
    <3>2. QED
      BY <1>1, <1>6, <1>7, <2>1, <2>2, <3>1, StartSettles
  <2>4. CASE ~(done /\ stored[q.slug] # None)
    <3>1. Start(q.slug, Pristine(q.slug), "web")
      BY <2>1, <2>4
    <3>2. QED
      BY <1>1, <1>6, <1>7, <1>10, <2>1, <2>2, <3>1, StartSettles
  <2>5. QED
    BY <2>3, <2>4
<1>13. QED
  BY <1>7, <1>8, <1>9, <1>11, <1>12

----------------------------------------------------------------------------

LEMMA StepSettles == IInv /\ KInv /\ [Next]_vars => KInv'
<1> SUFFICES ASSUME IInv, KInv, [Next]_vars PROVE KInv'
  OBVIOUS
<1>1. CASE Answer
  BY <1>1, AnswerSettles
<1>2. CASE Command
  BY <1>2, CommandSettles
<1>3. CASE \E g \in Games : ChangeGame(g)
  BY <1>3, BeginningSettles DEF ChangeGame
<1>4. CASE \E g \in Games : Reload(g)
  BY <1>4, ReloadSettles
<1>5. CASE Restart
  <2>1. current \in Games
    BY DEF IInv, Sound
  <2>2. QED
    BY <1>5, <2>1, BeginningSettles DEF Restart
<1>6. CASE Upload
  BY <1>6, UploadSettles
<1>7. CASE StorageAnswers
  BY <1>7, StorageSettles
<1>8. CASE FileRead
  BY <1>8, FileReadSettles
<1>9. CASE ReadFails
  BY <1>9, ReadFailsSettles
<1>10. CASE Loaded
  BY <1>10, LoadedSettles
<1>11. CASE LoadFails
  BY <1>11, LoadFailsSettles
<1>12. CASE FetchFails
  BY <1>12, FetchFailsSettles
<1>13. CASE UNCHANGED vars
  <2>1. Now' = Now /\ UNCHANGED <<current, loading, stored, failed>>
    BY <1>13 DEF vars, Now
  <2>2. QED
    BY <2>1 DEF KInv
<1>14. QED
  BY <1>1, <1>2, <1>3, <1>4, <1>5, <1>6, <1>7, <1>8, <1>9, <1>10, <1>11, <1>12, <1>13
     DEF Next, Work

LEMMA AlwaysSettled == Spec => []KInv
<1>1. Init => KInv
  BY InitSettles
<1>2. IInv /\ KInv /\ [Next]_vars => KInv'
  BY StepSettles
<1>3. QED
  BY <1>1, <1>2, AlwaysSound, PTL DEF Spec

\* A player who leaves the page at a prompt finds the game as it stands there
\* (drivers/README.md:46-47), whatever was uploaded, restarted, refused or asked
\* of storage before, unless the last request or the last turn failed or a game
\* could not be fetched.
THEOREM PromptIsStoredHolds == Spec => []PromptIsStored
<1>1. IInv /\ KInv => PromptIsStored
  <2> SUFFICES ASSUME IInv, KInv, pending # None, requests = <<>>, ~lost, "fetch" \notin failed
               PROVE  universe.version = 0 \/ stored[current] = universe
    BY DEF PromptIsStored
  <2>1. TurnsOK(Now) /\ BringingOK(Now, loading) /\ Now.pending = pending
    BY DEF IInv, Sound, Now
  <2>2. loading = None
    BY <2>1 DEF TurnsOK, BringingOK
  <2>3. universe # Blank /\ Safe(universe, lost, requests, current, stored)
    BY <2>2 DEF KInv, Stores, Now
  <2>4. Len(requests) = 0
    OBVIOUS
  <2>5. QED
    BY <2>3, <2>4 DEF Safe, WillHold
<1>2. QED
  BY <1>1, AlwaysSound, AlwaysSettled, PTL
=============================================================================
