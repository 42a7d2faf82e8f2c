------------------------------- MODULE Page -------------------------------
(***************************************************************************)
(* The web driver (play.js over wasm_api.cc): one universe resident in the *)
(* page, turns that are conversations and follow one another by            *)
(* themselves, controls that replace the universe, and the browser's       *)
(* storage, whose requests are queued and answered later.  An action is    *)
(* one event with all that runs before the page waits again.  A turn's     *)
(* generation is kept as a flag: whether it still is the current one.      *)
(***************************************************************************)
EXTENDS Naturals, Sequences

CONSTANTS
    Games,
    Turns,        \* identities of the calls of takeTurn
    None,
    Blank,        \* the module without a game: none was loaded, or a load failed
    MaxVersion,   \* bound: universes of one game that are told apart, in a circle
    OnDisk,       \* bound: the versions the player has a file of
    MaxRequests,  \* bound: requests to storage that wait
    MAX_PROMPTS, MAX_QUIET_TURNS,
    MayFail       \* the requests that can fail: "store", "fetch", "read"

ASSUME PageAssumption ==
    /\ None \notin Turns \cup Games /\ {MaxVersion, MaxRequests} \subseteq Nat \ {0}
    /\ {MAX_PROMPTS, MAX_QUIET_TURNS} \subseteq Nat
    /\ OnDisk \subseteq 0..MaxVersion
    /\ MayFail \subseteq {"store", "fetch", "read"}

\* What identifies a turn is nothing else.
ASSUME TurnsAssumption == Turns # {} /\ Turns \cap {"nothing", "start", "start idle"} = {}

VARIABLES
    universe,   \* the universe in the module
    current,    \* the game on the screen
    busy,
    pending,    \* the call of takeTurn that waits for the player
    turns,      \* the calls of takeTurn in progress, and their variables
    loading,    \* what start(), or an upload before it, is waiting for
    requests,   \* what storage has been asked and has not answered, in order
    stored,     \* the stored sessions
    failed,     \* history: the requests for a universe that have failed
    lost        \* history: what the universe holds was to be kept, and was not

vars == <<universe, current, busy, pending, turns, loading, requests, stored, failed, lost>>

Universes == [game : Games, version : 0..MaxVersion, ended : BOOLEAN]
Pristine(g) == [game |-> g, version |-> 0, ended |-> FALSE]
Changed(u) == {[u EXCEPT !.version = IF @ = MaxVersion THEN 1 ELSE @ + 1, !.ended = e] :
                  e \in BOOLEAN}

Calls == [items : 0..MAX_PROMPTS+2, attempt : 0..MAX_PROMPTS, quiet : 0..MAX_QUIET_TURNS,
          asked : BOOLEAN,
          stale : BOOLEAN]   \* history: the universe was replaced meanwhile

Call(items) == [items |-> items, attempt |-> 0, quiet |-> 0, asked |-> FALSE, stale |-> FALSE]

Loads == [at : {"file", "source"}, game : Games, bytes : Universes,
          from : {"disk", "store", "web"}, idle : BOOLEAN]

ASSUME TokensAssumption == None \notin Universes \cup Calls \cup Loads /\ Blank \notin Universes

Live == {t \in Turns : turns[t] # None}
NewTurn == CHOOSE t \in Turns : t \notin Live
Ended(u) == u # Blank /\ u.ended

\* A request, and who waits for it: a turn, start(), start() on an idle page, nobody.
Request(op, slug, bytes, next) == [op |-> op, slug |-> slug, bytes |-> bytes, next |-> next]
Put(slug, bytes, next) == Request("put", slug, bytes, next)
Starter == IF busy THEN "start" ELSE "start idle"

----------------------------------------------------------------------------
(* takeTurn, from one wait to the next.  's' is the page at that moment, and *)
(* each operator gives the pages it can become.                              *)

Now == [universe |-> universe, busy |-> busy, pending |-> pending,
        turns |-> turns, requests |-> requests, lost |-> lost]

Becomes(s) ==
    /\ universe' = s.universe /\ busy' = s.busy /\ pending' = s.pending
    /\ turns' = s.turns /\ requests' = s.requests /\ lost' = s.lost

Runs(s) == s.universe # Blank /\ ~s.universe.ended

\* The finally block of a turn that still owns the page.
Leave(t, s) == [s EXCEPT !.turns[t] = None, !.busy = FALSE]

\* A bug: the page waits for the player with the question's promise lost.
AsksUnheard(t, call, s) == {[s EXCEPT !.turns[t] = call] : x \in {y \in {0} : Runs(s)}}

\* askPlayer: the universe is as it was before the turn.
Asks(t, call, s) ==
    {[s EXCEPT !.turns[t] = call, !.pending = t] : x \in {y \in {0} : Runs(s)}}

\* A bug: autosave() takes the universe from before the turn.
CompletesLate(t, call, game, s) ==
    {[s EXCEPT !.universe = u, !.turns[t] = call,
               !.requests = Append(@, Put(game, s.universe, t))] :
        u \in {v \in Changed(s.universe) : Runs(s)}}

\* The turn is complete, and autosave() asks storage to keep the universe.
Completes(t, call, game, s) ==
    {[s EXCEPT !.universe = u, !.turns[t] = call, !.requests = Append(@, Put(game, u, t))] :
        u \in IF Runs(s) THEN Changed(s.universe) ELSE {}}

\* The turn fails, perhaps half way: what it had done stays done, and unsaved.
Errs(t, s) ==
    {Leave(t, s)} \cup
    {[Leave(t, s) EXCEPT !.universe = u, !.lost = TRUE] :
        u \in IF Runs(s) THEN Changed(s.universe) ELSE {}}

\* One attempt: arch_turn with the items in hand.  A turn that was declined an
\* answer asks for nothing more.
Attempt(t, call, declined, s) ==
    (IF declined THEN {} ELSE Asks(t, call, s)) \cup Completes(t, call, current, s) \cup Errs(t, s)

\* A bug: quiet turns are not counted.
Uncounted(call) == [call EXCEPT !.items = 0, !.attempt = 0, !.asked = FALSE]

\* The loop goes round: the next turn starts with nothing in hand.
NextTurn(call) ==
    [call EXCEPT !.items = 0, !.attempt = 0, !.asked = FALSE,
                 !.quiet = IF call.asked THEN 0 ELSE @ + 1]

\* autosave() is done: the game is over, or too many turns asked nothing.
Settles(call, s) == Ended(s.universe) \/ (~call.asked /\ call.quiet = MAX_QUIET_TURNS)

AfterSave(t, s) ==
    IF Settles(s.turns[t], s) THEN {Leave(t, s)}
    ELSE Attempt(t, NextTurn(s.turns[t]), FALSE, s)

----------------------------------------------------------------------------
(* The player. *)

Opening(t) == turns[t].items = 0

\* An answer, or Escape, which declines a question but not an opening prompt.
\* After the last attempt the turn is given up, and the answer goes unused.
Answer ==
    /\ pending # None
    /\ \E declines \in BOOLEAN :
         LET call == [turns[pending] EXCEPT !.items = @ + 1, !.asked = TRUE]
             s == [Now EXCEPT !.pending = None]
         IN  /\ declines => ~Opening(pending)
             /\ \E r \in IF call.attempt = MAX_PROMPTS
                         THEN {Leave(pending, s)}
                         ELSE Attempt(pending, [call EXCEPT !.attempt = @ + 1], declines, s) :
                   Becomes(r)
    /\ UNCHANGED <<current, loading, stored, failed>>

\* A universe is being brought in.
Waiting == loading # None \/ \E i \in DOMAIN requests : requests[i].next \in {"start", "start idle"}

\* An assumption on the player: a control that was used on an idle page is
\* left to do its work before anything else is done.
Patience ==
    /\ loading # None => ~loading.idle
    /\ \A i \in DOMAIN requests : requests[i].next # "start idle"

\* A command, where no turn is running and nothing is asked.
Command ==
    /\ pending = None /\ ~busy /\ ~Ended(universe) /\ Patience
    /\ \E r \in Attempt(NewTurn, Call(1), FALSE, [Now EXCEPT !.busy = TRUE]) : Becomes(r)
    /\ UNCHANGED <<current, loading, stored, failed>>

----------------------------------------------------------------------------
(* The controls that replace the universe. *)

\* A bug: the abandoned turn is not told that it was superseded.
AbandonOwning(s) ==
    IF s.pending = None THEN s
    ELSE [Leave(s.pending, s) EXCEPT !.pending = None]

\* abandonTurn: the generation moves on, so the turn leaves without touching busy.
Abandon(s) ==
    IF s.pending = None THEN s
    ELSE [s EXCEPT !.turns[s.pending] = None, !.pending = None]

\* A bug: a turn is in the way only where it is in the middle of a question.
InterruptingQuestions == pending # None /\ ~Opening(pending)

\* interrupting(): a turn that is at its opening prompt is not in the way.
Interrupting == busy /\ (pending = None \/ ~Opening(pending))

Control == ~Interrupting /\ Patience /\ Len(requests) < MaxRequests

ChangeGame(g) ==
    /\ Control
    /\ Becomes([Abandon(Now) EXCEPT !.requests = Append(@, Request("get", g, None, Starter))])
    /\ UNCHANGED <<current, loading, stored, failed>>

Restart ==
    /\ Control
    /\ Becomes([Abandon(Now) EXCEPT !.requests = Append(@, Request("drop", current, None, Starter))])
    /\ UNCHANGED <<current, loading, stored, failed>>

\* A save of the game on the screen, to be read from the player's disk.
Upload ==
    /\ Control
    /\ Becomes(Abandon(Now))
    /\ \E u \in {v \in Universes : v.game = current /\ v.version \in OnDisk} :
         loading' = [at |-> "file", game |-> current, bytes |-> u, from |-> "disk",
                       idle |-> ~busy]
    /\ UNCHANGED <<current, stored, failed>>

\* start() up to its source: a stored session, an uploaded one, or the game's file.
Start(g, u, from) ==
    /\ current' = g
    /\ loading' = [at |-> "source", game |-> g, bytes |-> u, from |-> from,
                   idle |-> FALSE]

FileRead ==
    /\ loading # None /\ loading.at = "file"
    /\ Start(current, loading.bytes, "disk")
    /\ busy' = TRUE
    /\ UNCHANGED <<universe, pending, turns, requests, stored, failed, lost>>

\* The file cannot be read: the page says so, and that is all.
ReadFails ==
    /\ "read" \in MayFail
    /\ loading # None /\ loading.at = "file"
    /\ loading' = None /\ failed' = failed \cup {"read"}
    /\ UNCHANGED <<universe, current, busy, pending, turns, requests, stored, lost>>

\* The source's bytes are loaded, an upload is stored, and the first turn runs.
Loaded ==
    /\ loading # None /\ loading.at = "source"
    /\ loading' = None
    /\ LET s == [Now EXCEPT
                    !.universe = loading.bytes, !.busy = FALSE,
                    !.turns = [t \in Turns |-> IF t \in Live THEN [turns[t] EXCEPT !.stale = TRUE]
                                               ELSE None],
                    !.requests = IF loading.from = "disk"
                                 THEN Append(@, Put(loading.game, loading.bytes, "nothing"))
                                 ELSE @]
       IN  IF Ended(loading.bytes) THEN Becomes(s)
           ELSE \E r \in Attempt(NewTurn, Call(0), FALSE, [s EXCEPT !.busy = TRUE]) : Becomes(r)
    /\ UNCHANGED <<current, stored, failed>>

\* What was uploaded is no universe: the old one is torn down all the same.
LoadFails ==
    /\ loading # None /\ loading.at = "source" /\ loading.from = "disk"
    /\ loading' = None
    /\ universe' = Blank /\ busy' = FALSE
    /\ UNCHANGED <<current, pending, turns, requests, stored, failed, lost>>

FetchFails ==
    /\ "fetch" \in MayFail
    /\ loading # None /\ loading.at = "source" /\ loading.from = "web"
    /\ loading' = None /\ failed' = failed \cup {"fetch"}
    /\ busy' = FALSE
    /\ UNCHANGED <<universe, current, pending, turns, requests, stored, lost>>

----------------------------------------------------------------------------
(* Storage, and the page closed and opened again. *)

\* The first request is carried out, or fails, and whoever waits for it goes on.
StorageAnswers ==
    /\ requests # <<>>
    /\ LET q == Head(requests)
       IN  /\ UNCHANGED failed
           /\ \E done \in IF "store" \in MayFail THEN BOOLEAN ELSE {TRUE} :
                /\ stored' = IF ~done \/ q.op = "get" THEN stored
                             ELSE [stored EXCEPT ![q.slug] = q.bytes]
                /\ LET s == [Now EXCEPT !.requests = Tail(@),
                                         !.lost = IF q.op = "put" THEN ~done \/ (@ /\ q.next = "nothing")
                                                  ELSE @]
                   IN CASE q.op = "put" /\ q.next = "nothing" ->
                          Becomes(s) /\ UNCHANGED <<current, loading>>
                     [] q.op = "put" /\ q.next # "nothing" ->
                          /\ \E r \in AfterSave(q.next, s) : Becomes(r)
                          /\ UNCHANGED <<current, loading>>
                     [] q.op = "drop" ->
                          Becomes([s EXCEPT !.busy = TRUE]) /\ Start(current, Pristine(current), "web")
                     [] q.op = "get" ->
                          /\ Becomes([s EXCEPT !.busy = TRUE])
                          /\ IF done /\ stored[q.slug] # None
                             THEN Start(q.slug, stored[q.slug], "store")
                             ELSE Start(q.slug, Pristine(q.slug), "web")

\* The tab is closed or reloaded; a request that was not answered is forgotten.
Reload(g) ==
    /\ universe' = Blank /\ current' = g /\ busy' = FALSE /\ pending' = None
    /\ turns' = [t \in Turns |-> None] /\ loading' = None
    /\ requests' = <<Request("get", g, None, "start idle")>> /\ lost' = FALSE
    /\ failed' = failed \ {"read"}
    /\ UNCHANGED stored

Init ==
    /\ universe = Blank /\ current \in Games /\ busy = FALSE /\ pending = None
    /\ turns = [t \in Turns |-> None] /\ loading = None
    /\ requests = <<Request("get", current, None, "start idle")>>
    /\ stored = [g \in Games |-> None] /\ failed = {} /\ lost = FALSE

Work == StorageAnswers \/ FileRead \/ ReadFails \/ Loaded \/ LoadFails \/ FetchFails

Next ==
    \/ Answer \/ Command
    \/ \E g \in Games : ChangeGame(g) \/ Reload(g)
    \/ Restart \/ Upload
    \/ Work

Spec == Init /\ [][Next]_vars /\ WF_vars(Work)

----------------------------------------------------------------------------
(* Properties. *)

TypeOK ==
    /\ universe \in Universes \cup {Blank} /\ current \in Games
    /\ busy \in BOOLEAN /\ lost \in BOOLEAN
    /\ pending \in Live \cup {None}
    /\ turns \in [Turns -> Calls \cup {None}]
    /\ loading \in Loads \cup {None}
    /\ failed \subseteq {"fetch", "read"}
    /\ stored \in [Games -> Universes \cup {None}]

\* Two turns are never in progress at a time, nor one while a universe is being
\* brought in, and a turn in progress is never taken for an idle page: no turn
\* gives busy away when it belongs to another (play.js:257-259).
OneOwner ==
    /\ \A t, u \in Live : t = u
    /\ Live # {} => busy /\ ~Waiting

\* The page is never left busy with nothing that could end it (play.js:562-565).
NeverStuck == busy => Live # {} \/ Waiting

\* The question on the screen was asked by the universe that will be given the
\* answer: a turn that waits never replays against another (play.js:530-534).
AnswerGoesToWhoAsked == pending # None => ~turns[pending].stale

\* The stored session of a game is a session of that game (play.js:457-459).
SavesStayApart == \A g \in Games : stored[g] # None => stored[g].game = g

\* It is, as long as every game that was asked for could be fetched: no turn of
\* a game, its requests answered late, is kept as another's.
SaveBelongsToItsGame == "fetch" \in failed \/ SavesStayApart

\* A player who leaves the page at a prompt finds the game as it stands there:
\* it is stored, unless storage or a turn failed last, a game could not be fetched,
\* or nothing has been played (drivers/README.md:46-47).
PromptIsStored ==
    pending # None /\ requests = <<>> /\ ~lost /\ "fetch" \notin failed
        => universe.version = 0 \/ stored[current] = universe

\* The page always comes back to the player, although turns follow one another
\* by themselves, unless a file could not be read (play.js:315-319).
PageComesBack == (busy /\ pending = None) ~> (~busy \/ pending # None \/ "read" \in failed)
=============================================================================
