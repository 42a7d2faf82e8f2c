# A TLA+ model of the Archetype interpreter

Archetype is an interpreter for a small object language in which text adventures
are written. A game is compiled into a *universe*, a graph of objects, messages
and statements, and a universe can be written to a `.acx` file at any moment and
read back. Everything the program promises a player hangs on that: a save, an
autosave, a turn put back and run again, a web page reloaded in the middle of a
game are all the same file format and the same two operators, `operator<<` and
`operator>>` of `Universe`. These modules model how a universe is compiled, how
its statements change it, how the player's words reach it, how it is kept, and
how the drivers play it turn by turn.

All paths below are relative to the repository. Modules are parsed and checked
in this directory: `tlc -config X.cfg M` and `tlapm M_proofs.tla`.

## 1. Inventory

The interpreter is single-threaded C++; its concurrency is with the world:
processes that are killed, disks and storage that fail, players and browser events
that arrive between two steps.

| Component | State it keeps | Operations | What makes it correct |
|---|---|---|---|
| Atomic file replacement, `src/FileStorage.cc` | `path`, `path.tmp`, `path.bak` | `writeBytesAtomically` | never torn; the previous state survives every crash; the result tells the truth |
| Autosave and sessions, `src/Autosave.cc`, `src/main.cc` | `armed_`, `cadence_`, `watchingTurns_`, the watched ids | `arm`, `rearm`, `disarm`, `noteDispatch`, `checkpoint`; start, resume, the ways out of `main` | a completed turn is on disk; a clean exit is saved; a failure is said once |
| Id index, `src/IdIndex.hh` | `index_`, `registry_`, `unused_` | `index`, `remove`, `write`, `read`, `clear` | inverse maps, exact free set, lowest free slot, holes survive a save |
| Universe and objects, `src/Universe.cc`, `src/Object.cc` | the object registry, attributes, methods, parents, names, contexts, the seed, `ended_` | define, destroy, look up, dispatch, save, load | references resolve, lookups end, contexts come back, a load restores what was saved |
| Expressions and values, `src/Expression.cc`, `src/Value.cc` | none of their own | parse, evaluate, convert, assign, compare | grouping by precedence; comparisons agree; writes land on self |
| Statements, `src/Statement.cc` | the running `for each` | control flow, create, destroy, for each, output | a loop misses nothing that survives it |
| Sources and tokens, `src/TokenStream.cc`, `src/Wellspring.cc` | the token not consumed, the newlines that count, sources around, files ever opened | `fetch`, `include` | a program means what it says however its lines are broken |
| Serialization, `src/Serialization.cc` | the place in the file | integers, texts, counts, records | what is read is what was written; a piece of a file is refused |
| System object, sorter, parser, `src/System*.cc` | the state of the conversation, the bag of texts, the vocabulary, who is near | the messages to `system` | it always listens; longest phrase first; nearest namesake |
| Turns for stateless drivers, `src/update_universe.cc`, `src/TurnInput.hh`, `src/Random.hh` | snapshot, answers in hand, generator | `run_turn`, `run_turn_collecting`, `getLine`, `getKey` | asking is invisible: the game is as though turns were played at once |
| Web driver, `drivers/web/play.js`, `src/wasm_api.cc` | `busy`, `pending`, `generation`, `current`, IndexedDB | `takeTurn`, `start`, the controls, `autosave` | one turn owns the page; answers and saves go where they belong; the page comes back |
| Cloud Run driver, `drivers/cloud_run/main.py` | one blob per adventure | `/update` | no turn lost between two requests |
| Output | pending word, column, rows | `put`, `endLine`, pager | nothing dropped, nothing over the width |
| Command line, inspection, the interactive loop | none | options; RDF; a statement at a time | an error leaves the prompt usable |

How they interact: a driver loads a universe (`load_universe`), and plays it by
dispatching `UPDATE` to its `main` object; the game's statements change the
object registry; `SAVE STATE` and `LOAD STATE`, messages to the system object,
write and replace the whole universe from *inside* a statement that is running;
`Object::dispatch` calls the autosave hook after every method of `main`; a
checkpoint serializes the universe and hands the bytes to
`writeBytesAtomically`. The web page calls the same functions through
`wasm_api.cc`, one attempt at a turn at a time, and keeps the bytes in
IndexedDB.

Where it is hard: a process killed at any step of a write; a write that fails
part way; a load that replaces the universe under a running loop, a running
method or an armed autosave; ids that outlive their object; turns that are run
again from the top with the random sequence carried along; methods that destroy
the object they run for, or assign to the attribute that is being read;
exceptions out of any depth of sends; phrases that compete for
the same words; browser events and
late answers of storage in any order. `PROJECT.json` lists these hazards at their
lines, with the property that covers each or the reason none does.

## 2. Modules

### FileStore, DurableSlot, FileStore_proofs

`FileStore` is one call of `writeBytesAtomically` after another, by anyone. Each
file-system call (open, write and flush, rename to `.bak`, rename over the path)
is an action and so is its failure; `Crash` can come between any two. File
contents are states, `Absent` or `Torn`. A rename is atomic and there is no power
loss, as `FileStorage.hh:68-69` says. The variables `pc`, `bytes`, `keep` are the
call's position and arguments; `before` is history. `DurableSlot` is what a
caller wants: one durable state, replaced in a single step by the one offered, and
nothing else. `NothingIsEverLost` says that FileStore implements it when what
can be recovered is the file, or its backup while the file is missing.

### Session, Session_proofs

A whole session with `--autosave`, composed with FileStore (`FS`): start from a
game or from the autosave file, turns, checkpoints after a turn and at exit,
`SAVE STATE` over the autosave file (no backup), `LOAD STATE` of that file or
another, loads that throw, every way out of `main`, kills at any step, and starting
again. `armed`, `cadence`, `watching`, `watched` are Autosave's members; `running`
is the main object whose loop is on the stack, which a load does not change.
Universes are told apart by their game, their turn and whether a turn is under
way; `Half` is what a load that threw has left.

### IdIndex, SlotTable, IdIndex_proofs

`IdIndex` translates the template line by line in meaning: `index`, `remove` with
its trimming of trailing holes, `write` (which does not write the holes), `read`
(which recovers them) and its refusals. Keys are any values, one of which may be
the type's default value `Blank`. `SlotTable` is a table that hands out the
lowest unused slot and can be saved and restored; `HandsOutLowestUnused` says that
IdIndex implements it.

### Universe, Universe_proofs

The object registry as running games use it, built on IdIndex's operators
(`R`): `create`, `destroy`, `for each` (whose range is fixed when it begins), a
save and a load between any two statements, loops included. Objects live at
addresses and are named by slot numbers; each has a parent, a prototype flag and
one attribute that may hold a reference. Statements are arbitrary: the model lets a
game destroy its own types and named objects. `stale` records, as
history, that the object an attribute was given has been destroyed. Whether a game destroys
the reserved objects is a constant. `Addresses` is all the memory there is: an object is
created, and a file loaded, only while the new objects find free addresses.

### Turn, WholeTurn, Turn_proofs, WholeTurn_proofs

`Turn` is `run_turn_collecting` over `TurnInput` and the seeded generator, driven
the way `wasm_api.cc` lets a page drive it. A game is a sequence of operations
(read a line, wait for a key, draw a number, stop, fail), and a draw decides what
comes next, so that an attempt which drew other numbers would be another turn.
`Attempt` seeds and takes the snapshot, the operations run one by one, `Asks` puts
the universe back, `Answer` runs it all again with one more item. Random numbers
are a cycle of `Period` states. `WholeTurn` is the promise: turns are played at
once, and a save is what the game was between two of them; `TurnsHappenWhole`
is the refinement, with the snapshot standing for the universe while a turn runs.
A turn that fails is not put back, in the code and in both modules.

### Page, Page_proofs

`play.js`, an event at a time: an action is what runs from one wait to the next.
`turns` holds the local variables of each call of `takeTurn` that is in progress;
`pending` is the one that waits for the player; a request to storage is queued and
answered later, and says who waits for it. `Answer`, `Command` and the three
controls are the player; `StorageAnswers`, `Loaded`, `FileRead` and their
failures are the browser; `Reload` forgets everything but what is stored. A turn's
comparison of `mine` with `generation` becomes the difference between `Leave` and
`Abandon`: only a waiting turn can be abandoned, so the comparison fails for
that one and for no other. Left out: widths, the transcript, the status line,
whether the box is enabled, and `arch_save` failing.

Three assumptions. Requests to storage are answered in order. An uploaded file is a
save of the game on the screen, or no universe at all. And a control used on an *idle*
page (a finished game, the quiet cap) is left to do its work (`Patience`): the code sets `busy`
only when storage has answered, so a second control used in that moment really
starts a second `start()`; it is listed as a hazard. On a page that waits at
its prompt no such patience is assumed.

### Values, Interpreter

How a game runs. `Values` has the ten kinds of value, their conversions and the
operators on plain values; `Interpreter` has what looks into the universe:
references to attributes, inheritance, `send` and `pass`, the default method, and
every kind of statement. `Eval` and `Exec` take a universe to a value
and the universe it leaves, the way the C++ recursion does (both go on through `Run`), with each context
pushed and popped and each exception passing through; `ended` says how a
statement stopped short (an exception, the end of the game, a crash, a bound of
the model). The state machine is the prompt: one statement per step, an
exception is caught there and the next statement goes on with what is left, as
`repl()` has it. `heap` has every object ever made, at its address, and `slots`
the registry, whose free places are reused. A context has `self`, `sender`,
`each` and `message`; `reading` are the attributes on the C++ stack, so that an
expression freed by its own assignment (`Object.cc:58`) is noticed and ends the
run of that statement as "freed". `writes` and `matches` are history. `MCInterpreter`
compiles a type and two instances with seven things a method may do, and eleven statements.

Left out: the width of `int`, the texts of error messages, the debugging output,
`write_centered`'s width; random numbers are a counter.

### Formats, Compiler, Printer

From source to a universe, and from there to a file and back. `Compiler` is the
token stream with the token it is told was not consumed and its memory for newlines, the expression parser that grows an
expression to the right (`tieOnRightSide`), the parsers of all the statements, the declarations of
`Universe::make` with the kinds of identifiers, and `include`. A keyword list classifies what follows a comma
by its number before it looks at what it is, as the code does. An action is one
top-level declaration. A source file is a sequence of lexemes; every line ends
with a newline, as `SourceFile::readChar` sees to. `Formats` is the binary
format, byte by byte for numbers and record by record above them, writing and reading; `Store`, `Tear`
and `Load` are the file's actions, and `Tear` cuts it at any byte. `Printer` is the other direction and the
reference: it prints a program with no more parentheses than a table of
precedences needs, in several layouts, so that compiling must give back what was
printed. It translates no code; what it says of the language is what `ParsesAsWritten` checks.

### SystemParser, SystemObject, SystemObject_proofs

`SystemObject` is the conversation every game has with `system`: the states of
`SystemObject.hh`, one message or a whole list in one send, the
sorter (a bag, from which the lowest text is taken), the parser, and `SAVE STATE` and `LOAD
STATE`, which write and replace the universe that the system object is itself a
part of. Any sender may say anything at any time, and between two messages the
universe may be stored and a process started again from it. `SystemParser` is
the vocabulary and the matching: phrases are sorted, longest first, and each in turn
takes the place of the words it finds, first verbs, then nouns with their
near namesakes. How often the vocabulary was closed, and whether its names stood together when it was
(`closings`, `together`), is history. Texts are sequences of spellings with a size and the word they
come to when punctuation and case are gone. `heard` is history. `Objects` are those who may speak.
Sorting is stated by places (as many entries stand before one as its place says), and the words of a slot and the
phrases of a list by `FlattenSeq`, so that proofs can reason about them.

## 3. Runs

| Run | Question | Result |
|---|---|---|
| `FileStore` | every failure and crash of any number of writes | `IInv`, `NeverTorn`, `WriteContract`, `NothingIsEverLost` hold (872 states) |
| `Session` | is what the player was promised on disk? | six invariants and `NoQuietFailure` hold (554 461 states) |
| `SessionFailedLoad` | can half a universe be saved? | yes, by the exit checkpoint after a load that threw |
| `IdIndex` | every history of four keys, one of them blank | `IInv`, `RoundTrip`, `HandsOutLowestUnused` hold (43 681 states) |
| `Universe` | create, destroy, loops, saves and loads in any order | five properties hold (216 131 states) |
| `Turn` | does asking, putting back and running again show? | five properties hold (185 967 states) |
| `Page` | the page with two games, in every order of events | five properties hold (205 224 states) |
| `PageWrongSlot` | are the stored sessions of two games kept apart? | no, after a game that could not be fetched |
| `Interpreter` | what do statements leave behind, however they end? | `ContextRestored`, `WritesGoToSelf`, `ComparisonsAgree`, `TypesKeepTheirAttributes` hold (33 964 states) |
| `Compiler` | does a program mean what it says, and a file what was stored? | `ParsesAsWritten`, `UndefinedAreReported`, `LoadsWhatWasStored` hold (24 637 states) |
| `SystemObject` | four messages from anybody, saves, loads and restarts between them | `AlwaysListening`, `EveryWordIsHeard`, `LongestPhraseWins`, `NearestNamesakeIsChosen` hold (186 814 states) |
| `SystemObjectNamesake` | is a present namesake always chosen? | no, once the vocabulary has been closed twice |

What the properties mean is said above each in its module; they are invariants
unless named here. `NothingIsEverLost`, `HandsOutLowestUnused` and
`TurnsHappenWhole` are refinements, `LoadRestores` and `TypesKeepTheirAttributes` are action properties,
`NoQuietFailure` and `PageComesBack` are liveness.

The findings of the three violation runs, with the lines they disagree with, are in
`PROJECT.json`. Seven more disagreements are stated as properties in the modules that no run keeps;
each is seen by putting the property in the cfg in place of those there (`UndefinedAreReported` is what does hold of the sixth):

| Property | What the code does | What is said |
|---|---|---|
| `FileStore!FailureLeavesPathAsItWas` | a failed second rename leaves only the backup (`FileStorage.cc:139`) | "path is left as it was" (`FileStorage.hh:71-72`) |
| `Universe!DestroyedIsUndefined` | the next object created takes the slot (`Universe.cc:186`) | references "will be UNDEFINED" (`Universe.hh:99-100`) |
| `Universe!RecordsFitSlots`, with `MayDestroyReserved = TRUE` and `MaxSlots = 6` | `destroy null`, a save, a load and a create write a file that is refused (`Universe.cc:539`) | `SAVE STATE` reports success |
| `Page!NeverStuck` | an upload that cannot be read, made at an opening prompt, leaves `busy` set (`play.js:614`) | `play.js:536-538` |
| `Compiler!CommentsEndWithTheirLine`, with `Projects <- MCRemarks` | a comment takes the newline with it, so `write # comment` writes the next line's expression (`TokenStream.cc:185-196`) | "comment to end of line" (`archetype-mode.el:171`) |
| `Compiler!EveryUndefinedIsReported` | after `keyword look,` the number of the next declaration's first word is classified as a keyword (`Universe.cc:338`), and an undefined name of that number is not reported | "was never defined" (`Universe.cc:139`), and a list of "identifiers" (`Universe.cc:328`) |
| `Interpreter!ListsMatchOnlyLists` | `case` compares a list by the text it prints as (`Statement.cc:289`) | "a list and anything else are simply not the same value" (`Expression.cc:414-418`) |

The two of `Universe` were also seen
with a build of the interpreter: after `destroy a` the reference is not UNDEFINED and
reads the next object created; and `destroy null; SAVE; LOAD; create; SAVE` reports
success and leaves a file refused with "Registry of 6 slots cannot hold 7 records".

### Bounds

- FileStore: three states, so that path, backup and new bytes can all differ. There
  is no other bound; the proofs cover any set of states.
- Session: two games, one with no `main` to watch; turns 0 to 2, so that the file,
  the backup and the universe can be three different turns; saves in other files
  kept at turn 0. Starts, kills, failures and writes are not bounded; `reports` is at most one, which is a property.
- IdIndex: four keys, enough for two holes, an occupied slot above them and a
  trailing run of holes to trim. `RecordBytes = 2` and `Rest = 0` make `read` refuse some files.
- Universe: five slots and four addresses besides the reserved objects; one type
  and one named object compiled in, so two or three objects are created and
  destroyed in turn; one attribute is written (`Holders`).
- Turn: every game of at most four operations, up to three answers to one turn, up
  to three events known when a turn begins (several turns can follow one another), a generator of period four with draws of both
  parities, seeded by anything.
- Page: two games, three universes of each told apart (`MaxVersion`, in a circle,
  so that play never ends), `MAX_PROMPTS` and `MAX_QUIET_TURNS` 1 instead of 64 and
  8 (the counters' limits are reached), at most two requests waiting when a control is used, and one version that the player has as
  a file. Two call identities suffice because `OneOwner` shows that a second is never needed.

- Interpreter: five statements one after another; seven objects ever made, six contexts,
  three rounds of a `while`, which a statement that needs more ends as "bound". Worlds
  are every choice of one method body of seven, inherited or overridden. Numbers have no width.
- Compiler: expressions of three operands with every operator of a precedence of its
  own and one prefix anywhere, of four operands with eight operators: three levels
  of the right side are as deep as `tieOnRightSide` distinguishes. Two programs use
  every declaration, statement and kind of value, in five layouts, one of them across an included file;
  numbers are around 64, where a second byte begins. Keyword lists end as they should, at the end of the file,
  before a text, or in a comma before `type`, `class` (number 7) and `keyword`, with a name of number 7 used earlier, later or defined.
  The layouts break lines after operators and before `else`; elsewhere inside an expression, before `)` for one, a
  line break is refused by the code and by the model, and no program has one.
- SystemObject: three openings (nothing said yet, and two full vocabularies with namesakes
  and phrases that overlap), then four messages: enough to close the vocabulary a second time
  and ask, or to save, say something, load and say something else.

### Fairness

`Session` and `Page` assume weak fairness of `Work` only, what the process
or the browser does of itself once it has been started: the steps of a write
that is under way (they are a straight line of code), and the answers to requests that were made
(promises of IndexedDB, `fetch` and `arrayBuffer` settle). The last is an assumption about the browser that the code
does not quite guarantee: `withStore` (`play.js:194-200`) waits for `complete` and `error` of a transaction and not for
`abort`, so a transaction that is aborted while it commits would never answer. The player owes
nothing: no fairness is assumed of turns, answers, controls or reloads. Under it
`NoQuietFailure` says that a watched turn reaches the disk or is reported, unless the process
dies; `PageComesBack` says that the page comes back to the
player. The other modules state no liveness and assume no fairness. In the runs
with fairness a kill or a reload remains possible at every step.

## 4. Proofs

| Theorem | Statement |
|---|---|
| `FileStore_proofs!Invariance` | `Spec => []IInv` |
| `FileStore_proofs!NeverTornHolds`, `WriteContractHolds` | the two invariants |
| `FileStore_proofs!Refinement` | FileStore implements DurableSlot |
| `IdIndex_proofs!Invariance` | `Spec => []IInv` |
| `IdIndex_proofs!RoundTripHolds` | reading what was written gives the index back |
| `IdIndex_proofs!Refinement` | IdIndex implements SlotTable |
| `Session_proofs!TypeCorrect`, `CompletedTurnIsOnDiskHolds`, `CleanExitIsSavedHolds`, `FailureIsReportedOnceHolds`, `AcknowledgedStateSurvivesHolds`, `BackupIsOneCheckpointBehindHolds` | all six invariants |
| `Session_proofs!SessionsUseFileStore` | `Spec => FS!Spec`: a session is a behaviour of FileStore |
| `Universe_proofs!Invariance` | `UInv`, the inductive invariant, in games that leave the reserved objects alone |
| `Universe_proofs!RegistryIsOK`, `NoSurvivorIsSkippedHolds`, `LiveReferencesResolveHolds`, `LookupsEndHolds` | the four invariants, for the same games |
| `Universe_proofs!LoadRestoresHolds` | the action property, for the same games |
| `Turn_proofs!TypeCorrect`, `SeedIsCarriedHolds`, `DeclineEndsTheTurnHolds` | three invariants |
| `Turn_proofs!ReplaysAgreeHolds` | the fourth: attempts agree |
| `WholeTurn_proofs!TurnsHappenWholeHolds` | Turn implements WholeTurn |
| `Page_proofs!TypeCorrect`, `OneOwnerHolds`, `AnswerGoesToWhoAskedHolds`, `SaveBelongsToItsGameHolds` | the page's invariants, and its types |
| `Page_proofs!PromptIsStoredHolds` | and the last of them |
| `SystemObject_proofs!SystemOKHolds` | `Spec => []SystemOK`, the inductive invariant |
| `SystemObject_proofs!AlwaysListeningHolds`, `EveryWordIsHeardHolds`, `LongestPhraseWinsHolds`, `NearestNamesakeIsChosenHolds` | four invariants |

They hold for every value of the constants under the named assumptions: that the
file contents, the blank key, the declined answer, or "no game", "no turn" and "no universe" are told apart
from the rest, that there is a turn to begin, that the bounds are numbers, and in Universe
that the heap is finite, with the reserved objects apart from each other and from the rest, and that the
registry has room for what the compiler puts in it; and that spellings have a size and a word, and what is said is a message of one of the objects. Every inductive invariant was first checked by TLC as an
invariant of the run of its module.

*FileStore.* `NeverTorn` is not inductive: a rename brings whatever the temporary
file holds. `CallInv` adds, per position, that past the write the
temporary file holds exactly the caller's bytes and what the path and the backup
hold in terms of what the call found. Each step of the refinement is a stutter but
the rename over the path, whose new state `CallInv` identifies with the one offered.

*Session.* A session changes files only by FileStore's steps (`SessionsUseFileStore`), so
FileStore's `IInv` is part of its invariant, and what remains is who called and why. While a write is under
way the files are in between, so acknowledged states are looked for among what the
write *found* (`Found`): what was acknowledged was then in the file, or in the backup of a missing
file (`AckedOK`), with the checkpoint before it in the backup (`UndoOK`). `WriterOK` says that a write has one
caller, which waits for it and gave it the universe that is still in memory; without it a turn could go
on while it is being saved. `ArmedOK` says that autosave is armed from the start of the process to its one
failure. The contract of a failed write had to say more than a caller might guess: that if the
path is gone, the backup was asked for, there was something to keep, and it is in the backup. With "the state is in one of
the two files" alone, a failed `SAVE STATE` could cost the turn that was acknowledged before.

*IdIndex.* `IInv` says that the index and the occupied slots are inverse, the free set is
exactly the rest of `0..size-1` and the last slot is not free; also of the image in the file. The
lemmas are about the operators: the slot `index` picks is the lowest unused one (by
the minimum of a set of naturals), `remove` restores the absence of a trailing hole
after trimming any run of them (by the maximum of the occupied slots), and
reading a written image gives the same index because the missing records are
exactly the holes.

*Universe.* `IdIndex_proofs` is instantiated on the registry, and what
`index`, `remove`, `write` and `read` do is cited from there. `UInv` adds what its users rely on. Objects in use
know their slot (`HeldOK`); a reference that is not stale names an occupied slot, in memory and, for
the load to come, in the file (`FileOK`). The only types are `null` and the compiled one, at their own slots
with their own parents, and whatever takes the compiled type's slot after it was destroyed is no type (`Kinship`):
so a chain of parents has at most three links, and `LookupsEnd` follows although
it is stated as a recursion over the heap. What `for each` still owes is in use, is no type and has a slot ahead of the
loop (`LoopOK`). `LoadRestores` needs that the reserved objects are in every file and are the first
two records of it. The hypothesis `~MayDestroyReserved` is that of the run: without it `FileOK` is false,
which is what `RecordsFitSlots` shows.

*Turn.* A turn that asks is one that used up its items without a declined one, so
the strengthening is that no item handed out so far was declined unless
`declined_` is set (`NoneDeclinedSoFar`); and that a running turn is seeded
(`RunsSeeded`), without which a draw would leave the seed behind.

*ReplaysAgree.* What a turn tells is a fold over a list of answers, but it need not be treated as one.
`Path` says that a list of events leads from a seed to a point of the game (next operation, generator, cursor,
declined or not) by steps each of which is given by the point before it and the answers. One step has one
outcome (`TellsOneThing`), so two paths from one seed with the same answers agree as far as the
shorter goes (`PathsAgree`, by the first place where they differ); and a path is still one when an answer is
appended (`PathIsKept`). The invariant is that what has been told in this attempt, and what the
last attempt had told, are both paths from the snapshot's seed. That the snapshot keeps the seed,
which is what makes the paths start alike, is `SeedIsCarried`.

*TurnsHappenWhole.* A whole turn is given by its `Course`, how it stands after each of its operations: a function
on `0..Len(game)` defined from the number before. That there is one, and that a course which has
stopped, failed or asked stays as it is, are shown by the first place where it would not be so. The
invariant `PInv` joins the two sides: a running turn is where the course of the snapshot, played with the
answers in hand, is after `at - 1` operations (or after the last, when it was a draw that would have skipped one more). Each
answered question takes both one operation further, a draw one or two. Seeding is `WholeTurn`'s `Seed`;
the other steps of a turn are stutters, since the snapshot stands for the universe until it ends; and the step
that ends or fails it is `WholeTurn`'s `Turn` with the items of the input for answers, the
course being past its last operation or stopped before it.

*Page.* The actions are built from operators on pages (`Attempt`, `Leave`, `Abandon`), so
the invariant is stated of a page and the lemmas are about those operators: from a page where
nothing else is under way (`Running`), a turn comes to rest on a sound one (`Rests`).
`OneOwner` alone is not inductive: what is needed besides is what the queue may hold, at most one
request a turn waits for, and only while that turn is in progress and asks nothing; at most
one that `start()` waits for, and only while no turn is in progress (`QueueOK`,
`BringingOK`). The places that could break it are `Command` and the controls, where
`IdleIsFree` uses `Patience`, and `Loaded`, which begins a turn without looking.
For `SaveBelongsToItsGame` the universe, what is being loaded and every
waiting save have to be of the game they are named for (`GamesOK`).

*PromptIsStored.* The property speaks of the moment when the queue is empty, so the invariant is about what
the queue will have made of the stored session when it is (`WillHold`): its last save for the
current game is of the universe in the module, or there is none and the store has it already. Every step
either keeps that, leaves the universe unplayed, loses something and says so (`lost`, `failed`), or is between games (`Safe`).
It rests on the order of requests: the one a turn or a `start()` waits for is the last in the queue
(`QueueEnds`), so that nothing is stored behind its back, and a universe that was read from the store is still what the
store holds when it is loaded (`SourceOK`).

*SystemObject.* `SystemOK` says of the system, in memory and in the file, that it listens, that its lists are
typed, that what was closed once is in descending order of size, and that what it last heard is good: every word
of it accounted for, the longest phrase first, and the near namesake chosen; and that names closed once whose spellings stood
together before they were sorted do so after. The state after a message is a fold over its list, the words after a match a fold
over the phrases. The folds of the community modules are defined by choice from recursive functions, so each is
first shown to be a *run*: a sequence of values, one more than there are elements, where each follows from the one before.
What a fold keeps then follows by the first place of the run where it would be lost. The argument for the
three properties of words goes by *fates*: an item covers the words it stands for, and replacing the words of a
phrase by an object leaves the words as they are (`EveryWordIsHeard`) and changes the fates of
exactly those of the phrase. A word with a fate keeps it; a phrase that is typed where all words are still plain is found by its
turn, and what took a word of it before was tried before, so is no shorter (`LongestPhraseWins`). An occurrence that a phrase
takes was plain for every phrase before it, so a near namesake that is tried earlier would have taken it, and
one that is tried later is what the search among the neighbours comes to (`NearestNamesakeIsChosen`).
That search gives up at the first phrase of another number of words, so the property is stated of vocabularies
where none sorts between two spellings of one name (`StandTogether`); without this, it is false: a name as long but
of more words, sorted between `Lamp` and `lamp`, hides the second. The run meets both spellings.
This needs that sorting is a permutation in descending order of size: the number of entries
that stand before one is a bijection from places to places, since `before` is a strict total order on them.

Only model-checked: liveness (`NoQuietFailure`, `PageComesBack`), which is out of the prover's reach;
everything of `Values`, `Interpreter`, `Formats`, `Compiler` and `Printer`, which are recursive
over expressions, statements and files and declare their operators RECURSIVE. The properties of violation
runs are false, and have nothing to prove.

## 5. Not modelled, and the plan

Not modelled:

- the scan of characters into lexemes (`TokenStream.cc`), search paths and error positions;
- output: wrapping, paging, widths, RDF inspection, debugging displays, the texts of messages;
- the command line, a pure function from arguments to options; console input and output;
- `drivers/cloud_run/main.py`, fifty lines around a storage service; its race between two
  requests is listed as a hazard;
- declarations typed at the prompt; the width of integers; packaging, and the games themselves
  (a game is data here: an arbitrary sequence of statements, messages or operations).

What a player can lose (FileStore, Session), what every save rests on (IdIndex, Universe, Formats), the drivers
that replay and resume (Turn, Page), and what a game's text and its player's words
come to (Compiler, Interpreter, SystemObject) are done. What is left, in this order:

1. `Wrapping` and `Paging`: the output filters against the text they are given.
2. `CloudRun`: two requests against one blob.
3. The width of integers in `Formats` and `Values`.
