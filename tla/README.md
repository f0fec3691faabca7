# ESPressio-Command: specifications, model checking, proofs

TLA+ modules for the ESPressio Command library, TLC configurations that check
them on small instances, and TLAPS proofs. Paths below are relative to the root
of the library. `PROJECT.json` lists every run, every mutant, the source lines
behind every definition, the findings and the hazards.

## 1. The system

The library lets an application declare a tree of commands, invokes them from
text, JSON or code, and carries commands and responses between devices. It is a
set of headers in `src/`.

| Component | State | Operations | Talks to |
|---|---|---|---|
| Command tree (`ESPressio_Command.hpp`: `CommandNode`, `CommandRegistry`) | nodes with names, aliases, children, parameters, callbacks | `Command`, `Alias`, `RemoveCommand`, `RegisterCommand`, `UnregisterCommand`, `Resolve` | tells observers |
| Registration handles (`CommandRegistrationHandle`) | a registry pointer and a path | `Reset`, move | calls the tree |
| Observers (`ICommandRegistryObserver`, `CommandRegistryEventBridge`) | one registration | `OnCommandRegistered`, `OnCommandUnregistered` | the bridge queues events |
| Invocation (`CommandRegistry::Invoke`, `CommandParameter`) | one invocation: arguments, bindings, position in the chain | `InvokeTokens`, `InvokeResolved` | middleware, hooks, callback |
| Text (`TextCommandParser`, `Help`, `Complete`, `Suggest`) | none | `Tokenize`, `Complete`, `Suggest` | reads the tree |
| Command line (`CommandLine`) | input buffer, history | `Feed`, `Clear`, `Complete` | calls `Invoke` and a result handler |
| Values (`CommandValue`, `WithCommandValueText`) | a tagged scalar | `ToString`, `As` | used by `Validate` and by callbacks |
| JSON (`JsonCommandInterpreter`) | none | `Parse`, `Invoke`, `Describe` | calls `Invoke` |
| Envelopes (`ESPressio_CommandEnvelope.hpp`) | bounded buffers | `SetRaw`, `SetMessage`, `Assign` | carried by everything below |
| Pending requests (`CommandPendingRequestPool`) | a table of slots under a mutex | `Add`, `Complete`, `Expire`, `ActiveCount` | expiry callbacks |
| Response timeouts (`CommandResponseTimeoutRegistry`) | a table under a mutex | `SetCommandDefault`, `Resolve` | feeds deadlines to the pool |
| Response routes (`CommandResponseRouteRegistry`) | weakly owned transports under a mutex, an atomic counter | `Register`, `Unregister`, `Resolve`, `Route` | `SendCommandResponse` of a transport |
| Executor (`CommandEventExecutor`) | a flag, a registry pointer, a worker with a bounded queue | `Prepare`, `ShutdownExecutor`, the event entry points, `ProcessWork` | events in, `Invoke`, `Route`, completion event out |

A remote command goes through both halves. The requester `Add`s to its pool and
sends an envelope. The receiving device queues an `InboundCommandEvent`; the
executor's worker invokes the registry, sends the response through the route
registry and announces a `CommandCompletedEvent`. Back at the requester the
answer is `Complete`d, or `Expire` reports that it never came.

What makes each part right, and hard:

* **Pool** - several threads, and callbacks that call back into the pool. An
  answer races a timeout; slots and identifiers are reused between the moment a
  request is collected and the moment its callback runs. One identifier, one
  request; every request resolved once.
* **Routes** - transports die at any moment, without the mutex. Identifiers
  stay distinct, the walk overlooks nothing, no response goes astray.
* **Executor** - dispatchers, worker and controllers share plain and atomic
  variables and reference counts. No reference is leaked or given back twice,
  work finds its registry, shutdown is complete.
* **Tree and handles** - sequential, but with long histories: aliases, removal
  by path and handles that remember paths can disagree about who owns what.
* **Invocation** - a decision procedure with many special cases, around foreign
  code that may fail anywhere.
* **Values** - a number passes a reader, a tagged value, a long double and a
  target type, and is looked at as text on the way. It must arrive as it was
  written or not at all.
* **Text and command line** - quoting, completion and suggestions work on any
  text; the command line calls commands that may feed it, while it is itself in
  the middle of a feed, and that may throw out of it.

## 2. Modules

| Module | Models | Extends / instantiates |
|---|---|---|
| `PendingRequestTracker` | what the pool promises: a bounded set of requests | - |
| `PendingRequestPool` | the pool itself | instantiates the tracker |
| `ResponseRouteRegistry` | the route registry | - |
| `CommandEventExecutor` | the executor with its threads | - |
| `CommandRegistration` | tree, handles, observers | - |
| `CommandValue` | scalar values and their conversions (no state) | - |
| `JsonCommandInterpreter` | what `Parse` makes of a document (no state) | extends `CommandValue` |
| `CommandInvocation` | one invocation, from tokens or a document to the result | extends `JsonCommandInterpreter` |
| `CommandText` | tokenizer, path search, completion, suggestions (no state) | - |
| `CommandLine` | the command line, with nested calls | extends `CommandText` |
| `ResponseTimeoutRegistry` | the timeouts requesters wait for | - |
| `AsyncCommandRouting` | a routed command, end to end | instantiates `PendingRequestPool` and `ResponseTimeoutRegistry` |
| `MC...` | instances for TLC: model values, symmetry | the module named |
| `SequenceLemmas` | lemmas about sequences as vectors, for the proofs (section 4) | - |
| `...Proofs` | theorems about the module named, seven of them (section 4) | that module; most of them `SequenceLemmas`; `AsyncCommandRoutingProofs` instantiates `PendingRequestPoolProofs` |

Operators named `X_Y` are faulty variants of the operator `X` that follows
them: a bug that could have been made in that code. `PROJECT.json` says which
property each of them breaks; no specification uses them.

### PendingRequestPool

`entries` is `_entries`; a slot holds the fields of `CommandPendingRequest` and a
history field `Ticket` that numbers accepted requests, so that two requests
under one identifier can be told apart. `Add`, `Complete` and the first half of
`Expire` hold the mutex and are one step each. What `Expire` has collected is in
`expired[e]`, and each callback is a step: anything may happen between two of
them. That covers calls from inside a callback as well as other threads, and
`Expirers` bounds how many activations of `Expire` overlap. The model keeps each
collected entry under its slot number where the code appends it to a vector; the
order of callbacks is the same. `outcome` is a history of what became of each
request. The lazy allocation of the table is left out (an unallocated table
answers like an empty one) and so is a failing allocation inside `Expire`, which
comes before any change.

### ResponseRouteRegistry

`Register` is two steps, because it takes the identifier before the mutex. A
walk of `Resolve` is one step per entry (`ScanPrune`, `ScanMatch`, `ScanNext`,
`ScanEnd`) and one for `lock()`; during the walk the mutex keeps other threads
from the table, but `DropOwner` and `SendReturn` may destroy a transport at any
point. `held` is the `shared_ptr` on a thread's stack, which keeps a transport
alive while it sends. `Register` of a null pointer, `Unregister` and `Resolve`
of 0 and `Route` of a local origin return at once and are left out.

### CommandEventExecutor

Every access to shared state is a step. `Submit...` is `SubmitEvent`; `Worker...`
is `ProcessWork`; `Prepare...` and `Shutdown...` are the two lifecycle calls, one
step per statement that reads or writes shared state. `TaskExecutor` and
`EventManager` are other libraries: `task` and `queue` stand for the former as
this code relies on it (a submission is accepted while it runs and has room,
`Stop` waits for the item in hand and releases the queued ones), `receiver`
for the registration with the latter. Reference counts count the executor's own
references only. The second read of `_registry` by the worker is a step of its
own; if the pointer became null in between, the code's behaviour is undefined
and the model's worker stops.

Nothing in the code keeps two controllers from calling `Prepare` and
`ShutdownExecutor` at the same time. `overlapped` is a history: it becomes true
when a lifecycle call takes a step while another is in progress. What depends on
lifecycle calls taking turns says so (`RegistryOutlivesWork`, `FlagTellsTheTruth`,
`AdmittedIsSettled`); the rest holds in spite of every overlap.

### CommandRegistration

Nodes are numbered in the order of their creation, which is also the order in
which a scan of `children_` meets them. A node keeps the set of its ancestors so
that no definition is recursive. `note` is the last notification and `mirror`
the picture an observer gets from adding and removing the paths it is told.
`holds` is a history: the node a handle's `RegisterCommand` created.
Destruction of a handle and construction by move are `Reset` and `MoveHandle` to
an inactive handle. Empty names and paths are refused by the code and are left
out. Observers do not call back into the registry here.

### CommandInvocation

A call starts as a `StructuredCall`, which brings its arguments along, as a
`TextCall`, or as a `JsonCall` with a document. `ReadWord`, `ReadAssignment` and
`ReadOption` are the loop of `InvokeTokens` over the tokens behind the path
(`word`, `--key=value`, `--key value`); `ReadDocument` and `RefuseDocument` are
the JSON interpreter's `Invoke`; `BindParameter`, `BindNothing` and
`RejectParameter` the loop of `InvokeResolved`. The pipeline is a stack of
middleware: `level` says how many have been entered, and each may call `next`
again, return what it likes, or throw. `result = "thrown"` is an exception under
way. A parameter has a kind, a range, a set of choices, the texts its validator
`vetoes`, and whether the validator's message is not empty; `Passes` is
`Validate`. Keys are numbered in
the order in which the map of named arguments is iterated. The help texts in
errors and the deprecation notice, which only changes a message, are left out;
the path search is in `CommandText`.

### CommandValue and JsonCommandInterpreter

A value is its type and a whole number; of a text only what it can be taken for
is kept, as a type: digits, digits behind a blank, octal digits, an exponent, a
fraction, a word. `As` gives the *set* of results of a conversion: empty when it
throws, and with more than one member where the code casts a number the target
cannot hold, which has no defined result. Widths are constants, so that both
ends of all of them can be enumerated: 64 bits are 5, the 53 significant bits of
a double 3, and `Rounded` is rounding to nearest even at any width. `Storable`
says which values there can be; powers of two are the recursive function `TwoTo`,
because the provers cannot reason about `^`. A document
is a record of the questions `Parse` asks about it. ArduinoJson appears as this
code uses it: it keeps a whole number in 64 bits when it fits and as a double
when it does not.

### CommandText and CommandLine

Text is a sequence of characters, and the tree is a constant. Each operator is
the function of the code it is named after, and a loop is a recursive function
of the number of rounds (`Scanned` over `Scan`, `Descend` over `Follow`, `Distance`
over `NextRow`). A command is its number, so that the children that match are a
set and the first of them its `Min`. In
`CommandLine`, `stack` holds the calls under way, since a command or a handler
may feed or clear the line it came from: `FeedBegin` and `FeedEnd` bound one call
of `Feed` with data, and within it `FeedTyped`, `FeedBackspace`, `FeedEmptyLine`
and `FeedLine` are the cases of `Feed(char)`. `FeedLine` moves the line out of
the buffer and enters `Invoke`; `InvokeReturn` appends to the history and enters
the handler. `Throw` leaves any number of calls at once. `journal` is a history
of what was typed and not taken back, `lines` of what was given to `Invoke`.

### ResponseTimeoutRegistry

`timeouts` is `_entries`; each operation holds the mutex and is one step.
`Resolve` skips an entry of 0, so that setting 0 gives a command back to the
transport's default. `configured` is a history of what each path was given last,
and `Configured` the documented precedence said in terms of it.

### AsyncCommandRouting

Composes the pool and the timeout registry, both in full, with an executing
device and a network. On the device only what messages show of `CommandEventExecutor` is
kept: `Accept` is a `SubmitEvent` that finds room, `Process` and `ProcessInVain`
are `ProcessWork` in one step, `ReleaseWork` is a shutdown. That one step is
enough because nothing else here reads the variables between its statements; the
steps themselves are the matter of the executor's own module. `ProcessInVain`
covers a route that is gone. The network is two sets of messages that keep a
message until it is lost, so any message may be delivered never, late, out of
order, or many times; a request that arrives twice is executed twice, as in the
code. The transports at both ends are external: the repository defines their
interfaces and describes their duties (`wiki/Transport-Integration.md`), and
`Send`, `Receive` and `IsQuiet` are those duties.

`IsQuiet` is the discipline of identifiers under which answers find their own
requests: an identifier is used again only when no message that carries it is
under way. The pool enforces less. It refuses an identifier that is *pending*, and
without `IsQuiet` TLC finds a late answer to a request that timed out credited
to its successor within five steps. A requester that counts through the 64 bits of
`CommandRequestId` keeps the discipline without effort.

## 3. Runs

| Run | Question | Bounds |
|---|---|---|
| `pool_safety` | is a request ever lost, doubled, mixed up, early? is the table the set of the tracker? | 2 slots, 3 identifiers (0 among them), 3 requests, 2 overlapping Expires, throwing callbacks, 2 clock values |
| `pool_liveness` | is each request resolved? | 2 requests, 3 clock values, 1 Expire, callbacks return |
| `route_registry` | identifiers, lookups, deaths; does a walk end? | 2 threads, 2 transports, 3 registrations, identifiers modulo 8 (no wrap) |
| `executor_lifecycle` | what holds whatever two controllers do to each other, and what holds while they take turns | 2 controllers, 2 dispatchers, a queue of one, 2 Prepares |
| `registration` | tree, notifications, who removes what | 4 nodes, depth 2, 2 names, 2 handles, all operations |
| `invocation` | the meaning of a line, parameters against arguments, numbers on their way, results of middleware and hooks | lines of 3 tokens; 3 parameters of 7 kinds with 3 positional and 3 named arguments; 10 typed parameters with each of 17 numbers in every type and form, given directly or in a document; 256 documents more for the rules of `Parse`; 2 middleware with 2 calls of `next` each, 2 + 2 hooks |
| `async_routing` | does each request get its own answers only, of the kind it asked for, in time, and wait as configured? | 1 slot, 2 requests, 2 identifiers, 2 paths, 3 timeouts, 2 clock values, 3 requests and configurations together, one result of `Invoke`, a queue of one, any number of deliveries |
| `command_line` | is anything typed lost? is the history what was completed? tokens, completions and suggestions of every text | 5 characters of 2 letters, 2 quotes, blank and backslash; 4 calls under way; a tree of 7 commands |

Why these are enough: in the pool two slots give every shape of hole (before,
behind, none), and three identifiers over two slots make both a duplicate and
exhaustion meet a reused slot. A third thread in the route registry could only
wait for the mutex. In the executor a queue that can be full, one event of each
kind and a worker with an item in hand while another waits are reached with
three events. Ownership needs two handles and one name that changes hands; the
third and fourth node make an alias shadow a sibling that has a child. Three
tokens make an option follow an option whose value looks like an option. Text
calls are read for nodes without parameters (`MaxTextParameters = 0`), because
binding looks at the arguments only, and the structured calls of the same run
bring all of those along. The 17 numbers lie at, next to and beyond both ends of
the scaled integers and of the doubles. Five characters are a token in quotes with an escape in it, or a
line, a second one fed from inside its command and a rest; four calls are a feed
inside the command inside a feed, with a line under way in both. The tree has an
alias that shadows a sibling, a hidden command, one that cannot be executed,
names that begin alike, and a command named like a help word. Two requests over one slot are what a late answer
needs to meet a successor, with the same identifier or another. Symmetry is used where the members of a set are only
compared, and in no run with a liveness property.

Deadlock is checked for the pool, for the registration and for the command line
(out of characters, an application can still call `Feed`, `Clear` or throw). It is
off where the system may really stop: when all transports are gone and nothing was
registered, when the call is over, when the bounds of `async_routing` are used up,
and in `executor_lifecycle`, where a worker may call through a null pointer
and go no further when lifecycle calls overlap.

**Fairness.** The pool is passive. `pool_liveness` assumes what an integration
has to do: time passes, `Expire` is called with the current time while something
is due, and callbacks return. `route_registry` assumes that a thread which
holds the mutex is scheduled. `executor_lifecycle` assumes that the worker is
scheduled and that a call in progress is carried on; nobody is obliged to begin
one.

### What disagrees with the documentation

These runs end in a violation; each checks a sentence of the code's documentation.

* `executor_two_controllers` - a shutdown during `Prepare` leaves an executor
  that says it is prepared and runs nothing; later calls of `Prepare` return
  TRUE at once.
* `registration_stale_handle` - a handle whose command was removed by path
  removes the next owner's command.
* `invocation_after_hook` - hooks After are skipped when the callback fails by an
  exception.
* `invocation_range` - the text `nan`, given for a floating-point parameter that
  has a range, is accepted: it is neither below the minimum nor above the maximum.

The models show more of the kind, which no run states:

* An expiry callback that throws takes the callbacks of the other collected
  requests with it (`ExpireThrow`: their outcome is `dropped`).
* A handle's `Reset` erases an older sibling that has the handle's name as an
  alias (`Shadowed`). The passing properties of `CommandRegistration` make two
  exceptions for that reason: `Shadowed` and, for the run above, `Stale`; and
  `MirrorIsExact` speaks of histories without aliases (`aliased`).
* `UnregisterCommand` notifies for nested paths, although the creation of a
  nested command does not.
* A validator with an empty message rejects nothing (`Passes`).
* After 2^32 registrations `Register` of the route registry hands out 0, although
  its comment promises "a non-zero route identifier"; such a route can be neither
  found nor removed.
* A text with a blank before its minus sign is accepted for an unsigned parameter
  and becomes a number near 2^64 (`Parsed`), although the code means to refuse
  negative numbers there.
* Integers are read with base 0: the text `010` is 8 for an integer and 10 for a
  floating-point parameter. The empty text is 0 for both.
* Where `long double` is no wider than `double`, 64-bit integers lose their last
  digits on the way to the callback, and 2^63 and 2^64 pass the test of the range
  of their type and are cast without a defined result: with
  `LongDoubleBits = DoubleBits` TLC refutes `NumbersArrive` at once, and
  `NumbersAreKept` has the opposite as its condition.
* A JSON whole number just below -2^63 is rounded by the JSON library and then
  read as -2^63 (`Rounds`: `NumbersArrive` leaves out numbers that no 64 bits hold).
* JSON fields of another type than expected count as absent: `"parameters": [1]` is
  ignored, and so is a `"path"` that is a string beside a `"command"` (`Parses`).
  The README promises that objects, arrays and null are rejected as parameter
  *values*, which they are.
* A failing `Parse` leaves the caller's invocation filled up to the point of
  failure, or as it was when the text is no JSON object.
* A parameter declared for a narrow integer is validated as `long long`, so that
  `Get` of the narrow type may throw in the callback, after the Before hooks.
* Completion is wrong behind an empty pair of quotes and behind an escaped blank
  (`Misjudged`), and offers a command that an older sibling's alias shadows
  (`Shadowed`). An empty token in quotes is dropped.
* A command whose path begins with `help` or `?` is offered by completion, but the
  completed line asks for help (`AsksForHelp`). The attempt to prove
  `CompletionsLead` showed it; the tree of the run has such a command since.
* Suggestions name hidden commands, and are made below the root only.
* `help` of an unknown path is a success with the text "Unknown command path".
* In the history of the command line a line that was fed while another was
  executed comes before that one, and a line whose execution ended in an
  exception is missing.

## 4. Proofs

Every safety property of the passing runs is a theorem too, and the pool is
proved to implement its tracker, alone and inside the composed system. The
theorems hold for every value of the constants; what they assume of them is the
one `ASSUME` of the module they are about (`PoolAssumption`, `RouteAssumption`, ...): that bounds are natural
numbers, sets are what they are used as, and stand-ins such as `NoEvent` are no
members. Bounds that keep TLC finite (requests, nodes, tokens, nesting) are
constants like the others, so that the theorems are about runs of any length.
The proofs of the composed module repeat the pool's assumption in
`RoutingAssumption`; it holds of the pool's constants there as it does in the
pool's own module.

Each module proves one inductive invariant `IInv`, with one lemma per action or
per group of actions, and draws the properties from it. TLC checks each `IInv` on
the bounds of section 3 as well as it checks the properties.

| Theorems in | State | Why more than the properties is needed |
|---|---|---|
| `PendingRequestPoolProofs` | `TypeOK`, `UniqueActiveIds`, `TrackedOnce`, `NoEarlyTimeout`, `OutcomeIsFinal`, `ImplementsTracker` | `Add` hands out a ticket that is in use nowhere: tickets above `issued` are unused (`Numbered`) |
| `ResponseRouteRegistryProofs` | `TypeOK`, `IdsNeverShared`, `NothingOverlooked`, `NeverMisrouted`, `LiveRoutesKept`, `UnregisteredStaysSilent` | at most one thread is in a walk (`OneWalker`), every entry was assigned (`EntriesAssigned`), the counter is ahead of all it gave out (`CounterAhead`), and no entry outlives its `Unregister` (`EntriesLive`). Behind liveness: `WalkShortens`, `WalkMeasured` |
| `CommandEventExecutorProofs` | `TypeOK`, `ReferencesBalanced`, `RegistryOutlivesWork`, `FlagTellsTheTruth`, `AnnouncedAsSent` | an event is in one place only (`Custody`), what the worker remembers is about the item in hand (`Answering`), and the phase of the only lifecycle call under way fixes flag, registry, receiver and worker (`Lifecycle`). Behind liveness: `FateIsFinal`, `AdmittedIsCaredFor` |
| `CommandRegistrationProofs` | `TypeOK`, `SiblingNamesDistinct`, `MirrorIsExact`, `HandleOwnsItsNode`, `NotifiedAsChanged`, `HandlesRemoveTheirOwn` | ancestors of ancestors are ancestors (`Wellformed`), and a handle remembers the one-token path of the node it created (`Owning`) |
| `CommandInvocationProofs` | `ReadAsMeant`, `BoundAsDeclared`, `NumbersArrive`, `TextMeansTheSame`, `FailureIsReported` | after each token the arguments are those of the tokens so far (`HandedOver`); after each parameter `taken` and `bindings` are those of the parameters so far, each of which meets its declaration (`Bound`); arguments are those of the document, or words and values of the caller (`Sources`) |
| `AsyncCommandRoutingProofs` | `TypeOK`, `AnswersAreOwn`, `LateAnswersIgnored`, `WaitsAsConfigured` | while anything of a request is under way its identifier names that request or none (`NamesItself`); a response on the network says what its own request was told (`ResponsesAreTrue`); the timeouts have one entry per path (`TimesOK`). Besides: `PartsRunAsAlone`, `PoolKeepsItsPromises` |
| `CommandLineProofs` | `NothingTypedIsLost`, `HistoryIsCompleted`, `TokensReadBack`, `CompletionsLead`, `SuggestionIsClosest` | lines under way are distinct and were under way when later lines were invoked (`Nesting`), and what has been invoked ends with a newline (`Closed`). The other three need only that the buffer is text (`TypesOK`), and lemmas about every text |

Some points of the arguments:

* **Refinement.** A step of the pool is one step of `PendingRequestTracker`, or
  none: `Add` accepts or refuses, `Complete` answers or is unknown, a collection
  times out the set of due requests, a report reports the request of the slot.
  The mapping sees active entries by their tickets only (`RequestsOfTables`), and
  a free slot exists exactly when the tracker has fewer than `Capacity` requests
  (`RequestCount`: requests and active slots are in bijection, since `TrackedOnce`
  gives every entry a ticket of its own).
* **The counter of routes.** `LiveRoutesKept` and `UnregisteredStaysSilent` are
  proved up to the 2^32nd registration (`NotWrapped`: `registrations <
  IdModulus`); `IdsNeverShared` has that condition in it. Behind it the code's
  counter repeats identifiers, two registrations share one, and `Unregister` of
  one removes the other. `NothingOverlooked` and `NeverMisrouted` need no such
  condition. The run stays below it.
* **Turns.** What the executor's lifecycle promises holds `~overlapped`; the proof
  shows that nothing else is needed. References and announcements are proved
  without that condition.
* **Undefined casts.** A number whose conversion has no defined result may meet
  the range of its parameter in one build and fail it in another. "A refused call
  breaks its declaration" is false of such a call if "breaks" means "does not
  meet"; the attempt to prove it showed so, although the constants of the run have no
  value of the kind. `BoundAsDeclared` therefore says of a refused call that
  something fails (`Fails`), and of one that runs that everything meets its
  declaration (`Meets`).
* **Reading a line.** `ReadAsMeant` defines the meaning of a token by the run of
  options before it, with no loop. `OptionsAlternate` ties the two together: a
  token behind an option is its value exactly when the option is not itself one.
* **Joining.** `Submitted` joins all lines with `FlattenSeq`, a recursive function of
  the community modules. `SequenceLemmas` shows what it does with an appended
  line: a sequence of partial joins up to any length exists and is unique, by
  the least length for which it would not (`UpTo`). The same argument shows that
  `Resolve` follows paths of every length (`TraceExists`).
* **The parts in the whole.** Every step of `AsyncCommandRouting` is a step of
  `PendingRequestPool` with arguments of its types, or leaves the pool alone, and
  the same holds of the timeouts (`PartsRunAsAlone`). This needs the invariant: a
  response brings an identifier of a request that was sent, and a deadline is a
  time because timeouts resolve to timeouts. So what `PendingRequestPoolProofs`
  shows holds of a requester's pool behind any network, the refinement of the
  tracker included (`PoolKeepsItsPromises`, which cites those theorems through an
  instance of that module).
* **Loops over text.** A loop of the code is a recursive function `f[i]` of the
  number of rounds. `LoopRuns` shows that there is a function with the equations
  of the definition, again by the least number for which there would be none;
  `LoopsAgree` that loops over a text and over the same text with a character more
  agree as long as both run. With them each operator has an equation for a text
  that gets longer by a character, and `AllSequences` says that a set which has the
  empty sequence, and with a sequence every longer one by an element, has all of
  them: an induction over text that names a set where the library's theorem names
  an operator.
* **Tokens.** A text written with escapes is read as itself, in quotes or
  outside (`EscapedIsKept`, `QuotedIsKept`), so that behind a written token the tokenizer is where
  cutting the token would have put it, whichever style of quotes was used; the
  rest is induction over the tokens.
* **Completions.** The completed line ends in letters, and reading letters moves
  them to the token being typed. Unless `Misjudged`, the token so completed is the
  name of the command that was offered, and the path before it is the one that
  `Complete` followed; the first child of that name is the command itself unless
  it is `Shadowed`.
* **Distances.** `DistanceRecurs` turns the rows of the dynamic programme into the
  recurrence of the edit distance, by two lemmas about rows: entries of a row do
  not depend on the characters behind them (`RowOfLonger`), and the row of a name
  with a character more is `NextRow` of the row before (`RowOfProperties`). From there the four things that
  make it *the* distance follow: it is 0 for equal words only (`NoDistance`), an
  edit brings a word nearer by one at most (`EditsAreSmall`; from `OtherLast`,
  `LongerRight` and `SameLast`, since an edit of a longer word is one at its end or
  one of the word before: `EditsOfLonger`), and some edit does so (`SomeEditHelps`).
  The last one needs the word that is looked for to consist of letters, which names
  of commands do.
* **What is behind liveness.** Fairness cannot be reasoned about here, but what it
  is applied to can. A walk of the route registry has a number of steps left
  (`StepsLeft`), which is positive exactly while it has the mutex, and every step
  either makes it less or leaves walk and table alone (`WalkGetsNearer`,
  `WalkIsBounded`). An admitted event is settled once and for good, and until it
  is there is a worker that runs and has a registry, or a `Stop` under way that
  reclaims it (`EventsAreSettledOnce`, `AdmittedIsNotStranded`). `TrackedOnce` and
  `OutcomeIsFinal` say the same of a request in the pool.
* **Numbers.** `NumbersAreKept` has one condition, `LongIsWide`: a long double has at
  least as many significant bits as the integers (64 on x86; section 3 says what
  happens without it). What `Rounded` leaves as it is are the multiples of a
  power of two within its reach (`MultiplesAreExact`, `ExactIsMultiple`), so that
  what a double or an integer holds is exact in every wider format
  (`MoreBitsKeep`, `IntegersAreExact`, `HalvesAreExact`); that `TwoTo` is what its
  recursive definition says is proved by the argument of *Joining*. A conversion
  then gives the number of its value or nothing (`ValuesAreKept`), a reader of JSON
  keeps what the document says (`ReadersKeep`), and the binding that was given is
  the one that was written (`GivenAsWritten`). The attempt to prove the property
  showed that an earlier form was true only for calls with one argument and for
  texts whose numbers the integers hold; `NumbersArrive` now speaks of each
  parameter and names what may lose digits (`Rounds`).
* **Texts of numbers.** `TextsMeanTheSame` needs no invariant: it is a fact of
  `ToString` and `As` and holds of every value at every width (`TextReadsTheSame`).

What only TLC checks, and why:

* **Liveness** (`EveryRequestResolved`, `WalkTerminates`, `AdmittedIsSettled`):
  fairness and `ENABLED` are out of the prover's reach. That nothing can be
  stranded or settled twice is proved (see above); that somebody comes is checked.
* The properties of the runs that end in a violation.

## 5. Not modelled

* **Envelopes** beyond their fields: `SetRaw`, `SetMessage` and `Assign` copy
  bytes under a single test of the length each, and no other part depends on it.
* **Event bridge and facades**: they forward, and keep no state that matters.
* **Observers that call back** into the registry: whether notification walks a
  copy of the list or holds a lock is decided in the Observable library.
* **Layout**: help texts, messages, `SerializeResult` and `Describe`.
* **Undefined behaviour in the caller**: concurrent calls into the registry,
  handles that outlive it and references into a moved parameter vector.
* **Values** that the scaled model has no place for: infinite numbers, fractions
  other than one half, narrow integers and `float`. Nor does it have doubles that 17
  significant digits do not print exactly (some whole numbers from 10^17 on, most
  fractions): their texts read as the same double, but not as the same long
  double.

## 6. What could follow

1. A second requester in `AsyncCommandRouting`, with `ResponseRouteRegistry` as
   the way home, so that a response that takes the wrong route is a behaviour of
   the composed system and not of the registry alone.
2. A registry whose observers call back into it, once the Observable library is
   at hand to be read.
3. Concurrent use of the tree by the executor's worker and the application, which
   the code leaves to its callers.
