# Verification of ShineFlow

TLA+ models of ShineFlow's run engine with its symbols, nodes and history, of the
validator, and of the repositories of versions, cron jobs and MCP tools; the TLC
configurations that check them, and proofs checked by TLAPS. Paths are
relative to `src/`. "The design" is
`docs/superpowers/specs/2026-04-27-shineflow-workflow-engine-design.md`.

Contents: [the system](#the-system) · [hard behaviours](#hard-behaviours) ·
[modules](#modules) · [runs](#runs) · [fairness](#fairness) ·
[proofs](#proofs) · [findings](#findings) · [not modelled](#not-modelled) ·
[plan](#plan)

## The system

ShineFlow edits and runs workflows: directed graphs of nodes with ports. A
workflow *definition* has numbered *versions* (at most one draft, any number of
releases). The *engine* runs a released version: it starts nodes when their
in-edges allow it, retries and falls back, and writes what happened to the
database through a *persister*.

| Component (source) | State it keeps | Operations | What makes it correct |
|---|---|---|---|
| Driver and scheduler (`domain/engine/engine.go`, `scheduler.go`, `result.go`, `finalize.go`) | `runState`: edge and node states, attempt counters, `inflight`, `pendingRetries`, `endHit`, `runFail`, `cancelled`; the local `ctxDone` | `Start`, its select loop, `dispatch`, `handleResult`, `propagate`, `tryAdvance`, `markSkipped`, `finalize*` | a node starts once per attempt and as soon as it may; the verdict follows from what happened; nothing starts after it; `Start` returns and leaves nothing behind |
| Workers and retry timers (`nodeexec.go`, `retry.go`) | goroutines, one timer and one watcher per scheduled retry | `runNode`, `scheduleRetry`, `computeBackoff` | one result per attempt, one event per retry |
| Persister (`persist.go`) | `persistCh` (bounded), `persistErrCh` (one slot) | `runPersister`, `applyPersistOp` | writes in order; an error is never lost |
| Run storage (`infrastructure/storage/run`, `domain/run`) | `workflow_runs`, `workflow_node_runs` | create, append, update with status checks in the WHERE clause | only legal transitions, unique attempts |
| Versions and drafts (`infrastructure/storage/workflow`, `domain/workflow`) | `workflow_versions`, `workflow_definitions` with two pointers | `SaveVersion`, `PublishVersion`, `DiscardDraft`, `UpdateDefinition`, `DeleteDefinition` | one draft at the head, releases frozen, pointers exact, no lost save |
| Symbols and resolution (`domain/run/symbols.go`, `domain/engine/resolve.go`, `template.go`) | node outputs and variables of a run, snapshots of them | set, snapshot, lookup, expand | a node sees the outputs of its predecessors and nothing of its siblings' future |
| Validator (`domain/validator/validator.go`) | none | `ValidateForPublish` | accepts only graphs the engine can run |
| Cron (`domain/cron`, `infrastructure/storage/cron`) | `cron_jobs` | `ClaimDue`, `MarkFired`, `Update` | a due job fires once |
| Plugins and MCP tools (`domain/plugin`, `infrastructure/storage/plugin`) | servers, tools | `UpsertAll`, `SetEnabled`, CRUD | a refresh keeps the user's switches |
| Executors (`domain/executor`) | registry of factories | `Register`, `Build`; if, switch, join, LLM, HTTP | conditions fire the right port |
| Node types, credentials, configuration, HTTP facade | catalogue; encrypted rows; start-up | lookup; encrypt and store; ping | – |

How they interact: `Start` creates and owns one driver goroutine's state. It
calls the run storage directly for the run's row, and sends every node row to
the persister goroutine over `persistCh`. Workers send results over `done`;
timers send events over `retryCh`; the persister reports its first error over
`persistErrCh`; the caller reaches everyone through the context. The version
repositories are called by request handlers in parallel; their callers meet only in
PostgreSQL. The symbols belong to the driver; each worker gets a snapshot of
them when its attempt is dispatched, resolves its inputs and configuration against
it and hands the executor plain values.

## Hard behaviours

`PROJECT.json` lists each hazard at its line. In short:

* the driver's select picks any ready case, so a result, a retry, an error and
  the end of the context are seen in any order, and `ctx.Err()` is read at
  several points of one iteration while the caller may cancel between them;
* the driver cancels the context it listens to;
* all channels are bounded, and the driver both fills and drains them;
* a write is applied after the decision it records, may fail half way, and only
  one error fits the error channel;
* retries race with cancellation, with the End, and with failure;
* joins fire from several results; skips spread through a graph in execution;
* repository transactions read without locks and write afterwards;
* two transactions lock the same rows in different orders;
* a run is rebuilt from rows that were written one by one, some of them not;
* numbers change their type on the way from the workflow to the comparison.

## Modules

| Module | Models |
|---|---|
| `WorkflowDSL` | one published version: graph, ports, error policies, the readiness rule `evaluate` |
| `Engine` | one run: driver, workers, timers, persister, database rows, caller |
| `RunHistory` | abstract: what a reader of the run's rows may rely on |
| `EngineProperties` | invariants, action and liveness properties of `Engine`, and its refinement of `RunHistory` |
| `EngineInvariants` | why those properties hold: the inductive invariants of a run, in named parts |
| `MCEngine` | three small workflows |
| `EngineProofs` | theorems about `Engine`: types, the decision, attempts, counters and the graph |
| `RowProofs` | theorems about what the database says, and that `Engine` implements `RunHistory` |
| `Symbols` | what nodes can refer to, how references resolve, how symbols are rebuilt from rows |
| `EngineSymbols` | `Engine` composed with `Symbols`: the table, the snapshots and the saved variables beside each step, with their properties |
| `MCSymbols` | what the nodes of `MCEngine`'s fork refer to |
| `SymbolsProofs` | that `EngineSymbols` implements `Engine`, what attempts see and what a replay shows |
| `Conditions` | the comparisons of if and switch, and the conversions before them |
| `NodeAttempt` | one node from its first attempt to the port it fires, with its properties |
| `MCNodes` | the nodes to execute |
| `NodeProofs` | its theorems, and what they need of numbers: powers of two, rounding, induction |
| `VersionRepo` | the versions of one definition under concurrent transactions |
| `VersionProperties`, `MCVersion` | its properties, with the history they need; symmetry |
| `VersionProofs` | its theorems |
| `Validator` | `ValidateForPublish` on one workflow |
| `ValidatorProperties`, `MCValidator` | its properties; the workflows to validate |
| `ValidatorProofs` | its theorems |
| `CronStore`, `MCCron` | cron jobs between schedulers and editors, with their properties; symmetry |
| `CronProofs` | its theorems |
| `McpTools`, `MCTools` | the tools of an MCP server between refreshes and users, with their properties; lists in different orders |
| `McpProofs` | its theorems |

### `Engine` and the code

The variables keep the names of `runState` where there is one. `pc` is where
`Start` is; `cur` the result `handleResult` holds; `todo` the nodes for which
`tryAdvance` is still to be called; `listening` says `ctxDone != nil`.
`work`/`results` are the attempts being executed and the results waiting in
`done` or held by a worker that blocks on it (a set: goroutines send in any
order); `timers`/`retryCh` likewise for retries. `persistQ` is `persistCh` and
the send the driver blocks on. `rows` and `dbRun` are the tables.

| Code | Action |
|---|---|
| `Start` up to the loop | `LoadVersion`, `CreateRun`, `BeginRun` |
| `case res := <-done`, first check of the context | `ReceiveResult` |
| rest of `handleResult` | `HandleCancelled`, `HandleRetry`, `HandleFailRun`, `HandlePropagate` |
| one call of `tryAdvance` (dispatch, skip, or nothing) | `TryAdvance` |
| lines 180-184 after `handleResult` | `Settle` |
| the three other cases | `RetryDue`, `PersistFailed`, `ContextDone` |
| end of the loop, closing and draining `persistCh`, last look at `persistErrCh` | `LeaveLoop`, `FinishDrain` |
| `finalize*` | `SaveVerdict`, `CloseRun` |
| `runNode`, `scheduleRetry` | `WorkerEnds`, `TimerFires` |
| `applyPersistOp` with the repository calls it makes | `Persist` |

A driver step ends where another goroutine can change what the driver reads
next. `tryAdvance` is recursive in the code; the model keeps the nodes still to
be tried in `todo` and takes them in any order, which includes the code's.
The driver blocks on `persistCh` when it is full: every sending step needs
`CanSend`. A step that sends two operations (a result and the variables) queues
both at once, one beyond the capacity standing for the blocked send.

Data is abstracted to what the scheduler tells apart: an execution fires a
port, fires a port with an output that does not marshal, fails in its executor,
fails to resolve, or gives up because its context ended. A persister operation
applies its updates one by one and may stop after any of them, because the
database fails or because the repository refuses it.

### `EngineSymbols` and the code

`sym` is the driver's `Symbols`, `snapshots` the copy each attempt took, and
`savedVars` what the `vars` column of the run held after each set of nodes had set
variables (the row itself, in `Engine`, only says which). A step of the engine and
what it does to the symbols are one step: `Publish` is `HandlePropagate` with
`SetNodeOutput` and `SetVar` before anything is advanced, `Snapshot` the copy
`dispatch` takes. A worker fails to resolve exactly when its snapshot lacks
something its node refers to (`Resolves`); in `Engine` alone that is one of the outcomes
it may choose. `FromPersistedState` is evaluated on the rows in every state, which is
a replay after a crash at that point. An output is known by its node, its attempt
and how it came about (executor, fallback, error port), with the top-level keys
such an output has.

### `NodeAttempt`, `Conditions` and the code

`Engine` lets an attempt end in any way and a retry wait for any time. `NodeAttempt`
is the other half: each built-in executor as an action, the error policy's verdict
(`Retry`, `GiveUp`) and `computeBackoff`. A node is drawn from `Inputs` and kept. A
switch tests one case per step. `Conditions` keeps integers at their width: `Width`
bits for int64 and uint64, `Precision` bits for the significand of a float64,
rounding to nearest and even. `Decoded` and `RoundTrip` are the two ways an operand
takes: a reference is decoded by encoding/json into a float64; a literal in a
switch's Config is decoded, its templates are expanded (`Expanded`), and it is written
and decoded again by sonic (`Converted`), which makes whole numbers int64, those in a
list too. `Expansions` says what the templates of a text or list come to: the value
looked up, a text with values in it, or `NotFound` where strict mode fails. An attempt
resolves its inputs and the whole Config before it calls the executor, so a case whose
template leads nowhere fails a switch before its first case (`ResolveFails`), where an
if takes the same literal as it stands. Durations wrap at `DurationWidth` bits, as
Go's do.

### `VersionRepo` and the code

One step is one SQL statement. A session has at most one call; `writes` and
`defWrite` are its uncommitted rows, `Visible` overlays them on the committed
ones. A row written by an open transaction makes other writers wait
(`Locked`); the writer that waited evaluates its WHERE clause on the row it then
finds. That is PostgreSQL's READ COMMITTED, which is what `DBTransaction`
(`infrastructure/storage/db.go:71`) gets: it asks for no other level. Unique
indexes (`Clashes`) are those of `schema.sql:36-38`. `"both"` is save-and-publish:
one outer transaction, reused by the two inner ones. `ConnectionLost` rolls back
at any point. `UpdateDefinition` writes back the copy its caller read.

`VersionProperties` adds two history variables that decide nothing: `known`, the releases
committed when a session's call began, and `spoiled`, the pointers some call wrote
over a commit it had overlooked: a rename when the pointer is no longer the one it
read, a discard when the pointer names another's draft, a publication when what it
releases no longer is the draft. They let one run with overlapping calls say what is
true of all of them, where a run with one call at a time could only say what is true
of none.

### `Validator` and the code

The validator is sequential and keeps no state; the module steps through its two
graph walks and treats the other checks as operators that return codes. One
behaviour validates one workflow of `Inputs`. `CheckParts` is everything up to
`checkNoPathToEnd`, `Walk` one turn of its loop, `WalkEnds` its verdict;
`CheckRest` is everything up to and including the in-degrees of `checkAcyclic`,
`Sort` one turn of that loop, `SortEnds` the verdict. Both queues are sets, from
which a step takes any element: Go fills the queue of the sort in the order of a
map. All checks run whatever the earlier ones found, so the walks meet
graphs with several Starts, repeated IDs and dangling edges. A Config is
abstracted to what the checks read of it. `checkFallbackOnly` is dead code.

The engine does not validate: it trusts what was published. The properties on
accepted workflows therefore name the lines of the engine that rely on them, and
the workflows of `MCEngine` satisfy them.

### `CronStore` and the code

One step is one SQL statement, as in `VersionRepo`. `ClaimDue` locks the rows it
returns until its transaction commits or rolls back; `marks` are the uncommitted
writes of `MarkFired`; everyone else waits for a locked row, and other
schedulers skip it. The code has no scheduler yet: the one modelled is the
transaction ClaimDue's comment asks for (`repository.go:88-89`), and that it creates
runs inside it is external. `Get` and `Update` are two calls of an editor, with
anything in between. `fired` and `stale` are history: which times a job fired at, and
whether `Update` wrote a copy older than the last run.

### `McpTools` and the code

The database is that of `VersionRepo`. The DELETE of `UpsertAll` finds its rows in
one snapshot (`FindDoomed`) and deletes them one by one, waiting for locks and
testing each again (`DeleteRow`); the INSERT goes through the list in its order
(`UpsertRow`) and fails when a name comes twice (`DuplicateName`). `SetEnabled` is
one UPDATE by an ID its user read before. A deadlock is possible, of lists in
different orders; PostgreSQL aborts one of the circle (`Abort` under `Deadlocked`).
`late` is history: the names other transactions inserted or replaced since a refresh
began its DELETE.

## Runs

All runs finish within seconds to a bit more than a minute with two workers.

| Run | Workflow or bound | Question |
|---|---|---|
| `EngineRace` | `start` → `a` → `endA`, `start` → `b` → `endB`; `a` retries once, `b` has a timeout and an executor that ends only with its context; cancel at any time; 1 database fault; `PersistBuf` 2; fairness | are the counters exact, the decision final, the verdict and the rows consistent, is the database a `RunHistory`, does every run end and an End lead to success? |
| `EngineBranch` | `if` with two ports, three nodes behind, a retry with fallback, join any; 1 fault | does each node start exactly when it may, and does skipping settle the graph; does the inductive invariant of the proofs hold? |
| `EngineFork` | two nodes, join all; retry, node timeout, fallback to another End, error port, a variable, references from inputs and templates; 1 fault; the caller never cancels | are attempts told in order, does an attempt see what it was started for, and is a replay at any moment true to the run? |
| `NodeExecution` | every node type under every policy; ifs and switches on 28 operands around the limits and seven texts and lists with templates; retries up to ten with delays up to the largest | which ports may fire, what do conditions decide, how long are the waits? |
| `VersionOverlap` | 2 sessions, 2 version IDs, 2 contents, `expectedRevision` up to 1 | drafts, releases, saves, pointers and locks when calls overlap |
| `ValidatorGraphs` | a Start, an End and two nodes of any of four types, every set of up to four edges, loops included; a chain of three with every configuration of the middle node, parallel and dangling edges, repeated IDs | are the graph checks exact, and do the checks together accept only what the engine assumes? |
| `CronSchedulers` | 2 schedulers, 1 editor, 2 jobs, clock up to 3, 2 runs per job | does a claim hold, and does a job fire once per time? |
| `McpRefresh` | 2 sessions, lists of two tools in both orders, one, none and a repeated name; 3 refreshes; fairness | what does a refresh leave, whose switch counts, does every call end? |
| `EngineRetryAfterCancel`, `EngineLateOutput`, `VersionThaw`, `VersionStalePublish` | – | expected violations, see [findings](#findings) |

Properties of the engine:

* `CountersExact` – `inflight` and `pendingRetries` count what they should; the
  loop ends on them.
* `OneAttemptAtATime` – a node is running iff it has exactly one token (worker,
  result, timer or retry event), with the right attempt number.
* `NoLostWakeup`, `NoEndMeansAllSkipped`, `EdgesResolveOnce` – the graph is
  settled completely, and once.
* `NothingStartsOnceDecided`; a run is never both ended and cancelled, only the caller
  cancels, and why (`DecisionInv`, a part of `EngineInv`).
* `CausalRows`, `AttemptStory`, `HistoryComplete`, `SuccessHasItsEnd`,
  `NoRefusedWrite` – what the database says, at every moment and so after any
  crash, against what the run did.
* `NothingLeftBehind`, `Terminates`, `EndLeadsToSuccess`.
* `ImplementsHistory` – `Engine` implements `RunHistory` with the rows' statuses
  as the abstract attempts.

Properties of the symbols: `SeesWhatFiredIt` – an attempt's snapshot holds the outputs
that made it ready, after a retry no less than before, and all that a replay shows while
the row of the attempt is still to be written, so a retry that kept the snapshot of the
first attempt would be caught; `ReplayWithinRun` – symbols rebuilt at any moment show no
output the run did not publish, and for the variables what the nodes that are covered
have set, whether or not these are all; `ReplayIsRun` – of a run that
ended otherwise than by a failure they show all of it, except what error ports
carried.

Properties of nodes: `FiresDeclaredPort` – executors, fallback and error port keep
to the ports the validator lets edges leave from; `SwitchIsChainOfIfs` –
a switch that resolves decides as ifs with the same operands would, where the texts
of a case are templates of an if, and but for the equalities that the detour of a
literal decides otherwise (`Fragile`); `ComparesNumbers` – what conditions decide,
against the truth about numbers;
`BackoffBounded` – the waits against the product of delay and power of two, without
any wrap-around.

Properties of the version repository: `DraftIsHead`, `NoCircularWait`,
`ReleaseStays`, `NoLostSave`, `PublishesWhatItSaved`; `KnownReleasesFrozen` – a call
may change at most a release that was committed while it was under way;
`PointersExactUnlessSpoiled` – the pointers are exact but for three kinds of write
that overlook a commit. Without those restrictions (`ReleasedFrozen`,
`PublishedIsHighestRelease`) they fail; two runs show how.

Properties of the validator: `CycleFoundIffCyclic` and `PathFoundIffPath` compare
the two walks with definitions that do not walk (sets fed from within, sets
closed under edges); `AcceptedFitsEngine` says what several checks achieve only
together: the Start is the only node the engine dispatches first, Ends have no
out-edges, and every End is reached although `checkNoPathToEnd` asks for one.

Properties of the cron jobs: `ClaimHolds` – what `ClaimDue` read stays true until the
transaction ends; `FiresOnce` – the times a job fired at only grow, unless a stale
copy was written over it. `CronInv` is why.

Properties of the MCP tools: `PreferenceKept` – a listed tool keeps its row and
switch through every refresh; `RefreshReplaces` – what a committed refresh leaves,
exactly; `CallsEnd`.

### Bounds and why they are enough

The workflows have five to seven nodes. The interactions are between at most two
branches, one join and one retry; every policy, both join modes, two Ends, a
fallback port, an error port and a variable occur. `MaxFaults` 1 puts the one
fault at every database call in turn; a second fault only meets a run that has
failed already. `PersistBuf` 1 or 2 makes the driver block; a larger buffer
admits no new order of the writes, which stay first in, first out. Two sessions
suffice for every pairwise race of statements; two version IDs are a release and
the next draft. With no ID left an INSERT fails. `MaxRevision` bounds the
revision callers expect, so a revision is matched once or twice before it can
no longer be.

Four nodes and four edges hold the smallest cycle beside a path to the End, a
cycle behind it, a loop, a node fed twice and a join that is accepted; each check
looks at one node or edge at a time, so one node with every configuration covers
the rest. For the cron jobs, two schedulers and an editor cover each pairwise race, and
a job fires twice at most, which is all a repeated time needs. Two callers
and two names have every race and every circle of locks of the MCP tools; a third
refresh comes after either two that overlapped or a switch between two.

An int64 of six bits and a float64 with three bits of significand have all the cases
of 64 and 53: integers a float does not hold inside and outside the range of an
int64, numbers only a uint64 holds, and numbers neither does. The operands are the
limits and their neighbours. A template names a number, digits, a text or nothing, a list
has one element that does: each meets every comparison, as the literal of an if, as a
template of an if, and in a case. `MaxBackoffDelay` is 600 in durations of twelve bits,
so a delay doubled once too often wraps, and ten retries pass `MaxBackoffShift` 8.

## Fairness

`Engine!Fairness`: weak fairness of the driver as one goroutine, the persister,
and each node's worker and timer. The Go scheduler runs a goroutine that can
run, a database call returns, a timer expires, an executor ends. A `Stubborn`
executor ends only when its context has, so it gets no help from fairness. The
caller has no fairness: nobody must cancel. No fairness is assumed between the
cases of the select.

`McpTools!Fairness`: weak fairness of every session's next statement, and of the
abort of a session in a circle of waits. The second is PostgreSQL's deadlock
detection, which the code relies on: it has no lock order and no retry of its own.
Nothing makes a session begin a call.

## Proofs

Eight modules hold theorems; each is for every value of the constants its
module's assumptions allow, where the runs are for one.

`EngineProofs`, for every graph, policy, set of outcomes, buffer size and number of
faults:

* `TypeCorrect` – `Spec => []TypeOK`;
* `DecisionAlways` – `DecisionInv`, and from it `EndAndCancelExclude` (a run is
  never both ended and cancelled) and `OnlyTheCallerCancels`;
* `DecidedIsFinal` – once decided, no attempt starts and the End stays.

They rest on the assumptions the modules name: `GraphAssumption`,
`PortAssumption`, `PolicyAssumption` (`WorkflowDSL`) and `EngineAssumption`.
None asks the graph to be acyclic or finite, or a policy to be sensible.

`TypeOK` is inductive by itself; its proof has a lemma per group of actions and
one per operation on the queue. The others need `DecisionInv`.
"Ended" and "cancelled" exclude each other only because

1. `handling` is entered only when neither is set (`HandlesUndecided`);
2. a decided run no longer listens to the context once it is back in the loop
   (`DecidedIsDeaf`), so `ContextDone` cannot follow an End;
3. nothing is advanced in a decided run (`AdvancesUndecided`), so `TryAdvance`
   starts nothing then;
4. when the caller cannot cancel, the context ends only after the decision
   (`SelfCancelled`), so the checks of `ctx.Err()` in `handleResult` and after
   the loop do not fire for it.

Each conjunct leans on the others, so none is inductive alone; `EngineBranch` checks
the conjunction, as part of `EngineInv`.

The rest of the module, from the same assumptions:

* `AttemptsNeverOverlap` (`OneAttemptAtATime`) – it is inductive only with
  `UnreadyIsFresh`, `WithinPolicy`, `HandFilled` and `NothingYet` (`TaskInv`): a retry
  adds a token only because the driver has just taken the one there was from `cur`;
* `LoopCountersExact` (`CountersExact`) – a set grows by one when a token enters it
  because, by the above, the node had no token there;
* `NothingIsLeftBehind` – from the two: after the loop both counters are zero, so
  the sets are empty, and nothing refills them;
* `EdgesAreResolvedOnce` – only a node that is done has resolved its out-edges
  (`ResolvedByDone`), and no node completes twice. No graph is excluded, cyclic ones
  with loops included;
* `NoWakeupIsLost` – a node that could start or be skipped is in `todo`
  (`RipeIsOwed`); the crux is that resolving edges changes `evaluate` only for the
  targets of these edges, which `complete` and `skip` owe.

`RowProofs`, from the same assumptions and `NilAssumption` (`nil` is no result):

* `RowsTellTheStory` (`AttemptStory`). The writes of a node are numbered: the insert of
  attempt *a* is turn 2*a*, its end turn 2*a*+1. `RowInv` says that turns grow along
  the queue, that the rows are behind the queue and the queue is behind the driver
  (`QueueInTurn`, `RowsBehindQueue`, `BehindClock`); so an insert never meets its row
  and an end never meets one that ended. `StoryInv` adds, while no database call has
  failed, that each attempt has its row, stored or queued, and the one before it a
  failure that fired nothing. `BehindClock` exempts nodes that are done, which no one
  writes to any more, but for the End that was reached;
* `HistoryIsComplete` (`HistoryComplete`) – holds despite faults, so it needs what
  they do: a failed call is told in `persistErr`, `runFail` or `pc` (`FaultIsTold`),
  and while nothing was told every end, the last variables and the End are stored or
  queued (`CleanInv`); the verdict is read when the queue is empty;
* `SuccessIsAnEnd` (`SuccessHasItsEnd`) – the latest row of the End is the one its
  propagation wrote;
* `NoWriteIsRefused` (`NoRefusedWrite`) – under the hypothesis `Marshals`, that every
  output an executor returns marshals. The hypothesis is needed: `EngineLateOutput`
  shows a run with an output that does not, whose late write the repository refuses.
  It is satisfied by `EngineRace`, where the run checks the property;
* `RowsAreCausal` (`CausalRows`) – an edge is resolved only after the write that says
  why was queued, and a first row is queued behind the writes that made its node start
  or be skipped (`CausalInv`). The persister takes the queue in order, so what was told
  before a write is stored when the write is;
* `NoEndIsAllSkipped` (`NoEndMeansAllSkipped`) – while the run is undisturbed (nothing
  decided, no cancellation, no ended context) a node that is done has resolved its
  out-edges, and an End that is done was skipped (`DoneIsSettled`); when the driver
  comes to `no_end_reached`, nothing ended it early, so this held to the end
  (`NoEndStands`). A node left over would have a left-over predecessor, by
  `RipeIsOwed`. Hence the hypothesis `Acyclic`: no set of nodes is fed from within
  alone. The workflows of the runs satisfy it. The engine does not check it, the
  validator does (`CycleFoundIffCyclic`), and
  in a cycle the nodes do wait for each other;
* `RowsAreAHistory` (`ImplementsHistory`) – the refinement of `RunHistory`, without
  that hypothesis. Each update of `Persist` maps to an insert, an end, or a lost
  write; `SaveVerdict` and `CloseRun` to the abstract verdict, for which the rows must
  be settled (`HistoryComplete`) unless the run failed.

`EngineInv` is the conjunction of all these invariants (`InvariantsHold`), which
`EngineBranch` checks, as it does `EdgesResolveOnce`.

`SymbolsProofs`, from these assumptions and `SymbolAssumption`:

* `SymbolsRefineEngine` (`SymSpec => Spec`: the symbols only watch the engine, but for
  deciding which references resolve, an outcome `Engine` has as well), so all theorems
  about `Engine` hold of the composition, and its invariants are at hand below;
* `VariablesSurvive` (`VariablesReplayed`, the part of `ReplayWithinRun` about variables).
  What is saved with a set of nodes is written once, when the driver's set becomes that
  one, and the table then holds what these nodes set (`SavedExact`, `VariablesInv`). The
  set in the row of the run is older than the driver's, as are those still queued; the
  nodes they miss may have overwritten a variable since, which is why the theorem compares
  a variable with what its own node published and with the table only if the last to set
  it is covered;
* `AttemptsSeeTheirSources` (`SeesWhatFiredIt`), by `SnapshotInv`: a node publishes once,
  when it is done (`PublishedByDone`, from `AttemptsNeverOverlap`), so what a snapshot
  shows stays so (`SnapshotsStand`); an edge is live only after its source published
  (`LiveIsPublished`), and stays live (`EdgesAreResolvedOnce`). A retry starts without
  asking its in-edges again; it sees what it needs because the attempt before it did,
  and `SeesNoLess` follows from both snapshots showing what is published. That it has
  seen what is stored needs the queue (`SeenBefore`): the row of an attempt is queued when
  its snapshot is taken, so a write before it, stored or not, shows what was published
  by then, and no later write passes it;
* `ReplayShowsTheRun` (`ReplayWithinRun`) and `ReplayIsTheRun` (`ReplayIsRun`), by
  `ReplayInv`: a row that a replay shows, stored or queued, is the end of the attempt
  that published (`ShownIsPublished`), so a node has at most one and "the latest visible
  one" leaves no choice; an attempt that has not ended shows nothing (`OpenIsHidden`);
  and while no error was told, what was published is stored or queued to be shown
  (`PublishedIsShown`), which in a run reported without an engine failure means stored,
  as in `HistoryIsComplete`. The first holds despite faults: a write that is lost or
  half done shows less, never something else.

`CronProofs`, for any number of jobs, schedulers and editors, every limit and every
bound, from `CronAssumption` alone:

* `ClaimsHold` – what `ClaimDue` read of a job stays true, and the job stays with one
  scheduler, until the transaction ends;
* `JobsFireOnce` – no time is fired twice unless a stale copy was written.

Both rest on `CronInv` (`CronAlways`), which `CronSchedulers` checks first. That a
job fires once needs more than the lock: its next time must lie beyond every time it
fired (`NextUnfired`), which `Commit` keeps because the claim still holds then and
`MarkFired` moves the time past the claim; and so must the time in every copy an
editor may still write back, unless a run came in between (`CopiesUnfired`).

`VersionProofs`, for any number of callers, versions and contents, from
`RepoAssumption`: all seven properties of the repository that the passing run checks,
and `RepoTypeCorrect`, from three invariants of the transactions under way.

* `VersionInv`: a row and the definition have one uncommitted writer each
  (`OneRowWriter`, `OneDefWriter`, by the locks and because IDs are new); at which
  statements a session has written nothing yet (`WrittenSoFar`); a write over a
  committed version keeps its content or saves over the revision the caller named
  (`SavesSeen`, which survives other commits because of the one writer). Hence
  `NoSaveIsLost` (`NoLostSave`) and `WaitsEnd` (`NoCircularWait`): whoever holds
  something waits for the definition only, and the definition has one holder.
* `HeadInv`: a call reads the head and inserts after it in two statements, and
  `DraftIsHead` needs that nothing committed in between leaves the number it read both
  free and too low. The number follows a release or is 1, and either all releases are
  below it or one has it (`NumbersRead`); the write of a new row has the number after
  the highest release, and there is no draft (`Opens`), so that there is no other such
  write either (`OneOpened`) although one that is already released is no draft the
  index would stop: it has the one number there is to insert. A write over a committed
  row keeps its number, and a release a release (`Keeps`). Hence `OneDraftAtTheHead`
  (`DraftIsHead`) and `ReleasesStay` (`ReleaseStays`).
* `StoryInv`: by kind of call and statement, which row it has written and what it has
  made of the definition (`SaveStory` to `DeleteStory`), relative to what is committed;
  it survives the commits of others because who has written is the one writer and a
  deleted row's ID does not come back (`Gone`). Hence `WhatIsSavedIsPublished`
  (`PublishesWhatItSaved`) and `PointersExact` (`PointersExactUnlessSpoiled`), by one
  lemma for each kind of commit.

`KnownReleasesStayFrozen` (`KnownReleasesFrozen`) adds `KnownInv`: what a session knew to
be released it has not written, nor chosen to write. The proof of `PointersExact` found
the history too narrow: it did not count as overlooking a commit a publication of a
version that is gone while the draft pointer, restored by a rename, still names it. That
takes three callers, one more than the run has; TLC confirms the corrected property
with three callers, as it does `HeadInv`, `StoryInv` and `KnownInv` with two callers and
two versions.

`McpProofs`, for any number of callers, tools and lists, from `ToolsAssumption`:

* `ToolsTypeCorrect` and `PreferenceSurvives` (`PreferenceKept`), by `McpInv`: one writer
  per row, a refresh deletes only what it does not list, and what it writes over a
  committed row has that row's ID and switch (`WritesKeep`), which no `SetEnabled` can
  change before it commits;
* `RefreshesReplace` (`RefreshReplaces`), by `ReplaceInv`: what the INSERT has gone
  through is written and locked (`Brought`), and of the rows not listed each is deleted,
  still to be deleted, or was committed by others since (`Cleared`). A row deleted and
  inserted again in between has another ID, so the DELETE passes it by; it is then one of
  the late ones. TLC confirms `ReplaceInv` with the constants of `McpRefresh`.

`ValidatorProofs`, for every workflow and whatever order the two queues take, from
`InputsAssumption`, which only says that a workflow is a list of nodes and a list of
edges: IDs may repeat, edges may dangle, loop or be parallel.

* `PathsAreFound` (`PathFoundIffPath`), by `WalkInv`: what the walk has seen lies in
  every closed set around the Starts, and only what is still queued may have an edge out
  of it. When the queue is empty, what was seen is itself closed, hence the least such
  set; no path is ever mentioned.
* `CyclesAreFound` (`CycleFoundIffCyclic`), by `SortInv`: `visited` counts a set *D* of
  nodes that are not fed from outside *D*, `indeg` the edges into each node from
  outside *D*, the queue is what else has none, and no set fed from within meets *D*.
  When the queue is empty the nodes outside *D* are such a set, unless there are none.
  The check compares `visited` with the number of distinct IDs, and edges with a
  dangling end do not count, which is why repeated IDs and dangling edges do no harm.
* `AcceptedFits` (`AcceptedFitsEngine`): no error means that the other checks have
  found one Start, no unconnected node and no edge out of an End; with the absence of
  cycles every node is reached.

They rest on `ValidInv`, which adds what has been reported at each point of
`ValidateForPublish` (`ReportInv`).

`NodeProofs`, from `NodeAssumption`, `NumberAssumption` and, for the first theorem, from
`PortsAssumption`, the ports the catalogue (`domain/nodetype/builtin.go`) declares for
the built-in types:

* `PortsDeclared` (`FiresDeclaredPort`), by `PortInv`;
* `WaitsAreBounded` (`BackoffBounded`) – as long as the doubled delay is below half the
  limit it is the exact product and does not wrap, and from half the limit on it is the
  limit, as the product would be. The limit has to be even: half of an odd one is
  rounded down, and a delay of that half would become the limit where twice the delay is
  one less. `maxBackoffDelay` is 30 seconds;
* `NumbersAreCompared` (`ComparesNumbers`) – rounding to the nearest float keeps the
  order of numbers (`RoundGrows`): within one binade because nearest multiples do
  (`NearestGrows`), and across because the ends of a binade are floats. Two exact
  integers are compared as they are, signed against unsigned only when the signed one
  is not negative (`EqualIs`);
* `SwitchesAreChains` (`SwitchIsChainOfIfs`) – a float rounds to itself
  (`RoundIsFloat`), so once the templates are expanded the detour of a literal only
  changes whether a number, or the numbers in a list, are int64 or float64, and that
  matters to an equality alone. A text in a case and the same text as a template of an if
  expand alike, for any `Expansions` that `ExpansionAssumption` allows: what is looked up
  is decoded like any reference, and a list stays a list. That all operands resolve is a
  hypothesis, since a switch that does not fails as a whole; a chain of ifs would go on
  to its next test.

These are for every width of integers, durations and significands. Powers of two are the
recursive function `TwoTo`, because the provers know nothing of `^`. What such a function
computes is a matter of induction, and the library's induction theorems take an operator;
`Induction` states it for a set of naturals and follows from the library's theorem about
minimal elements (`WFMin`). The provers take the equation of a recursive function for
granted, so the module proves first that a function of that kind exists (`Iterates`).

Only model-checked is liveness under fairness (`Terminates`, `EndLeadsToSuccess`,
`CallsEnd`), which is out of this prover's reach, as is ENABLED. Every invariant and
every action property of the passing runs is proved, and so is the refinement of
`RunHistory`.

## Findings

Checked by a run:

1. `EngineRetryAfterCancel` – the retry case (`engine.go:187`) tests
   `ctxDone == nil`, not `ctx.Err()`. The design (299-300) says no attempt is
   dispatched once the context was cancelled; one is, when the retry event is
   taken before `ctxDone`, even after `handleResult` set `cancelled`.
2. `EngineLateOutput` – a late result is written as cancelled together with its
   output (`persist.go:115`); an output that does not marshal makes that write
   fail, and a run whose End was reached ends as `persistence_error` with a row
   left running. The design (390) says an End means success.
3. `VersionThaw` – the UPDATE of `SaveVersion` tests ID and revision, not the
   state (`repository.go:160`); publishing does not change the revision, so a
   save that waited for the publication overwrites the release.
   `domain/workflow/version.go:10` says releases are frozen.
4. `VersionStalePublish` – `PublishVersion` updates by ID after checks that take
   no lock (`repository.go:257-272`): the published pointer may name a version that
   is not the highest release, or one discarded meanwhile.
   `domain/workflow/definition.go:15` says it names the highest release.

Met while modelling, and modelled as the code behaves, without a run of their own:

* a fallback fires the port the policy names (`scheduler.go:211`), while the comment
  at `domain/run/node_run.go:72` says the default port;
* a second End that finishes late is recorded as cancelled (`scheduler.go:183`),
  while the design (357) says it keeps its real status;
* output and status of an attempt are two updates (`persist.go:120`, `131`), while
  the design (416) says one;
* `DiscardDraft` and `PublishVersion` clear `draft_version_id` even when another
  call inserted a new draft meanwhile (`repository.go:296`, `269`), and
  `UpdateDefinition` writes back stale pointers (`repository.go:76`):
  `PointersExactUnlessSpoiled` excludes exactly these writes;
* `Update` of a cron job writes `next_fire_at` back from a copy
  (`cron/repository.go:71`), so a job may fire again for a time it already fired,
  which the claim is to prevent (`domain/cron/repository.go:23`); `FiresOnce`
  excludes exactly that case;
* two overlapping `UpsertAll` of a server leave the tools of both lists
  (`mcp_tool_repository.go:79-97`), while its comment says it replaces them all;
  `RefreshReplaces` names exactly those that remain. Lists in different orders may
  deadlock, and the refresh that PostgreSQL aborts is not repeated;
* what an error port carried is in the symbols of the running workflow but not in a
  replay (`scheduler.go:217`, `symbols.go:185`), while the comment at
  `symbols.go:15` names outputs of successes and fallbacks only; `ReplayIsRun`
  excludes it;
* large integers stay exact only as literals of an if (`if_test.go:44` tests those):
  a reference is decoded into a float64 first (`symbols.go`, `Lookup`), and a
  switch's literal by `ResolveConfig`, so `SwitchIsChainOfIfs` excludes equalities
  with an integer no float64 holds; and a list read by reference never equals the
  same list as a literal, whose elements are int64;
* a literal in a switch's case is a template all the same (`resolve.go:46`), while an if's
  literal is taken as it stands (`resolve.go:60`): `{{vars.x}}` is compared as the
  variable there and as that text here.

## Not modelled

* Resuming after a process crash: the code has none, so a crash is simply the
  end of a behaviour; the invariants on the rows hold at every state, hence at
  that one.
* The amount of jitter: `ComputeBackoff` has its extremes and the middle.
* Contents of inputs, outputs and templates beyond their top-level keys; texts beyond
  what comparisons tell apart; templates in an operator or in the path of a reference; lists and reads of the repositories; timestamps.
* Repositories of single rows: MCP servers, HTTP plugins, credentials (and their
  encryption). Nothing in them meets another call but in one UPDATE.
* What an LLM or an HTTP server does: the executors take any answer.
* Node types (a static catalogue), configuration and the HTTP facade (start-up),
  the engine's test kit (test doubles).

## Plan

Done: the modules above. What is left, in this order:

1. *Validator and engine* – an accepted workflow whose nodes all succeed never
   ends as `no_end_reached` by its shape: the engine on all small accepted graphs.
2. *Versions* – an abstract store (drafts and releases as values) that the
   repository implements wherever nothing is spoiled.
3. *Retry timer* – timer, watcher and `sync.Once` as separate goroutines, shown to
   implement `TimerFires`.
4. *Node and engine* – `NodeAttempt` as the worker and policy of one node of `Engine`.
