# A verification project for metawsm

metawsm runs coding agents: it plans a *run* for one or more tickets, creates a
`wsm` workspace per ticket, starts one agent per workspace and name in a tmux
session, follows the agents through a forum, and merges and closes the
workspaces when the work is done. The modules here are translated from the Go
code; each definition is listed in `PROJECT.json` with the lines it stands for.

## The system

| part | state | operations | how it meets the others |
|---|---|---|---|
| state machine (`internal/hsm`) | none | `CanTransitionRun/Step/Agent` | consulted by `transitionRun` before an unconditional `UPDATE` |
| run store (`internal/store/sqlite.go`) | rows of runs, steps, agents, doc sync, briefs, pull requests, review feedback | single SQL statements through `sqlite3` | shared by every metawsm process; no transaction spans two calls |
| orchestrator (`internal/orchestrator/service.go`) | local variables of one call | `Run Resume Stop Restart Cleanup Iterate Close Guide Status`, `Merge Commit OpenPullRequests`, review feedback | store, tmux, `wsm`, git, forum |
| forum (`service_forum*.go`, `sqlite_forum.go`) | threads, posts, events, projections, control threads | open, post, answer, assign, state, priority, close, control signal | commands go through the bus and are applied by its handlers |
| forum bus (`internal/forumbus`) | `forum_outbox` rows, Redis streams | `Publish`, `ProcessOnce` | the daemon's worker and every forum command call `ProcessOnce` |
| watch and operator loops (`cmd/metawsm/main.go`) | restart and backoff state | poll `Status`, propose or execute actions | call the orchestrator |
| daemon (`internal/server`) | worker counters, broker subscriptions, websocket cursors | worker loop, event stream, HTTP API | calls the service, observes the bus |
| doc federation, policy, CLI, UI | none that outlives a call | merge of snapshots, parsing, output | |

What is hard here:

* **No lock on a run.** Each command is a process of its own, or a goroutine of
  the daemon; a command is a sequence of SQL statements and shell calls, and
  other commands run between any two of them. `Commit` and `OpenPullRequests`
  exclude each other by a lock file; the other commands take none.
* **Unconditional updates.** `transitionRun(from, to)` checks the `from` its
  caller *says* the status is, which is often a literal.
* **Failure between statements.** A process may die, or return at a store error,
  after any statement; some errors (`_ = s.store...`) are ignored.
* **At-least-once transport.** Outbox rows and stream entries are retried
  independently of each other; handlers are called again, by two processes at a
  time, and the projections are refreshed outside the handler's transaction.
* **Checked here, done there.** A forum command is checked when it is sent and
  applied when its message arrives; a commit is checked before the tree is
  stashed, moved and added; review rows are read before GitHub is asked and
  written whole afterwards.
* **Memory and store.** The operator keeps its alert and its confirmations in
  memory and its restarts in a row; the daemon's channels are closed while events
  are sent on them.

The properties that make each part correct:

* run lifecycle: the stored status follows the state machine; steps follow theirs
  through retries, resumes and crashes; `completed` means the plan was executed
  (standard) or the agents have signalled (bootstrap); `stopped` leaves no
  session; `closed` means merged, and nothing dirty is merged; commands return;
  a close ends, and is not refused without reason; guidance is resolved.
* forum bus: a row marked sent is safe in Redis; nothing published is forgotten;
  without failures nothing is handled twice; everything is handled in the end.
* forum: a command takes effect at most once, at one moment, and in the end; the
  threads that are read are what the log of events adds up to; the queue and the
  statistics, which are refreshed apart from it, catch up.
* commit and pull requests: the lock excludes and is left behind only by a death;
  no edit is lost while the working tree is moved onto the base; the row of a
  repository names what its branch has become; a pull request is recorded.
* review feedback: a comment moves forward, and is addressed by a commit that was
  made after it was stored.
* operator: restarts are counted over its own deaths, actions rest on agreement
  that was not interrupted, a run that needs somebody is not silenced for ever.
* watch: the end of a run it has seen is shown, although ended runs leave the list.
* daemon: a viewer gets each event at most once and in order, its cursor leaves
  behind only what is known to pass it by, and a shutdown ends every stream.

## Modules

| module | models |
|---|---|
| `RunHSM` | `hsm.go`: the three transition relations |
| `RunState` | constants, rows, outside world, command frames; store and tmux primitives; `TypeOK`, `Init` |
| `RunPlan` | `Run`, `Resume`, `executeSteps`, `executeSingleStep` |
| `RunAgents` | `Stop`, `Restart`, `Iterate`, `Cleanup` |
| `RunSignals` | `Status`/`RunSnapshot`, `syncBootstrapSignals`, `Guide` |
| `RunClose` | `Close` with its gates |
| `RunLifecycle` | their composition, the environment, `Spec`, `FairSpec` and the properties |
| `RunLifecycleProofs` | type correctness of `RunLifecycle` |
| `RunBootstrapProofs` | `BootstrapNeedsSignal`, what a completed bootstrap run owes however commands overlap, and its theorem |
| `RunSerialProofs` | what holds while commands come one at a time, as theorems |
| `MCRunLifecycle` | sets of commands and events, symmetry |
| `ForumBus` | outbox, stream, `ProcessOnce`; its properties |
| `MCForumBus` | sets of failures, symmetry |
| `ForumBusProofs` | theorems about `ForumBus` |
| `Courier` | what the bus promises the code above it |
| `ForumStore` | the forum tables and the transactions and refreshes of `sqlite_forum.go` |
| `ForumService` | forum commands, control signals, dispatcher, handlers, projections, over `ForumStore` and `Courier` |
| `ForumLog` | what the forum promises its users: the abstract specification |
| `MCForumService` | scripts of client calls |
| `ForumServiceProofs` | theorems about `ForumService`, the refinement of `ForumLog` among them |
| `RunReview` | lock file, `Commit`, `OpenPullRequests`, `SyncReviewFeedback`, `DispatchQueuedReviewFeedback`, `Merge` |
| `MCRunReview` | checks, symmetry |
| `RunReviewProofs` | theorems about `RunReview` |
| `Operator` | the loops of `metawsm operator` and `metawsm watch` |
| `MCOperator` | settings |
| `OperatorProofs` | theorems about `Operator` |
| `EventStream` | broker, websocket stream, event pump and shutdown of the daemon |
| `MCEventStream` | which viewer wants which events |
| `EventStreamProofs` | theorems about `EventStream` |

`RunHSM` is shared by `RunLifecycle` and `Operator`. `ForumService` stands on
`Courier`, not on `ForumBus`: that a published message is handled at least once is
checked of `ForumBus` (`EventuallyHandled`) and assumed of `Courier`
(`Delivery`), which keeps the messages of one small enough to interleave with the
tables of the other.

### How the run lifecycle corresponds to the code

The five variables `status`, `step`, `agent`, `docSync` (the *rows*) are the
columns of SQLite that decide anything; `session`, `workspace`, `dirty` and
`merged` (the *world*) are what tmux, `wsm` and git would answer; `control` is what
`forumControlStatesForRun` computes from the posts of an agent name's control
threads. `proc[p]` is the frame of the command process `p` executes: `pc` names
the next statement, the other fields are its Go locals (`seen` is
`record.Status`, `snap` the agents read, `todo`, `left` and `ws` what the loops
still have to visit, `attempt` the retry counter).

One action is one SQL statement that writes, one shell call that changes or
observes the world, or one read whose answer is used later. Reads that nothing
can come between in an observable way are merged with the statement that follows
them. An early return is a disjunct that ends in `Return`. Loops visit what the
code visits, in its order (`IsFirst`, `IsLeast`).

`SaveSteps` inserts its rows one by one (`RunSaveSteps`), so that a death leaves part of
a plan. A store call that fails ends the command (`Abort`), unless the code goes on from
there: in the loop over the steps it takes the run to failed (`ExecStoreFails`), inside a
step it counts as an attempt that failed (`StepStoreFails`), and where the code drops the
error the row stays as it was (`StoreErrorIgnored`).

Abstractions: a run has one workspace per ticket and one agent per workspace and
name (as `buildPlan` makes them), and one run is modelled, since runs share no
rows; the age of a session's output is a choice between running, idle and
stalled; the documents' contents, paths, commands and messages are left out; a
validation post is absent or failed, passed, or passed with other done criteria,
the only differences the code looks at. Three gates of `Close` are left out: a brief
(`service.go:2359`) is written before its run leaves created and never deleted, a synced
row always has a revision (2440), and the ticket documents (2449) are taken to be still
where they were copied.

### How the bus corresponds to the code

`outbox[m]` is the status column of a row, `work[p].batch` the claimed rows in
the memory of a process, `stream` and `held` are Redis: entries not delivered,
and the entry each consumer was given and has not acknowledged. `Claim` is the
transaction's `UPDATE`, `List` the statement that reads the marked rows back; the
failed `UPDATE`s whose error the code drops are part of `PublishFails` and `HandlerFails`,
and `SkipFails`.
Redis is external and is modelled by what the code relies on: it delivers in
order, keeps what is not acknowledged, and lets another consumer claim it.

### How the forum corresponds to the code

The variables of `ForumStore` are the tables. Each statement list between `BEGIN
IMMEDIATE` and `COMMIT` (`Insert...`, `Update...` with `Log` and `RefreshView`) is
one step, and the refreshes of the statistics and the queue that follow it outside
the transaction are steps of their own, so that another process, or a death, can
come between. An event is its place in `events`, which is its sequence number.

In `ForumService` a client call checks the thread as `GetForumThread` shows it and
sends a command (`Dispatch`); `AnswerThread` and `Signal` go on with further
steps (`calls`), between which others run. `work[p]` is the handler that process
`p` executes, and its `pc` the next statement: the transaction (`Commit`, nothing
if the event is logged already), statistics, queue, then the publication of the
event, whose own handler goes through the three projections with
`forum_projection_events`. `Crash` ends a handler anywhere; its message is
delivered again. A message may also be delivered to a second process while the first
is still at it. `MaxFaults` bounds both.

`ForumLog` knows commands, one log and one board. The mapping takes the commands
that were drawn for `issued`, the ids of the logged events for `log`, and the
thread views, which are what every reader is given, for `board`. A docs-sync request is
no command of the bus: it is drawn and logged in one step, which `ForumLog` knows as
`Note`, so that the log is mapped whole. That `ForumService` implements
`ForumLog` says that handlers are idempotent and that each command takes effect at one
moment; `ForumLog` deliberately does not promise that a command is still legal
then, since nothing in the code looks again.

### How commit and review correspond to the code

In `RunReview`, `call[p]` is the frame of a command: `todo` the targets (repositories
of workspaces) it still visits, `snap` the stash it made, `known` the feedback rows it
read. Each git, gh or store call is a step, any of them can fail (`Fails`), and a
process can die between any two (`Dies`). A working tree, a stash and a branch are
sets of edits: that is enough to say where an edit is and what a commit holds,
because every commit is made on the base branch. `saved`, `asked`, `unwritten`,
`early`, `late` and `overlooked` record the past for the properties and guard nothing.

`NewDirectory` says which edits of a target are of files in a directory that its base
branch does not have. The forbidden-files check reads `git status --short`, which names such a directory
and none of its files (`Named`); the clean-tree check and `git add -A` see them all. Two
details are abstracted: a path that git puts in quotes is not told from others, and `Drop`
drops the snapshot of its command, where the code drops `stash@{0}` by position: agents
are taken to push no stash of their own while a commit is under way.

### How the operator and the watch correspond to the code

`op` is the place in the loop of `operatorCommand` with the snapshot it holds;
`alert` is its entry of `lastAlertByRun`, `streak` of `consecutiveUnhealthyByRun` (counted up to the confirmations), `row`
the row of `operator_run_states`. `RuleDecision` and `Merged` are the decision functions,
guard by guard. The commands it calls are single steps here (they are taken apart in
`RunAgents` and `RunReview`); `ActFails` leaves a restart half-way. One run is
modelled: the loop keeps nothing across runs. A snapshot is read in two steps: the
agents, and the status that their signals leave (`SyncedSnapshot`), then the open
questions, diffs and review rows (`WithRest`), in the same step as the decision that follows;
the run may be stopped, restarted or asked something in between. Within each of the two
the reads are taken together. An error of the rules (`DecideFails`) ends the tick.

`watch` holds `trackedRuns` and `lastAlertByRun` of `watchCommand`, in both of its
modes, and as a ghost what it has shown since the run was last listed as active. Listing the
active runs, the first reads of the snapshot and the rest with what is shown are three
steps: the run may end, or go on, in between.

### How the stream corresponds to the code

A `pump` is a goroutine in `Publish`: the list of subscribers copied under the
lock, then for each of them filter, send, and on a full channel drop and send
again. `channel[v]` may be closed under it, and a send on a closed channel is the panic
that `notifyObservers` recovers (`Panic`). `conn[v]` is the loop of
`streamForumEvents`: page, subscription, frames, heartbeats, end of stream. The page is
the set of the oldest `Limit` events beyond the cursor, sent in their order. `phase` is
how far `Runtime.Run` has come in its shutdown. `missed` records what has passed a
viewer by, and guards nothing.

## Runs

`Env` names what may go wrong or happen by itself in a run of the lifecycle or the
bus, `Ops` the commands issued, `MaxOps` how many (status queries are not counted).

| run | instance | what it shows |
|---|---|---|
| `serial` | 1 process, 2 tickets, 3 commands of all kinds; shell and store failures, crashes, exits, commits | the safety of a standard run when commands do not overlap |
| `finishes` | 1 process, 1 ticket, seeded docs, 1 retry, 4 commands, dry runs; shell and tmux failures, exits, quiet sessions, edits; fair | commands return, closes end and are not refused, completed means executed |
| `bootstrap` | 1 process, 2 agent names, 2 commands among run, guide, close and stop, and any number of status queries; posts, agents that fail; fair | completion needs a signal of every agent; guidance is resolved |
| `bus_failures` | 2 processes, 3 messages, batches of 2, one topic without a handler, 3 failures of any kind | rows and stream agree |
| `bus_delivery` | 2 processes, 2 messages, 2 failures that the code recovers from; fair | eventual handling, the outbox settles |
| `forum` | 2 processes, one thread that is also a control thread, 3 ids for commands and events, 1 crash or redelivery; fair | the refinement of `ForumLog`; views, queue and statistics follow; commands take effect |
| `review` | 2 processes, 2 targets, a comment on each, 3 edits, the third of a forbidden file, in directories old and new, 5 commands, 1 failure or death | lock, rows, edits, checks and feedback |
| `operator` | 2 agents, 2 confirmations, a budget of 2, 3 events of agents and people, 1 fault; operator with two settings, or a watch in either mode; fair | restarts counted, evidence, nobody stuck unheard, ends shown |
| `stream` | 2 viewers with 2 connections, 2 goroutines, 2 events, buffers, pages and frames of 1, 1 fault, shutdown; fair | order, cursors, settlement, shutdown |

Why the bounds are enough. Lifecycle: two tickets are what it takes for a loop over
agents or workspaces to be interrupted between elements, or to have one element fail;
two names make an agent complete while another is not; three commands are a run,
something that disturbs it, and something that builds on the disturbance; a bootstrap run
needs two, since what guide leaves can also be reached by posts and status queries, and
nothing but a query goes on after stop or close. Bus: two
processes are what a race needs; three messages with batches of two make a batch that
does not take everything and a row that waits. Forum: an open, and two commands
that race on what it opened; two handlers at a time, one of which dies or has its message
handled again; two clients that open one control thread. Review: five commands are
commit, pull request, sync and the second commit and pull request that answer, any of
them from either process; each target has been edited before, and the third edit is the answer
or comes while a commit is under way; a check is shown it where the second edit's directory has been
committed, and not where its directory is new; two targets make a command fail between them.
Operator: two restarts exhaust the budget, two confirmations can be interrupted by one
healthy snapshot, three events are a fall, a recovery and another fall. Stream: buffer and
page of one make everything overflow with two events; the second connection is the one
that uses a cursor. A frame of one event leaves out that a frame collects several.

Three more runs each end in the violation of a sentence of the repository's
documentation; `PROJECT.json` quotes it.

| run | what happens |
|---|---|
| `stop_during_run` | `run` writes completed over the stopping of a stop that came while it executed its plan |
| `review_delivered` | feedback is called addressed by a command that skips the push of its answer |
| `bus_crash` | a row claimed by a process that died is never claimed again |

The passing runs are cut to where the code keeps its promise. `serial`, `finishes`
and `bootstrap` have one process because two commands that overlap overwrite each
other (`stop_during_run`); `serial` leaves tmux failures out because a kill that fails
leaves its session, which `Stop` ignores; it leaves late edits out because an agent that
edits during a close can have its changes merged half way; `finishes` has no crashes
because a run that died in `closing` cannot be closed again. `bus_delivery` has no
crashes because of `bus_crash`. What is left of
`BootstrapAllSignalled` when commands overlap, and processes die, is the theorem `SignalNeeded`.

Other places where the code departs from its documents are kept out of the
passing runs by a constant, and can be seen by changing it:

| instance | property | what happens |
|---|---|---|
| `close_dry` among the commands of `serial` | `ClosedMeansMerged` | `close --dry-run` closes the run and merges nothing (`service.go:1874`) |
| `"crash"` in `Env` of `finishes` | `CompletedMeansExecuted` | a run that died before its steps were inserted resumes to completed (`service.go:459`) |
| `NumTickets = 2` with `SeedDocs` in `finishes` | `CloseSucceeds` | the gate asks for rows that the plan never writes (`service.go:2431`) |
| `CustomPattern = TRUE` in `serial` | `StoppedLeavesNoSession` | sessions are started under one name and stopped under another (`service.go:2642`) |

Some properties allow the bad outcome of a hazard by name, because the code has it; they
catch what goes wrong in any other way, and not that outcome:

| property | what it allows |
|---|---|
| `LockMatches` | the lock file of a process that died stays for ever (`service.go:3553`) |
| `UnrecordedIsLocked` | a death or a failing write between `gh pr create` and its row leaves a pull request that no row knows (1185) |
| `FeedbackForward` | a sync stores rows as it read them before it asked GitHub, and a commit marks what it listed (1419) |
| `AddressedAfterCommit` | a comment stored during a commit counts as answered by it (964) |
| `ForbiddenStaysOut` | a forbidden file that an agent wrote while a commit was under way, or in an untracked directory, is committed (923, 3988), although `README.md:191` calls the patterns "glob patterns blocked in changed files"; without `overlooked` in the property, TLC shows the second with no concurrency at all |
| `CursorAccountsFor` | events dropped from a full buffer, skipped between page and subscription, or not sent after a panic count as missed (`forum_event_broker.go:75`, 116) |
| `EndAnnounced` | an end that comes while the watch takes a snapshot of an earlier one (`Overtaken`: a failed run is stopped, or one that was taken up again is) is not shown: the earlier end is, and the run is forgotten |
| `ToldInTheEnd` | an old run with a session that is quiet gets no alert (`Stuck`) |

`MergesClean` excludes the agent that edits during a close, which the code does not notice.

Deadlock is checked in the lifecycle runs: status queries may always be issued, so
with one process a deadlock would be a command that is stuck between two
statements because a transition it relies on is refused. It is checked of the bus, of
the forum, whose only way to rest is `Rest`, and of the operator. It is not checked in
`review` and `stream`, which stop when their commands, or events and connections, are used up,
nor in the violation runs.

### Fairness

`RunLifecycle!FairSpec`: a command that has begun runs on (its statements and
shell calls end), and status queries keep being issued, as the watch and operator
loops and the user interface issue them. Nothing is assumed about agents,
operators or failures.

`ForumBus!FairSpec`: the worker calls `ProcessOnce` on a ticker, so flushing and
consuming go on; Redis delivers; and a pass does not for ever end (limit, or
300 ms of silence) just before the message delivered to it is handled, which is
the strong fairness on `HandlerSucceeds`.

`ForumService!FairSpec`: a handler that has begun runs on, and a message that has
not been handled keeps being offered. The offer needs strong fairness because an
open of a taken thread id fails each time, and between its retries the others' turn
comes and goes. Clients need do nothing.

`Operator!Spec`: the tickers of a loop that is alive fire, and cooldowns end. Nobody
restarts an operator or a watch that has died, which is why the liveness properties
name it. `RunReview` has no fairness: commands are issued by people.

`EventStream!Spec`: goroutines empty the bus until the shutdown and finish what
they publish; a connection's loop goes on; a shutdown that has begun proceeds, each of
its waits having a timeout. Nobody need connect or shut down.

## Proofs

Each safety invariant and each action property that a passing run checks is also a
theorem, for every value of the constants; a run shows on a small instance what the
theorem shows for all. `PROJECT.json` names the theorem of each property. A proof
about a component rests on the assumption about its constants that TLC evaluates in
the component's runs (`StateAssumption`, `BusAssumption`, `StoreAssumption`,
`ServiceAssumption`, `ReviewAssumption`, `OperatorAssumption`, `StreamAssumption`: what
kind of value each constant is) and, where the theorem says so, on the hypothesis that
the run is configured with.

### The run lifecycle

Any set of processes, any number of tickets and names, any choice of `Ops`, `MaxOps`
and `Env`, all failures and crashes included.

* `RunLifecycleProofs!TypeCorrect`: `Spec => []TypeOK`. One step per statement;
  below it, the frame (a lemma per combination of fields that statements assign)
  and each row the statement writes.
* `RunBootstrapProofs!SignalNeeded`: `Spec => []BootstrapNeedsSignal`, a bootstrap run is
  completed or closed only if some agent has signalled, which no run checks. The
  property is not inductive: a status query writes completed, and a close closing
  and closed, long after they looked, over whatever the status has become. The
  invariant `IInv` adds what a process relies on between its statements: one at a
  statement of `Claims` has seen a signal (`ClaimHolds`), the agents in its
  snapshot are registered (`SnapshotKnown`), those it visits are in the snapshot
  (`LeftKnown`), and what it found them to be is a status (`VerdictKnown`), without
  which an update could delete a row. `Grows` says why interleavings do no harm: no
  statement deletes an agent row or withdraws a completion. All statements but
  six of the status query satisfy `Keeps`, which carries the invariant over at
  once.

The other properties are false when commands overlap (`stop_during_run` shows it of the
first), so `RunSerialProofs` assumes `Alone`, that there is at most one process; agents,
posts, edits, failures and the death of the command remain. Four theorems
take one further hypothesis each:

| theorem | states | besides `Alone` |
|---|---|---|
| `LegalWhenAlone` | `LegalTransitions` | |
| `StepsWhenAlone` | `StepsFollowHSM` | |
| `AllSignalledWhenAlone` | `BootstrapAllSignalled` | |
| `StoppedIsQuiet` | `StoppedQuiesced` | no tmux faults: a kill that fails is ignored |
| `ClosedIsMerged` | `ClosedMeansMerged` | no `close --dry-run`, which closes and merges nothing |
| `MergesAreClean` | `MergesClean` | no agent edits on its own, so none between check and merge |
| `CompletedIsExecuted` | `CompletedMeansExecuted` | no death: a run that has lost its plan resumes to completed |

The invariant, `SerialInv`, is the one above, what is true of the run (`RunInv`), and what
the command knows (`Known`), in one conjunct for each table or part of the world.
`StatusKnown`: the status that each statement takes for granted, or has read, is the one
stored; each hard-coded `from` of `transitionRun` is justified by it. `StepsKnown`,
`PlanKnown`: the step being executed is running, and what is no longer to do is done.
`SessionsKnown`: agents no longer to be killed have no session. `CloseKnown`: the
agents that a close has read are all there are, the workspaces it has checked are clean,
those it has passed are merged. `SignalsKnown`: the agents that a status query judges by
are all there are, or none, and once it has judged, all have signalled. For each group of
commands one lemma says which labels a statement goes between and which parts of the
state it may write at all (`Within`, `Moves`), so that a conjunct is looked at statement by
statement only in the group that can disturb it.

### The forum bus

Any set of processes, any number of messages, any batch size and any number of failures.

* `TypeCorrect`: `Spec => []TypeOK`. No run repeats it.
* `SentSafe`: `Spec => []SentIsSafe`. The invariant is not inductive alone: a row
  becomes `sent` in `MarkSent`, so the strengthening says what a process at `mark`
  knows, that the first row of its batch has reached Redis (`PositionInv`,
  `BatchInv`), and that reaching Redis is never undone (`ReachedStable`): a
  delivery moves an entry from the stream to a consumer, an acknowledgement comes
  only after the handler has succeeded, a crash puts what was held back.
* `NeverLost`: `Spec => []NothingLost` when neither `crash` nor `store` is in
  `Env`, the assumptions `bus_crash` and the hazard list explain. The
  strengthening is that a row in `processing` is in the batch of some process
  (`LostInv`).
* `OnlyOnce`: `Spec => []HandledOnce`. A message is followed back from the handler, as
  long as no failure has been counted: there is one copy of it among the stream, what
  consumers hold and what was handled (`CopiedOnce`); a row that may still be sent has
  not been, but for the one that a process is about to mark (`PublishedOnce`); and no
  two processes hold one row (`ClaimedOnce`).

### The forum

Any set of processes, threads, tickets and control threads, any number of ids, any
scripts of client calls, any number of deaths and redeliveries.

* `TypeCorrect`, `ViewsCorrect`, `QueueCorrect`, `StatsCorrect`: `TypeOK`, `ViewsFollow`,
  `QueueOwed` and `StatsSettled` are invariants. Every step is of one of ten kinds by
  what it writes (`Steps`), and each part of the invariant is shown for each kind:
  `StoreInv`, that the tables belong together, of which `ViewsFollow` is one; `BusInv`, how far
  the messages of an id have come and what has happened before; `WorkKnows` and
  `CallKnows`, what a handler or a call between two statements relies on; `StatsInv`, that
  statistics which are behind are owed a refresh. A refresh that a death prevented is not
  repeated; the queue catches up nevertheless because a projection is recorded only after
  its row counts every event of the id (`Counted`).
* `Implements`: `Spec => ImplementsLog`, the refinement of `ForumLog`. The transaction of a
  handler is the step of the log: its event is the next entry, and the view it refreshes
  is the board's (`ViewsFollow` gives the view before); drawing a command is issuing it;
  everything else stutters. That an id is logged once needs that the handler looks for the event
  inside the transaction that logs it.

### Commit, pull requests and review feedback

Any number of processes, targets, edits, comments, commands and faults, any checks.

* `TypeCorrect` (`TypeOK`, which no run repeats): the calls are typed by the fields that
  they have at each statement (`Calls`).
* `LockCorrect`: `LockMatches`. Whoever is inside has the lock; so while a commit is at a
  target, nobody else touches its branch, stash or row, and only agents add to its tree.
* `NoEditIsLost`, `ForbiddenOut`, `PullsRecorded`, `RowsCorrect`, `AddressedAnswered`:
  `EditsAreSomewhere`, `ForbiddenStaysOut`, `UnrecordedIsLocked`, `RowNamesTip` and
  `AddressedAfterCommit`. All follow from one invariant, `IInv`, since they need one another's
  facts: what a commit knows of its target from statement to statement
  (`CommitKnows`: there is something to commit, the snapshot is in the stash until the
  tree has it back), that edits to be committed are not committed yet (`Fresh`), that a checked
  tree holds forbidden files only if they came late or were overlooked (`Checked`), that the exceptions of
  the row properties are one target of one command at one statement (`RecordInv`,
  `TipInv`), and that a comment in the hands of a command is known and answered
  (`FeedbackKnown`).
* `NeverBack`: `FeedbackForward`, with the exceptions that the property names: a sync
  stores what it read before it asked GitHub, and a commit or an opening of pull requests
  marks what it listed before.

### The operator

Any finite set of agents, any settings, budget, number of confirmations, and any number
of events and faults.

* `TypeCorrect`: `Spec => []TypeOK`, in which the row never counts beyond the budget.
* `BudgetHolds`: `Spec => []RestartsCounted`. The budget is looked at when the operator
  decides, the restart happens a step later and is written one more step later. `CountInv`
  carries the decision over: restarts are those in the row, those lost and the one not yet
  written, and while one is owed the row is below the budget, since nobody but the
  operator writes it.
* `EvidenceHolds`: `Spec => []ActsOnEvidence`. `StreakInv` says that the counter stands for
  the latest snapshots, all bad, and `Warranted` what the decision has established, which
  no step before the action disturbs.

### The event stream

Any viewers with any filters, any number of goroutines, events, connections and faults, any
size of page and buffer.

* `TypeCorrect`, `OrderCorrect`, `CursorCorrect`: `TypeOK`, `InOrder` and
  `CursorAccountsFor`. The frame that is being collected lies, in order, between what its
  viewer was told and the cursor (`FrameInv`), so that it continues what was sent. The
  cursor may pass any event, the property being about those below it; the invariant is
  therefore about all of them: every event of a viewer that has read its page is
  accounted for, the later ones included (`SeenInv`), and a viewer without a connection, or
  whose page has still to be read, is owed an account of what it was told.

### What is only model-checked

Liveness, under fairness: `CommandsReturn`, `ClosingEnds`, `CloseSucceeds`,
`GuidanceResolves`, `EventuallyHandled`, `OutboxSettles`, both `Settles`, `ToldInTheEnd` and
`EndAnnounced`, and `Delivery` of `Courier`, which is assumed. The violations are found by
TLC and need no proof.

## Not modelled, and the plan

* Policy parsing and validation, the command line, the HTTP handlers, the remote client
  of the service, the user interface: they keep no state that these properties
  depend on.
* Doc federation: `MergeWorkspaceFirst` is a pure function of snapshots that were
  collected one after the other; it shares nothing with the rest.
* Of the forum: queue listings, search, seen markers and debug snapshots, which only
  read; of the store: run briefs, the event log and schema migration. Of the run: the
  texts of briefs, hints and escalations, the copying of ticket documents file by file.
* Dry runs of `Commit`, `Merge` and the other review commands, which write nothing
  (those of `run` and `close`, which do write, are modelled).
* The acknowledgement between `Courier` and `ForumBus` is by property and not by a
  refinement: `ForumBus` numbers its messages in the order of publication.

What could come next:

1. A refinement for the lifecycle: one process executing one command implements the state
   machine of `RunHSM` with the world of sessions and merges as its only other state.
   `LegalWhenAlone` and `StoppedIsQuiet` are its two halves.
2. `ForumBus` as an implementation of `Courier`, for which its messages would have to be named
   as `ForumService` names them.
3. Which pairs of commands may overlap: `Alone` is more than each theorem needs (status
   queries that find nothing to write disturb none), and the invariant says which
   statements do harm.
