---------------------------- MODULE ForumService ----------------------------
(***************************************************************************)
(* The forum service (internal/orchestrator/service_forum.go): a command   *)
(* is checked against the thread as it is read, sent over the bus, and     *)
(* applied to the tables of ForumStore by the handler of whichever process *)
(* is given the message.  The handler publishes the event it has logged,   *)
(* and the handler of that event brings the projections up to date.        *)
(*                                                                         *)
(* The bus is the one Courier promises.  A message is handled again after  *)
(* a fault (a crash, a slow handler, a failed acknowledgement), which is   *)
(* what MaxFaults bounds.                                                  *)
(***************************************************************************)
EXTENDS ForumStore

CONSTANTS
  Procs,           \* processes that handle messages
  ControlThreads,  \* the threads of control signals, one of a run and agent
  Scripts,         \* bound: the client calls that may be made with each id
  MaxFaults        \* bound: crashes and redeliveries

ClientCalls == {"open", "post", "answer", "assign", "state", "priority", "close",
                "signal"}

ASSUME ServiceAssumption ==
  /\ ControlThreads \subseteq Threads
  /\ Scripts \subseteq [Ids -> SUBSET ClientCalls]
  /\ MaxFaults \in Nat

VARIABLES
  cmds,    \* the command of each id that a client has drawn
  sent,    \* messages published on the bus
  done,    \* messages that have been handled
  work,    \* what each process handles, and how far it is
  calls,   \* client calls that have more to do
  script,  \* the script that clients follow, never changed
  faults   \* faults so far

vars == <<tables, cmds, sent, done, work, calls, script, faults>>

Messages == {"command", "event"} \X Ids
Undrawn  == [id |-> 0]
Idle     == [pc |-> "idle"]

Command == [id : Ids, kind : (ClientCalls \ {"answer"}) \union {"docs_sync"}, thread : Threads,
            by : ActorTypes, to : ForumStates \union ForumPriorities \union
                                  Assignees \union {None}]

Bus == INSTANCE Courier WITH Message <- Messages

-----------------------------------------------------------------------------
Labels == {"commit", "stats", "queue", "publish", "project", "record"}
Projections == <<"views", "queue", "stats">>
CallSteps == {"answer", "docs", "ensure", "open", "open_stats", "open_queue",
              "map", "signal"}

TypeOK ==
  /\ threads \in [Threads -> {Absent} \union
       [state : ForumStates, priority : ForumPriorities, assignee : Assignees \union {Nobody}]]
  /\ posts \in [Threads -> SUBSET Ids]
  /\ \A i \in DOMAIN events :
       /\ events[i].id \in Ids /\ events[i].thread \in Threads
       /\ events[i].by \in ActorTypes
  /\ \A t \in Threads : Exists(t) =>
       views[t] \in [state : ForumStates, priority : ForumPriorities,
                     assignee : Assignees \union {Nobody}, posts : Nat]
  /\ \A t \in Threads : queue[t] # Absent =>
       queue[t].last \in 1..Len(events) /\ queue[t].state \in ForumStates
  /\ applied \subseteq (1..3) \X Ids
  /\ controls \subseteq ControlThreads
  /\ cmds \in [Ids -> Command \union {Undrawn}]
  /\ sent \subseteq Messages /\ done \subseteq sent
  /\ \A p \in Procs : work[p] # Idle => work[p].pc \in Labels /\ work[p].msg \in sent
  /\ \A k \in calls : k.pc \in CallSteps /\ k.thread \in Threads /\ k.by \in ActorTypes
  /\ script \in Scripts /\ faults \in 0..MaxFaults

Init ==
  /\ StoreInit /\ Bus!Init
  /\ cmds   = [i \in Ids |-> Undrawn]
  /\ work   = [p \in Procs |-> Idle]
  /\ calls  = {}
  /\ script \in Scripts
  /\ faults = 0

-----------------------------------------------------------------------------
(* Client calls *)

\* generateForumID: ids are drawn in order.
IsNext(id) == id \in Ids /\ cmds[id] = Undrawn /\ \A j \in 1..(id - 1) : cmds[j] # Undrawn

Draw(id, c) == IsNext(id) /\ cmds' = [cmds EXCEPT ![id] = c]

MakeCommand(id, kind, t, by, to) ==
  [id |-> id, kind |-> kind, thread |-> t, by |-> by, to |-> to]

\* dispatchForumCommand: the outbox row is the only thing that is certain when
\* it returns; the passes of ProcessOnce it makes are steps of Procs.
Dispatch(id, kind, t, by, to) ==
  /\ Draw(id, MakeCommand(id, kind, t, by, to))
  /\ Bus!Send(<<"command", id>>)

\* forumTransitionAllowed
TransitionAllowed(from, to) ==
  \/ from = to
  \/ from = "new" /\ to # "new"
  \/ from = "triaged" /\ to \notin {"new", "triaged"}
  \/ from = "waiting_operator" /\ to \notin {"new", "waiting_operator"}
  \/ from = "waiting_human" /\ to \notin {"new", "waiting_human"}
  \/ from = "answered" /\ to \in {"waiting_operator", "waiting_human", "closed"}

IsOpen(t) == Exists(t) /\ views[t].state # "closed"

\* A caller may name the thread id, and nothing looks whether it is taken.
OpenThread(id, t, by) ==
  /\ "open" \in script[id]
  /\ \E q \in Priorities : Dispatch(id, "open", t, by, q)
  /\ UNCHANGED <<tables, work, calls, faults>>

AddPost(id, t, by) ==
  /\ "post" \in script[id] /\ IsOpen(t)
  /\ Dispatch(id, "post", t, by, None)
  /\ UNCHANGED <<tables, work, calls, faults>>

AssignThread(id, t, by) ==
  /\ "assign" \in script[id] /\ IsOpen(t)
  /\ \E a \in Assignees : Dispatch(id, "assign", t, by, a)
  /\ UNCHANGED <<tables, work, calls, faults>>

ChangeState(id, t, by) ==
  /\ "state" \in script[id] /\ Exists(t)
  /\ \E s \in States :
       /\ TransitionAllowed(views[t].state, s)
       /\ Dispatch(id, "state", t, by, s)
  /\ UNCHANGED <<tables, work, calls, faults>>

SetPriority(id, t, by) ==
  /\ "priority" \in script[id] /\ IsOpen(t)
  /\ \E q \in Priorities : Dispatch(id, "priority", t, by, q)
  /\ UNCHANGED <<tables, work, calls, faults>>

\* Once the command is dispatched the caller emits a docs-sync event.
CloseThread(id, t, by) ==
  /\ "close" \in script[id] /\ IsOpen(t)
  /\ Dispatch(id, "close", t, by, "closed")
  /\ calls' = calls \union {[pc |-> "docs", thread |-> t, by |-> by]}
  /\ UNCHANGED <<tables, work, faults>>

AnswerThread(id, t, by) ==
  /\ "answer" \in script[id] /\ IsOpen(t)
  /\ Dispatch(id, "post", t, by, None)
  /\ calls' = calls \union {[pc |-> "answer", thread |-> t, by |-> by]}
  /\ UNCHANGED <<tables, work, faults>>

\* The second command of an answer, without a second look at the thread.
AnswerState(k, id) ==
  /\ k \in calls /\ k.pc = "answer"
  /\ Dispatch(id, "state", k.thread, k.by, "answered")
  /\ calls' = (calls \ {k}) \union {[k EXCEPT !.pc = "docs"]}
  /\ UNCHANGED <<tables, work, faults>>

\* forumEmitDocsSyncRequestedEvent; an event without a command.
DocsSync(k, id) ==
  /\ k \in calls /\ k.pc = "docs"
  /\ Draw(id, MakeCommand(id, "docs_sync", k.thread, k.by, None))
  /\ AppendIntegration(id, k.thread, k.by)
  /\ calls' = calls \ {k}
  /\ UNCHANGED <<sent, done, work, faults>>

-----------------------------------------------------------------------------
(* ForumAppendControlSignal *)

Advance(k, pc) == calls' = (calls \ {k}) \union {[k EXCEPT !.pc = pc]}

Signal(t, by) ==
  /\ t \in ControlThreads
  /\ \E id \in Ids : IsNext(id) /\ "signal" \in script[id]
  /\ calls' = calls \union {[pc |-> "ensure", thread |-> t, by |-> by, id |-> 0]}
  /\ UNCHANGED <<tables, cmds, sent, done, work, faults>>

\* ensureForumControlThread, when the mapping is there or the thread is.
EnsureFound(k) ==
  /\ k \in calls /\ k.pc = "ensure" /\ Exists(k.thread)
  /\ Advance(k, IF k.thread \in controls THEN "signal" ELSE "map")
  /\ UNCHANGED <<tables, cmds, sent, done, work, faults>>

\* Neither is: the thread is opened in the store, past the bus.
EnsureOpen(k, id) ==
  /\ k \in calls /\ k.pc = "ensure" /\ ~Exists(k.thread)
  /\ Draw(id, MakeCommand(id, "open", k.thread, "system", "normal"))
  /\ calls' = (calls \ {k}) \union {[k EXCEPT !.pc = "open", !.id = id]}
  /\ UNCHANGED <<tables, sent, done, work, faults>>

EnsureInsert(k) ==
  /\ k \in calls /\ k.pc = "open"
  /\ Transaction(cmds[k.id], Absent)
  /\ Advance(k, "open_stats")
  /\ UNCHANGED <<cmds, sent, done, work, faults>>

\* Another process has opened the thread: the call returns its error.
EnsureFails(k) ==
  /\ k \in calls /\ k.pc = "open" /\ threads[k.thread] # Absent
  /\ calls' = calls \ {k}
  /\ UNCHANGED <<tables, cmds, sent, done, work, faults>>

EnsureStats(k) ==
  /\ k \in calls /\ k.pc = "open_stats"
  /\ RefreshStats(k.thread)
  /\ Advance(k, "open_queue")
  /\ UNCHANGED <<cmds, sent, done, work, faults>>

EnsureQueue(k) ==
  /\ k \in calls /\ k.pc = "open_queue"
  /\ RefreshQueue(k.thread)
  /\ Advance(k, "map")
  /\ UNCHANGED <<cmds, sent, done, work, faults>>

EnsureMap(k) ==
  /\ k \in calls /\ k.pc = "map"
  /\ UpsertControl(k.thread)
  /\ Advance(k, "signal")
  /\ UNCHANGED <<cmds, sent, done, work, faults>>

\* A control thread takes signals even when it has been closed.
SignalPost(k, id) ==
  /\ k \in calls /\ k.pc = "signal"
  /\ Dispatch(id, "signal", k.thread, k.by, None)
  /\ calls' = calls \ {k}
  /\ UNCHANGED <<tables, work, faults>>

\* The process that makes the call dies.
CallDies(k) ==
  /\ k \in calls
  /\ faults < MaxFaults /\ faults' = faults + 1
  /\ calls' = calls \ {k}
  /\ UNCHANGED <<tables, cmds, sent, done, work>>

-----------------------------------------------------------------------------
(* Handlers (registerForumBusHandlers) *)

At(p, pc)   == work[p].pc = pc
Goto(p, pc) == work' = [work EXCEPT ![p].pc = pc]
Begin(p, w) == work' = [work EXCEPT ![p] = w]

CommandOf(p) == cmds[work[p].msg[2]]

\* A message that has been handled, or is being handled, is delivered again only
\* after a fault of the bus.
Deliver(p, m) ==
  /\ At(p, "idle") /\ m \in sent
  /\ IF m \in done \/ \E q \in Procs : work[q] # Idle /\ work[q].msg = m
     THEN faults < MaxFaults /\ faults' = faults + 1
     ELSE UNCHANGED faults

\* Mutant: a command that has been applied is acknowledged, and that is all.
HandleCommand_NotPublished(p, id) ==
  LET c == cmds[id] IN
  /\ Deliver(p, <<"command", id>>)
  /\ \/ /\ EventExists(id)
        /\ done' = done \union {<<"command", id>>}
        /\ UNCHANGED work
     \/ /\ ~EventExists(id)
        /\ c.kind = "open" \/ Exists(c.thread)
        /\ Begin(p, [pc |-> "commit", msg |-> <<"command", id>>,
                     from |-> IF c.kind = "open" THEN Absent ELSE views[c.thread]])
        /\ UNCHANGED done
  /\ UNCHANGED <<tables, cmds, sent, calls>>

\* A command that has been applied is only published again.  A handler that finds
\* no thread fails, and leaves everything as it was.
HandleCommand(p, id) ==
  LET c == cmds[id] IN
  /\ Deliver(p, <<"command", id>>)
  /\ \/ /\ EventExists(id)
        /\ Begin(p, [pc |-> "publish", msg |-> <<"command", id>>])
     \/ /\ ~EventExists(id)
        /\ c.kind = "open" \/ Exists(c.thread)
        /\ Begin(p, [pc |-> "commit", msg |-> <<"command", id>>,
                     from |-> IF c.kind = "open" THEN Absent ELSE views[c.thread]])
  /\ UNCHANGED <<tables, cmds, sent, done, calls>>

\* Mutant: the message is acknowledged before its handler has ended.
Commit_AcksFirst(p) ==
  /\ At(p, "commit")
  /\ Transaction(CommandOf(p), work[p].from)
  /\ Goto(p, IF CommandOf(p).kind \in {"post", "signal", "assign"} THEN "queue" ELSE "stats")
  /\ done' = done \union {work[p].msg}
  /\ UNCHANGED <<cmds, sent, calls, faults>>

Commit(p) ==
  /\ At(p, "commit")
  /\ Transaction(CommandOf(p), work[p].from)
  /\ Goto(p, IF CommandOf(p).kind \in {"post", "signal", "assign"} THEN "queue" ELSE "stats")
  /\ UNCHANGED <<cmds, sent, done, calls, faults>>

\* A unique key is taken; the message stays on the bus.
CommitFails(p) ==
  LET c == CommandOf(p) IN
  /\ At(p, "commit")
  /\ EventExists(c.id) \/ (c.kind = "open" /\ threads[c.thread] # Absent)
  /\ Begin(p, Idle)
  /\ UNCHANGED <<tables, cmds, sent, done, calls, faults>>

HandlerStats(p) ==
  /\ At(p, "stats")
  /\ RefreshStats(CommandOf(p).thread)
  /\ Goto(p, "queue")
  /\ UNCHANGED <<cmds, sent, done, calls, faults>>

HandlerQueue(p) ==
  /\ At(p, "queue")
  /\ RefreshQueue(CommandOf(p).thread)
  /\ Goto(p, "publish")
  /\ UNCHANGED <<cmds, sent, done, calls, faults>>

\* Mutant: the event is taken as published although its row is not written.
HandlerPublish_NoRow(p) ==
  /\ At(p, "publish")
  /\ EventExists(work[p].msg[2])
  /\ done' = done \union {work[p].msg, <<"event", work[p].msg[2]>>}
  /\ Begin(p, Idle)
  /\ UNCHANGED <<tables, cmds, sent, calls, faults>>

\* publishForumEventByID: one more outbox row, whose payload is the logged event.
HandlerPublish(p) ==
  /\ At(p, "publish")
  /\ EventExists(work[p].msg[2])
  /\ sent' = sent \union {<<"event", work[p].msg[2]>>}
  /\ done' = done \union {work[p].msg}
  /\ Begin(p, Idle)
  /\ UNCHANGED <<tables, cmds, calls, faults>>

HandleEvent(p, id) ==
  /\ Deliver(p, <<"event", id>>)
  /\ Begin(p, [pc |-> "project", msg |-> <<"event", id>>, nth |-> 1])
  /\ UNCHANGED <<tables, cmds, sent, done, calls>>

Refresh(n, t) ==
  CASE Projections[n] = "views" -> RefreshView(t)
    [] Projections[n] = "queue" -> RefreshQueue(t)
    [] Projections[n] = "stats" -> RefreshStats(t)

\* Mutant: the last projection is left out.
NextProjection_OneShort(p) ==
  IF work[p].nth = Len(Projections) - 1
  THEN Begin(p, Idle) /\ done' = done \union {work[p].msg}
  ELSE Begin(p, [work[p] EXCEPT !.pc = "project", !.nth = @ + 1]) /\ UNCHANGED done

\* The next projection of ApplyForumEventProjections, or the end of the handler.
NextProjection(p) ==
  IF work[p].nth = Len(Projections)
  THEN Begin(p, Idle) /\ done' = done \union {work[p].msg}
  ELSE Begin(p, [work[p] EXCEPT !.pc = "project", !.nth = @ + 1]) /\ UNCHANGED done

\* applyForumProjectionEvent refreshes first ...
Project(p) ==
  /\ At(p, "project")
  /\ <<work[p].nth, work[p].msg[2]>> \notin applied
  /\ Refresh(work[p].nth, CommandOf(p).thread)
  /\ Goto(p, "record")
  /\ UNCHANGED <<cmds, sent, done, calls, faults>>

\* ... skips what is recorded already ...
ProjectSkip(p) ==
  /\ At(p, "project")
  /\ <<work[p].nth, work[p].msg[2]>> \in applied
  /\ NextProjection(p)
  /\ UNCHANGED <<tables, cmds, sent, calls, faults>>

\* ... and records that it is done.
Record(p) ==
  /\ At(p, "record")
  /\ RecordProjection(work[p].nth, work[p].msg[2])
  /\ NextProjection(p)
  /\ UNCHANGED <<cmds, sent, calls, faults>>

\* The process dies, or a statement of its handler fails for good.
Crash(p) ==
  /\ work[p] # Idle
  /\ faults < MaxFaults /\ faults' = faults + 1
  /\ Begin(p, Idle)
  /\ UNCHANGED <<tables, cmds, sent, done, calls>>

-----------------------------------------------------------------------------
Client(id) ==
  \/ \E t \in Threads, by \in Actors :
       \/ OpenThread(id, t, by) \/ AddPost(id, t, by) \/ AssignThread(id, t, by)
       \/ ChangeState(id, t, by) \/ SetPriority(id, t, by)
       \/ CloseThread(id, t, by) \/ AnswerThread(id, t, by)
  \/ \E t \in ControlThreads, by \in Actors : Signal(t, by)

Continue(k, id) ==
  \/ AnswerState(k, id) \/ DocsSync(k, id) \/ EnsureOpen(k, id) \/ SignalPost(k, id)

Ensure(k) ==
  \/ EnsureFound(k) \/ EnsureInsert(k) \/ EnsureFails(k) \/ EnsureStats(k)
  \/ EnsureQueue(k) \/ EnsureMap(k)

Receive(p, m) ==
  \/ m[1] = "command" /\ HandleCommand(p, m[2])
  \/ m[1] = "event" /\ HandleEvent(p, m[2])

Handler(p) ==
  \/ Commit(p) \/ CommitFails(p) \/ HandlerStats(p) \/ HandlerQueue(p)
  \/ HandlerPublish(p) \/ Project(p) \/ ProjectSkip(p) \/ Record(p)

\* The forum at rest, waiting for a client.
Rest ==
  /\ sent \subseteq done /\ \A p \in Procs : work[p] = Idle
  /\ calls = {} \/ \A id \in Ids : cmds[id] # Undrawn
  /\ UNCHANGED vars

Next ==
  /\ \/ \E id \in Ids : Client(id) \/ \E k \in calls : Continue(k, id)
     \/ \E k \in calls : Ensure(k) \/ CallDies(k)
     \/ \E p \in Procs : Handler(p) \/ Crash(p) \/ \E m \in Messages : Receive(p, m)
     \/ Rest
  /\ UNCHANGED script

Spec == Init /\ [][Next]_vars

\* Handlers run to their end, and a message that the bus has keeps being offered,
\* also between the retries of one whose handler fails every time.
FairSpec ==
  /\ Spec
  /\ \A p \in Procs : WF_vars(Handler(p) /\ UNCHANGED script)
  /\ \A m \in Messages :
       SF_vars(m \notin done /\ \E p \in Procs : Receive(p, m) /\ UNCHANGED script)

-----------------------------------------------------------------------------
(* The forum implements ForumLog.                                            *)

Abstract ==
  INSTANCE ForumLog WITH
    issued <- cmds,
    log    <- [i \in DOMAIN events |-> events[i].id],
    board  <- views

\* Whatever handlers race, die or are given a message twice, the threads that are
\* read are those of a log in which every command took effect at most once.
ImplementsLog == Abstract!Spec

\* The row a reader is given is the one that would be computed from the base
\* tables, at every moment and not only after the projections have run.
ViewsFollow == \A t \in Threads : threads[t] # Absent => views[t] = ViewRow(t)

\* Events that were logged on behalf of a message of the bus.
ByMessage(i) == <<"command", events[i].id>> \in sent

\* A queue row that does not count an event yet is still owed the refresh: the
\* command or the event of it is with a handler or will be handed to one.
QueueOwed ==
  \A i \in DOMAIN events :
    LET e == events[i] IN
    ByMessage(i) =>
      \/ queue[e.thread] # Absent /\ queue[e.thread].last >= i
      \/ <<"command", e.id>> \notin done
      \/ <<"event", e.id>> \in sent \ done

\* The messages about thread t.
MessagesOf(t) == {m \in sent : cmds[m[2]].thread = t}

\* When every message about the threads of a ticket has been handled, and there
\* was one for each thread, the statistics are those of the threads, although
\* every handler computes them outside the transaction that changed the rows.
StatsSettled ==
  \A k \in Tickets :
    (\A t \in Threads : TicketOf[t] = k /\ Exists(t) =>
       MessagesOf(t) # {} /\ MessagesOf(t) \subseteq done)
    => stats[k] = StatRows(k)

\* A command that was sent has taken effect, an open of a thread id that is taken
\* excepted: its handler fails every time and the message is retried for ever.
TookEffect(id) ==
  \/ EventExists(id)
  \/ cmds[id].kind = "open" /\ threads[cmds[id].thread] # Absent

\* The queue classifies thread t by all its commands.
LastCommand(t) == LET N == {i \in DOMAIN events : events[i].thread = t /\ ByMessage(i)}
                  IN  IF N = {} THEN 0 ELSE CHOOSE i \in N : \A j \in N : j <= i

QueueShows(t) ==
  LastCommand(t) > 0 =>
    /\ queue[t] # Absent
    /\ queue[t].last >= LastCommand(t)
    /\ queue[t].state = views[t].state
    /\ queue[t].priority = views[t].priority

\* However handlers race, die and are given messages again: in the end every
\* command that was sent has taken effect and the queue shows it.
Settles ==
  <>[]( /\ \A m \in sent : TookEffect(m[2])
        /\ \A t \in Threads : QueueShows(t))

=============================================================================
