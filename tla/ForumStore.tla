----------------------------- MODULE ForumStore -----------------------------
(***************************************************************************)
(* The forum tables (internal/store/sqlite_forum.go) and the statements    *)
(* that change them.  Every statement list between BEGIN IMMEDIATE and     *)
(* COMMIT is one step; a store operation is several of them, and a process *)
(* may die between any two.                                                *)
(*                                                                         *)
(* forum_threads and forum_posts are the base tables, forum_events is the  *)
(* log.  forum_thread_views is what readers are shown, the queue view and  *)
(* the statistics are derived from the other tables by refresh statements. *)
(***************************************************************************)
EXTENDS Integers, Sequences, FiniteSets

CONSTANTS
  Threads,     \* thread ids
  TicketOf,    \* the ticket of each thread
  States,      \* thread states that commands name
  Priorities,  \* priorities that commands name
  Assignees,   \* who a thread can be assigned to
  Actors,      \* actor types that issue commands
  NumIds       \* bound: commands and integration events, numbered as issued

ForumStates     == {"new", "triaged", "waiting_operator", "waiting_human",
                    "answered", "closed"}
ForumPriorities == {"low", "normal", "high", "urgent"}
\* An operator counts as a human in every query of the queue view.
ActorTypes      == {"agent", "human", "system"}

Ids     == 1..NumIds
Tickets == {TicketOf[t] : t \in Threads}
Nobody  == "nobody"
None    == "none"

ASSUME StoreAssumption ==
  /\ NumIds \in Nat
  /\ States \subseteq ForumStates /\ Priorities \subseteq ForumPriorities
  /\ "normal" \in Priorities /\ {"new", "answered", "closed"} \subseteq States
  /\ Actors \subseteq ActorTypes
  /\ Nobody \notin Assignees
  /\ DOMAIN TicketOf = Threads

VARIABLES
  threads,   \* forum_threads
  posts,     \* forum_posts: the event ids of each thread's posts
  events,    \* forum_events, in the order of their sequence numbers
  views,     \* forum_thread_views
  queue,     \* forum_thread_queue_view
  stats,     \* forum_thread_stats of each ticket
  applied,   \* forum_projection_events
  controls   \* forum_control_threads: the threads that a row maps to

tables == <<threads, posts, events, views, queue, stats, applied, controls>>

Absent == [state |-> None]

-----------------------------------------------------------------------------
(* What the statements read *)

EventExists(id) == \E i \in DOMAIN events : events[i].id = id

\* GetForumThread answers from the view.
Exists(t) == views[t] # Absent

\* The numbers of thread t's events that are in S, with 0 for none.
SeqsOf(t, S) == {i \in DOMAIN events : events[i].thread = t /\ events[i].by \in S}
LastOf(t, S) == LET N == SeqsOf(t, S) IN IF N = {} THEN 0 ELSE CHOOSE i \in N : \A j \in N : j <= i

ByWhom(i) == IF i = 0 THEN None ELSE events[i].by

QueueRow(t) ==
  [state     |-> threads[t].state,
   priority  |-> threads[t].priority,
   assignee  |-> threads[t].assignee,
   last      |-> LastOf(t, ActorTypes),
   lastActor |-> ByWhom(LastOf(t, ActorTypes \ {"system"})),
   lastHuman |-> LastOf(t, {"human"}),
   lastAgent |-> LastOf(t, {"agent"})]

ViewRow(t) ==
  [state    |-> threads[t].state,
   priority |-> threads[t].priority,
   assignee |-> threads[t].assignee,
   posts    |-> Cardinality(posts[t])]

\* SELECT state, priority, COUNT( * ) ... GROUP BY over the views of a ticket.
StatRows(k) ==
  LET Rows    == {t \in Threads : TicketOf[t] = k /\ Exists(t)}
      Like(s, q) == {t \in Rows : views[t].state = s /\ views[t].priority = q}
  IN {[state |-> views[t].state, priority |-> views[t].priority,
       count |-> Cardinality(Like(views[t].state, views[t].priority))] : t \in Rows}

-----------------------------------------------------------------------------
(* Statements *)

StoreInit ==
  /\ threads  = [t \in Threads |-> Absent]
  /\ posts    = [t \in Threads |-> {}]
  /\ events   = << >>
  /\ views    = [t \in Threads |-> Absent]
  /\ queue    = [t \in Threads |-> Absent]
  /\ stats    = [k \in Tickets |-> {}]
  /\ applied  = {}
  /\ controls = {}

Log(c, from) ==
  events' = Append(events, [id |-> c.id, kind |-> c.kind, thread |-> c.thread,
                            by |-> c.by, from |-> from, to |-> c.to])

\* The transaction of ForumOpenThread; the primary key refuses a second row.
InsertThread(c) ==
  LET row == [state |-> "new", priority |-> c.to, assignee |-> Nobody]
  IN /\ threads[c.thread] = Absent
     /\ threads' = [threads EXCEPT ![c.thread] = row]
     /\ posts' = [posts EXCEPT ![c.thread] = {c.id}]
     /\ Log(c, None)
     /\ views' = [views EXCEPT ![c.thread] =
                    [state |-> "new", priority |-> c.to, assignee |-> Nobody, posts |-> 1]]

\* The transaction of ForumAddPost.
InsertPost(c) ==
  /\ posts' = [posts EXCEPT ![c.thread] = @ \union {c.id}]
  /\ Log(c, None)
  /\ views' = [views EXCEPT ![c.thread].posts = @ + 1]
  /\ UNCHANGED threads

\* Mutant: the transaction leaves the view to the projection.
UpdateAssignee_NoView(c, from) ==
  /\ Log(c, from.assignee)
  /\ threads' = [threads EXCEPT ![c.thread].assignee = c.to]
  /\ UNCHANGED <<posts, views>>

\* The transaction of ForumAssignThread.
UpdateAssignee(c, from) ==
  /\ Log(c, from.assignee)
  /\ threads' = [threads EXCEPT ![c.thread].assignee = c.to]
  /\ views' = [views EXCEPT ![c.thread].assignee = c.to]
  /\ UNCHANGED posts

\* The transaction of forumChangeState: no condition on the state the row has.
UpdateState(c, from) ==
  /\ Log(c, from.state)
  /\ threads' = [threads EXCEPT ![c.thread].state = c.to]
  /\ views' = [views EXCEPT ![c.thread].state = c.to]
  /\ UNCHANGED posts

\* The transaction of ForumSetPriority.
UpdatePriority(c, from) ==
  /\ Log(c, from.priority)
  /\ threads' = [threads EXCEPT ![c.thread].priority = c.to]
  /\ views' = [views EXCEPT ![c.thread].priority = c.to]
  /\ UNCHANGED posts

\* Mutant: the log is not asked for the event id.
Transaction_NotUnique(c, from) ==
  /\ \/ c.kind = "open" /\ InsertThread(c)
     \/ c.kind \in {"post", "signal"} /\ InsertPost(c)
     \/ c.kind = "assign" /\ UpdateAssignee(c, from)
     \/ c.kind \in {"state", "close"} /\ UpdateState(c, from)
     \/ c.kind = "priority" /\ UpdatePriority(c, from)
  /\ UNCHANGED <<queue, stats, applied, controls>>

\* The transaction of a command; forum_events.event_id is unique, so a second
\* one with the same id is rolled back whatever was read before.
Transaction(c, from) ==
  /\ ~EventExists(c.id)
  /\ \/ c.kind = "open" /\ InsertThread(c)
     \/ c.kind \in {"post", "signal"} /\ InsertPost(c)
     \/ c.kind = "assign" /\ UpdateAssignee(c, from)
     \/ c.kind \in {"state", "close"} /\ UpdateState(c, from)
     \/ c.kind = "priority" /\ UpdatePriority(c, from)
  /\ UNCHANGED <<queue, stats, applied, controls>>

\* refreshForumThreadStats
RefreshStats(t) ==
  /\ stats' = [stats EXCEPT ![TicketOf[t]] = StatRows(TicketOf[t])]
  /\ UNCHANGED <<threads, posts, events, views, queue, applied, controls>>

\* refreshForumThreadQueueView; without a thread it inserts nothing.
RefreshQueue(t) ==
  /\ queue' = IF threads[t] = Absent THEN queue
                                     ELSE [queue EXCEPT ![t] = QueueRow(t)]
  /\ UNCHANGED <<threads, posts, events, views, stats, applied, controls>>

\* refreshForumThreadView
RefreshView(t) ==
  /\ views' = IF threads[t] = Absent THEN views
                                     ELSE [views EXCEPT ![t] = ViewRow(t)]
  /\ UNCHANGED <<threads, posts, events, queue, stats, applied, controls>>

\* ForumAppendIntegrationEvent: the log alone changes.
AppendIntegration(id, t, by) ==
  /\ ~EventExists(id)
  /\ Log([id |-> id, kind |-> "docs_sync", thread |-> t, by |-> by, to |-> None], None)
  /\ UNCHANGED <<threads, posts, views, queue, stats, applied, controls>>

\* UpsertForumControlThread
UpsertControl(t) ==
  /\ controls' = controls \union {t}
  /\ UNCHANGED <<threads, posts, events, views, queue, stats, applied>>

\* insertForumProjectionEvent, INSERT OR IGNORE
RecordProjection(n, id) ==
  /\ applied' = applied \union {<<n, id>>}
  /\ UNCHANGED <<threads, posts, events, views, queue, stats, controls>>

=============================================================================
