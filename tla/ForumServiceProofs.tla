-------------------------- MODULE ForumServiceProofs --------------------------
(***************************************************************************)
(* Proofs about ForumService, for every set of processes, threads and      *)
(* tickets, every number of ids and faults, and every script of client     *)
(* calls:                                                                  *)
(*                                                                         *)
(*   TypeCorrect    the type invariant (TypeOK);                           *)
(*   ViewsCorrect   what is shown of a thread is what the tables say of it *)
(*                  (ViewsFollow);                                         *)
(*   QueueCorrect   a queue row that is behind is owed a refresh           *)
(*                  (QueueOwed);                                           *)
(*   StatsCorrect   statistics are right once their messages are handled   *)
(*                  (StatsSettled);                                        *)
(*   Implements     the service implements ForumLog (ImplementsLog).       *)
(*                                                                         *)
(* A step is of one of ten kinds, by what it writes (Steps): a client sends*)
(* a command, a handler runs its transaction, a refresh writes a row, and  *)
(* so on.  For each kind, what every step leaves in place (Framed), and    *)
(* then each part of the invariant: StoreInv, that the tables belong       *)
(* together; BusInv, how far the messages of an id have come and what has  *)
(* happened before; WorkKnows and CallKnows, what a handler or a call that *)
(* is between two statements relies on; StatsInv, that statistics that are *)
(* behind are owed a refresh.                                              *)
(*                                                                         *)
(* Nobody repeats a refresh that a death prevented: the queue catches up   *)
(* because a projection is recorded only when its row counts the event     *)
(* (Counted).                                                              *)
(***************************************************************************)
EXTENDS ForumService, FiniteSetTheorems, SequenceTheorems, WellFoundedInduction, TLAPS

Kinds    == (ClientCalls \ {"answer"}) \union {"docs_sync"}
Settings == ForumStates \union ForumPriorities \union Assignees \union {Nobody, None}
Rows     == [state : ForumStates, priority : ForumPriorities, assignee : Assignees \union {Nobody}]
ViewRows == [state : ForumStates, priority : ForumPriorities, assignee : Assignees \union {Nobody}, posts : Nat]
Entries  == [id : Ids, kind : Kinds, thread : Threads, by : ActorTypes, from : Settings, to : Settings]

\* What a command sets is what its kind can set.
Fits(c) ==
  /\ c.kind \in {"open", "priority"} => c.to \in ForumPriorities
  /\ c.kind \in {"state", "close"} => c.to \in ForumStates
  /\ c.kind = "assign" => c.to \in Assignees

\* What a process handles: a command that it applies, one that was applied before,
\* or an event.
Applying   == [pc : {"commit", "stats", "queue", "publish"}, msg : {"command"} \X Ids,
               from : ViewRows \union {Absent}]
Publishing == [pc : {"publish"}, msg : {"command"} \X Ids]
Projecting == [pc : {"project", "record"}, msg : {"event"} \X Ids, nth : 1..3]
Works      == {Idle} \union Applying \union Publishing \union Projecting

PlainCalls  == [pc : {"answer", "docs"}, thread : Threads, by : ActorTypes]
SignalCalls == [pc : {"ensure", "open", "open_stats", "open_queue", "map", "signal"}, thread : ControlThreads,
                by : ActorTypes, id : 0..NumIds]

StoreTypes ==
  /\ threads \in [Threads -> {Absent} \union Rows]
  /\ posts \in [Threads -> SUBSET Ids]
  /\ events \in Seq(Entries)
  /\ views \in [Threads -> {Absent} \union ViewRows]

DerivedTypes ==
  /\ DOMAIN queue = Threads
  /\ \A t \in Threads : queue[t] # Absent => /\ queue[t].last \in 1..Len(events)
                                             /\ events[queue[t].last].thread = t
                                             /\ queue[t].state \in ForumStates
  /\ DOMAIN stats = Tickets
  /\ applied \subseteq (1..3) \X Ids /\ controls \subseteq ControlThreads

BusTypes ==
  /\ cmds \in [Ids -> Command \union {Undrawn}]
  /\ \A id \in Ids : cmds[id] # Undrawn => cmds[id].id = id /\ Fits(cmds[id])
  /\ sent \subseteq Messages /\ done \subseteq sent
  /\ work \in [Procs -> Works]
  /\ \A p \in Procs : work[p] # Idle => work[p].msg \in sent

OtherTypes ==
  /\ calls \subseteq PlainCalls \union SignalCalls
  /\ script \in Scripts /\ faults \in 0..MaxFaults

\* The base tables and what is shown of them.
StoreInv ==
  /\ \A i \in DOMAIN events : /\ cmds[events[i].id] # Undrawn
                              /\ events[i].thread = cmds[events[i].id].thread
                              /\ Exists(events[i].thread)
  /\ \A t \in Threads : \A i \in posts[t] : EventExists(i)
  /\ \A t \in Threads : threads[t] # Absent <=> Exists(t)
  /\ \A t \in Threads : threads[t] # Absent => \E i \in DOMAIN events : events[i].thread = t
  /\ ViewsFollow

\* The queue row of the thread of event i counts it.
Covered(i) == queue[events[i].thread] # Absent /\ queue[events[i].thread].last >= i

\* Every event of id is counted.
Counted(id) == \A i \in DOMAIN events : events[i].id = id => Covered(i)

\* The way of a message: command, event, projections.
BusInv ==
  /\ \A id \in Ids : <<"command", id>> \in sent => cmds[id] # Undrawn /\ cmds[id].kind # "docs_sync"
  /\ \A id \in Ids : <<"command", id>> \in done => <<"event", id>> \in sent
  /\ \A id \in Ids : <<"event", id>> \in sent => <<"command", id>> \in done /\ EventExists(id)
  /\ \A id \in Ids : <<"event", id>> \in done => \A n \in 1..3 : <<n, id>> \in applied
  /\ \A id \in Ids, n \in 1..3 : <<n, id>> \in applied => <<"event", id>> \in sent
  /\ \A id \in Ids : <<2, id>> \in applied => Counted(id)

\* What a process knows of the message it handles.
WorkKnows(p) ==
  LET id == work[p].msg[2] IN
  /\ At(p, "commit") => cmds[id].kind = "open" \/ (Exists(cmds[id].thread) /\ work[p].from \in ViewRows)
  /\ work[p] \in Projecting => \A n \in 1..(work[p].nth - 1) : <<n, id>> \in applied
  /\ At(p, "record") /\ work[p].nth = 2 => Counted(id)

\* What a call knows of its thread and of the command it has drawn.
CallKnows(k) ==
  /\ k.pc \in {"answer", "docs"} => Exists(k.thread)
  /\ k.pc = "open" => /\ k.id \in Ids /\ cmds[k.id] # Undrawn
                      /\ cmds[k.id].kind = "open" /\ cmds[k.id].thread = k.thread
                      /\ <<"command", k.id>> \notin sent

\* Event i has not been through the statistics.
Unshown(i) ==
  /\ <<3, events[i].id>> \notin applied
  /\ \A p \in Procs : ~(At(p, "record") /\ work[p].nth = 3 /\ work[p].msg = <<"event", events[i].id>>)

\* Statistics that are behind are owed a refresh, by an event of a command or by the
\* first command of a thread that has had none.
Owed(k) ==
  \E t \in Threads :
    /\ TicketOf[t] = k /\ Exists(t)
    /\ \/ \E i \in DOMAIN events : events[i].thread = t /\ ByMessage(i) /\ Unshown(i)
       \/ \A i \in DOMAIN events : events[i].thread = t => ~ByMessage(i)

StatsInv == \A k \in Tickets : stats[k] # StatRows(k) => Owed(k)

TypeInv == StoreTypes /\ DerivedTypes /\ BusTypes /\ OtherTypes

IInv ==
  /\ TypeInv /\ StoreInv /\ BusInv /\ StatsInv
  /\ \A p \in Procs : WorkKnows(p)
  /\ \A k \in calls : CallKnows(k)

-----------------------------------------------------------------------------
(* Rows, events and calls *)

LEMMA Smallest ==
  ASSUME NEW S, S \subseteq Nat, S # {}
  PROVE  \E x \in S : \A y \in S : x <= y
<1>1. PICK x \in S : \A y \in S : ~ (<<y, x>> \in OpToRel(<, Nat))
  BY WFMin, NatLessThanWellFounded
<1>2. \A y \in S : ~ (y < x)
  BY <1>1 DEF OpToRel
<1> QED BY <1>2

LEMMA AbsentIsNone == Absent \notin Rows /\ Absent \notin ViewRows
  BY DEF Absent, Rows, ViewRows, None, ForumStates

LEMMA UndrawnIsNone == Undrawn \notin Command
<1>1. Undrawn.id = 0 /\ 0 \notin Ids
  BY DEF Undrawn, Ids
<1> QED BY <1>1 DEF Command

LEMMA IdleIsNone == Idle \notin Applying \union Publishing \union Projecting /\ Idle.pc = "idle"
  BY DEF Idle, Applying, Publishing, Projecting

\* The number that LastOf names is the greatest of those it looks at.
LEMMA Latest ==
  ASSUME events \in Seq(Entries), NEW t, NEW S
  PROVE  /\ LastOf(t, S) \in 0..Len(events)
         /\ \A i \in SeqsOf(t, S) : i <= LastOf(t, S)
         /\ SeqsOf(t, S) # {} => LastOf(t, S) \in SeqsOf(t, S)
<1> DEFINE N == SeqsOf(t, S)
<1>1. N \subseteq 1..Len(events) /\ Len(events) \in Nat
  BY DEF SeqsOf
<1>2. CASE N = {}
  BY <1>1, <1>2 DEF LastOf
<1>3. CASE N # {}
  <2>1. {Len(events) - i : i \in N} \subseteq Nat /\ {Len(events) - i : i \in N} # {}
    BY <1>1, <1>3
  <2>2. PICK x \in {Len(events) - i : i \in N} : \A y \in {Len(events) - i : i \in N} : x <= y
    BY <2>1, Smallest
  <2>3. \E i \in N : \A j \in N : j <= i
    <3>1. PICK i \in N : x = Len(events) - i
      OBVIOUS
    <3>2. ASSUME NEW j \in N PROVE j <= i
      <4>1. x <= Len(events) - j
        BY <2>2
      <4> HIDE DEF N
      <4> QED BY <1>1, <3>1, <4>1
    <3> QED BY <3>2
  <2>4. LastOf(t, S) = CHOOSE i \in N : \A j \in N : j <= i
    BY <1>3 DEF LastOf
  <2> QED BY <1>1, <2>3, <2>4
<1> QED BY <1>2, <1>3

\* Where a handler is says what it has in hand.
LEMMA WorkKnown ==
  ASSUME BusTypes, NEW p \in Procs
  PROVE  /\ work[p] \in Works
         /\ At(p, "commit") \/ At(p, "stats") \/ At(p, "queue") => work[p] \in Applying
         /\ At(p, "publish") => work[p] \in Applying \union Publishing
         /\ At(p, "project") \/ At(p, "record") => work[p] \in Projecting
         /\ work[p] # Idle => /\ work[p].msg \in sent /\ work[p].msg[2] \in Ids
                              /\ work[p].msg = <<work[p].msg[1], work[p].msg[2]>>
                              /\ work[p].msg[1] = IF work[p] \in Projecting THEN "event" ELSE "command"
<1>1. work[p] \in Works /\ (work[p] # Idle => work[p].msg \in sent)
  BY DEF BusTypes
<1> QED BY <1>1 DEF Works, Idle, Applying, Publishing, Projecting, At

LEMMA Replaced ==
  ASSUME BusTypes, NEW p \in Procs, NEW w \in Works, Begin(p, w)
  PROVE  /\ work' \in [Procs -> Works] /\ work'[p] = w
         /\ \A q \in Procs : q # p => work'[q] = work[q]
  BY DEF BusTypes, Begin

\* An event is logged behind the others.
LEMMA Logged ==
  ASSUME events \in Seq(Entries), NEW e \in Entries, events' = Append(events, e)
  PROVE  /\ events' \in Seq(Entries) /\ Len(events') = Len(events) + 1
         /\ DOMAIN events' = 1..(Len(events) + 1) /\ DOMAIN events = 1..Len(events)
         /\ \A i \in DOMAIN events : i \in DOMAIN events' /\ events'[i] = events[i]
         /\ events'[Len(events) + 1] = e
         /\ \A i \in DOMAIN events' : i \in DOMAIN events \/ i = Len(events) + 1
         /\ Len(events) \in Nat /\ Len(events) + 1 \in DOMAIN events'
<1>1. /\ events' \in Seq(Entries) /\ Len(events') = Len(events) + 1
      /\ \A i \in 1..Len(events) : events'[i] = events[i]
      /\ events'[Len(events) + 1] = e
  BY AppendProperties
<1>2. DOMAIN events = 1..Len(events) /\ DOMAIN events' = 1..Len(events') /\ Len(events) \in Nat
  BY <1>1
<1> QED BY <1>1, <1>2

-----------------------------------------------------------------------------
(* Steps that draw an id *)

Issued(id, c) ==
  /\ id \in Ids /\ cmds[id] = Undrawn
  /\ c \in Command /\ c.id = id /\ Fits(c)
  /\ cmds' = [cmds EXCEPT ![id] = c]

Sends(id, c) ==
  /\ Issued(id, c) /\ c.kind # "docs_sync"
  /\ <<"command", id>> \notin sent /\ sent' = sent \union {<<"command", id>>}
  /\ UNCHANGED <<tables, done, work, faults>>

LEMMA Dispatched ==
  ASSUME NEW id, NEW kind \in Kinds, NEW t \in Threads, NEW by \in ActorTypes,
         NEW to \in ForumStates \union ForumPriorities \union Assignees \union {None},
         Fits(MakeCommand(id, kind, t, by, to)),
         Dispatch(id, kind, t, by, to), kind # "docs_sync", UNCHANGED <<tables, work, faults>>
  PROVE  /\ Sends(id, MakeCommand(id, kind, t, by, to))
         /\ MakeCommand(id, kind, t, by, to).kind = kind
         /\ MakeCommand(id, kind, t, by, to).thread = t
         /\ MakeCommand(id, kind, t, by, to).to = to
<1> DEFINE c == MakeCommand(id, kind, t, by, to)
<1>1. id \in Ids /\ cmds[id] = Undrawn /\ cmds' = [cmds EXCEPT ![id] = c]
  BY DEF Dispatch, Draw, IsNext
<1>2. c \in Command /\ c.id = id /\ c.kind = kind /\ c.thread = t /\ c.to = to
  BY <1>1 DEF MakeCommand, Command, Kinds
<1>3. <<"command", id>> \notin sent /\ sent' = sent \union {<<"command", id>>} /\ done' = done
  BY DEF Dispatch, Bus!Send
<1> HIDE DEF c
<1> QED BY <1>1, <1>2, <1>3 DEF c, Sends, Issued

\* A call that a client leaves behind.
Leaves(k) == calls' = calls \union {k} /\ k \in PlainCalls /\ Exists(k.thread)

LEMMA Plain ==
  ASSUME NEW t \in Threads, NEW by \in ActorTypes, NEW pc \in {"answer", "docs"}
  PROVE  [pc |-> pc, thread |-> t, by |-> by] \in PlainCalls
  BY DEF PlainCalls

\* What a client sends, and that it was legal at that moment.
LEMMA ClientSends ==
  ASSUME TypeInv, NEW id \in Ids, NEW t \in Threads, NEW by \in Actors,
         \/ OpenThread(id, t, by) \/ AddPost(id, t, by) \/ AssignThread(id, t, by)
         \/ ChangeState(id, t, by) \/ SetPriority(id, t, by)
         \/ CloseThread(id, t, by) \/ AnswerThread(id, t, by)
  PROVE  /\ \E c : Sends(id, c) /\ Abstract!Legal(c)
         /\ calls' = calls \/ \E k : Leaves(k)
<1> USE StoreAssumption, ServiceAssumption DEF Kinds, ClientCalls
<1>0. by \in ActorTypes
  OBVIOUS
<1>1. CASE OpenThread(id, t, by)
  <2>1. PICK q \in Priorities : Dispatch(id, "open", t, by, q)
    BY <1>1 DEF OpenThread
  <2>2. q \in ForumPriorities /\ Fits(MakeCommand(id, "open", t, by, q))
    BY DEF Fits, MakeCommand
  <2>3. /\ Sends(id, MakeCommand(id, "open", t, by, q)) /\ MakeCommand(id, "open", t, by, q).kind = "open"
    BY <1>0, <1>1, <2>1, <2>2, Dispatched DEF OpenThread
  <2> QED BY <1>1, <2>3 DEF Abstract!Legal, OpenThread
<1>2. CASE AddPost(id, t, by) \/ AnswerThread(id, t, by)
  <2> DEFINE c == MakeCommand(id, "post", t, by, None)
  <2>1. Dispatch(id, "post", t, by, None) /\ IsOpen(t) /\ UNCHANGED <<tables, work, faults>>
    BY <1>2 DEF AddPost, AnswerThread
  <2>2. Fits(c)
    BY DEF Fits, MakeCommand
  <2>3. Sends(id, c) /\ c.kind = "post" /\ c.thread = t
    BY <1>0, <2>1, <2>2, Dispatched
  <2>4. Abstract!Legal(c)
    BY <2>1, <2>3 DEF Abstract!Legal, Abstract!IsOpen, Abstract!Exists, IsOpen, Exists
  <2>5. calls' = calls \/ \E k : Leaves(k)
    <3>1. Exists([pc |-> "answer", thread |-> t, by |-> by].thread)
      BY <2>1 DEF IsOpen
    <3> QED BY <1>0, <1>2, <3>1, Plain DEF AddPost, AnswerThread, Leaves
  <2> QED BY <2>3, <2>4, <2>5
<1>3. CASE AssignThread(id, t, by)
  <2>1. PICK a \in Assignees : Dispatch(id, "assign", t, by, a)
    BY <1>3 DEF AssignThread
  <2> DEFINE c == MakeCommand(id, "assign", t, by, a)
  <2>2. Fits(c)
    BY DEF Fits, MakeCommand
  <2>3. Sends(id, c) /\ c.kind = "assign" /\ c.thread = t
    BY <1>0, <1>3, <2>1, <2>2, Dispatched DEF AssignThread
  <2>4. Abstract!Legal(c)
    BY <1>3, <2>3 DEF Abstract!Legal, Abstract!IsOpen, Abstract!Exists, AssignThread, IsOpen, Exists
  <2> QED BY <1>3, <2>3, <2>4 DEF AssignThread
<1>4. CASE ChangeState(id, t, by)
  <2>1. PICK s \in States : TransitionAllowed(views[t].state, s) /\ Dispatch(id, "state", t, by, s)
    BY <1>4 DEF ChangeState
  <2> DEFINE c == MakeCommand(id, "state", t, by, s)
  <2>2. s \in ForumStates /\ Fits(c)
    BY DEF Fits, MakeCommand
  <2>3. Sends(id, c) /\ c.kind = "state" /\ c.thread = t /\ c.to = s
    BY <1>0, <1>4, <2>1, <2>2, Dispatched DEF ChangeState
  <2>4. views[t].state \in ForumStates
    BY <1>4 DEF ChangeState, Exists, TypeInv, StoreTypes, ViewRows
  <2>5. s \in Abstract!Successors[views[t].state] \union {views[t].state}
    BY <2>1, <2>2, <2>4 DEF TransitionAllowed, Abstract!Successors, ForumStates
  <2>6. Abstract!Legal(c)
    BY <1>4, <2>3, <2>5 DEF Abstract!Legal, Abstract!Exists, ChangeState, Exists
  <2> QED BY <1>4, <2>3, <2>6 DEF ChangeState
<1>5. CASE SetPriority(id, t, by)
  <2>1. PICK q \in Priorities : Dispatch(id, "priority", t, by, q)
    BY <1>5 DEF SetPriority
  <2> DEFINE c == MakeCommand(id, "priority", t, by, q)
  <2>2. q \in ForumPriorities /\ Fits(c)
    BY DEF Fits, MakeCommand
  <2>3. Sends(id, c) /\ c.kind = "priority" /\ c.thread = t
    BY <1>0, <1>5, <2>1, <2>2, Dispatched DEF SetPriority
  <2>4. Abstract!Legal(c)
    BY <1>5, <2>3 DEF Abstract!Legal, Abstract!IsOpen, Abstract!Exists, SetPriority, IsOpen, Exists
  <2> QED BY <1>5, <2>3, <2>4 DEF SetPriority
<1>6. CASE CloseThread(id, t, by)
  <2> DEFINE c == MakeCommand(id, "close", t, by, "closed")
  <2>1. Dispatch(id, "close", t, by, "closed") /\ IsOpen(t) /\ UNCHANGED <<tables, work, faults>>
    BY <1>6 DEF CloseThread
  <2>2. "closed" \in ForumStates /\ Fits(c)
    BY DEF Fits, MakeCommand, ForumStates
  <2>3. Sends(id, c) /\ c.kind = "close" /\ c.thread = t
    BY <1>0, <2>1, <2>2, Dispatched
  <2>4. Abstract!Legal(c)
    BY <2>1, <2>3 DEF Abstract!Legal, Abstract!IsOpen, Abstract!Exists, IsOpen, Exists
  <2>5. \E k : Leaves(k)
    <3>1. Exists([pc |-> "docs", thread |-> t, by |-> by].thread)
      BY <2>1 DEF IsOpen
    <3> QED BY <1>0, <1>6, <3>1, Plain DEF CloseThread, Leaves
  <2> QED BY <2>3, <2>4, <2>5
<1> QED BY <1>1, <1>2, <1>3, <1>4, <1>5, <1>6

-----------------------------------------------------------------------------
(* What every step does *)

\* Nothing that was drawn, sent, handled, logged, shown or counted is taken back, and an
\* event that is logged has an id that no other has.
Grows ==
  /\ \A id \in Ids : cmds[id] # Undrawn => cmds'[id] = cmds[id]
  /\ sent \subseteq sent' /\ done \subseteq done' /\ applied \subseteq applied'
  /\ \A t \in Threads : Exists(t) => Exists(t)'
  /\ \A i \in DOMAIN events : i \in DOMAIN events' /\ events'[i] = events[i]
  /\ \A i \in DOMAIN events' : i \in DOMAIN events \/ ~EventExists(events'[i].id)
  /\ \A t \in Threads : queue[t] # Absent => queue'[t] # Absent /\ queue'[t].last >= queue[t].last

\* At most one process goes on, to something that it knows enough for.
WorkFollows ==
  \/ work' = work
  \/ \E p \in Procs, w \in Works :
       /\ Begin(p, w) /\ WorkKnows(p)'
       /\ w # Idle => w.msg \in sent'

\* A call that is new, or goes on, knows enough for it.
CallsFollow ==
  \A k \in calls' : k \in calls \/ (k \in PlainCalls \union SignalCalls /\ CallKnows(k)')

\* An id is sent as a command only when it is drawn for that.
SentFresh == \A id \in Ids : cmds[id] # Undrawn /\ <<"command", id>> \notin sent => <<"command", id>> \notin sent'

\* Events and what counts them stay.
LEMMA StillThere ==
  ASSUME TypeInv, StoreInv, Grows, DerivedTypes', events' \in Seq(Entries)
  PROVE  /\ \A id : EventExists(id) => EventExists(id)'
         /\ \A id : EventExists(id) /\ Counted(id) => Counted(id)'
<1>1. ASSUME NEW id, EventExists(id) PROVE EventExists(id)'
  BY <1>1 DEF EventExists, Grows
<1>2. ASSUME NEW id, EventExists(id), Counted(id), NEW i \in DOMAIN events', events'[i].id = id
      PROVE  Covered(i)'
  <2>1. i \in DOMAIN events /\ events'[i] = events[i]
    BY <1>2 DEF Grows
  <2>2. queue[events[i].thread] # Absent /\ queue[events[i].thread].last >= i
    BY <1>2, <2>1 DEF Counted, Covered
  <2>3. events[i].thread \in Threads /\ i \in Nat
    <3>1. events \in Seq(Entries)
      BY DEF TypeInv, StoreTypes
    <3>2. events[i] \in Entries /\ i \in Nat
      BY <2>1, <3>1
    <3> QED BY <3>2 DEF Entries
  <2> DEFINE t == events[i].thread
  <2>4. queue'[t] # Absent /\ queue'[t].last >= queue[t].last
    BY <2>2, <2>3 DEF Grows
  <2>5. queue[t].last \in Int /\ queue'[t].last \in Int
    BY <2>2, <2>3, <2>4 DEF TypeInv, DerivedTypes
  <2>6. queue'[t].last >= i
    BY <2>2, <2>3, <2>4, <2>5
  <2> QED BY <2>1, <2>4, <2>6 DEF Covered
<1> QED BY <1>1, <1>2 DEF Counted

\* What processes and calls know stays true.
LEMMA StillKnown ==
  ASSUME TypeInv, StoreInv, BusInv, \A p \in Procs : WorkKnows(p), \A k \in calls : CallKnows(k),
         Grows, SentFresh, WorkFollows, CallsFollow, DerivedTypes', events' \in Seq(Entries)
  PROVE  /\ \A p \in Procs : WorkKnows(p)'
         /\ \A k \in calls' : CallKnows(k)'
         /\ calls' \subseteq PlainCalls \union SignalCalls
         /\ work' \in [Procs -> Works]
         /\ \A p \in Procs : work'[p] # Idle => work'[p].msg \in sent'
<1>0. BusTypes
  BY DEF TypeInv
<1>1. ASSUME NEW p \in Procs, work'[p] = work[p] PROVE WorkKnows(p)'
  <2> SUFFICES ASSUME NEW id, id = work[p].msg[2]
               PROVE  WorkKnows(p)'
    OBVIOUS
  <2>1. /\ work[p] # Idle => work[p].msg \in sent /\ id \in Ids
        /\ work[p] \in Projecting => work[p].msg = <<"event", id>> /\ work[p] # Idle
        /\ At(p, "commit") => work[p].msg = <<"command", id>> /\ work[p] # Idle
        /\ At(p, "record") => work[p] \in Projecting
    BY <1>0, WorkKnown, IdleIsNone DEF At, Applying, Projecting
  <2>2. WorkKnows(p)
    OBVIOUS
  <2>3. At(p, "commit") => cmds'[id].kind = "open" \/ (views'[cmds'[id].thread] # Absent /\ work[p].from \in ViewRows)
    <3> SUFFICES ASSUME At(p, "commit")
                 PROVE  cmds'[id].kind = "open" \/ (views'[cmds'[id].thread] # Absent /\ work[p].from \in ViewRows)
      OBVIOUS
    <3>1. cmds'[id] = cmds[id] /\ cmds[id] \in Command
      <4>1. <<"command", id>> \in sent /\ id \in Ids
        BY <2>1
      <4>2. cmds[id] # Undrawn
        BY <4>1 DEF BusInv
      <4> QED BY <1>0, <4>1, <4>2 DEF Grows, BusTypes
    <3>2. cmds[id].thread \in Threads
      BY <3>1 DEF Command
    <3>3. cmds[id].kind = "open" \/ (Exists(cmds[id].thread) /\ work[p].from \in ViewRows)
      BY <2>2 DEF WorkKnows
    <3>4. \A t \in Threads : Exists(t) => views'[t] # Absent
      BY DEF Grows, Exists
    <3> QED BY <3>1, <3>2, <3>3, <3>4
  <2>4. work[p] \in Projecting => \A n \in 1..(work[p].nth - 1) : <<n, id>> \in applied'
    BY <2>2 DEF WorkKnows, Grows
  <2>5. At(p, "record") /\ work[p].nth = 2 => Counted(id)'
    <3>1. At(p, "record") => EventExists(id)
      BY <2>1 DEF BusInv
    <3>2. At(p, "record") /\ work[p].nth = 2 => Counted(id)
      BY <2>2 DEF WorkKnows
    <3> QED BY <3>1, <3>2, StillThere
  <2>6. At(p, "record") /\ work[p].nth = 2 => \A i \in DOMAIN events' : events'[i].id = id => Covered(i)'
    BY <2>5 DEF Counted
  <2> QED BY <1>1, <2>3, <2>4, <2>6 DEF WorkKnows, At, Counted, Exists
<1>2. /\ \A p \in Procs : WorkKnows(p)'
      /\ work' \in [Procs -> Works]
      /\ \A p \in Procs : work'[p] # Idle => work'[p].msg \in sent'
  <2>1. CASE work' = work
    BY <1>1, <2>1 DEF TypeInv, BusTypes, Grows
  <2>2. CASE work' # work
    <3>1. PICK p \in Procs, w \in Works : Begin(p, w) /\ WorkKnows(p)' /\ (w # Idle => w.msg \in sent')
      BY <2>2 DEF WorkFollows
    <3>2. work' \in [Procs -> Works] /\ work'[p] = w /\ \A q \in Procs : q # p => work'[q] = work[q]
      BY <1>0, <3>1, Replaced
    <3> QED BY <1>1, <3>1, <3>2 DEF TypeInv, BusTypes, Grows
  <2> QED BY <2>1, <2>2
<1>3. ASSUME NEW k \in calls PROVE CallKnows(k)' /\ k \in PlainCalls \union SignalCalls
  <2>1. CallKnows(k) /\ k \in PlainCalls \union SignalCalls /\ k.thread \in Threads
    BY ServiceAssumption DEF TypeInv, OtherTypes, PlainCalls, SignalCalls
  <2> QED BY <2>1 DEF CallKnows, Grows, SentFresh
<1> QED BY <1>2, <1>3 DEF CallsFollow

-----------------------------------------------------------------------------
(* The kinds of steps *)

\* A client, or a call of one, sends a command.
Sending ==
  /\ \E id \in Ids : \E c : Sends(id, c) /\ Abstract!Legal(c)
  /\ CallsFollow

\* A request to sync the documents is drawn and logged.
Noting ==
  \E id \in Ids : \E c :
    /\ Issued(id, c) /\ c.kind = "docs_sync" /\ Exists(c.thread)
    /\ ~EventExists(id) /\ Log(c, None)
    /\ UNCHANGED <<threads, posts, views, queue, stats, applied, controls, sent, done, work, faults>>
    /\ CallsFollow

\* A call draws the id of the control thread it is going to open.
Opening ==
  /\ \E id \in Ids : \E c : Issued(id, c) /\ c.kind = "open"
  /\ UNCHANGED <<tables, sent, done, work, faults>> /\ CallsFollow

\* A call goes on or ends.
Calling ==
  /\ UNCHANGED <<threads, posts, events, views, queue, stats, applied, cmds, sent, done, work>>
  /\ controls' \subseteq ControlThreads /\ faults' \in 0..MaxFaults
  /\ CallsFollow

\* A command takes effect, for a call or for the handler of its message.
Taking ==
  \E id \in Ids : \E from \in ViewRows \union {Absent} :
    /\ cmds[id] # Undrawn /\ cmds[id].kind # "docs_sync"
    /\ cmds[id].kind # "open" => Exists(cmds[id].thread) /\ from \in ViewRows
    /\ Transaction(cmds[id], from)
    /\ UNCHANGED <<cmds, sent, done, faults>>
    /\ \/ cmds[id].kind = "open" /\ <<"command", id>> \notin sent /\ UNCHANGED work
       \/ <<"command", id>> \in sent
    /\ WorkFollows /\ CallsFollow
    /\ \A p \in Procs : At(p, "record")' => work'[p] = work[p]

\* A process goes on with nothing but its own place changed.
Working ==
  /\ UNCHANGED <<threads, posts, events, views, queue, stats, applied, controls, cmds, sent, done, calls>>
  /\ faults' \in 0..MaxFaults
  /\ WorkFollows
  /\ \A i \in DOMAIN events : Unshown(i) => Unshown(i)'

\* The statistics of a ticket are computed; the process that is at it may be projecting
\* an event of the ticket.
RefreshingStats ==
  \E t \in Threads :
    /\ RefreshStats(t) /\ UNCHANGED <<cmds, sent, done, faults>>
    /\ WorkFollows /\ CallsFollow
    /\ \A i \in DOMAIN events : TicketOf[events[i].thread] # TicketOf[t] /\ Unshown(i) => Unshown(i)'

RefreshingQueue ==
  \E t \in Threads :
    /\ RefreshQueue(t) /\ UNCHANGED <<cmds, sent, done, faults>>
    /\ WorkFollows /\ CallsFollow
    /\ \A i \in DOMAIN events : Unshown(i) => Unshown(i)'

Publish ==
  \E id \in Ids :
    /\ EventExists(id) /\ <<"command", id>> \in sent
    /\ sent' = sent \union {<<"event", id>>} /\ done' = done \union {<<"command", id>>}
    /\ UNCHANGED <<tables, cmds, calls, faults>>
    /\ WorkFollows
    /\ \A i \in DOMAIN events : Unshown(i) => Unshown(i)'

\* A projection of an event is recorded, and the message is handled with the last one.
Projected ==
  \E id \in Ids, n \in 1..3 :
    /\ <<"event", id>> \in sent /\ (n = 2 => Counted(id))
    /\ applied' = applied \union {<<n, id>>}
    /\ \A j \in 1..(n - 1) : <<j, id>> \in applied
    /\ done' = done \/ (n = 3 /\ done' = done \union {<<"event", id>>})
    /\ UNCHANGED <<threads, posts, events, views, queue, stats, controls, cmds, sent, calls, faults>>
    /\ WorkFollows
    /\ \A i \in DOMAIN events : Unshown(i) => Unshown(i)'

LEMMA CallKnown ==
  ASSUME OtherTypes, NEW k \in calls
  PROVE  /\ k.thread \in Threads /\ k.by \in ActorTypes
         /\ k.pc \in {"answer", "docs"} => k \in PlainCalls
         /\ k.pc \notin {"answer", "docs"} => k \in SignalCalls
<1> QED BY ServiceAssumption DEF OtherTypes, PlainCalls, SignalCalls

LEMMA ClientStep ==
  ASSUME TypeInv, NEW id \in Ids, Client(id)
  PROVE  Sending \/ Calling
<1> USE StoreAssumption, ServiceAssumption
<1>1. ASSUME NEW t \in Threads, NEW by \in Actors,
             \/ OpenThread(id, t, by) \/ AddPost(id, t, by) \/ AssignThread(id, t, by)
             \/ ChangeState(id, t, by) \/ SetPriority(id, t, by)
             \/ CloseThread(id, t, by) \/ AnswerThread(id, t, by)
      PROVE  Sending
  <2>1. PICK c : Sends(id, c) /\ Abstract!Legal(c)
    BY <1>1, ClientSends
  <2>2. views' = views
    BY <2>1 DEF Sends, tables
  <2>3. CallsFollow
    <3>1. CASE calls' = calls
      BY <3>1 DEF CallsFollow
    <3>2. ASSUME NEW k, Leaves(k) PROVE CallsFollow
      <4>1. CallKnows(k)'
        BY <2>2, <3>2 DEF Leaves, CallKnows, Exists, PlainCalls
      <4> QED BY <3>2, <4>1 DEF Leaves, CallsFollow
    <3> QED BY <1>1, <3>1, <3>2, ClientSends
  <2> QED BY <2>1, <2>3 DEF Sending
<1>2. ASSUME NEW t \in ControlThreads, NEW by \in Actors, Signal(t, by) PROVE Calling
  <2> DEFINE k == [pc |-> "ensure", thread |-> t, by |-> by, id |-> 0]
  <2>1. k \in SignalCalls /\ k.pc = "ensure"
    BY DEF SignalCalls
  <2>2. calls' = calls \union {k} /\ UNCHANGED <<tables, cmds, sent, done, work, faults>>
    BY <1>2 DEF Signal
  <2>3. CallKnows(k)'
    BY <2>1 DEF CallKnows
  <2>4. CallsFollow
    BY <2>1, <2>2, <2>3 DEF CallsFollow
  <2>5. controls' \subseteq ControlThreads /\ faults' \in 0..MaxFaults
    BY <2>2 DEF tables, TypeInv, DerivedTypes, OtherTypes
  <2> QED BY <2>2, <2>4, <2>5 DEF Calling, tables
<1> QED BY <1>1, <1>2 DEF Client

LEMMA Advanced ==
  ASSUME OtherTypes, NEW k \in calls, k \in SignalCalls, NEW pc \in {"open_stats", "open_queue", "map", "signal"},
         Advance(k, pc)
  PROVE  CallsFollow
<1> DEFINE w == [k EXCEPT !.pc = pc]
<1>1. w \in SignalCalls /\ w.pc = pc
  BY DEF SignalCalls
<1>2. calls' = (calls \ {k}) \union {w}
  BY DEF Advance
<1>3. CallKnows(w)'
  BY <1>1 DEF CallKnows
<1> QED BY <1>1, <1>2, <1>3 DEF CallsFollow

LEMMA CallStep ==
  ASSUME TypeInv, BusInv, NEW k \in calls, CallKnows(k), NEW id \in Ids, Continue(k, id)
  PROVE  Sending \/ Noting \/ Opening
<1> USE StoreAssumption, ServiceAssumption
<1>0. k.thread \in Threads /\ k.by \in ActorTypes
  BY CallKnown DEF TypeInv
<1>1. CASE AnswerState(k, id)
  <2> DEFINE c == MakeCommand(id, "state", k.thread, k.by, "answered")
             w == [k EXCEPT !.pc = "docs"]
  <2>1. /\ Dispatch(id, "state", k.thread, k.by, "answered") /\ k.pc = "answer"
        /\ calls' = (calls \ {k}) \union {w} /\ UNCHANGED <<tables, work, faults>>
    BY <1>1 DEF AnswerState
  <2>2. Fits(c) /\ "state" \in Kinds /\ "answered" \in ForumStates
    BY DEF Fits, MakeCommand, Kinds, ClientCalls, ForumStates
  <2>3. Sends(id, c) /\ c.kind = "state" /\ c.thread = k.thread /\ c.to = "answered"
    BY <1>0, <2>1, <2>2, Dispatched
  <2>4. Exists(k.thread)
    BY <2>1 DEF CallKnows
  <2>5. Abstract!Legal(c)
    BY <2>3, <2>4 DEF Abstract!Legal, Abstract!Exists, Exists
  <2>6. w \in PlainCalls /\ w.thread = k.thread /\ w.pc = "docs"
    BY <2>1, CallKnown DEF TypeInv, PlainCalls
  <2>7. CallKnows(w)'
    <3>1. views' = views
      BY <2>1 DEF tables
    <3> HIDE DEF w
    <3> QED BY <2>4, <2>6, <3>1 DEF CallKnows, Exists
  <2>8. CallsFollow
    BY <2>1, <2>6, <2>7 DEF CallsFollow
  <2> QED BY <2>3, <2>5, <2>8 DEF Sending
<1>2. CASE DocsSync(k, id)
  <2> DEFINE c == MakeCommand(id, "docs_sync", k.thread, k.by, None)
  <2>1. /\ k.pc = "docs" /\ Draw(id, c) /\ AppendIntegration(id, k.thread, k.by)
        /\ calls' = calls \ {k} /\ UNCHANGED <<sent, done, work, faults>>
    BY <1>2 DEF DocsSync
  <2>2. c \in Command /\ c.id = id /\ c.kind = "docs_sync" /\ c.thread = k.thread /\ c.by = k.by /\ c.to = None
    BY <1>0 DEF Command, MakeCommand
  <2>3. Issued(id, c)
    <3> HIDE DEF c
    <3> QED BY <2>1, <2>2 DEF Issued, Draw, IsNext, Fits
  <2>4. Log(c, None) /\ ~EventExists(id)
        /\ UNCHANGED <<threads, posts, views, queue, stats, applied, controls>>
    BY <2>1 DEF AppendIntegration, Log, MakeCommand
  <2>5. Exists(c.thread)
    BY <2>1, <2>2 DEF CallKnows
  <2>6. CallsFollow
    BY <2>1 DEF CallsFollow
  <2> QED BY <2>1, <2>2, <2>3, <2>4, <2>5, <2>6 DEF Noting
<1>3. CASE EnsureOpen(k, id)
  <2> DEFINE c == MakeCommand(id, "open", k.thread, "system", "normal")
             w == [k EXCEPT !.pc = "open", !.id = id]
  <2>1. /\ k.pc = "ensure" /\ Draw(id, c) /\ calls' = (calls \ {k}) \union {w}
        /\ UNCHANGED <<tables, sent, done, work, faults>>
    BY <1>3 DEF EnsureOpen
  <2>2. c \in Command /\ c.id = id /\ c.kind = "open" /\ c.thread = k.thread /\ c.to = "normal"
    BY <1>0 DEF Command, MakeCommand, ClientCalls, ForumPriorities, ActorTypes
  <2>3. Issued(id, c)
    <3> HIDE DEF c
    <3> QED BY <2>1, <2>2 DEF Issued, Draw, IsNext, Fits, ForumPriorities
  <2>4. w \in SignalCalls /\ w.thread = k.thread /\ w.pc = "open" /\ w.id = id
    <3>1. k \in SignalCalls
      BY <2>1, CallKnown DEF TypeInv
    <3>2. id \in 0..NumIds
      BY DEF Ids
    <3> QED BY <3>1, <3>2 DEF SignalCalls
  <2>6. <<"command", id>> \notin sent
    BY <2>3 DEF Issued, BusInv
  <2>7. Opening
    <3>1. cmds'[id] = c /\ c # Undrawn /\ sent' = sent
      <4> HIDE DEF c
      <4> QED BY <2>1, <2>2, <2>3, UndrawnIsNone DEF Issued, TypeInv, BusTypes
    <3>2. CallKnows(w)'
      <4> HIDE DEF c, w
      <4> QED BY <2>2, <2>4, <2>6, <3>1 DEF CallKnows
    <3>3. CallsFollow
      BY <2>1, <2>4, <3>2 DEF CallsFollow
    <3> QED BY <2>1, <2>2, <2>3, <3>3 DEF Opening
  <2> QED BY <2>7
<1>4. CASE SignalPost(k, id)
  <2> DEFINE c == MakeCommand(id, "signal", k.thread, k.by, None)
  <2>1. /\ Dispatch(id, "signal", k.thread, k.by, None)
        /\ calls' = calls \ {k} /\ UNCHANGED <<tables, work, faults>>
    BY <1>4 DEF SignalPost
  <2>2. Fits(c) /\ "signal" \in Kinds
    BY DEF Fits, MakeCommand, Kinds, ClientCalls
  <2>3. Sends(id, c) /\ c.kind = "signal"
    BY <1>0, <2>1, <2>2, Dispatched
  <2>4. Abstract!Legal(c)
    BY <2>3 DEF Abstract!Legal
  <2>5. CallsFollow
    BY <2>1 DEF CallsFollow
  <2> QED BY <2>3, <2>4, <2>5 DEF Sending
<1> QED BY <1>1, <1>2, <1>3, <1>4 DEF Continue

\* A call that makes a control thread: each of its statements, or its death.
LEMMA EnsureStep ==
  ASSUME TypeInv, StoreInv, NEW k \in calls, CallKnows(k), Ensure(k) \/ CallDies(k)
  PROVE  Calling \/ Taking \/ RefreshingStats \/ RefreshingQueue
<1> USE StoreAssumption, ServiceAssumption
<1>0. k.thread \in Threads /\ controls \subseteq ControlThreads /\ faults \in 0..MaxFaults
  BY CallKnown DEF TypeInv, DerivedTypes, OtherTypes
<1>1. CASE EnsureFound(k)
  <2>1. PICK pc \in {"signal", "map"} : Advance(k, pc)
    BY <1>1 DEF EnsureFound
  <2>2. k \in SignalCalls
    BY <1>1, CallKnown DEF EnsureFound, TypeInv
  <2>3. CallsFollow
    BY <2>1, <2>2, Advanced DEF TypeInv
  <2> QED BY <1>0, <1>1, <2>3 DEF EnsureFound, Calling, tables
<1>2. CASE EnsureFails(k) \/ CallDies(k)
  <2>1. CallsFollow
    BY <1>2 DEF CallsFollow, EnsureFails, CallDies
  <2>2. faults' \in 0..MaxFaults
    BY <1>0, <1>2 DEF EnsureFails, CallDies
  <2> QED BY <1>0, <1>2, <2>1, <2>2 DEF EnsureFails, CallDies, Calling, tables
<1>3. CASE EnsureInsert(k)
  <2>1. k.pc = "open" /\ Transaction(cmds[k.id], Absent) /\ Advance(k, "open_stats")
        /\ UNCHANGED <<cmds, sent, done, work, faults>>
    BY <1>3 DEF EnsureInsert
  <2>2. k.id \in Ids /\ cmds[k.id] # Undrawn /\ cmds[k.id].kind = "open" /\ <<"command", k.id>> \notin sent
    BY <2>1 DEF CallKnows
  <2>3. CallsFollow
    BY <2>1, CallKnown, Advanced DEF TypeInv
  <2> QED BY <2>1, <2>2, <2>3 DEF Taking, WorkFollows, At
<1>4. CASE EnsureStats(k)
  <2>1. k.pc = "open_stats" /\ RefreshStats(k.thread) /\ Advance(k, "open_queue")
        /\ UNCHANGED <<cmds, sent, done, work, faults>>
    BY <1>4 DEF EnsureStats
  <2>2. CallsFollow
    BY <2>1, CallKnown, Advanced DEF TypeInv
  <2>3. \A i \in DOMAIN events : Unshown(i) => Unshown(i)'
    BY <2>1 DEF RefreshStats, Unshown, At
  <2> QED BY <1>0, <2>1, <2>2, <2>3 DEF RefreshingStats, WorkFollows
<1>5. CASE EnsureQueue(k)
  <2>1. k.pc = "open_queue" /\ RefreshQueue(k.thread) /\ Advance(k, "map")
        /\ UNCHANGED <<cmds, sent, done, work, faults>>
    BY <1>5 DEF EnsureQueue
  <2>2. CallsFollow
    BY <2>1, CallKnown, Advanced DEF TypeInv
  <2>3. \A i \in DOMAIN events : Unshown(i) => Unshown(i)'
    BY <2>1 DEF RefreshQueue, Unshown, At
  <2> QED BY <1>0, <2>1, <2>2, <2>3 DEF RefreshingQueue, WorkFollows
<1>6. CASE EnsureMap(k)
  <2>1. k.pc = "map" /\ UpsertControl(k.thread) /\ Advance(k, "signal")
        /\ UNCHANGED <<cmds, sent, done, work, faults>>
    BY <1>6 DEF EnsureMap
  <2>2. CallsFollow
    BY <2>1, CallKnown, Advanced DEF TypeInv
  <2>3. k.thread \in ControlThreads
    BY <2>1, CallKnown DEF TypeInv, SignalCalls
  <2> QED BY <1>0, <2>1, <2>2, <2>3 DEF UpsertControl, Calling
<1> QED BY <1>1, <1>2, <1>3, <1>4, <1>5, <1>6 DEF Ensure

LEMMA Went ==
  ASSUME BusTypes, NEW p \in Procs, NEW pc, Goto(p, pc)
  PROVE  Begin(p, [work[p] EXCEPT !.pc = pc])
  BY DEF BusTypes, Goto, Begin

\* A process that is not at a commit or a projection has nothing to know.
LEMMA Placed ==
  ASSUME BusTypes, NEW p \in Procs, NEW w \in {Idle} \union Applying \union Publishing,
         Begin(p, w), w.pc # "commit"
  PROVE  WorkKnows(p)'
<1>1. w \in Works /\ w \notin Projecting /\ w.pc # "record"
  BY DEF Works, Idle, Applying, Publishing, Projecting
<1>2. work'[p] = w
  BY <1>1, Replaced
<1> QED BY <1>1, <1>2 DEF WorkKnows, At

LEMMA StillUnshown ==
  ASSUME BusTypes, NEW p \in Procs, NEW w \in Works, Begin(p, w), events' = events, applied' = applied,
         NEW i \in DOMAIN events, Unshown(i),
         ~(w.pc = "record" /\ w.nth = 3 /\ w.msg = <<"event", events[i].id>>)
  PROVE  Unshown(i)'
<1>1. work'[p] = w /\ \A q \in Procs : q # p => work'[q] = work[q]
  BY Replaced
<1> QED BY <1>1 DEF Unshown, At

LEMMA ReceiveStep ==
  ASSUME TypeInv, StoreInv, BusInv, NEW p \in Procs, NEW m \in Messages, Receive(p, m)
  PROVE  Working
<1>0. BusTypes /\ controls \subseteq ControlThreads /\ faults \in 0..MaxFaults
  BY DEF TypeInv, OtherTypes, DerivedTypes
<1>1. PICK kind \in {"command", "event"}, id \in Ids : m = <<kind, id>> /\ m[1] = kind /\ m[2] = id
  BY DEF Messages
<1>2. ASSUME Deliver(p, m) PROVE m \in sent /\ faults' \in 0..MaxFaults
  BY <1>0, <1>2, ServiceAssumption DEF Deliver
<1>3. CASE HandleCommand(p, id) /\ kind = "command"
  <2>1. Deliver(p, <<"command", id>>) /\ UNCHANGED <<tables, cmds, sent, done, calls>>
    BY <1>3 DEF HandleCommand
  <2>2. <<"command", id>> \in sent /\ faults' \in 0..MaxFaults
    BY <1>1, <1>2, <1>3, <2>1
  <2>3. PICK w \in Works : Begin(p, w) /\ w.msg = <<"command", id>> /\ WorkKnows(p)' /\ w.pc # "record"
    <3>1. CASE EventExists(id) /\ Begin(p, [pc |-> "publish", msg |-> <<"command", id>>])
      <4> DEFINE w == [pc |-> "publish", msg |-> <<"command", id>>]
      <4>1. w \in Publishing /\ w \in Works /\ w.pc = "publish" /\ w.msg = <<"command", id>>
        BY DEF Publishing, Works
      <4> HIDE DEF w
      <4>2. WorkKnows(p)'
        BY <1>0, <3>1, <4>1, Placed DEF w
      <4> QED BY <3>1, <4>1, <4>2 DEF w
    <3>2. CASE ~EventExists(id)
      <4> DEFINE row == IF cmds[id].kind = "open" THEN Absent ELSE views[cmds[id].thread]
      <4>0. cmds[id].kind = "open" \/ Exists(cmds[id].thread)
        BY <1>3, <3>2 DEF HandleCommand
      <4>1. cmds[id] # Undrawn /\ cmds[id] \in Command /\ cmds[id].thread \in Threads
        <5>1. cmds[id] # Undrawn
          BY <2>2 DEF BusInv
        <5> QED BY <1>0, <5>1 DEF BusTypes, Command
      <4>2. row \in ViewRows \union {Absent} /\ (cmds[id].kind # "open" => row \in ViewRows)
        BY <4>0, <4>1 DEF Exists, TypeInv, StoreTypes
      <4> HIDE DEF row
      <4> DEFINE w == [pc |-> "commit", msg |-> <<"command", id>>, from |-> row]
      <4>3. Begin(p, w)
        BY <1>3, <3>2 DEF HandleCommand, row
      <4>4. w \in Applying /\ w.pc = "commit" /\ w.msg = <<"command", id>> /\ w.msg[2] = id /\ w.from = row
        BY <4>2 DEF Applying
      <4>5. w \in Works /\ w \notin Projecting
        BY <4>4 DEF Works, Applying, Projecting
      <4> HIDE DEF w
      <4>6. work'[p] = w
        BY <1>0, <4>3, <4>5, Replaced
      <4>7. WorkKnows(p)'
        <5>1. cmds' = cmds /\ views' = views
          BY <2>1 DEF tables
        <5> QED BY <4>0, <4>2, <4>4, <4>5, <4>6, <5>1 DEF WorkKnows, At, Exists
      <4> QED BY <4>3, <4>4, <4>5, <4>7
    <3> QED BY <1>3, <3>1, <3>2 DEF HandleCommand
  <2>4. \A i \in DOMAIN events : Unshown(i) => Unshown(i)'
    <3>1. events' = events /\ applied' = applied
      BY <2>1 DEF tables
    <3> QED BY <1>0, <2>3, <3>1, StillUnshown
  <2>5. WorkFollows
    BY <2>1, <2>2, <2>3 DEF WorkFollows
  <2> QED BY <2>1, <2>2, <2>4, <2>5 DEF Working, tables
<1>4. CASE HandleEvent(p, id) /\ kind = "event"
  <2> DEFINE w == [pc |-> "project", msg |-> <<"event", id>>, nth |-> 1]
  <2>1. Deliver(p, <<"event", id>>) /\ Begin(p, w) /\ UNCHANGED <<tables, cmds, sent, done, calls>>
    BY <1>4 DEF HandleEvent
  <2>2. <<"event", id>> \in sent /\ faults' \in 0..MaxFaults
    BY <1>1, <1>2, <1>4, <2>1
  <2>3. w \in Projecting /\ w \in Works /\ w.pc = "project" /\ w.nth = 1 /\ w.msg = <<"event", id>>
    BY DEF Projecting, Works
  <2> HIDE DEF w
  <2>4. work'[p] = w
    BY <1>0, <2>1, <2>3, Replaced
  <2>5. WorkKnows(p)'
    BY <2>3, <2>4 DEF WorkKnows, At
  <2>6. \A i \in DOMAIN events : Unshown(i) => Unshown(i)'
    <3>1. events' = events /\ applied' = applied
      BY <2>1 DEF tables
    <3> QED BY <1>0, <2>1, <2>3, <3>1, StillUnshown
  <2>7. WorkFollows
    BY <2>1, <2>2, <2>3, <2>5 DEF WorkFollows
  <2> QED BY <2>1, <2>2, <2>6, <2>7 DEF Working, tables
<1> QED BY <1>1, <1>3, <1>4 DEF Receive

\* The view that a projection computes is the one that is there.
LEMMA ViewStays ==
  ASSUME TypeInv, StoreInv, NEW t \in Threads, RefreshView(t)
  PROVE  UNCHANGED <<threads, posts, events, views, queue, stats, applied, controls>>
<1>1. threads[t] # Absent => views[t] = ViewRow(t)
  BY DEF StoreInv, ViewsFollow
<1>2. views' = views
  BY <1>1 DEF RefreshView, TypeInv, StoreTypes
<1> QED BY <1>2 DEF RefreshView

\* The queue row that is computed counts every event of the thread.
LEMMA QueueCounts ==
  ASSUME TypeInv, StoreInv, NEW t \in Threads, RefreshQueue(t)
  PROVE  /\ \A i \in DOMAIN events : events[i].thread = t => Covered(i)'
         /\ events' = events
         /\ \A s \in Threads : s # t => queue'[s] = queue[s]
         /\ queue'[t] = queue[t] \/ (queue'[t] = QueueRow(t) /\ threads[t] # Absent)
         /\ DOMAIN queue' = Threads
<1>1. events \in Seq(Entries) /\ DOMAIN queue = Threads
  BY DEF TypeInv, StoreTypes, DerivedTypes
<1>2. events' = events /\ queue' = IF threads[t] = Absent THEN queue ELSE [queue EXCEPT ![t] = QueueRow(t)]
  BY DEF RefreshQueue
<1>3. ASSUME NEW i \in DOMAIN events, events[i].thread = t PROVE Covered(i)'
  <2>1. Exists(t)
    BY <1>3 DEF StoreInv
  <2>2. threads[t] # Absent
    BY <2>1 DEF StoreInv
  <2>3. queue'[t] = QueueRow(t)
    BY <1>1, <1>2, <2>2
  <2>4. events[i].by \in ActorTypes
    <3>1. events[i] \in Entries
      BY <1>1
    <3> QED BY <3>1 DEF Entries
  <2>5. i \in SeqsOf(t, ActorTypes)
    BY <1>3, <2>4 DEF SeqsOf
  <2>6. i <= LastOf(t, ActorTypes)
    BY <1>1, <2>5, Latest
  <2>7. LastOf(t, ActorTypes) \in Int /\ i \in Int
    BY <1>1, Latest
  <2>8. queue'[t].last >= i
    BY <2>3, <2>6, <2>7 DEF QueueRow
  <2>9. queue'[t] # Absent
    <3>1. QueueRow(t).state = threads[t].state /\ threads[t].state \in ForumStates
      BY <2>2 DEF QueueRow, TypeInv, StoreTypes, Rows
    <3> QED BY <2>3, <3>1 DEF Absent, None, ForumStates
  <2> QED BY <1>2, <1>3, <2>8, <2>9 DEF Covered
<1>4. /\ \A s \in Threads : s # t => queue'[s] = queue[s]
      /\ queue'[t] = queue[t] \/ (queue'[t] = QueueRow(t) /\ threads[t] # Absent)
      /\ DOMAIN queue' = Threads
  BY <1>1, <1>2
<1> QED BY <1>2, <1>3, <1>4

LEMMA HandlerStep ==
  ASSUME TypeInv, StoreInv, BusInv, NEW p \in Procs, WorkKnows(p),
         Commit(p) \/ CommitFails(p) \/ HandlerStats(p) \/ HandlerQueue(p) \/ HandlerPublish(p) \/ Crash(p)
  PROVE  Working \/ Taking \/ RefreshingStats \/ RefreshingQueue \/ Publish
<1> DEFINE id == work[p].msg[2]
<1>0. BusTypes /\ controls \subseteq ControlThreads /\ faults \in 0..MaxFaults
  BY DEF TypeInv, OtherTypes, DerivedTypes
<1>a. Idle \in Works /\ Idle \in {Idle} \union Applying \union Publishing /\ Idle.pc = "idle"
  BY IdleIsNone DEF Works
<1>b. ASSUME Begin(p, Idle) PROVE WorkFollows /\ WorkKnows(p)'
  BY <1>0, <1>a, <1>b, Placed DEF WorkFollows
<1>c. ASSUME Begin(p, Idle), events' = events, applied' = applied
      PROVE  \A i \in DOMAIN events : Unshown(i) => Unshown(i)'
  BY <1>0, <1>a, <1>c, StillUnshown
<1>d. ASSUME NEW pc \in {"stats", "queue", "publish"}, work[p] \in Applying, work[p] # Idle, Goto(p, pc), sent' = sent
      PROVE  /\ WorkFollows /\ \A q \in Procs : At(q, "record")' => work'[q] = work[q]
             /\ events' = events /\ applied' = applied => \A i \in DOMAIN events : Unshown(i) => Unshown(i)'
  <2> DEFINE w == [work[p] EXCEPT !.pc = pc]
  <2>1. w \in Applying /\ w.pc = pc /\ w.msg = work[p].msg
    BY <1>d DEF Applying
  <2>2. Begin(p, w)
    BY <1>0, <1>d, Went
  <2> HIDE DEF w
  <2>3. w \in Works /\ WorkKnows(p)'
    BY <1>0, <2>1, <2>2, Placed DEF Works
  <2>4. w.msg \in sent
    BY <1>0, <1>d, <2>1 DEF BusTypes
  <2>5. WorkFollows
    BY <1>d, <2>2, <2>3, <2>4 DEF WorkFollows
  <2>6. events' = events /\ applied' = applied => \A i \in DOMAIN events : Unshown(i) => Unshown(i)'
    BY <1>0, <2>1, <2>2, <2>3, StillUnshown
  <2>7. \A q \in Procs : At(q, "record")' => work'[q] = work[q]
    BY <1>0, <2>1, <2>2, <2>3, Replaced DEF At
  <2> QED BY <2>5, <2>6, <2>7
<1>e. ASSUME work[p] \in Applying \union Publishing
      PROVE  /\ id \in Ids /\ work[p].msg = <<"command", id>> /\ <<"command", id>> \in sent /\ work[p] # Idle
             /\ cmds[id] # Undrawn /\ cmds[id].kind # "docs_sync" /\ cmds[id].thread \in Threads
  <2>1. work[p] # Idle /\ work[p] \notin Projecting
    BY <1>e, IdleIsNone DEF Applying, Publishing, Projecting
  <2>2. id \in Ids /\ work[p].msg = <<"command", id>> /\ <<"command", id>> \in sent
    BY <1>0, <2>1, WorkKnown
  <2>3. cmds[id] # Undrawn /\ cmds[id].kind # "docs_sync"
    BY <2>2 DEF BusInv
  <2> QED BY <1>0, <2>1, <2>2, <2>3 DEF BusTypes, Command
<1> HIDE DEF id
<1>1. CASE Commit(p)
  <2> DEFINE next == IF CommandOf(p).kind \in {"post", "signal", "assign"} THEN "queue" ELSE "stats"
  <2>1. At(p, "commit") /\ Transaction(cmds[id], work[p].from) /\ Goto(p, next)
        /\ UNCHANGED <<cmds, sent, done, calls, faults>>
    BY <1>1 DEF Commit, CommandOf, id
  <2> HIDE DEF next
  <2>2. next \in {"stats", "queue", "publish"}
    BY DEF next
  <2>3. work[p] \in Applying
    BY <1>0, <2>1, WorkKnown
  <2>4. WorkFollows /\ \A q \in Procs : At(q, "record")' => work'[q] = work[q]
    BY <1>d, <1>e, <2>1, <2>2, <2>3
  <2>5. CallsFollow
    BY <2>1 DEF CallsFollow
  <2>6. cmds[id].kind # "open" => Exists(cmds[id].thread) /\ work[p].from \in ViewRows
    BY <2>1 DEF WorkKnows, id
  <2>7. work[p].from \in ViewRows \union {Absent}
    BY <2>3 DEF Applying
  <2> QED BY <1>e, <2>1, <2>3, <2>4, <2>5, <2>6, <2>7 DEF Taking
<1>2. CASE CommitFails(p)
  <2>1. Begin(p, Idle) /\ UNCHANGED <<tables, cmds, sent, done, calls, faults>>
    BY <1>2 DEF CommitFails
  <2> QED BY <1>0, <1>b, <1>c, <2>1 DEF Working, tables
<1>3. CASE Crash(p)
  <2>1. Begin(p, Idle) /\ UNCHANGED <<tables, cmds, sent, done, calls>> /\ faults' \in 0..MaxFaults
    BY <1>0, <1>3, ServiceAssumption DEF Crash
  <2> QED BY <1>0, <1>b, <1>c, <2>1 DEF Working, tables
<1>4. CASE HandlerStats(p)
  <2>1. At(p, "stats") /\ RefreshStats(cmds[id].thread) /\ Goto(p, "queue")
        /\ UNCHANGED <<cmds, sent, done, calls, faults>>
    BY <1>4 DEF HandlerStats, CommandOf, id
  <2>2. work[p] \in Applying
    BY <1>0, <2>1, WorkKnown
  <2>3. events' = events /\ applied' = applied
    BY <2>1 DEF RefreshStats
  <2>4. WorkFollows /\ \A i \in DOMAIN events : Unshown(i) => Unshown(i)'
    BY <1>d, <1>e, <2>1, <2>2, <2>3
  <2>5. CallsFollow
    BY <2>1 DEF CallsFollow
  <2> QED BY <1>e, <2>1, <2>2, <2>4, <2>5 DEF RefreshingStats
<1>5. CASE HandlerQueue(p)
  <2>1. At(p, "queue") /\ RefreshQueue(cmds[id].thread) /\ Goto(p, "publish")
        /\ UNCHANGED <<cmds, sent, done, calls, faults>>
    BY <1>5 DEF HandlerQueue, CommandOf, id
  <2>2. work[p] \in Applying
    BY <1>0, <2>1, WorkKnown
  <2>3. events' = events /\ applied' = applied
    BY <2>1 DEF RefreshQueue
  <2>4. WorkFollows /\ \A i \in DOMAIN events : Unshown(i) => Unshown(i)'
    BY <1>d, <1>e, <2>1, <2>2, <2>3
  <2>5. CallsFollow
    BY <2>1 DEF CallsFollow
  <2> QED BY <1>e, <2>1, <2>2, <2>4, <2>5 DEF RefreshingQueue
<1>6. CASE HandlerPublish(p)
  <2>1. /\ At(p, "publish") /\ EventExists(id) /\ sent' = sent \union {<<"event", id>>}
        /\ done' = done \union {work[p].msg} /\ Begin(p, Idle)
        /\ UNCHANGED <<tables, cmds, calls, faults>>
    BY <1>6 DEF HandlerPublish, id
  <2>2. work[p] \in Applying \union Publishing
    BY <1>0, <2>1, WorkKnown
  <2>3. WorkFollows /\ \A i \in DOMAIN events : Unshown(i) => Unshown(i)'
    BY <1>b, <1>c, <2>1 DEF tables
  <2> QED BY <1>e, <2>1, <2>2, <2>3 DEF Publish
<1> QED BY <1>1, <1>2, <1>3, <1>4, <1>5, <1>6

LEMMA ProjectStep ==
  ASSUME TypeInv, StoreInv, BusInv, NEW p \in Procs, WorkKnows(p),
         Project(p) \/ ProjectSkip(p) \/ Record(p)
  PROVE  Working \/ RefreshingStats \/ RefreshingQueue \/ Projected
<1> SUFFICES ASSUME NEW id, id = work[p].msg[2], NEW n, n = work[p].nth
             PROVE  Working \/ RefreshingStats \/ RefreshingQueue \/ Projected
  OBVIOUS
<1>0. BusTypes /\ controls \subseteq ControlThreads /\ faults \in 0..MaxFaults
  BY DEF TypeInv, OtherTypes, DerivedTypes
<1>1. At(p, "project") \/ At(p, "record")
  BY DEF Project, ProjectSkip, Record
<1>2. work[p] \in Projecting /\ n \in 1..3 /\ work[p] # Idle
  BY <1>0, <1>1, WorkKnown, IdleIsNone DEF Projecting
<1>3. id \in Ids /\ work[p].msg = <<"event", id>> /\ <<"event", id>> \in sent
  BY <1>0, <1>2, WorkKnown
<1>4. \A j \in 1..(n - 1) : <<j, id>> \in applied
  BY <1>2 DEF WorkKnows
<1>5. EventExists(id) /\ cmds[id] # Undrawn /\ cmds[id].thread \in Threads
  <2>1. EventExists(id) /\ <<"command", id>> \in done
    BY <1>3 DEF BusInv
  <2>2. cmds[id] # Undrawn
    BY <1>0, <1>3, <2>1 DEF BusInv, BusTypes
  <2> QED BY <1>0, <1>3, <2>1, <2>2 DEF BusTypes, Command
<1>6. \A i \in DOMAIN events : events[i].id = id => events[i].thread = cmds[id].thread
  BY DEF StoreInv
<1>7. CASE Project(p)
  <2> DEFINE w == [work[p] EXCEPT !.pc = "record"]
  <2>1. /\ Refresh(n, cmds[id].thread) /\ Goto(p, "record") /\ UNCHANGED <<cmds, sent, done, calls, faults>>
    BY <1>7 DEF Project, CommandOf
  <2>2. w \in Projecting /\ w.pc = "record" /\ w.msg = <<"event", id>> /\ w.msg[2] = id /\ w.nth = n
    BY <1>2, <1>3 DEF Projecting
  <2>3. Begin(p, w)
    BY <1>0, <2>1, Went
  <2> HIDE DEF w
  <2>4. w \in Works /\ work'[p] = w
    BY <1>0, <2>2, <2>3, Replaced DEF Works
  <2>5. CallsFollow
    BY <2>1 DEF CallsFollow
  <2>6. ASSUME n = 2 => Counted(id)', applied' = applied PROVE WorkFollows
    <3>1. n = 2 => \A i \in DOMAIN events' : events'[i].id = id => Covered(i)'
      BY <2>6 DEF Counted
    <3>2. WorkKnows(p)'
      BY <1>4, <2>2, <2>4, <2>6, <3>1 DEF WorkKnows, At, Counted
    <3> QED BY <1>3, <2>1, <2>2, <2>3, <2>4, <3>2 DEF WorkFollows
  <2>7. CASE n = 1
    <3>1. RefreshView(cmds[id].thread)
      BY <2>1, <2>7 DEF Refresh, Projections
    <3>2. UNCHANGED <<threads, posts, events, views, queue, stats, applied, controls>>
      BY <1>5, <3>1, ViewStays
    <3>3. \A i \in DOMAIN events : Unshown(i) => Unshown(i)'
      BY <1>0, <2>2, <2>3, <2>4, <2>7, <3>2, StillUnshown
    <3> QED BY <1>0, <2>1, <2>6, <2>7, <3>2, <3>3 DEF Working
  <2>8. CASE n = 2
    <3>1. RefreshQueue(cmds[id].thread)
      BY <2>1, <2>8 DEF Refresh, Projections
    <3>2. events' = events /\ applied' = applied
      BY <3>1 DEF RefreshQueue
    <3>3. Counted(id)'
      <4>1. \A i \in DOMAIN events : events[i].thread = cmds[id].thread => Covered(i)'
        BY <1>5, <3>1, QueueCounts
      <4> QED BY <1>6, <3>2, <4>1 DEF Counted
    <3>4. \A i \in DOMAIN events : Unshown(i) => Unshown(i)'
      BY <1>0, <2>2, <2>3, <2>4, <2>8, <3>2, StillUnshown
    <3> QED BY <1>5, <2>1, <2>5, <2>6, <3>1, <3>2, <3>3, <3>4 DEF RefreshingQueue
  <2>9. CASE n = 3
    <3>1. RefreshStats(cmds[id].thread)
      BY <2>1, <2>9 DEF Refresh, Projections
    <3>2. events' = events /\ applied' = applied
      BY <3>1 DEF RefreshStats
    <3>3. ASSUME NEW i \in DOMAIN events, TicketOf[events[i].thread] # TicketOf[cmds[id].thread], Unshown(i)
          PROVE  Unshown(i)'
      <4>1. events[i].id # id
        BY <1>6, <3>3
      <4> QED BY <1>0, <2>2, <2>3, <2>4, <3>2, <3>3, <4>1, StillUnshown
    <3> QED BY <1>5, <2>1, <2>5, <2>6, <2>9, <3>1, <3>2, <3>3 DEF RefreshingStats
  <2> QED BY <1>2, <2>7, <2>8, <2>9
<1>8. CASE ProjectSkip(p) \/ Record(p)
  <2>1. /\ NextProjection(p) /\ applied' = applied \union {<<n, id>>}
        /\ UNCHANGED <<threads, posts, events, views, queue, stats, controls, cmds, sent, calls, faults>>
    <3>1. CASE ProjectSkip(p)
      BY <3>1 DEF ProjectSkip, tables
    <3>2. CASE Record(p)
      BY <3>2 DEF Record, RecordProjection
    <3> QED BY <1>8, <3>1, <3>2
  <2>2. n = 2 => Counted(id)
    <3>1. CASE ProjectSkip(p)
      <4>1. <<n, id>> \in applied
        BY <3>1 DEF ProjectSkip
      <4> QED BY <1>3, <4>1 DEF BusInv
    <3>2. CASE Record(p)
      BY <3>2 DEF Record, WorkKnows
    <3> QED BY <1>8, <3>1, <3>2
  <2>3. ASSUME NEW i \in DOMAIN events, Unshown(i) PROVE <<3, events[i].id>> \notin applied'
    <3>1. CASE ProjectSkip(p)
      BY <2>3, <3>1, <2>1 DEF ProjectSkip, Unshown
    <3>2. CASE Record(p)
      <4>1. At(p, "record")
        BY <3>2 DEF Record
      <4>2. n = 3 => events[i].id # id
        BY <1>3, <2>3, <4>1 DEF Unshown
      <4> QED BY <2>1, <2>3, <4>2 DEF Unshown
    <3> QED BY <1>8, <3>1, <3>2
  <2>4. PICK w \in Works : /\ Begin(p, w) /\ w.pc # "record"
                           /\ w # Idle => w.msg = <<"event", id>>
                           /\ WorkKnows(p)'
                           /\ done' = done \/ (n = 3 /\ done' = done \union {<<"event", id>>})
    <3>1. CASE n = 3
      <4>1. Begin(p, Idle) /\ done' = done \union {<<"event", id>>}
        BY <1>3, <2>1, <3>1 DEF NextProjection, Projections
      <4>2. Idle \in Works /\ Idle \in {Idle} \union Applying \union Publishing /\ Idle.pc = "idle"
        BY IdleIsNone DEF Works
      <4> QED BY <1>0, <3>1, <4>1, <4>2, Placed
    <3>2. CASE n # 3
      <4> DEFINE v == [work[p] EXCEPT !.pc = "project"]
                 w == [v EXCEPT !.nth = n + 1]
      <4>1. Begin(p, w) /\ UNCHANGED done
        <5>1. Begin(p, [work[p] EXCEPT !.pc = "project", !.nth = n + 1]) /\ UNCHANGED done
          BY <2>1, <3>2 DEF NextProjection, Projections
        <5> QED BY <5>1
      <4>2. v \in Projecting /\ v.pc = "project" /\ v.msg = <<"event", id>> /\ v.nth = n
        BY <1>2, <1>3 DEF Projecting
      <4>3. w \in Projecting /\ w.pc = "project" /\ w.msg = <<"event", id>> /\ w.msg[2] = id /\ w.nth = n + 1
        <5> HIDE DEF v
        <5>1. n + 1 \in 1..3
          BY <1>2, <3>2
        <5> QED BY <4>2, <5>1 DEF Projecting
      <4> HIDE DEF w, v
      <4>4. w \in Works /\ work'[p] = w
        BY <1>0, <4>1, <4>3, Replaced DEF Works
      <4>5. \A j \in 1..((n + 1) - 1) : <<j, id>> \in applied'
        BY <1>2, <1>4, <2>1
      <4>6. WorkKnows(p)'
        BY <4>3, <4>4, <4>5 DEF WorkKnows, At
      <4> QED BY <4>1, <4>3, <4>4, <4>6
    <3> QED BY <3>1, <3>2
  <2>5. WorkFollows
    BY <1>3, <2>1, <2>4 DEF WorkFollows
  <2>6. ASSUME NEW i \in DOMAIN events, Unshown(i) PROVE Unshown(i)'
    <3>1. work'[p] = w /\ \A q \in Procs : q # p => work'[q] = work[q]
      BY <1>0, <2>4, Replaced
    <3>2. <<3, events'[i].id>> \notin applied' /\ events' = events
      BY <2>1, <2>3, <2>6
    <3> QED BY <2>4, <2>6, <3>1, <3>2 DEF Unshown, At
  <2> QED BY <1>2, <1>3, <1>4, <2>1, <2>2, <2>4, <2>5, <2>6 DEF Projected
<1> QED BY <1>7, <1>8

\* Every step is of one of these kinds.
LEMMA Steps ==
  ASSUME IInv, [Next]_vars
  PROVE  /\ script' = script
         /\ \/ Sending \/ Noting \/ Opening \/ Calling \/ Taking
            \/ Working \/ RefreshingStats \/ RefreshingQueue \/ Publish \/ Projected
<1> USE DEF IInv
<1>1. ASSUME UNCHANGED <<tables, cmds, sent, done, work, calls, faults>> PROVE Calling
  <2>1. CallsFollow
    BY <1>1 DEF CallsFollow
  <2> QED BY <1>1, <2>1 DEF Calling, tables, TypeInv, DerivedTypes, OtherTypes
<1>2. CASE UNCHANGED vars
  BY <1>1, <1>2 DEF vars
<1>3. CASE Next
  <2>1. script' = script
    BY <1>3 DEF Next
  <2>2. CASE \E id \in Ids : Client(id)
    BY <2>1, <2>2, ClientStep
  <2>3. CASE \E id \in Ids : \E k \in calls : Continue(k, id)
    BY <2>1, <2>3, CallStep
  <2>4. CASE \E k \in calls : Ensure(k) \/ CallDies(k)
    BY <2>1, <2>4, EnsureStep
  <2>5. CASE \E p \in Procs : Handler(p) \/ Crash(p)
    <3>1. PICK p \in Procs : Handler(p) \/ Crash(p)
      BY <2>5
    <3>2. CASE Project(p) \/ ProjectSkip(p) \/ Record(p)
      BY <2>1, <3>2, ProjectStep
    <3>3. CASE ~(Project(p) \/ ProjectSkip(p) \/ Record(p))
      <4>1. Commit(p) \/ CommitFails(p) \/ HandlerStats(p) \/ HandlerQueue(p) \/ HandlerPublish(p) \/ Crash(p)
        BY <3>1, <3>3 DEF Handler
      <4> QED BY <2>1, <4>1, HandlerStep
    <3> QED BY <3>2, <3>3
  <2>6. CASE \E p \in Procs : \E m \in Messages : Receive(p, m)
    BY <2>1, <2>6, ReceiveStep
  <2>7. CASE Rest
    BY <1>1, <2>1, <2>7 DEF Rest, vars
  <2> QED BY <1>3, <2>2, <2>3, <2>4, <2>5, <2>6, <2>7 DEF Next
<1> QED BY <1>2, <1>3

LEMMA IdIssued ==
  ASSUME BusTypes, NEW id, NEW c, Issued(id, c)
  PROVE  /\ cmds' \in [Ids -> Command \union {Undrawn}]
         /\ \A j \in Ids : cmds'[j] # Undrawn => cmds'[j].id = j /\ Fits(cmds'[j])
         /\ \A j \in Ids : cmds[j] # Undrawn => cmds'[j] = cmds[j]
         /\ cmds'[id] = c /\ c # Undrawn
         /\ \A j \in Ids : j # id => cmds'[j] = cmds[j]
<1>1. id \in Ids /\ cmds[id] = Undrawn /\ c \in Command /\ c.id = id /\ Fits(c) /\ cmds' = [cmds EXCEPT ![id] = c]
  BY DEF Issued
<1>2. cmds'[id] = c /\ \A j \in Ids : j # id => cmds'[j] = cmds[j]
  BY <1>1 DEF BusTypes
<1> QED BY <1>1, <1>2, UndrawnIsNone DEF BusTypes

LEMMA LogTyped ==
  ASSUME NEW c \in Command, NEW from \in Settings, Log(c, from)
  PROVE  \E e \in Entries : events' = Append(events, e) /\ e.id = c.id /\ e.thread = c.thread
<1> DEFINE e == [id |-> c.id, kind |-> c.kind, thread |-> c.thread, by |-> c.by, from |-> from, to |-> c.to]
<1>1. e \in Entries
  BY DEF Command, Entries, Kinds, Settings
<1>2. e.id = c.id /\ e.thread = c.thread /\ events' = Append(events, e)
  BY DEF Log
<1> HIDE DEF e
<1> QED BY <1>1, <1>2

\* What a transaction does to the thread of its command: the view stays the row that is
\* computed from the base tables, and is what ForumLog makes of it.
Effect(id, c, t) ==
  /\ \E e \in Entries : events' = Append(events, e) /\ e.id = id /\ e.thread = t
  /\ threads' \in [Threads -> {Absent} \union Rows] /\ threads'[t] \in Rows
  /\ posts' \in [Threads -> SUBSET Ids]
  /\ \A x \in posts'[t] : x \in posts[t] \/ x = id
  /\ views' \in [Threads -> {Absent} \union ViewRows] /\ views'[t] \in ViewRows
  /\ \A s \in Threads : s # t => threads'[s] = threads[s] /\ posts'[s] = posts[s] /\ views'[s] = views[s]
  /\ views'[t] = ViewRow(t)'
  /\ views' = [views EXCEPT ![t] = Abstract!After(views[t], c)]
  /\ c.kind = "open" <=> ~Exists(t)

LEMMA Transacted ==
  ASSUME TypeInv, StoreInv, NEW id \in Ids, NEW from \in ViewRows \union {Absent}, NEW c, c = cmds[id],
         c # Undrawn, c.kind # "open" => Exists(c.thread) /\ from \in ViewRows,
         Transaction(c, from), NEW t, t = c.thread
  PROVE  /\ t \in Threads /\ ~EventExists(id) /\ Effect(id, c, t)
         /\ UNCHANGED <<queue, stats, applied, controls>>
<1>1. c \in Command /\ c.id = id /\ Fits(c) /\ t \in Threads /\ ~EventExists(id)
      /\ UNCHANGED <<queue, stats, applied, controls>>
  BY DEF TypeInv, BusTypes, Command, Transaction
<1>2. /\ threads \in [Threads -> {Absent} \union Rows] /\ posts \in [Threads -> SUBSET Ids]
      /\ views \in [Threads -> {Absent} \union ViewRows]
  BY DEF TypeInv, StoreTypes
<1>3. threads[t] # Absent <=> Exists(t)
  BY <1>1 DEF StoreInv
<1>4. CASE c.kind = "open"
  <2> DEFINE row == [state |-> "new", priority |-> c.to, assignee |-> Nobody]
             view == [state |-> "new", priority |-> c.to, assignee |-> Nobody, posts |-> 1]
  <2>1. /\ threads[t] = Absent /\ threads' = [threads EXCEPT ![t] = row]
        /\ posts' = [posts EXCEPT ![t] = {id}] /\ Log(c, None) /\ views' = [views EXCEPT ![t] = view]
    BY <1>1, <1>4 DEF Transaction, InsertThread
  <2>2. row \in Rows /\ view \in ViewRows
    BY <1>1, <1>4 DEF Fits, Rows, ViewRows, ForumStates
  <2>3. threads'[t] = row /\ posts'[t] = {id} /\ views'[t] = view
    BY <1>1, <1>2, <2>1
  <2>4. \E e \in Entries : events' = Append(events, e) /\ e.id = id /\ e.thread = t
    BY <1>1, <2>1, LogTyped DEF Settings
  <2>5. Cardinality(posts'[t]) = 1
    BY <2>3, FS_Singleton
  <2>6. views'[t] = ViewRow(t)'
    BY <2>3, <2>5 DEF ViewRow
  <2>7. Abstract!After(views[t], c) = view
    BY <1>4 DEF Abstract!After
  <2> HIDE DEF row, view
  <2> QED BY <1>1, <1>2, <1>3, <1>4, <2>1, <2>2, <2>3, <2>4, <2>6, <2>7 DEF Effect
<1>5. ASSUME c.kind # "open"
      PROVE  /\ Exists(t) /\ threads[t] \in Rows /\ views[t] \in ViewRows /\ from \in ViewRows
             /\ views[t] = ViewRow(t)
  BY <1>1, <1>2, <1>3, <1>5 DEF Exists, StoreInv, ViewsFollow
<1>6. CASE c.kind \in {"post", "signal"}
  <2>1. /\ posts' = [posts EXCEPT ![t] = posts[t] \union {id}] /\ Log(c, None)
        /\ views' = [views EXCEPT ![t] = [views[t] EXCEPT !.posts = views[t].posts + 1]] /\ UNCHANGED threads
    BY <1>1, <1>6 DEF Transaction, InsertPost
  <2> DEFINE view == [views[t] EXCEPT !.posts = views[t].posts + 1]
  <2>2. view \in ViewRows
    BY <1>5, <1>6 DEF ViewRows
  <2>3. threads'[t] = threads[t] /\ posts'[t] = posts[t] \union {id} /\ views'[t] = view
    BY <1>1, <1>2, <2>1
  <2>4. \E e \in Entries : events' = Append(events, e) /\ e.id = id /\ e.thread = t
    BY <1>1, <2>1, LogTyped DEF Settings
  <2>5. Cardinality(posts'[t]) = Cardinality(posts[t]) + 1
    <3>1. id \notin posts[t]
      BY <1>1 DEF StoreInv
    <3>2. IsFiniteSet(Ids)
      BY FS_Interval, StoreAssumption DEF Ids
    <3>3. IsFiniteSet(posts[t])
      BY <1>1, <1>2, <3>2, FS_Subset
    <3> QED BY <2>3, <3>1, <3>3, FS_AddElement
  <2>6. views'[t] = ViewRow(t)'
    BY <1>5, <1>6, <2>3, <2>5 DEF ViewRow
  <2>7. Abstract!After(views[t], c) = view
    BY <1>6 DEF Abstract!After
  <2> HIDE DEF view
  <2> QED BY <1>1, <1>2, <1>5, <1>6, <2>1, <2>2, <2>3, <2>4, <2>6, <2>7 DEF Effect
<1>7. CASE c.kind = "assign"
  <2> DEFINE row == [threads[t] EXCEPT !.assignee = c.to]
             view == [views[t] EXCEPT !.assignee = c.to]
  <2>1. /\ threads' = [threads EXCEPT ![t] = row] /\ Log(c, from.assignee)
        /\ views' = [views EXCEPT ![t] = view] /\ UNCHANGED posts
    BY <1>1, <1>7 DEF Transaction, UpdateAssignee
  <2>2. row \in Rows /\ view \in ViewRows
    BY <1>1, <1>5, <1>7 DEF Fits, Rows, ViewRows
  <2>3. threads'[t] = row /\ posts'[t] = posts[t] /\ views'[t] = view
    BY <1>1, <1>2, <2>1
  <2>4. \E e \in Entries : events' = Append(events, e) /\ e.id = id /\ e.thread = t
    <3>1. from.assignee \in Settings
      BY <1>5, <1>7 DEF Settings, ViewRows
    <3> QED BY <1>1, <2>1, <3>1, LogTyped
  <2>5. views'[t] = ViewRow(t)'
    BY <1>5, <1>7, <2>3 DEF ViewRow, Rows
  <2>6. Abstract!After(views[t], c) = view
    BY <1>7 DEF Abstract!After
  <2> HIDE DEF row, view
  <2> QED BY <1>1, <1>2, <1>5, <1>7, <2>1, <2>2, <2>3, <2>4, <2>5, <2>6 DEF Effect
<1>8. CASE c.kind \in {"state", "close"}
  <2> DEFINE row == [threads[t] EXCEPT !.state = c.to]
             view == [views[t] EXCEPT !.state = c.to]
  <2>1. /\ threads' = [threads EXCEPT ![t] = row] /\ Log(c, from.state)
        /\ views' = [views EXCEPT ![t] = view] /\ UNCHANGED posts
    BY <1>1, <1>8 DEF Transaction, UpdateState
  <2>2. row \in Rows /\ view \in ViewRows
    BY <1>1, <1>5, <1>8 DEF Fits, Rows, ViewRows
  <2>3. threads'[t] = row /\ posts'[t] = posts[t] /\ views'[t] = view
    BY <1>1, <1>2, <2>1
  <2>4. \E e \in Entries : events' = Append(events, e) /\ e.id = id /\ e.thread = t
    <3>1. from.state \in Settings
      BY <1>5, <1>8 DEF Settings, ViewRows
    <3> QED BY <1>1, <2>1, <3>1, LogTyped
  <2>5. views'[t] = ViewRow(t)'
    BY <1>5, <1>8, <2>3 DEF ViewRow, Rows
  <2>6. Abstract!After(views[t], c) = view
    BY <1>8 DEF Abstract!After
  <2> HIDE DEF row, view
  <2> QED BY <1>1, <1>2, <1>5, <1>8, <2>1, <2>2, <2>3, <2>4, <2>5, <2>6 DEF Effect
<1>9. CASE c.kind = "priority"
  <2> DEFINE row == [threads[t] EXCEPT !.priority = c.to]
             view == [views[t] EXCEPT !.priority = c.to]
  <2>1. /\ threads' = [threads EXCEPT ![t] = row] /\ Log(c, from.priority)
        /\ views' = [views EXCEPT ![t] = view] /\ UNCHANGED posts
    BY <1>1, <1>9 DEF Transaction, UpdatePriority
  <2>2. row \in Rows /\ view \in ViewRows
    BY <1>1, <1>5, <1>9 DEF Fits, Rows, ViewRows
  <2>3. threads'[t] = row /\ posts'[t] = posts[t] /\ views'[t] = view
    BY <1>1, <1>2, <2>1
  <2>4. \E e \in Entries : events' = Append(events, e) /\ e.id = id /\ e.thread = t
    <3>1. from.priority \in Settings
      BY <1>5, <1>9 DEF Settings, ViewRows
    <3> QED BY <1>1, <2>1, <3>1, LogTyped
  <2>5. views'[t] = ViewRow(t)'
    BY <1>5, <1>9, <2>3 DEF ViewRow, Rows
  <2>6. Abstract!After(views[t], c) = view
    BY <1>9 DEF Abstract!After
  <2> HIDE DEF row, view
  <2> QED BY <1>1, <1>2, <1>5, <1>9, <2>1, <2>2, <2>3, <2>4, <2>5, <2>6 DEF Effect
<1>10. Effect(id, c, t)
  BY <1>4, <1>6, <1>7, <1>8, <1>9 DEF Transaction
<1> QED BY <1>1, <1>10

-----------------------------------------------------------------------------
(* Types, and what every step does *)

CmdTypes ==
  /\ cmds \in [Ids -> Command \union {Undrawn}]
  /\ \A id \in Ids : cmds[id] # Undrawn => cmds[id].id = id /\ Fits(cmds[id])
  /\ sent \subseteq Messages /\ done \subseteq sent

Frame ==
  /\ Grows /\ SentFresh /\ WorkFollows /\ CallsFollow
  /\ StoreTypes' /\ DerivedTypes' /\ CmdTypes' /\ faults' \in 0..MaxFaults

\* The queue that nothing refreshes stays typed when the log grows.
LEMMA QueueStays ==
  ASSUME TypeInv, UNCHANGED <<queue, stats>>, applied' \subseteq (1..3) \X Ids, controls' \subseteq ControlThreads,
         \A i \in DOMAIN events : i \in DOMAIN events' /\ events'[i] = events[i],
         events' \in Seq(Entries)
  PROVE  /\ DerivedTypes'
         /\ \A t \in Threads : queue[t] # Absent => queue'[t] # Absent /\ queue'[t].last >= queue[t].last
<1>1. events \in Seq(Entries) /\ DOMAIN events = 1..Len(events) /\ DOMAIN events' = 1..Len(events')
  BY DEF TypeInv, StoreTypes
<1>2. ASSUME NEW t \in Threads, queue[t] # Absent
      PROVE  /\ queue'[t] # Absent /\ queue'[t].last >= queue[t].last
             /\ queue'[t].last \in 1..Len(events') /\ events'[queue'[t].last].thread = t /\ queue'[t].state \in ForumStates
  <2>1. queue[t].last \in 1..Len(events) /\ events[queue[t].last].thread = t /\ queue[t].state \in ForumStates
    BY <1>2 DEF TypeInv, DerivedTypes
  <2>2. queue'[t] = queue[t]
    OBVIOUS
  <2>3. queue[t].last \in 1..Len(events') /\ events'[queue[t].last] = events[queue[t].last]
    BY <1>1, <2>1
  <2> QED BY <1>2, <2>1, <2>2, <2>3
<1> QED BY <1>2 DEF TypeInv, DerivedTypes

\* A step that leaves the tables that are read alone.
LEMMA FrameSame ==
  ASSUME TypeInv, UNCHANGED <<threads, posts, events, views, queue, stats>>,
         applied \subseteq applied', applied' \subseteq (1..3) \X Ids, controls' \subseteq ControlThreads
  PROVE  /\ StoreTypes' /\ DerivedTypes'
         /\ \A t \in Threads : Exists(t) => Exists(t)'
         /\ \A i \in DOMAIN events : i \in DOMAIN events' /\ events'[i] = events[i]
         /\ \A i \in DOMAIN events' : i \in DOMAIN events \/ ~EventExists(events'[i].id)
         /\ \A t \in Threads : queue[t] # Absent => queue'[t] # Absent /\ queue'[t].last >= queue[t].last
<1>1. StoreTypes'
  BY DEF TypeInv, StoreTypes
<1>2. events' \in Seq(Entries)
  BY DEF TypeInv, StoreTypes
<1> QED BY <1>1, <1>2, QueueStays DEF Exists

LEMMA CmdsStay ==
  ASSUME TypeInv
  PROVE  cmds' = cmds /\ sent' = sent /\ done' = done => CmdTypes'
  BY DEF TypeInv, BusTypes, CmdTypes

LEMMA FrameSending ==
  ASSUME TypeInv, Sending
  PROVE  Frame
<1>1. PICK id \in Ids : \E c : Sends(id, c)
  BY DEF Sending
<1>2. PICK c : Sends(id, c)
  BY <1>1
<1>3. /\ Issued(id, c) /\ sent' = sent \union {<<"command", id>>} /\ UNCHANGED <<tables, done, work, faults>>
  BY <1>2 DEF Sends
<1>4. /\ cmds' \in [Ids -> Command \union {Undrawn}]
      /\ \A j \in Ids : cmds'[j] # Undrawn => cmds'[j].id = j /\ Fits(cmds'[j])
      /\ \A j \in Ids : cmds[j] # Undrawn => cmds'[j] = cmds[j]
  BY <1>3, IdIssued DEF TypeInv
<1>5. sent \subseteq sent' /\ sent' \subseteq Messages /\ done' \subseteq sent'
  BY <1>3 DEF TypeInv, BusTypes, Messages
<1>6. SentFresh
  BY <1>3 DEF SentFresh, Issued
<1>7. UNCHANGED <<threads, posts, events, views, queue, stats, applied, controls>>
  BY <1>3 DEF tables
<1>8. applied' \subseteq (1..3) \X Ids /\ controls' \subseteq ControlThreads
  BY <1>7 DEF TypeInv, DerivedTypes
<1>9. Grows /\ StoreTypes' /\ DerivedTypes'
  BY <1>3, <1>4, <1>5, <1>7, <1>8, FrameSame DEF Grows
<1> QED BY <1>3, <1>4, <1>5, <1>6, <1>9 DEF Frame, CmdTypes, Sending, WorkFollows, TypeInv, OtherTypes

LEMMA FrameOpening ==
  ASSUME TypeInv, Opening
  PROVE  Frame
<1>1. PICK id \in Ids : \E c : Issued(id, c)
  BY DEF Opening
<1>2. PICK c : Issued(id, c)
  BY <1>1
<1>3. UNCHANGED <<threads, posts, events, views, queue, stats, applied, controls, sent, done, work, faults>> /\ CallsFollow
  BY DEF Opening, tables
<1>4. /\ cmds' \in [Ids -> Command \union {Undrawn}]
      /\ \A j \in Ids : cmds'[j] # Undrawn => cmds'[j].id = j /\ Fits(cmds'[j])
      /\ \A j \in Ids : cmds[j] # Undrawn => cmds'[j] = cmds[j]
  BY <1>2, IdIssued DEF TypeInv
<1>5. sent' \subseteq Messages /\ done' \subseteq sent'
  BY <1>3 DEF TypeInv, BusTypes
<1>6. applied' \subseteq (1..3) \X Ids /\ controls' \subseteq ControlThreads
  BY <1>3 DEF TypeInv, DerivedTypes
<1>7. Grows /\ StoreTypes' /\ DerivedTypes'
  BY <1>3, <1>4, <1>6, FrameSame DEF Grows
<1>8. SentFresh
  BY <1>3 DEF SentFresh
<1> QED BY <1>3, <1>4, <1>5, <1>7, <1>8 DEF Frame, CmdTypes, WorkFollows, TypeInv, OtherTypes

LEMMA FrameQuiet ==
  ASSUME TypeInv, Calling \/ Working \/ Publish \/ Projected
  PROVE  Frame
<1>1. /\ UNCHANGED <<threads, posts, events, views, queue, stats, cmds>>
      /\ controls' \subseteq ControlThreads /\ faults' \in 0..MaxFaults
      /\ WorkFollows /\ CallsFollow
  BY DEF Calling, Working, Publish, Projected, WorkFollows, CallsFollow, tables, TypeInv, DerivedTypes, OtherTypes
<1>2. /\ sent \subseteq sent' /\ done \subseteq done' /\ sent' \subseteq Messages /\ done' \subseteq sent' /\ SentFresh
  <2>1. sent \subseteq Messages /\ done \subseteq sent
    BY DEF TypeInv, BusTypes
  <2>2. CASE Calling \/ Working
    BY <2>1, <2>2 DEF Calling, Working, SentFresh
  <2>3. CASE Publish
    <3>1. PICK id \in Ids : /\ <<"command", id>> \in sent /\ sent' = sent \union {<<"event", id>>}
                            /\ done' = done \union {<<"command", id>>}
      BY <2>3 DEF Publish
    <3> QED BY <2>1, <3>1 DEF SentFresh, Messages
  <2>4. CASE Projected
    <3>1. PICK id \in Ids : /\ <<"event", id>> \in sent /\ sent' = sent
                            /\ done' = done \/ done' = done \union {<<"event", id>>}
      BY <2>4 DEF Projected
    <3> QED BY <2>1, <3>1 DEF SentFresh
  <2> QED BY <2>2, <2>3, <2>4
<1>3. applied \subseteq applied' /\ applied' \subseteq (1..3) \X Ids
  <2>1. applied \subseteq (1..3) \X Ids
    BY DEF TypeInv, DerivedTypes
  <2>2. CASE Projected
    BY <2>1, <2>2 DEF Projected
  <2>3. CASE Calling \/ Working \/ Publish
    BY <2>1, <2>3 DEF Calling, Working, Publish, tables
  <2> QED BY <2>2, <2>3
<1>4. StoreTypes' /\ DerivedTypes' /\ Grows
  BY <1>1, <1>2, <1>3, FrameSame DEF Grows
<1>5. CmdTypes'
  BY <1>1, <1>2 DEF CmdTypes, TypeInv, BusTypes
<1> QED BY <1>1, <1>2, <1>4, <1>5 DEF Frame

LEMMA FrameStats ==
  ASSUME TypeInv, RefreshingStats
  PROVE  Frame
<1>1. PICK t \in Threads : RefreshStats(t) /\ UNCHANGED <<cmds, sent, done, faults>> /\ WorkFollows /\ CallsFollow
  BY DEF RefreshingStats
<1>2. /\ stats' = [stats EXCEPT ![TicketOf[t]] = StatRows(TicketOf[t])]
      /\ UNCHANGED <<threads, posts, events, views, queue, applied, controls>>
  BY <1>1 DEF RefreshStats
<1>3. DOMAIN stats' = Tickets
  BY <1>2 DEF TypeInv, DerivedTypes
<1>4. StoreTypes' /\ DerivedTypes'
  BY <1>2, <1>3 DEF TypeInv, StoreTypes, DerivedTypes
<1>5. \A s \in Threads : queue[s] # Absent => queue[s].last \in Int
  BY DEF TypeInv, DerivedTypes
<1>6. Grows
  BY <1>1, <1>2, <1>5 DEF Grows, Exists
<1> QED BY <1>1, <1>4, <1>6, CmdsStay DEF Frame, SentFresh, TypeInv, OtherTypes

LEMMA FrameQueue ==
  ASSUME TypeInv, StoreInv, RefreshingQueue
  PROVE  Frame
<1>1. PICK t \in Threads : RefreshQueue(t) /\ UNCHANGED <<cmds, sent, done, faults>> /\ WorkFollows /\ CallsFollow
  BY DEF RefreshingQueue
<1>2. UNCHANGED <<threads, posts, events, views, stats, applied, controls>>
  BY <1>1 DEF RefreshQueue
<1>3. events \in Seq(Entries) /\ DOMAIN events = 1..Len(events)
  BY DEF TypeInv, StoreTypes
<1>4. ASSUME NEW s \in Threads
      PROVE  /\ queue[s] # Absent => queue'[s] # Absent /\ queue'[s].last >= queue[s].last
             /\ queue'[s] # Absent => /\ queue'[s].last \in 1..Len(events)
                                      /\ events[queue'[s].last].thread = s
                                      /\ queue'[s].state \in ForumStates
  <2>0. queue[s] # Absent => /\ queue[s].last \in 1..Len(events)
                             /\ events[queue[s].last].thread = s
                             /\ queue[s].state \in ForumStates
    BY DEF TypeInv, DerivedTypes
  <2>1. CASE queue'[s] = queue[s]
    BY <2>0, <2>1
  <2>2. CASE queue'[s] # queue[s]
    <3>1. s = t /\ queue'[s] = QueueRow(s) /\ threads[s] # Absent
      BY <1>1, <2>2, QueueCounts
    <3>2. queue'[s].last = LastOf(s, ActorTypes) /\ queue'[s].state = threads[s].state
      BY <3>1 DEF QueueRow
    <3>3. threads[s].state \in ForumStates
      BY <3>1 DEF TypeInv, StoreTypes, Rows
    <3>4. ASSUME NEW i \in DOMAIN events, events[i].thread = s PROVE i \in SeqsOf(s, ActorTypes)
      <4>1. events[i] \in Entries
        BY <1>3
      <4> QED BY <3>4, <4>1 DEF SeqsOf, Entries
    <3>5. SeqsOf(s, ActorTypes) # {}
      BY <3>1, <3>4 DEF StoreInv
    <3>6. LastOf(s, ActorTypes) \in SeqsOf(s, ActorTypes) /\ \A i \in SeqsOf(s, ActorTypes) : i <= LastOf(s, ActorTypes)
      BY <1>3, <3>5, Latest
    <3>7. LastOf(s, ActorTypes) \in DOMAIN events /\ events[LastOf(s, ActorTypes)].thread = s
      BY <3>6 DEF SeqsOf
    <3>8. queue[s] # Absent => queue[s].last <= LastOf(s, ActorTypes)
      BY <1>3, <2>0, <3>4, <3>6
    <3>9. queue'[s] # Absent
      BY <3>2, <3>3 DEF Absent, None, ForumStates
    <3> QED BY <1>3, <2>0, <3>2, <3>3, <3>7, <3>8, <3>9
  <2> QED BY <2>1, <2>2
<1>5. DOMAIN queue' = Threads
  BY <1>1, QueueCounts
<1>6. StoreTypes' /\ DerivedTypes'
  BY <1>2, <1>4, <1>5 DEF TypeInv, StoreTypes, DerivedTypes
<1>7. Grows
  BY <1>1, <1>2, <1>4 DEF Grows, Exists
<1> QED BY <1>1, <1>6, <1>7, CmdsStay DEF Frame, SentFresh, TypeInv, OtherTypes

LEMMA FrameLogged ==
  ASSUME TypeInv, NEW e \in Entries, events' = Append(events, e), ~EventExists(e.id)
  PROVE  /\ events' \in Seq(Entries)
         /\ \A i \in DOMAIN events : i \in DOMAIN events' /\ events'[i] = events[i]
         /\ \A i \in DOMAIN events' : i \in DOMAIN events \/ ~EventExists(events'[i].id)
<1>1. events \in Seq(Entries)
  BY DEF TypeInv, StoreTypes
<1>2. /\ events' \in Seq(Entries)
      /\ \A i \in DOMAIN events : i \in DOMAIN events' /\ events'[i] = events[i]
      /\ \A i \in DOMAIN events' : i \in DOMAIN events \/ i = Len(events) + 1
      /\ events'[Len(events) + 1] = e
  BY <1>1, Logged
<1> QED BY <1>2

LEMMA FrameNoting ==
  ASSUME TypeInv, Noting
  PROVE  Frame
<1>1. PICK id \in Ids : \E c :
        /\ Issued(id, c) /\ ~EventExists(id) /\ Log(c, None)
        /\ UNCHANGED <<threads, posts, views, queue, stats, applied, controls, sent, done, work, faults>>
        /\ CallsFollow
  BY DEF Noting
<1>2. PICK c :
        /\ Issued(id, c) /\ ~EventExists(id) /\ Log(c, None)
        /\ UNCHANGED <<threads, posts, views, queue, stats, applied, controls, sent, done, work, faults>>
        /\ CallsFollow
  BY <1>1
<1>3. PICK e \in Entries : events' = Append(events, e) /\ e.id = id
  BY <1>2, LogTyped DEF Issued, Settings
<1>4. /\ events' \in Seq(Entries)
      /\ \A i \in DOMAIN events : i \in DOMAIN events' /\ events'[i] = events[i]
      /\ \A i \in DOMAIN events' : i \in DOMAIN events \/ ~EventExists(events'[i].id)
  BY <1>2, <1>3, FrameLogged
<1>5. /\ cmds' \in [Ids -> Command \union {Undrawn}]
      /\ \A j \in Ids : cmds'[j] # Undrawn => cmds'[j].id = j /\ Fits(cmds'[j])
      /\ \A j \in Ids : cmds[j] # Undrawn => cmds'[j] = cmds[j]
  BY <1>2, IdIssued DEF TypeInv
<1>6. sent' \subseteq Messages /\ done' \subseteq sent'
  BY <1>2 DEF TypeInv, BusTypes
<1>7. applied' \subseteq (1..3) \X Ids /\ controls' \subseteq ControlThreads
  BY <1>2 DEF TypeInv, DerivedTypes
<1>8. /\ DerivedTypes'
      /\ \A t \in Threads : queue[t] # Absent => queue'[t] # Absent /\ queue'[t].last >= queue[t].last
  BY <1>2, <1>4, <1>7, QueueStays
<1>9. StoreTypes'
  BY <1>2, <1>4 DEF TypeInv, StoreTypes
<1>10. Grows
  BY <1>2, <1>4, <1>5, <1>8 DEF Grows, Exists
<1>11. SentFresh
  BY <1>2 DEF SentFresh
<1> QED BY <1>2, <1>5, <1>6, <1>8, <1>9, <1>10, <1>11 DEF Frame, CmdTypes, WorkFollows, TypeInv, OtherTypes

LEMMA FrameTaking ==
  ASSUME TypeInv, StoreInv, Taking
  PROVE  Frame
<1>1. PICK id \in Ids, from \in ViewRows \union {Absent} :
        /\ cmds[id] # Undrawn /\ cmds[id].kind # "docs_sync"
        /\ cmds[id].kind # "open" => Exists(cmds[id].thread) /\ from \in ViewRows
        /\ Transaction(cmds[id], from)
        /\ UNCHANGED <<cmds, sent, done, faults>>
        /\ WorkFollows /\ CallsFollow
  BY DEF Taking
<1> SUFFICES ASSUME NEW c, c = cmds[id], NEW t, t = c.thread PROVE Frame
  OBVIOUS
<1>0. /\ c # Undrawn /\ (c.kind # "open" => Exists(c.thread) /\ from \in ViewRows)
      /\ Transaction(c, from)
  BY <1>1
<1>a. t \in Threads /\ ~EventExists(id) /\ Effect(id, c, t) /\ UNCHANGED <<queue, stats, applied, controls>>
  BY <1>0, Transacted
<1>2. /\ \E e \in Entries : events' = Append(events, e) /\ e.id = id /\ e.thread = t
      /\ threads' \in [Threads -> {Absent} \union Rows] /\ posts' \in [Threads -> SUBSET Ids]
      /\ views' \in [Threads -> {Absent} \union ViewRows] /\ views'[t] \in ViewRows
      /\ \A s \in Threads : s # t => views'[s] = views[s]
  BY <1>a DEF Effect
<1>3. PICK e \in Entries : events' = Append(events, e) /\ e.id = id
  BY <1>2
<1>4. /\ events' \in Seq(Entries)
      /\ \A i \in DOMAIN events : i \in DOMAIN events' /\ events'[i] = events[i]
      /\ \A i \in DOMAIN events' : i \in DOMAIN events \/ ~EventExists(events'[i].id)
  BY <1>a, <1>2, <1>3, FrameLogged
<1>5. applied' \subseteq (1..3) \X Ids /\ controls' \subseteq ControlThreads
  BY <1>a DEF TypeInv, DerivedTypes
<1>6. /\ DerivedTypes'
      /\ \A s \in Threads : queue[s] # Absent => queue'[s] # Absent /\ queue'[s].last >= queue[s].last
  BY <1>a, <1>2, <1>4, <1>5, QueueStays
<1>7. StoreTypes'
  BY <1>a, <1>2, <1>4 DEF StoreTypes
<1>8. \A s \in Threads : Exists(s) => Exists(s)'
  BY <1>a, <1>2, AbsentIsNone DEF Exists
<1>9. Grows
  BY <1>1, <1>a, <1>2, <1>4, <1>6, <1>8 DEF Grows
<1> QED BY <1>1, <1>6, <1>7, <1>9, CmdsStay DEF Frame, SentFresh, TypeInv, OtherTypes

\* What holds of types and of what is known is kept by every step.
LEMMA Framed ==
  ASSUME IInv, [Next]_vars
  PROVE  /\ Frame /\ TypeInv'
         /\ \A p \in Procs : WorkKnows(p)'
         /\ \A k \in calls' : CallKnows(k)'
<1>1. Frame /\ script' = script
  BY Steps, FrameSending, FrameOpening, FrameQuiet, FrameStats, FrameQueue, FrameNoting, FrameTaking DEF IInv
<1>2. events' \in Seq(Entries)
  BY <1>1 DEF Frame, StoreTypes
<1>3. /\ \A p \in Procs : WorkKnows(p)'
      /\ \A k \in calls' : CallKnows(k)'
      /\ calls' \subseteq PlainCalls \union SignalCalls
      /\ work' \in [Procs -> Works]
      /\ \A p \in Procs : work'[p] # Idle => work'[p].msg \in sent'
  BY <1>1, <1>2, StillKnown DEF Frame, IInv
<1>4. BusTypes'
  BY <1>1, <1>3 DEF Frame, CmdTypes, BusTypes
<1>5. OtherTypes'
  BY <1>1, <1>3 DEF Frame, OtherTypes, IInv, TypeInv
<1> QED BY <1>1, <1>3, <1>4, <1>5 DEF Frame, TypeInv

-----------------------------------------------------------------------------
(* The base tables and what is shown of them *)

LEMMA StoreSame ==
  ASSUME TypeInv, StoreInv, Grows, UNCHANGED <<threads, posts, events, views>>
  PROVE  StoreInv'
<1>1. \A i \in DOMAIN events : /\ cmds'[events[i].id] # Undrawn
                               /\ events[i].thread = cmds'[events[i].id].thread
                               /\ Exists(events[i].thread)
  <2> SUFFICES ASSUME NEW i \in DOMAIN events
               PROVE  /\ cmds'[events[i].id] # Undrawn
                      /\ events[i].thread = cmds'[events[i].id].thread
                      /\ Exists(events[i].thread)
    OBVIOUS
  <2>1. events[i].id \in Ids
    <3>1. events \in Seq(Entries)
      BY DEF TypeInv, StoreTypes
    <3>2. events[i] \in Entries
      BY <3>1
    <3> QED BY <3>2 DEF Entries
  <2>2. /\ cmds[events[i].id] # Undrawn
        /\ events[i].thread = cmds[events[i].id].thread
        /\ Exists(events[i].thread)
    BY DEF StoreInv
  <2> QED BY <2>1, <2>2 DEF Grows
<1>2. /\ \A t \in Threads : \A i \in posts[t] : EventExists(i)
      /\ \A t \in Threads : threads[t] # Absent <=> Exists(t)
      /\ \A t \in Threads : threads[t] # Absent => \E i \in DOMAIN events : events[i].thread = t
      /\ \A t \in Threads : threads[t] # Absent => views[t] = ViewRow(t)
  BY DEF StoreInv, ViewsFollow
<1>3. \A t \in Threads : ViewRow(t)' = ViewRow(t)
  BY DEF ViewRow
<1> QED BY <1>1, <1>2, <1>3 DEF StoreInv, ViewsFollow, EventExists, Exists

\* An event of a thread that is there, or is opened with it, is logged; of the tables only
\* the rows of that thread change.
LEMMA StoreLogged ==
  ASSUME TypeInv, StoreInv, Grows, NEW e \in Entries, events' = Append(events, e),
         cmds'[e.id] # Undrawn, e.thread = cmds'[e.id].thread,
         NEW t \in Threads, t = e.thread, threads'[t] # Absent, views'[t] # Absent,
         views'[t] = ViewRow(t)', (\A x \in posts'[t] : x \in posts[t] \/ x = e.id),
         \A s \in Threads : s # t => threads'[s] = threads[s] /\ posts'[s] = posts[s] /\ views'[s] = views[s]
  PROVE  StoreInv'
<1>0. events \in Seq(Entries) /\ \A i \in DOMAIN events : events[i] \in Entries
  BY DEF TypeInv, StoreTypes
<1>1. /\ \A i \in DOMAIN events : i \in DOMAIN events' /\ events'[i] = events[i]
      /\ \A i \in DOMAIN events' : i \in DOMAIN events \/ i = Len(events) + 1
      /\ events'[Len(events) + 1] = e /\ Len(events) + 1 \in DOMAIN events'
  BY <1>0, Logged
<1>2. ASSUME NEW i \in DOMAIN events'
      PROVE  cmds'[events'[i].id] # Undrawn /\ events'[i].thread = cmds'[events'[i].id].thread
             /\ views'[events'[i].thread] # Absent
  <2>1. CASE i = Len(events) + 1
    BY <1>1, <2>1
  <2>2. CASE i \in DOMAIN events
    <3>1. events'[i] = events[i] /\ events[i].id \in Ids /\ events[i].thread \in Threads
      BY <1>0, <1>1, <2>2 DEF Entries
    <3>2. /\ cmds[events[i].id] # Undrawn
          /\ events[i].thread = cmds[events[i].id].thread
          /\ Exists(events[i].thread)
      BY <2>2 DEF StoreInv
    <3>3. views'[events[i].thread] # Absent
      BY <3>1, <3>2 DEF Grows, Exists
    <3> QED BY <3>1, <3>2, <3>3 DEF Grows
  <2> QED BY <1>1, <2>1, <2>2
<1>3. ASSUME NEW i, EventExists(i) PROVE EventExists(i)'
  BY <1>1, <1>3 DEF EventExists
<1>4. EventExists(e.id)'
  BY <1>1 DEF EventExists
<1>5. ASSUME NEW s \in Threads, NEW i \in posts'[s] PROVE EventExists(i)'
  <2>1. i \in posts[s] \/ i = e.id
    BY <1>5
  <2>2. i \in posts[s] => EventExists(i)
    BY DEF StoreInv
  <2> QED BY <1>3, <1>4, <2>1, <2>2
<1>6. ASSUME NEW s \in Threads
      PROVE  /\ threads'[s] # Absent <=> views'[s] # Absent
             /\ threads'[s] # Absent => \E i \in DOMAIN events' : events'[i].thread = s
             /\ threads'[s] # Absent => views'[s] = ViewRow(s)'
  <2>1. CASE s = t
    BY <1>1, <2>1
  <2>2. CASE s # t
    <3>1. threads'[s] = threads[s] /\ views'[s] = views[s] /\ posts'[s] = posts[s]
      BY <2>2
    <3>2. /\ threads[s] # Absent <=> views[s] # Absent
          /\ threads[s] # Absent => \E i \in DOMAIN events : events[i].thread = s
          /\ threads[s] # Absent => views[s] = ViewRow(s)
      BY DEF StoreInv, Exists, ViewsFollow
    <3>3. ViewRow(s)' = ViewRow(s)
      BY <3>1 DEF ViewRow
    <3> QED BY <1>1, <3>1, <3>2, <3>3
  <2> QED BY <2>1, <2>2
<1> QED BY <1>2, <1>5, <1>6 DEF StoreInv, ViewsFollow, Exists

LEMMA StoreNoted ==
  ASSUME TypeInv, StoreInv, Grows, Noting
  PROVE  StoreInv'
<1>1. PICK id \in Ids : \E c :
        /\ Issued(id, c) /\ Exists(c.thread) /\ Log(c, None) /\ UNCHANGED <<threads, posts, views>>
  BY DEF Noting
<1>2. PICK c :
        /\ Issued(id, c) /\ Exists(c.thread) /\ Log(c, None) /\ UNCHANGED <<threads, posts, views>>
  BY <1>1
<1>3. c \in Command /\ c.id = id /\ c.thread \in Threads
  BY <1>2 DEF Issued, Command
<1>4. PICK e \in Entries : events' = Append(events, e) /\ e.id = id /\ e.thread = c.thread
  BY <1>2, <1>3, LogTyped DEF Settings
<1>5. cmds'[id] = c /\ c # Undrawn
  BY <1>2, IdIssued DEF TypeInv
<1> DEFINE t == c.thread
<1>6. threads[t] # Absent /\ views[t] # Absent /\ views[t] = ViewRow(t)
  BY <1>2, <1>3 DEF StoreInv, Exists, ViewsFollow
<1> SUFFICES ASSUME NEW s, s = t PROVE StoreInv'
  OBVIOUS
<1>7. ViewRow(s)' = ViewRow(s)
  BY <1>2 DEF ViewRow
<1> HIDE DEF t
<1>8. t = c.thread
  BY DEF t
<1>9. s \in Threads /\ s = e.thread /\ threads'[s] # Absent /\ views'[s] # Absent /\ views'[s] = ViewRow(s)'
      /\ \A x \in posts'[s] : x \in posts[s] \/ x = e.id
  BY <1>2, <1>3, <1>4, <1>6, <1>7, <1>8
<1>10. cmds'[e.id] # Undrawn /\ e.thread = cmds'[e.id].thread
  BY <1>4, <1>5
<1> QED BY <1>2, <1>4, <1>9, <1>10, StoreLogged

LEMMA StoreTaken ==
  ASSUME TypeInv, StoreInv, Grows, Taking
  PROVE  StoreInv'
<1>1. PICK id \in Ids, from \in ViewRows \union {Absent} :
        /\ cmds[id] # Undrawn /\ cmds[id].kind # "docs_sync"
        /\ cmds[id].kind # "open" => Exists(cmds[id].thread) /\ from \in ViewRows
        /\ Transaction(cmds[id], from)
        /\ UNCHANGED <<cmds, sent, done, faults>>
  BY DEF Taking
<1> SUFFICES ASSUME NEW c, c = cmds[id], NEW t, t = c.thread PROVE StoreInv'
  OBVIOUS
<1>0. /\ c # Undrawn /\ (c.kind # "open" => Exists(c.thread) /\ from \in ViewRows)
      /\ Transaction(c, from)
  BY <1>1
<1>2. t \in Threads /\ Effect(id, c, t)
  BY <1>0, Transacted
<1>3. PICK e \in Entries : events' = Append(events, e) /\ e.id = id /\ e.thread = t
  BY <1>2 DEF Effect
<1>4. threads'[t] # Absent /\ views'[t] # Absent /\ cmds'[e.id] # Undrawn /\ e.thread = cmds'[e.id].thread
  BY <1>0, <1>1, <1>2, <1>3, AbsentIsNone DEF Effect
<1>5. /\ views'[t] = ViewRow(t)' /\ (\A x \in posts'[t] : x \in posts[t] \/ x = e.id)
      /\ \A s \in Threads : s # t => threads'[s] = threads[s] /\ posts'[s] = posts[s] /\ views'[s] = views[s]
  BY <1>2, <1>3 DEF Effect
<1> QED BY <1>2, <1>3, <1>4, <1>5, StoreLogged

LEMMA StoreKept ==
  ASSUME IInv, [Next]_vars
  PROVE  StoreInv'
<1>1. TypeInv /\ StoreInv /\ Grows
  BY Framed DEF IInv, Frame
<1>2. CASE Noting
  BY <1>1, <1>2, StoreNoted
<1>3. CASE Taking
  BY <1>1, <1>3, StoreTaken
<1>4. CASE ~Noting /\ ~Taking
  <2>1. UNCHANGED <<threads, posts, events, views>>
    BY <1>4, Steps DEF Sending, Sends, Opening, Calling, Working, RefreshingStats, RefreshStats, RefreshingQueue,
                       RefreshQueue, Publish, Projected, tables
  <2> QED BY <1>1, <2>1, StoreSame
<1> QED BY <1>2, <1>3, <1>4

-----------------------------------------------------------------------------
(* The way of a message *)

\* What is known of the messages and of what was counted stays true.
LEMMA BusStays ==
  ASSUME TypeInv, StoreInv, BusInv, Frame
  PROVE  /\ \A id \in Ids : <<"command", id>> \in sent => cmds'[id] # Undrawn /\ cmds'[id].kind # "docs_sync"
         /\ \A id \in Ids : <<"command", id>> \in done => <<"event", id>> \in sent'
         /\ \A id \in Ids : <<"event", id>> \in sent => <<"command", id>> \in done' /\ EventExists(id)'
         /\ \A id \in Ids : <<"event", id>> \in done => \A n \in 1..3 : <<n, id>> \in applied'
         /\ \A id \in Ids, n \in 1..3 : <<n, id>> \in applied => <<"event", id>> \in sent'
         /\ \A id \in Ids : <<2, id>> \in applied => Counted(id)'
<1>1. DerivedTypes' /\ events' \in Seq(Entries) /\ Grows
  BY DEF Frame, StoreTypes
<1>2. /\ \A id : EventExists(id) => EventExists(id)'
      /\ \A id : EventExists(id) /\ Counted(id) => Counted(id)'
  BY <1>1, StillThere
<1>3. /\ \A id \in Ids : <<"command", id>> \in sent => cmds[id] # Undrawn /\ cmds[id].kind # "docs_sync"
      /\ \A id \in Ids : <<"command", id>> \in done => <<"event", id>> \in sent
      /\ \A id \in Ids : <<"event", id>> \in sent => <<"command", id>> \in done /\ EventExists(id)
      /\ \A id \in Ids : <<"event", id>> \in done => \A n \in 1..3 : <<n, id>> \in applied
      /\ \A id \in Ids, n \in 1..3 : <<n, id>> \in applied => <<"event", id>> \in sent
      /\ \A id \in Ids : <<2, id>> \in applied => Counted(id)
  BY DEF BusInv
<1>4. /\ \A id \in Ids : cmds[id] # Undrawn => cmds'[id] = cmds[id]
      /\ sent \subseteq sent' /\ done \subseteq done' /\ applied \subseteq applied'
  BY <1>1 DEF Grows
<1>5. ASSUME NEW id \in Ids, <<2, id>> \in applied PROVE Counted(id)'
  <2>1. 2 \in 1..3
    OBVIOUS
  <2>2. EventExists(id) /\ Counted(id)
    BY <1>3, <1>5, <2>1
  <2> QED BY <1>2, <2>2
<1>6. \A id \in Ids : <<"event", id>> \in sent => <<"command", id>> \in done' /\ EventExists(id)'
  BY <1>2, <1>3, <1>4
<1> QED BY <1>3, <1>4, <1>5, <1>6

LEMMA BusSame ==
  ASSUME TypeInv, StoreInv, BusInv, Frame, UNCHANGED <<sent, done, applied>>
  PROVE  BusInv'
  BY BusStays DEF BusInv

LEMMA BusSending ==
  ASSUME TypeInv, StoreInv, BusInv, Frame, Sending
  PROVE  BusInv'
<1>1. PICK id \in Ids : \E c : Sends(id, c)
  BY DEF Sending
<1>2. PICK c : Sends(id, c)
  BY <1>1
<1>3. /\ Issued(id, c) /\ c.kind # "docs_sync" /\ sent' = sent \union {<<"command", id>>}
      /\ done' = done /\ applied' = applied
  BY <1>2 DEF Sends, tables
<1>4. cmds'[id] = c /\ c # Undrawn
  BY <1>3, IdIssued DEF TypeInv
<1>5. /\ \A j \in Ids : <<"command", j>> \in sent' => <<"command", j>> \in sent \/ j = id
      /\ \A j \in Ids : <<"event", j>> \in sent' => <<"event", j>> \in sent
  BY <1>3
<1> QED BY <1>3, <1>4, <1>5, BusStays DEF BusInv

LEMMA BusPublish ==
  ASSUME TypeInv, StoreInv, BusInv, Frame, Publish
  PROVE  BusInv'
<1>1. PICK id \in Ids :
        /\ EventExists(id) /\ <<"command", id>> \in sent
        /\ sent' = sent \union {<<"event", id>>} /\ done' = done \union {<<"command", id>>}
        /\ UNCHANGED tables
  BY DEF Publish
<1>2. EventExists(id)'
  BY <1>1 DEF EventExists, tables
<1>3. /\ \A j \in Ids : <<"command", j>> \in sent' => <<"command", j>> \in sent
      /\ \A j \in Ids : <<"event", j>> \in sent' => <<"event", j>> \in sent \/ j = id
      /\ \A j \in Ids : <<"command", j>> \in done' => <<"command", j>> \in done \/ j = id
      /\ \A j \in Ids : <<"event", j>> \in done' => <<"event", j>> \in done
      /\ <<"event", id>> \in sent' /\ <<"command", id>> \in done' /\ applied' = applied
  BY <1>1 DEF tables
<1> QED BY <1>2, <1>3, BusStays DEF BusInv

LEMMA BusProjected ==
  ASSUME TypeInv, StoreInv, BusInv, Frame, Projected
  PROVE  BusInv'
<1>1. PICK id \in Ids, n \in 1..3 :
        /\ <<"event", id>> \in sent /\ (n = 2 => Counted(id))
        /\ applied' = applied \union {<<n, id>>}
        /\ \A j \in 1..(n - 1) : <<j, id>> \in applied
        /\ done' = done \/ (n = 3 /\ done' = done \union {<<"event", id>>})
        /\ UNCHANGED <<events, queue, sent>>
  BY DEF Projected
<1>2. n = 2 => Counted(id)'
  BY <1>1 DEF Counted, Covered
<1>3. \A j \in Ids : <<"command", j>> \in done' => <<"command", j>> \in done
  BY <1>1
<1>4. ASSUME NEW j \in Ids, <<"event", j>> \in done' PROVE \A m \in 1..3 : <<m, j>> \in applied'
  <2>1. CASE <<"event", j>> \in done
    BY <2>1, BusStays
  <2>2. CASE <<"event", j>> \notin done
    <3>1. n = 3 /\ j = id
      BY <1>1, <1>4, <2>2
    <3>2. \A m \in 1..3 : m \in 1..(n - 1) \/ m = n
      BY <3>1
    <3> QED BY <1>1, <3>1, <3>2
  <2> QED BY <2>1, <2>2
<1>5. ASSUME NEW j \in Ids, NEW m \in 1..3, <<m, j>> \in applied' PROVE <<m, j>> \in applied \/ (m = n /\ j = id)
  BY <1>1, <1>5
<1>6. ASSUME NEW j \in Ids, <<2, j>> \in applied' PROVE Counted(j)'
  <2>1. CASE <<2, j>> \in applied
    BY <2>1, BusStays
  <2>2. CASE <<2, j>> \notin applied
    <3>1. n = 2 /\ j = id
      BY <1>1, <1>6, <2>2
    <3> QED BY <1>2, <3>1
  <2> QED BY <2>1, <2>2
<1>7. \A j \in Ids, m \in 1..3 : <<m, j>> \in applied' => <<"event", j>> \in sent'
  BY <1>1, <1>5, BusStays
<1> QED BY <1>1, <1>3, <1>4, <1>6, <1>7, BusStays DEF BusInv

LEMMA BusKept ==
  ASSUME IInv, [Next]_vars
  PROVE  BusInv'
<1>1. TypeInv /\ StoreInv /\ BusInv /\ Frame
  BY Framed DEF IInv
<1>2. CASE Sending
  BY <1>1, <1>2, BusSending
<1>3. CASE Publish
  BY <1>1, <1>3, BusPublish
<1>4. CASE Projected
  BY <1>1, <1>4, BusProjected
<1>5. CASE ~Sending /\ ~Publish /\ ~Projected
  <2>1. UNCHANGED <<sent, done, applied>>
    BY <1>5, Steps DEF Noting, Opening, Calling, Taking, Transaction, Working, RefreshingStats, RefreshStats, RefreshingQueue,
                       RefreshQueue, tables
  <2> QED BY <1>1, <2>1, BusSame
<1> QED BY <1>2, <1>3, <1>4, <1>5

-----------------------------------------------------------------------------
(* The statistics *)

LEMMA SameRows ==
  ASSUME NEW k, \A t \in Threads : TicketOf[t] = k => views'[t] = views[t]
  PROVE  StatRows(k)' = StatRows(k)
<1> DEFINE Old == {t \in Threads : TicketOf[t] = k /\ views[t] # Absent}
           Now == {t \in Threads : TicketOf[t] = k /\ views'[t] # Absent}
           OldLike(s, q) == {t \in Old : views[t].state = s /\ views[t].priority = q}
           NowLike(s, q) == {t \in Now : views'[t].state = s /\ views'[t].priority = q}
           OldRow(t) == [state |-> views[t].state, priority |-> views[t].priority,
                         count |-> Cardinality(OldLike(views[t].state, views[t].priority))]
           NowRow(t) == [state |-> views'[t].state, priority |-> views'[t].priority,
                         count |-> Cardinality(NowLike(views'[t].state, views'[t].priority))]
<1>1. StatRows(k) = {OldRow(t) : t \in Old} /\ StatRows(k)' = {NowRow(t) : t \in Now}
  BY DEF StatRows, Exists
<1>2. Old = Now
  OBVIOUS
<1>3. ASSUME NEW s, NEW q PROVE OldLike(s, q) = NowLike(s, q)
  BY <1>2
<1>4. ASSUME NEW t \in Old PROVE OldRow(t) = NowRow(t)
  <2>1. views'[t] = views[t]
    OBVIOUS
  <2> HIDE DEF OldLike, NowLike, Old, Now
  <2> QED BY <1>3, <2>1
<1> HIDE DEF OldRow, NowRow, Old, Now
<1> QED BY <1>1, <1>2, <1>4

\* A refresh that is owed stays owed.
LEMMA StillOwed ==
  ASSUME NEW k, Owed(k),
         \A i \in DOMAIN events : i \in DOMAIN events' /\ events'[i] = events[i],
         \A i \in DOMAIN events' : i \in DOMAIN events \/ TicketOf[events'[i].thread] # k \/ ~ByMessage(i)',
         \A t \in Threads : Exists(t) => Exists(t)',
         \A i \in DOMAIN events : (ByMessage(i)' <=> ByMessage(i)),
         \A i \in DOMAIN events : TicketOf[events[i].thread] = k /\ Unshown(i) => Unshown(i)'
  PROVE  Owed(k)'
<1>1. PICK t \in Threads :
        /\ TicketOf[t] = k /\ Exists(t)
        /\ \/ \E i \in DOMAIN events : events[i].thread = t /\ ByMessage(i) /\ Unshown(i)
           \/ \A i \in DOMAIN events : events[i].thread = t => ~ByMessage(i)
  BY DEF Owed
<1>2. views'[t] # Absent
  BY <1>1 DEF Exists
<1>3. CASE \E i \in DOMAIN events : events[i].thread = t /\ ByMessage(i) /\ Unshown(i)
  <2>1. PICK i \in DOMAIN events : events[i].thread = t /\ ByMessage(i) /\ Unshown(i)
    BY <1>3
  <2>2. i \in DOMAIN events' /\ events'[i].thread = t /\ ByMessage(i)' /\ Unshown(i)'
    BY <1>1, <2>1
  <2> QED BY <1>1, <1>2, <2>2 DEF Owed, Exists
<1>4. CASE \A i \in DOMAIN events : events[i].thread = t => ~ByMessage(i)
  <2>1. ASSUME NEW i \in DOMAIN events', events'[i].thread = t PROVE ~ByMessage(i)'
    <3>1. CASE i \in DOMAIN events
      BY <1>4, <2>1, <3>1
    <3>2. CASE i \notin DOMAIN events
      BY <1>1, <2>1, <3>2
    <3> QED BY <3>1, <3>2
  <2> QED BY <1>1, <1>2, <2>1 DEF Owed, Exists
<1> QED BY <1>1, <1>3, <1>4

\* Whether an event was logged for a message does not change.
LEMMA SameSender ==
  ASSUME TypeInv, StoreInv, Frame, NEW i \in DOMAIN events
  PROVE  ByMessage(i)' <=> ByMessage(i)
<1>1. events \in Seq(Entries)
  BY DEF TypeInv, StoreTypes
<1>2. events[i].id \in Ids
  <2>1. events[i] \in Entries
    BY <1>1
  <2> QED BY <2>1 DEF Entries
<1>3. cmds[events[i].id] # Undrawn
  BY DEF StoreInv
<1>4. events'[i] = events[i] /\ sent \subseteq sent' /\ SentFresh
  BY DEF Frame, Grows
<1> QED BY <1>2, <1>3, <1>4 DEF SentFresh, ByMessage

\* Steps that leave the statistics and what they are computed from alone.
LEMMA StatsSame ==
  ASSUME TypeInv, StoreInv, StatsInv, Frame, UNCHANGED <<views, stats>>,
         \A i \in DOMAIN events' : i \in DOMAIN events \/ ~ByMessage(i)',
         \A i \in DOMAIN events : Unshown(i) => Unshown(i)'
  PROVE  StatsInv'
<1> SUFFICES ASSUME NEW k \in Tickets, stats'[k] # StatRows(k)'
             PROVE  Owed(k)'
  BY DEF StatsInv, Tickets
<1>1. StatRows(k)' = StatRows(k)
  BY SameRows
<1>2. Owed(k)
  BY <1>1 DEF StatsInv
<1>3. /\ \A i \in DOMAIN events : i \in DOMAIN events' /\ events'[i] = events[i]
      /\ \A t \in Threads : Exists(t) => Exists(t)'
  BY DEF Frame, Grows
<1> QED BY <1>2, <1>3, SameSender, StillOwed

LEMMA StatsRefreshed ==
  ASSUME TypeInv, StoreInv, StatsInv, Frame, RefreshingStats
  PROVE  StatsInv'
<1>1. PICK t \in Threads :
        /\ RefreshStats(t)
        /\ \A i \in DOMAIN events : TicketOf[events[i].thread] # TicketOf[t] /\ Unshown(i) => Unshown(i)'
  BY DEF RefreshingStats
<1>2. events' = events /\ views' = views /\ stats' = [stats EXCEPT ![TicketOf[t]] = StatRows(TicketOf[t])]
  BY <1>1 DEF RefreshStats
<1>3. DOMAIN stats = Tickets
  BY DEF TypeInv, DerivedTypes
<1> SUFFICES ASSUME NEW k \in Tickets, stats'[k] # StatRows(k)'
             PROVE  Owed(k)'
  BY DEF StatsInv, Tickets
<1>4. StatRows(k)' = StatRows(k)
  BY <1>2, SameRows
<1>5. k # TicketOf[t] /\ stats'[k] = stats[k]
  BY <1>2, <1>3, <1>4
<1>6. Owed(k)
  BY <1>4, <1>5 DEF StatsInv
<1>7. \A i \in DOMAIN events : TicketOf[events[i].thread] = k /\ Unshown(i) => Unshown(i)'
  BY <1>1, <1>5
<1> QED BY <1>2, <1>6, <1>7, SameSender, StillOwed DEF Exists

\* The row of a thread changes: there is an event now that the statistics do not show, or
\* the thread was opened without a message.
LEMMA StatsTaken ==
  ASSUME TypeInv, StoreInv, BusInv, StatsInv, Frame, Taking
  PROVE  StatsInv'
<1>1. PICK id \in Ids, from \in ViewRows \union {Absent} :
        /\ cmds[id] # Undrawn /\ cmds[id].kind # "docs_sync"
        /\ cmds[id].kind # "open" => Exists(cmds[id].thread) /\ from \in ViewRows
        /\ Transaction(cmds[id], from)
        /\ UNCHANGED <<cmds, sent, done, faults>>
        /\ \/ cmds[id].kind = "open" /\ <<"command", id>> \notin sent
           \/ <<"command", id>> \in sent
        /\ \A p \in Procs : At(p, "record")' => work'[p] = work[p]
  BY DEF Taking
<1> SUFFICES ASSUME NEW c, c = cmds[id], NEW t, t = c.thread PROVE StatsInv'
  OBVIOUS
<1>2. /\ c # Undrawn /\ (c.kind # "open" => Exists(c.thread) /\ from \in ViewRows)
      /\ Transaction(c, from)
  BY <1>1
<1>3. t \in Threads /\ ~EventExists(id) /\ Effect(id, c, t) /\ UNCHANGED <<queue, stats, applied, controls>>
  BY <1>2, Transacted
<1>4. PICK e \in Entries : events' = Append(events, e) /\ e.id = id /\ e.thread = t
  BY <1>3 DEF Effect
<1>5. events \in Seq(Entries)
  BY DEF TypeInv, StoreTypes
<1>6. SUFFICES ASSUME NEW n, n = Len(events) + 1 PROVE StatsInv'
  OBVIOUS
<1>7. /\ \A i \in DOMAIN events : i \in DOMAIN events' /\ events'[i] = events[i]
      /\ \A i \in DOMAIN events' : i \in DOMAIN events \/ i = n
      /\ events'[n] = e /\ n \in DOMAIN events'
  BY <1>4, <1>5, <1>6, Logged
<1>8. \A s \in Threads : Exists(s) => Exists(s)'
  BY DEF Frame, Grows
<1>9. ASSUME NEW i \in DOMAIN events, Unshown(i) PROVE Unshown(i)'
  BY <1>1, <1>3, <1>7, <1>9 DEF Unshown, At
<1>10. \A s \in Threads : s # t => views'[s] = views[s]
  BY <1>3 DEF Effect
<1>11. views'[t] # Absent
  BY <1>3, AbsentIsNone DEF Effect
<1> SUFFICES ASSUME NEW k \in Tickets, stats'[k] # StatRows(k)'
             PROVE  Owed(k)'
  BY DEF StatsInv, Tickets
<1>12. CASE k # TicketOf[t]
  <2>1. StatRows(k)' = StatRows(k)
    BY <1>10, <1>12, SameRows
  <2>2. Owed(k)
    BY <1>3, <2>1 DEF StatsInv
  <2> QED BY <1>4, <1>7, <1>8, <1>9, <1>12, <2>2, SameSender, StillOwed
<1>13. CASE k = TicketOf[t] /\ <<"command", id>> \in sent
  <2>1. ByMessage(n)'
    BY <1>1, <1>4, <1>7, <1>13 DEF ByMessage
  <2>2. <<"event", id>> \notin sent
    BY <1>3 DEF BusInv
  <2>3. <<3, id>> \notin applied
    <3>1. 3 \in 1..3
      OBVIOUS
    <3> QED BY <2>2, <3>1 DEF BusInv
  <2>4. ASSUME NEW p \in Procs, At(p, "record")', work'[p].nth = 3, work'[p].msg = <<"event", id>> PROVE FALSE
    <3>1. work'[p] = work[p]
      BY <1>1, <2>4
    <3>2. At(p, "record") /\ work[p].msg = <<"event", id>>
      BY <2>4, <3>1 DEF At
    <3>3. work[p] # Idle
      BY <3>2, IdleIsNone DEF At
    <3>4. work[p].msg \in sent
      BY <3>3 DEF TypeInv, BusTypes
    <3> QED BY <2>2, <3>2, <3>4
  <2>5. Unshown(n)'
    BY <1>3, <1>4, <1>7, <2>3, <2>4 DEF Unshown
  <2> QED BY <1>3, <1>4, <1>7, <1>11, <1>13, <2>1, <2>5 DEF Owed, Exists
<1>14. CASE k = TicketOf[t] /\ <<"command", id>> \notin sent
  <2>1. ~Exists(t)
    BY <1>1, <1>3, <1>14 DEF Effect
  <2>2. ASSUME NEW i \in DOMAIN events', events'[i].thread = t PROVE ~ByMessage(i)'
    <3>1. CASE i = n
      BY <1>1, <1>4, <1>7, <1>14, <3>1 DEF ByMessage
    <3>2. CASE i \in DOMAIN events
      <4>1. events[i].thread = t
        BY <1>7, <2>2, <3>2
      <4>2. Exists(events[i].thread)
        BY <3>2 DEF StoreInv
      <4> QED BY <2>1, <4>1, <4>2
    <3> QED BY <1>7, <3>1, <3>2
  <2> QED BY <1>3, <1>11, <1>14, <2>2 DEF Owed, Exists
<1> QED BY <1>12, <1>13, <1>14

LEMMA StatsNoted ==
  ASSUME TypeInv, StoreInv, BusInv, StatsInv, Frame, Noting
  PROVE  StatsInv'
<1>1. PICK id \in Ids : \E c :
        /\ Issued(id, c) /\ Log(c, None) /\ UNCHANGED <<views, stats, applied, sent, work>>
  BY DEF Noting
<1>2. PICK c :
        /\ Issued(id, c) /\ Log(c, None) /\ UNCHANGED <<views, stats, applied, sent, work>>
  BY <1>1
<1>3. PICK e \in Entries : events' = Append(events, e) /\ e.id = id
  BY <1>2, LogTyped DEF Issued, Settings
<1>4. <<"command", id>> \notin sent
  BY <1>2 DEF Issued, BusInv
<1>5. events \in Seq(Entries)
  BY DEF TypeInv, StoreTypes
<1>6. /\ \A i \in DOMAIN events : i \in DOMAIN events' /\ events'[i] = events[i]
      /\ \A i \in DOMAIN events' : i \in DOMAIN events \/ events'[i] = e
  BY <1>3, <1>5, Logged
<1>7. \A i \in DOMAIN events' : i \in DOMAIN events \/ ~ByMessage(i)'
  BY <1>2, <1>3, <1>4, <1>6 DEF ByMessage
<1>8. \A i \in DOMAIN events : Unshown(i) => Unshown(i)'
  BY <1>2, <1>6 DEF Unshown, At
<1> QED BY <1>2, <1>7, <1>8, StatsSame

LEMMA StatsKept ==
  ASSUME IInv, [Next]_vars
  PROVE  StatsInv'
<1>1. TypeInv /\ StoreInv /\ BusInv /\ StatsInv /\ Frame
  BY Framed DEF IInv
<1>2. CASE Noting
  BY <1>1, <1>2, StatsNoted
<1>3. CASE Taking
  BY <1>1, <1>3, StatsTaken
<1>4. CASE RefreshingStats
  BY <1>1, <1>4, StatsRefreshed
<1>5. CASE Sending \/ Opening \/ Calling
  <2>1. UNCHANGED <<events, views, stats, applied, work>>
    BY <1>5 DEF Sending, Sends, Opening, Calling, tables
  <2>2. \A i \in DOMAIN events : Unshown(i) => Unshown(i)'
    BY <2>1 DEF Unshown, At
  <2> QED BY <1>1, <2>1, <2>2, StatsSame
<1>6. CASE Working \/ RefreshingQueue \/ Publish \/ Projected
  <2>1. UNCHANGED <<events, views, stats>> /\ \A i \in DOMAIN events : Unshown(i) => Unshown(i)'
    BY <1>6 DEF Working, RefreshingQueue, RefreshQueue, Publish, Projected, tables
  <2> QED BY <1>1, <2>1, StatsSame
<1> QED BY <1>2, <1>3, <1>4, <1>5, <1>6, Steps

-----------------------------------------------------------------------------
(* The invariant *)

LEMMA Initial == Init => IInv
<1> SUFFICES ASSUME Init PROVE IInv
  OBVIOUS
<1> USE DEF Init, StoreInit, Bus!Init
<1>1. TypeInv
  <2>1. StoreTypes /\ DerivedTypes
    BY StoreAssumption DEF StoreTypes, DerivedTypes
  <2>2. BusTypes
    BY DEF BusTypes, Works
  <2>3. OtherTypes
    BY ServiceAssumption DEF OtherTypes
  <2> QED BY <2>1, <2>2, <2>3 DEF TypeInv
<1>2. StoreInv /\ BusInv
  BY DEF StoreInv, BusInv, Exists, ViewsFollow
<1>3. StatsInv
  BY DEF StatsInv, StatRows, Exists, Tickets
<1>4. \A p \in Procs : WorkKnows(p)
  BY IdleIsNone DEF WorkKnows, At, Projecting
<1> QED BY <1>1, <1>2, <1>3, <1>4 DEF IInv

LEMMA Inductive == IInv /\ [Next]_vars => IInv'
  BY Framed, StoreKept, BusKept, StatsKept DEF IInv

LEMMA Invariance == Spec => []IInv
  BY Initial, Inductive, PTL DEF Spec

\* The tables, the messages and what processes and calls hold are of their types.
THEOREM TypeCorrect == Spec => []TypeOK
<1>1. IInv => TypeOK
  <2> SUFFICES ASSUME IInv PROVE TypeOK
    OBVIOUS
  <2>1. StoreTypes /\ DerivedTypes /\ BusTypes /\ OtherTypes
    BY DEF IInv, TypeInv
  <2>2. ASSUME NEW i \in DOMAIN events
        PROVE  events[i].id \in Ids /\ events[i].thread \in Threads /\ events[i].by \in ActorTypes
    <3>1. events \in Seq(Entries)
      BY <2>1 DEF StoreTypes
    <3>2. events[i] \in Entries
      BY <3>1
    <3> QED BY <3>2 DEF Entries
  <2>3. /\ threads \in [Threads -> {Absent} \union
             [state : ForumStates, priority : ForumPriorities, assignee : Assignees \union {Nobody}]]
        /\ posts \in [Threads -> SUBSET Ids]
        /\ \A t \in Threads : Exists(t) =>
             views[t] \in [state : ForumStates, priority : ForumPriorities,
                           assignee : Assignees \union {Nobody}, posts : Nat]
    BY <2>1 DEF StoreTypes, Rows, ViewRows, Exists
  <2>4. \A p \in Procs : work[p] # Idle => work[p].pc \in Labels /\ work[p].msg \in sent
    BY <2>1 DEF BusTypes, Works, Applying, Publishing, Projecting, Labels
  <2>5. \A k \in calls : k.pc \in CallSteps /\ k.thread \in Threads /\ k.by \in ActorTypes
    <3> SUFFICES ASSUME NEW k \in calls PROVE k.pc \in CallSteps /\ k.thread \in Threads /\ k.by \in ActorTypes
      OBVIOUS
    <3>1. k \in PlainCalls \union SignalCalls
      BY <2>1 DEF OtherTypes
    <3> QED BY <3>1, ServiceAssumption DEF PlainCalls, SignalCalls, CallSteps
  <2> QED BY <2>1, <2>2, <2>3, <2>4, <2>5 DEF TypeOK, DerivedTypes, BusTypes, OtherTypes
<1> QED BY <1>1, Invariance, PTL

\* What a reader is shown of a thread is what the base tables say, at every moment.
THEOREM ViewsCorrect == Spec => []ViewsFollow
<1>1. IInv => ViewsFollow
  BY DEF IInv, StoreInv
<1> QED BY <1>1, Invariance, PTL

\* A queue row that does not count an event that a message caused is still owed the
\* refresh: when command and event have been handled the second projection was recorded,
\* and its refresh had counted every event of that id.
THEOREM QueueCorrect == Spec => []QueueOwed
<1>1. IInv => QueueOwed
  <2> SUFFICES ASSUME IInv, NEW i \in DOMAIN events, <<"command", events[i].id>> \in done,
                      <<"event", events[i].id>> \notin sent \ done
               PROVE  queue[events[i].thread] # Absent /\ queue[events[i].thread].last >= i
    BY DEF QueueOwed
  <2>1. events[i].id \in Ids
    <3>1. events \in Seq(Entries)
      BY DEF IInv, TypeInv, StoreTypes
    <3>2. events[i] \in Entries
      BY <3>1
    <3> QED BY <3>2 DEF Entries
  <2>2. <<"event", events[i].id>> \in sent
    BY <2>1 DEF IInv, BusInv
  <2>3. <<"event", events[i].id>> \in done /\ 2 \in 1..3
    BY <2>2
  <2>4. <<2, events[i].id>> \in applied
    BY <2>1, <2>3 DEF IInv, BusInv
  <2>5. Counted(events[i].id)
    BY <2>1, <2>4 DEF IInv, BusInv
  <2> QED BY <2>5 DEF Counted, Covered
<1> QED BY <1>1, Invariance, PTL

\* When all messages about a ticket's threads have been handled, and every thread has had
\* one, the statistics are right although no transaction covers them: an event that they
\* do not show belongs to a message that has still to be handled.
THEOREM StatsCorrect == Spec => []StatsSettled
<1>1. IInv => StatsSettled
  <2> SUFFICES ASSUME IInv, NEW k \in Tickets,
                      \A t \in Threads : TicketOf[t] = k /\ Exists(t) =>
                        MessagesOf(t) # {} /\ MessagesOf(t) \subseteq done,
                      stats[k] # StatRows(k)
               PROVE  FALSE
    BY DEF StatsSettled
  <2>1. PICK t \in Threads :
          /\ TicketOf[t] = k /\ Exists(t)
          /\ \/ \E i \in DOMAIN events : events[i].thread = t /\ ByMessage(i) /\ Unshown(i)
             \/ \A i \in DOMAIN events : events[i].thread = t => ~ByMessage(i)
    BY DEF IInv, StatsInv, Owed
  <2>2. MessagesOf(t) # {} /\ MessagesOf(t) \subseteq done
    BY <2>1
  <2>3. ASSUME NEW m \in sent, cmds[m[2]].thread = t
        PROVE  /\ m[2] \in Ids /\ <<"command", m[2]>> \in done /\ <<"event", m[2]>> \in sent
               /\ EventExists(m[2])
    <3>1. m \in done /\ m \in Messages
      BY <2>2, <2>3 DEF MessagesOf, IInv, TypeInv, BusTypes
    <3>2. m[2] \in Ids /\ (m = <<"command", m[2]>> \/ m = <<"event", m[2]>>)
      BY <3>1 DEF Messages
    <3>3. <<"event", m[2]>> \in sent
      BY <2>3, <3>1, <3>2 DEF IInv, BusInv
    <3> QED BY <3>2, <3>3 DEF IInv, BusInv
  <2>4. \A i \in DOMAIN events : cmds[events[i].id].thread = events[i].thread /\ events[i].id \in Ids
    <3>1. events \in Seq(Entries)
      BY DEF IInv, TypeInv, StoreTypes
    <3>2. \A i \in DOMAIN events : events[i] \in Entries
      BY <3>1
    <3> QED BY <3>2 DEF IInv, StoreInv, Entries
  <2>5. CASE \E i \in DOMAIN events : events[i].thread = t /\ ByMessage(i) /\ Unshown(i)
    <3>1. PICK i \in DOMAIN events : events[i].thread = t /\ ByMessage(i) /\ Unshown(i)
      BY <2>5
    <3> DEFINE id == events[i].id
    <3>2. id \in Ids /\ cmds[id].thread = t /\ <<"command", id>> \in sent
      BY <2>4, <3>1 DEF ByMessage
    <3>3. <<"event", id>> \in sent
      <4>1. <<"command", id>>[2] = id
        OBVIOUS
      <4> QED BY <2>3, <3>2, <4>1
    <3>4. <<"event", id>> \in done
      <4>1. <<"event", id>> \in MessagesOf(t)
        BY <3>2, <3>3 DEF MessagesOf
      <4> QED BY <2>2, <4>1
    <3>5. <<3, id>> \in applied
      <4>1. 3 \in 1..3
        OBVIOUS
      <4> QED BY <3>2, <3>4, <4>1 DEF IInv, BusInv
    <3> QED BY <3>1, <3>5 DEF Unshown
  <2>6. CASE \A i \in DOMAIN events : events[i].thread = t => ~ByMessage(i)
    <3>1. PICK m \in sent : cmds[m[2]].thread = t
      BY <2>2 DEF MessagesOf
    <3>2. m[2] \in Ids /\ <<"command", m[2]>> \in sent /\ EventExists(m[2])
      BY <2>3, <3>1 DEF IInv, TypeInv, BusTypes
    <3>3. PICK i \in DOMAIN events : events[i].id = m[2]
      BY <3>2 DEF EventExists
    <3> QED BY <2>4, <2>6, <3>1, <3>2, <3>3 DEF ByMessage
  <2> QED BY <2>1, <2>5, <2>6
<1> QED BY <1>1, Invariance, PTL

-----------------------------------------------------------------------------
(* The forum implements ForumLog *)

\* The ids of the log grow with it.
LEMMA IdsLogged ==
  ASSUME events \in Seq(Entries), NEW e \in Entries, events' = Append(events, e)
  PROVE  [i \in DOMAIN events' |-> events'[i].id] = Append([i \in DOMAIN events |-> events[i].id], e.id)
<1> DEFINE old == [i \in DOMAIN events |-> events[i].id]
           now == [i \in DOMAIN events' |-> events'[i].id]
<1>1. /\ \A i \in DOMAIN events : i \in DOMAIN events' /\ events'[i] = events[i]
      /\ \A i \in DOMAIN events' : i \in DOMAIN events \/ i = Len(events) + 1
      /\ events'[Len(events) + 1] = e
      /\ DOMAIN events' = 1..(Len(events) + 1) /\ DOMAIN events = 1..Len(events) /\ Len(events) \in Nat
      /\ events' \in Seq(Entries)
  BY Logged
<1>2. /\ \A i \in DOMAIN events : events[i].id \in Ids
      /\ \A i \in DOMAIN events' : events'[i].id \in Ids
      /\ e.id \in Ids
  <2>1. /\ \A i \in DOMAIN events : events[i] \in Entries
        /\ \A i \in DOMAIN events' : events'[i] \in Entries
    BY <1>1
  <2> QED BY <2>1 DEF Entries
<1>3. old \in Seq(Ids) /\ Len(old) = Len(events) /\ now \in Seq(Ids) /\ Len(now) = Len(events) + 1
  <2>1. old \in [1..Len(events) -> Ids] /\ now \in [1..(Len(events) + 1) -> Ids]
    BY <1>1, <1>2
  <2> HIDE DEF old, now
  <2> QED BY <1>1, <2>1
<1>4. /\ \A i \in 1..Len(events) : now[i] = old[i]
      /\ now[Len(events) + 1] = e.id
  BY <1>1
<1> HIDE DEF old, now
<1>5. /\ Append(old, e.id) \in Seq(Ids) /\ Len(Append(old, e.id)) = Len(events) + 1
      /\ \A i \in 1..Len(events) : Append(old, e.id)[i] = old[i]
      /\ Append(old, e.id)[Len(events) + 1] = e.id
  BY <1>2, <1>3, AppendProperties
<1>6. now = Append(old, e.id)
  <2>1. \A i \in 1..Len(now) : now[i] = Append(old, e.id)[i]
    BY <1>1, <1>3, <1>4, <1>5
  <2> QED BY <1>3, <1>5, <2>1, SeqEqual
<1> QED BY <1>6 DEF old, now

LEMMA DrawnThere ==
  ASSUME TypeInv, NEW id \in Ids, NEW c, Issued(id, c)
  PROVE  Abstract!Draw(id) /\ cmds'[id] = c
<1>1. /\ cmds'[id] = c /\ c # Undrawn
      /\ \A j \in Ids : j # id => cmds'[j] = cmds[j]
  BY IdIssued DEF TypeInv
<1> QED BY <1>1 DEF Abstract!Draw, Issued

LEMMA StepThere ==
  ASSUME IInv, [Next]_vars
  PROVE  [Abstract!Next]_(Abstract!logVars)
<1> USE DEF Abstract!Next
<1>0. TypeInv /\ StoreInv /\ events \in Seq(Entries)
  BY DEF IInv, TypeInv, StoreTypes
<1>1. CASE Sending
  <2>1. PICK id \in Ids : \E c : Sends(id, c) /\ Abstract!Legal(c)
    BY <1>1 DEF Sending
  <2>2. PICK c : Sends(id, c) /\ Abstract!Legal(c)
    BY <2>1
  <2>3. Abstract!Draw(id) /\ cmds'[id] = c
    BY <1>0, <2>2, DrawnThere DEF Sends
  <2>4. events' = events /\ views' = views
    BY <2>2 DEF Sends, tables
  <2>5. Abstract!Issue(id)
    BY <2>2, <2>3, <2>4 DEF Abstract!Issue
  <2> QED BY <2>5
<1>2. CASE Opening
  <2>1. PICK id \in Ids : \E c : Issued(id, c) /\ c.kind = "open"
    BY <1>2 DEF Opening
  <2>2. PICK c : Issued(id, c) /\ c.kind = "open"
    BY <2>1
  <2>3. Abstract!Draw(id) /\ cmds'[id] = c
    BY <1>0, <2>2, DrawnThere
  <2>4. events' = events /\ views' = views
    BY <1>2 DEF Opening, tables
  <2>5. Abstract!Legal(c)
    BY <2>2 DEF Abstract!Legal
  <2>6. Abstract!Issue(id)
    BY <2>3, <2>4, <2>5 DEF Abstract!Issue
  <2> QED BY <2>6
<1>3. CASE Noting
  <2>1. PICK id \in Ids : \E c : Issued(id, c) /\ c.kind = "docs_sync" /\ Log(c, None) /\ views' = views
    BY <1>3 DEF Noting
  <2>2. PICK c : Issued(id, c) /\ c.kind = "docs_sync" /\ Log(c, None) /\ views' = views
    BY <2>1
  <2>3. Abstract!Draw(id) /\ cmds'[id] = c
    BY <1>0, <2>2, DrawnThere
  <2>4. PICK e \in Entries : events' = Append(events, e) /\ e.id = id
    BY <2>2, LogTyped DEF Issued, Settings
  <2>5. [i \in DOMAIN events' |-> events'[i].id] = Append([i \in DOMAIN events |-> events[i].id], id)
    BY <1>0, <2>4, IdsLogged
  <2>6. Abstract!Note(id)
    BY <2>2, <2>3, <2>5 DEF Abstract!Note
  <2> QED BY <2>6
<1>4. CASE Taking
  <2>1. PICK id \in Ids, from \in ViewRows \union {Absent} :
          /\ cmds[id] # Undrawn
          /\ cmds[id].kind # "open" => Exists(cmds[id].thread) /\ from \in ViewRows
          /\ Transaction(cmds[id], from) /\ cmds' = cmds
    BY <1>4 DEF Taking
  <2> SUFFICES ASSUME NEW c, c = cmds[id], NEW t, t = c.thread PROVE [Abstract!Next]_(Abstract!logVars)
    OBVIOUS
  <2>2. /\ c # Undrawn /\ (c.kind # "open" => Exists(c.thread) /\ from \in ViewRows)
        /\ Transaction(c, from)
    BY <2>1
  <2>3. t \in Threads /\ ~EventExists(id) /\ Effect(id, c, t)
    BY <1>0, <2>2, Transacted
  <2>4. PICK e \in Entries : events' = Append(events, e) /\ e.id = id
    BY <2>3 DEF Effect
  <2>5. [i \in DOMAIN events' |-> events'[i].id] = Append([i \in DOMAIN events |-> events[i].id], id)
    BY <1>0, <2>4, IdsLogged
  <2>6. ~Abstract!InLog(id)
    BY <2>3 DEF Abstract!InLog, EventExists
  <2>7. /\ views' = [views EXCEPT ![t] = Abstract!After(views[t], c)]
        /\ c.kind = "open" <=> ~Exists(t)
    BY <2>3 DEF Effect
  <2>8. Abstract!TakeEffect(id)
    BY <2>1, <2>2, <2>5, <2>6, <2>7 DEF Abstract!TakeEffect, Abstract!Exists, Exists
  <2> QED BY <2>8
<1>5. CASE ~Sending /\ ~Opening /\ ~Noting /\ ~Taking
  <2>1. cmds' = cmds /\ events' = events /\ views' = views
    BY <1>5, Steps DEF Calling, Working, RefreshingStats, RefreshStats, RefreshingQueue, RefreshQueue, Publish, Projected, tables
  <2> QED BY <2>1 DEF Abstract!logVars
<1> QED BY <1>1, <1>2, <1>3, <1>4, <1>5

\* Whatever handlers race, die or are given a message twice: each id that was drawn is
\* logged at most once, and the board is what the log adds up to.
THEOREM Implements == Spec => ImplementsLog
<1>1. Init => Abstract!Init
  <2> SUFFICES ASSUME Init PROVE Abstract!Init
    OBVIOUS
  <2>1. events = << >> /\ views = [t \in Threads |-> Absent] /\ cmds = [i \in Ids |-> Undrawn]
    BY DEF Init, StoreInit
  <2>2. [i \in DOMAIN events |-> events[i].id] = << >>
    BY <2>1
  <2> QED BY <2>1, <2>2 DEF Abstract!Init
<1>2. IInv /\ [Next]_vars => [Abstract!Next]_(Abstract!logVars)
  BY StepThere
<1> QED BY <1>1, <1>2, Invariance, PTL DEF Spec, ImplementsLog, Abstract!Spec

=============================================================================
