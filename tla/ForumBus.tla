------------------------------ MODULE ForumBus ------------------------------
(***************************************************************************)
(* The transport of forum commands and events: internal/forumbus/runtime.go*)
(* over the forum_outbox table (internal/store/sqlite_forum.go) and Redis  *)
(* streams.                                                                *)
(*                                                                         *)
(* Publishing a message inserts an outbox row.  Every process that serves  *)
(* or uses the forum runs ProcessOnce over and over: it claims a batch of  *)
(* rows, writes them to the stream, marks them sent, and then handles what *)
(* its subscription delivers.  Redis (external) keeps a message it has     *)
(* delivered until it is acknowledged: it is delivered again after a       *)
(* negative acknowledgement, after the consumer died, and to a second      *)
(* consumer when the first one takes too long.                             *)
(***************************************************************************)
EXTENDS Integers, Sequences, FiniteSets

CONSTANTS
  Procs,      \* processes that run the bus
  NumMsgs,    \* bound: messages published, in the order of their row ids
  Limit,      \* the limit ProcessOnce is called with
  Unhandled,  \* messages of a topic that has no handler
  MaxFailed,  \* bound: failures of handlers and of Redis
  Env         \* what may go wrong, see BusEvents

\* handler: a handler returns an error.   redis: XADD fails.
\* store: an outbox UPDATE fails.          crash: a process dies.
\* slow: a handler outlives the idle time after which Redis lets another
\* consumer claim its message.
BusEvents == {"handler", "redis", "store", "crash", "slow"}

Msgs == 1..NumMsgs
None == 0

ASSUME BusAssumption ==
  /\ NumMsgs \in Nat /\ MaxFailed \in Nat
  /\ Limit \in Nat \ {0}
  /\ Unhandled \subseteq Msgs
  /\ Env \subseteq BusEvents

VARIABLES
  outbox,   \* forum_outbox.status of each message, "absent" before the INSERT
  stream,   \* Redis: copies that no consumer has been given yet
  held,     \* Redis: the copy each process was given and has not acknowledged
  handled,  \* how often each message's handler has succeeded
  work,     \* each process's position in ProcessOnce
  failures  \* failures so far

vars == <<outbox, stream, held, handled, work, failures>>

OutboxStatus == {"pending", "processing", "failed", "sent"}
Labels == {"idle", "list", "publish", "mark", "consume", "ack"}

Idle == [pc |-> "idle", batch |-> {}]

At(p, label)   == work[p].pc = label
Goto(p, label) == work' = [work EXCEPT ![p].pc = label]

Unsent      == {m \in Msgs : outbox[m] \in {"pending", "failed"}}
InStream(m) == \E i \in 1..Len(stream) : stream[i] = m
IsHeld(m)   == \E p \in Procs : held[p] = m
IsFirst(m, S) == m \in S /\ \A n \in S : m <= n

\* Each failure is counted, so that TLC sees finitely many.
Fails(event) ==
  /\ event \in Env
  /\ failures < MaxFailed
  /\ failures' = failures + 1

-----------------------------------------------------------------------------
TypeOK ==
  /\ outbox   \in [Msgs -> OutboxStatus \union {"absent"}]
  /\ stream   \in Seq(Msgs)
  /\ held     \in [Procs -> Msgs \union {None}]
  /\ handled  \in [Msgs -> Nat]
  /\ work     \in [Procs -> [pc : Labels, batch : SUBSET Msgs]]
  /\ failures \in Nat

Init ==
  /\ outbox   = [m \in Msgs |-> "absent"]
  /\ stream   = << >>
  /\ held     = [p \in Procs |-> None]
  /\ handled  = [m \in Msgs |-> 0]
  /\ work     = [p \in Procs |-> Idle]
  /\ failures = 0

\* Runtime.Publish and EnqueueForumOutbox: rows are inserted in id order.
Publish(m) ==
  /\ outbox[m] = "absent"
  /\ \A n \in Msgs : n < m => outbox[n] # "absent"
  /\ outbox' = [outbox EXCEPT ![m] = "pending"]
  /\ UNCHANGED <<stream, held, handled, work, failures>>

-----------------------------------------------------------------------------
(* flushOutboxToRedis *)

\* Mutant: the rows are selected and their status is left as it is.
Claim_NotMarked(p) ==
  /\ At(p, "idle")
  /\ work' = [work EXCEPT ![p] = [pc |-> "publish", batch |-> Unsent]]
  /\ UNCHANGED <<outbox, stream, held, handled, failures>>

\* ClaimForumOutboxPending: one transaction marks the oldest Limit rows.
Claim(p) ==
  /\ At(p, "idle")
  /\ \E S \in SUBSET Unsent :
       /\ \A m \in S : \A n \in Unsent \ S : m < n
       /\ IF Cardinality(Unsent) <= Limit THEN S = Unsent
                                          ELSE Cardinality(S) = Limit
       /\ outbox' = [m \in Msgs |-> IF m \in S THEN "processing" ELSE outbox[m]]
       /\ work' = [work EXCEPT ![p] = [pc |-> "list", batch |-> S]]
  /\ UNCHANGED <<stream, held, handled, failures>>

\* A second statement reads the marked rows back, except those that another
\* process has updated in between.
List(p) ==
  /\ At(p, "list")
  /\ work' = [work EXCEPT ![p].pc = "publish",
                          ![p].batch = {m \in @ : outbox[m] = "processing"}]
  /\ UNCHANGED <<outbox, stream, held, handled, failures>>

\* The batch goes on: a message of a topic without a handler is not published.
SkipUnhandled(p) ==
  /\ At(p, "publish")
  /\ \E m \in work[p].batch :
       /\ IsFirst(m, work[p].batch) /\ m \in Unhandled
       /\ outbox' = [outbox EXCEPT ![m] = "failed"]
       /\ work' = [work EXCEPT ![p].batch = @ \ {m}]
  /\ UNCHANGED <<stream, held, handled, failures>>

\* The error of that UPDATE is ignored: the row stays in processing, outside any batch.
SkipFails(p) ==
  /\ At(p, "publish")
  /\ \E m \in work[p].batch :
       /\ IsFirst(m, work[p].batch) /\ m \in Unhandled
       /\ work' = [work EXCEPT ![p].batch = @ \ {m}]
  /\ Fails("store")
  /\ UNCHANGED <<outbox, stream, held, handled>>

\* Mutant: the error of publisher.Publish is dropped.
PublishFails_Ignored(p) ==
  /\ At(p, "publish")
  /\ work[p].batch # {}
  /\ Goto(p, "mark")
  /\ Fails("redis")
  /\ UNCHANGED <<outbox, stream, held, handled>>

PublishToRedis(p) ==
  /\ At(p, "publish")
  /\ \E m \in work[p].batch :
       /\ IsFirst(m, work[p].batch) /\ m \notin Unhandled
       /\ stream' = Append(stream, m)
  /\ Goto(p, "mark")
  /\ UNCHANGED <<outbox, held, handled, failures>>

\* The row is marked failed; an error of that UPDATE is ignored.
PublishFails(p) ==
  /\ At(p, "publish")
  /\ \E m \in work[p].batch :
       /\ IsFirst(m, work[p].batch) /\ m \notin Unhandled
       /\ \/ outbox' = [outbox EXCEPT ![m] = "failed"]
          \/ "store" \in Env /\ outbox' = outbox
       /\ work' = [work EXCEPT ![p].batch = @ \ {m}]
  /\ Fails("redis")
  /\ UNCHANGED <<stream, held, handled>>

\* MarkForumOutboxSent does not look at the status the row has by now.
MarkSent(p) ==
  /\ At(p, "mark")
  /\ \E m \in work[p].batch :
       /\ IsFirst(m, work[p].batch)
       /\ outbox' = [outbox EXCEPT ![m] = "sent"]
       /\ work' = [work EXCEPT ![p] = [pc |-> "publish", batch |-> @.batch \ {m}]]
  /\ UNCHANGED <<stream, held, handled, failures>>

\* Its error ends ProcessOnce: the rest of the batch stays in processing.
MarkSentFails(p) ==
  /\ At(p, "mark")
  /\ work' = [work EXCEPT ![p] = Idle]
  /\ Fails("store")
  /\ UNCHANGED <<outbox, stream, held, handled>>

FlushEnd(p) ==
  /\ At(p, "publish") /\ work[p].batch = {}
  /\ Goto(p, "consume")
  /\ UNCHANGED <<outbox, stream, held, handled, failures>>

-----------------------------------------------------------------------------
(* The subscription (external) and consumeRedisMessages *)

Deliver(p) ==
  /\ held[p] = None /\ stream # << >>
  /\ held' = [held EXCEPT ![p] = Head(stream)]
  /\ stream' = Tail(stream)
  /\ UNCHANGED <<outbox, handled, work, failures>>

\* Another consumer claims a message that p is still working on.
ClaimSlow(p, q) ==
  /\ p # q /\ held[p] # None /\ held[q] = None
  /\ held' = [held EXCEPT ![q] = held[p]]
  /\ Fails("slow")
  /\ UNCHANGED <<outbox, stream, handled, work>>

HandlerSucceeds(p) ==
  /\ At(p, "consume") /\ held[p] # None
  /\ handled' = [handled EXCEPT ![held[p]] = @ + 1]
  /\ Goto(p, "ack")
  /\ UNCHANGED <<outbox, stream, held, failures>>

\* Mutant: a message whose handler failed is acknowledged.
HandlerFails_Acked(p) ==
  /\ At(p, "consume") /\ held[p] # None
  /\ held' = [held EXCEPT ![p] = None]
  /\ Fails("handler")
  /\ UNCHANGED <<outbox, stream, handled, work>>

\* The row is marked failed, to be published again, and the negative
\* acknowledgement makes Redis deliver this copy again as well.
HandlerFails(p) ==
  /\ At(p, "consume") /\ held[p] # None
  /\ \/ outbox' = [outbox EXCEPT ![held[p]] = "failed"]
     \/ "store" \in Env /\ outbox' = outbox
  /\ Fails("handler")
  /\ UNCHANGED <<stream, held, handled, work>>

\* The observers have been notified in between.
Ack(p) ==
  /\ At(p, "ack")
  /\ held' = [held EXCEPT ![p] = None]
  /\ Goto(p, "consume")
  /\ UNCHANGED <<outbox, stream, handled, failures>>

\* Mutant: a pass goes on waiting for messages and flushes no more.
ConsumeEnd_WaitsForever(p) ==
  /\ At(p, "consume") /\ held[p] # None
  /\ work' = [work EXCEPT ![p] = Idle]
  /\ UNCHANGED <<outbox, stream, held, handled, failures>>

\* The limit, or 300 ms without a message, ends the pass.
ConsumeEnd(p) ==
  /\ At(p, "consume")
  /\ work' = [work EXCEPT ![p] = Idle]
  /\ UNCHANGED <<outbox, stream, held, handled, failures>>

\* The process dies, or is stopped; what it held is delivered again.
Crash(p) ==
  /\ Fails("crash")
  /\ work' = [work EXCEPT ![p] = Idle]
  /\ held' = [held EXCEPT ![p] = None]
  /\ stream' = IF held[p] = None THEN stream ELSE Append(stream, held[p])
  /\ UNCHANGED <<outbox, handled>>

Flush(p) ==
  \/ Claim(p) \/ List(p) \/ SkipUnhandled(p) \/ SkipFails(p)
  \/ PublishToRedis(p) \/ PublishFails(p) \/ MarkSent(p) \/ MarkSentFails(p) \/ FlushEnd(p)

Consume(p) == HandlerSucceeds(p) \/ HandlerFails(p) \/ Ack(p) \/ ConsumeEnd(p)

Next ==
  \/ \E m \in Msgs : Publish(m)
  \/ \E p \in Procs : Flush(p) \/ Consume(p) \/ Deliver(p) \/ Crash(p)
  \/ \E p, q \in Procs : ClaimSlow(p, q)

Spec == Init /\ [][Next]_vars

\* The worker loop of the daemon calls ProcessOnce again and again, its
\* statements end, and Redis delivers what is in a stream.  A pass does not end
\* for ever before the message that was delivered to it is handled.
FairSpec ==
  /\ Spec
  /\ \A p \in Procs : /\ WF_vars(Flush(p))
                      /\ WF_vars(Consume(p))
                      /\ SF_vars(HandlerSucceeds(p))
                      /\ WF_vars(Deliver(p))

-----------------------------------------------------------------------------
\* Somewhere between Redis and a successful handler.
Reached(m) == handled[m] > 0 \/ InStream(m) \/ IsHeld(m)

\* A row is marked sent only when its message has been handled or is certain to
\* be delivered, whatever processes crash, mark the row failed or mark it sent
\* out of turn.
SentIsSafe == \A m \in Msgs : outbox[m] = "sent" => Reached(m)

\* No published message is forgotten: it has reached Redis, or its row will be
\* claimed, or a live process has it in its batch.
NothingLost ==
  \A m \in Msgs : outbox[m] # "absent" =>
    \/ Reached(m)
    \/ m \in Unsent
    \/ \E p \in Procs : m \in work[p].batch

\* Processes that flush and consume side by side handle a message once, as long
\* as nothing fails.
HandledOnce == \A m \in Msgs : failures = 0 => handled[m] <= 1

\* Every published message is handled in the end, however often handlers and
\* Redis fail first.
EventuallyHandled ==
  \A m \in Msgs \ Unhandled : outbox[m] # "absent" ~> handled[m] > 0

\* And the outbox comes to rest: rows do not go round for ever.
OutboxSettles ==
  (\A m \in Msgs : outbox[m] # "absent") /\ Unhandled = {}
    ~> [](\A m \in Msgs : outbox[m] = "sent")

=============================================================================
