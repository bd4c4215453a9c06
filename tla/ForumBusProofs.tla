--------------------------- MODULE ForumBusProofs ---------------------------
(***************************************************************************)
(* Proofs about ForumBus for every set of processes, every number of       *)
(* messages and failures, and every set of events the environment may      *)
(* produce:                                                                *)
(*                                                                         *)
(*   TypeCorrect   the type invariant;                                     *)
(*   SentSafe      a row marked sent has reached Redis (SentIsSafe);       *)
(*   NeverLost     without crashes and failing outbox UPDATEs no published *)
(*                 message is forgotten (NothingLost).                     *)
(*   OnlyOnce      nothing is handled twice while nothing fails            *)
(*                 (HandledOnce).                                          *)
(*                                                                         *)
(* The argument is that Reached(m) is never undone (ReachedStable), so it  *)
(* is enough that it holds when the row is marked: a process that is about *)
(* to mark the first message of its batch has written it to the stream,    *)
(* and one that acknowledges a message has handled it.  Those two facts    *)
(* about local states are PositionInv.                                     *)
(*                                                                         *)
(* That a message is handled once is followed back along its way, while no *)
(* failure has been counted: no two processes hold one row (ClaimedOnce),  *)
(* a row that can still be sent has not been, but for the one a process is *)
(* about to mark (PublishedOnce), and there is one copy of a message among *)
(* the stream, what consumers hold and what is handled (CopiedOnce).       *)
(***************************************************************************)
EXTENDS ForumBus, SequenceTheorems, TLAPS

PositionInv ==
  \A p \in Procs :
    /\ At(p, "mark") => \A m \in work[p].batch : IsFirst(m, work[p].batch) => Reached(m)
    /\ At(p, "ack")  => held[p] # None /\ handled[held[p]] > 0

\* Outside flushOutboxToRedis a process holds no batch.
BatchInv == \A p \in Procs : work[p].pc \in {"idle", "consume", "ack"} => work[p].batch = {}

SentInv == TypeOK /\ PositionInv /\ SentIsSafe

LostInv == SentInv /\ BatchInv /\ NothingLost

-----------------------------------------------------------------------------
(* Streams *)

\* What was in the stream is still there after an XADD, and so is the new copy.
LEMMA AppendKeeps ==
  ASSUME NEW s \in Seq(Msgs), NEW e \in Msgs, NEW m
  PROVE  (\E i \in 1..Len(Append(s, e)) : Append(s, e)[i] = m)
           <=> (m = e \/ \E i \in 1..Len(s) : s[i] = m)
  BY AppendProperties

\* A delivery takes one copy out of the stream and leaves the others.
LEMMA TailKeeps ==
  ASSUME NEW s \in Seq(Msgs), s # << >>, NEW i \in 1..Len(s)
  PROVE  s[i] = Head(s) \/ \E j \in 1..Len(Tail(s)) : Tail(s)[j] = s[i]
<1>1. CASE i = 1
  BY <1>1
<1>2. CASE i # 1
  <2>1. i - 1 \in 1..Len(Tail(s)) /\ Tail(s)[i - 1] = s[i]
    BY <1>2, HeadTailProperties
  <2>2. QED BY <2>1
<1>3. QED BY <1>1, <1>2

-----------------------------------------------------------------------------
(* Types *)

LEMMA InitType == Init => TypeOK
  BY BusAssumption DEF Init, TypeOK, Idle, None, Labels, OutboxStatus, Msgs

LEMMA NextType == TypeOK /\ [Next]_vars => TypeOK'
<1> SUFFICES ASSUME TypeOK, [Next]_vars PROVE TypeOK'
  OBVIOUS
<1> USE DEF TypeOK, Labels, OutboxStatus, At, Goto, Idle, None, Fails
<1>1. ASSUME NEW m \in Msgs, Publish(m) PROVE TypeOK'
  BY <1>1 DEF Publish
<1>2. ASSUME NEW p \in Procs, Flush(p) PROVE TypeOK'
  <2>1. CASE Claim(p)
    <3>1. PICK S \in SUBSET Unsent :
            /\ outbox' = [m \in Msgs |-> IF m \in S THEN "processing" ELSE outbox[m]]
            /\ work' = [work EXCEPT ![p] = [pc |-> "list", batch |-> S]]
      BY <2>1 DEF Claim
    <3>2. S \subseteq Msgs
      BY DEF Unsent
    <3>3. QED BY <2>1, <3>1, <3>2 DEF Claim
  <2>2. CASE List(p)
    BY <2>2 DEF List
  <2>3. CASE SkipUnhandled(p)
    <3>1. PICK m \in work[p].batch :
            /\ outbox' = [outbox EXCEPT ![m] = "failed"]
            /\ work' = [work EXCEPT ![p].batch = @ \ {m}]
      BY <2>3 DEF SkipUnhandled
    <3>2. QED BY <2>3, <3>1 DEF SkipUnhandled
  <2>4. CASE PublishToRedis(p)
    <3>1. PICK m \in work[p].batch : stream' = Append(stream, m)
      BY <2>4 DEF PublishToRedis
    <3>2. stream' \in Seq(Msgs)
      BY <3>1, AppendProperties
    <3>3. QED BY <2>4, <3>2 DEF PublishToRedis
  <2>5. CASE PublishFails(p)
    <3>1. PICK m \in work[p].batch :
            /\ outbox' = [outbox EXCEPT ![m] = "failed"] \/ outbox' = outbox
            /\ work' = [work EXCEPT ![p].batch = @ \ {m}]
      BY <2>5 DEF PublishFails
    <3>2. failures' \in Nat /\ UNCHANGED <<stream, held, handled>>
      BY <2>5 DEF PublishFails
    <3>3. QED BY <3>1, <3>2
  <2>6. CASE MarkSent(p)
    BY <2>6 DEF MarkSent
  <2>7. CASE MarkSentFails(p)
    BY <2>7 DEF MarkSentFails
  <2>8. CASE FlushEnd(p)
    BY <2>8 DEF FlushEnd
  <2>9. CASE SkipFails(p)
    BY <2>9 DEF SkipFails
  <2>10. QED BY <1>2, <2>1, <2>2, <2>3, <2>4, <2>5, <2>6, <2>7, <2>8, <2>9 DEF Flush
<1>3. ASSUME NEW p \in Procs, Consume(p) PROVE TypeOK'
  <2>1. CASE HandlerSucceeds(p)
    <3>1. held[p] \in Msgs /\ handled[held[p]] + 1 \in Nat
      BY <2>1 DEF HandlerSucceeds
    <3>2. handled' \in [Msgs -> Nat]
      BY <2>1, <3>1 DEF HandlerSucceeds
    <3>3. QED BY <2>1, <3>2 DEF HandlerSucceeds
  <2>2. CASE HandlerFails(p)
    <3>1. outbox' = [outbox EXCEPT ![held[p]] = "failed"] \/ outbox' = outbox
      BY <2>2 DEF HandlerFails
    <3>2. outbox' \in [Msgs -> OutboxStatus \union {"absent"}]
      BY <3>1
    <3>3. failures' \in Nat /\ UNCHANGED <<stream, held, handled, work>>
      BY <2>2 DEF HandlerFails
    <3>4. QED BY <3>2, <3>3
  <2>3. CASE Ack(p)
    BY <2>3 DEF Ack
  <2>4. CASE ConsumeEnd(p)
    BY <2>4 DEF ConsumeEnd
  <2>5. QED BY <1>3, <2>1, <2>2, <2>3, <2>4 DEF Consume
<1>4. ASSUME NEW p \in Procs, Deliver(p) PROVE TypeOK'
  BY <1>4, HeadTailProperties DEF Deliver
<1>5. ASSUME NEW p \in Procs, Crash(p) PROVE TypeOK'
  <2>1. stream' \in Seq(Msgs)
    BY <1>5, AppendProperties DEF Crash
  <2>2. QED BY <1>5, <2>1 DEF Crash
<1>6. ASSUME NEW p \in Procs, NEW q \in Procs, ClaimSlow(p, q) PROVE TypeOK'
  BY <1>6 DEF ClaimSlow
<1>7. CASE UNCHANGED vars
  BY <1>7 DEF vars
<1>8. QED BY <1>1, <1>2, <1>3, <1>4, <1>5, <1>6, <1>7 DEF Next

\* Every variable of the bus keeps its type.
THEOREM TypeCorrect == Spec => []TypeOK
  BY InitType, NextType, PTL DEF Spec

-----------------------------------------------------------------------------
(* Sent rows *)

\* A process moves itself and touches its own copy only; ClaimSlow is the exception.
LEMMA OthersUnmoved ==
  ASSUME TypeOK, NEW p \in Procs, NEW q \in Procs, q # p,
         Flush(q) \/ Consume(q) \/ Deliver(q) \/ Crash(q)
  PROVE  work'[p] = work[p] /\ held'[p] = held[p]
  BY DEF Flush, Consume, Claim, List, SkipUnhandled, PublishToRedis, PublishFails,
     SkipFails, MarkSent, MarkSentFails, FlushEnd, HandlerSucceeds, HandlerFails, Ack, ConsumeEnd,
     Deliver, Crash, Goto, TypeOK

\* Nothing takes a message back: a copy leaves the stream only into a process's
\* hands, and a process lets go of a copy only after its handler succeeded, or by
\* dying, which puts the copy back.
LEMMA ReachedStable ==
  ASSUME TypeOK, PositionInv, [Next]_vars, NEW m \in Msgs, Reached(m)
  PROVE  Reached(m)'
<1> USE DEF TypeOK, Reached, InStream, IsHeld
<1>1. ASSUME NEW n \in Msgs, Publish(n) PROVE Reached(m)'
  BY <1>1 DEF Publish
<1>2. ASSUME NEW p \in Procs, Flush(p) PROVE Reached(m)'
  <2>1. CASE PublishToRedis(p)
    <3>1. PICK n \in work[p].batch : stream' = Append(stream, n)
      BY <2>1 DEF PublishToRedis
    <3>2. InStream(m) => InStream(m)'
      BY <3>1, AppendKeeps
    <3>3. QED BY <2>1, <3>2 DEF PublishToRedis
  <2>2. CASE UNCHANGED <<stream, held, handled>>
    BY <2>2
  <2>3. QED
    BY <1>2, <2>1, <2>2 DEF Flush, Claim, List, SkipUnhandled, SkipFails, PublishFails, MarkSent,
       MarkSentFails, FlushEnd
<1>3. ASSUME NEW p \in Procs, Consume(p) PROVE Reached(m)'
  <2>1. CASE HandlerSucceeds(p)
    BY <2>1 DEF HandlerSucceeds, None, Msgs
  <2>2. CASE HandlerFails(p)
    BY <2>2 DEF HandlerFails
  <2>3. CASE Ack(p)
    <3>1. CASE held[p] = m
      BY <2>3, <3>1 DEF Ack, PositionInv
    <3>2. CASE held[p] # m
      BY <2>3, <3>2 DEF Ack
    <3>3. QED BY <3>1, <3>2
  <2>4. CASE ConsumeEnd(p)
    BY <2>4 DEF ConsumeEnd
  <2>5. QED BY <1>3, <2>1, <2>2, <2>3, <2>4 DEF Consume
<1>4. ASSUME NEW p \in Procs, Deliver(p) PROVE Reached(m)'
  <2>1. InStream(m) => InStream(m)' \/ IsHeld(m)'
    <3>1. SUFFICES ASSUME NEW i \in 1..Len(stream), stream[i] = m
                   PROVE  InStream(m)' \/ IsHeld(m)'
      OBVIOUS
    <3>2. m = Head(stream) \/ \E j \in 1..Len(Tail(stream)) : Tail(stream)[j] = m
      BY <1>4, <3>1, TailKeeps DEF Deliver
    <3>3. QED BY <1>4, <3>2 DEF Deliver
  <2>2. IsHeld(m) => IsHeld(m)'
    BY <1>4 DEF Deliver, None, Msgs
  <2>3. QED BY <1>4, <2>1, <2>2 DEF Deliver
<1>5. ASSUME NEW p \in Procs, Crash(p) PROVE Reached(m)'
  <2>1. InStream(m) => InStream(m)'
    BY <1>5, AppendKeeps DEF Crash
  <2>2. IsHeld(m) => IsHeld(m)' \/ InStream(m)'
    <3>1. CASE held[p] = m
      BY <1>5, <3>1, AppendKeeps DEF Crash, None, Msgs
    <3>2. CASE held[p] # m
      BY <1>5, <3>2 DEF Crash
    <3>3. QED BY <3>1, <3>2
  <2>3. QED BY <1>5, <2>1, <2>2 DEF Crash
<1>6. ASSUME NEW p \in Procs, NEW q \in Procs, ClaimSlow(p, q) PROVE Reached(m)'
  BY <1>6 DEF ClaimSlow, None, Msgs
<1>7. CASE UNCHANGED vars
  BY <1>7 DEF vars
<1>8. QED BY <1>1, <1>2, <1>3, <1>4, <1>5, <1>6, <1>7 DEF Next

\* A handler that has succeeded has succeeded for ever.
LEMMA HandledStable ==
  ASSUME TypeOK, [Next]_vars
  PROVE  \A m \in Msgs : handled[m] > 0 => handled'[m] > 0
<1>1. ASSUME NEW p \in Procs, HandlerSucceeds(p)
      PROVE  \A m \in Msgs : handled[m] > 0 => handled'[m] > 0
  <2>1. handled' = [handled EXCEPT ![held[p]] = @ + 1] /\ held[p] \in Msgs
    BY <1>1 DEF HandlerSucceeds, TypeOK
  <2>2. QED BY <2>1 DEF TypeOK
<1>2. CASE UNCHANGED handled
  BY <1>2
<1>3. (\E p \in Procs : HandlerSucceeds(p)) \/ UNCHANGED handled
  BY DEF Next, vars, Publish, Flush, Claim, List, SkipUnhandled, PublishToRedis,
     SkipFails, PublishFails, MarkSent, MarkSentFails, FlushEnd, Consume, HandlerFails, Ack,
     ConsumeEnd, Deliver, Crash, ClaimSlow
<1>4. QED BY <1>1, <1>2, <1>3

\* A process that did not move, and whose copy was not touched, is in as good a
\* position as before.
LEMMA PositionStable ==
  ASSUME TypeOK, PositionInv, [Next]_vars, NEW p \in Procs,
         work'[p] = work[p], held'[p] = held[p]
  PROVE  /\ At(p, "mark")' => \A m \in work'[p].batch :
                                IsFirst(m, work'[p].batch) => Reached(m)'
         /\ At(p, "ack")'  => held'[p] # None /\ handled'[held'[p]] > 0
<1>1. At(p, "mark")' => \A m \in work'[p].batch :
                          IsFirst(m, work'[p].batch) => Reached(m)'
  BY ReachedStable DEF PositionInv, At, TypeOK
<1>2. \A m \in Msgs : handled[m] > 0 => handled'[m] > 0
  BY HandledStable
<1>3. QED BY <1>1, <1>2 DEF PositionInv, At, TypeOK

\* Whatever moves p, or touches its copy, leaves it in a good position.
LEMMA NextPosition == TypeOK /\ PositionInv /\ [Next]_vars => PositionInv'
<1> SUFFICES ASSUME TypeOK, PositionInv, [Next]_vars, NEW p \in Procs
             PROVE  /\ At(p, "mark")' => \A m \in work'[p].batch :
                                           IsFirst(m, work'[p].batch) => Reached(m)'
                    /\ At(p, "ack")'  => held'[p] # None /\ handled'[held'[p]] > 0
  BY DEF PositionInv, IsFirst
<1>1. CASE work'[p] = work[p] /\ held'[p] = held[p]
  BY <1>1, PositionStable
<1>2. CASE PublishToRedis(p)
  <2>1. PICK n \in work[p].batch : /\ IsFirst(n, work[p].batch)
                                   /\ stream' = Append(stream, n)
    BY <1>2 DEF PublishToRedis
  <2>2. work'[p].batch = work[p].batch /\ work'[p].pc = "mark"
    BY <1>2 DEF PublishToRedis, Goto, TypeOK
  <2>3. n \in Msgs /\ Reached(n)'
    BY <2>1, AppendKeeps DEF TypeOK, Reached, InStream
  <2>4. \A m \in work[p].batch : IsFirst(m, work[p].batch) => m = n
    BY <2>1, <2>3, BusAssumption DEF IsFirst, TypeOK, Msgs
  <2>5. QED BY <2>2, <2>3, <2>4 DEF At
<1>3. CASE HandlerSucceeds(p)
  <2>1. held'[p] = held[p] /\ held[p] \in Msgs /\ work'[p].pc = "ack"
    BY <1>3 DEF HandlerSucceeds, Goto, TypeOK
  <2>2. handled'[held[p]] = handled[held[p]] + 1 /\ handled[held[p]] \in Nat
    BY <1>3, <2>1 DEF HandlerSucceeds, TypeOK
  <2>3. QED BY <2>1, <2>2 DEF At, None, Msgs
<1>4. CASE held[p] = None /\ work'[p] = work[p]
  BY <1>4, PositionStable, ReachedStable DEF PositionInv, At, TypeOK
<1>5. CASE work'[p].pc \notin {"mark", "ack"}
  BY <1>5 DEF At
<1>6. QED
  <2>1. ASSUME NEW m \in Msgs, Publish(m)
        PROVE  work'[p] = work[p] /\ held'[p] = held[p]
    BY <2>1 DEF Publish
  <2>2. ASSUME NEW q \in Procs, q # p, Flush(q) \/ Consume(q) \/ Deliver(q) \/ Crash(q)
        PROVE  work'[p] = work[p] /\ held'[p] = held[p]
    BY <2>2, OthersUnmoved
  <2>3. ASSUME Flush(p)
        PROVE  PublishToRedis(p) \/ work'[p].pc \notin {"mark", "ack"}
    BY <2>3 DEF Flush, Claim, List, SkipUnhandled, SkipFails, PublishFails, MarkSent, MarkSentFails,
       FlushEnd, Goto, At, Idle, TypeOK
  <2>4. ASSUME Consume(p) \/ Deliver(p) \/ Crash(p)
        PROVE  \/ HandlerSucceeds(p)
               \/ work'[p].pc \notin {"mark", "ack"}
               \/ held[p] = None /\ work'[p] = work[p]
    BY <2>4 DEF Consume, HandlerFails, Ack, ConsumeEnd, Deliver, Crash, Goto, At, Idle,
       TypeOK
  <2>5. ASSUME NEW q \in Procs, NEW r \in Procs, ClaimSlow(q, r)
        PROVE  \/ work'[p] = work[p] /\ held'[p] = held[p]
               \/ held[p] = None /\ work'[p] = work[p]
    BY <2>5 DEF ClaimSlow, TypeOK
  <2>6. CASE UNCHANGED vars
    BY <2>6, <1>1 DEF vars
  <2>7. QED
    BY <1>1, <1>2, <1>3, <1>4, <1>5, <2>1, <2>2, <2>3, <2>4, <2>5, <2>6 DEF Next

\* MarkSent is the only action that marks a row sent.
LEMMA NextSent == SentInv /\ [Next]_vars => SentIsSafe'
<1> SUFFICES ASSUME SentInv, [Next]_vars, NEW m \in Msgs, outbox'[m] = "sent"
             PROVE  Reached(m)'
  BY DEF SentIsSafe
<1> USE DEF SentInv
<1>1. CASE outbox[m] = "sent"
  BY <1>1, ReachedStable DEF SentIsSafe
<1>2. ASSUME NEW p \in Procs, MarkSent(p), outbox[m] # "sent" PROVE Reached(m)'
  <2>1. m \in work[p].batch /\ IsFirst(m, work[p].batch) /\ At(p, "mark")
    BY <1>2 DEF MarkSent, TypeOK
  <2>2. Reached(m)
    BY <2>1 DEF PositionInv
  <2>3. QED BY <2>2, ReachedStable
<1>3. outbox[m] = "sent" \/ \E p \in Procs : MarkSent(p)
  BY DEF TypeOK, Next, vars, Publish, Flush, Claim, List, SkipUnhandled, PublishToRedis,
     SkipFails, PublishFails, MarkSentFails, FlushEnd, Consume, HandlerSucceeds, HandlerFails, Ack,
     ConsumeEnd, Deliver, Crash, ClaimSlow, Fails
<1>4. QED BY <1>1, <1>2, <1>3

LEMMA InitSent == Init => SentInv
<1> SUFFICES ASSUME Init PROVE PositionInv /\ SentIsSafe
  BY InitType DEF SentInv
<1>1. PositionInv
  BY DEF Init, PositionInv, At, Idle
<1>2. SentIsSafe
  BY DEF Init, SentIsSafe
<1>3. QED BY <1>1, <1>2

\* SentIsSafe: a row marked sent has been handled or is on its way in Redis,
\* whatever fails.
THEOREM SentSafe == Spec => []SentIsSafe
<1>1. SentInv /\ [Next]_vars => SentInv'
  BY NextType, NextPosition, NextSent DEF SentInv
<1>2. SentInv => SentIsSafe
  BY DEF SentInv
<1>3. QED BY <1>1, <1>2, InitSent, PTL DEF Spec

-----------------------------------------------------------------------------
(* Lost messages *)

LEMMA GotoKeepsBatch ==
  ASSUME TypeOK, NEW p \in Procs, NEW label, Goto(p, label)
  PROVE  \A q \in Procs : work'[q].batch = work[q].batch
<1> SUFFICES ASSUME NEW q \in Procs PROVE work'[q].batch = work[q].batch
  OBVIOUS
<1>1. work \in [Procs -> [pc : Labels, batch : SUBSET Msgs]]
  BY DEF TypeOK
<1>2. work' = [work EXCEPT ![p].pc = label]
  BY DEF Goto
<1>3. QED BY <1>1, <1>2

LEMMA NextBatch == TypeOK /\ BatchInv /\ [Next]_vars => BatchInv'
<1> SUFFICES ASSUME TypeOK, BatchInv, [Next]_vars, NEW p \in Procs,
                    work'[p].pc \in {"idle", "consume", "ack"}
             PROVE  work'[p].batch = {}
  BY DEF BatchInv
<1>1. CASE work'[p] = work[p]
  BY <1>1 DEF BatchInv
<1>2. CASE Flush(p)
  <2>1. CASE Claim(p) \/ List(p) \/ SkipUnhandled(p) \/ SkipFails(p) \/ PublishFails(p) \/ MarkSent(p)
    BY <2>1 DEF Claim, List, SkipUnhandled, SkipFails, PublishFails, MarkSent, At, TypeOK
  <2>2. CASE PublishToRedis(p) \/ FlushEnd(p)
    BY <2>2 DEF PublishToRedis, FlushEnd, Goto, TypeOK
  <2>3. CASE MarkSentFails(p)
    BY <2>3 DEF MarkSentFails, Idle, TypeOK
  <2>4. QED BY <1>2, <2>1, <2>2, <2>3 DEF Flush
<1>3. CASE Consume(p) \/ Crash(p)
  <2>1. CASE HandlerSucceeds(p) \/ Ack(p)
    <3>1. work[p].pc \in {"consume", "ack"} /\ work'[p].batch = work[p].batch
      BY <2>1 DEF HandlerSucceeds, Ack, Goto, At, TypeOK
    <3>2. QED BY <3>1 DEF BatchInv
  <2>2. CASE HandlerFails(p)
    <3>1. work' = work
      BY <2>2 DEF HandlerFails
    <3>2. QED BY <3>1, <1>1
  <2>3. CASE ConsumeEnd(p) \/ Crash(p)
    BY <2>3 DEF ConsumeEnd, Crash, Idle, TypeOK
  <2>4. QED BY <1>3, <2>1, <2>2, <2>3 DEF Consume
<1>4. Flush(p) \/ Consume(p) \/ Crash(p) \/ work'[p] = work[p]
  <2>1. CASE \E m \in Msgs : Publish(m)
    BY <2>1 DEF Publish
  <2>2. ASSUME NEW q \in Procs, Flush(q) \/ Consume(q) \/ Deliver(q) \/ Crash(q)
        PROVE  Flush(p) \/ Consume(p) \/ Crash(p) \/ work'[p] = work[p]
    BY <2>2, OthersUnmoved DEF Deliver
  <2>3. CASE \E q, r \in Procs : ClaimSlow(q, r)
    BY <2>3 DEF ClaimSlow
  <2>4. CASE UNCHANGED vars
    BY <2>4 DEF vars
  <2>5. QED BY <2>1, <2>2, <2>3, <2>4 DEF Next
<1>5. QED BY <1>1, <1>2, <1>3, <1>4

\* A message leaves a batch only when its row is claimable again, or when it has
\* reached Redis, unless the process dies or an UPDATE fails.
LEMMA NextLost ==
  ASSUME "crash" \notin Env, "store" \notin Env, LostInv, [Next]_vars
  PROVE  NothingLost'
<1> DEFINE Kept(m) == Reached(m) \/ m \in Unsent \/ \E p \in Procs : m \in work[p].batch
<1> SUFFICES ASSUME NEW m \in Msgs, outbox'[m] # "absent" PROVE Kept(m)'
  BY DEF NothingLost
<1> USE DEF LostInv, SentInv
<1> SUFFICES ASSUME ~Reached(m) PROVE Kept(m)'
  BY ReachedStable
<1>1. outbox[m] # "absent" => m \in Unsent \/ \E p \in Procs : m \in work[p].batch
  BY DEF NothingLost
<1>2. ASSUME NEW n \in Msgs, Publish(n) PROVE Kept(m)'
  BY <1>1, <1>2 DEF Publish, Unsent, TypeOK
<1>3. ASSUME NEW p \in Procs, Claim(p) PROVE Kept(m)'
  <2>1. PICK S \in SUBSET Unsent :
          /\ outbox' = [n \in Msgs |-> IF n \in S THEN "processing" ELSE outbox[n]]
          /\ work' = [work EXCEPT ![p] = [pc |-> "list", batch |-> S]]
    BY <1>3 DEF Claim
  <2>2. CASE m \in S
    BY <2>1, <2>2 DEF TypeOK
  <2>3. CASE m \notin S
    <3>1. outbox'[m] = outbox[m] /\ (m \in Unsent => m \in Unsent')
      BY <2>1, <2>3 DEF Unsent
    <3>2. ASSUME NEW q \in Procs, m \in work[q].batch PROVE q # p /\ m \in work'[q].batch
      BY <1>3, <2>1, <3>2 DEF Claim, At, BatchInv, TypeOK
    <3>3. QED BY <1>1, <3>1, <3>2
  <2>4. QED BY <2>2, <2>3
<1>4. ASSUME NEW p \in Procs, List(p) PROVE Kept(m)'
  <2>1. outbox' = outbox /\ (m \in Unsent => m \in Unsent')
    BY <1>4 DEF List, Unsent
  <2>2. ASSUME NEW q \in Procs, m \in work[q].batch
        PROVE  m \in Unsent \/ m \in work'[q].batch
    <3>1. outbox[m] \in {"pending", "failed", "processing"}
      BY <2>1 DEF TypeOK, OutboxStatus, SentIsSafe
    <3>2. QED BY <1>4, <2>2, <3>1 DEF List, Unsent, TypeOK
  <2>3. QED BY <1>1, <2>1, <2>2
<1>5. ASSUME NEW p \in Procs, NEW n \in work[p].batch,
             outbox' = [outbox EXCEPT ![n] = "failed"],
             work' = [work EXCEPT ![p].batch = @ \ {n}]
      PROVE  Kept(m)'
  <2>1. CASE n = m
    BY <1>5, <2>1 DEF Unsent, TypeOK
  <2>2. CASE n # m
    <3>1. outbox'[m] = outbox[m] /\ (m \in Unsent => m \in Unsent')
      BY <1>5, <2>2 DEF Unsent, TypeOK
    <3>2. ASSUME NEW q \in Procs, m \in work[q].batch PROVE m \in work'[q].batch
      BY <1>5, <2>2, <3>2 DEF TypeOK
    <3>3. QED BY <1>1, <3>1, <3>2
  <2>3. QED BY <2>1, <2>2
<1>6. ASSUME NEW p \in Procs, MarkSent(p) PROVE Kept(m)'
  <2>1. PICK n \in work[p].batch :
          /\ IsFirst(n, work[p].batch)
          /\ outbox' = [outbox EXCEPT ![n] = "sent"]
          /\ work' = [work EXCEPT ![p] = [pc |-> "publish", batch |-> @.batch \ {n}]]
    BY <1>6 DEF MarkSent
  <2>2. n # m
    BY <1>6, <2>1 DEF MarkSent, PositionInv
  <2>3. outbox'[m] = outbox[m] /\ (m \in Unsent => m \in Unsent')
    BY <2>1, <2>2 DEF Unsent, TypeOK
  <2>4. ASSUME NEW q \in Procs, m \in work[q].batch PROVE m \in work'[q].batch
    BY <2>1, <2>2, <2>4 DEF TypeOK
  <2>5. QED BY <1>1, <2>3, <2>4
<1>7. ASSUME /\ \/ outbox' = outbox
                \/ \E n \in Msgs : outbox' = [outbox EXCEPT ![n] = "failed"]
             /\ \A q \in Procs : work'[q].batch = work[q].batch
      PROVE  Kept(m)'
  <2>1. m \in Unsent => m \in Unsent'
    BY <1>7 DEF Unsent, TypeOK
  <2>2. outbox[m] # "absent" \/ m \in Unsent'
    BY <1>7 DEF Unsent, TypeOK
  <2>3. QED BY <1>1, <1>7, <2>1, <2>2
<1>8. ASSUME NEW p \in Procs, Flush(p) PROVE Kept(m)'
  <2>1. CASE SkipUnhandled(p)
    BY <1>5, <2>1 DEF SkipUnhandled
  <2>2. CASE PublishFails(p)
    BY <1>5, <2>2 DEF PublishFails
  <2>3. CASE PublishToRedis(p) \/ FlushEnd(p)
    <3>1. outbox' = outbox /\ \A q \in Procs : work'[q].batch = work[q].batch
      BY <2>3, GotoKeepsBatch DEF PublishToRedis, FlushEnd
    <3>2. QED BY <1>7, <3>1
  <2>4. ~MarkSentFails(p) /\ ~SkipFails(p)
    BY DEF MarkSentFails, SkipFails, Fails
  <2>5. QED BY <1>3, <1>4, <1>6, <1>8, <2>1, <2>2, <2>3, <2>4 DEF Flush
<1>9. ASSUME NEW p \in Procs, Consume(p) PROVE Kept(m)'
  <2>1. CASE HandlerSucceeds(p) \/ Ack(p)
    <3>1. outbox' = outbox /\ \A q \in Procs : work'[q].batch = work[q].batch
      BY <2>1, GotoKeepsBatch DEF HandlerSucceeds, Ack
    <3>2. QED BY <1>7, <3>1
  <2>2. CASE HandlerFails(p)
    <3>1. held[p] \in Msgs /\ outbox' = [outbox EXCEPT ![held[p]] = "failed"] /\ work' = work
      BY <2>2 DEF HandlerFails, TypeOK
    <3>2. QED BY <1>7, <3>1
  <2>3. CASE ConsumeEnd(p)
    <3>1. \A q \in Procs : work'[q].batch = work[q].batch
      BY <2>3 DEF ConsumeEnd, Idle, At, BatchInv, TypeOK
    <3>2. QED BY <1>7, <2>3, <3>1 DEF ConsumeEnd
  <2>4. QED BY <1>9, <2>1, <2>2, <2>3 DEF Consume
<1>10. CASE UNCHANGED <<outbox, work>>
  BY <1>7, <1>10
<1>11. QED
  BY <1>2, <1>8, <1>9, <1>10 DEF Next, vars, Deliver, ClaimSlow, Crash, Fails

LEMMA InitLost == Init => LostInv
<1> SUFFICES ASSUME Init PROVE BatchInv /\ NothingLost
  BY InitSent DEF LostInv
<1>1. BatchInv
  BY DEF Init, BatchInv, Idle
<1>2. NothingLost
  BY DEF Init, NothingLost
<1>3. QED BY <1>1, <1>2

\* NothingLost: as long as no process dies and no UPDATE of the outbox fails, every
\* published message is in Redis, handled, in a live batch, or will be claimed.
THEOREM NeverLost ==
  ASSUME "crash" \notin Env, "store" \notin Env
  PROVE  Spec => []NothingLost
<1>1. LostInv /\ [Next]_vars => LostInv'
  BY NextType, NextPosition, NextSent, NextBatch, NextLost DEF LostInv, SentInv
<1>2. LostInv => NothingLost
  BY DEF LostInv
<1>3. QED BY <1>1, <1>2, InitLost, PTL DEF Spec

-----------------------------------------------------------------------------
(* One handling *)

\* A row in a batch is being processed, and in no other batch.
ClaimedOnce ==
  /\ \A p, q \in Procs : p # q => work[p].batch \cap work[q].batch = {}
  /\ \A p \in Procs : \A m \in work[p].batch : outbox[m] = "processing"

\* What has reached Redis is not published again: it is marked sent, or about to be.
PublishedOnce ==
  \A m \in Msgs : Reached(m) =>
    outbox[m] = "sent" \/ \E p \in Procs : At(p, "mark") /\ IsFirst(m, work[p].batch)

\* There is one copy of a message, and once it is handled it is only held by the
\* process that is about to acknowledge it.
CopiedOnce ==
  /\ \A i, j \in 1..Len(stream) : stream[i] = stream[j] => i = j
  /\ \A m \in Msgs : InStream(m) => handled[m] = 0 /\ ~IsHeld(m)
  /\ \A p, q \in Procs : held[p] = held[q] /\ held[p] # None => p = q
  /\ \A p \in Procs : held[p] # None => handled[held[p]] = (IF At(p, "ack") THEN 1 ELSE 0)
  /\ \A m \in Msgs : handled[m] <= 1

OnceInv ==
  /\ TypeOK /\ PositionInv /\ BatchInv
  /\ failures = 0 => ClaimedOnce /\ PublishedOnce /\ CopiedOnce

LEMMA InitOnce == Init => OnceInv
<1> SUFFICES ASSUME Init PROVE OnceInv
  OBVIOUS
<1>1. TypeOK /\ PositionInv /\ BatchInv
  BY InitType, InitLost DEF LostInv, SentInv
<1>2. \A m \in Msgs : ~Reached(m)
  BY DEF Init, Reached, InStream, IsHeld, None, Msgs
<1>3. ClaimedOnce /\ PublishedOnce /\ CopiedOnce
  BY <1>2 DEF Init, ClaimedOnce, PublishedOnce, CopiedOnce, Reached, Idle, Msgs
<1>4. QED BY <1>1, <1>3 DEF OnceInv

\* The steps that are possible while nothing fails.
Smooth ==
  \/ \E m \in Msgs : Publish(m)
  \/ \E p \in Procs : \/ Claim(p) \/ List(p) \/ SkipUnhandled(p) \/ PublishToRedis(p)
                      \/ MarkSent(p) \/ FlushEnd(p)
                      \/ HandlerSucceeds(p) \/ Ack(p) \/ ConsumeEnd(p) \/ Deliver(p)
  \/ UNCHANGED vars

LEMMA OnlySmooth ==
  ASSUME TypeOK, [Next]_vars, failures' = 0
  PROVE  failures = 0 /\ Smooth
<1>1. ~(failures' = failures + 1)
  BY DEF TypeOK
<1>2. \A p, q \in Procs : /\ ~PublishFails(p) /\ ~MarkSentFails(p) /\ ~SkipFails(p) /\ ~HandlerFails(p)
                          /\ ~Crash(p) /\ ~ClaimSlow(p, q)
  BY <1>1 DEF SkipFails, PublishFails, MarkSentFails, HandlerFails, Crash, ClaimSlow, Fails
<1>3. Smooth
  BY <1>2 DEF Next, Flush, Consume, Smooth
<1>4. failures' = failures
  BY <1>3 DEF Smooth, vars, Publish, Claim, List, SkipUnhandled, PublishToRedis, MarkSent, FlushEnd,
     HandlerSucceeds, Ack, ConsumeEnd, Deliver
<1>5. QED BY <1>3, <1>4

\* Nothing but an XADD makes a message reach Redis.
LEMMA ReachedBySending ==
  ASSUME TypeOK, Smooth, NEW m \in Msgs, Reached(m)',
         \A p \in Procs : ~PublishToRedis(p)
  PROVE  Reached(m)
<1> USE DEF TypeOK, Reached, InStream, IsHeld
<1>1. CASE UNCHANGED <<stream, held, handled>>
  BY <1>1
<1>2. ASSUME NEW p \in Procs, HandlerSucceeds(p) PROVE Reached(m)
  <2>1. handled' = [handled EXCEPT ![held[p]] = @ + 1] /\ held[p] \in Msgs
    BY <1>2 DEF HandlerSucceeds
  <2>2. CASE held[p] = m
    BY <2>2
  <2>3. CASE held[p] # m
    BY <1>2, <2>1, <2>3 DEF HandlerSucceeds
  <2>4. QED BY <2>2, <2>3
<1>3. ASSUME NEW p \in Procs, Ack(p) PROVE Reached(m)
  BY <1>3 DEF Ack, None, Msgs
<1>4. ASSUME NEW p \in Procs, Deliver(p) PROVE Reached(m)
  <2>1. stream \in Seq(Msgs) /\ stream # << >> /\ stream' = Tail(stream)
        /\ held' = [held EXCEPT ![p] = Head(stream)] /\ handled' = handled
    BY <1>4 DEF Deliver
  <2>2. Len(stream) \in Nat \ {0} /\ Head(stream) = stream[1] /\ 1 \in 1..Len(stream)
        /\ Len(Tail(stream)) = Len(stream) - 1
        /\ \A i \in 1..Len(Tail(stream)) : Tail(stream)[i] = stream[i + 1]
    BY <2>1, HeadTailProperties
  <2>3. CASE handled'[m] > 0
    BY <2>1, <2>3
  <2>4. CASE InStream(m)'
    <3>1. PICK i \in 1..Len(Tail(stream)) : Tail(stream)[i] = m
      BY <2>1, <2>4
    <3>2. i + 1 \in 1..Len(stream) /\ stream[i + 1] = m
      BY <2>2, <3>1
    <3>3. QED BY <3>2
  <2>5. CASE IsHeld(m)'
    <3>1. PICK q \in Procs : held'[q] = m
      BY <2>5
    <3>2. CASE q = p
      BY <2>1, <2>2, <3>1, <3>2
    <3>3. CASE q # p
      BY <2>1, <3>1, <3>3
    <3>4. QED BY <3>2, <3>3
  <2>6. QED BY <2>3, <2>4, <2>5
<1>5. QED
  BY <1>1, <1>2, <1>3, <1>4 DEF Smooth, vars, Publish, Claim, List, SkipUnhandled, MarkSent, FlushEnd, ConsumeEnd

\* What a step does that leaves the outbox and the batches alone.
BatchesRest ==
  /\ outbox' = outbox
  /\ \A p \in Procs : work'[p].batch = work[p].batch /\ (At(p, "mark") => At(p, "mark")')

LEMMA RestingSteps ==
  ASSUME TypeOK, BatchInv, NEW p \in Procs,
         FlushEnd(p) \/ HandlerSucceeds(p) \/ Ack(p) \/ ConsumeEnd(p) \/ Deliver(p)
  PROVE  BatchesRest
<1>1. CASE FlushEnd(p) \/ HandlerSucceeds(p) \/ Ack(p)
  <2>1. PICK label \in Labels : Goto(p, label) /\ ~At(p, "mark") /\ outbox' = outbox
    BY <1>1 DEF FlushEnd, HandlerSucceeds, Ack, At, Labels
  <2>2. \A q \in Procs : work'[q].batch = work[q].batch
    BY <2>1, GotoKeepsBatch
  <2>3. QED BY <2>1, <2>2 DEF BatchesRest, Goto, At, TypeOK
<1>2. CASE ConsumeEnd(p)
  BY <1>2 DEF ConsumeEnd, BatchesRest, BatchInv, At, Idle, TypeOK
<1>3. CASE Deliver(p)
  BY <1>3 DEF Deliver, BatchesRest, At
<1>4. QED BY <1>1, <1>2, <1>3

\* A claim takes rows that no process is processing, and a row leaves
\* "processing" only by leaving its batch.
LEMMA NextClaimed ==
  ASSUME TypeOK, BatchInv, ClaimedOnce, Smooth
  PROVE  ClaimedOnce'
<1> USE DEF TypeOK, ClaimedOnce
<1>1. ASSUME NEW n \in Msgs, Publish(n) PROVE ClaimedOnce'
  BY <1>1 DEF Publish
<1>2. ASSUME NEW p \in Procs, Claim(p) PROVE ClaimedOnce'
  <2>1. PICK S \in SUBSET Unsent :
          /\ outbox' = [n \in Msgs |-> IF n \in S THEN "processing" ELSE outbox[n]]
          /\ work' = [work EXCEPT ![p] = [pc |-> "list", batch |-> S]]
    BY <1>2 DEF Claim
  <2>2. S \subseteq Msgs /\ \A m \in S : outbox[m] # "processing"
    BY DEF Unsent
  <2>3. \A q \in Procs : work'[q].batch = IF q = p THEN S ELSE work[q].batch
    BY <2>1
  <2>4. \A q \in Procs : S \cap work[q].batch = {}
    BY <2>2
  <2>5. QED BY <2>1, <2>2, <2>3, <2>4
<1>3. ASSUME NEW p \in Procs, List(p) PROVE ClaimedOnce'
  BY <1>3 DEF List
<1>4. ASSUME NEW p \in Procs, NEW n \in work[p].batch, NEW status,
             outbox' = [outbox EXCEPT ![n] = status],
             \A q \in Procs : work'[q].batch = IF q = p THEN work[p].batch \ {n} ELSE work[q].batch
      PROVE  ClaimedOnce'
  <2>1. \A q \in Procs : n \notin work'[q].batch /\ work'[q].batch \subseteq work[q].batch
    BY <1>4
  <2>2. \A m \in Msgs : m # n => outbox'[m] = outbox[m]
    BY <1>4
  <2>3. QED BY <2>1, <2>2
<1>5. ASSUME NEW p \in Procs, SkipUnhandled(p) PROVE ClaimedOnce'
  <2>1. PICK n \in work[p].batch : outbox' = [outbox EXCEPT ![n] = "failed"]
                                   /\ work' = [work EXCEPT ![p].batch = @ \ {n}]
    BY <1>5 DEF SkipUnhandled
  <2>2. \A q \in Procs : work'[q].batch = IF q = p THEN work[p].batch \ {n} ELSE work[q].batch
    BY <2>1
  <2>3. QED BY <1>4, <2>1, <2>2
<1>6. ASSUME NEW p \in Procs, MarkSent(p) PROVE ClaimedOnce'
  <2>1. PICK n \in work[p].batch :
          /\ outbox' = [outbox EXCEPT ![n] = "sent"]
          /\ work' = [work EXCEPT ![p] = [pc |-> "publish", batch |-> @.batch \ {n}]]
    BY <1>6 DEF MarkSent
  <2>2. \A q \in Procs : work'[q].batch = IF q = p THEN work[p].batch \ {n} ELSE work[q].batch
    BY <2>1
  <2>3. QED BY <1>4, <2>1, <2>2
<1>7. ASSUME NEW p \in Procs, PublishToRedis(p) PROVE ClaimedOnce'
  <2>1. outbox' = outbox /\ \A q \in Procs : work'[q].batch = work[q].batch
    BY <1>7, GotoKeepsBatch DEF PublishToRedis
  <2>2. QED BY <2>1
<1>8. CASE BatchesRest
  BY <1>8 DEF BatchesRest
<1>9. CASE UNCHANGED vars
  BY <1>9 DEF vars
<1>10. QED BY <1>1, <1>2, <1>3, <1>5, <1>6, <1>7, <1>8, <1>9, RestingSteps DEF Smooth

\* A message that reaches Redis is the first of a batch whose process will mark it.
LEMMA NextPublished ==
  ASSUME TypeOK, BatchInv, ClaimedOnce, PublishedOnce, Smooth
  PROVE  PublishedOnce'
<1> DEFINE Told(m) == outbox[m] = "sent" \/ \E p \in Procs : At(p, "mark") /\ IsFirst(m, work[p].batch)
<1> SUFFICES ASSUME NEW m \in Msgs, Reached(m)' PROVE Told(m)'
  BY DEF PublishedOnce
<1> USE DEF TypeOK
<1>1. ASSUME NEW p \in Procs, PublishToRedis(p) PROVE Told(m)'
  <2>1. PICK n \in work[p].batch : IsFirst(n, work[p].batch) /\ stream' = Append(stream, n)
    BY <1>1 DEF PublishToRedis
  <2>2. work'[p].pc = "mark" /\ \A q \in Procs : work'[q].batch = work[q].batch
    BY <1>1, GotoKeepsBatch DEF PublishToRedis, Goto
  <2>3. CASE m = n
    BY <2>1, <2>2, <2>3 DEF At, IsFirst
  <2>4. CASE m # n
    <3>1. InStream(m)' => InStream(m)
      BY <2>1, <2>4, AppendKeeps DEF InStream
    <3>2. Reached(m)
      BY <1>1, <3>1 DEF PublishToRedis, Reached, IsHeld
    <3>3. Told(m)
      BY <3>2 DEF PublishedOnce
    <3>4. \A q \in Procs : At(q, "mark") => At(q, "mark")'
      BY <1>1 DEF PublishToRedis, Goto, At
    <3>5. QED BY <1>1, <2>2, <3>3, <3>4 DEF PublishToRedis, IsFirst
  <2>5. QED BY <2>3, <2>4
<1>2. SUFFICES ASSUME \A p \in Procs : ~PublishToRedis(p), Told(m) PROVE Told(m)'
  BY <1>1, ReachedBySending DEF PublishedOnce
<1>3. ASSUME NEW n \in Msgs, Publish(n) PROVE Told(m)'
  BY <1>2, <1>3 DEF Publish, At, IsFirst, ClaimedOnce
<1>4. ASSUME NEW p \in Procs, Claim(p) PROVE Told(m)'
  <2>1. PICK S \in SUBSET Unsent :
          /\ outbox' = [n \in Msgs |-> IF n \in S THEN "processing" ELSE outbox[n]]
          /\ work' = [work EXCEPT ![p] = [pc |-> "list", batch |-> S]]
    BY <1>4 DEF Claim
  <2>2. CASE outbox[m] = "sent"
    BY <2>1, <2>2 DEF Unsent
  <2>3. ASSUME NEW q \in Procs, At(q, "mark"), IsFirst(m, work[q].batch) PROVE Told(m)'
    <3>1. q # p
      BY <1>4, <2>3 DEF Claim, At
    <3>2. work'[q] = work[q]
      BY <2>1, <3>1
    <3>3. QED BY <2>3, <3>2 DEF At, IsFirst
  <2>4. QED BY <1>2, <2>2, <2>3
<1>5. ASSUME NEW p \in Procs, List(p) \/ SkipUnhandled(p) \/ MarkSent(p) PROVE Told(m)'
  <2>1. \A q \in Procs : q # p => work'[q] = work[q]
    BY <1>5 DEF List, SkipUnhandled, MarkSent
  <2>2. CASE outbox[m] = "sent"
    <3>1. \A n \in work[p].batch : n \in Msgs /\ outbox[n] = "processing"
      BY DEF ClaimedOnce
    <3>2. QED BY <1>5, <2>2, <3>1 DEF List, SkipUnhandled, MarkSent
  <2>3. ASSUME NEW q \in Procs, q # p, At(q, "mark"), IsFirst(m, work[q].batch) PROVE Told(m)'
    BY <2>1, <2>3 DEF At, IsFirst
  <2>4. CASE At(p, "mark") /\ IsFirst(m, work[p].batch)
    <3>1. PICK n \in work[p].batch : IsFirst(n, work[p].batch) /\ outbox' = [outbox EXCEPT ![n] = "sent"]
      BY <1>5, <2>4 DEF List, SkipUnhandled, MarkSent, At
    <3>2. n = m
      BY <2>4, <3>1, BusAssumption DEF IsFirst, Msgs
    <3>3. QED BY <3>1, <3>2
  <2>5. QED BY <1>2, <2>2, <2>3, <2>4
<1>6. CASE BatchesRest
  <2>1. \A p \in Procs : At(p, "mark") /\ IsFirst(m, work[p].batch) => (At(p, "mark") /\ IsFirst(m, work[p].batch))'
    BY <1>6 DEF BatchesRest, IsFirst
  <2>2. QED BY <1>2, <1>6, <2>1 DEF BatchesRest
<1>7. CASE UNCHANGED vars
  BY <1>2, <1>7 DEF vars, At, IsFirst
<1>8. QED BY <1>2, <1>3, <1>4, <1>5, <1>6, <1>7, RestingSteps DEF Smooth

\* A process that sends a message is the first to do so: had it reached Redis, its
\* row would not be in this batch, or another process would have it too.
LEMMA FirstSending ==
  ASSUME TypeOK, ClaimedOnce, PublishedOnce, NEW p \in Procs, At(p, "publish"), NEW m \in work[p].batch
  PROVE  ~Reached(m)
<1>1. m \in Msgs /\ outbox[m] = "processing"
  BY DEF TypeOK, ClaimedOnce
<1>2. \A q \in Procs : At(q, "mark") => m \notin work[q].batch
  BY DEF ClaimedOnce, At
<1>3. QED BY <1>1, <1>2 DEF PublishedOnce, IsFirst

LEMMA NextCopied ==
  ASSUME TypeOK, PositionInv, ClaimedOnce, PublishedOnce, CopiedOnce, Smooth
  PROVE  CopiedOnce'
<1> USE DEF TypeOK, CopiedOnce
<1>1. ASSUME NEW p \in Procs, PublishToRedis(p) PROVE CopiedOnce'
  <2>1. PICK n \in work[p].batch : stream' = Append(stream, n)
    BY <1>1 DEF PublishToRedis
  <2>2. n \in Msgs /\ ~Reached(n) /\ At(p, "publish")
    BY <1>1, FirstSending DEF PublishToRedis
  <2>3. \A m \in Msgs : InStream(m)' <=> m = n \/ InStream(m)
    BY <2>1, <2>2, AppendKeeps DEF InStream
  <2>4. \A i, j \in 1..Len(stream') : stream'[i] = stream'[j] => i = j
    <3>1. /\ Len(stream') = Len(stream) + 1 /\ stream'[Len(stream) + 1] = n
          /\ \A i \in 1..Len(stream) : stream'[i] = stream[i] /\ stream[i] # n
      BY <2>1, <2>2, AppendProperties DEF Reached, InStream
    <3>2. SUFFICES ASSUME NEW i \in 1..Len(stream'), NEW j \in 1..Len(stream'), stream'[i] = stream'[j]
                   PROVE  i = j
      OBVIOUS
    <3>3. Len(stream) \in Nat /\ Len(stream') = Len(stream) + 1
      BY <3>1
    <3>4. (i \in 1..Len(stream) \/ i = Len(stream')) /\ (j \in 1..Len(stream) \/ j = Len(stream'))
      BY <3>3
    <3>5. CASE i \in 1..Len(stream) /\ j \in 1..Len(stream)
      <4>1. stream[i] = stream[j]
        BY <3>1, <3>2, <3>5
      <4>2. QED BY <4>1, <3>5
    <3>6. QED BY <3>1, <3>2, <3>3, <3>4, <3>5
  <2>5. UNCHANGED <<held, handled>>
    BY <1>1 DEF PublishToRedis
  <2>6. \A q \in Procs : At(q, "ack")' <=> At(q, "ack")
    BY <1>1 DEF PublishToRedis, Goto, At
  <2>7. \A m \in Msgs : InStream(m)' => handled'[m] = 0 /\ ~IsHeld(m)'
    BY <2>2, <2>3, <2>5 DEF Reached, IsHeld
  <2>8. QED BY <2>4, <2>5, <2>6, <2>7
<1>2. ASSUME NEW p \in Procs, Deliver(p) PROVE CopiedOnce'
  <2>1. /\ stream \in Seq(Msgs) /\ stream # << >> /\ stream' = Tail(stream) /\ held[p] = None
        /\ held' = [held EXCEPT ![p] = Head(stream)] /\ UNCHANGED <<handled, work>>
    BY <1>2 DEF Deliver
  <2>2. /\ Len(stream) \in Nat \ {0} /\ Head(stream) = stream[1] /\ 1 \in 1..Len(stream)
        /\ Len(stream') = Len(stream) - 1
        /\ \A i \in 1..Len(stream') : stream'[i] = stream[i + 1] /\ i + 1 \in 1..Len(stream) /\ i + 1 # 1
    BY <2>1, HeadTailProperties
  <2>3. \A i, j \in 1..Len(stream') : stream'[i] = stream'[j] => i = j
    <3>1. SUFFICES ASSUME NEW i \in 1..Len(stream'), NEW j \in 1..Len(stream'), stream'[i] = stream'[j] PROVE i = j
      OBVIOUS
    <3>2. i + 1 \in 1..Len(stream) /\ j + 1 \in 1..Len(stream) /\ stream[i + 1] = stream[j + 1]
      BY <2>2, <3>1
    <3>3. i + 1 = j + 1
      BY <3>2
    <3>4. i \in Int /\ j \in Int
      OBVIOUS
    <3>5. QED BY <3>3, <3>4
  <2>4. \A m \in Msgs : InStream(m)' => InStream(m) /\ m # Head(stream)
    BY <2>2 DEF InStream
  <2>5. Head(stream) \in Msgs /\ InStream(Head(stream)) /\ handled[Head(stream)] = 0 /\ ~IsHeld(Head(stream))
    <3>1. Head(stream) \in Msgs /\ InStream(Head(stream))
      BY <2>1, <2>2 DEF InStream
    <3>2. QED BY <3>1
  <2>6. \A q \in Procs : held'[q] = IF q = p THEN Head(stream) ELSE held[q]
    BY <2>1
  <2>7. \A m \in Msgs : InStream(m)' => handled'[m] = 0 /\ ~IsHeld(m)'
    BY <2>1, <2>4, <2>6 DEF IsHeld
  <2>8. \A q, r \in Procs : held'[q] = held'[r] /\ held'[q] # None => q = r
    BY <2>5, <2>6 DEF IsHeld
  <2>9. ~At(p, "ack") /\ \A q \in Procs : At(q, "ack")' <=> At(q, "ack")
    BY <2>1 DEF PositionInv, At
  <2>10. \A q \in Procs : held'[q] # None => handled'[held'[q]] = (IF At(q, "ack")' THEN 1 ELSE 0)
    BY <2>1, <2>5, <2>6, <2>9
  <2>11. QED BY <2>1, <2>3, <2>7, <2>8, <2>10
<1>3. ASSUME NEW p \in Procs, HandlerSucceeds(p) PROVE CopiedOnce'
  <2>1. /\ held[p] \in Msgs /\ held[p] # None /\ ~At(p, "ack")
        /\ handled' = [handled EXCEPT ![held[p]] = @ + 1] /\ UNCHANGED <<stream, held>>
    BY <1>3 DEF HandlerSucceeds, At
  <2>2. handled[held[p]] = 0
    BY <2>1
  <2>3. handled'[held[p]] = 1 /\ \A m \in Msgs : m # held[p] => handled'[m] = handled[m]
    BY <2>1, <2>2
  <2>4. \A q \in Procs : At(q, "ack")' <=> q = p \/ At(q, "ack")
    BY <1>3 DEF HandlerSucceeds, Goto, At
  <2>5. \A m \in Msgs : InStream(m)' => m # held[p] /\ InStream(m) /\ ~IsHeld(m)'
    BY <2>1 DEF InStream, IsHeld
  <2>6. \A q \in Procs : held[q] # None /\ q # p => held[q] \in Msgs /\ held[q] # held[p]
    BY <2>1
  <2>7. \A q \in Procs : held'[q] # None => handled'[held'[q]] = (IF At(q, "ack")' THEN 1 ELSE 0)
    BY <2>1, <2>3, <2>4, <2>6
  <2>8. QED BY <2>1, <2>3, <2>5, <2>7
<1>4. ASSUME NEW p \in Procs, Ack(p) PROVE CopiedOnce'
  <2>1. held' = [held EXCEPT ![p] = None] /\ UNCHANGED <<stream, handled>>
    BY <1>4 DEF Ack
  <2>2. \A q \in Procs : q # p => (At(q, "ack")' <=> At(q, "ack"))
    BY <1>4 DEF Ack, Goto, At
  <2>3. \A m \in Msgs : InStream(m)' => InStream(m) /\ ~IsHeld(m)'
    BY <2>1 DEF InStream, IsHeld, None, Msgs
  <2>4. QED BY <2>1, <2>2, <2>3
<1>5. ASSUME UNCHANGED <<stream, held, handled>>, \A q \in Procs : At(q, "ack")' <=> At(q, "ack")
      PROVE  CopiedOnce'
  <2>1. \A m \in Msgs : (InStream(m)' <=> InStream(m)) /\ (IsHeld(m)' <=> IsHeld(m))
    BY <1>5 DEF InStream, IsHeld
  <2>2. QED BY <1>5, <2>1
<1>6. ASSUME NEW p \in Procs,
             Claim(p) \/ List(p) \/ SkipUnhandled(p) \/ MarkSent(p) \/ FlushEnd(p) \/ ConsumeEnd(p)
      PROVE  CopiedOnce'
  <2>1. UNCHANGED <<stream, held, handled>>
    BY <1>6 DEF Claim, List, SkipUnhandled, MarkSent, FlushEnd, ConsumeEnd
  <2>2. \A q \in Procs : At(q, "ack")' <=> At(q, "ack")
    BY <1>6 DEF Claim, List, SkipUnhandled, MarkSent, FlushEnd, ConsumeEnd, Goto, At, Idle
  <2>3. QED BY <1>5, <2>1, <2>2
<1>7. ASSUME NEW m \in Msgs, Publish(m) PROVE CopiedOnce'
  BY <1>5, <1>7 DEF Publish, At
<1>8. CASE UNCHANGED vars
  BY <1>5, <1>8 DEF vars, At
<1>9. QED BY <1>1, <1>2, <1>3, <1>4, <1>6, <1>7, <1>8 DEF Smooth

\* HandledOnce: as long as nothing fails, processes that flush and consume side by
\* side handle a message once.
THEOREM OnlyOnce == Spec => []HandledOnce
<1>1. OnceInv /\ [Next]_vars => OnceInv'
  <2> SUFFICES ASSUME OnceInv, [Next]_vars PROVE OnceInv'
    OBVIOUS
  <2>1. TypeOK' /\ PositionInv' /\ BatchInv'
    BY NextType, NextPosition, NextBatch DEF OnceInv
  <2>2. ASSUME failures' = 0 PROVE (ClaimedOnce /\ PublishedOnce /\ CopiedOnce)'
    <3>1. failures = 0 /\ Smooth
      BY <2>2, OnlySmooth DEF OnceInv
    <3>2. QED BY <3>1, NextClaimed, NextPublished, NextCopied DEF OnceInv
  <2>3. QED BY <2>1, <2>2 DEF OnceInv
<1>2. OnceInv => HandledOnce
  BY DEF OnceInv, CopiedOnce, HandledOnce
<1>3. QED BY <1>1, <1>2, InitOnce, PTL DEF Spec

=============================================================================
