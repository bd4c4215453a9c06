------------------------- MODULE EventStreamProofs -------------------------
(***************************************************************************)
(* Proofs about EventStream, for every number of viewers, goroutines,      *)
(* events, connections and faults, every split of the events into tickets  *)
(* and runs, and every size of a page and of a buffer:                     *)
(*                                                                         *)
(*   TypeCorrect    no subscription outlives its connection (TypeOK);      *)
(*   OrderCorrect   once and in order (InOrder);                           *)
(*   CursorCorrect  what a cursor leaves behind (CursorAccountsFor).       *)
(*                                                                         *)
(* A frame holds events between what its viewer was told and its cursor, in*)
(* order (FrameInv), so that it continues what the viewer was sent.  Every *)
(* event of a viewer that has read its page is accounted for, the later    *)
(* ones included (SeenInv): the cursor may then pass any of them.  A viewer*)
(* without a connection, or that has yet to read its page, is owed an      *)
(* account only of what it was told.                                       *)
(***************************************************************************)
EXTENDS EventStream, FiniteSetTheorems, SequenceTheorems, WellFoundedInduction, TLAPS

Channels    == [buf : Seq(Events), open : BOOLEAN]
Connections == [at : {"off", "reading", "paged", "live", "drain"}, n : 0..MaxConns, cursor : 0..NumEvents,
                batch : Seq(Events)]
Sends       == Viewers \X (1..MaxConns)
Publishes   == [event : 0..NumEvents, todo : SUBSET Sends, target : Sends \union {Nobody}, try : 0..2]

Types ==
  /\ stored \in 0..NumEvents /\ faults \in 0..MaxFaults
  /\ phase \in {"serving", "draining", "detached", "closed"}
  /\ bus \in SUBSET Events
  /\ subs \in SUBSET Viewers
  /\ channel \in [Viewers -> Channels]
  /\ conn \in [Viewers -> Connections]
  /\ told \in [Viewers -> 0..NumEvents]
  /\ got \in [Viewers -> Seq(Events)]
  /\ pump \in [Pumps -> Publishes]
  /\ missed \in [Viewers -> SUBSET Events]

Increasing(s) == \A i, j \in 1..Len(s) : i < j => s[i] < s[j]

\* Nothing is anywhere before it is stored.
StoredAt(v) ==
  /\ told[v] <= stored /\ conn[v].cursor <= stored
  /\ missed[v] \subseteq 1..stored
  /\ ToSet(got[v]) \subseteq 1..stored /\ ToSet(channel[v].buf) \subseteq 1..stored

StoredInv ==
  /\ bus \subseteq 1..stored
  /\ \A v \in Viewers : StoredAt(v)
  /\ \A p \in Pumps : pump[p].event <= stored

\* A channel lives from Subscribe until its connection is over, and holds events
\* of its viewer only.
ChannelAt(v) ==
  /\ v \in subs <=> channel[v].open
  /\ ~Streaming(v) => channel[v] = Closed
  /\ Connected(v) => conn[v].n > 0
  /\ Len(channel[v].buf) <= BufferSize
  /\ \A e \in ToSet(channel[v].buf) : Wants(v, e)

ChannelInv == \A v \in Viewers : ChannelAt(v)

PumpAt(p) ==
  /\ pump[p].todo # {} => pump[p].event > 0
  /\ pump[p].try = 0 => pump[p].target = Nobody
  /\ pump[p].try # 0 => pump[p].target \in pump[p].todo /\ Wants(pump[p].target[1], pump[p].event)

PumpInv == \A p \in Pumps : PumpAt(p)

\* The frame being collected continues what the viewer was sent.
FrameAt(v) ==
  /\ Connected(v) => told[v] <= conn[v].cursor
  /\ conn[v].at = "reading" => conn[v].cursor = told[v]
  /\ conn[v].at # "drain" => conn[v].batch = <<>>
  /\ Len(conn[v].batch) <= Limit
  /\ Increasing(conn[v].batch)
  /\ \A e \in ToSet(conn[v].batch) : told[v] < e /\ e <= conn[v].cursor /\ Wants(v, e)

GotAt(v) ==
  /\ Increasing(got[v])
  /\ \A e \in ToSet(got[v]) : e <= told[v] /\ Wants(v, e)

FrameInv == \A v \in Viewers : FrameAt(v) /\ GotAt(v)

Accounted(v, e) ==
  \/ e \in ToSet(got[v]) \union missed[v] \union bus \union Sending(v)
  \/ e \in ToSet(channel[v].buf) \union ToSet(conn[v].batch)

\* The events of which a viewer is owed an account: all, once it has its page.
Owed(v, e) == conn[v].at \notin {"off", "reading"} \/ e <= told[v]

SeenAt(v) == \A e \in 1..stored : Wants(v, e) /\ Owed(v, e) => Accounted(v, e)

SeenInv == \A v \in Viewers : SeenAt(v)

IInv == Types /\ StoredInv /\ ChannelInv /\ PumpInv /\ FrameInv /\ SeenInv

-----------------------------------------------------------------------------
(* Sequences *)

LEMMA Elements ==
  ASSUME NEW s \in Seq(Events)
  PROVE  ToSet(s) = {s[i] : i \in 1..Len(s)} /\ ToSet(s) \subseteq Events
  BY DEF ToSet

LEMMA NoElements == <<>> \in Seq(Events) /\ ToSet(<<>>) = {} /\ Increasing(<<>>) /\ Len(<<>>) = 0
  BY DEF ToSet, Increasing

LEMMA Appended ==
  ASSUME NEW s \in Seq(Events), NEW x \in Events
  PROVE  /\ Append(s, x) \in Seq(Events) /\ Len(Append(s, x)) = Len(s) + 1
         /\ ToSet(Append(s, x)) = ToSet(s) \union {x}
         /\ Increasing(s) /\ (\A e \in ToSet(s) : e < x) => Increasing(Append(s, x))
<1>1. /\ Append(s, x) \in Seq(Events) /\ Len(Append(s, x)) = Len(s) + 1 /\ Len(s) \in Nat
      /\ Append(s, x)[Len(s) + 1] = x /\ \A i \in 1..Len(s) : Append(s, x)[i] = s[i]
  BY AppendProperties
<1>2. 1..(Len(s) + 1) = 1..Len(s) \union {Len(s) + 1}
  BY <1>1
<1>3. ToSet(Append(s, x)) = {Append(s, x)[i] : i \in 1..Len(s) \union {Len(s) + 1}}
  BY <1>1, <1>2, Elements
<1>4. {Append(s, x)[i] : i \in 1..Len(s) \union {Len(s) + 1}} = {s[i] : i \in 1..Len(s)} \union {x}
  BY <1>1
<1>5. ToSet(Append(s, x)) = ToSet(s) \union {x}
  BY <1>3, <1>4, Elements
<1>6. ASSUME Increasing(s), \A e \in ToSet(s) : e < x PROVE Increasing(Append(s, x))
  <2>1. SUFFICES ASSUME NEW i \in 1..(Len(s) + 1), NEW j \in 1..(Len(s) + 1), i < j
                 PROVE  Append(s, x)[i] < Append(s, x)[j]
    BY <1>1 DEF Increasing
  <2>2. i \in 1..Len(s) /\ Append(s, x)[i] = s[i] /\ s[i] \in ToSet(s)
    BY <1>1, <2>1, Elements
  <2>3. CASE j = Len(s) + 1
    BY <1>1, <1>6, <2>2, <2>3
  <2>4. CASE j # Len(s) + 1
    <3>1. j \in 1..Len(s)
      BY <1>1, <2>4
    <3>2. QED BY <1>1, <1>6, <2>1, <2>2, <3>1 DEF Increasing
  <2>5. QED BY <2>3, <2>4
<1>7. QED BY <1>1, <1>5, <1>6

LEMMA Received ==
  ASSUME NEW s \in Seq(Events), s # <<>>
  PROVE  /\ Head(s) \in Events /\ Tail(s) \in Seq(Events) /\ Len(Tail(s)) <= Len(s)
         /\ ToSet(s) = {Head(s)} \union ToSet(Tail(s))
<1>1. /\ Head(s) \in Events /\ Tail(s) \in Seq(Events) /\ Len(Tail(s)) = Len(s) - 1
      /\ Len(s) \in Nat \ {0} /\ Head(s) = s[1]
      /\ \A i \in 1..Len(Tail(s)) : Tail(s)[i] = s[i + 1]
  BY HeadTailProperties
<1>2. ToSet(s) = {s[i] : i \in 1..Len(s)} /\ ToSet(Tail(s)) = {Tail(s)[i] : i \in 1..Len(Tail(s))}
  BY <1>1, Elements
<1>3. ASSUME NEW e \in ToSet(s) PROVE e \in {Head(s)} \union ToSet(Tail(s))
  <2>1. PICK i \in 1..Len(s) : e = s[i]
    BY <1>2, <1>3
  <2>2. CASE i = 1
    BY <1>1, <2>1, <2>2
  <2>3. CASE i # 1
    <3>1. i - 1 \in 1..Len(Tail(s)) /\ Tail(s)[i - 1] = s[i]
      BY <1>1, <2>3
    <3>2. QED BY <1>2, <2>1, <3>1
  <2>4. QED BY <2>2, <2>3
<1>4. ASSUME NEW e \in ToSet(Tail(s)) PROVE e \in ToSet(s)
  <2>1. PICK i \in 1..Len(Tail(s)) : e = Tail(s)[i]
    BY <1>2, <1>4
  <2>2. i + 1 \in 1..Len(s) /\ e = s[i + 1]
    BY <1>1, <2>1
  <2>3. QED BY <1>2, <2>2
<1>5. Head(s) \in ToSet(s)
  BY <1>1, <1>2
<1>6. QED BY <1>1, <1>3, <1>4, <1>5

\* A frame that is beyond everything sent before continues it.
LEMMA Continued ==
  ASSUME NEW s \in Seq(Events), NEW t \in Seq(Events)
  PROVE  /\ s \o t \in Seq(Events) /\ ToSet(s \o t) = ToSet(s) \union ToSet(t)
         /\ Increasing(s) /\ Increasing(t) /\ (\A e \in ToSet(s) : \A f \in ToSet(t) : e < f) => Increasing(s \o t)
<1>1. /\ s \o t \in Seq(Events) /\ Len(s \o t) = Len(s) + Len(t) /\ Len(s) \in Nat /\ Len(t) \in Nat
      /\ \A i \in 1..(Len(s) + Len(t)) : (s \o t)[i] = IF i <= Len(s) THEN s[i] ELSE t[i - Len(s)]
  BY ConcatProperties
<1>2. /\ ToSet(s) = {s[i] : i \in 1..Len(s)} /\ ToSet(t) = {t[i] : i \in 1..Len(t)}
      /\ ToSet(s \o t) = {(s \o t)[i] : i \in 1..(Len(s) + Len(t))}
  BY <1>1, Elements
<1>3. ASSUME NEW i \in 1..(Len(s) + Len(t))
      PROVE  \/ i \in 1..Len(s) /\ (s \o t)[i] = s[i] /\ s[i] \in ToSet(s)
             \/ i - Len(s) \in 1..Len(t) /\ (s \o t)[i] = t[i - Len(s)] /\ t[i - Len(s)] \in ToSet(t)
  <2>1. CASE i <= Len(s)
    BY <1>1, <1>2, <2>1
  <2>2. CASE i > Len(s)
    <3>1. i - Len(s) \in 1..Len(t)
      BY <1>1, <2>2
    <3>2. QED BY <1>1, <1>2, <2>2, <3>1
  <2>3. QED BY <1>1, <2>1, <2>2
<1>4. ToSet(s) \subseteq ToSet(s \o t)
  <2>1. ASSUME NEW i \in 1..Len(s) PROVE i \in 1..(Len(s) + Len(t)) /\ (s \o t)[i] = s[i]
    BY <1>1
  <2>2. QED BY <1>2, <2>1
<1>5. ToSet(t) \subseteq ToSet(s \o t)
  <2>1. ASSUME NEW i \in 1..Len(t) PROVE i + Len(s) \in 1..(Len(s) + Len(t)) /\ (s \o t)[i + Len(s)] = t[i]
    <3>1. i + Len(s) \in 1..(Len(s) + Len(t)) /\ ~(i + Len(s) <= Len(s)) /\ (i + Len(s)) - Len(s) = i
      BY <1>1
    <3>2. QED BY <1>1, <3>1
  <2>2. QED BY <1>2, <2>1
<1>6. ToSet(s \o t) \subseteq ToSet(s) \union ToSet(t)
  BY <1>2, <1>3
<1>7. ASSUME Increasing(s), Increasing(t), \A e \in ToSet(s) : \A f \in ToSet(t) : e < f
      PROVE  Increasing(s \o t)
  <2>1. SUFFICES ASSUME NEW i \in 1..(Len(s) + Len(t)), NEW j \in 1..(Len(s) + Len(t)), i < j
                 PROVE  (s \o t)[i] < (s \o t)[j]
    BY <1>1 DEF Increasing
  <2>2. CASE j \in 1..Len(s)
    <3>1. i \in 1..Len(s) /\ (s \o t)[i] = s[i] /\ (s \o t)[j] = s[j]
      BY <1>1, <2>1, <2>2
    <3>2. QED BY <1>7, <2>1, <2>2, <3>1 DEF Increasing
  <2>3. CASE j \notin 1..Len(s) /\ i \in 1..Len(s)
    <3>1. (s \o t)[i] \in ToSet(s)
      BY <1>1, <1>2, <2>3
    <3>2. (s \o t)[j] \in ToSet(t)
      BY <1>3, <2>3
    <3>3. QED BY <1>7, <3>1, <3>2
  <2>4. CASE j \notin 1..Len(s) /\ i \notin 1..Len(s)
    <3>1. /\ i - Len(s) \in 1..Len(t) /\ (s \o t)[i] = t[i - Len(s)]
          /\ j - Len(s) \in 1..Len(t) /\ (s \o t)[j] = t[j - Len(s)]
      BY <1>3, <2>4
    <3>2. i - Len(s) < j - Len(s)
      BY <1>1, <2>1
    <3>3. QED BY <1>7, <3>1, <3>2 DEF Increasing
  <2>5. QED BY <2>2, <2>3, <2>4
<1>8. QED BY <1>1, <1>4, <1>5, <1>6, <1>7

-----------------------------------------------------------------------------
(* A page *)

LEMMA Least ==
  ASSUME NEW S \in SUBSET Nat, S # {}
  PROVE  \E x \in S : \A y \in S : x <= y
<1>1. PICK x \in S : \A y \in S : ~ (<<y, x>> \in OpToRel(<, Nat))
  BY WFMin, NatLessThanWellFounded
<1>2. \A y \in S : ~ (y < x)
  BY <1>1 DEF OpToRel
<1>3. QED BY <1>2

LEMMA Finite ==
  ASSUME NEW n \in Nat, NEW S \in SUBSET (1..n)
  PROVE  IsFiniteSet(S) /\ Cardinality(S) \in Nat
<1>1. IsFiniteSet(1..n)
  BY FS_Interval
<1>2. IsFiniteSet(S)
  BY <1>1, FS_Subset
<1>3. QED BY <1>2, FS_CardinalityType

LEMMA AsSequence ==
  ASSUME NEW k \in Nat, NEW S \in SUBSET Events, NEW f \in [1..k -> S]
  PROVE  f \in Seq(Events) /\ Len(f) = k /\ DOMAIN f = 1..k /\ (k = 0 => f = <<>>)
<1>1. f \in [1..k -> Events]
  OBVIOUS
<1>2. f \in Seq(Events)
  BY <1>1, SeqDef
<1>3. DOMAIN f = 1..Len(f) /\ Len(f) \in Nat
  BY <1>2, LenProperties
<1>4. Len(f) = k
  BY <1>2, LenProperties
<1>5. k = 0 => f = <<>>
  BY <1>2, <1>4, EmptySeq
<1>6. QED BY <1>2, <1>4, <1>5

LEMMA Greatest ==
  ASSUME NEW n \in Nat, NEW S \in SUBSET (1..n), S # {}
  PROVE  Max(S) \in S /\ \A e \in S : e <= Max(S)
<1> DEFINE D == {n - e : e \in S}
<1>1. D \in SUBSET Nat /\ D # {}
  <2>1. \A e \in S : n - e \in Nat
    OBVIOUS
  <2>2. QED BY <2>1
<1>2. PICK d \in D : \A c \in D : d <= c
  BY <1>1, Least
<1>3. PICK x \in S : d = n - x
  OBVIOUS
<1>4. \A e \in S : x >= e
  <2>1. SUFFICES ASSUME NEW e \in S PROVE x >= e
    OBVIOUS
  <2>2. d <= n - e
    BY <1>2
  <2>3. QED BY <1>3, <2>2
<1>5. Max(S) \in S /\ \A e \in S : Max(S) >= e
  BY <1>3, <1>4 DEF Max
<1>6. QED BY <1>5

\* A page leaves out no event of the ticket between the cursor and its end, and is
\* empty only when there are no more.
LEMMA Page ==
  ASSUME NEW v \in Viewers, stored \in Nat, NEW cursor \in Nat
  PROVE  LET page == WatchForumEvents(v, cursor)
         IN  /\ page \subseteq Beyond(v, cursor)
             /\ page = {} => Beyond(v, cursor) = {}
             /\ page # {} => /\ Max(page) \in page /\ \A e \in page : e <= Max(page)
                             /\ \A e \in Beyond(v, cursor) : e <= Max(page) => e \in page
<1> DEFINE B == Beyond(v, cursor)
           page == WatchForumEvents(v, cursor)
           Before(e) == {f \in B : f < e}
<1>1. B \subseteq 1..stored /\ page \subseteq B
  BY DEF Beyond, WatchForumEvents
<1>2. \A e \in B : e \in page <=> Cardinality(Before(e)) < Limit
  BY DEF WatchForumEvents
<1>3. IsFiniteSet(B)
  BY <1>1, Finite
<1>4. \A e \in B : IsFiniteSet(Before(e)) /\ Cardinality(Before(e)) \in Nat
  BY <1>3, FS_Subset, FS_CardinalityType
<1>5. ASSUME B # {} PROVE page # {}
  <2>1. PICK x \in B : \A y \in B : x <= y
    BY <1>1, <1>5, Least
  <2>2. Before(x) = {}
    BY <1>1, <2>1
  <2>3. Cardinality(Before(x)) = 0
    BY <2>2, FS_EmptySet
  <2>4. QED BY <1>2, <2>3, StreamAssumption
<1>6. ASSUME page # {}
      PROVE  /\ Max(page) \in page /\ \A e \in page : e <= Max(page)
             /\ \A e \in B : e <= Max(page) => e \in page
  <2>1. Max(page) \in page /\ \A e \in page : e <= Max(page)
    BY <1>1, <1>6, Greatest
  <2>2. ASSUME NEW e \in B, e <= Max(page) PROVE e \in page
    <3>1. Before(e) \in SUBSET Before(Max(page))
      BY <1>1, <2>1, <2>2
    <3>2. Cardinality(Before(e)) <= Cardinality(Before(Max(page)))
      BY <1>1, <1>4, <2>1, <3>1, FS_Subset
    <3>3. Cardinality(Before(Max(page))) < Limit
      BY <1>1, <1>2, <2>1
    <3>4. Cardinality(Before(e)) \in Nat /\ Cardinality(Before(Max(page))) \in Nat /\ Limit \in Nat
      BY <1>1, <1>4, <2>1, StreamAssumption
    <3>5. Cardinality(Before(e)) < Limit
      BY <3>2, <3>3, <3>4
    <3>6. QED BY <1>2, <3>5
  <2>3. QED BY <2>1, <2>2
<1>7. QED BY <1>1, <1>5, <1>6

\* What ReadPage does, of which the frame is the part that the run filter keeps.
PageRead(v, end, frame) ==
  /\ end \in conn[v].cursor..stored /\ frame \in Seq(Events) /\ Increasing(frame)
  /\ \A e \in ToSet(frame) : conn[v].cursor < e /\ e <= end /\ e <= stored /\ Wants(v, e)
  /\ \A e \in 1..stored : Wants(v, e) /\ conn[v].cursor < e =>
       e \in ToSet(frame) \union missed'[v] \union bus
  /\ conn[v].at = "reading"
  /\ Streams(v, "paged", end, <<>>)
  /\ got' = [got EXCEPT ![v] = @ \o frame]
  /\ \/ told' = [told EXCEPT ![v] = end]
     \/ told' = told /\ frame = <<>>
  /\ \E S \in SUBSET (1..stored) : missed' = [missed EXCEPT ![v] = @ \union S]
  /\ UNCHANGED <<stored, bus, phase, subs, channel, pump, faults>>

LEMMA ReadPageDoes ==
  ASSUME Types, StoredInv, NEW v \in Viewers, ReadPage(v)
  PROVE  \E end \in conn[v].cursor..stored : \E frame \in Seq(Events) : PageRead(v, end, frame)
<1> DEFINE c    == conn[v].cursor
           page == WatchForumEvents(v, c)
           mine == page \cap OfRun[v]
           end  == IF page = {} THEN c ELSE Max(page)
           S    == {e \in (1..stored) \ bus : page # {} /\ e > end}
<1>1. /\ stored \in Nat /\ stored <= NumEvents /\ NumEvents \in Nat /\ c \in Nat /\ c <= stored
      /\ missed \in [Viewers -> SUBSET Events]
  BY StreamAssumption DEF Types, StoredInv, StoredAt, Connections
<1>2. /\ conn[v].at = "reading"
      /\ Streams(v, "paged", end, <<>>)
      /\ told' = IF mine = {} THEN told ELSE [told EXCEPT ![v] = end]
      /\ missed' = [missed EXCEPT ![v] = @ \union S]
      /\ UNCHANGED <<stored, bus, phase, subs, channel, pump, faults>>
  BY DEF ReadPage
<1>3. PICK frame \in Ordered(mine) : got' = [got EXCEPT ![v] = @ \o frame]
  BY DEF ReadPage
<1>4. /\ page \subseteq Beyond(v, c)
      /\ page = {} => Beyond(v, c) = {}
      /\ page # {} => /\ Max(page) \in page /\ \A e \in page : e <= Max(page)
                      /\ \A e \in Beyond(v, c) : e <= Max(page) => e \in page
  BY <1>1, Page
<1>5. Beyond(v, c) = {e \in 1..stored : e > c /\ e \in OfTicket[v]}
  BY DEF Beyond
<1> HIDE DEF page
<1>6. /\ mine \subseteq 1..stored /\ mine \subseteq Events
      /\ \A e \in mine : c < e /\ Wants(v, e) /\ e <= end
  BY <1>1, <1>4, <1>5 DEF Events, Wants
<1>7. end \in c..stored
  BY <1>1, <1>4, <1>5
<1>8. /\ frame \in [1..Cardinality(mine) -> mine] /\ ToSet(frame) = mine
      /\ \A i, j \in DOMAIN frame : i < j => frame[i] < frame[j]
  BY <1>3 DEF Ordered
<1>9. Cardinality(mine) \in Nat
  BY <1>1, <1>6, Finite
<1>10. frame \in Seq(Events) /\ Len(frame) = Cardinality(mine) /\ DOMAIN frame = 1..Cardinality(mine)
  BY <1>6, <1>8, <1>9, AsSequence
<1>11. Increasing(frame)
  BY <1>8, <1>10 DEF Increasing
<1>12. mine = {} => frame = <<>>
  BY <1>6, <1>8, <1>9, AsSequence, FS_EmptySet
<1>13. \A e \in 1..stored : Wants(v, e) /\ c < e => e \in mine \union missed'[v] \union bus
  <2>1. SUFFICES ASSUME NEW e \in 1..stored, Wants(v, e), c < e, e \notin bus
                 PROVE  e \in mine \union missed'[v]
    OBVIOUS
  <2>2. e \in Beyond(v, c)
    BY <1>5, <2>1 DEF Wants
  <2>3. page # {}
    BY <1>4, <2>2
  <2>4. CASE e <= end
    BY <1>4, <2>1, <2>2, <2>3, <2>4 DEF Wants
  <2>5. CASE e > end
    <3>1. e \in S
      BY <2>1, <2>3, <2>5
    <3>2. QED BY <1>1, <1>2, <3>1
  <2>6. QED BY <1>1, <1>7, <2>4, <2>5
<1>14. S \in SUBSET (1..stored)
  OBVIOUS
<1>15. \A e \in ToSet(frame) : c < e /\ e <= end /\ e <= stored /\ Wants(v, e)
  BY <1>1, <1>6, <1>8
<1>16. told' = [told EXCEPT ![v] = end] \/ (told' = told /\ frame = <<>>)
  BY <1>2, <1>12
<1>17. \E T \in SUBSET (1..stored) : missed' = [missed EXCEPT ![v] = @ \union T]
  BY <1>2, <1>14
<1> HIDE DEF mine, end, S
<1>18. PageRead(v, end, frame)
  BY <1>2, <1>3, <1>7, <1>8, <1>10, <1>11, <1>13, <1>15, <1>16, <1>17 DEF PageRead
<1>19. QED BY <1>7, <1>10, <1>18

-----------------------------------------------------------------------------
(* Types *)

LEMMA InitTypes == Init => Types
  BY StreamAssumption, NoElements DEF Init, Types, Closed, Off, Idle, Nobody, Channels, Connections, Publishes

LEMMA PhaseSteps ==
  ASSUME phase \in {"serving", "draining", "detached", "closed"}, phase # "closed"
  PROVE  Phases[Rank(phase) + 1] \in {"serving", "draining", "detached", "closed"}
<1>1. \A i \in DOMAIN Phases : Phases[i] = phase => Rank(phase) = i
  <2>1. \A i, j \in DOMAIN Phases : Phases[i] = Phases[j] => i = j
    BY DEF Phases
  <2>2. QED BY <2>1 DEF Rank
<1>2. \E i \in {1, 2, 3} : Phases[i] = phase
  BY DEF Phases
<1>3. {1, 2, 3} \subseteq DOMAIN Phases
  BY DEF Phases
<1>4. Rank(phase) \in {1, 2, 3}
  BY <1>1, <1>2, <1>3
<1>5. QED BY <1>4 DEF Phases

\* What Publish lists.
Listing(listed, e) == [event |-> e, todo |-> {<<v, conn[v].n>> : v \in listed}, target |-> Nobody, try |-> 0]

LEMMA PublishDoes ==
  ASSUME Types, ChannelInv, NEW p \in Pumps, Publish(p)
  PROVE  \E e \in bus : \E listed \in {{}, subs} :
           /\ pump[p] = Idle /\ bus' = bus \ {e} /\ Lost(Viewers \ listed, e)
           /\ pump' = [pump EXCEPT ![p] = IF listed = {} THEN Idle ELSE Listing(listed, e)]
           /\ Listing(listed, e) \in Publishes
           /\ UNCHANGED <<stored, phase, subs, channel, conn, told, got, faults>>
<1>1. PICK e \in bus : LET listed == IF Reaches("detached") THEN {} ELSE subs
        IN  /\ bus' = bus \ {e}
            /\ pump' = [pump EXCEPT ![p] =
                 IF listed = {} THEN Idle
                 ELSE [event |-> e, todo |-> {<<v, conn[v].n>> : v \in listed}, target |-> Nobody, try |-> 0]]
            /\ Lost(Viewers \ listed, e)
  BY DEF Publish
<1>2. PICK listed \in {{}, subs} :
        /\ bus' = bus \ {e}
        /\ pump' = [pump EXCEPT ![p] = IF listed = {} THEN Idle ELSE Listing(listed, e)]
        /\ Lost(Viewers \ listed, e)
  BY <1>1 DEF Listing
<1>3. \A v \in subs : v \in Viewers /\ conn[v].n \in 1..MaxConns
  <2>1. SUFFICES ASSUME NEW v \in subs PROVE v \in Viewers /\ conn[v].n \in 1..MaxConns
    OBVIOUS
  <2>2. v \in Viewers /\ conn[v] \in Connections /\ conn[v].n \in 0..MaxConns /\ channel[v].open
    BY DEF Types, Connections, ChannelInv, ChannelAt
  <2>3. Streaming(v)
    BY <2>2 DEF ChannelInv, ChannelAt, Closed
  <2>4. conn[v].n > 0
    BY <2>2, <2>3 DEF ChannelInv, ChannelAt, Connected, Streaming
  <2>5. QED BY <2>2, <2>4, StreamAssumption
<1>4. Listing(listed, e) \in Publishes
  BY <1>3 DEF Listing, Publishes, Sends, Types, Events
<1>5. QED BY <1>2, <1>4 DEF Publish

\* What a Publish in progress does next, with the channel of t.
PumpMoves(p, t) ==
  /\ t \in Sends /\ t[1] \in Viewers /\ pump[p].event \in Events
  /\ pump[p].try # 0 => t = pump[p].target
  /\ \/ Filter(p) /\ ~Wants(t[1], pump[p].event) /\ After(p, t)
     \/ /\ Send(p) /\ Wants(t[1], pump[p].event) /\ IsOpen(t) /\ ~Full(t[1])
        /\ channel' = [channel EXCEPT ![t[1]].buf = Append(@, pump[p].event)]
        /\ After(p, t)
     \/ /\ SendFull(p) /\ Wants(t[1], pump[p].event)
        /\ pump' = [pump EXCEPT ![p] = [event |-> @.event, todo |-> @.todo, target |-> t, try |-> 1]]
     \/ DropOldest(p) /\ pump[p].try # 0
     \/ GiveUp(p) /\ pump[p].try # 0

LEMMA PumpDoes ==
  ASSUME Types, PumpInv, NEW p \in Pumps, PumpStep(p)
  PROVE  Publish(p) \/ Panic(p) \/ \E t \in pump[p].todo : PumpMoves(p, t)
<1>1. pump[p] \in Publishes /\ pump[p].todo \subseteq Sends /\ pump[p].event \in 0..NumEvents
  BY DEF Types, Publishes
<1>2. \A t \in pump[p].todo : t \in Sends /\ t[1] \in Viewers /\ pump[p].event \in Events
  BY <1>1, StreamAssumption DEF PumpInv, PumpAt, Sends, Events
<1>3. pump[p].try # 0 => pump[p].target \in pump[p].todo
  BY DEF PumpInv, PumpAt
<1>4. \A t \in Target(p) : t \in pump[p].todo /\ (pump[p].try # 0 => t = pump[p].target)
  BY <1>1, <1>3 DEF Target, Publishes
<1>5. CASE Filter(p)
  <2>1. PICK t \in Target(p) : ~Wants(t[1], pump[p].event) /\ After(p, t)
    BY <1>5 DEF Filter
  <2>2. t \in pump[p].todo /\ PumpMoves(p, t)
    BY <1>2, <1>4, <1>5, <2>1 DEF PumpMoves
  <2>3. QED BY <2>2
<1>6. CASE Send(p)
  <2>1. PICK t \in Target(p) :
          /\ Wants(t[1], pump[p].event) /\ IsOpen(t) /\ ~Full(t[1])
          /\ channel' = [channel EXCEPT ![t[1]].buf = Append(@, pump[p].event)]
          /\ After(p, t)
    BY <1>6 DEF Send
  <2>2. t \in pump[p].todo /\ PumpMoves(p, t)
    BY <1>2, <1>4, <1>6, <2>1 DEF PumpMoves
  <2>3. QED BY <2>2
<1>7. CASE SendFull(p)
  <2>1. PICK t \in Target(p) :
          /\ Wants(t[1], pump[p].event)
          /\ pump' = [pump EXCEPT ![p] = [event |-> @.event, todo |-> @.todo, target |-> t, try |-> 1]]
    BY <1>7 DEF SendFull
  <2>2. t \in pump[p].todo /\ PumpMoves(p, t)
    BY <1>2, <1>4, <1>7, <2>1 DEF PumpMoves
  <2>3. QED BY <2>2
<1>8. CASE DropOldest(p)
  <2>1. pump[p].try # 0
    BY <1>8 DEF DropOldest
  <2>2. PumpMoves(p, pump[p].target) /\ pump[p].target \in pump[p].todo
    BY <1>2, <1>3, <1>8, <2>1 DEF PumpMoves
  <2>3. QED BY <2>2
<1>9. CASE GiveUp(p)
  <2>1. pump[p].try # 0
    BY <1>9 DEF GiveUp
  <2>2. PumpMoves(p, pump[p].target) /\ pump[p].target \in pump[p].todo
    BY <1>2, <1>3, <1>9, <2>1 DEF PumpMoves
  <2>3. QED BY <2>2
<1>10. QED BY <1>5, <1>6, <1>7, <1>8, <1>9 DEF PumpStep

LEMMA IdlePump == Idle \in Publishes
  BY StreamAssumption DEF Idle, Publishes

LEMMA LostTypes ==
  ASSUME Types, NEW who, NEW e \in Events, Lost(who, e)
  PROVE  missed' \in [Viewers -> SUBSET Events] /\ \A v \in Viewers : missed[v] \subseteq missed'[v]
  BY DEF Types, Lost

LEMMA AfterTypes ==
  ASSUME Types, NEW p \in Pumps, NEW t, After(p, t)
  PROVE  pump' \in [Pumps -> Publishes]
<1>1. pump[p] \in Publishes
  BY DEF Types
<1>2. [event |-> pump[p].event, todo |-> pump[p].todo \ {t}, target |-> Nobody, try |-> 0] \in Publishes
  BY <1>1 DEF Publishes
<1>3. QED BY <1>2, IdlePump DEF After, Types

LEMMA PumpTypes ==
  ASSUME Types, ChannelInv, PumpInv, NEW p \in Pumps, PumpStep(p)
  PROVE  Types'
<1>1. CASE Publish(p)
  <2>1. PICK e \in bus : \E listed \in {{}, subs} :
          /\ bus' = bus \ {e} /\ Lost(Viewers \ listed, e)
          /\ pump' = [pump EXCEPT ![p] = IF listed = {} THEN Idle ELSE Listing(listed, e)]
          /\ Listing(listed, e) \in Publishes
          /\ UNCHANGED <<stored, phase, subs, channel, conn, told, got, faults>>
    BY <1>1, PublishDoes
  <2>2. e \in Events /\ Idle \in Publishes
    BY IdlePump DEF Types
  <2>3. pump' \in [Pumps -> Publishes] /\ bus' \in SUBSET Events
    BY <2>1, <2>2 DEF Types
  <2>4. missed' \in [Viewers -> SUBSET Events]
    BY <2>1, <2>2, LostTypes
  <2>5. QED BY <2>1, <2>3, <2>4 DEF Types
<1>2. CASE Panic(p)
  <2>1. PICK t \in Target(p) : TRUE
    BY <1>2 DEF Panic
  <2>2. t \in pump[p].todo
    BY <1>2, <2>1 DEF Panic, Target, PumpInv, PumpAt
  <2>3. pump[p].event \in Events /\ Idle \in Publishes
    <3>1. pump[p] \in Publishes /\ pump[p].event \in 0..NumEvents /\ pump[p].event > 0
      BY <2>2 DEF Types, PumpInv, PumpAt, Publishes
    <3>2. QED BY <3>1, IdlePump, StreamAssumption DEF Events
  <2>4. missed' \in [Viewers -> SUBSET Events]
    BY <1>2, <2>3, LostTypes DEF Panic
  <2>5. QED BY <1>2, <2>3, <2>4 DEF Panic, Types
<1>3. ASSUME NEW t \in pump[p].todo, PumpMoves(p, t) PROVE Types'
  <2> t \in Sends /\ t[1] \in Viewers /\ pump[p].event \in Events /\ (pump[p].try # 0 => t = pump[p].target)
    BY <1>3 DEF PumpMoves
  <2> pump \in [Pumps -> Publishes] /\ pump[p] \in Publishes
    BY DEF Types
  <2>1. CASE Filter(p) /\ After(p, t)
    BY <2>1, AfterTypes DEF Filter, Types
  <2>2. CASE /\ Send(p) /\ After(p, t)
             /\ channel' = [channel EXCEPT ![t[1]].buf = Append(@, pump[p].event)]
    <3>1. channel[t[1]] \in Channels /\ channel[t[1]].buf \in Seq(Events)
      BY <1>3 DEF Types, Channels
    <3>2. Append(channel[t[1]].buf, pump[p].event) \in Seq(Events)
      BY <1>3, <3>1, Appended
    <3>3. channel' \in [Viewers -> Channels]
      BY <2>2, <3>1, <3>2 DEF Types, Channels
    <3>4. QED BY <2>2, <3>3, AfterTypes DEF Send, Types
  <2>3. CASE /\ SendFull(p)
             /\ pump' = [pump EXCEPT ![p] = [event |-> @.event, todo |-> @.todo, target |-> t, try |-> 1]]
    <3>1. [event |-> pump[p].event, todo |-> pump[p].todo, target |-> t, try |-> 1] \in Publishes
      BY DEF Publishes
    <3>2. pump' \in [Pumps -> Publishes]
      BY <2>3, <3>1
    <3>3. QED BY <2>3, <3>2 DEF SendFull, Types
  <2>4. CASE DropOldest(p) /\ pump[p].try # 0
    <3>1. pump' = [pump EXCEPT ![p].try = 2]
          /\ UNCHANGED <<stored, bus, phase, subs, conn, told, got, faults>>
      BY <2>4 DEF DropOldest
    <3>2. pump' \in [Pumps -> Publishes]
      <4>1. [pump[p] EXCEPT !.try = 2] = [event |-> pump[p].event, todo |-> pump[p].todo, target |-> pump[p].target, try |-> 2]
        BY DEF Publishes
      <4>2. [pump[p] EXCEPT !.try = 2] \in Publishes
        BY <4>1 DEF Publishes
      <4>3. QED BY <3>1, <4>2
    <3>3. CASE UNCHANGED <<missed, channel>>
      BY <3>1, <3>2, <3>3 DEF Types
    <3>4. CASE /\ channel[t[1]].buf # <<>>
               /\ missed' = [missed EXCEPT ![t[1]] = @ \union {Head(channel[t[1]].buf)}]
               /\ channel' = [channel EXCEPT ![t[1]].buf = Tail(@)]
      <4>1. channel[t[1]] \in Channels /\ channel[t[1]].buf \in Seq(Events)
        BY <1>3 DEF Types, Channels
      <4>2. Tail(channel[t[1]].buf) \in Seq(Events) /\ Head(channel[t[1]].buf) \in Events
        BY <3>4, <4>1, Received
      <4>3. channel' \in [Viewers -> Channels] /\ missed' \in [Viewers -> SUBSET Events]
        BY <3>4, <4>1, <4>2 DEF Types, Channels
      <4>4. QED BY <3>1, <3>2, <4>3 DEF Types
    <3>5. QED BY <2>4, <3>3, <3>4 DEF DropOldest
  <2>5. CASE GiveUp(p) /\ pump[p].try # 0
    <3>1. missed' = [missed EXCEPT ![t[1]] = @ \union {pump[p].event}] /\ After(p, t)
      BY <2>5 DEF GiveUp
    <3>2. missed' \in [Viewers -> SUBSET Events]
      BY <1>3, <3>1 DEF Types
    <3>3. QED BY <2>5, <3>1, <3>2, AfterTypes DEF GiveUp, Types
  <2>6. QED BY <1>3, <2>1, <2>2, <2>3, <2>4, <2>5 DEF PumpMoves
<1>4. QED BY <1>1, <1>2, <1>3, PumpDoes

Moves(v) ==
  \/ Subscribe(v) \/ Receive(v) \/ WriteFrame(v) \/ EndOfStream(v)
  \/ Connect(v) \/ Heartbeat(v) \/ Disconnect(v)

\* The values of a viewer, and of the others, after one of its steps.
LEMMA ViewerTypes ==
  ASSUME Types, StoredInv, NEW v \in Viewers, ReadPage(v) \/ Moves(v)
  PROVE  Types'
<1>1. /\ channel[v] \in Channels /\ channel[v].buf \in Seq(Events) /\ Closed \in Channels
      /\ conn[v] \in Connections /\ conn[v].batch \in Seq(Events) /\ conn[v].cursor \in 0..NumEvents
      /\ conn[v].n \in 0..MaxConns /\ got[v] \in Seq(Events) /\ <<>> \in Seq(Events)
      /\ told[v] \in 0..NumEvents /\ stored \in 0..NumEvents
  BY NoElements DEF Types, Channels, Connections, Closed
<1>2. ASSUME NEW at \in {"reading", "paged", "live", "drain"}, NEW cursor \in 0..NumEvents, NEW batch \in Seq(Events),
             Streams(v, at, cursor, batch)
      PROVE  conn' \in [Viewers -> Connections]
  BY <1>1, <1>2 DEF Streams, Types, Connections
<1>3. CASE ReadPage(v)
  <2>1. PICK end \in conn[v].cursor..stored : \E frame \in Seq(Events) : PageRead(v, end, frame)
    BY <1>3, ReadPageDoes
  <2>2. PICK frame \in Seq(Events) : PageRead(v, end, frame)
    BY <2>1
  <2>3. end \in 0..NumEvents
    BY <1>1, StreamAssumption
  <2>4. conn' \in [Viewers -> Connections]
    BY <1>1, <1>2, <2>2, <2>3 DEF PageRead
  <2>5. got' \in [Viewers -> Seq(Events)]
    <3>1. got[v] \o frame \in Seq(Events)
      BY <1>1, <2>2, Continued
    <3>2. QED BY <2>2, <3>1 DEF PageRead, Types
  <2>6. told' \in [Viewers -> 0..NumEvents]
    BY <2>2, <2>3 DEF PageRead, Types
  <2>7. missed' \in [Viewers -> SUBSET Events]
    <3>1. PICK S \in SUBSET (1..stored) : missed' = [missed EXCEPT ![v] = @ \union S]
      BY <2>2 DEF PageRead
    <3>2. S \subseteq Events
      BY <1>1, StreamAssumption DEF Events
    <3>3. QED BY <3>1, <3>2 DEF Types
  <2>8. QED BY <2>2, <2>4, <2>5, <2>6, <2>7 DEF PageRead, Types
<1>4. CASE Subscribe(v)
  <2>1. conn' \in [Viewers -> Connections]
    BY <1>1, <1>2, <1>4 DEF Subscribe
  <2>2. subs' \in SUBSET Viewers /\ channel' \in [Viewers -> Channels]
    <3>1. [buf |-> <<>>, open |-> TRUE] \in Channels
      BY <1>1 DEF Channels
    <3>2. CASE UNCHANGED <<subs, channel>>
      BY <3>2 DEF Types
    <3>3. CASE subs' = subs \union {v} /\ channel' = [channel EXCEPT ![v] = [buf |-> <<>>, open |-> TRUE]]
      BY <3>1, <3>3 DEF Types
    <3>4. QED BY <1>4, <3>2, <3>3 DEF Subscribe
  <2>3. QED BY <1>4, <2>1, <2>2 DEF Subscribe, Types
<1>5. CASE Receive(v)
  <2>1. /\ Head(channel[v].buf) \in Events /\ Tail(channel[v].buf) \in Seq(Events)
        /\ Append(conn[v].batch, Head(channel[v].buf)) \in Seq(Events)
    BY <1>1, <1>5, Received, Appended DEF Receive
  <2>2. Head(channel[v].buf) \in 0..NumEvents
    BY <2>1 DEF Events
  <2>3. conn' \in [Viewers -> Connections]
    BY <1>1, <1>2, <1>5, <2>1, <2>2 DEF Receive
  <2>4. channel' \in [Viewers -> Channels] /\ missed' \in [Viewers -> SUBSET Events]
    <3>1. channel' = [channel EXCEPT ![v].buf = Tail(@)]
      BY <1>5 DEF Receive
    <3>2. missed' = missed \/ missed' = [missed EXCEPT ![v] = @ \union {Head(channel[v].buf)}]
      BY <1>5 DEF Receive
    <3>3. [channel[v] EXCEPT !.buf = Tail(channel[v].buf)] \in Channels
      BY <1>1, <2>1 DEF Channels
    <3>4. channel' \in [Viewers -> Channels]
      BY <3>1, <3>3 DEF Types
    <3>5. QED BY <2>1, <3>2, <3>4 DEF Types
  <2>5. QED BY <1>5, <2>3, <2>4 DEF Receive, Types
<1>6. CASE WriteFrame(v)
  <2>1. conn' \in [Viewers -> Connections]
    BY <1>1, <1>2, <1>6 DEF WriteFrame
  <2>2. got[v] \o conn[v].batch \in Seq(Events)
    BY <1>1, Continued
  <2>3. got' \in [Viewers -> Seq(Events)] /\ told' \in [Viewers -> 0..NumEvents]
    BY <1>1, <1>6, <2>2 DEF WriteFrame, Types
  <2>4. QED BY <1>6, <2>1, <2>3 DEF WriteFrame, Types
<1>7. ASSUME Leave(v) PROVE /\ conn' \in [Viewers -> Connections] /\ subs' \in SUBSET Viewers
                            /\ channel' \in [Viewers -> Channels] /\ missed' \in [Viewers -> SUBSET Events]
  <2>1. Off(conn[v].n) \in Connections
    BY <1>1, StreamAssumption DEF Off, Connections
  <2>2. ToSet(channel[v].buf) \subseteq Events
    BY <1>1, Elements
  <2>3. QED BY <1>1, <1>7, <2>1, <2>2 DEF Leave, Types
<1>8. CASE EndOfStream(v)
  BY <1>7, <1>8 DEF EndOfStream, Types
<1>9. CASE Disconnect(v)
  <2>1. faults' \in 0..MaxFaults
    BY <1>9, StreamAssumption DEF Disconnect, Types
  <2>2. QED BY <1>7, <1>9, <2>1 DEF Disconnect, Types
<1>10. CASE Connect(v)
  <2>1. [at |-> "reading", n |-> conn[v].n + 1, cursor |-> told[v], batch |-> <<>>] \in Connections
    BY <1>1, <1>10, StreamAssumption DEF Connect, Connections
  <2>2. conn' \in [Viewers -> Connections] /\ channel' \in [Viewers -> Channels]
    BY <1>1, <1>10, <2>1 DEF Connect, Types
  <2>3. QED BY <1>10, <2>2 DEF Connect, Types
<1>11. CASE Heartbeat(v)
  BY <1>1, <1>11 DEF Heartbeat, Types
<1>12. QED BY <1>3, <1>4, <1>5, <1>6, <1>8, <1>9, <1>10, <1>11 DEF Moves

LEMMA NextSteps ==
  ASSUME Next
  PROVE  \/ AppendEvent \/ Redeliver \/ HandledElsewhere \/ Advance
         \/ \E p \in Pumps : PumpStep(p)
         \/ \E v \in Viewers : ReadPage(v) \/ Moves(v)
  BY DEF Next, ViewerStep, Moves

LEMMA NextTypes ==
  ASSUME Types, StoredInv, ChannelInv, PumpInv, [Next]_vars
  PROVE  Types'
<1>1. CASE AppendEvent
  <2>1. stored' \in 0..NumEvents /\ bus' \in SUBSET Events
    BY <1>1, StreamAssumption DEF AppendEvent, Types, Events
  <2>2. QED BY <1>1, <2>1 DEF AppendEvent, Types
<1>2. CASE Redeliver
  <2>1. faults' \in 0..MaxFaults /\ bus' \in SUBSET Events
    BY <1>2, StreamAssumption DEF Redeliver, Types, Events
  <2>2. QED BY <1>2, <2>1 DEF Redeliver, Types
<1>3. CASE HandledElsewhere
  <2>1. faults' \in 0..MaxFaults
    BY <1>3, StreamAssumption DEF HandledElsewhere, Types
  <2>2. PICK e \in bus : bus' = bus \ {e} /\ Lost(Viewers, e)
    BY <1>3 DEF HandledElsewhere
  <2>3. e \in Events /\ bus' \in SUBSET Events
    BY <2>2 DEF Types
  <2>4. missed' \in [Viewers -> SUBSET Events]
    BY <2>2, <2>3, LostTypes
  <2>5. QED BY <1>3, <2>1, <2>3, <2>4 DEF HandledElsewhere, Types
<1>4. CASE Advance
  <2>1. phase' \in {"serving", "draining", "detached", "closed"}
    BY <1>4, PhaseSteps DEF Advance, Types
  <2>2. \A v \in Viewers : [buf |-> channel[v].buf, open |-> FALSE] \in Channels
    BY DEF Types, Channels
  <2>3. channel' \in [Viewers -> Channels] /\ subs' \in SUBSET Viewers
    BY <1>4, <2>2 DEF Advance, Types
  <2>4. QED BY <1>4, <2>1, <2>3 DEF Advance, Types
<1>5. CASE UNCHANGED vars
  BY <1>5 DEF vars, Types
<1>6. QED BY <1>1, <1>2, <1>3, <1>4, <1>5, NextSteps, PumpTypes, ViewerTypes

-----------------------------------------------------------------------------
(* A step of a viewer *)

ViewerKept(v) == StoredAt(v) /\ ChannelAt(v) /\ FrameAt(v) /\ GotAt(v) /\ SeenAt(v)

\* A viewer moves itself only.
OthersRest(v) ==
  /\ UNCHANGED <<stored, bus, pump>>
  /\ \A w \in Viewers : w # v => /\ UNCHANGED <<channel[w], conn[w], told[w], got[w], missed[w]>>
                                 /\ w \in subs' <=> w \in subs

LEMMA OneViewer ==
  ASSUME Types, StoredInv, NEW v \in Viewers, ReadPage(v) \/ Moves(v)
  PROVE  OthersRest(v)
<1>1. ASSUME ReadPage(v) PROVE OthersRest(v)
  <2>1. PICK end \in conn[v].cursor..stored : \E frame \in Seq(Events) : PageRead(v, end, frame)
    BY <1>1, ReadPageDoes
  <2>2. PICK frame \in Seq(Events) : PageRead(v, end, frame)
    BY <2>1
  <2>3. QED BY <2>2 DEF PageRead, OthersRest, Streams, Types
<1>2. ASSUME Subscribe(v) \/ Receive(v) PROVE OthersRest(v)
  BY <1>2 DEF Subscribe, Receive, OthersRest, Streams, Types
<1>3. ASSUME WriteFrame(v) \/ Connect(v) \/ Heartbeat(v) PROVE OthersRest(v)
  BY <1>3 DEF WriteFrame, Connect, Heartbeat, OthersRest, Streams, Types
<1>4. ASSUME EndOfStream(v) \/ Disconnect(v) PROVE OthersRest(v)
  BY <1>4 DEF EndOfStream, Disconnect, Leave, OthersRest, Types
<1>5. QED BY <1>1, <1>2, <1>3, <1>4 DEF Moves

LEMMA OthersKept ==
  ASSUME IInv, NEW v \in Viewers, OthersRest(v), NEW w \in Viewers, w # v
  PROVE  ViewerKept(w)'
<1>1. ViewerKept(w)
  BY DEF IInv, StoredInv, ChannelInv, FrameInv, SeenInv, ViewerKept
<1>2. Sending(w)' = Sending(w)
  BY DEF OthersRest, Sending
<1>3. QED
  BY <1>1, <1>2 DEF OthersRest, ViewerKept, StoredAt, ChannelAt, FrameAt, GotAt, SeenAt, Owed, Accounted, Connected,
     Streaming

\* What is typed and known of v.
ViewerFacts(v) ==
  /\ stored \in Nat /\ stored <= NumEvents
  /\ conn[v] \in Connections /\ conn[v].batch \in Seq(Events) /\ conn[v].cursor \in 0..NumEvents
  /\ channel[v] \in Channels /\ channel[v].buf \in Seq(Events)
  /\ got[v] \in Seq(Events) /\ told[v] \in 0..NumEvents /\ missed[v] \in SUBSET Events

LEMMA Facts ==
  ASSUME IInv, NEW v \in Viewers
  PROVE  ViewerKept(v) /\ ViewerFacts(v)
  BY StreamAssumption DEF IInv, StoredInv, ChannelInv, FrameInv, SeenInv, ViewerKept, ViewerFacts, Types, Connections, Channels

LEMMA PageKept ==
  ASSUME IInv, NEW v \in Viewers, ReadPage(v)
  PROVE  ViewerKept(v)'
<1>1. PICK end \in conn[v].cursor..stored : \E frame \in Seq(Events) : PageRead(v, end, frame)
  BY ReadPageDoes DEF IInv
<1>2. PICK frame \in Seq(Events) : PageRead(v, end, frame)
  BY <1>1
<1>3. ViewerKept(v) /\ ViewerFacts(v)
  BY Facts
<1>4. PICK S \in SUBSET (1..stored) : missed' = [missed EXCEPT ![v] = @ \union S]
  BY <1>2 DEF PageRead
<1>5. /\ conn[v].at = "reading" /\ conn[v].cursor = told[v] /\ conn[v].batch = <<>> /\ channel[v] = Closed
      /\ conn'[v] = [at |-> "paged", n |-> conn[v].n, cursor |-> end, batch |-> <<>>]
      /\ got'[v] = got[v] \o frame
      /\ told'[v] = end \/ (told'[v] = told[v] /\ frame = <<>>)
      /\ missed'[v] = missed[v] \union S
      /\ UNCHANGED <<stored, bus, subs, channel, pump>>
  BY <1>2, <1>3, <1>4 DEF PageRead, Streams, ViewerKept, FrameAt, ChannelAt, Streaming, IInv, Types
<1>6. /\ end \in Nat /\ told[v] \in Nat /\ told[v] <= end /\ end <= stored
      /\ \A e \in ToSet(frame) : told[v] < e /\ e <= end /\ e <= stored /\ Wants(v, e)
      /\ Increasing(frame) /\ ToSet(frame) \subseteq Events
      /\ \A e \in 1..stored : Wants(v, e) /\ told[v] < e => e \in ToSet(frame) \union missed'[v] \union bus
  BY <1>2, <1>3, <1>5, Elements DEF PageRead, ViewerFacts
<1>7. told'[v] \in told[v]..end /\ \A e \in ToSet(frame) : e <= told'[v]
  BY <1>5, <1>6, NoElements
<1>8. ToSet(got'[v]) = ToSet(got[v]) \union ToSet(frame)
  BY <1>3, <1>5, Continued DEF ViewerFacts
<1>9. StoredAt(v)'
  <2>1. told'[v] <= stored' /\ conn'[v].cursor <= stored'
    BY <1>3, <1>5, <1>6, <1>7 DEF ViewerFacts
  <2>2. missed'[v] \subseteq 1..stored' /\ ToSet(channel'[v].buf) \subseteq 1..stored'
    BY <1>3, <1>5 DEF ViewerKept, StoredAt
  <2>3. ToSet(frame) \subseteq 1..stored
    BY <1>6 DEF Events
  <2>4. ToSet(got'[v]) \subseteq 1..stored'
    BY <1>3, <1>5, <1>8, <2>3 DEF ViewerKept, StoredAt
  <2>5. QED BY <2>1, <2>2, <2>4 DEF StoredAt
<1>10. ChannelAt(v)'
  BY <1>3, <1>5 DEF ViewerKept, ChannelAt, Connected, Streaming
<1>11. FrameAt(v)'
  BY <1>5, <1>7, NoElements, StreamAssumption DEF FrameAt, Connected
<1>12. GotAt(v)'
  <2>1. \A e \in ToSet(got[v]) : e \in Nat /\ e <= told[v]
    BY <1>3, Elements DEF ViewerKept, ViewerFacts, GotAt, Events
  <2>2. \A e \in ToSet(got[v]) : \A f \in ToSet(frame) : e < f
    BY <1>6, <2>1 DEF Events
  <2>3. Increasing(got'[v])
    BY <1>3, <1>5, <1>6, <2>2, Continued DEF ViewerKept, ViewerFacts, GotAt
  <2>4. QED BY <1>3, <1>6, <1>7, <1>8, <2>1, <2>3 DEF ViewerKept, GotAt
<1>13. SeenAt(v)'
  <2>1. SUFFICES ASSUME NEW e \in 1..stored, Wants(v, e) PROVE Accounted(v, e)'
    BY <1>5 DEF SeenAt
  <2>2. CASE e <= told[v]
    <3>1. Accounted(v, e)
      BY <1>3, <2>1, <2>2 DEF ViewerKept, SeenAt, Owed
    <3>2. Sending(v)' = Sending(v)
      BY <1>5 DEF Sending
    <3>3. QED BY <1>5, <1>8, <3>1, <3>2 DEF Accounted
  <2>3. CASE told[v] < e
    BY <1>5, <1>6, <1>8, <2>1, <2>3 DEF Accounted
  <2>4. QED BY <1>6, <2>2, <2>3
<1>14. QED BY <1>9, <1>10, <1>11, <1>12, <1>13 DEF ViewerKept

LEMMA SubscribeKept ==
  ASSUME IInv, NEW v \in Viewers, Subscribe(v)
  PROVE  ViewerKept(v)'
<1>1. ViewerKept(v) /\ ViewerFacts(v)
  BY Facts
<1>2. /\ conn[v].at = "paged" /\ conn[v].batch = <<>> /\ channel[v] = Closed
      /\ conn'[v] = [at |-> "live", n |-> conn[v].n, cursor |-> conn[v].cursor, batch |-> <<>>]
      /\ UNCHANGED <<stored, bus, told, got, pump, missed>>
  BY <1>1 DEF Subscribe, Streams, ViewerKept, FrameAt, ChannelAt, Streaming, IInv, Types
<1>3. /\ channel'[v].buf = <<>>
      /\ v \in subs' <=> channel'[v].open
  BY <1>1, <1>2 DEF Subscribe, ViewerKept, ChannelAt, Closed, IInv, Types
<1>4. StoredAt(v)'
  BY <1>1, <1>2, <1>3, NoElements DEF ViewerKept, StoredAt
<1>5. ChannelAt(v)'
  BY <1>1, <1>2, <1>3, NoElements, StreamAssumption DEF ViewerKept, ChannelAt, Connected, Streaming
<1>6. FrameAt(v)' /\ GotAt(v)'
  BY <1>1, <1>2 DEF ViewerKept, FrameAt, GotAt, Connected
<1>7. Sending(v)' = Sending(v)
  BY <1>2 DEF Sending
<1>8. SeenAt(v)'
  BY <1>1, <1>2, <1>3, <1>7, NoElements DEF ViewerKept, SeenAt, Owed, Accounted, Closed
<1>9. QED BY <1>4, <1>5, <1>6, <1>8 DEF ViewerKept

LEMMA ReceiveKept ==
  ASSUME IInv, NEW v \in Viewers, Receive(v)
  PROVE  ViewerKept(v)'
<1> DEFINE e == Head(channel[v].buf)
<1>1. ViewerKept(v) /\ ViewerFacts(v)
  BY Facts
<1>2. /\ Streaming(v) /\ Len(conn[v].batch) < Limit /\ channel[v].buf # <<>>
      /\ channel'[v].buf = Tail(channel[v].buf) /\ channel'[v].open = channel[v].open
      /\ UNCHANGED <<stored, bus, subs, told, got, pump>>
  BY <1>1 DEF Receive, ViewerFacts, Channels, IInv, Types
<1>3. /\ e \in Events /\ Len(Tail(channel[v].buf)) <= Len(channel[v].buf)
      /\ ToSet(channel[v].buf) = {e} \union ToSet(channel'[v].buf)
      /\ Len(channel'[v].buf) \in Nat /\ Len(channel[v].buf) \in Nat
  BY <1>1, <1>2, Received, LenProperties DEF ViewerFacts
<1>4. \/ /\ e > conn[v].cursor /\ missed'[v] = missed[v]
         /\ conn'[v] = [at |-> "drain", n |-> conn[v].n, cursor |-> e, batch |-> Append(conn[v].batch, e)]
      \/ /\ missed'[v] = missed[v] \union {e}
         /\ conn'[v] = [at |-> "drain", n |-> conn[v].n, cursor |-> conn[v].cursor, batch |-> conn[v].batch]
  BY DEF Receive, Streams, IInv, Types
<1> HIDE DEF e
<1>5. e \in Nat /\ e <= stored /\ e \in 1..stored /\ Wants(v, e)
  BY <1>1, <1>3 DEF ViewerKept, ViewerFacts, StoredAt, ChannelAt, Events
<1>6. ChannelAt(v)'
  <2>1. Streaming(v)' /\ Connected(v)' /\ conn'[v].n = conn[v].n /\ Connected(v)
    BY <1>2, <1>4 DEF Streaming, Connected
  <2>2. Len(channel'[v].buf) <= BufferSize
    BY <1>1, <1>2, <1>3, StreamAssumption DEF ViewerKept, ChannelAt
  <2>3. QED BY <1>1, <1>2, <1>3, <2>1, <2>2 DEF ViewerKept, ChannelAt
<1>7. GotAt(v)'
  BY <1>1, <1>2 DEF ViewerKept, GotAt
<1>8. CASE /\ e > conn[v].cursor /\ missed'[v] = missed[v]
           /\ conn'[v] = [at |-> "drain", n |-> conn[v].n, cursor |-> e, batch |-> Append(conn[v].batch, e)]
  <2>1. /\ told[v] <= conn[v].cursor /\ told[v] \in Nat /\ conn[v].cursor \in Nat
        /\ \A f \in ToSet(conn[v].batch) : f \in Nat /\ told[v] < f /\ f <= conn[v].cursor /\ Wants(v, f)
    BY <1>1, <1>2, Elements DEF ViewerKept, ViewerFacts, FrameAt, Connected, Streaming, Events
  <2>2. \A f \in ToSet(conn[v].batch) : f < e
    BY <1>5, <1>8, <2>1
  <2>3. /\ ToSet(conn'[v].batch) = ToSet(conn[v].batch) \union {e} /\ Increasing(conn'[v].batch)
        /\ Len(conn'[v].batch) = Len(conn[v].batch) + 1
    BY <1>1, <1>3, <1>8, <2>2, Appended DEF ViewerKept, ViewerFacts, FrameAt
  <2>4. StoredAt(v)'
    BY <1>1, <1>2, <1>3, <1>5, <1>8 DEF ViewerKept, StoredAt
  <2>5. FrameAt(v)'
    <3>1. Len(conn'[v].batch) <= Limit
      BY <1>1, <1>2, <2>3, StreamAssumption, LenProperties DEF ViewerFacts
    <3>2. told'[v] <= conn'[v].cursor /\ conn'[v].at = "drain"
      BY <1>2, <1>5, <1>8, <2>1
    <3>3. \A f \in ToSet(conn'[v].batch) : told'[v] < f /\ f <= conn'[v].cursor /\ Wants(v, f)
      BY <1>2, <1>5, <1>8, <2>1, <2>2, <2>3
    <3>4. QED BY <2>3, <3>1, <3>2, <3>3 DEF FrameAt
  <2>6. SeenAt(v)'
    <3>1. SUFFICES ASSUME NEW f \in 1..stored, Wants(v, f) PROVE Accounted(v, f)'
      BY <1>2 DEF SeenAt
    <3>2. Accounted(v, f)
      BY <1>1, <1>2, <3>1 DEF ViewerKept, SeenAt, Owed, Streaming
    <3>3. Sending(v)' = Sending(v)
      BY <1>2 DEF Sending
    <3>4. QED BY <1>2, <1>3, <1>8, <2>3, <3>2, <3>3 DEF Accounted
  <2>7. QED BY <1>6, <1>7, <2>4, <2>5, <2>6 DEF ViewerKept
<1>9. CASE /\ missed'[v] = missed[v] \union {e}
           /\ conn'[v] = [at |-> "drain", n |-> conn[v].n, cursor |-> conn[v].cursor, batch |-> conn[v].batch]
  <2>1. StoredAt(v)'
    BY <1>1, <1>2, <1>3, <1>5, <1>9 DEF ViewerKept, StoredAt
  <2>2. FrameAt(v)'
    BY <1>1, <1>2, <1>9 DEF ViewerKept, FrameAt, Connected, Streaming
  <2>3. SeenAt(v)'
    <3>1. SUFFICES ASSUME NEW f \in 1..stored, Wants(v, f) PROVE Accounted(v, f)'
      BY <1>2 DEF SeenAt
    <3>2. Accounted(v, f)
      BY <1>1, <1>2, <3>1 DEF ViewerKept, SeenAt, Owed, Streaming
    <3>3. Sending(v)' = Sending(v)
      BY <1>2 DEF Sending
    <3>4. QED BY <1>2, <1>3, <1>9, <3>2, <3>3 DEF Accounted
  <2>4. QED BY <1>6, <1>7, <2>1, <2>2, <2>3 DEF ViewerKept
<1>10. QED BY <1>4, <1>8, <1>9

LEMMA WriteFrameKept ==
  ASSUME IInv, NEW v \in Viewers, WriteFrame(v)
  PROVE  ViewerKept(v)'
<1>1. ViewerKept(v) /\ ViewerFacts(v)
  BY Facts
<1>2. /\ conn[v].at = "drain"
      /\ got'[v] = got[v] \o conn[v].batch
      /\ told'[v] = IF conn[v].batch = <<>> THEN told[v] ELSE conn[v].cursor
      /\ conn'[v] = [at |-> "live", n |-> conn[v].n, cursor |-> conn[v].cursor, batch |-> <<>>]
      /\ UNCHANGED <<stored, bus, subs, channel, pump, missed>>
  BY DEF WriteFrame, Streams, IInv, Types
<1>3. /\ ToSet(got'[v]) = ToSet(got[v]) \union ToSet(conn[v].batch)
      /\ told[v] \in Nat /\ conn[v].cursor \in Nat /\ stored \in Nat /\ told[v] <= conn[v].cursor
      /\ \A e \in ToSet(got[v]) : e \in Nat /\ e <= told[v]
      /\ \A e \in ToSet(conn[v].batch) : e \in Nat /\ e >= 1 /\ told[v] < e /\ e <= conn[v].cursor /\ Wants(v, e)
  BY <1>1, <1>2, Elements, Continued DEF ViewerKept, ViewerFacts, FrameAt, GotAt, Connected, Events
<1>4. told'[v] \in Nat /\ told[v] <= told'[v] /\ told'[v] <= conn[v].cursor
      /\ \A e \in ToSet(conn[v].batch) : e <= told'[v]
  BY <1>2, <1>3, NoElements
<1>5. StoredAt(v)'
  <2>1. ToSet(conn[v].batch) \subseteq 1..stored
    BY <1>1, <1>3 DEF ViewerKept, StoredAt
  <2>2. told'[v] <= stored
    BY <1>1, <1>3, <1>4 DEF ViewerKept, StoredAt
  <2>3. QED BY <1>1, <1>2, <1>3, <2>1, <2>2 DEF ViewerKept, StoredAt
<1>6. ChannelAt(v)'
  BY <1>1, <1>2 DEF ViewerKept, ChannelAt, Connected, Streaming
<1>7. FrameAt(v)'
  BY <1>2, <1>4, NoElements, StreamAssumption DEF FrameAt, Connected
<1>8. GotAt(v)'
  <2>1. \A e \in ToSet(got[v]) : \A f \in ToSet(conn[v].batch) : e < f
    BY <1>3
  <2>2. Increasing(got'[v])
    BY <1>1, <1>2, <2>1, Continued DEF ViewerKept, ViewerFacts, FrameAt, GotAt
  <2>3. \A e \in ToSet(got'[v]) : e <= told'[v] /\ Wants(v, e)
    BY <1>1, <1>3, <1>4 DEF ViewerKept, GotAt
  <2>4. QED BY <2>2, <2>3 DEF GotAt
<1>9. SeenAt(v)'
  <2>1. SUFFICES ASSUME NEW f \in 1..stored, Wants(v, f) PROVE Accounted(v, f)'
    BY <1>2 DEF SeenAt
  <2>2. Accounted(v, f)
    BY <1>1, <1>2, <2>1 DEF ViewerKept, SeenAt, Owed
  <2>3. Sending(v)' = Sending(v)
    BY <1>2 DEF Sending
  <2>4. QED BY <1>2, <1>3, <2>2, <2>3 DEF Accounted
<1>10. QED BY <1>5, <1>6, <1>7, <1>8, <1>9 DEF ViewerKept

LEMMA ConnectKept ==
  ASSUME IInv, NEW v \in Viewers, Connect(v)
  PROVE  ViewerKept(v)'
<1>1. ViewerKept(v) /\ ViewerFacts(v)
  BY Facts
<1>2. /\ conn[v].at = "off" /\ conn[v].batch = <<>> /\ channel[v] = Closed /\ channel'[v] = Closed
      /\ conn'[v] = [at |-> "reading", n |-> conn[v].n + 1, cursor |-> told[v], batch |-> <<>>]
      /\ UNCHANGED <<stored, bus, subs, told, got, pump, missed>>
  BY <1>1 DEF Connect, ViewerKept, FrameAt, ChannelAt, Streaming, IInv, Types
<1>3. conn[v].n + 1 > 0 /\ told[v] \in Nat
  BY <1>1, StreamAssumption DEF ViewerFacts, Connections
<1>4. StoredAt(v)'
  BY <1>1, <1>2, <1>3 DEF ViewerKept, StoredAt
<1>5. ChannelAt(v)'
  BY <1>1, <1>2, <1>3 DEF ViewerKept, ChannelAt, Connected, Streaming
<1>6. FrameAt(v)' /\ GotAt(v)'
  <2>1. FrameAt(v)'
    BY <1>2, <1>3, NoElements, StreamAssumption DEF FrameAt
  <2>2. GotAt(v)'
    BY <1>1, <1>2 DEF ViewerKept, GotAt
  <2>3. QED BY <2>1, <2>2
<1>7. Sending(v)' = Sending(v)
  BY <1>2 DEF Sending
<1>8. SeenAt(v)'
  BY <1>1, <1>2, <1>7 DEF ViewerKept, SeenAt, Owed, Accounted
<1>9. QED BY <1>4, <1>5, <1>6, <1>8 DEF ViewerKept

LEMMA HeartbeatKept ==
  ASSUME IInv, NEW v \in Viewers, Heartbeat(v)
  PROVE  ViewerKept(v)'
<1>1. ViewerKept(v) /\ ViewerFacts(v)
  BY Facts
<1>2. /\ conn[v].at = "live" /\ conn[v].batch = <<>> /\ told'[v] = conn[v].cursor
      /\ UNCHANGED <<stored, bus, subs, channel, conn, got, pump, missed>>
  BY <1>1 DEF Heartbeat, ViewerKept, FrameAt, IInv, Types
<1>3. told[v] <= conn[v].cursor /\ told[v] \in Nat /\ conn[v].cursor \in Nat
      /\ \A e \in ToSet(got[v]) : e \in Nat
  BY <1>1, <1>2, Elements DEF ViewerKept, ViewerFacts, FrameAt, Connected, Events
<1>4. StoredAt(v)' /\ ChannelAt(v)'
  BY <1>1, <1>2 DEF ViewerKept, StoredAt, ChannelAt, Connected, Streaming
<1>5. FrameAt(v)'
  BY <1>1, <1>2, <1>3, NoElements DEF ViewerKept, FrameAt, Connected
<1>6. GotAt(v)'
  BY <1>1, <1>2, <1>3 DEF ViewerKept, GotAt
<1>7. Sending(v)' = Sending(v)
  BY <1>2 DEF Sending
<1>8. SeenAt(v)'
  BY <1>1, <1>2, <1>7 DEF ViewerKept, SeenAt, Owed, Accounted
<1>9. QED BY <1>4, <1>5, <1>6, <1>8 DEF ViewerKept

\* What the channel still held, and the viewer was told to have, has passed it by.
LEMMA LeaveKept ==
  ASSUME IInv, NEW v \in Viewers, Leave(v), UNCHANGED <<stored, bus, told, got, pump>>
  PROVE  ViewerKept(v)'
<1> DEFINE S == {e \in ToSet(channel[v].buf) : e <= told[v]}
<1>1. ViewerKept(v) /\ ViewerFacts(v)
  BY Facts
<1>2. /\ conn'[v] = [at |-> "off", n |-> conn[v].n, cursor |-> 0, batch |-> <<>>]
      /\ channel'[v] = Closed /\ v \notin subs' /\ missed'[v] = missed[v] \union S
  BY DEF Leave, Off, IInv, Types
<1>3. S \subseteq 1..stored
  BY <1>1 DEF ViewerKept, StoredAt
<1>4. StoredAt(v)'
  BY <1>1, <1>2, <1>3, NoElements DEF ViewerKept, ViewerFacts, StoredAt, Closed
<1>5. ChannelAt(v)'
  BY <1>2, NoElements, StreamAssumption DEF ChannelAt, Closed, Connected, Streaming
<1>6. FrameAt(v)'
  BY <1>2, NoElements, StreamAssumption DEF FrameAt, Connected
<1>7. GotAt(v)'
  BY <1>1 DEF ViewerKept, GotAt
<1>8. SeenAt(v)'
  <2>1. SUFFICES ASSUME NEW e \in 1..stored, Wants(v, e), e <= told[v] PROVE Accounted(v, e)'
    BY <1>2 DEF SeenAt, Owed
  <2>2. Accounted(v, e)
    BY <1>1, <2>1 DEF ViewerKept, SeenAt, Owed
  <2>3. Sending(v)' = Sending(v)
    BY DEF Sending
  <2>4. e \notin ToSet(conn[v].batch)
    <3>1. SUFFICES ASSUME e \in ToSet(conn[v].batch) PROVE FALSE
      OBVIOUS
    <3>2. told[v] < e
      BY <1>1, <3>1 DEF ViewerKept, FrameAt
    <3>3. told[v] \in Nat
      BY <1>1 DEF ViewerFacts
    <3>4. QED BY <2>1, <3>2, <3>3
  <2>5. QED BY <1>2, <2>1, <2>2, <2>3, <2>4 DEF Accounted
<1>9. QED BY <1>4, <1>5, <1>6, <1>7, <1>8 DEF ViewerKept

LEMMA ViewerStepKept ==
  ASSUME IInv, NEW v \in Viewers, ReadPage(v) \/ Moves(v)
  PROVE  IInv'
<1>1. Types'
  BY ViewerTypes DEF IInv
<1>2. OthersRest(v)
  BY OneViewer DEF IInv
<1>3. ViewerKept(v)'
  <2>1. CASE EndOfStream(v) \/ Disconnect(v)
    <3>1. Leave(v) /\ UNCHANGED <<stored, bus, told, got, pump>>
      BY <2>1 DEF EndOfStream, Disconnect
    <3>2. QED BY <3>1, LeaveKept
  <2>2. QED
    BY <2>1, PageKept, SubscribeKept, ReceiveKept, WriteFrameKept, ConnectKept, HeartbeatKept DEF Moves
<1>4. \A w \in Viewers : ViewerKept(w)'
  BY <1>2, <1>3, OthersKept
<1>5. UNCHANGED <<stored, bus, pump>>
  BY <1>2 DEF OthersRest
<1>6. StoredInv' /\ PumpInv'
  BY <1>4, <1>5 DEF IInv, StoredInv, PumpInv, PumpAt, ViewerKept
<1>7. ChannelInv' /\ FrameInv' /\ SeenInv'
  BY <1>4 DEF ChannelInv, FrameInv, SeenInv, ViewerKept
<1>8. QED BY <1>1, <1>6, <1>7 DEF IInv

-----------------------------------------------------------------------------
(* A step of a goroutine that publishes *)

\* What holds of a viewer whose connection the step does not touch.
LEMMA ConnectionsRest ==
  ASSUME IInv, UNCHANGED <<conn, told, got>>
  PROVE  FrameInv'
  BY DEF IInv, FrameInv, FrameAt, GotAt, Connected

\* The event goes to the listed viewers, and passes the others by.
LEMMA PublishKept ==
  ASSUME IInv, NEW p \in Pumps, Publish(p)
  PROVE  IInv'
<1>1. PICK e \in bus : \E listed \in {{}, subs} :
        /\ pump[p] = Idle /\ bus' = bus \ {e} /\ Lost(Viewers \ listed, e)
        /\ pump' = [pump EXCEPT ![p] = IF listed = {} THEN Idle ELSE Listing(listed, e)]
        /\ UNCHANGED <<stored, phase, subs, channel, conn, told, got, faults>>
  BY PublishDoes DEF IInv
<1>2. PICK listed \in {{}, subs} :
        /\ pump[p] = Idle /\ bus' = bus \ {e} /\ Lost(Viewers \ listed, e)
        /\ pump' = [pump EXCEPT ![p] = IF listed = {} THEN Idle ELSE Listing(listed, e)]
        /\ UNCHANGED <<stored, phase, subs, channel, conn, told, got, faults>>
  BY <1>1
<1>3. /\ e \in 1..stored /\ e > 0 /\ stored \in Nat /\ listed \subseteq Viewers
      /\ missed' = [v \in Viewers |-> IF v \in Viewers \ listed /\ PassesBy(v, e) THEN missed[v] \union {e} ELSE missed[v]]
      /\ pump'[p] = (IF listed = {} THEN Idle ELSE Listing(listed, e)) /\ \A q \in Pumps : q # p => pump'[q] = pump[q]
  BY <1>2 DEF IInv, Types, StoredInv, Lost
<1>4. Types'
  BY PumpTypes DEF IInv, PumpStep
<1>5. StoredInv'
  <2>1. \A v \in Viewers : StoredAt(v)'
    BY <1>2, <1>3 DEF IInv, StoredInv, StoredAt
  <2>2. \A q \in Pumps : pump'[q].event <= stored
    BY <1>3 DEF IInv, StoredInv, Idle, Listing
  <2>3. QED BY <1>2, <2>1, <2>2 DEF IInv, StoredInv
<1>6. ChannelInv'
  BY <1>2 DEF IInv, ChannelInv, ChannelAt, Connected, Streaming
<1>7. PumpInv'
  <2>1. PumpAt(p)'
    BY <1>3 DEF PumpAt, Idle, Listing
  <2>2. QED BY <1>3, <2>1 DEF IInv, PumpInv, PumpAt
<1>8. SeenInv'
  <2>1. SUFFICES ASSUME NEW v \in Viewers, NEW f \in 1..stored, Wants(v, f), Owed(v, f) PROVE Accounted(v, f)'
    BY <1>2 DEF SeenInv, SeenAt, Owed
  <2>2. Accounted(v, f)
    BY <2>1 DEF IInv, SeenInv, SeenAt
  <2>3. missed[v] \subseteq missed'[v]
    BY <1>3
  <2>4. Sending(v) \subseteq Sending(v)'
    BY <1>2, <1>3 DEF Sending, Idle
  <2>5. ASSUME f = e PROVE f \in missed'[v] \union Sending(v)'
    <3>1. CASE v \in listed
      <4>1. pump'[p] = Listing(listed, e)
        BY <1>3, <3>1
      <4>2. pump'[p].event = e /\ <<v, conn[v].n>> \in pump'[p].todo /\ <<v, conn[v].n>>[1] = v
        BY <3>1, <4>1 DEF Listing
      <4>3. QED BY <2>5, <4>2 DEF Sending
    <3>2. CASE v \notin listed
      BY <1>3, <2>1, <2>5, <3>2 DEF PassesBy, Owed
    <3>3. QED BY <3>1, <3>2
  <2>6. QED BY <1>2, <2>2, <2>3, <2>4, <2>5 DEF Accounted
<1>9. QED BY <1>2, <1>4, <1>5, <1>6, <1>7, <1>8, ConnectionsRest DEF IInv

\* A Publish that panics has its event pass by everyone still on its list.
LEMMA PanicKept ==
  ASSUME IInv, NEW p \in Pumps, Panic(p)
  PROVE  IInv'
<1> DEFINE e   == pump[p].event
           who == {t[1] : t \in pump[p].todo}
<1>1. /\ Lost(who, e) /\ pump' = [pump EXCEPT ![p] = Idle]
      /\ UNCHANGED <<stored, bus, phase, subs, channel, conn, told, got, faults>>
  BY DEF Panic
<1>2. pump[p].todo # {} /\ e \in 0..NumEvents /\ e > 0 /\ e <= stored /\ stored \in Nat
  <2>1. PICK t \in Target(p) : TRUE
    BY DEF Panic
  <2>2. t \in pump[p].todo
    BY <2>1 DEF Panic, Target, IInv, PumpInv, PumpAt
  <2>3. QED BY <2>2 DEF IInv, Types, Publishes, StoredInv, PumpInv, PumpAt
<1>3. /\ e \in 1..stored
      /\ missed' = [v \in Viewers |-> IF v \in who /\ PassesBy(v, e) THEN missed[v] \union {e} ELSE missed[v]]
      /\ pump'[p] = Idle /\ \A q \in Pumps : q # p => pump'[q] = pump[q]
  BY <1>1, <1>2, StreamAssumption DEF IInv, Types, Lost
<1> HIDE DEF e, who
<1>4. Types'
  BY PumpTypes DEF IInv, PumpStep
<1>5. StoredInv'
  <2>1. \A v \in Viewers : StoredAt(v)'
    BY <1>1, <1>3 DEF IInv, StoredInv, StoredAt
  <2>2. \A q \in Pumps : pump'[q].event <= stored
    BY <1>2, <1>3 DEF IInv, StoredInv, Idle
  <2>3. QED BY <1>1, <2>1, <2>2 DEF IInv, StoredInv
<1>6. ChannelInv'
  BY <1>1 DEF IInv, ChannelInv, ChannelAt, Connected, Streaming
<1>7. PumpInv'
  BY <1>3 DEF IInv, PumpInv, PumpAt, Idle
<1>8. SeenInv'
  <2>1. SUFFICES ASSUME NEW v \in Viewers, NEW f \in 1..stored, Wants(v, f), Owed(v, f) PROVE Accounted(v, f)'
    BY <1>1 DEF SeenInv, SeenAt, Owed
  <2>2. Accounted(v, f)
    BY <2>1 DEF IInv, SeenInv, SeenAt
  <2>3. missed[v] \subseteq missed'[v]
    BY <1>3
  <2>4. ASSUME f \in Sending(v) PROVE f \in Sending(v)' \union missed'[v]
    <3>1. PICK q \in Pumps : pump[q].event = f /\ \E t \in pump[q].todo : t[1] = v
      BY <2>4 DEF Sending
    <3>2. CASE q = p
      BY <1>3, <2>1, <3>1, <3>2 DEF e, who, PassesBy, Owed
    <3>3. CASE q # p
      BY <1>3, <3>1, <3>3 DEF Sending
    <3>4. QED BY <3>2, <3>3
  <2>5. QED BY <1>1, <2>2, <2>3, <2>4 DEF Accounted
<1>9. QED BY <1>1, <1>4, <1>5, <1>6, <1>7, <1>8, ConnectionsRest DEF IInv

\* A Publish that is done with the channel of t goes on with the others.
LEMMA AfterKept ==
  ASSUME IInv, NEW p \in Pumps, NEW t \in pump[p].todo, After(p, t)
  PROVE  /\ PumpInv' /\ \A q \in Pumps : pump'[q].event <= stored
         /\ \A v \in Viewers : \A f \in Sending(v) :
              f \in Sending(v)' \/ (v = t[1] /\ f = pump[p].event)
<1>1. /\ pump[p] \in Publishes /\ stored \in Nat /\ pump[p].event > 0 /\ pump[p].event <= stored
      /\ \A q \in Pumps : q # p => pump'[q] = pump[q]
      /\ \/ pump[p].todo = {t} /\ pump'[p] = Idle
         \/ pump'[p] = [event |-> pump[p].event, todo |-> pump[p].todo \ {t}, target |-> Nobody, try |-> 0]
  BY DEF IInv, Types, StoredInv, PumpInv, PumpAt, After
<1>2. PumpInv'
  <2>1. PumpAt(p)'
    BY <1>1 DEF PumpAt, Idle
  <2>2. QED BY <1>1, <2>1 DEF IInv, PumpInv, PumpAt
<1>3. \A q \in Pumps : pump'[q].event <= stored
  BY <1>1 DEF IInv, StoredInv, Idle
<1>4. ASSUME NEW v \in Viewers, NEW f \in Sending(v), ~(v = t[1] /\ f = pump[p].event)
      PROVE  f \in Sending(v)'
  <2>1. PICK q \in Pumps : pump[q].event = f /\ \E s \in pump[q].todo : s[1] = v
    BY DEF Sending
  <2>2. CASE q = p
    <3>1. PICK s \in pump[p].todo : s[1] = v
      BY <2>1, <2>2
    <3>2. s # t
      BY <1>4, <2>1, <2>2, <3>1
    <3>3. pump'[p].event = f /\ s \in pump'[p].todo
      BY <1>1, <2>1, <2>2, <3>1, <3>2
    <3>4. QED BY <3>1, <3>3 DEF Sending
  <2>3. CASE q # p
    BY <1>1, <2>1, <2>3 DEF Sending
  <2>4. QED BY <2>2, <2>3
<1>5. QED BY <1>2, <1>3, <1>4

LEMMA SendKept ==
  ASSUME IInv, NEW p \in Pumps, NEW t \in pump[p].todo, PumpMoves(p, t), Send(p),
         Wants(t[1], pump[p].event), IsOpen(t), ~Full(t[1]), After(p, t),
         channel' = [channel EXCEPT ![t[1]].buf = Append(@, pump[p].event)]
  PROVE  StoredInv' /\ ChannelInv' /\ SeenInv'
<1> DEFINE u == t[1]
           e == pump[p].event
<1>1. /\ u \in Viewers /\ e \in Events /\ e <= stored /\ e \in 1..stored /\ stored \in Nat
      /\ UNCHANGED <<stored, bus, phase, subs, conn, told, got, missed, faults>>
  BY StreamAssumption DEF PumpMoves, Send, IInv, Types, StoredInv, Events
<1>2. ViewerKept(u) /\ ViewerFacts(u)
  BY <1>1, Facts
<1>3. /\ channel'[u].buf = Append(channel[u].buf, e) /\ channel'[u].open = channel[u].open
      /\ \A w \in Viewers : w # u => channel'[w] = channel[w]
  BY <1>1, <1>2 DEF ViewerFacts, Channels, IInv, Types
<1>4. /\ ToSet(channel'[u].buf) = ToSet(channel[u].buf) \union {e}
      /\ Len(channel'[u].buf) = Len(channel[u].buf) + 1 /\ Len(channel[u].buf) \in Nat
  BY <1>1, <1>2, <1>3, Appended, LenProperties DEF ViewerFacts
<1>5. channel[u].open /\ Len(channel[u].buf) # BufferSize /\ Wants(u, e)
  BY DEF IsOpen, Full
<1> HIDE DEF u, e
<1>6. StoredInv'
  <2>1. StoredAt(u)'
    BY <1>1, <1>2, <1>4 DEF ViewerKept, StoredAt
  <2>2. \A w \in Viewers : w # u => StoredAt(w)'
    BY <1>1, <1>3 DEF IInv, StoredInv, StoredAt
  <2>3. QED BY <1>1, <2>1, <2>2, AfterKept DEF IInv, StoredInv
<1>7. ChannelInv'
  <2>1. Streaming(u)
    BY <1>2, <1>5 DEF ViewerKept, ChannelAt, Closed
  <2>2. Len(channel'[u].buf) <= BufferSize
    BY <1>2, <1>4, <1>5, StreamAssumption DEF ViewerKept, ChannelAt
  <2>3. ChannelAt(u)'
    BY <1>1, <1>2, <1>3, <1>4, <1>5, <2>1, <2>2 DEF ViewerKept, ChannelAt, Streaming, Connected
  <2>4. \A w \in Viewers : w # u => ChannelAt(w)'
    BY <1>1, <1>3 DEF IInv, ChannelInv, ChannelAt, Streaming, Connected
  <2>5. QED BY <2>3, <2>4 DEF ChannelInv
<1>8. SeenInv'
  <2>1. SUFFICES ASSUME NEW v \in Viewers, NEW f \in 1..stored, Wants(v, f), Owed(v, f) PROVE Accounted(v, f)'
    BY <1>1 DEF SeenInv, SeenAt, Owed
  <2>2. Accounted(v, f)
    BY <2>1 DEF IInv, SeenInv, SeenAt
  <2>3. ToSet(channel[v].buf) \subseteq ToSet(channel'[v].buf)
    BY <1>3, <1>4
  <2>4. ASSUME f \in Sending(v) PROVE f \in Sending(v)' \union ToSet(channel'[v].buf)
    BY <1>4, <2>4, AfterKept DEF u, e
  <2>5. QED BY <1>1, <2>2, <2>3, <2>4 DEF Accounted
<1>9. QED BY <1>6, <1>7, <1>8

\* Whether an event was wanted or given up on, the Publish goes on without it.
LEMMA PassKept ==
  ASSUME IInv, NEW p \in Pumps, NEW t \in pump[p].todo, PumpMoves(p, t), After(p, t),
         UNCHANGED <<stored, bus, subs, channel, conn, told, got>>,
         \/ ~Wants(t[1], pump[p].event) /\ missed' = missed
         \/ missed' = [missed EXCEPT ![t[1]] = @ \union {pump[p].event}]
  PROVE  StoredInv' /\ ChannelInv' /\ SeenInv'
<1>1. /\ t[1] \in Viewers /\ pump[p].event \in Events /\ pump[p].event <= stored /\ stored \in Nat
      /\ pump[p].event \in 1..stored
  BY StreamAssumption DEF PumpMoves, IInv, Types, StoredInv, Events
<1>2. \A v \in Viewers : missed'[v] = missed[v] \/ (v = t[1] /\ missed'[v] = missed[v] \union {pump[p].event})
  BY DEF IInv, Types
<1>3. StoredInv'
  <2>1. \A v \in Viewers : StoredAt(v)'
    BY <1>1, <1>2 DEF IInv, StoredInv, StoredAt
  <2>2. QED BY <2>1, AfterKept DEF IInv, StoredInv
<1>4. ChannelInv'
  BY DEF IInv, ChannelInv, ChannelAt, Streaming, Connected
<1>5. SeenInv'
  <2>1. SUFFICES ASSUME NEW v \in Viewers, NEW f \in 1..stored, Wants(v, f), Owed(v, f) PROVE Accounted(v, f)'
    BY DEF SeenInv, SeenAt, Owed
  <2>2. Accounted(v, f)
    BY <2>1 DEF IInv, SeenInv, SeenAt
  <2>3. missed[v] \subseteq missed'[v]
    BY <1>2
  <2>4. ASSUME f \in Sending(v) PROVE f \in Sending(v)' \union missed'[v]
    <3>1. CASE f \in Sending(v)'
      BY <3>1
    <3>2. CASE v = t[1] /\ f = pump[p].event
      <4>1. missed' = [missed EXCEPT ![t[1]] = @ \union {pump[p].event}]
        BY <2>1, <3>2
      <4>2. QED BY <1>1, <3>2, <4>1 DEF IInv, Types
    <3>3. QED BY <2>4, <3>1, <3>2, AfterKept
  <2>5. QED BY <2>2, <2>3, <2>4 DEF Accounted
<1>6. QED BY <1>3, <1>4, <1>5

\* Whatever is dropped from a full buffer has passed its viewer by.
LEMMA DropKept ==
  ASSUME IInv, NEW p \in Pumps, NEW t \in pump[p].todo, PumpMoves(p, t), DropOldest(p), pump[p].try # 0
  PROVE  StoredInv' /\ ChannelInv' /\ PumpInv' /\ SeenInv'
<1>1. /\ t[1] \in Viewers /\ t = pump[p].target /\ pump[p] \in Publishes
      /\ pump' = [pump EXCEPT ![p].try = 2]
      /\ UNCHANGED <<stored, bus, phase, subs, conn, told, got, faults>>
  BY DEF PumpMoves, DropOldest, IInv, Types
<1>2. /\ pump'[p].event = pump[p].event /\ pump'[p].todo = pump[p].todo /\ pump'[p].target = pump[p].target
      /\ pump'[p].try = 2 /\ \A q \in Pumps : q # p => pump'[q] = pump[q]
  BY <1>1 DEF Publishes, IInv, Types
<1>3. PumpInv'
  <2>1. PumpAt(p)'
    BY <1>2 DEF IInv, PumpInv, PumpAt
  <2>2. QED BY <1>2, <2>1 DEF IInv, PumpInv, PumpAt
<1>4. \A q \in Pumps : pump'[q].event <= stored
  BY <1>2 DEF IInv, StoredInv
<1>5. \A v \in Viewers : Sending(v)' = Sending(v)
  BY <1>2 DEF Sending
<1>6. CASE UNCHANGED <<missed, channel>>
  <2>1. StoredInv' /\ ChannelInv'
    BY <1>1, <1>4, <1>6 DEF IInv, StoredInv, StoredAt, ChannelInv, ChannelAt, Streaming, Connected
  <2>2. SeenInv'
    BY <1>1, <1>5, <1>6 DEF IInv, SeenInv, SeenAt, Owed, Accounted
  <2>3. QED BY <1>3, <2>1, <2>2
<1>7. ASSUME NEW u \in Viewers, channel[u].buf # <<>>,
             missed' = [missed EXCEPT ![u] = @ \union {Head(channel[u].buf)}],
             channel' = [channel EXCEPT ![u].buf = Tail(@)]
      PROVE  StoredInv' /\ ChannelInv' /\ SeenInv'
  <2>1. ViewerKept(u) /\ ViewerFacts(u)
    BY Facts
  <2>2. /\ channel'[u].buf = Tail(channel[u].buf) /\ channel'[u].open = channel[u].open
        /\ missed'[u] = missed[u] \union {Head(channel[u].buf)}
        /\ \A w \in Viewers : w # u => channel'[w] = channel[w] /\ missed'[w] = missed[w]
    BY <1>7, <2>1 DEF ViewerFacts, Channels, IInv, Types
  <2>3. /\ ToSet(channel[u].buf) = {Head(channel[u].buf)} \union ToSet(channel'[u].buf)
        /\ Len(channel'[u].buf) <= Len(channel[u].buf)
        /\ Len(channel'[u].buf) \in Nat /\ Len(channel[u].buf) \in Nat
    BY <1>7, <2>1, <2>2, Received, LenProperties DEF ViewerFacts
  <2>4. StoredInv'
    <3>1. StoredAt(u)'
      BY <1>1, <2>1, <2>2, <2>3 DEF ViewerKept, StoredAt
    <3>2. \A w \in Viewers : w # u => StoredAt(w)'
      BY <1>1, <2>2 DEF IInv, StoredInv, StoredAt
    <3>3. QED BY <1>1, <1>4, <3>1, <3>2 DEF IInv, StoredInv
  <2>5. ChannelInv'
    <3>1. Streaming(u)
      BY <1>7, <2>1 DEF ViewerKept, ChannelAt, Closed
    <3>2. Len(channel'[u].buf) <= BufferSize
      BY <2>1, <2>3, StreamAssumption DEF ViewerKept, ChannelAt
    <3>3. ChannelAt(u)'
      BY <1>1, <2>1, <2>2, <2>3, <3>1, <3>2 DEF ViewerKept, ChannelAt, Streaming, Connected
    <3>4. \A w \in Viewers : w # u => ChannelAt(w)'
      BY <1>1, <2>2 DEF IInv, ChannelInv, ChannelAt, Streaming, Connected
    <3>5. QED BY <3>3, <3>4 DEF ChannelInv
  <2>6. SeenInv'
    <3>1. SUFFICES ASSUME NEW v \in Viewers, NEW f \in 1..stored, Wants(v, f), Owed(v, f) PROVE Accounted(v, f)'
      BY <1>1 DEF SeenInv, SeenAt, Owed
    <3>2. Accounted(v, f)
      BY <3>1 DEF IInv, SeenInv, SeenAt
    <3>3. missed[v] \subseteq missed'[v] /\ ToSet(channel[v].buf) \subseteq ToSet(channel'[v].buf) \union missed'[v]
      BY <2>2, <2>3
    <3>4. QED BY <1>1, <1>5, <3>2, <3>3 DEF Accounted
  <2>7. QED BY <2>4, <2>5, <2>6
<1>8. \/ UNCHANGED <<missed, channel>>
      \/ /\ channel[t[1]].buf # <<>>
         /\ missed' = [missed EXCEPT ![t[1]] = @ \union {Head(channel[t[1]].buf)}]
         /\ channel' = [channel EXCEPT ![t[1]].buf = Tail(@)]
  BY <1>1 DEF DropOldest
<1>9. QED BY <1>1, <1>3, <1>6, <1>7, <1>8

LEMMA PumpStepKept ==
  ASSUME IInv, NEW p \in Pumps, PumpStep(p)
  PROVE  IInv'
<1>1. Types'
  BY PumpTypes DEF IInv
<1>2. ASSUME NEW t \in pump[p].todo, PumpMoves(p, t) PROVE IInv'
  <2>1. UNCHANGED <<stored, bus, phase, subs, conn, told, got, faults>>
    BY <1>2 DEF PumpMoves, Filter, Send, SendFull, DropOldest, GiveUp
  <2>2. FrameInv'
    BY <2>1, ConnectionsRest
  <2>3. CASE Filter(p) /\ ~Wants(t[1], pump[p].event) /\ After(p, t)
    <3>1. UNCHANGED <<channel, missed>>
      BY <2>3 DEF Filter
    <3>2. StoredInv' /\ ChannelInv' /\ SeenInv'
      BY <1>2, <2>1, <2>3, <3>1, PassKept
    <3>3. QED BY <1>1, <2>2, <2>3, <3>2, AfterKept DEF IInv
  <2>4. CASE /\ Send(p) /\ Wants(t[1], pump[p].event) /\ IsOpen(t) /\ ~Full(t[1])
             /\ channel' = [channel EXCEPT ![t[1]].buf = Append(@, pump[p].event)]
             /\ After(p, t)
    BY <1>1, <1>2, <2>2, <2>4, SendKept, AfterKept DEF IInv
  <2>5. CASE /\ SendFull(p) /\ Wants(t[1], pump[p].event)
             /\ pump' = [pump EXCEPT ![p] = [event |-> @.event, todo |-> @.todo, target |-> t, try |-> 1]]
    <3>1. UNCHANGED <<channel, missed>>
      BY <2>5 DEF SendFull
    <3>2. /\ pump'[p] = [event |-> pump[p].event, todo |-> pump[p].todo, target |-> t, try |-> 1]
          /\ \A q \in Pumps : q # p => pump'[q] = pump[q]
      BY <2>5 DEF IInv, Types
    <3>3. PumpInv'
      <4>1. PumpAt(p)'
        BY <2>5, <3>2 DEF IInv, PumpInv, PumpAt
      <4>2. QED BY <3>2, <4>1 DEF IInv, PumpInv, PumpAt
    <3>4. StoredInv' /\ ChannelInv'
      BY <2>1, <3>1, <3>2 DEF IInv, StoredInv, StoredAt, ChannelInv, ChannelAt, Streaming, Connected
    <3>5. \A v \in Viewers : Sending(v)' = Sending(v)
      BY <3>2 DEF Sending
    <3>6. SeenInv'
      BY <2>1, <3>1, <3>5 DEF IInv, SeenInv, SeenAt, Owed, Accounted
    <3>7. QED BY <1>1, <2>2, <3>3, <3>4, <3>6 DEF IInv
  <2>6. CASE DropOldest(p) /\ pump[p].try # 0
    BY <1>1, <1>2, <2>2, <2>6, DropKept DEF IInv
  <2>7. CASE GiveUp(p) /\ pump[p].try # 0
    <3>1. t = pump[p].target
      BY <1>2, <2>7 DEF PumpMoves
    <3>2. /\ missed' = [missed EXCEPT ![t[1]] = @ \union {pump[p].event}] /\ After(p, t)
          /\ UNCHANGED channel
      BY <2>7, <3>1 DEF GiveUp
    <3>3. StoredInv' /\ ChannelInv' /\ SeenInv'
      BY <1>2, <2>1, <3>2, PassKept
    <3>4. QED BY <1>1, <2>2, <3>2, <3>3, AfterKept DEF IInv
  <2>8. QED BY <1>2, <2>3, <2>4, <2>5, <2>6, <2>7 DEF PumpMoves
<1>3. QED BY <1>2, PumpDoes, PublishKept, PanicKept DEF IInv

-----------------------------------------------------------------------------
(* The bus and the shutdown *)

\* An event that is new on the bus is accounted for; one that left it for another
\* process has passed everybody by.
LEMMA BusKept ==
  ASSUME IInv, AppendEvent \/ Redeliver \/ HandledElsewhere
  PROVE  IInv'
<1>1. Types'
  BY NextTypes DEF IInv, Next
<1>2. UNCHANGED <<phase, subs, channel, conn, told, got, pump>>
  BY DEF AppendEvent, Redeliver, HandledElsewhere
<1>3. ChannelInv' /\ PumpInv' /\ FrameInv'
  BY <1>2, ConnectionsRest DEF IInv, ChannelInv, ChannelAt, PumpInv, PumpAt, Streaming, Connected
<1>4. \A v \in Viewers : Sending(v)' = Sending(v)
  BY <1>2 DEF Sending
<1>5. CASE AppendEvent \/ Redeliver
  <2>1. /\ stored \in Nat /\ stored' \in {stored, stored + 1} /\ bus \subseteq bus' /\ bus' \subseteq 1..stored'
        /\ \A e \in 1..stored' : e \in 1..stored \/ e \in bus'
        /\ 1..stored \subseteq 1..stored' /\ missed' = missed
    <3>1. stored \in Nat /\ bus \subseteq 1..stored
      BY DEF IInv, Types, StoredInv
    <3>2. 1..(stored + 1) = 1..stored \union {stored + 1}
      BY <3>1
    <3>3. QED BY <1>5, <3>1, <3>2 DEF AppendEvent, Redeliver
  <2>2. StoredInv'
    <3>1. \A v \in Viewers : told[v] \in Nat /\ conn[v].cursor \in Nat
      BY DEF IInv, Types, Connections
    <3>2. \A v \in Viewers : StoredAt(v)'
      BY <1>2, <2>1, <3>1 DEF IInv, StoredInv, StoredAt
    <3>3. \A p \in Pumps : pump[p].event \in Nat
      BY DEF IInv, Types, Publishes
    <3>4. QED BY <1>2, <2>1, <3>2, <3>3 DEF IInv, StoredInv
  <2>3. SeenInv'
    <3>1. SUFFICES ASSUME NEW v \in Viewers, NEW f \in 1..stored', Wants(v, f), Owed(v, f) PROVE Accounted(v, f)'
      BY <1>2 DEF SeenInv, SeenAt, Owed
    <3>2. CASE f \in 1..stored
      <4>1. Accounted(v, f)
        BY <3>1, <3>2 DEF IInv, SeenInv, SeenAt
      <4>2. QED BY <1>2, <1>4, <2>1, <4>1 DEF Accounted
    <3>3. CASE f \in bus'
      BY <3>3 DEF Accounted
    <3>4. QED BY <2>1, <3>2, <3>3
  <2>4. QED BY <1>1, <1>3, <2>2, <2>3 DEF IInv
<1>6. CASE HandledElsewhere
  <2>1. PICK e \in bus : bus' = bus \ {e} /\ Lost(Viewers, e)
    BY <1>6 DEF HandledElsewhere
  <2>2. /\ stored' = stored /\ e \in 1..stored
        /\ missed' = [v \in Viewers |-> IF PassesBy(v, e) THEN missed[v] \union {e} ELSE missed[v]]
    BY <1>6, <2>1 DEF HandledElsewhere, IInv, StoredInv, Lost
  <2>3. StoredInv'
    <3>1. \A v \in Viewers : StoredAt(v)'
      BY <1>2, <2>2 DEF IInv, StoredInv, StoredAt
    <3>2. QED BY <1>2, <2>1, <2>2, <3>1 DEF IInv, StoredInv
  <2>4. SeenInv'
    <3>1. SUFFICES ASSUME NEW v \in Viewers, NEW f \in 1..stored, Wants(v, f), Owed(v, f) PROVE Accounted(v, f)'
      BY <1>2, <2>2 DEF SeenInv, SeenAt, Owed
    <3>2. Accounted(v, f)
      BY <3>1 DEF IInv, SeenInv, SeenAt
    <3>3. missed[v] \subseteq missed'[v] /\ (f = e => f \in missed'[v])
      BY <2>2, <3>1 DEF PassesBy, Owed
    <3>4. QED BY <1>2, <1>4, <2>1, <3>2, <3>3 DEF Accounted
  <2>5. QED BY <1>1, <1>3, <2>3, <2>4 DEF IInv
<1>7. QED BY <1>5, <1>6

\* A closed channel keeps what it holds.
LEMMA AdvanceKept ==
  ASSUME IInv, Advance
  PROVE  IInv'
<1>1. Types'
  BY NextTypes DEF IInv, Next
<1>2. UNCHANGED <<stored, bus, conn, told, got, pump, missed>>
  BY DEF Advance
<1>3. PumpInv' /\ FrameInv'
  BY <1>2, ConnectionsRest DEF IInv, PumpInv, PumpAt
<1>4. \A v \in Viewers : Sending(v)' = Sending(v)
  BY <1>2 DEF Sending
<1>5. \A v \in Viewers : /\ channel'[v].buf = channel[v].buf
                         /\ v \in subs' <=> channel'[v].open
                         /\ channel[v] = Closed => channel'[v] = Closed
  <2>1. CASE UNCHANGED <<channel, subs>>
    BY <2>1 DEF IInv, ChannelInv, ChannelAt
  <2>2. CASE subs' = {} /\ channel' = [v \in Viewers |-> [buf |-> channel[v].buf, open |-> FALSE]]
    <3>1. \A v \in Viewers : channel[v] \in Channels
      BY DEF IInv, Types
    <3>2. SUFFICES ASSUME NEW v \in Viewers
                   PROVE  /\ channel'[v].buf = channel[v].buf /\ ~channel'[v].open
                          /\ channel[v] = Closed => channel'[v] = Closed
      BY <2>2
    <3>3. channel'[v] = [buf |-> channel[v].buf, open |-> FALSE] /\ channel[v] \in Channels
      BY <2>2, <3>1
    <3>4. channel'[v].buf = channel[v].buf /\ ~channel'[v].open
      BY <3>3 DEF Channels
    <3>5. ASSUME channel[v] = Closed PROVE channel'[v] = Closed
      BY <3>3, <3>5 DEF Closed
    <3>6. QED BY <3>4, <3>5
  <2>3. QED BY <2>1, <2>2 DEF Advance
<1>6. StoredInv'
  BY <1>2, <1>5 DEF IInv, StoredInv, StoredAt
<1>7. ChannelInv'
  BY <1>2, <1>5 DEF IInv, ChannelInv, ChannelAt, Streaming, Connected
<1>8. SeenInv'
  BY <1>2, <1>4, <1>5 DEF IInv, SeenInv, SeenAt, Owed, Accounted
<1>9. QED BY <1>1, <1>3, <1>6, <1>7, <1>8 DEF IInv

-----------------------------------------------------------------------------
(* The theorems *)

LEMMA InitIInv == Init => IInv
<1> SUFFICES ASSUME Init PROVE IInv
  OBVIOUS
<1>1. Types
  BY InitTypes
<1>2. ASSUME NEW v \in Viewers PROVE StoredAt(v) /\ ChannelAt(v) /\ FrameAt(v) /\ GotAt(v) /\ SeenAt(v)
  <2>1. StoredAt(v)
    BY NoElements DEF Init, StoredAt, Off, Closed
  <2>2. ChannelAt(v)
    BY NoElements, StreamAssumption DEF Init, ChannelAt, Off, Closed, Streaming, Connected
  <2>3. FrameAt(v) /\ GotAt(v)
    BY NoElements, StreamAssumption DEF Init, FrameAt, GotAt, Off, Connected
  <2>4. SeenAt(v)
    BY DEF Init, SeenAt
  <2>5. QED BY <2>1, <2>2, <2>3, <2>4
<1>3. StoredInv /\ PumpInv
  BY <1>2 DEF Init, StoredInv, PumpInv, PumpAt, Idle
<1>4. QED BY <1>1, <1>2, <1>3 DEF IInv, ChannelInv, FrameInv, SeenInv

LEMMA NextIInv == IInv /\ [Next]_vars => IInv'
<1>1. ASSUME IInv, Next PROVE IInv'
  BY <1>1, NextSteps, BusKept, AdvanceKept, PumpStepKept, ViewerStepKept
<1>2. ASSUME IInv, UNCHANGED vars PROVE IInv'
  <2>1. Types'
    BY <1>2 DEF vars, IInv, Types
  <2>2. StoredInv' /\ ChannelInv' /\ PumpInv' /\ FrameInv'
    BY <1>2 DEF vars, IInv, StoredInv, StoredAt, ChannelInv, ChannelAt, PumpInv, PumpAt, FrameInv, FrameAt, GotAt,
       Streaming, Connected
  <2>3. \A v \in Viewers : Sending(v)' = Sending(v)
    BY <1>2 DEF vars, Sending
  <2>4. SeenInv'
    BY <1>2, <2>3 DEF vars, IInv, SeenInv, SeenAt, Owed, Accounted
  <2>5. QED BY <2>1, <2>2, <2>4 DEF IInv
<1>3. QED BY <1>1, <1>2

LEMMA SequenceOf == ASSUME NEW S, NEW n \in Nat, NEW f \in [1..n -> S] PROVE f \in Seq(S)
  BY SeqDef

\* The invariant the properties follow from.
THEOREM Invariance == Spec => []IInv
  BY InitIInv, NextIInv, PTL DEF Spec

\* TypeOK: a viewer is subscribed exactly while it reads an open channel, so no
\* subscription outlives its connection.
THEOREM TypeCorrect == Spec => []TypeOK
<1>1. ASSUME IInv PROVE TypeOK
  <2>1. /\ stored \in 0..NumEvents /\ bus \subseteq 1..stored /\ faults \in 0..MaxFaults
        /\ stored \in Nat
    BY <1>1 DEF IInv, Types, StoredInv
  <2>2. phase \in {Phases[i] : i \in 1..Len(Phases)}
    BY <1>1 DEF IInv, Types, Phases
  <2>3. subs = {v \in Viewers : channel[v].open}
    BY <1>1 DEF IInv, Types, ChannelInv, ChannelAt
  <2>4. ASSUME NEW v \in Viewers
        PROVE  /\ channel[v].buf \in Seq(Events) /\ Len(channel[v].buf) <= BufferSize
               /\ channel[v].open => Streaming(v)
               /\ conn[v].at \in {"off", "reading", "paged", "live", "drain"}
               /\ conn[v].n \in 0..MaxConns /\ conn[v].cursor \in 0..stored
               /\ conn[v].batch \in Seq(Events) /\ Len(conn[v].batch) <= Limit
               /\ told[v] \in 0..stored /\ got[v] \in Seq(1..stored) /\ missed[v] \subseteq 1..stored
    <3>1. ViewerKept(v) /\ ViewerFacts(v)
      BY <1>1, Facts
    <3>2. got[v] \in Seq(1..stored)
      <4>1. /\ Len(got[v]) \in Nat /\ got[v] \in [1..Len(got[v]) -> Events]
            /\ \A i \in 1..Len(got[v]) : got[v][i] \in 1..stored
        BY <3>1, Elements, LenProperties DEF ViewerKept, ViewerFacts, StoredAt
      <4>2. got[v] \in [1..Len(got[v]) -> 1..stored]
        BY <4>1
      <4>3. QED BY <4>1, <4>2, SequenceOf
    <3>3. QED BY <2>1, <3>1, <3>2 DEF ViewerKept, ViewerFacts, StoredAt, ChannelAt, FrameAt, Closed, Connections
  <2>5. ASSUME NEW p \in Pumps
        PROVE  /\ pump[p].event \in 0..stored /\ pump[p].try \in 0..2
               /\ pump[p].todo \subseteq Viewers \X (1..MaxConns) /\ pump[p].target \in pump[p].todo \union {Nobody}
    <3>1. pump[p] \in Publishes /\ PumpAt(p) /\ pump[p].event <= stored
      BY <1>1 DEF IInv, Types, StoredInv, PumpInv
    <3>2. QED BY <2>1, <3>1 DEF Publishes, PumpAt, Sends
  <2>6. QED BY <2>1, <2>2, <2>3, <2>4, <2>5 DEF TypeOK
<1>2. QED BY <1>1, Invariance, PTL

\* InOrder: over all its connections a viewer is sent each event of its own at most
\* once, in the order of the log.
THEOREM OrderCorrect == Spec => []InOrder
<1>1. ASSUME IInv PROVE InOrder
  <2>1. SUFFICES ASSUME NEW v \in Viewers
                 PROVE  /\ \A i \in 2..Len(got[v]) : got[v][i - 1] < got[v][i]
                        /\ \A i \in 1..Len(got[v]) : Wants(v, got[v][i])
    BY DEF InOrder
  <2>2. ViewerKept(v) /\ got[v] \in Seq(Events) /\ Len(got[v]) \in Nat
    BY <1>1, Facts, LenProperties DEF ViewerFacts
  <2>3. ASSUME NEW i \in 2..Len(got[v]) PROVE got[v][i - 1] < got[v][i]
    <3>1. i - 1 \in 1..Len(got[v]) /\ i \in 1..Len(got[v]) /\ i - 1 < i
      BY <2>2
    <3>2. QED BY <2>2, <3>1 DEF ViewerKept, GotAt, Increasing
  <2>4. ASSUME NEW i \in 1..Len(got[v]) PROVE Wants(v, got[v][i])
    BY <2>2, Elements DEF ViewerKept, GotAt
  <2>5. QED BY <2>3, <2>4
<1>2. QED BY <1>1, Invariance, PTL

\* CursorAccountsFor: no event up to the cursor a viewer was told is left behind,
\* unless it passed the viewer by or is still on its way.
THEOREM CursorCorrect == Spec => []CursorAccountsFor
<1>1. ASSUME IInv PROVE CursorAccountsFor
  <2>1. SUFFICES ASSUME NEW v \in Viewers, NEW e \in 1..told[v], Wants(v, e)
                 PROVE  \/ e \in ToSet(got[v]) \union missed[v] \union bus \union Sending(v)
                        \/ e \in ToSet(channel[v].buf)
    BY DEF CursorAccountsFor
  <2>2. ViewerKept(v) /\ ViewerFacts(v)
    BY <1>1, Facts
  <2>3. e \in 1..stored /\ e <= told[v] /\ told[v] \in Nat
    BY <2>2 DEF ViewerKept, ViewerFacts, StoredAt
  <2>4. Accounted(v, e)
    BY <2>1, <2>2, <2>3 DEF ViewerKept, SeenAt, Owed
  <2>5. e \notin ToSet(conn[v].batch)
    <3>1. \A f \in ToSet(conn[v].batch) : told[v] < f
      BY <2>2 DEF ViewerKept, FrameAt
    <3>2. QED BY <2>3, <3>1
  <2>6. QED BY <2>4, <2>5 DEF Accounted
<1>2. QED BY <1>1, Invariance, PTL

=============================================================================
