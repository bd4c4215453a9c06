---------------------------- MODULE EventStream ----------------------------
(***************************************************************************)
(* Forum events on their way from the store to the browsers that watch     *)
(* them: the broker of internal/server/forum_event_broker.go, the          *)
(* websocket loop of websocket.go, the event pump and the shutdown of      *)
(* runtime.go and worker.go.                                               *)
(*                                                                         *)
(* Several goroutines of the daemon take events off the bus: its worker,   *)
(* and every request that dispatches a command.  Each calls Publish, which *)
(* lists the subscribers under the broker's lock and sends to their        *)
(* channels without it, while viewers come and go.                         *)
(*                                                                         *)
(* An event is its sequence number.  A viewer is a client that reconnects  *)
(* with the last next_cursor it was told.                                  *)
(***************************************************************************)
EXTENDS Integers, Sequences, FiniteSets, SequencesExt, FiniteSetsExt

CONSTANTS
  Viewers, Pumps,    \* clients; goroutines that process the bus
  NumEvents,         \* bound: events
  OfTicket, OfRun,   \* viewer -> the events its ticket, and its run, has
  BufferSize,        \* the broker's buffer for each subscriber
  Limit,             \* the events of a page or a frame
  MaxConns,          \* bound: connections of a viewer
  MaxFaults          \* bound: lost connections, redeliveries, other consumers

Events == 1..NumEvents
Nobody == <<>>

ASSUME StreamAssumption ==
  /\ NumEvents \in Nat /\ BufferSize \in Nat \ {0} /\ Limit \in Nat \ {0}
  /\ OfTicket \in [Viewers -> SUBSET Events] /\ OfRun \in [Viewers -> SUBSET Events]
  /\ MaxConns \in Nat /\ MaxFaults \in Nat

VARIABLES
  stored,    \* events in forum_events
  bus,       \* events of the store that are on the bus
  phase,     \* how far Runtime.Run has come
  subs,      \* broker.subscribers
  channel,   \* viewer -> the channel of its connection
  conn,      \* viewer -> its connection
  told,      \* viewer -> the last next_cursor it was told
  got,       \* viewer -> events it was sent
  pump,      \* goroutine -> the Publish it executes
  missed,    \* viewer -> events it can no longer get on its connection
  faults

vars == <<stored, bus, phase, subs, channel, conn, told, got, pump, missed, faults>>

\* Requests are no longer accepted and the worker is told to end; the observer
\* is removed from the bus; the broker is closed.
Phases == <<"serving", "draining", "detached", "closed">>

Rank(p)    == CHOOSE i \in DOMAIN Phases : Phases[i] = p
Reaches(p) == Rank(phase) >= Rank(p)

Closed == [buf |-> <<>>, open |-> FALSE]
Off(n) == [at |-> "off", n |-> n, cursor |-> 0, batch |-> <<>>]
Idle   == [event |-> 0, todo |-> {}, target |-> Nobody, try |-> 0]

\* The event passes the viewers by, but for those that have yet to read the
\* page it is on.
PassesBy(v, e) == conn[v].at \notin {"off", "reading"} \/ e <= told[v]

Lost(who, e) == missed' = [v \in Viewers |-> IF v \in who /\ PassesBy(v, e) THEN missed[v] \union {e} ELSE missed[v]]

Connected(v) == conn[v].at # "off"
Streaming(v) == conn[v].at \in {"live", "drain"}

-----------------------------------------------------------------------------
(* The bus, as far as the stream sees it.                                  *)

AppendEvent ==
  /\ stored < NumEvents
  /\ stored' = stored + 1
  /\ bus' = bus \union {stored + 1}
  /\ UNCHANGED <<phase, subs, channel, conn, told, got, pump, missed, faults>>

\* A message whose acknowledgement was lost comes again.
Redeliver ==
  /\ faults < MaxFaults /\ faults' = faults + 1
  /\ \E e \in (1..stored) \ bus : bus' = bus \union {e}
  /\ UNCHANGED <<stored, phase, subs, channel, conn, told, got, pump, missed>>

\* Another process of the consumer group, a command line for one, gets the message.
HandledElsewhere ==
  /\ faults < MaxFaults /\ faults' = faults + 1
  /\ \E e \in bus :
       /\ bus' = bus \ {e}
       /\ Lost(Viewers, e)
  /\ UNCHANGED <<stored, phase, subs, channel, conn, told, got, pump>>

-----------------------------------------------------------------------------
(* Publish.                                                                *)

\* Events have a topic for each type: they leave the bus in any order.  The
\* list of subscribers is taken at once; each is a channel, and stays that
\* channel when its viewer connects again.
Publish(p) ==
  /\ pump[p] = Idle
  /\ \E e \in bus :
       LET listed == IF Reaches("detached") THEN {} ELSE subs
       IN  /\ bus' = bus \ {e}
           /\ pump' = [pump EXCEPT ![p] =
                IF listed = {} THEN Idle
                ELSE [event |-> e, todo |-> {<<v, conn[v].n>> : v \in listed}, target |-> Nobody, try |-> 0]]
           /\ Lost(Viewers \ listed, e)
  /\ UNCHANGED <<stored, phase, subs, channel, conn, told, got, faults>>

\* matchesEventFilter
Wants(v, e) == e \in OfTicket[v] \cap OfRun[v]

\* The channel Publish is about to send to: that of the subscriber it has
\* begun with, or of the next one in the order of a map.
Target(p) == IF pump[p].try > 0 THEN {pump[p].target} ELSE pump[p].todo

After(p, t) ==
  pump' = [pump EXCEPT ![p] =
    IF @.todo = {t} THEN Idle ELSE [event |-> @.event, todo |-> @.todo \ {t}, target |-> Nobody, try |-> 0]]

IsOpen(t) == conn[t[1]].n = t[2] /\ channel[t[1]].open
Full(v)   == Len(channel[v].buf) = BufferSize

Filter(p) ==
  /\ \E t \in Target(p) : ~Wants(t[1], pump[p].event) /\ After(p, t)
  /\ UNCHANGED <<stored, bus, phase, subs, channel, conn, told, got, missed, faults>>

\* tryPublishEvent: an attempt ...
Send(p) ==
  /\ pump[p].try # 1
  /\ \E t \in Target(p) :
       /\ Wants(t[1], pump[p].event) /\ IsOpen(t) /\ ~Full(t[1])
       /\ channel' = [channel EXCEPT ![t[1]].buf = Append(@, pump[p].event)]
       /\ After(p, t)
  /\ UNCHANGED <<stored, bus, phase, subs, conn, told, got, missed, faults>>

\* ... that finds the buffer full; then the oldest event is dropped ...
SendFull(p) ==
  /\ pump[p].try = 0
  /\ \E t \in Target(p) :
       /\ Wants(t[1], pump[p].event) /\ IsOpen(t) /\ Full(t[1])
       /\ pump' = [pump EXCEPT ![p] = [event |-> @.event, todo |-> @.todo, target |-> t, try |-> 1]]
  /\ UNCHANGED <<stored, bus, phase, subs, channel, conn, told, got, missed, faults>>

\* (a closed channel too can be received from)
DropOldest(p) ==
  LET v == pump[p].target[1]
  IN  /\ pump[p].try = 1
      /\ pump' = [pump EXCEPT ![p].try = 2]
      /\ IF conn[v].n = pump[p].target[2] /\ channel[v].buf # <<>>
         THEN /\ missed' = [missed EXCEPT ![v] = @ \union {Head(channel[v].buf)}]
              /\ channel' = [channel EXCEPT ![v].buf = Tail(@)]
         ELSE UNCHANGED <<missed, channel>>
      /\ UNCHANGED <<stored, bus, phase, subs, conn, told, got, faults>>

\* ... and a second attempt gives up when another goroutine was faster.
GiveUp(p) ==
  LET t == pump[p].target
  IN  /\ pump[p].try = 2 /\ IsOpen(t) /\ Full(t[1])
      /\ missed' = [missed EXCEPT ![t[1]] = @ \union {pump[p].event}]
      /\ After(p, t)
      /\ UNCHANGED <<stored, bus, phase, subs, channel, conn, told, got, faults>>

\* A send on a closed channel panics.  notifyObservers recovers: nothing goes
\* to the subscribers that were still to come, and the message is acknowledged.
Panic(p) ==
  /\ pump[p].try # 1
  /\ \E t \in Target(p) : Wants(t[1], pump[p].event) /\ ~IsOpen(t)
  /\ Lost({t[1] : t \in pump[p].todo}, pump[p].event)
  /\ pump' = [pump EXCEPT ![p] = Idle]
  /\ UNCHANGED <<stored, bus, phase, subs, channel, conn, told, got, faults>>

-----------------------------------------------------------------------------
(* A connection: handleForumStream, streamForumEvents.                     *)

Connect(v) ==
  /\ conn[v].at = "off" /\ conn[v].n < MaxConns /\ phase = "serving"
  /\ conn' = [conn EXCEPT ![v] = [at |-> "reading", n |-> @.n + 1, cursor |-> told[v], batch |-> <<>>]]
  /\ channel' = [channel EXCEPT ![v] = Closed]
  /\ UNCHANGED <<stored, bus, phase, subs, told, got, pump, missed, faults>>

\* Where streamForumEvents is, its nextCursor, and the frame it collects.
Streams(v, at, cursor, batch) ==
  conn' = [conn EXCEPT ![v] = [at |-> at, n |-> @.n, cursor |-> cursor, batch |-> batch]]

\* The events of the viewer's ticket that are beyond a cursor.
Beyond(v, cursor) == {e \in 1..stored : e > cursor /\ e \in OfTicket[v]}

\* Mutant: the newest events after the cursor instead of the oldest.
WatchForumEvents_Newest(v, cursor) ==
  {e \in Beyond(v, cursor) : Cardinality({f \in Beyond(v, cursor) : f > e}) < Limit}

\* The page is the Limit oldest of them.
WatchForumEvents(v, cursor) ==
  {e \in Beyond(v, cursor) : Cardinality({f \in Beyond(v, cursor) : f < e}) < Limit}

\* ORDER BY sequence
Ordered(S) ==
  {s \in [1..Cardinality(S) -> S] : ToSet(s) = S /\ \A i, j \in DOMAIN s : i < j => s[i] < s[j]}

\* filterForumEventsByRunID; a page that it leaves empty is not sent, and its
\* end not told before the next heartbeat.
ReadPage(v) ==
  LET page == WatchForumEvents(v, conn[v].cursor)
      mine == page \cap OfRun[v]
      end  == IF page = {} THEN conn[v].cursor ELSE Max(page)
  IN  /\ conn[v].at = "reading"
      /\ Streams(v, "paged", end, <<>>)
      /\ \E frame \in Ordered(mine) : got' = [got EXCEPT ![v] = @ \o frame]
      /\ told' = IF mine = {} THEN told ELSE [told EXCEPT ![v] = end]
      \* what is beyond the page, and on the bus no more
      /\ missed' = [missed EXCEPT ![v] = @ \union {e \in (1..stored) \ bus : page # {} /\ e > end}]
      /\ UNCHANGED <<stored, bus, phase, subs, channel, pump, faults>>

Subscribe(v) ==
  /\ conn[v].at = "paged"
  /\ Streams(v, "live", conn[v].cursor, <<>>)
  /\ IF Reaches("closed")
     THEN UNCHANGED <<subs, channel>>
     ELSE /\ subs' = subs \union {v}
          /\ channel' = [channel EXCEPT ![v] = [buf |-> <<>>, open |-> TRUE]]
  /\ UNCHANGED <<stored, bus, phase, told, got, pump, missed, faults>>

\* Mutant: what the page already had is not skipped.
Receive_NoCursor(v) ==
  LET e == Head(channel[v].buf)
  IN  /\ Streaming(v) /\ Len(conn[v].batch) < Limit /\ channel[v].buf # <<>>
      /\ channel' = [channel EXCEPT ![v].buf = Tail(@)]
      /\ Streams(v, "drain", e, Append(conn[v].batch, e))
      /\ UNCHANGED <<stored, bus, phase, subs, told, got, pump, missed, faults>>

\* One event, or one more for the frame.  An event that is not beyond the
\* cursor is skipped.
Receive(v) ==
  LET e == Head(channel[v].buf)
  IN  /\ Streaming(v) /\ Len(conn[v].batch) < Limit /\ channel[v].buf # <<>>
      /\ channel' = [channel EXCEPT ![v].buf = Tail(@)]
      /\ IF e > conn[v].cursor
         THEN /\ Streams(v, "drain", e, Append(conn[v].batch, e))
              /\ UNCHANGED missed
         ELSE /\ Streams(v, "drain", conn[v].cursor, conn[v].batch)
              /\ missed' = [missed EXCEPT ![v] = @ \union {e}]
      /\ UNCHANGED <<stored, bus, phase, subs, told, got, pump, faults>>

WriteFrame(v) ==
  /\ conn[v].at = "drain"
  /\ Len(conn[v].batch) = Limit \/ (channel[v].buf = <<>> /\ channel[v].open)
  /\ got' = [got EXCEPT ![v] = @ \o conn[v].batch]
  /\ told' = IF conn[v].batch = <<>> THEN told ELSE [told EXCEPT ![v] = conn[v].cursor]
  /\ Streams(v, "live", conn[v].cursor, <<>>)
  /\ UNCHANGED <<stored, bus, phase, subs, channel, pump, missed, faults>>

Heartbeat(v) ==
  /\ conn[v].at = "live" /\ told[v] # conn[v].cursor
  /\ told' = [told EXCEPT ![v] = conn[v].cursor]
  /\ UNCHANGED <<stored, bus, phase, subs, channel, conn, got, pump, missed, faults>>

\* Mutant: a write error returns without unsubscribing.
Leave_Subscribed(v) ==
  /\ missed' = missed
  /\ conn' = [conn EXCEPT ![v] = Off(@.n)]
  /\ UNCHANGED <<channel, subs>>

\* The connection is over, with what its channel still held.
Leave(v) ==
  /\ missed' = [missed EXCEPT ![v] = @ \union {e \in ToSet(channel[v].buf) : e <= told[v]}]
  /\ conn' = [conn EXCEPT ![v] = Off(@.n)]
  /\ channel' = [channel EXCEPT ![v] = Closed]
  /\ subs' = subs \ {v}

\* The channel is closed and empty: the loop returns, and a frame it was
\* collecting is not written.
EndOfStream(v) ==
  /\ Streaming(v) /\ Len(conn[v].batch) < Limit
  /\ channel[v] = Closed
  /\ Leave(v)
  /\ UNCHANGED <<stored, bus, phase, told, got, pump, faults>>

\* A write fails, or the client's cursor arrived at nobody.
Disconnect(v) ==
  /\ Connected(v) /\ faults < MaxFaults /\ faults' = faults + 1
  /\ Leave(v)
  /\ UNCHANGED <<stored, bus, phase, told, got, pump>>

-----------------------------------------------------------------------------
(* Shutdown: Runtime.Run.                                                  *)

\* Mutant: the broker forgets its subscribers but does not close their channels.
Advance_NotClosed ==
  /\ phase # "closed"
  /\ phase' = Phases[Rank(phase) + 1]
  /\ UNCHANGED <<stored, bus, subs, channel, conn, told, got, pump, missed, faults>>

\* server.Shutdown (which does not wait for hijacked connections) and
\* workerCancel; Wait (which ends after two seconds at the latest) and the
\* removal of the observer; broker.Close.  None waits for a Publish for long.
Advance ==
  /\ phase # "closed"
  /\ phase' = Phases[Rank(phase) + 1]
  /\ IF phase' = "closed"
     THEN /\ channel' = [v \in Viewers |-> [buf |-> channel[v].buf, open |-> FALSE]]
          /\ subs' = {}
     ELSE UNCHANGED <<channel, subs>>
  /\ UNCHANGED <<stored, bus, conn, told, got, pump, missed, faults>>

-----------------------------------------------------------------------------
Init ==
  /\ stored = 0 /\ bus = {} /\ phase = "serving" /\ subs = {}
  /\ channel = [v \in Viewers |-> Closed]
  /\ conn = [v \in Viewers |-> Off(0)]
  /\ told = [v \in Viewers |-> 0] /\ got = [v \in Viewers |-> <<>>]
  /\ pump = [p \in Pumps |-> Idle]
  /\ missed = [v \in Viewers |-> {}]
  /\ faults = 0

PumpStep(p) == Publish(p) \/ Filter(p) \/ Send(p) \/ SendFull(p) \/ DropOldest(p) \/ GiveUp(p) \/ Panic(p)

ViewerStep(v) == ReadPage(v) \/ Subscribe(v) \/ Receive(v) \/ WriteFrame(v) \/ EndOfStream(v)

Next ==
  \/ AppendEvent \/ Redeliver \/ HandledElsewhere \/ Advance
  \/ \E p \in Pumps : PumpStep(p)
  \/ \E v \in Viewers : ViewerStep(v) \/ Connect(v) \/ Heartbeat(v) \/ Disconnect(v)

\* The worker and the requests empty the bus until the shutdown, and finish
\* what they publish; a shutdown that has begun goes on, as each of its waits
\* has a timeout.  No client need connect.
Spec ==
  /\ Init /\ [][Next]_vars
  /\ \A p \in Pumps : WF_vars(PumpStep(p) /\ (phase = "serving" \/ pump[p] # Idle))
  /\ \A v \in Viewers : WF_vars(ViewerStep(v))
  /\ WF_vars(phase # "serving" /\ Advance)

-----------------------------------------------------------------------------
\* The values the state ranges over; a viewer is subscribed exactly while it
\* reads an open channel, so that no subscription outlives its connection
\* (the deferred unsubscribe of streamForumEvents).
TypeOK ==
  /\ stored \in 0..NumEvents /\ bus \subseteq 1..stored
  /\ phase \in {Phases[i] : i \in 1..Len(Phases)}
  /\ subs = {v \in Viewers : channel[v].open}
  /\ \A v \in Viewers :
       /\ channel[v].buf \in Seq(Events) /\ Len(channel[v].buf) <= BufferSize
       /\ channel[v].open => Streaming(v)
       /\ conn[v].at \in {"off", "reading", "paged", "live", "drain"}
       /\ conn[v].n \in 0..MaxConns /\ conn[v].cursor \in 0..stored
       /\ conn[v].batch \in Seq(Events) /\ Len(conn[v].batch) <= Limit
       /\ told[v] \in 0..stored /\ got[v] \in Seq(1..stored) /\ missed[v] \subseteq 1..stored
  /\ \A p \in Pumps :
       /\ pump[p].event \in 0..stored /\ pump[p].try \in 0..2
       /\ pump[p].todo \subseteq Viewers \X (1..MaxConns) /\ pump[p].target \in pump[p].todo \union {Nobody}
  /\ faults \in 0..MaxFaults

\* Over all its connections a viewer that passes its cursor on gets each event
\* of its own at most once, and in the order of the log: however the bus
\* reorders and redelivers, and although the page and the channel overlap
\* (websocket.go:86, 97).
InOrder ==
  \A v \in Viewers :
    /\ \A i \in 2..Len(got[v]) : got[v][i - 1] < got[v][i]
    /\ \A i \in 1..Len(got[v]) : Wants(v, got[v][i])

Sending(v) == {pump[p].event : p \in {q \in Pumps : \E t \in pump[q].todo : t[1] = v}}

\* The cursor a viewer was told leaves no event behind, except one that passed
\* it by (published between its page and its subscription, or while another
\* subscriber's closed channel made Publish panic, dropped from a full buffer,
\* handled by another process, beyond its page, overtaken by a later one) or is
\* still on its way and will be too late (websocket.go:57-82; broker 116-132).
CursorAccountsFor ==
  \A v \in Viewers : \A e \in 1..told[v] :
    Wants(v, e) =>
      \/ e \in ToSet(got[v]) \union missed[v] \union bus \union Sending(v)
      \/ e \in ToSet(channel[v].buf)

\* A viewer that stays connected is sent, in the end, every event of its own
\* that has not passed it by: nothing stays in a channel or in a frame.  It
\* stays connected only to a daemon that serves: a shutdown ends every stream.
Settles ==
  \A v \in Viewers :
    <>[]Streaming(v) =>
      <>[](/\ phase = "serving"
           /\ \A e \in 1..stored : Wants(v, e) => e \in ToSet(got[v]) \union missed[v])

=============================================================================
