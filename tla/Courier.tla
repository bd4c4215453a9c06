------------------------------- MODULE Courier -------------------------------
(***************************************************************************)
(* What the forum bus promises to the code above it: a message that was    *)
(* published is handled at least once, at any later time and in any order, *)
(* and nothing is handled that was not published.  ForumBus is the         *)
(* detailed specification of the same bus; ForumService uses this one.     *)
(***************************************************************************)
CONSTANT Message

VARIABLES
  sent,   \* messages that have been published
  done    \* messages whose handler has succeeded at least once

Init == sent = {} /\ done = {}

Send(m) ==
  /\ m \in Message \ sent
  /\ sent' = sent \union {m}
  /\ UNCHANGED done

\* Handling a message again changes neither set.
Handle(m) ==
  /\ m \in sent
  /\ done' = done \union {m}
  /\ UNCHANGED sent

Next == \E m \in Message : Send(m) \/ Handle(m)

Spec == Init /\ [][Next]_<<sent, done>>

\* A published message is handled in the end.
Delivery == \A m \in Message : (m \in sent) ~> (m \in done)

FairSpec == Spec /\ Delivery

=============================================================================
