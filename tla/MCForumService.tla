--------------------------- MODULE MCForumService ---------------------------
(***************************************************************************)
(* Instances of ForumService for TLC.  All threads are of one ticket.      *)
(***************************************************************************)
EXTENDS ForumService

OneTicket == [t \in Threads |-> "ticket"]

\* A thread is opened and then used in every way; it is the control thread of an
\* agent, whose signal and another client open it at the same time.
Scripts3 ==
  {<<{"open"}, ClientCalls \ {"open", "signal"}, {}>>,
   <<{"open", "signal"}, {}, {}>>}

=============================================================================
