------------------------------ MODULE ForumLog ------------------------------
(***************************************************************************)
(* What the forum promises its users, without a bus, handlers or           *)
(* projections: a command that was issued takes effect at most once and at *)
(* one moment, the log keeps what took effect in that order, and the board *)
(* that everyone reads is what the log adds up to.                         *)
(*                                                                         *)
(* The promise is weaker than it looks: the board is consulted when a      *)
(* command is issued and not again when it takes effect.                   *)
(***************************************************************************)
EXTENDS Integers, Sequences

CONSTANTS Threads, Ids, Undrawn, Absent, Nobody

VARIABLES
  issued,   \* the command of each id, or Undrawn
  log,      \* the ids of what took effect or was noted
  board     \* what is shown of each thread

logVars == <<issued, log, board>>

Exists(t) == board[t] # Absent
IsOpen(t) == Exists(t) /\ board[t].state # "closed"

InLog(id) == \E i \in DOMAIN log : log[i] = id

\* Where a thread may go from each state, an answer apart.
Successors ==
  [new              |-> {"triaged", "waiting_operator", "waiting_human", "answered", "closed"},
   triaged          |-> {"waiting_operator", "waiting_human", "answered", "closed"},
   waiting_operator |-> {"triaged", "waiting_human", "answered", "closed"},
   waiting_human    |-> {"triaged", "waiting_operator", "answered", "closed"},
   answered         |-> {"waiting_operator", "waiting_human", "closed"},
   closed           |-> {}]

\* A command that may be issued.  "answered" is set by an answer, which looked at
\* the thread before it posted.
Legal(c) ==
  \/ c.kind \in {"open", "signal"}
  \/ c.kind \in {"post", "assign", "priority", "close"} /\ IsOpen(c.thread)
  \/ c.kind = "state" /\ Exists(c.thread) /\ c.to = "answered"
  \/ /\ c.kind = "state" /\ Exists(c.thread)
     /\ LET s == board[c.thread].state IN c.to \in Successors[s] \union {s}

\* What a command makes of its thread.
After(row, c) ==
  CASE c.kind = "open"               -> [state |-> "new", priority |-> c.to,
                                         assignee |-> Nobody, posts |-> 1]
    [] c.kind \in {"post", "signal"} -> [row EXCEPT !.posts = @ + 1]
    [] c.kind = "assign"             -> [row EXCEPT !.assignee = c.to]
    [] c.kind \in {"state", "close"} -> [row EXCEPT !.state = c.to]
    [] c.kind = "priority"           -> [row EXCEPT !.priority = c.to]

Init ==
  /\ issued = [i \in Ids |-> Undrawn]
  /\ log    = << >>
  /\ board  = [t \in Threads |-> Absent]

Draw(id) ==
  /\ issued[id] = Undrawn /\ issued'[id] # Undrawn
  /\ \A j \in Ids \ {id} : issued'[j] = issued[j]

Issue(id) == Draw(id) /\ Legal(issued'[id]) /\ UNCHANGED <<log, board>>

\* A request to sync the documents is noted at once, and changes no thread.
Note(id) ==
  /\ Draw(id) /\ issued'[id].kind = "docs_sync"
  /\ log' = Append(log, id)
  /\ UNCHANGED board

TakeEffect(id) ==
  LET c == issued[id] IN
  /\ c # Undrawn /\ ~InLog(id)
  /\ c.kind = "open" <=> ~Exists(c.thread)
  /\ log' = Append(log, id)
  /\ board' = [board EXCEPT ![c.thread] = After(@, c)]
  /\ UNCHANGED issued

Next == \E id \in Ids : Issue(id) \/ Note(id) \/ TakeEffect(id)

Spec == Init /\ [][Next]_logVars

=============================================================================
