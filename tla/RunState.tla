------------------------------ MODULE RunState ------------------------------
(***************************************************************************)
(* The state of one metawsm run and the store and tmux primitives its      *)
(* commands are built from.                                                *)
(*                                                                         *)
(* A run is a set of rows in SQLite (status, steps, agents, doc sync) and  *)
(* a part of the outside world (tmux sessions, wsm workspaces, git state). *)
(* Every metawsm command is an operating system process of its own (or a   *)
(* request served by the daemon) and no lock covers the rows: a command is *)
(* a sequence of single statements and shell calls.  A frame in proc is    *)
(* the local state of one such command: pc names the statement it is about *)
(* to execute, the other fields are its local variables.                   *)
(***************************************************************************)
EXTENDS RunHSM, Integers, FiniteSets

CONSTANTS
  Procs,          \* processes that execute commands on this run
  NumTickets,     \* tickets of the run; ticket t has one workspace, also t
  NumNames,       \* agent names of the run's spec
  SeedDocs,       \* docs.seed_mode = copy_from_repo_on_start
  Bootstrap,      \* the run's mode is bootstrap
  CustomPattern,  \* tmux.session_pattern differs from "{agent}-{workspace}"
  StepRetries,    \* execution.step_retries
  Ops,            \* the commands the operators issue
  MaxOps,         \* bound: commands issued, status queries not counted
  Env             \* what the outside world may do, see EnvEvents

AllOps ==
  {"run", "run_dry", "resume", "stop", "restart", "cleanup", "cleanup_keep",
   "iterate", "close", "close_dry", "guide", "status"}

\* shell: an external command fails.   tmux: a tmux call fails, or a session
\* disappears.                         db: a store error that the code ignores
\* (`_ = s.store...`).                 crash: a process dies, or a store call
\* fails whose error it returns.       exit, fail: an agent command ends, without
\* or with an error.                   edit: an agent edits its workspace.
\* commit: it commits its edits.       post: control signals are posted.
\* quiet: a live session's output is old.
EnvEvents == {"shell", "tmux", "db", "crash", "exit", "fail", "edit", "commit",
              "post", "quiet"}

ASSUME StateAssumption ==
  /\ NumTickets \in Nat \ {0}
  /\ NumNames \in Nat \ {0}
  /\ SeedDocs \in BOOLEAN /\ Bootstrap \in BOOLEAN /\ CustomPattern \in BOOLEAN
  /\ StepRetries \in Nat
  /\ Ops \subseteq AllOps
  /\ MaxOps \in Nat
  /\ Env \subseteq EnvEvents

Tickets == 1..NumTickets
Names   == 1..NumNames

\* An agent row is one agent name in one workspace.
Agents == Tickets \X Names

\* A step of the plan is its ticket and its position in the ticket's block.
BlockPrefix == IF SeedDocs THEN 3 ELSE 2
Steps == Tickets \X (1..(BlockPrefix + NumNames))

Kind(s) == CASE s[2] = 1              -> "verify"
             [] s[2] = 2              -> "workspace"
             [] SeedDocs /\ s[2] = 3  -> "docs"
             [] OTHER                 -> "tmux_start"
AgentOf(s) == <<s[1], s[2] - BlockPrefix>>

\* The session name in an agent's row, and the one tmux_start renders.
SessionNames    == Agents \X {"row", "pattern"}
RowSession(a)   == <<a, "row">>
StartSession(a) == <<a, IF CustomPattern THEN "pattern" ELSE "row">>

VARIABLES
  status,     \* runs.status, "none" before CreateRun
  step,       \* steps.status per step, "absent" before SaveSteps
  agent,      \* agents.status per agent, "absent" before seedAgents
  docSync,    \* doc_sync_states.status per ticket and workspace
  session,    \* tmux: no session, running, or its agent command has exited
  workspace,  \* wsm: the workspaces that exist
  dirty,      \* git: the workspaces with uncommitted changes
  merged,     \* wsm merge: what was merged last from each workspace
  control,    \* what the control thread of each agent name folds to
  proc,       \* the frame of each process
  issued      \* number of commands issued so far

rows  == <<status, step, agent, docSync>>
world == <<session, workspace, dirty, merged>>
vars  == <<status, step, agent, docSync, session, workspace, dirty, merged,
           control, proc, issued>>

SessionState == {"none", "up", "exit_ok", "exit_err"}
SyncState    == {"absent", "pending", "synced", "failed"}
\* A validation that is absent or failed, one that passed, and one that passed
\* with other done criteria than the run brief's.
Validation   == {"none", "passed", "mismatch"}
ControlState == [pending : BOOLEAN, completed : BOOLEAN, validation : Validation]

AgentRow == AgentStatus \union {"absent"}
NoAgents == [a \in Agents |-> "absent"]

Labels ==
  {"idle", "begin",
   "run_plan", "run_save", "run_seed",
   "resume_go", "resume_load",
   "exec", "step_begin", "step_work", "docs_copy", "tmux_new", "tmux_wait",
   "tmux_mark", "step_done", "step_fail", "exec_fail",
   "stop_go", "stop_load", "stop_kill", "stop_mark",
   "restart_read", "restart_load", "restart_go", "restart_kill",
   "restart_new", "restart_wait", "restart_mark",
   "cleanup_load", "cleanup_kill", "cleanup_mark", "cleanup_delete",
   "cleanup_stopped",
   "iterate_load", "iterate_feedback",
   "close_load", "close_docs", "close_dirty", "close_go",
   "close_merge", "close_end", "close_fail",
   "status_load", "status_probe", "status_mark", "status_check",
   "status_await", "status_resume", "status_resolve", "status_complete",
   "status_progress",
   "guide_load", "guide_target", "guide_answer", "guide_go"}

Frame ==
  [pc      : Labels,
   op      : AllOps \union {"none"},
   seen    : RunStatus \union {"none"},  \* record.Status, as read by GetRun
   todo    : SUBSET Steps,               \* steps still to execute
   attempt : 0..(StepRetries + 1),
   left    : SUBSET Agents,              \* agents still to visit
   ws      : SUBSET Tickets,             \* workspaces still to visit
   snap    : [Agents -> AgentRow],       \* agent rows, as read by GetAgents
   verdict : AgentRow]                   \* evaluateHealth's answer

Idle == [pc |-> "idle", op |-> "none", seen |-> "none", todo |-> {},
         attempt |-> 0, left |-> {}, ws |-> {}, snap |-> NoAgents,
         verdict |-> "absent"]

-----------------------------------------------------------------------------
(* Helpers shared by the commands. *)

At(p, label)   == proc[p].pc = label
Goto(p, label) == proc' = [proc EXCEPT ![p].pc = label]
Return(p)      == proc' = [proc EXCEPT ![p] = Idle]

\* Lists are visited in the order of the plan, or of GetAgents' ORDER BY.
IsFirst(x, S) ==
  /\ x \in S
  /\ \A y \in S : x[1] < y[1] \/ (x[1] = y[1] /\ x[2] <= y[2])
IsLeast(w, S) == w \in S /\ \A v \in S : w <= v

Registered        == {a \in Agents : agent[a] # "absent"}
InSnapshot(p)     == {a \in Agents : proc[p].snap[a] # "absent"}
WorkspacesOf(S)   == {a[1] : a \in S}

\* transitionRun: `from` is what the caller says the status is; the UPDATE
\* does not look at the row.
transitionRun(from, to) ==
  /\ CanTransitionRun(from, to)
  /\ status' = to

\* An UPDATE of a row that does not exist changes nothing.
UpdateAgentStatus(a, st) ==
  agent' = [agent EXCEPT ![a] = IF @ = "absent" THEN @ ELSE st]
UpdateStepStatus(s, st) ==
  step' = [step EXCEPT ![s] = IF @ = "absent" THEN @ ELSE st]

\* The store call failed and the caller ignores the error.
StoreErrorIgnored == "db" \in Env

tmuxKillSession(k) ==
  \/ session' = [session EXCEPT ![k] = "none"]
  \/ "tmux" \in Env /\ session' = session

\* tmux new-session refuses a name that is in use.
CanStart(k)   == session[k] = "none"
newSession(k) == CanStart(k) /\ session' = [session EXCEPT ![k] = "up"]

\* The probe and waitForAgentStartup see no session, or a failed command.
StartupFailed(k) == session[k] \in {"none", "exit_err"}

-----------------------------------------------------------------------------
TypeOK ==
  /\ status    \in RunStatus \union {"none"}
  /\ step      \in [Steps -> StepStatus \union {"absent"}]
  /\ agent     \in [Agents -> AgentRow]
  /\ docSync   \in [Tickets \X Tickets -> SyncState]
  /\ session   \in [SessionNames -> SessionState]
  /\ workspace \in SUBSET Tickets
  /\ dirty     \in SUBSET Tickets
  /\ merged    \in [Tickets -> {"no", "clean", "dirty"}]
  /\ control   \in [Names -> ControlState]
  /\ proc      \in [Procs -> Frame]
  /\ issued    \in Nat

Init ==
  /\ status = "none"
  /\ step = [s \in Steps |-> "absent"]
  /\ agent = NoAgents
  /\ docSync = [x \in Tickets \X Tickets |-> "absent"]
  /\ session = [k \in SessionNames |-> "none"]
  /\ workspace = {}
  /\ dirty = {}
  /\ merged = [w \in Tickets |-> "no"]
  /\ control = [n \in Names |->
                  [pending |-> FALSE, completed |-> FALSE, validation |-> "none"]]
  /\ proc = [p \in Procs |-> Idle]
  /\ issued = 0

=============================================================================
