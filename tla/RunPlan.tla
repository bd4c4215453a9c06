------------------------------ MODULE RunPlan -------------------------------
(***************************************************************************)
(* Planning and executing a run: Service.Run, Service.Resume and the       *)
(* executeSteps loop they share (internal/orchestrator/service.go).        *)
(***************************************************************************)
EXTENDS RunState

-----------------------------------------------------------------------------
(* Service.Run *)

\* CreateRun inserts the row; a run id that exists is a constraint error.
RunCreate(p) ==
  /\ At(p, "begin") /\ proc[p].op \in {"run", "run_dry"}
  /\ \/ /\ status = "none"
        /\ status' = "created"
        /\ Goto(p, "run_plan")
     \/ /\ status # "none"
        /\ Return(p)
        /\ UNCHANGED status
  /\ UNCHANGED <<step, agent, docSync, world, control, issued>>

RunPlanning(p) ==
  /\ At(p, "run_plan")
  /\ transitionRun("created", "planning")
  /\ proc' = [proc EXCEPT ![p].pc = "run_save", ![p].todo = Steps]
  /\ UNCHANGED <<step, agent, docSync, world, control, issued>>

\* SaveSteps inserts one row per step, each in a transaction of its own.
RunSaveSteps(p) ==
  /\ At(p, "run_save")
  /\ \E s \in proc[p].todo :
       /\ IsFirst(s, proc[p].todo)
       /\ step' = [step EXCEPT ![s] = "pending"]
       /\ \/ /\ proc[p].todo # {s}
             /\ proc' = [proc EXCEPT ![p].todo = @ \ {s}]
          \/ /\ proc[p].todo = {s}
             /\ proc' = [proc EXCEPT ![p].pc = "run_seed", ![p].todo = {}, ![p].left = Agents]
  /\ UNCHANGED <<status, agent, docSync, world, control, issued>>

\* seedAgents inserts one row per tmux_start step.
RunSeedAgent(p) ==
  /\ At(p, "run_seed")
  /\ \E a \in proc[p].left :
       /\ IsFirst(a, proc[p].left)
       /\ agent' = [agent EXCEPT ![a] = "pending"]
       /\ proc' = [proc EXCEPT ![p].left = @ \ {a}]
  /\ UNCHANGED <<status, step, docSync, world, control, issued>>

RunGo(p) ==
  /\ At(p, "run_seed") /\ proc[p].left = {}
  /\ \/ /\ proc[p].op = "run_dry"
        /\ transitionRun("planning", "paused")
        /\ Return(p)
     \/ /\ proc[p].op = "run"
        /\ transitionRun("planning", "running")
        /\ proc' = [proc EXCEPT ![p].pc = "exec", ![p].todo = Steps]
  /\ UNCHANGED <<step, agent, docSync, world, control, issued>>

-----------------------------------------------------------------------------
(* Service.Resume *)

ResumeRead(p) ==
  /\ At(p, "begin") /\ proc[p].op = "resume"
  /\ \/ /\ status # "none" /\ CanTransitionRun(status, "running")
        /\ proc' = [proc EXCEPT ![p].pc = "resume_go", ![p].seen = status]
     \/ /\ status = "none" \/ ~CanTransitionRun(status, "running")
        /\ Return(p)
  /\ UNCHANGED <<rows, world, control, issued>>

ResumeGo(p) ==
  /\ At(p, "resume_go")
  /\ transitionRun(proc[p].seen, "running")
  /\ Goto(p, "resume_load")
  /\ UNCHANGED <<step, agent, docSync, world, control, issued>>

\* The steps found done here are skipped without looking at them again.
ResumeLoad(p) ==
  /\ At(p, "resume_load")
  /\ proc' = [proc EXCEPT ![p].pc = "exec",
                          ![p].todo = {s \in Steps : step[s] \notin {"absent", "done"}}]
  /\ UNCHANGED <<rows, world, control, issued>>

-----------------------------------------------------------------------------
(* executeSteps and executeSingleStep *)

\* GetSteps, then stepDoneOrSkipped.
StepPick(p) ==
  /\ At(p, "exec")
  /\ \E s \in proc[p].todo :
       /\ IsFirst(s, proc[p].todo)
       /\ \/ /\ step[s] \in {"done", "skipped"}
             /\ proc' = [proc EXCEPT ![p].todo = @ \ {s}]
          \/ /\ step[s] \notin {"done", "skipped"}
             /\ proc' = [proc EXCEPT ![p].pc = "step_begin", ![p].attempt = 1]
  /\ UNCHANGED <<rows, world, control, issued>>

\* Mutant: the step is executed without being marked running.
StepBegin_NotMarked(p) ==
  /\ At(p, "step_begin")
  /\ Goto(p, "step_work")
  /\ UNCHANGED <<rows, world, control, issued>>

StepBegin(p) ==
  /\ At(p, "step_begin")
  /\ \E s \in proc[p].todo :
       /\ IsFirst(s, proc[p].todo)
       /\ UpdateStepStatus(s, "running")
  /\ Goto(p, "step_work")
  /\ UNCHANGED <<status, agent, docSync, world, control, issued>>

\* The shell steps: docmgr ticket list, and wsm create followed by the reset of
\* its repositories to the base branch (alignWorkspaceToBaseBranch).
ShellStep(p) ==
  /\ At(p, "step_work")
  /\ \E s \in proc[p].todo :
       /\ IsFirst(s, proc[p].todo) /\ Kind(s) \in {"verify", "workspace"}
       /\ \/ /\ Goto(p, "step_done")
             /\ workspace' = IF Kind(s) = "workspace" THEN workspace \union {s[1]}
                                                      ELSE workspace
             /\ dirty' = IF Kind(s) = "workspace" THEN dirty \ {s[1]} ELSE dirty
          \/ /\ "shell" \in Env
             /\ Goto(p, "step_fail")
             /\ workspace' \in {workspace} \union
                  (IF Kind(s) = "workspace" THEN {workspace \union {s[1]}} ELSE {})
             /\ dirty' = dirty
  /\ UNCHANGED <<rows, session, merged, control, issued>>

\* ticket_context_sync, first half: the row is marked pending.
DocsPending(p) ==
  /\ At(p, "step_work")
  /\ \E s \in proc[p].todo :
       /\ IsFirst(s, proc[p].todo) /\ Kind(s) = "docs"
       /\ \/ /\ s[1] \in workspace
             /\ \/ docSync' = [docSync EXCEPT ![<<s[1], s[1]>>] = "pending"]
                \/ StoreErrorIgnored /\ docSync' = docSync
             /\ Goto(p, "docs_copy")
          \/ /\ s[1] \notin workspace
             /\ Goto(p, "step_fail")
             /\ UNCHANGED docSync
  /\ UNCHANGED <<status, step, agent, world, control, issued>>

\* Mutant: the copy succeeds and the row stays pending.
DocsCopy_NotMarked(p) ==
  /\ At(p, "docs_copy")
  /\ Goto(p, "step_done")
  /\ UNCHANGED <<rows, world, control, issued>>

\* Second half: the ticket's documents are copied into the workspace, which may
\* leave it dirty, and the row is marked synced, or failed.
DocsCopy(p) ==
  /\ At(p, "docs_copy")
  /\ \E s \in proc[p].todo :
       /\ IsFirst(s, proc[p].todo)
       /\ dirty' \in {dirty, dirty \union ({s[1]} \intersect workspace)}
       /\ \/ /\ s[1] \in workspace
             /\ docSync' = [docSync EXCEPT ![<<s[1], s[1]>>] = "synced"]
             /\ Goto(p, "step_done")
          \/ /\ "shell" \in Env \/ s[1] \notin workspace
             /\ \/ docSync' = [docSync EXCEPT ![<<s[1], s[1]>>] = "failed"]
                \/ StoreErrorIgnored /\ docSync' = docSync
             /\ Goto(p, "step_fail")
  /\ UNCHANGED <<status, step, agent, session, workspace, merged, control, issued>>

\* tmux_start: kill what has the session's name, start it, watch it start, mark
\* the agent running.
TmuxKill(p) ==
  /\ At(p, "step_work")
  /\ \E s \in proc[p].todo :
       /\ IsFirst(s, proc[p].todo) /\ Kind(s) = "tmux_start"
       /\ \/ /\ s[1] \in workspace
             /\ tmuxKillSession(StartSession(AgentOf(s)))
             /\ Goto(p, "tmux_new")
          \/ /\ s[1] \notin workspace
             /\ Goto(p, "step_fail")
             /\ UNCHANGED session
  /\ UNCHANGED <<rows, workspace, dirty, merged, control, issued>>

TmuxNew(p) ==
  /\ At(p, "tmux_new")
  /\ \E s \in proc[p].todo :
       /\ IsFirst(s, proc[p].todo)
       /\ LET k == StartSession(AgentOf(s)) IN
            \/ /\ newSession(k)
               /\ Goto(p, "tmux_wait")
            \/ /\ ~CanStart(k) \/ "shell" \in Env
               /\ Goto(p, "step_fail")
               /\ UNCHANGED session
  /\ UNCHANGED <<rows, workspace, dirty, merged, control, issued>>

TmuxWait(p) ==
  /\ At(p, "tmux_wait")
  /\ \E s \in proc[p].todo :
       /\ IsFirst(s, proc[p].todo)
       /\ LET k == StartSession(AgentOf(s)) IN
            \/ /\ ~StartupFailed(k) \/ "tmux" \in Env
               /\ Goto(p, "tmux_mark")
            \/ /\ StartupFailed(k)
               /\ Goto(p, "step_fail")
  /\ UNCHANGED <<rows, world, control, issued>>

TmuxMark(p) ==
  /\ At(p, "tmux_mark")
  /\ \E s \in proc[p].todo :
       /\ IsFirst(s, proc[p].todo)
       /\ UpdateAgentStatus(AgentOf(s), "running")
  /\ Goto(p, "step_done")
  /\ UNCHANGED <<status, step, docSync, world, control, issued>>

StepDone(p) ==
  /\ At(p, "step_done")
  /\ \E s \in proc[p].todo :
       /\ IsFirst(s, proc[p].todo)
       /\ UpdateStepStatus(s, "done")
       /\ proc' = [proc EXCEPT ![p].pc = "exec", ![p].attempt = 0,
                               ![p].todo = @ \ {s}]
  /\ UNCHANGED <<status, agent, docSync, world, control, issued>>

\* Mutants of StepFail: one attempt too many; attempts that are not counted; a
\* step that is not blocking.
StepFail_ExtraAttempt(p) ==
  /\ At(p, "step_fail")
  /\ \/ /\ proc[p].attempt <= StepRetries + 1
        /\ proc' = [proc EXCEPT ![p].pc = "step_begin", ![p].attempt = @ + 1]
     \/ /\ proc[p].attempt > StepRetries + 1
        /\ Goto(p, "exec_fail")
  /\ UNCHANGED <<rows, world, control, issued>>

StepFail_NotCounted(p) ==
  /\ At(p, "step_fail")
  /\ Goto(p, "step_begin")
  /\ UNCHANGED <<rows, world, control, issued>>

StepFail_NotBlocking(p) ==
  /\ At(p, "step_fail")
  /\ \E s \in proc[p].todo :
       /\ IsFirst(s, proc[p].todo)
       /\ UpdateStepStatus(s, "failed")
       /\ proc' = [proc EXCEPT ![p].pc = "exec", ![p].todo = @ \ {s}]
  /\ UNCHANGED <<status, agent, docSync, world, control, issued>>

\* The failed attempt is recorded; every step of a plan is blocking, so the last
\* one ends executeSteps with an error.
StepFail(p) ==
  /\ At(p, "step_fail")
  /\ \E s \in proc[p].todo :
       /\ IsFirst(s, proc[p].todo)
       /\ \/ UpdateStepStatus(s, "failed")
          \/ StoreErrorIgnored /\ step' = step
  /\ \/ /\ proc[p].attempt <= StepRetries
        /\ proc' = [proc EXCEPT ![p].pc = "step_begin", ![p].attempt = @ + 1]
     \/ /\ proc[p].attempt > StepRetries
        /\ Goto(p, "exec_fail")
  /\ UNCHANGED <<status, agent, docSync, world, control, issued>>

\* A store call of executeSteps that is not ignored fails: GetSteps, or the UPDATE
\* that marks a step running or done.  No attempt is left after it.
ExecStoreFails(p) ==
  /\ "crash" \in Env
  /\ \/ At(p, "exec") /\ proc[p].todo # {}
     \/ proc[p].pc \in {"step_begin", "step_done"}
  /\ Goto(p, "exec_fail")
  /\ UNCHANGED <<rows, world, control, issued>>

\* One of executeSingleStep fails, when all the rest of the step is done: the
\* UPDATE of the agent, or the rows that say that the documents are there.
StepStoreFails(p) ==
  /\ "crash" \in Env
  /\ \E s \in proc[p].todo :
       /\ IsFirst(s, proc[p].todo)
       /\ \/ At(p, "tmux_mark") /\ UNCHANGED <<dirty, docSync>>
          \/ /\ At(p, "docs_copy") /\ s[1] \in workspace
             /\ dirty' \in {dirty, dirty \union {s[1]}}
             /\ docSync' \in {docSync, [docSync EXCEPT ![<<s[1], s[1]>>] = "synced"]}
  /\ Goto(p, "step_fail")
  /\ UNCHANGED <<status, step, agent, session, workspace, merged, control, issued>>

\* The error of this transition is ignored as well.
ExecFailed(p) ==
  /\ At(p, "exec_fail")
  /\ \/ transitionRun("running", "failed")
     \/ StoreErrorIgnored /\ status' = status
  /\ Return(p)
  /\ UNCHANGED <<step, agent, docSync, world, control, issued>>

\* A bootstrap run stays running: completion is detected from control signals.
ExecFinished(p) ==
  /\ At(p, "exec") /\ proc[p].todo = {}
  /\ \/ /\ Bootstrap
        /\ UNCHANGED status
     \/ /\ ~Bootstrap
        /\ transitionRun("running", "completed")
  /\ Return(p)
  /\ UNCHANGED <<step, agent, docSync, world, control, issued>>

PlanStep(p) ==
  \/ RunCreate(p) \/ RunPlanning(p) \/ RunSaveSteps(p) \/ RunSeedAgent(p)
  \/ RunGo(p) \/ ResumeRead(p) \/ ResumeGo(p) \/ ResumeLoad(p)
  \/ StepPick(p) \/ StepBegin(p) \/ ShellStep(p) \/ DocsPending(p) \/ DocsCopy(p)
  \/ TmuxKill(p) \/ TmuxNew(p) \/ TmuxWait(p) \/ TmuxMark(p)
  \/ StepDone(p) \/ StepFail(p) \/ ExecStoreFails(p) \/ StepStoreFails(p)
  \/ ExecFailed(p) \/ ExecFinished(p)

=============================================================================
