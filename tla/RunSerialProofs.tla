--------------------------- MODULE RunSerialProofs ---------------------------
(***************************************************************************)
(* What a run promises while its commands come one at a time: at most one  *)
(* process executes commands on it, while agents and the world do what     *)
(* they may at every moment.  TypeCorrect and SignalNeeded need no such    *)
(* hypothesis; LegalTransitions is false without it, as StopDuringRun      *)
(* shows.                                                                  *)
(*                                                                         *)
(* None is inductive.  A command relies, between its statements, on what   *)
(* it has read or done: the status that it wrote or read last, the steps   *)
(* that it has left to do, the sessions that it has killed, the agents     *)
(* that it has read, the workspaces that it has found clean or merged.     *)
(* Known says what, one conjunct for each table or part of the world, and  *)
(* RunInv what is true of the run whatever is being executed.              *)
(***************************************************************************)
EXTENDS RunBootstrapProofs

\* Commands come one at a time.
Alone == \A p, q \in Procs : p = q

-----------------------------------------------------------------------------
(* What a command knows of the status *)

\* The statements of one attempt at a step, and those of executeSteps.
Attempting == {"step_work", "docs_copy", "tmux_new", "tmux_wait", "tmux_mark", "step_done", "step_fail"}
Doing      == {"exec", "step_begin"} \union Attempting
Executing  == {"resume_load", "exec", "step_begin", "exec_fail"} \union Attempting
Restarting == {"restart_kill", "restart_new", "restart_wait", "restart_mark"}
Guiding    == {"guide_load", "guide_target", "guide_answer", "guide_go"}
ToClose    == {"close_load", "close_docs", "close_dirty", "close_go"}
Closing    == {"close_merge", "close_end", "close_fail"}

\* Those at which seen is still the status.
Reading == {"resume_go", "stop_go", "restart_load", "restart_go", "cleanup_load", "cleanup_kill",
            "cleanup_mark", "cleanup_delete", "status_load", "status_probe", "status_mark", "status_check"}

\* The statements that write each a status they take for granted.
StatusKnown(p) ==
  /\ At(p, "run_plan") => status = "created"
  /\ proc[p].pc \in {"run_save", "run_seed"} => status = "planning"
  /\ proc[p].pc \in Executing => status = "running"
  /\ proc[p].pc \in Reading => status = proc[p].seen /\ status # "none"
  /\ proc[p].pc \in {"stop_load", "stop_kill", "stop_mark", "cleanup_stopped"} => status = "stopping"
  /\ proc[p].pc \in Restarting => status # "stopped"
  /\ At(p, "status_check") => Bootstrap /\ status \in {"running", "awaiting_guidance"}
  /\ proc[p].pc \in {"status_await", "status_complete"} => Bootstrap /\ status = "running"
  /\ proc[p].pc \in {"status_resume", "status_resolve"} => Bootstrap /\ status = "awaiting_guidance"
  /\ proc[p].pc \in Guiding => status = "awaiting_guidance"
  /\ proc[p].pc \in ToClose => status = "completed"
  /\ proc[p].pc \in Closing => status = "closing"

-----------------------------------------------------------------------------
(* What it knows of the steps *)

\* The plan is written once, and the step that is executed is not done.
StepsKnown(p) ==
  /\ status = "none" \/ At(p, "run_plan") => \A s \in Steps : step[s] = "absent"
  /\ At(p, "run_save") => \A s \in proc[p].todo : step[s] = "absent"
  /\ At(p, "step_begin") => \A s \in Steps : IsFirst(s, proc[p].todo) => step[s] # "done"
  /\ proc[p].pc \in Attempting =>
       \A s \in Steps : IsFirst(s, proc[p].todo) => step[s] \in {"running", "absent"}

\* Without crashes the plan is there once its last row is written, and what is not
\* left to do is done.
Written(p) ==
  status = "none" \/ At(p, "run_plan")
    \/ \A s \in Steps : step[s] # "absent" \/ (At(p, "run_save") /\ s \in proc[p].todo)

PlanKnown(p) ==
  "crash" \notin Env =>
    /\ Written(p)
    /\ proc[p].pc \in Doing => \A s \in Steps : s \in proc[p].todo \/ step[s] = "done"

Executed    == "crash" \notin Env => CompletedMeansExecuted
NoneSkipped == \A s \in Steps : step[s] # "skipped"

-----------------------------------------------------------------------------
(* What it knows of the sessions *)

Gone(a)  == session[RowSession(a)] = "none"
Quiesced == "tmux" \notin Env => StoppedQuiesced

\* Once an agent has been killed, nothing but a command's own statement starts it:
\* a tmux fault is the only other thing that may leave its session there.

SessionsKnown(p) ==
  "tmux" \notin Env =>
    /\ proc[p].pc \in {"stop_kill", "stop_mark", "cleanup_kill"} =>
         \A a \in Registered : a \in proc[p].left \/ Gone(a)
    /\ At(p, "stop_mark") => \A a \in Registered : IsFirst(a, proc[p].left) => Gone(a)
    /\ proc[p].pc \in {"cleanup_mark", "cleanup_delete", "cleanup_stopped"} => \A a \in Registered : Gone(a)

-----------------------------------------------------------------------------
(* What a close and a status query know *)

Merged(a) == merged[a[1]] # "no"

MergedInv ==
  /\ "close_dry" \notin Ops => ClosedMeansMerged
  /\ "edit" \notin Env => MergesClean

CloseKnown(p) ==
  /\ proc[p].op \in Ops \union {"none"}
  /\ proc[p].pc \in {"close_docs", "close_dirty", "close_go", "close_merge"} => InSnapshot(p) = Registered
  /\ "edit" \notin Env =>
       /\ At(p, "close_dirty") => \A w \in RunWorkspaces(p) : w \in proc[p].ws \/ w \notin dirty
       /\ At(p, "close_go") => RunWorkspaces(p) \cap dirty = {}
       /\ At(p, "close_merge") => proc[p].ws \cap dirty = {}
  /\ "close_dry" \notin Ops =>
       /\ At(p, "close_merge") => \A a \in Registered : a[1] \in proc[p].ws \/ Merged(a)
       /\ At(p, "close_end") => \A a \in Registered : Merged(a)

SignalsKnown(p) ==
  /\ At(p, "status_check") => InSnapshot(p) \in {Registered, {}}
  /\ proc[p].pc \in {"status_resolve", "status_complete"} => \A a \in Registered : control[a[2]].completed

\* The invariant.
RunInv == Executed /\ NoneSkipped /\ Quiesced /\ MergedInv /\ BootstrapAllSignalled

Known(p) ==
  StatusKnown(p) /\ StepsKnown(p) /\ PlanKnown(p) /\ SessionsKnown(p) /\ CloseKnown(p) /\ SignalsKnown(p)

SerialInv == IInv /\ RunInv /\ \A p \in Procs : Known(p)

-----------------------------------------------------------------------------
(* What a statement does, by its label *)

\* What a step writes, and where it leads to.
Moves(p) ==
  LET before == proc[p].pc
      after  == proc'[p].pc
  IN
  /\ step' = step \/ before \in {"run_save", "step_begin", "step_done", "step_fail"}
  /\ session' = session
     \/ before \in {"step_work", "tmux_new", "stop_kill", "cleanup_kill", "restart_kill", "restart_new"}
  /\ merged' = merged \/ before = "close_merge"
  /\ dirty' = dirty \/ before \in {"step_work", "docs_copy", "iterate_feedback", "cleanup_delete"}
  /\ control' = control \/ before = "guide_answer"
  /\ agent' = agent
     \/ before \in {"run_seed", "tmux_mark", "stop_mark", "restart_mark", "cleanup_mark", "status_mark",
                     "status_progress"}
  /\ \/ status' = status \/ after = "run_plan"
     \/ before \in {"run_plan", "run_seed", "resume_go", "exec", "exec_fail", "stop_go", "stop_kill", "restart_go",
                     "cleanup_delete", "cleanup_stopped", "status_check", "status_await", "status_resume",
                     "status_resolve", "status_complete", "guide_go", "close_go", "close_end", "close_fail"}
  /\ proc'[p].op \in {proc[p].op, "none"}
  /\ proc'[p].snap \in {proc[p].snap, NoAgents}
     \/ before \in {"cleanup_load", "status_load", "status_probe", "guide_load", "close_load"}

\* A step of a group of commands stays among its labels, and the status it writes is
\* one of a few.
Within(p, labels, statuses) ==
  /\ proc[p].pc \in labels \union {"begin"} /\ proc'[p].pc \in labels \union {"idle"}
  /\ status' \in statuses \union {status}

PlanLabels ==
  {"run_plan", "run_save", "run_seed", "resume_go", "resume_load", "exec", "step_begin", "step_work", "docs_copy",
   "tmux_new", "tmux_wait", "tmux_mark", "step_done", "step_fail", "exec_fail"}
AgentsLabels ==
  {"stop_go", "stop_load", "stop_kill", "stop_mark",
   "restart_read", "restart_load", "restart_go", "restart_kill", "restart_new", "restart_wait", "restart_mark",
   "cleanup_load", "cleanup_kill", "cleanup_mark", "cleanup_delete", "cleanup_stopped",
   "iterate_load", "iterate_feedback"}
SignalsLabels ==
  {"status_load", "status_probe", "status_mark", "status_check", "status_await", "status_resume", "status_resolve",
   "status_complete", "status_progress", "guide_load", "guide_target", "guide_answer", "guide_go"}
CloseLabels ==
  {"close_load", "close_docs", "close_dirty", "close_go", "close_merge", "close_end", "close_fail"}

PlanStatuses    == {"created", "planning", "paused", "running", "failed", "completed"}
AgentsStatuses  == {"running", "stopping", "stopped"}
SignalsStatuses == {"failed", "awaiting_guidance", "running", "completed"}
CloseStatuses   == {"closing", "closed", "failed"}

Legal == status # "none" => CanTransitionRun(status, status')

-----------------------------------------------------------------------------
(* One step for each statement *)

LEMMA PlanMoves ==
  ASSUME TypeOK, NEW p \in Procs, PlanStep(p)
  PROVE  Moves(p)
<1> USE DEF TypeOK, Frame, Moves, At, Goto, Return, Idle, rows, world
<1>1. CASE RunCreate(p)
  BY <1>1 DEF RunCreate
<1>2. CASE RunPlanning(p)
  BY <1>2 DEF RunPlanning
<1>3. CASE RunSaveSteps(p)
  BY <1>3 DEF RunSaveSteps
<1>4. CASE RunSeedAgent(p)
  BY <1>4 DEF RunSeedAgent
<1>5. CASE RunGo(p)
  BY <1>5 DEF RunGo
<1>6. CASE ResumeRead(p)
  BY <1>6 DEF ResumeRead
<1>7. CASE ResumeGo(p)
  BY <1>7 DEF ResumeGo
<1>8. CASE ResumeLoad(p)
  BY <1>8 DEF ResumeLoad
<1>9. CASE StepPick(p)
  BY <1>9 DEF StepPick
<1>10. CASE StepBegin(p)
  BY <1>10 DEF StepBegin
<1>11. CASE ShellStep(p)
  BY <1>11 DEF ShellStep
<1>12. CASE DocsPending(p)
  BY <1>12 DEF DocsPending
<1>13. CASE DocsCopy(p)
  BY <1>13 DEF DocsCopy
<1>14. CASE TmuxKill(p)
  BY <1>14 DEF TmuxKill
<1>15. CASE TmuxNew(p)
  BY <1>15 DEF TmuxNew
<1>16. CASE TmuxWait(p)
  BY <1>16 DEF TmuxWait
<1>17. CASE TmuxMark(p)
  BY <1>17 DEF TmuxMark
<1>18. CASE StepDone(p)
  BY <1>18 DEF StepDone
<1>19. CASE StepFail(p)
  BY <1>19 DEF StepFail
<1>20. CASE ExecFailed(p)
  BY <1>20 DEF ExecFailed
<1>21. CASE ExecFinished(p)
  BY <1>21 DEF ExecFinished
<1>22. CASE ExecStoreFails(p)
  BY <1>22 DEF ExecStoreFails
<1>23. CASE StepStoreFails(p)
  BY <1>23 DEF StepStoreFails
<1> QED BY <1>1, <1>2, <1>3, <1>4, <1>5, <1>6, <1>7, <1>8, <1>9, <1>10, <1>11, <1>12, <1>13, <1>14, <1>15, <1>16, <1>17, <1>18, <1>19, <1>20, <1>21, <1>22, <1>23 DEF PlanStep

LEMMA AgentsMoves ==
  ASSUME TypeOK, NEW p \in Procs, AgentsStep(p)
  PROVE  Moves(p)
<1> USE DEF TypeOK, Frame, Moves, At, Goto, Return, Idle, rows, world
<1>1. CASE StopRead(p)
  BY <1>1 DEF StopRead
<1>2. CASE StopGo(p)
  BY <1>2 DEF StopGo
<1>3. CASE StopLoad(p)
  BY <1>3 DEF StopLoad
<1>4. CASE StopKill(p)
  BY <1>4 DEF StopKill
<1>5. CASE StopMark(p)
  BY <1>5 DEF StopMark
<1>6. CASE StopEnd(p)
  BY <1>6 DEF StopEnd
<1>7. CASE RestartRead(p)
  BY <1>7 DEF RestartRead
<1>8. CASE RestartLoad(p)
  BY <1>8 DEF RestartLoad
<1>9. CASE RestartGo(p)
  BY <1>9 DEF RestartGo
<1>10. CASE RestartKill(p)
  BY <1>10 DEF RestartKill
<1>11. CASE RestartNew(p)
  BY <1>11 DEF RestartNew
<1>12. CASE RestartWait(p)
  BY <1>12 DEF RestartWait
<1>13. CASE RestartMark(p)
  BY <1>13 DEF RestartMark
<1>14. CASE IterateRead(p)
  BY <1>14 DEF IterateRead
<1>15. CASE IterateLoad(p)
  BY <1>15 DEF IterateLoad
<1>16. CASE IterateFeedback(p)
  BY <1>16 DEF IterateFeedback
<1>17. CASE IterateRestart(p)
  BY <1>17 DEF IterateRestart
<1>18. CASE CleanupRead(p)
  BY <1>18 DEF CleanupRead
<1>19. CASE CleanupLoad(p)
  BY <1>19 DEF CleanupLoad
<1>20. CASE CleanupKill(p)
  BY <1>20 DEF CleanupKill
<1>21. CASE CleanupKilled(p)
  BY <1>21 DEF CleanupKilled
<1>22. CASE CleanupMark(p)
  BY <1>22 DEF CleanupMark
<1>23. CASE CleanupMarked(p)
  BY <1>23 DEF CleanupMarked
<1>24. CASE CleanupDelete(p)
  BY <1>24 DEF CleanupDelete
<1>25. CASE CleanupStopping(p)
  BY <1>25 DEF CleanupStopping
<1>26. CASE CleanupStopped(p)
  BY <1>26 DEF CleanupStopped
<1> QED BY <1>1, <1>2, <1>3, <1>4, <1>5, <1>6, <1>7, <1>8, <1>9, <1>10, <1>11, <1>12, <1>13, <1>14, <1>15, <1>16, <1>17, <1>18, <1>19, <1>20, <1>21, <1>22, <1>23, <1>24, <1>25, <1>26 DEF AgentsStep

LEMMA SignalsMoves ==
  ASSUME TypeOK, NEW p \in Procs, SignalsStep(p)
  PROVE  Moves(p)
<1> USE DEF TypeOK, Frame, Moves, At, Goto, Return, Idle, rows, world
<1>1. CASE StatusRead(p)
  BY <1>1 DEF StatusRead
<1>2. CASE StatusLoad(p)
  BY <1>2 DEF StatusLoad
<1>3. CASE StatusProbe(p)
  BY <1>3 DEF StatusProbe
<1>4. CASE StatusMark(p)
  BY <1>4 DEF StatusMark
<1>5. CASE StatusReload(p)
  BY <1>5 DEF StatusReload
<1>6. CASE StatusFailRun(p)
  BY <1>6 DEF StatusFailRun
<1>7. CASE StatusSignals(p)
  BY <1>7 DEF StatusSignals
<1>8. CASE StatusAwait(p)
  BY <1>8 DEF StatusAwait
<1>9. CASE StatusResume(p)
  BY <1>9 DEF StatusResume
<1>10. CASE StatusComplete(p)
  BY <1>10 DEF StatusComplete
<1>11. CASE StatusProgress(p)
  BY <1>11 DEF StatusProgress
<1>12. CASE StatusEnd(p)
  BY <1>12 DEF StatusEnd
<1>13. CASE GuideRead(p)
  BY <1>13 DEF GuideRead
<1>14. CASE GuideLoad(p)
  BY <1>14 DEF GuideLoad
<1>15. CASE GuideTarget(p)
  <2>1. \/ \E a \in Agents : proc' = [proc EXCEPT ![p].pc = "guide_answer", ![p].left = {a}]
        \/ proc' = [proc EXCEPT ![p] = Idle]
    BY <1>15 DEF GuideTarget, InSnapshot
  <2>2. proc'[p].op \in {proc[p].op, "none"} /\ proc'[p].snap \in {proc[p].snap, NoAgents}
    BY <2>1
  <2> QED BY <1>15, <2>2 DEF GuideTarget
<1>16. CASE GuideAnswer(p)
  BY <1>16 DEF GuideAnswer
<1>17. CASE GuideGo(p)
  BY <1>17 DEF GuideGo
<1> QED BY <1>1, <1>2, <1>3, <1>4, <1>5, <1>6, <1>7, <1>8, <1>9, <1>10, <1>11, <1>12, <1>13, <1>14, <1>15, <1>16, <1>17 DEF SignalsStep

LEMMA CloseMoves ==
  ASSUME TypeOK, NEW p \in Procs, CloseStep(p)
  PROVE  Moves(p)
<1> USE DEF TypeOK, Frame, Moves, At, Goto, Return, Idle, rows, world
<1>1. CASE CloseRead(p)
  BY <1>1 DEF CloseRead
<1>2. CASE CloseLoad(p)
  BY <1>2 DEF CloseLoad
<1>3. CASE CloseDocs(p)
  BY <1>3 DEF CloseDocs
<1>4. CASE CloseDirty(p)
  BY <1>4 DEF CloseDirty
<1>5. CASE CloseSignals(p)
  BY <1>5 DEF CloseSignals
<1>6. CASE CloseGo(p)
  BY <1>6 DEF CloseGo
<1>7. CASE CloseMerge(p)
  BY <1>7 DEF CloseMerge
<1>8. CASE CloseTickets(p)
  BY <1>8 DEF CloseTickets
<1>9. CASE CloseEnd(p)
  BY <1>9 DEF CloseEnd
<1>10. CASE CloseFail(p)
  BY <1>10 DEF CloseFail
<1> QED BY <1>1, <1>2, <1>3, <1>4, <1>5, <1>6, <1>7, <1>8, <1>9, <1>10 DEF CloseStep

LEMMA PlanStatus ==
  ASSUME TypeOK, NEW p \in Procs, StatusKnown(p), PlanStep(p)
  PROVE  StatusKnown(p)' /\ Legal
<1> USE DEF TypeOK, Frame, StatusKnown, Legal, CanTransitionRun, At, Goto, Return, Idle, transitionRun, rows, world,
            Attempting, Executing, Restarting, Guiding, ToClose, Closing, Reading
<1>1. CASE RunCreate(p)
  BY <1>1 DEF RunCreate
<1>2. CASE RunPlanning(p)
  BY <1>2 DEF RunPlanning
<1>3. CASE RunSaveSteps(p)
  <2>1. At(p, "run_save") /\ proc'[p].pc \in {"run_save", "run_seed"} /\ status' = status
    BY <1>3 DEF RunSaveSteps
  <2> QED BY <2>1
<1>4. CASE RunSeedAgent(p)
  BY <1>4 DEF RunSeedAgent
<1>5. CASE RunGo(p)
  <2>1. \/ proc'[p].pc = "idle" /\ status' \in {status, "paused"}
        \/ proc'[p].pc = "exec" /\ status' = "running"
    BY <1>5 DEF RunGo
  <2>2. Legal
    BY <1>5 DEF RunGo
  <2> QED BY <2>1, <2>2
<1>6. CASE ResumeRead(p)
  BY <1>6 DEF ResumeRead
<1>7. CASE ResumeGo(p)
  BY <1>7 DEF ResumeGo
<1>8. CASE ResumeLoad(p)
  BY <1>8 DEF ResumeLoad
<1>9. CASE StepPick(p)
  <2>1. At(p, "exec") /\ proc'[p].pc \in {"exec", "step_begin"} /\ status' = status
    BY <1>9 DEF StepPick
  <2> QED BY <2>1
<1>10. CASE StepBegin(p)
  BY <1>10 DEF StepBegin
<1>11. CASE ShellStep(p)
  BY <1>11 DEF ShellStep
<1>12. CASE DocsPending(p)
  BY <1>12 DEF DocsPending
<1>13. CASE DocsCopy(p)
  BY <1>13 DEF DocsCopy
<1>14. CASE TmuxKill(p)
  BY <1>14 DEF TmuxKill
<1>15. CASE TmuxNew(p)
  BY <1>15 DEF TmuxNew
<1>16. CASE TmuxWait(p)
  BY <1>16 DEF TmuxWait
<1>17. CASE TmuxMark(p)
  BY <1>17 DEF TmuxMark
<1>18. CASE StepDone(p)
  BY <1>18 DEF StepDone
<1>19. CASE StepFail(p)
  BY <1>19 DEF StepFail
<1>20. CASE ExecFailed(p)
  BY <1>20 DEF ExecFailed
<1>21. CASE ExecFinished(p)
  BY <1>21 DEF ExecFinished
<1>22. CASE ExecStoreFails(p)
  BY <1>22 DEF ExecStoreFails
<1>23. CASE StepStoreFails(p)
  BY <1>23 DEF StepStoreFails
<1> QED BY <1>1, <1>2, <1>3, <1>4, <1>5, <1>6, <1>7, <1>8, <1>9, <1>10, <1>11, <1>12, <1>13, <1>14, <1>15, <1>16, <1>17, <1>18, <1>19, <1>20, <1>21, <1>22, <1>23 DEF PlanStep

LEMMA AgentsStatus ==
  ASSUME TypeOK, NEW p \in Procs, StatusKnown(p), AgentsStep(p)
  PROVE  StatusKnown(p)' /\ Legal
<1> USE DEF TypeOK, Frame, StatusKnown, Legal, CanTransitionRun, At, Goto, Return, Idle, transitionRun, rows, world,
            Attempting, Executing, Restarting, Guiding, ToClose, Closing, Reading
<1>1. CASE StopRead(p)
  BY <1>1 DEF StopRead
<1>2. CASE StopGo(p)
  BY <1>2 DEF StopGo
<1>3. CASE StopLoad(p)
  BY <1>3 DEF StopLoad
<1>4. CASE StopKill(p)
  BY <1>4 DEF StopKill
<1>5. CASE StopMark(p)
  BY <1>5 DEF StopMark
<1>6. CASE StopEnd(p)
  BY <1>6 DEF StopEnd
<1>7. CASE RestartRead(p)
  BY <1>7 DEF RestartRead
<1>8. CASE RestartLoad(p)
  BY <1>8 DEF RestartLoad
<1>9. CASE RestartGo(p)
  <2>1. <<"stopped", "running">> \in runTransitions
    BY DEF runTransitions
  <2>2. At(p, "restart_go") /\ proc'[p].pc = "restart_kill"
    BY <1>9 DEF RestartGo
  <2>3. status' # "stopped" /\ Legal
    BY <1>9, <2>1 DEF RestartGo
  <2> QED BY <2>2, <2>3
<1>10. CASE RestartKill(p)
  BY <1>10 DEF RestartKill
<1>11. CASE RestartNew(p)
  BY <1>11 DEF RestartNew
<1>12. CASE RestartWait(p)
  BY <1>12 DEF RestartWait
<1>13. CASE RestartMark(p)
  BY <1>13 DEF RestartMark
<1>14. CASE IterateRead(p)
  BY <1>14 DEF IterateRead
<1>15. CASE IterateLoad(p)
  BY <1>15 DEF IterateLoad
<1>16. CASE IterateFeedback(p)
  <2>1. proc'[p].pc \in {"iterate_feedback", "idle"} /\ status' = status
    BY <1>16 DEF IterateFeedback
  <2> QED BY <2>1
<1>17. CASE IterateRestart(p)
  BY <1>17 DEF IterateRestart
<1>18. CASE CleanupRead(p)
  BY <1>18 DEF CleanupRead
<1>19. CASE CleanupLoad(p)
  BY <1>19 DEF CleanupLoad
<1>20. CASE CleanupKill(p)
  BY <1>20 DEF CleanupKill
<1>21. CASE CleanupKilled(p)
  BY <1>21 DEF CleanupKilled
<1>22. CASE CleanupMark(p)
  BY <1>22 DEF CleanupMark
<1>23. CASE CleanupMarked(p)
  BY <1>23 DEF CleanupMarked
<1>24. CASE CleanupDelete(p)
  BY <1>24 DEF CleanupDelete
<1>25. CASE CleanupStopping(p)
  <2>1. CASE transitionRun(proc[p].seen, "stopping") /\ Goto(p, "cleanup_stopped")
    BY <1>25, <2>1 DEF CleanupStopping
  <2>2. CASE Return(p) /\ UNCHANGED status
    BY <1>25, <2>2 DEF CleanupStopping
  <2> QED BY <1>25, <2>1, <2>2 DEF CleanupStopping
<1>26. CASE CleanupStopped(p)
  BY <1>26 DEF CleanupStopped
<1> QED BY <1>1, <1>2, <1>3, <1>4, <1>5, <1>6, <1>7, <1>8, <1>9, <1>10, <1>11, <1>12, <1>13, <1>14, <1>15, <1>16, <1>17, <1>18, <1>19, <1>20, <1>21, <1>22, <1>23, <1>24, <1>25, <1>26 DEF AgentsStep

LEMMA SignalsStatus ==
  ASSUME TypeOK, NEW p \in Procs, StatusKnown(p), SignalsStep(p)
  PROVE  StatusKnown(p)' /\ Legal
<1> USE DEF TypeOK, Frame, StatusKnown, Legal, CanTransitionRun, At, Goto, Return, Idle, transitionRun, rows, world,
            Attempting, Executing, Restarting, Guiding, ToClose, Closing, Reading
<1>1. CASE StatusRead(p)
  BY <1>1 DEF StatusRead
<1>2. CASE StatusLoad(p)
  BY <1>2 DEF StatusLoad
<1>3. CASE StatusProbe(p)
  BY <1>3 DEF StatusProbe
<1>4. CASE StatusMark(p)
  BY <1>4 DEF StatusMark
<1>5. CASE StatusReload(p)
  BY <1>5 DEF StatusReload
<1>6. CASE StatusFailRun(p)
  BY <1>6 DEF StatusFailRun
<1>7. CASE StatusSignals(p)
  BY <1>7 DEF StatusSignals
<1>8. CASE StatusAwait(p)
  BY <1>8 DEF StatusAwait
<1>9. CASE StatusResume(p)
  BY <1>9 DEF StatusResume
<1>10. CASE StatusComplete(p)
  BY <1>10 DEF StatusComplete
<1>11. CASE StatusProgress(p)
  BY <1>11 DEF StatusProgress
<1>12. CASE StatusEnd(p)
  BY <1>12 DEF StatusEnd
<1>13. CASE GuideRead(p)
  BY <1>13 DEF GuideRead
<1>14. CASE GuideLoad(p)
  BY <1>14 DEF GuideLoad
<1>15. CASE GuideTarget(p)
  <2>1. \/ \E a \in Agents : proc' = [proc EXCEPT ![p].pc = "guide_answer", ![p].left = {a}]
        \/ proc' = [proc EXCEPT ![p] = Idle]
    BY <1>15 DEF GuideTarget, InSnapshot
  <2>2. proc'[p].pc \in {"guide_answer", "idle"} /\ At(p, "guide_target") /\ status' = status
    BY <1>15, <2>1 DEF GuideTarget
  <2> QED BY <2>2
<1>16. CASE GuideAnswer(p)
  BY <1>16 DEF GuideAnswer
<1>17. CASE GuideGo(p)
  BY <1>17 DEF GuideGo
<1> QED BY <1>1, <1>2, <1>3, <1>4, <1>5, <1>6, <1>7, <1>8, <1>9, <1>10, <1>11, <1>12, <1>13, <1>14, <1>15, <1>16, <1>17 DEF SignalsStep

LEMMA CloseStatus ==
  ASSUME TypeOK, NEW p \in Procs, StatusKnown(p), CloseStep(p)
  PROVE  StatusKnown(p)' /\ Legal
<1> USE DEF TypeOK, Frame, StatusKnown, Legal, CanTransitionRun, At, Goto, Return, Idle, transitionRun, rows, world,
            Attempting, Executing, Restarting, Guiding, ToClose, Closing, Reading
<1>1. CASE CloseRead(p)
  BY <1>1 DEF CloseRead
<1>2. CASE CloseLoad(p)
  BY <1>2 DEF CloseLoad
<1>3. CASE CloseDocs(p)
  BY <1>3 DEF CloseDocs
<1>4. CASE CloseDirty(p)
  BY <1>4 DEF CloseDirty
<1>5. CASE CloseSignals(p)
  BY <1>5 DEF CloseSignals
<1>6. CASE CloseGo(p)
  BY <1>6 DEF CloseGo
<1>7. CASE CloseMerge(p)
  <2>1. At(p, "close_merge") /\ proc'[p].pc \in {"close_merge", "close_fail"} /\ status' = status
    BY <1>7 DEF CloseMerge
  <2> QED BY <2>1
<1>8. CASE CloseTickets(p)
  BY <1>8 DEF CloseTickets
<1>9. CASE CloseEnd(p)
  BY <1>9 DEF CloseEnd
<1>10. CASE CloseFail(p)
  BY <1>10 DEF CloseFail
<1> QED BY <1>1, <1>2, <1>3, <1>4, <1>5, <1>6, <1>7, <1>8, <1>9, <1>10 DEF CloseStep

LEMMA PlanWithin ==
  ASSUME TypeOK, NEW p \in Procs, PlanStep(p)
  PROVE  Within(p, PlanLabels, PlanStatuses)
<1> USE DEF TypeOK, Frame, Within, PlanLabels, PlanStatuses, At, Goto, Return, Idle, transitionRun, rows, world
<1>1. CASE RunCreate(p)
  BY <1>1 DEF RunCreate
<1>2. CASE RunPlanning(p)
  BY <1>2 DEF RunPlanning
<1>3. CASE RunSaveSteps(p)
  BY <1>3 DEF RunSaveSteps
<1>4. CASE RunSeedAgent(p)
  BY <1>4 DEF RunSeedAgent
<1>5. CASE RunGo(p)
  BY <1>5 DEF RunGo
<1>6. CASE ResumeRead(p)
  BY <1>6 DEF ResumeRead
<1>7. CASE ResumeGo(p)
  BY <1>7 DEF ResumeGo
<1>8. CASE ResumeLoad(p)
  BY <1>8 DEF ResumeLoad
<1>9. CASE StepPick(p)
  BY <1>9 DEF StepPick
<1>10. CASE StepBegin(p)
  BY <1>10 DEF StepBegin
<1>11. CASE ShellStep(p)
  BY <1>11 DEF ShellStep
<1>12. CASE DocsPending(p)
  BY <1>12 DEF DocsPending
<1>13. CASE DocsCopy(p)
  BY <1>13 DEF DocsCopy
<1>14. CASE TmuxKill(p)
  BY <1>14 DEF TmuxKill
<1>15. CASE TmuxNew(p)
  BY <1>15 DEF TmuxNew
<1>16. CASE TmuxWait(p)
  BY <1>16 DEF TmuxWait
<1>17. CASE TmuxMark(p)
  BY <1>17 DEF TmuxMark
<1>18. CASE StepDone(p)
  BY <1>18 DEF StepDone
<1>19. CASE StepFail(p)
  BY <1>19 DEF StepFail
<1>20. CASE ExecFailed(p)
  BY <1>20 DEF ExecFailed
<1>21. CASE ExecFinished(p)
  BY <1>21 DEF ExecFinished
<1>22. CASE ExecStoreFails(p)
  BY <1>22 DEF ExecStoreFails
<1>23. CASE StepStoreFails(p)
  BY <1>23 DEF StepStoreFails
<1> QED BY <1>1, <1>2, <1>3, <1>4, <1>5, <1>6, <1>7, <1>8, <1>9, <1>10, <1>11, <1>12, <1>13, <1>14, <1>15, <1>16, <1>17, <1>18, <1>19, <1>20, <1>21, <1>22, <1>23 DEF PlanStep

LEMMA AgentsWithin ==
  ASSUME TypeOK, NEW p \in Procs, AgentsStep(p)
  PROVE  Within(p, AgentsLabels, AgentsStatuses)
<1> USE DEF TypeOK, Frame, Within, AgentsLabels, AgentsStatuses, At, Goto, Return, Idle, transitionRun, rows, world
<1>1. CASE StopRead(p)
  BY <1>1 DEF StopRead
<1>2. CASE StopGo(p)
  BY <1>2 DEF StopGo
<1>3. CASE StopLoad(p)
  BY <1>3 DEF StopLoad
<1>4. CASE StopKill(p)
  BY <1>4 DEF StopKill
<1>5. CASE StopMark(p)
  BY <1>5 DEF StopMark
<1>6. CASE StopEnd(p)
  BY <1>6 DEF StopEnd
<1>7. CASE RestartRead(p)
  BY <1>7 DEF RestartRead
<1>8. CASE RestartLoad(p)
  BY <1>8 DEF RestartLoad
<1>9. CASE RestartGo(p)
  BY <1>9 DEF RestartGo
<1>10. CASE RestartKill(p)
  BY <1>10 DEF RestartKill
<1>11. CASE RestartNew(p)
  BY <1>11 DEF RestartNew
<1>12. CASE RestartWait(p)
  BY <1>12 DEF RestartWait
<1>13. CASE RestartMark(p)
  BY <1>13 DEF RestartMark
<1>14. CASE IterateRead(p)
  BY <1>14 DEF IterateRead
<1>15. CASE IterateLoad(p)
  BY <1>15 DEF IterateLoad
<1>16. CASE IterateFeedback(p)
  BY <1>16 DEF IterateFeedback
<1>17. CASE IterateRestart(p)
  BY <1>17 DEF IterateRestart
<1>18. CASE CleanupRead(p)
  BY <1>18 DEF CleanupRead
<1>19. CASE CleanupLoad(p)
  BY <1>19 DEF CleanupLoad
<1>20. CASE CleanupKill(p)
  BY <1>20 DEF CleanupKill
<1>21. CASE CleanupKilled(p)
  BY <1>21 DEF CleanupKilled
<1>22. CASE CleanupMark(p)
  BY <1>22 DEF CleanupMark
<1>23. CASE CleanupMarked(p)
  BY <1>23 DEF CleanupMarked
<1>24. CASE CleanupDelete(p)
  BY <1>24 DEF CleanupDelete
<1>25. CASE CleanupStopping(p)
  BY <1>25 DEF CleanupStopping
<1>26. CASE CleanupStopped(p)
  BY <1>26 DEF CleanupStopped
<1> QED BY <1>1, <1>2, <1>3, <1>4, <1>5, <1>6, <1>7, <1>8, <1>9, <1>10, <1>11, <1>12, <1>13, <1>14, <1>15, <1>16, <1>17, <1>18, <1>19, <1>20, <1>21, <1>22, <1>23, <1>24, <1>25, <1>26 DEF AgentsStep

LEMMA SignalsWithin ==
  ASSUME TypeOK, NEW p \in Procs, SignalsStep(p)
  PROVE  Within(p, SignalsLabels, SignalsStatuses)
<1> USE DEF TypeOK, Frame, Within, SignalsLabels, SignalsStatuses, At, Goto, Return, Idle, transitionRun, rows, world
<1>1. CASE StatusRead(p)
  BY <1>1 DEF StatusRead
<1>2. CASE StatusLoad(p)
  BY <1>2 DEF StatusLoad
<1>3. CASE StatusProbe(p)
  BY <1>3 DEF StatusProbe
<1>4. CASE StatusMark(p)
  BY <1>4 DEF StatusMark
<1>5. CASE StatusReload(p)
  BY <1>5 DEF StatusReload
<1>6. CASE StatusFailRun(p)
  BY <1>6 DEF StatusFailRun
<1>7. CASE StatusSignals(p)
  BY <1>7 DEF StatusSignals
<1>8. CASE StatusAwait(p)
  BY <1>8 DEF StatusAwait
<1>9. CASE StatusResume(p)
  BY <1>9 DEF StatusResume
<1>10. CASE StatusComplete(p)
  BY <1>10 DEF StatusComplete
<1>11. CASE StatusProgress(p)
  BY <1>11 DEF StatusProgress
<1>12. CASE StatusEnd(p)
  BY <1>12 DEF StatusEnd
<1>13. CASE GuideRead(p)
  BY <1>13 DEF GuideRead
<1>14. CASE GuideLoad(p)
  BY <1>14 DEF GuideLoad
<1>15. CASE GuideTarget(p)
  <2>1. \/ \E a \in Agents : proc' = [proc EXCEPT ![p].pc = "guide_answer", ![p].left = {a}]
        \/ proc' = [proc EXCEPT ![p] = Idle]
    BY <1>15 DEF GuideTarget, InSnapshot
  <2>2. proc'[p].pc \in {"guide_answer", "idle"} /\ At(p, "guide_target") /\ status' = status
    BY <1>15, <2>1 DEF GuideTarget
  <2> QED BY <2>2
<1>16. CASE GuideAnswer(p)
  BY <1>16 DEF GuideAnswer
<1>17. CASE GuideGo(p)
  BY <1>17 DEF GuideGo
<1> QED BY <1>1, <1>2, <1>3, <1>4, <1>5, <1>6, <1>7, <1>8, <1>9, <1>10, <1>11, <1>12, <1>13, <1>14, <1>15, <1>16, <1>17 DEF SignalsStep

LEMMA CloseWithin ==
  ASSUME TypeOK, NEW p \in Procs, CloseStep(p)
  PROVE  Within(p, CloseLabels, CloseStatuses)
<1> USE DEF TypeOK, Frame, Within, CloseLabels, CloseStatuses, At, Goto, Return, Idle, transitionRun, rows, world
<1>1. CASE CloseRead(p)
  BY <1>1 DEF CloseRead
<1>2. CASE CloseLoad(p)
  BY <1>2 DEF CloseLoad
<1>3. CASE CloseDocs(p)
  BY <1>3 DEF CloseDocs
<1>4. CASE CloseDirty(p)
  BY <1>4 DEF CloseDirty
<1>5. CASE CloseSignals(p)
  BY <1>5 DEF CloseSignals
<1>6. CASE CloseGo(p)
  BY <1>6 DEF CloseGo
<1>7. CASE CloseMerge(p)
  BY <1>7 DEF CloseMerge
<1>8. CASE CloseTickets(p)
  BY <1>8 DEF CloseTickets
<1>9. CASE CloseEnd(p)
  BY <1>9 DEF CloseEnd
<1>10. CASE CloseFail(p)
  BY <1>10 DEF CloseFail
<1> QED BY <1>1, <1>2, <1>3, <1>4, <1>5, <1>6, <1>7, <1>8, <1>9, <1>10 DEF CloseStep

-----------------------------------------------------------------------------
(* Steps of the plan *)

LEMMA FirstIsOne ==
  ASSUME NEW S \in SUBSET Steps, NEW s, NEW t, IsFirst(s, S), IsFirst(t, S)
  PROVE  s = t
<1>1. s \in Steps /\ t \in Steps /\ s = <<s[1], s[2]>> /\ t = <<t[1], t[2]>>
  BY DEF IsFirst, Steps
<1>2. s[1] \in Int /\ s[2] \in Int /\ t[1] \in Int /\ t[2] \in Int
  BY <1>1, StateAssumption DEF Steps, Tickets, StateAssumption
<1>3. s[1] = t[1] /\ s[2] = t[2]
  BY <1>2 DEF IsFirst
<1> QED BY <1>1, <1>3

\* Steps move along their state machine.
Forward == \A s \in Steps : step[s] # "absent" => CanTransitionStep(step[s], step'[s])

LEMMA StepMoves ==
  /\ CanTransitionStep("pending", "running") /\ CanTransitionStep("failed", "running")
  /\ CanTransitionStep("running", "running") /\ CanTransitionStep("running", "done")
  /\ CanTransitionStep("running", "failed")
BY DEF CanTransitionStep, stepTransitions

\* A step that leaves the plan alone, and does not begin anything.
LEMMA StepsSame ==
  ASSUME NEW p \in Procs, StepsKnown(p), NoneSkipped, step' = step, status' = "none" => status = "none",
         \/ proc'[p].pc \notin {"run_plan", "run_save", "step_begin"} \union Attempting
         \/ /\ proc'[p].pc \in Attempting /\ proc[p].pc \in Attempting
            /\ proc'[p].todo = proc[p].todo
  PROVE  StepsKnown(p)' /\ Forward /\ NoneSkipped'
BY DEF StepsKnown, Forward, NoneSkipped, CanTransitionStep, At, Attempting

LEMMA PlanSteps ==
  ASSUME TypeOK, NEW p \in Procs, StatusKnown(p), StepsKnown(p), NoneSkipped, PlanStep(p)
  PROVE  StepsKnown(p)' /\ Forward /\ NoneSkipped'
<1> USE DEF TypeOK, Frame, At, Goto, Return, Idle, rows, world, transitionRun, Attempting
<1>1. CASE RunCreate(p)
  BY <1>1 DEF RunCreate, StepsKnown, Forward, NoneSkipped, CanTransitionStep
<1>2. CASE RunPlanning(p)
  BY <1>2 DEF RunPlanning, StepsKnown, Forward, NoneSkipped, CanTransitionStep
<1>3. CASE RunSaveSteps(p)
  <2>1. PICK s \in proc[p].todo :
          /\ step' = [step EXCEPT ![s] = "pending"]
          /\ \/ proc' = [proc EXCEPT ![p].todo = proc[p].todo \ {s}]
             \/ proc' = [proc EXCEPT ![p].pc = "run_seed", ![p].todo = {}, ![p].left = Agents]
    BY <1>3 DEF RunSaveSteps
  <2>2. s \in Steps /\ step[s] = "absent" /\ step'[s] = "pending"
        /\ \A t \in Steps : t # s => step'[t] = step[t]
    BY <1>3, <2>1 DEF RunSaveSteps, StepsKnown
  <2>3. \/ proc'[p].pc = "run_save" /\ proc'[p].todo = proc[p].todo \ {s}
        \/ proc'[p].pc = "run_seed"
    BY <1>3, <2>1 DEF RunSaveSteps
  <2>4. proc[p].pc = "run_save" /\ status = "planning" /\ UNCHANGED status
    BY <1>3 DEF RunSaveSteps, StatusKnown
  <2>5. Forward /\ NoneSkipped'
    BY <2>2 DEF Forward, NoneSkipped, CanTransitionStep
  <2> QED BY <2>2, <2>3, <2>4, <2>5 DEF StepsKnown
<1>4. CASE RunSeedAgent(p)
  BY <1>4, StepsSame DEF RunSeedAgent
<1>5. CASE RunGo(p)
  <2>1. proc'[p].pc \in {"idle", "exec"} /\ step' = step /\ status' \in {"paused", "running"}
    BY <1>5 DEF RunGo
  <2> QED BY <2>1, StepsSame
<1>6. CASE ResumeRead(p)
  BY <1>6, StepsSame DEF ResumeRead
<1>7. CASE ResumeGo(p)
  BY <1>7, StepsSame DEF ResumeGo
<1>8. CASE ResumeLoad(p)
  <2>1. proc'[p].pc = "exec" /\ step' = step /\ status' = status
    BY <1>8 DEF ResumeLoad
  <2> QED BY <2>1, StepsSame
<1>9. CASE StepPick(p)
  <2>1. PICK s \in proc[p].todo :
          /\ IsFirst(s, proc[p].todo)
          /\ \/ proc' = [proc EXCEPT ![p].todo = proc[p].todo \ {s}]
             \/ /\ step[s] \notin {"done", "skipped"}
                /\ proc' = [proc EXCEPT ![p].pc = "step_begin", ![p].attempt = 1]
    BY <1>9 DEF StepPick
  <2>2. CASE proc' = [proc EXCEPT ![p].todo = proc[p].todo \ {s}]
    BY <1>9, <2>2, StepsSame DEF StepPick
  <2>3. CASE step[s] \notin {"done", "skipped"} /\ proc'[p].pc = "step_begin" /\ proc'[p].todo = proc[p].todo
    <3>1. \A t \in Steps : IsFirst(t, proc[p].todo) => t = s
      BY <2>1, FirstIsOne
    <3> QED BY <1>9, <2>3, <3>1 DEF StepPick, StepsKnown, Forward, NoneSkipped, CanTransitionStep
  <2> QED BY <2>1, <2>2, <2>3
<1>10. CASE StepBegin(p)
  <2>1. PICK s \in proc[p].todo : IsFirst(s, proc[p].todo) /\ UpdateStepStatus(s, "running")
    BY <1>10 DEF StepBegin
  <2>2. \A t \in Steps : IsFirst(t, proc[p].todo) => t = s
    BY <2>1, FirstIsOne
  <2>3. s \in Steps /\ step[s] # "done" /\ step[s] # "skipped"
    BY <1>10, <2>1 DEF StepBegin, StepsKnown, NoneSkipped
  <2>4. step'[s] \in {"running", "absent"} /\ (step[s] # "absent" => step'[s] = "running")
        /\ \A t \in Steps : t # s => step'[t] = step[t]
    BY <2>1, <2>3 DEF UpdateStepStatus
  <2>5. Forward
    BY <2>3, <2>4, StepMoves DEF Forward, StepStatus, CanTransitionStep
  <2>6. status = "running" /\ UNCHANGED status
    BY <1>10 DEF StepBegin, StatusKnown, Executing
  <2>7. proc'[p].pc = "step_work" /\ proc'[p].todo = proc[p].todo
    BY <1>10 DEF StepBegin
  <2> QED BY <2>2, <2>4, <2>5, <2>6, <2>7 DEF StepsKnown, NoneSkipped
<1>11. CASE ShellStep(p)
  BY <1>11, StepsSame DEF ShellStep
<1>12. CASE DocsPending(p)
  BY <1>12, StepsSame DEF DocsPending
<1>13. CASE DocsCopy(p)
  BY <1>13, StepsSame DEF DocsCopy
<1>14. CASE TmuxKill(p)
  BY <1>14, StepsSame DEF TmuxKill
<1>15. CASE TmuxNew(p)
  BY <1>15, StepsSame DEF TmuxNew
<1>16. CASE TmuxWait(p)
  BY <1>16, StepsSame DEF TmuxWait
<1>17. CASE TmuxMark(p)
  BY <1>17, StepsSame DEF TmuxMark
<1>18. CASE StepDone(p)
  <2>1. PICK s \in proc[p].todo : IsFirst(s, proc[p].todo) /\ UpdateStepStatus(s, "done")
    BY <1>18 DEF StepDone
  <2>2. s \in Steps /\ step[s] \in {"running", "absent"}
    BY <1>18, <2>1 DEF StepDone, StepsKnown
  <2>3. step'[s] \in {"done", "absent"} /\ (step[s] # "absent" => step'[s] = "done")
        /\ \A t \in Steps : t # s => step'[t] = step[t]
    BY <2>1, <2>2 DEF UpdateStepStatus
  <2>4. Forward
    BY <2>2, <2>3, StepMoves DEF Forward, CanTransitionStep
  <2>5. status = "running" /\ UNCHANGED status
    BY <1>18 DEF StepDone, StatusKnown, Executing
  <2>6. proc'[p].pc = "exec"
    BY <1>18 DEF StepDone
  <2> QED BY <2>3, <2>4, <2>5, <2>6 DEF StepsKnown, NoneSkipped
<1>19. CASE StepFail(p)
  <2>1. PICK s \in proc[p].todo : IsFirst(s, proc[p].todo) /\ (UpdateStepStatus(s, "failed") \/ step' = step)
    BY <1>19 DEF StepFail
  <2>2. \A t \in Steps : IsFirst(t, proc[p].todo) => t = s
    BY <2>1, FirstIsOne
  <2>3. s \in Steps /\ step[s] \in {"running", "absent"}
    BY <1>19, <2>1 DEF StepFail, StepsKnown
  <2>4. step'[s] \in {"failed", "running", "absent"}
        /\ (step[s] # "absent" => step'[s] \in {"failed", "running"})
        /\ \A t \in Steps : t # s => step'[t] = step[t]
    BY <2>1, <2>3 DEF UpdateStepStatus
  <2>5. Forward
    BY <2>3, <2>4, StepMoves DEF Forward, CanTransitionStep
  <2>6. status = "running" /\ UNCHANGED status
    BY <1>19 DEF StepFail, StatusKnown, Executing
  <2>7. proc'[p].pc \in {"step_begin", "exec_fail"} /\ proc'[p].todo = proc[p].todo
    BY <1>19 DEF StepFail
  <2> QED BY <2>2, <2>4, <2>5, <2>6, <2>7 DEF StepsKnown, NoneSkipped
<1>20. CASE ExecFailed(p)
  BY <1>20, StepsSame DEF ExecFailed
<1>21. CASE ExecFinished(p)
  BY <1>21, StepsSame DEF ExecFinished
<1>22. CASE ExecStoreFails(p)
  BY <1>22, StepsSame DEF ExecStoreFails
<1>23. CASE StepStoreFails(p)
  BY <1>23, StepsSame DEF StepStoreFails
<1> QED BY <1>1, <1>2, <1>3, <1>4, <1>5, <1>6, <1>7, <1>8, <1>9, <1>10, <1>11, <1>12, <1>13, <1>14, <1>15, <1>16, <1>17,
   <1>18, <1>19, <1>20, <1>21, <1>22, <1>23 DEF PlanStep

-----------------------------------------------------------------------------
(* The plan is executed *)

LEMMA Onward ==
  ASSUME Forward, NEW s \in Steps
  PROVE  /\ step[s] # "absent" => step'[s] # "absent"
         /\ step[s] = "done" => step'[s] = "done"
BY DEF Forward, CanTransitionStep, stepTransitions

\* A step that takes nothing off the list.
LEMMA PlanSame ==
  ASSUME NEW p \in Procs, PlanKnown(p), Forward, status = "none" => status' = "none",
         proc[p].pc \notin {"run_plan", "run_save"},
         proc'[p].pc \notin Doing \/ (proc[p].pc \in Doing /\ proc'[p].todo = proc[p].todo)
  PROVE  PlanKnown(p)'
BY Onward DEF PlanKnown, Written, At

LEMMA ExecutedSame ==
  ASSUME Executed, Forward, status' \in Late => status \in Late \/ Bootstrap
  PROVE  Executed'
BY Onward DEF Executed, CompletedMeansExecuted, Late

LEMMA PlanExecutes ==
  ASSUME TypeOK, NEW p \in Procs, StatusKnown(p), StepsKnown(p), NoneSkipped, PlanKnown(p), Executed,
         PlanStep(p), Forward
  PROVE  PlanKnown(p)' /\ Executed'
<1> USE DEF TypeOK, Frame, At, Goto, Return, Idle, rows, world, transitionRun, Attempting, Doing, Late
<1>1. CASE RunCreate(p)
  <2>1. \/ proc'[p].pc = "run_plan" /\ status' = "created"
        \/ proc'[p].pc = "idle" /\ status' = status /\ status # "none"
    BY <1>1 DEF RunCreate
  <2>2. proc[p].pc = "begin"
    BY <1>1 DEF RunCreate
  <2> QED BY <2>1, <2>2, Onward, ExecutedSame DEF PlanKnown, Written
<1>2. CASE RunPlanning(p)
  <2>1. proc'[p].pc = "run_save" /\ status' = "planning" /\ proc'[p].todo = Steps
    BY <1>2 DEF RunPlanning
  <2> QED BY <2>1, ExecutedSame DEF PlanKnown, Written
<1>3. CASE RunSaveSteps(p)
  <2>1. PICK s \in proc[p].todo :
          /\ step' = [step EXCEPT ![s] = "pending"]
          /\ \/ proc' = [proc EXCEPT ![p].todo = proc[p].todo \ {s}]
             \/ /\ proc[p].todo = {s}
                /\ proc' = [proc EXCEPT ![p].pc = "run_seed", ![p].todo = {}, ![p].left = Agents]
    BY <1>3 DEF RunSaveSteps
  <2>2. \/ proc'[p].pc = "run_save" /\ proc'[p].todo = proc[p].todo \ {s}
        \/ proc'[p].pc = "run_seed" /\ proc[p].todo = {s}
    BY <1>3, <2>1 DEF RunSaveSteps
  <2>3. s \in Steps /\ step'[s] = "pending" /\ \A t \in Steps : t # s => step'[t] = step[t]
    BY <2>1
  <2>4. proc[p].pc = "run_save" /\ status' = status /\ status = "planning"
    BY <1>3 DEF RunSaveSteps, StatusKnown
  <2>5. Executed'
    BY <2>4, ExecutedSame
  <2> QED BY <2>2, <2>3, <2>4, <2>5 DEF PlanKnown, Written
<1>4. CASE RunSeedAgent(p)
  BY <1>4, PlanSame, ExecutedSame DEF RunSeedAgent
<1>5. CASE RunGo(p)
  <2>1. \/ proc'[p].pc = "idle" /\ status' = "paused"
        \/ proc'[p].pc = "exec" /\ status' = "running" /\ proc'[p].todo = Steps
    BY <1>5 DEF RunGo
  <2>2. proc[p].pc = "run_seed" /\ status = "planning"
    BY <1>5 DEF RunGo, StatusKnown
  <2> QED BY <2>1, <2>2, Onward, ExecutedSame DEF PlanKnown, Written
<1>6. CASE ResumeRead(p)
  <2>1. proc'[p].pc \in {"resume_go", "idle"} /\ proc[p].pc = "begin" /\ status' = status
    BY <1>6 DEF ResumeRead
  <2> QED BY <2>1, PlanSame, ExecutedSame
<1>7. CASE ResumeGo(p)
  BY <1>7, PlanSame, ExecutedSame DEF ResumeGo, StatusKnown, Reading
<1>8. CASE ResumeLoad(p)
  <2>1. /\ proc'[p].pc = "exec" /\ status' = status
        /\ proc'[p].todo = {s \in Steps : step[s] \notin {"absent", "done"}}
    BY <1>8 DEF ResumeLoad
  <2>2. proc[p].pc = "resume_load" /\ status = "running"
    BY <1>8 DEF ResumeLoad, StatusKnown, Executing
  <2> QED BY <2>1, <2>2, Onward, ExecutedSame DEF PlanKnown, Written
<1>9. CASE StepPick(p)
  <2>1. PICK s \in proc[p].todo :
          \/ /\ step[s] \in {"done", "skipped"}
             /\ proc' = [proc EXCEPT ![p].todo = proc[p].todo \ {s}]
          \/ proc' = [proc EXCEPT ![p].pc = "step_begin", ![p].attempt = 1]
    BY <1>9 DEF StepPick
  <2>2. /\ proc'[p].pc \in Doing /\ status' = status /\ step' = step
        /\ \A t \in proc[p].todo : t \in proc'[p].todo \/ step[t] \in {"done", "skipped"}
    BY <1>9, <2>1 DEF StepPick
  <2>3. proc[p].pc = "exec"
    BY <1>9 DEF StepPick
  <2> QED BY <2>2, <2>3, ExecutedSame DEF PlanKnown, Written, NoneSkipped
<1>10. CASE StepBegin(p)
  <2>1. proc[p].pc = "step_begin" /\ proc'[p].pc \in {"step_work"} /\ proc'[p].todo = proc[p].todo /\ status' = status
    BY <1>10 DEF StepBegin
  <2> QED BY <2>1, PlanSame, ExecutedSame
<1>11. CASE ShellStep(p)
  <2>1. proc[p].pc = "step_work" /\ proc'[p].pc \in {"step_done", "step_fail"} /\ proc'[p].todo = proc[p].todo /\ status' = status
    BY <1>11 DEF ShellStep
  <2> QED BY <2>1, PlanSame, ExecutedSame
<1>12. CASE DocsPending(p)
  <2>1. proc[p].pc = "step_work" /\ proc'[p].pc \in {"docs_copy", "step_fail"} /\ proc'[p].todo = proc[p].todo /\ status' = status
    BY <1>12 DEF DocsPending
  <2> QED BY <2>1, PlanSame, ExecutedSame
<1>13. CASE DocsCopy(p)
  <2>1. proc[p].pc = "docs_copy" /\ proc'[p].pc \in {"step_done", "step_fail"} /\ proc'[p].todo = proc[p].todo /\ status' = status
    BY <1>13 DEF DocsCopy
  <2> QED BY <2>1, PlanSame, ExecutedSame
<1>14. CASE TmuxKill(p)
  <2>1. proc[p].pc = "step_work" /\ proc'[p].pc \in {"tmux_new", "step_fail"} /\ proc'[p].todo = proc[p].todo /\ status' = status
    BY <1>14 DEF TmuxKill
  <2> QED BY <2>1, PlanSame, ExecutedSame
<1>15. CASE TmuxNew(p)
  <2>1. proc[p].pc = "tmux_new" /\ proc'[p].pc \in {"tmux_wait", "step_fail"} /\ proc'[p].todo = proc[p].todo /\ status' = status
    BY <1>15 DEF TmuxNew
  <2> QED BY <2>1, PlanSame, ExecutedSame
<1>16. CASE TmuxWait(p)
  <2>1. proc[p].pc = "tmux_wait" /\ proc'[p].pc \in {"tmux_mark", "step_fail"} /\ proc'[p].todo = proc[p].todo /\ status' = status
    BY <1>16 DEF TmuxWait
  <2> QED BY <2>1, PlanSame, ExecutedSame
<1>17. CASE TmuxMark(p)
  <2>1. proc[p].pc = "tmux_mark" /\ proc'[p].pc \in {"step_done"} /\ proc'[p].todo = proc[p].todo /\ status' = status
    BY <1>17 DEF TmuxMark
  <2> QED BY <2>1, PlanSame, ExecutedSame
<1>18. CASE StepDone(p)
  <2>1. PICK s \in proc[p].todo :
          /\ UpdateStepStatus(s, "done")
          /\ proc' = [proc EXCEPT ![p].pc = "exec", ![p].attempt = 0, ![p].todo = proc[p].todo \ {s}]
    BY <1>18 DEF StepDone
  <2>2. proc'[p].pc = "exec" /\ proc'[p].todo = proc[p].todo \ {s} /\ s \in Steps
    BY <2>1
  <2>3. proc[p].pc = "step_done" /\ status = "running" /\ UNCHANGED status
    BY <1>18 DEF StepDone, StatusKnown, Executing
  <2>4. step[s] # "absent" => step'[s] = "done"
    BY <2>1, <2>2 DEF UpdateStepStatus
  <2> QED BY <2>2, <2>3, <2>4, Onward, ExecutedSame DEF PlanKnown, Written
<1>19. CASE StepFail(p)
  <2>1. proc'[p].pc \in {"step_begin", "exec_fail"} /\ proc'[p].todo = proc[p].todo
    BY <1>19 DEF StepFail
  <2> QED BY <1>19, <2>1, PlanSame, ExecutedSame DEF StepFail
<1>20. CASE ExecFailed(p)
  <2>1. proc'[p].pc = "idle" /\ proc[p].pc = "exec_fail" /\ status' \in {status, "failed"} /\ status = "running"
    BY <1>20 DEF ExecFailed, StatusKnown, Executing
  <2> QED BY <2>1, PlanSame, ExecutedSame
<1>21. CASE ExecFinished(p)
  <2>1. proc'[p].pc = "idle" /\ proc[p].pc = "exec" /\ proc[p].todo = {} /\ step' = step
    BY <1>21 DEF ExecFinished
  <2>2. status = "running"
    BY <2>1 DEF StatusKnown, Executing
  <2>3. Executed'
    BY <2>1 DEF PlanKnown, Executed, CompletedMeansExecuted
  <2> QED BY <2>1, <2>2, <2>3, PlanSame
<1>22. CASE ExecStoreFails(p)
  BY <1>22, PlanSame, ExecutedSame DEF ExecStoreFails
<1>23. CASE StepStoreFails(p)
  <2>1. proc'[p].pc = "step_fail" /\ proc'[p].todo = proc[p].todo /\ status' = status
    BY <1>23 DEF StepStoreFails
  <2>2. proc[p].pc \in {"tmux_mark", "docs_copy"}
    BY <1>23 DEF StepStoreFails
  <2> QED BY <2>1, <2>2, PlanSame, ExecutedSame
<1> QED BY <1>1, <1>2, <1>3, <1>4, <1>5, <1>6, <1>7, <1>8, <1>9, <1>10, <1>11, <1>12, <1>13, <1>14, <1>15, <1>16, <1>17,
   <1>18, <1>19, <1>20, <1>21, <1>22, <1>23 DEF PlanStep

-----------------------------------------------------------------------------
(* The agents of a run *)

LEMMA FirstAgent ==
  ASSUME NEW S \in SUBSET Agents, NEW s, NEW t, IsFirst(s, S), IsFirst(t, S)
  PROVE  s = t
<1>1. s \in Agents /\ t \in Agents /\ s = <<s[1], s[2]>> /\ t = <<t[1], t[2]>>
  BY DEF IsFirst, Agents
<1>2. s[1] \in Int /\ s[2] \in Int /\ t[1] \in Int /\ t[2] \in Int
  BY <1>1, StateAssumption DEF Agents, Tickets, Names, StateAssumption
<1>3. s[1] = t[1] /\ s[2] = t[2]
  BY <1>2 DEF IsFirst
<1> QED BY <1>1, <1>3

\* No statement but seedAgents' registers an agent, and none removes one.
LEMMA UpdateRegisters ==
  ASSUME TypeOK, NEW a \in Agents, NEW st, st # "absent", UpdateAgentStatus(a, st) \/ agent' = agent
  PROVE  Registered' = Registered
BY DEF TypeOK, UpdateAgentStatus, Registered

LEMMA PlanRegisters ==
  ASSUME TypeOK, NEW p \in Procs, StatusKnown(p), PlanStep(p)
  PROVE  Registered' = Registered \/ status = "planning"
<1>1. CASE At(p, "run_seed")
  BY <1>1 DEF StatusKnown, At
<1>2. CASE At(p, "tmux_mark")
  <2>1. TmuxMark(p) \/ StepStoreFails(p)
    BY <1>2 DEF PlanStep, At, RunCreate, RunPlanning, RunSaveSteps, RunSeedAgent, RunGo, ResumeRead, ResumeGo,
       ResumeLoad, StepPick, StepBegin, ShellStep, DocsPending, DocsCopy, TmuxKill, TmuxNew, TmuxWait, StepDone,
       StepFail, ExecStoreFails, ExecFailed, ExecFinished
  <2>2. agent' = agent \/ \E a \in Agents : UpdateAgentStatus(a, "running")
    <3> SUFFICES ASSUME TmuxMark(p) PROVE agent' = agent \/ \E a \in Agents : UpdateAgentStatus(a, "running")
      BY <2>1 DEF StepStoreFails
    <3>1. PICK s \in proc[p].todo : UpdateAgentStatus(AgentOf(s), "running")
      BY <2>1 DEF TmuxMark
    <3>2. CASE AgentOf(s) \in Agents
      BY <3>1, <3>2
    <3>3. CASE AgentOf(s) \notin Agents
      BY <3>1, <3>3 DEF UpdateAgentStatus, TypeOK
    <3> QED BY <3>2, <3>3
  <2> QED BY <2>2, UpdateRegisters DEF Registered
<1>3. CASE ~At(p, "run_seed") /\ ~At(p, "tmux_mark")
  <2>1. agent' = agent
    BY <1>3, PlanMoves, PlanWithin DEF Moves, Within, PlanLabels, At
  <2> QED BY <2>1 DEF Registered
<1> QED BY <1>1, <1>2, <1>3

LEMMA AgentsRegister ==
  ASSUME TypeOK, NEW p \in Procs, AgentsStep(p)
  PROVE  Registered' = Registered
<1> USE DEF At
<1>1. CASE At(p, "stop_mark") \/ At(p, "restart_mark") \/ At(p, "cleanup_mark")
  <2>1. StopMark(p) \/ RestartMark(p) \/ CleanupMark(p) \/ CleanupMarked(p)
    BY <1>1 DEF AgentsStep, StopRead, StopGo, StopLoad, StopKill, StopEnd, RestartRead, RestartLoad, RestartGo,
       RestartKill, RestartNew, RestartWait, IterateRead, IterateLoad, IterateFeedback, IterateRestart, CleanupRead,
       CleanupLoad, CleanupKill, CleanupKilled, CleanupDelete, CleanupStopping, CleanupStopped
  <2>2. agent' = agent \/ \E a \in Agents, st \in {"stopped", "running"} : UpdateAgentStatus(a, st)
    BY <2>1 DEF StopMark, RestartMark, CleanupMark, CleanupMarked, rows, TypeOK, Frame
  <2> QED BY <2>2, UpdateRegisters DEF Registered
<1>2. CASE ~(At(p, "stop_mark") \/ At(p, "restart_mark") \/ At(p, "cleanup_mark"))
  <2>1. agent' = agent
    BY <1>2, AgentsMoves, AgentsWithin DEF Moves, Within, AgentsLabels
  <2> QED BY <2>1 DEF Registered
<1> QED BY <1>1, <1>2

LEMMA SignalsRegister ==
  ASSUME TypeOK, NEW p \in Procs, VerdictKnown(p), LeftKnown(p), SignalsStep(p)
  PROVE  Registered' = Registered
<1> USE DEF At
<1>1. CASE At(p, "status_mark") \/ At(p, "status_progress")
  <2>1. StatusMark(p) \/ StatusProgress(p) \/ StatusEnd(p)
    BY <1>1 DEF SignalsStep, StatusRead, StatusLoad, StatusProbe, StatusReload, StatusFailRun, StatusSignals, StatusAwait,
       StatusResume, StatusComplete, GuideRead, GuideLoad, GuideTarget, GuideAnswer, GuideGo
  <2>2. agent' = agent \/ \E a \in Agents : \E st : st # "absent" /\ UpdateAgentStatus(a, st)
    <3>1. CASE StatusMark(p)
      BY <3>1 DEF StatusMark, VerdictKnown, TypeOK, Frame
    <3>2. CASE StatusProgress(p)
      <4>1. PICK a \in proc[p].left : UpdateAgentStatus(a, proc[p].snap[a]) \/ agent' = agent
        BY <3>2 DEF StatusProgress
      <4>2. a \in InSnapshot(p)
        BY <3>2 DEF StatusProgress, LeftKnown, Following
      <4> QED BY <4>1, <4>2 DEF InSnapshot
    <3>3. CASE StatusEnd(p)
      BY <3>3 DEF StatusEnd, rows
    <3> QED BY <2>1, <3>1, <3>2, <3>3
  <2> QED BY <2>2, UpdateRegisters DEF Registered
<1>2. CASE ~(At(p, "status_mark") \/ At(p, "status_progress"))
  <2>1. agent' = agent
    BY <1>2, SignalsMoves, SignalsWithin DEF Moves, Within, SignalsLabels
  <2> QED BY <2>1 DEF Registered
<1> QED BY <1>1, <1>2

LEMMA CloseRegisters ==
  ASSUME TypeOK, NEW p \in Procs, CloseStep(p)
  PROVE  Registered' = Registered
<1>1. agent' = agent
  BY CloseMoves, CloseWithin DEF Moves, Within, CloseLabels
<1> QED BY <1>1 DEF Registered

-----------------------------------------------------------------------------
(* Sessions *)

Killing == {"stop_kill", "stop_mark", "cleanup_kill", "cleanup_mark", "cleanup_delete", "cleanup_stopped"}

\* No session comes back.
Quieter == "tmux" \notin Env => \A a \in Agents : Gone(a) => Gone(a)'

LEMMA QuiescedSame ==
  ASSUME Quiesced, Quieter, Registered' = Registered, status' = "stopped" => status = "stopped"
  PROVE  Quiesced'
BY DEF Quiesced, StoppedQuiesced, Quieter, Gone, Registered

LEMMA SessionsElsewhere ==
  ASSUME NEW p \in Procs, proc'[p].pc \notin Killing
  PROVE  SessionsKnown(p)'
BY DEF SessionsKnown, Killing, At

LEMMA KillQuiets ==
  ASSUME TypeOK, NEW a \in Agents, tmuxKillSession(RowSession(a))
  PROVE  /\ Quieter
         /\ "tmux" \notin Env => Gone(a)'
<1>1. RowSession(a) \in SessionNames /\ \A b \in Agents : RowSession(b) \in SessionNames
  BY DEF RowSession, SessionNames
<1> QED BY <1>1 DEF TypeOK, tmuxKillSession, Quieter, Gone

LEMMA AgentsSessions ==
  ASSUME TypeOK, NEW p \in Procs, StatusKnown(p), SessionsKnown(p), Quiesced, AgentsStep(p)
  PROVE  SessionsKnown(p)' /\ Quiesced'
<1> USE DEF TypeOK, Frame, At, Goto, Return, Idle, rows, world
<1>0. Registered' = Registered /\ Registered \subseteq Agents
  BY AgentsRegister DEF Registered
<1>r. status' \in {"running", "stopping", "stopped", status}
  BY AgentsWithin DEF Within, AgentsStatuses
<1>s. session' = session => Quieter
  BY DEF Quieter, Gone
<1>3. CASE StopLoad(p)
  <2>1. proc'[p].left = Registered /\ proc'[p].pc = "stop_kill" /\ session' = session /\ status' = status
    BY <1>3 DEF StopLoad
  <2> QED BY <1>0, <1>s, <2>1, QuiescedSame DEF SessionsKnown, IsFirst
<1>4. CASE StopKill(p)
  <2>1. PICK a \in proc[p].left : IsFirst(a, proc[p].left) /\ tmuxKillSession(RowSession(a))
    BY <1>4 DEF StopKill
  <2>2. a \in Agents /\ Quieter /\ ("tmux" \notin Env => Gone(a)')
    BY <2>1, KillQuiets
  <2>3. \A b \in Agents : IsFirst(b, proc[p].left) => b = a
    BY <2>1, FirstAgent
  <2>4. proc'[p].pc = "stop_mark" /\ proc'[p].left = proc[p].left /\ status' = status /\ proc[p].pc = "stop_kill"
    BY <1>4 DEF StopKill
  <2>5. "tmux" \notin Env => \A b \in Registered : b \in proc[p].left \/ Gone(b)'
    BY <1>0, <2>2, <2>4 DEF SessionsKnown, Quieter
  <2> QED BY <1>0, <2>2, <2>3, <2>4, <2>5, QuiescedSame DEF SessionsKnown
<1>5. CASE StopMark(p)
  <2>1. PICK a \in proc[p].left :
          /\ IsFirst(a, proc[p].left)
          /\ proc' = [proc EXCEPT ![p].pc = "stop_kill", ![p].left = proc[p].left \ {a}]
    BY <1>5 DEF StopMark
  <2>2. proc'[p].pc = "stop_kill" /\ proc'[p].left = proc[p].left \ {a} /\ proc[p].pc = "stop_mark"
        /\ session' = session /\ status' = status
    BY <1>5, <2>1 DEF StopMark
  <2>3. "tmux" \notin Env => \A b \in Registered : b \in proc'[p].left \/ Gone(b)
    BY <2>1, <2>2 DEF SessionsKnown
  <2>4. SessionsKnown(p)'
    BY <1>0, <2>2, <2>3 DEF SessionsKnown, Gone
  <2> QED BY <1>0, <1>s, <2>2, <2>4, QuiescedSame
<1>6. CASE StopEnd(p)
  <2>1. proc[p].pc = "stop_kill" /\ proc[p].left = {} /\ session' = session /\ proc'[p].pc = "idle"
    BY <1>6 DEF StopEnd
  <2>2. Quiesced'
    BY <1>0, <2>1 DEF SessionsKnown, Quiesced, StoppedQuiesced, Gone, Registered
  <2> QED BY <2>1, <2>2, SessionsElsewhere DEF Killing
<1>19. CASE CleanupLoad(p)
  <2>1. proc'[p].pc = "cleanup_kill" /\ session' = session /\ status' = status
    BY <1>19 DEF CleanupLoad
  <2>2. proc'[p].left = Registered
    BY <1>19 DEF CleanupLoad
  <2> QED BY <1>0, <1>s, <2>1, <2>2, QuiescedSame DEF SessionsKnown
<1>20. CASE CleanupKill(p)
  <2>1. PICK a \in proc[p].left :
          /\ tmuxKillSession(RowSession(a))
          /\ proc' = [proc EXCEPT ![p].left = proc[p].left \ {a}]
    BY <1>20 DEF CleanupKill
  <2>2. a \in Agents /\ Quieter /\ ("tmux" \notin Env => Gone(a)')
    BY <2>1, KillQuiets
  <2>3. proc'[p].pc = "cleanup_kill" /\ proc'[p].left = proc[p].left \ {a} /\ status' = status
        /\ proc[p].pc = "cleanup_kill"
    BY <1>20, <2>1 DEF CleanupKill
  <2>4. "tmux" \notin Env => \A b \in Registered : b \in proc'[p].left \/ Gone(b)'
    BY <1>0, <2>2, <2>3 DEF SessionsKnown, Quieter
  <2> QED BY <1>0, <2>2, <2>3, <2>4, QuiescedSame DEF SessionsKnown
<1>21. CASE CleanupKilled(p)
  <2>1. /\ proc'[p].pc = "cleanup_mark" /\ proc[p].pc = "cleanup_kill" /\ proc[p].left = {}
        /\ session' = session /\ status' = status
    BY <1>21 DEF CleanupKilled
  <2>2. "tmux" \notin Env => \A b \in Registered : Gone(b)'
    BY <2>1 DEF SessionsKnown, Gone
  <2> QED BY <1>0, <1>s, <2>1, <2>2, QuiescedSame DEF SessionsKnown
<1>22. CASE CleanupMark(p) \/ CleanupMarked(p) \/ CleanupDelete(p)
  <2>1. /\ proc'[p].pc \in {"cleanup_mark", "cleanup_delete", "idle"}
        /\ proc[p].pc \in {"cleanup_mark", "cleanup_delete"}
        /\ session' = session /\ status' = status
    <3>1. CASE CleanupMark(p)
      BY <3>1 DEF CleanupMark
    <3>2. CASE CleanupMarked(p)
      BY <3>2 DEF CleanupMarked
    <3>3. CASE CleanupDelete(p)
      BY <3>3 DEF CleanupDelete
    <3> QED BY <1>22, <3>1, <3>2, <3>3
  <2>2. "tmux" \notin Env => \A b \in Registered : Gone(b)'
    BY <2>1 DEF SessionsKnown, Gone
  <2> QED BY <1>0, <1>s, <2>1, <2>2, QuiescedSame DEF SessionsKnown
<1>25. CASE CleanupStopping(p) \/ CleanupStopped(p)
  <2>1. /\ proc'[p].pc \in {"cleanup_stopped", "idle"}
        /\ proc[p].pc \in {"cleanup_delete", "cleanup_stopped"}
        /\ session' = session
    <3>1. CASE CleanupStopping(p)
      BY <3>1 DEF CleanupStopping
    <3>2. CASE CleanupStopped(p)
      BY <3>2 DEF CleanupStopped
    <3> QED BY <1>25, <3>1, <3>2
  <2>2. "tmux" \notin Env => \A b \in Registered : Gone(b)'
    BY <2>1 DEF SessionsKnown, Gone
  <2>3. SessionsKnown(p)'
    BY <1>0, <2>1, <2>2 DEF SessionsKnown
  <2>4. Quiesced'
    BY <1>0, <2>2 DEF Quiesced, StoppedQuiesced, Gone
  <2> QED BY <2>3, <2>4
<1>7. CASE RestartKill(p)
  <2>1. PICK a \in proc[p].left : tmuxKillSession(RowSession(a)) \/ session' = session
    BY <1>7 DEF RestartKill
  <2>2. Quieter
    BY <1>s, <2>1, KillQuiets
  <2>3. proc'[p].pc \in {"restart_new", "idle"} /\ status' = status
    BY <1>7 DEF RestartKill
  <2> QED BY <1>0, <2>2, <2>3, QuiescedSame, SessionsElsewhere DEF Killing
<1>8. CASE RestartNew(p)
  <2>1. status # "stopped" /\ status' = status /\ proc'[p].pc \in {"restart_wait", "idle"}
    BY <1>8 DEF RestartNew, StatusKnown, Restarting
  <2> QED BY <2>1, SessionsElsewhere DEF Quiesced, StoppedQuiesced, Killing
<1>9. CASE \/ StopRead(p) \/ StopGo(p) \/ RestartRead(p) \/ RestartLoad(p) \/ RestartGo(p) \/ RestartWait(p)
           \/ RestartMark(p) \/ IterateRead(p) \/ IterateLoad(p) \/ IterateFeedback(p) \/ IterateRestart(p)
           \/ CleanupRead(p)
  <2>1. proc[p].pc \notin {"step_work", "tmux_new", "stop_kill", "cleanup_kill", "restart_kill", "restart_new"}
    BY <1>9 DEF StopRead, StopGo, RestartRead, RestartLoad, RestartGo, RestartWait, RestartMark, IterateRead,
       IterateLoad, IterateFeedback, IterateRestart, CleanupRead
  <2>2. session' = session
    BY <2>1, AgentsMoves DEF Moves
  <2>3. proc'[p].pc \notin Killing /\ status' \in {status, "running", "stopping"}
    <3> USE DEF Killing, transitionRun
    <3>1. CASE StopRead(p) \/ StopGo(p)
      BY <3>1 DEF StopRead, StopGo
    <3>2. CASE RestartRead(p) \/ RestartLoad(p)
      BY <3>2 DEF RestartRead, RestartLoad
    <3>3. CASE RestartGo(p)
      BY <3>3 DEF RestartGo
    <3>4. CASE RestartWait(p)
      BY <3>4 DEF RestartWait
    <3>5. CASE RestartMark(p)
      BY <3>5 DEF RestartMark
    <3>6. CASE IterateRead(p) \/ IterateLoad(p)
      BY <3>6 DEF IterateRead, IterateLoad
    <3>7. CASE IterateFeedback(p)
      BY <3>7 DEF IterateFeedback
    <3>8. CASE IterateRestart(p) \/ CleanupRead(p)
      BY <3>8 DEF IterateRestart, CleanupRead
    <3> QED BY <1>9, <3>1, <3>2, <3>3, <3>4, <3>5, <3>6, <3>7, <3>8
  <2> QED BY <1>0, <1>s, <2>2, <2>3, QuiescedSame, SessionsElsewhere
<1> QED BY <1>3, <1>4, <1>5, <1>6, <1>7, <1>8, <1>9, <1>19, <1>20, <1>21, <1>22, <1>25 DEF AgentsStep

-----------------------------------------------------------------------------
(* Merges *)

LEMMA CloseElsewhere ==
  ASSUME NEW p \in Procs, proc'[p].pc \notin CloseLabels, proc'[p].op \in Ops \union {"none"}
  PROVE  CloseKnown(p)'
BY DEF CloseKnown, CloseLabels, At

LEMMA MergedSame ==
  ASSUME MergedInv, merged' = merged, Registered' = Registered \/ status = "planning",
         status' = "closed" => status = "closed"
  PROVE  MergedInv'
BY DEF MergedInv, ClosedMeansMerged, MergesClean

LEMMA CloseMerges ==
  ASSUME TypeOK, NEW p \in Procs, StatusKnown(p), CloseKnown(p), MergedInv, CloseStep(p)
  PROVE  CloseKnown(p)' /\ MergedInv'
<1> USE DEF TypeOK, Frame, At, Goto, Return, Idle, rows, world
<1>r. Registered' = Registered
  BY CloseRegisters
<1>o. proc'[p].op \in Ops \union {"none"}
  BY CloseMoves DEF Moves, CloseKnown
<1>1. CASE CloseRead(p)
  <2>1. proc'[p].pc \in {"close_load", "idle"} /\ merged' = merged /\ status' = status
    BY <1>1 DEF CloseRead
  <2> QED BY <1>r, <1>o, <2>1, MergedSame DEF CloseKnown
<1>2. CASE CloseLoad(p)
  <2>1. proc'[p].pc = "close_docs" /\ proc'[p].snap = agent /\ merged' = merged /\ status' = status
    BY <1>2 DEF CloseLoad
  <2>2. InSnapshot(p)' = Registered'
    BY <1>r, <2>1 DEF InSnapshot, Registered
  <2> QED BY <1>r, <1>o, <2>1, <2>2, MergedSame DEF CloseKnown
<1>3. CASE CloseDocs(p)
  <2>1. /\ \/ proc'[p].pc = "close_dirty" /\ proc'[p].ws = RunWorkspaces(p) /\ proc'[p].snap = proc[p].snap
           \/ proc'[p].pc = "idle"
        /\ proc[p].pc = "close_docs" /\ merged' = merged /\ status' = status
    BY <1>3 DEF CloseDocs
  <2>2. CASE proc'[p].snap = proc[p].snap /\ proc'[p].pc = "close_dirty"
    <3>1. InSnapshot(p)' = InSnapshot(p) /\ RunWorkspaces(p)' = RunWorkspaces(p)
      BY <2>2 DEF InSnapshot, RunWorkspaces
    <3> QED BY <1>r, <1>o, <2>1, <2>2, <3>1, MergedSame DEF CloseKnown
  <2> QED BY <1>r, <1>o, <2>1, <2>2, MergedSame DEF CloseKnown
<1>4. CASE CloseDirty(p)
  <2>1. PICK w \in proc[p].ws :
          \/ w \notin dirty /\ proc' = [proc EXCEPT ![p].ws = proc[p].ws \ {w}]
          \/ proc' = [proc EXCEPT ![p] = Idle]
    BY <1>4 DEF CloseDirty
  <2>2. proc[p].pc = "close_dirty" /\ merged' = merged /\ status' = status /\ dirty' = dirty
    BY <1>4 DEF CloseDirty
  <2>3. CASE w \notin dirty /\ proc' = [proc EXCEPT ![p].ws = proc[p].ws \ {w}]
    <3>1. proc'[p].pc = "close_dirty" /\ proc'[p].ws = proc[p].ws \ {w} /\ proc'[p].snap = proc[p].snap
      BY <2>2, <2>3
    <3>2. InSnapshot(p)' = InSnapshot(p) /\ RunWorkspaces(p)' = RunWorkspaces(p)
      BY <3>1 DEF InSnapshot, RunWorkspaces
    <3> QED BY <1>r, <1>o, <2>2, <2>3, <3>1, <3>2, MergedSame DEF CloseKnown
  <2>4. CASE proc' = [proc EXCEPT ![p] = Idle]
    <3>1. proc'[p].pc = "idle"
      BY <2>4
    <3> QED BY <1>r, <1>o, <2>2, <3>1, MergedSame DEF CloseKnown
  <2> QED BY <2>1, <2>3, <2>4
<1>5. CASE CloseSignals(p)
  <2>1. /\ proc'[p].pc = "idle" \/ (proc'[p].pc = "close_go" /\ proc'[p].snap = proc[p].snap)
        /\ proc[p].pc = "close_dirty" /\ proc[p].ws = {} /\ merged' = merged /\ status' = status /\ dirty' = dirty
    BY <1>5 DEF CloseSignals
  <2>2. CASE proc'[p].pc = "close_go" /\ proc'[p].snap = proc[p].snap
    <3>1. InSnapshot(p)' = InSnapshot(p) /\ RunWorkspaces(p)' = RunWorkspaces(p)
      BY <2>2 DEF InSnapshot, RunWorkspaces
    <3> QED BY <1>r, <1>o, <2>1, <2>2, <3>1, MergedSame DEF CloseKnown
  <2> QED BY <1>r, <1>o, <2>1, <2>2, MergedSame DEF CloseKnown
<1>6. CASE CloseGo(p)
  <2>1. /\ proc'[p].pc = "close_merge" /\ proc'[p].ws = RunWorkspaces(p) /\ proc'[p].snap = proc[p].snap
        /\ proc[p].pc = "close_go" /\ merged' = merged /\ status' = "closing" /\ dirty' = dirty
    BY <1>6 DEF CloseGo, transitionRun
  <2>2. InSnapshot(p)' = InSnapshot(p) /\ InSnapshot(p) = Registered
    BY <2>1 DEF InSnapshot, CloseKnown
  <2>3. \A a \in Registered : a[1] \in proc'[p].ws
    BY <2>1, <2>2 DEF RunWorkspaces, WorkspacesOf
  <2> QED BY <1>r, <1>o, <2>1, <2>2, <2>3, MergedSame DEF CloseKnown
<1>7. CASE CloseMerge(p)
  <2>1. PICK w \in proc[p].ws :
          \/ /\ merged' = IF proc[p].op = "close_dry" THEN merged
                          ELSE [merged EXCEPT ![w] = IF w \in dirty THEN "dirty" ELSE "clean"]
             /\ proc' = [proc EXCEPT ![p].ws = proc[p].ws \ {w}]
          \/ proc' = [proc EXCEPT ![p].pc = "close_fail"] /\ merged' = merged
    BY <1>7 DEF CloseMerge
  <2>2. proc[p].pc = "close_merge" /\ status' = status /\ status = "closing" /\ dirty' = dirty /\ w \in Tickets
    BY <1>7 DEF CloseMerge, StatusKnown, Closing
  <2>3. CASE proc' = [proc EXCEPT ![p].pc = "close_fail"] /\ merged' = merged
    <3>1. proc'[p].pc = "close_fail"
      BY <2>3
    <3> QED BY <1>r, <1>o, <2>2, <2>3, <3>1, MergedSame DEF CloseKnown
  <2>4. CASE /\ merged' = IF proc[p].op = "close_dry" THEN merged
                          ELSE [merged EXCEPT ![w] = IF w \in dirty THEN "dirty" ELSE "clean"]
             /\ proc' = [proc EXCEPT ![p].ws = proc[p].ws \ {w}]
    <3>1. proc'[p].pc = "close_merge" /\ proc'[p].ws = proc[p].ws \ {w} /\ proc'[p].snap = proc[p].snap
      BY <2>2, <2>4
    <3>2. InSnapshot(p)' = InSnapshot(p) /\ InSnapshot(p) = Registered
      BY <2>2, <3>1 DEF InSnapshot, CloseKnown
    <3>3. "edit" \notin Env => w \notin dirty
      BY <2>2 DEF CloseKnown
    <3>4. "edit" \notin Env => MergesClean'
      BY <2>2, <2>4, <3>3 DEF MergesClean, MergedInv
    <3>5. "close_dry" \notin Ops => proc[p].op # "close_dry"
      BY DEF CloseKnown
    <3>6. "close_dry" \notin Ops => \A a \in Registered : a[1] \in proc'[p].ws \/ Merged(a)'
      <4>1. \A t \in Tickets : merged[t] # "no" => merged'[t] # "no"
        BY <2>2, <2>4
      <4>2. "close_dry" \notin Ops => merged'[w] # "no"
        BY <2>2, <2>4, <3>5
      <4>3. \A a \in Registered : a[1] \in Tickets
        BY DEF Registered, Agents
      <4> QED BY <2>2, <3>1, <4>1, <4>2, <4>3 DEF CloseKnown, Merged
    <3>7. MergedInv'
      BY <2>2, <3>4 DEF MergedInv, ClosedMeansMerged
    <3> QED BY <1>r, <1>o, <2>2, <3>1, <3>2, <3>6, <3>7 DEF CloseKnown
  <2> QED BY <2>1, <2>3, <2>4
<1>8. CASE CloseTickets(p)
  <2>1. /\ proc'[p].pc \in {"close_end", "close_fail"}
        /\ proc[p].pc = "close_merge" /\ proc[p].ws = {} /\ merged' = merged /\ status' = status
    BY <1>8 DEF CloseTickets
  <2>2. "close_dry" \notin Ops => \A a \in Registered : Merged(a)'
    BY <2>1 DEF CloseKnown, Merged
  <2> QED BY <1>r, <1>o, <2>1, <2>2, MergedSame DEF CloseKnown
<1>9. CASE CloseEnd(p)
  <2>1. proc'[p].pc = "idle" /\ proc[p].pc = "close_end" /\ merged' = merged
    BY <1>9 DEF CloseEnd
  <2>2. MergedInv'
    BY <1>r, <2>1 DEF CloseKnown, Merged, MergedInv, ClosedMeansMerged, MergesClean
  <2> QED BY <1>o, <2>1, <2>2 DEF CloseKnown
<1>10. CASE CloseFail(p)
  <2>1. proc'[p].pc = "idle" /\ merged' = merged /\ status' \in {status, "failed"}
    BY <1>10 DEF CloseFail, transitionRun
  <2> QED BY <1>r, <1>o, <2>1, MergedSame DEF CloseKnown
<1> QED BY <1>1, <1>2, <1>3, <1>4, <1>5, <1>6, <1>7, <1>8, <1>9, <1>10 DEF CloseStep

-----------------------------------------------------------------------------
(* Signals *)

\* The statements at which a status query holds what it has read of the agents.
Judging == {"status_check", "status_resolve", "status_complete"}

\* No completion is withdrawn.
Heard == \A n \in Names : control[n].completed => control'[n].completed

AllSignalled == \A a \in Registered : control[a[2]].completed

LEMMA SignalsElsewhere ==
  ASSUME NEW p \in Procs, proc'[p].pc \notin Judging
  PROVE  SignalsKnown(p)'
BY DEF SignalsKnown, Judging, At

LEMMA SignalledStays ==
  ASSUME Heard, Registered' = Registered, AllSignalled
  PROVE  AllSignalled'
BY DEF AllSignalled, Heard, Registered, Agents

LEMMA SignalledSame ==
  ASSUME BootstrapAllSignalled, Heard, Registered' = Registered \/ status = "planning",
         Bootstrap /\ status' \in Late => status \in Late
  PROVE  BootstrapAllSignalled'
<1>1. CASE ~(Bootstrap /\ status' \in Late)
  BY <1>1 DEF BootstrapAllSignalled, Late
<1>2. CASE Bootstrap /\ status' \in Late
  <2>1. AllSignalled /\ Registered' = Registered
    BY <1>2 DEF BootstrapAllSignalled, Late, AllSignalled
  <2>2. AllSignalled'
    BY <2>1, SignalledStays
  <2> QED BY <2>2 DEF BootstrapAllSignalled, AllSignalled
<1> QED BY <1>1, <1>2

LEMMA SignalsHear ==
  ASSUME TypeOK, NEW p \in Procs, SignalsStep(p)
  PROVE  Heard
<1>1. CASE proc[p].pc = "guide_answer"
  <2>1. GuideAnswer(p)
    BY <1>1 DEF SignalsStep, At, StatusRead, StatusLoad, StatusProbe, StatusMark, StatusReload, StatusFailRun,
       StatusSignals, StatusAwait, StatusResume, StatusComplete, StatusProgress, StatusEnd, GuideRead, GuideLoad,
       GuideTarget, GuideGo
  <2>2. PICK a \in proc[p].left : control' = [control EXCEPT ![a[2]].pending = FALSE] \/ control' = control
    BY <2>1 DEF GuideAnswer
  <2>3. a[2] \in Names
    BY DEF TypeOK, Frame, Agents
  <2>4. ASSUME NEW n \in Names
        PROVE  control'[n].completed = control[n].completed
    <3>1. control[n] \in ControlState
      BY DEF TypeOK
    <3> QED BY <2>2, <2>3, <3>1 DEF TypeOK, ControlState
  <2> QED BY <2>4 DEF Heard
<1>2. CASE proc[p].pc # "guide_answer"
  BY <1>2, SignalsMoves DEF Moves, Heard
<1> QED BY <1>1, <1>2

LEMMA SignalsKnow ==
  ASSUME TypeOK, NEW p \in Procs, VerdictKnown(p), LeftKnown(p), StatusKnown(p), SignalsKnown(p),
         BootstrapAllSignalled, SignalsStep(p)
  PROVE  SignalsKnown(p)' /\ BootstrapAllSignalled'
<1> USE DEF TypeOK, Frame, At, Goto, Return, Idle, rows, world
<1>h. Heard
  BY SignalsHear
<1>r. Registered' = Registered
  BY SignalsRegister
<1>a. AllSignalled => AllSignalled'
  BY <1>h, <1>r, SignalledStays
<1>5. CASE StatusReload(p)
  <2>1. proc'[p].pc \in {"status_check", "status_progress"} /\ proc'[p].snap \in {agent, NoAgents}
        /\ status' = status
    BY <1>5 DEF StatusReload
  <2>2. InSnapshot(p)' \in {Registered, {}}
    BY <2>1 DEF InSnapshot, Registered, NoAgents
  <2> QED BY <1>h, <1>r, <2>1, <2>2, SignalledSame DEF SignalsKnown
<1>7. CASE StatusSignals(p)
  <2>1. /\ proc'[p].pc \in {"status_await", "status_progress", "status_resume", "status_resolve", "status_complete"}
        /\ proc'[p].pc \in {"status_resolve", "status_complete"} => AllComplete(InSnapshot(p))
        /\ proc[p].pc = "status_check" /\ status' = status
    BY <1>7 DEF StatusSignals
  <2>2. AllComplete(InSnapshot(p)) => AllSignalled
    BY <2>1 DEF SignalsKnown, AllComplete, AllSignalled
  <2>3. SignalsKnown(p)'
    BY <1>a, <2>1, <2>2 DEF SignalsKnown, AllSignalled
  <2> QED BY <1>h, <1>r, <2>1, <2>3, SignalledSame
<1>9. CASE StatusResume(p)
  <2>1. /\ proc'[p].pc \in {"status_progress", "status_complete"}
        /\ proc'[p].pc = "status_complete" => proc[p].pc = "status_resolve"
        /\ status' = "running"
    BY <1>9 DEF StatusResume, transitionRun
  <2>2. SignalsKnown(p)'
    BY <1>a, <2>1 DEF SignalsKnown, AllSignalled
  <2> QED BY <1>h, <1>r, <2>1, <2>2, SignalledSame DEF Late
<1>10. CASE StatusComplete(p)
  <2>1. proc'[p].pc = "status_progress" /\ proc[p].pc = "status_complete"
    BY <1>10 DEF StatusComplete
  <2>2. AllSignalled
    BY <2>1 DEF SignalsKnown, AllSignalled
  <2> QED BY <1>a, <2>1, <2>2, SignalsElsewhere DEF Judging, BootstrapAllSignalled, AllSignalled
<1>2. CASE StatusRead(p) \/ StatusLoad(p) \/ StatusMark(p) \/ StatusFailRun(p)
  <2>1. proc'[p].pc \notin Judging /\ status' \in {status, "failed"}
    <3> USE DEF Judging, transitionRun
    <3>1. CASE StatusRead(p)
      BY <3>1 DEF StatusRead
    <3>2. CASE StatusLoad(p)
      BY <3>2 DEF StatusLoad
    <3>3. CASE StatusMark(p)
      BY <3>3 DEF StatusMark
    <3>4. CASE StatusFailRun(p)
      BY <3>4 DEF StatusFailRun
    <3> QED BY <1>2, <3>1, <3>2, <3>3, <3>4
  <2> QED BY <1>h, <1>r, <2>1, SignalledSame, SignalsElsewhere DEF Late
<1>3. CASE StatusProbe(p) \/ StatusAwait(p) \/ StatusProgress(p) \/ StatusEnd(p)
  <2>1. proc'[p].pc \notin Judging /\ status' \in {status, "awaiting_guidance"}
    <3> USE DEF Judging, transitionRun
    <3>1. CASE StatusProbe(p)
      BY <3>1 DEF StatusProbe
    <3>2. CASE StatusAwait(p)
      BY <3>2 DEF StatusAwait
    <3>3. CASE StatusProgress(p)
      BY <3>3 DEF StatusProgress
    <3>4. CASE StatusEnd(p)
      BY <3>4 DEF StatusEnd
    <3> QED BY <1>3, <3>1, <3>2, <3>3, <3>4
  <2> QED BY <1>h, <1>r, <2>1, SignalledSame, SignalsElsewhere DEF Late
<1>4. CASE GuideRead(p) \/ GuideLoad(p) \/ GuideTarget(p) \/ GuideAnswer(p) \/ GuideGo(p)
  <2>1. proc'[p].pc \notin Judging /\ status' \in {status, "running"}
    <3> USE DEF Judging, transitionRun
    <3>1. CASE GuideRead(p)
      BY <3>1 DEF GuideRead
    <3>2. CASE GuideLoad(p)
      BY <3>2 DEF GuideLoad
    <3>3. CASE GuideTarget(p)
      <4>1. \/ \E a \in Agents : proc' = [proc EXCEPT ![p].pc = "guide_answer", ![p].left = {a}]
            \/ proc' = [proc EXCEPT ![p] = Idle]
        BY <3>3 DEF GuideTarget, InSnapshot
      <4>2. proc'[p].pc \in {"guide_answer", "idle"}
        BY <4>1
      <4> QED BY <3>3, <4>2 DEF GuideTarget
    <3>4. CASE GuideAnswer(p)
      BY <3>4 DEF GuideAnswer
    <3>5. CASE GuideGo(p)
      BY <3>5 DEF GuideGo
    <3> QED BY <1>4, <3>1, <3>2, <3>3, <3>4, <3>5
  <2> QED BY <1>h, <1>r, <2>1, SignalledSame, SignalsElsewhere DEF Late
<1> QED BY <1>2, <1>3, <1>4, <1>5, <1>7, <1>9, <1>10 DEF SignalsStep

-----------------------------------------------------------------------------
(* Every statement preserves what is known *)

LEMMA PlanSerial ==
  ASSUME TypeOK, NEW p \in Procs, Known(p), RunInv, PlanStep(p)
  PROVE  Known(p)' /\ RunInv' /\ Legal /\ Forward
<1> USE DEF Known, RunInv
<1>1. Moves(p) /\ Within(p, PlanLabels, PlanStatuses) /\ Keeps(p)
  BY PlanMoves, PlanWithin, PlanKeeps
<1>2. StatusKnown(p)' /\ Legal
  BY PlanStatus
<1>3. StepsKnown(p)' /\ Forward /\ NoneSkipped'
  BY PlanSteps
<1>4. PlanKnown(p)' /\ Executed'
  BY <1>3, PlanExecutes
<1>5. Registered' = Registered \/ status = "planning"
  BY PlanRegisters
<1>6. SessionsKnown(p)'
  BY <1>1, SessionsElsewhere DEF Within, PlanLabels, Killing
<1>7. Quiesced'
  <2>1. CASE status' # "stopped"
    BY <2>1 DEF Quiesced, StoppedQuiesced
  <2>2. CASE status' = "stopped"
    <3>1. status = "stopped"
      BY <1>1, <2>2 DEF Within, PlanStatuses
    <3>2. proc[p].pc \notin Executing
      BY <3>1 DEF StatusKnown
    <3>3. session' = session /\ Registered' = Registered
      BY <1>1, <1>5, <3>1, <3>2 DEF Moves, Within, PlanLabels, Executing, Attempting
    <3> QED BY <3>1, <3>3, QuiescedSame DEF Quieter, Gone
  <2> QED BY <2>1, <2>2
<1>8. CloseKnown(p)'
  BY <1>1, CloseElsewhere DEF Moves, Within, PlanLabels, CloseLabels, CloseKnown
<1>9. MergedInv'
  BY <1>1, <1>5, MergedSame DEF Moves, Within, PlanLabels, PlanStatuses
<1>10. SignalsKnown(p)'
  BY <1>1, SignalsElsewhere DEF Within, PlanLabels, Judging
<1>11. BootstrapAllSignalled'
  <2>1. Heard
    BY <1>1 DEF Keeps, Grows, Heard
  <2>2. Bootstrap /\ status' \in Late => status \in Late
    BY <1>1 DEF Keeps, Within, PlanLabels, Claims
  <2> QED BY <1>5, <2>1, <2>2, SignalledSame
<1> QED BY <1>2, <1>3, <1>4, <1>6, <1>7, <1>8, <1>9, <1>10, <1>11

LEMMA AgentsSerial ==
  ASSUME TypeOK, NEW p \in Procs, Known(p), RunInv, AgentsStep(p)
  PROVE  Known(p)' /\ RunInv' /\ Legal /\ Forward
<1> USE DEF Known, RunInv
<1>1. Moves(p) /\ Within(p, AgentsLabels, AgentsStatuses) /\ Keeps(p)
  BY AgentsMoves, AgentsWithin, AgentsKeeps
<1>2. StatusKnown(p)' /\ Legal
  BY AgentsStatus
<1>3. step' = step /\ merged' = merged /\ Registered' = Registered
  BY <1>1, AgentsRegister DEF Moves, Within, AgentsLabels
<1>4. status = "none" <=> status' = "none"
  BY <1>1 DEF Moves, Within, AgentsLabels, AgentsStatuses, StatusKnown, Reading
<1>5. StepsKnown(p)' /\ Forward /\ NoneSkipped'
  BY <1>1, <1>3, <1>4, StepsSame DEF Within, AgentsLabels, Attempting
<1>6. PlanKnown(p)'
  BY <1>1, <1>4, <1>5, PlanSame DEF Within, AgentsLabels, Doing, Attempting
<1>7. Executed'
  BY <1>1, <1>5, ExecutedSame DEF Within, AgentsStatuses, Late
<1>8. SessionsKnown(p)' /\ Quiesced'
  BY AgentsSessions
<1>9. CloseKnown(p)'
  BY <1>1, CloseElsewhere DEF Moves, Within, AgentsLabels, CloseLabels, CloseKnown
<1>10. MergedInv'
  BY <1>1, <1>3, MergedSame DEF Within, AgentsStatuses
<1>11. SignalsKnown(p)'
  BY <1>1, SignalsElsewhere DEF Within, AgentsLabels, Judging
<1>12. BootstrapAllSignalled'
  BY <1>1, <1>3, SignalledSame DEF Keeps, Grows, Heard, Within, AgentsStatuses, Late
<1> QED BY <1>2, <1>5, <1>6, <1>7, <1>8, <1>9, <1>10, <1>11, <1>12

LEMMA SignalsSerial ==
  ASSUME TypeOK, NEW p \in Procs, FrameInv(p), Known(p), RunInv, SignalsStep(p)
  PROVE  Known(p)' /\ RunInv' /\ Legal /\ Forward
<1> USE DEF Known, RunInv
<1>1. Moves(p) /\ Within(p, SignalsLabels, SignalsStatuses)
  BY SignalsMoves, SignalsWithin
<1>2. StatusKnown(p)' /\ Legal
  BY SignalsStatus
<1>3. step' = step /\ merged' = merged /\ session' = session /\ Registered' = Registered
  BY <1>1, SignalsRegister DEF FrameInv, Moves, Within, SignalsLabels
<1>4. status = "none" <=> status' = "none"
  BY <1>1 DEF Moves, Within, SignalsLabels, SignalsStatuses, StatusKnown, Guiding, At
<1>5. StepsKnown(p)' /\ Forward /\ NoneSkipped'
  BY <1>1, <1>3, <1>4, StepsSame DEF Within, SignalsLabels, Attempting
<1>6. PlanKnown(p)'
  BY <1>1, <1>4, <1>5, PlanSame DEF Within, SignalsLabels, Doing, Attempting
<1>7. Executed'
  <2>1. CASE proc[p].pc = "guide_go"
    <3>1. GuideGo(p)
      BY <2>1 DEF SignalsStep, At, StatusRead, StatusLoad, StatusProbe, StatusMark, StatusReload, StatusFailRun,
         StatusSignals, StatusAwait, StatusResume, StatusComplete, StatusProgress, StatusEnd, GuideRead, GuideLoad,
         GuideTarget, GuideAnswer
    <3>2. status' = "running"
      BY <3>1 DEF GuideGo, transitionRun
    <3> QED BY <1>5, <3>2, ExecutedSame DEF Late
  <2>2. CASE proc[p].pc # "guide_go"
    <3>1. status' = status \/ Bootstrap
      BY <1>1, <2>2 DEF Moves, Within, SignalsLabels, StatusKnown, At
    <3> QED BY <1>5, <3>1, ExecutedSame
  <2> QED BY <2>1, <2>2
<1>8. SessionsKnown(p)'
  BY <1>1, SessionsElsewhere DEF Within, SignalsLabels, Killing
<1>9. Quiesced'
  BY <1>1, <1>3, QuiescedSame DEF Within, SignalsStatuses, Quieter, Gone
<1>10. CloseKnown(p)'
  BY <1>1, CloseElsewhere DEF Moves, Within, SignalsLabels, CloseLabels, CloseKnown
<1>11. MergedInv'
  BY <1>1, <1>3, MergedSame DEF Within, SignalsStatuses
<1>12. SignalsKnown(p)' /\ BootstrapAllSignalled'
  BY SignalsKnow DEF FrameInv
<1> QED BY <1>2, <1>5, <1>6, <1>7, <1>8, <1>9, <1>10, <1>11, <1>12

LEMMA CloseSerial ==
  ASSUME TypeOK, NEW p \in Procs, Known(p), RunInv, CloseStep(p)
  PROVE  Known(p)' /\ RunInv' /\ Legal /\ Forward
<1> USE DEF Known, RunInv
<1>1. Moves(p) /\ Within(p, CloseLabels, CloseStatuses) /\ Keeps(p)
  BY CloseMoves, CloseWithin, CloseKeeps
<1>2. StatusKnown(p)' /\ Legal
  BY CloseStatus
<1>3. step' = step /\ session' = session /\ Registered' = Registered
  BY <1>1, CloseRegisters DEF Moves, Within, CloseLabels
<1>4. (status = "none" <=> status' = "none") /\ (status' \in Late => status \in Late)
  BY <1>1 DEF Moves, Within, CloseLabels, CloseStatuses, StatusKnown, ToClose, Closing, Late
<1>5. StepsKnown(p)' /\ Forward /\ NoneSkipped'
  BY <1>1, <1>3, <1>4, StepsSame DEF Within, CloseLabels, Attempting
<1>6. PlanKnown(p)'
  BY <1>1, <1>4, <1>5, PlanSame DEF Within, CloseLabels, Doing, Attempting
<1>7. Executed'
  BY <1>4, <1>5, ExecutedSame
<1>8. SessionsKnown(p)'
  BY <1>1, SessionsElsewhere DEF Within, CloseLabels, Killing
<1>9. Quiesced'
  BY <1>1, <1>3, QuiescedSame DEF Within, CloseStatuses, Quieter, Gone
<1>10. CloseKnown(p)' /\ MergedInv'
  BY CloseMerges
<1>11. SignalsKnown(p)'
  BY <1>1, SignalsElsewhere DEF Within, CloseLabels, Judging
<1>12. BootstrapAllSignalled'
  BY <1>1, <1>3, <1>4, SignalledSame DEF Keeps, Grows, Heard
<1> QED BY <1>2, <1>5, <1>6, <1>7, <1>8, <1>9, <1>10, <1>11, <1>12

\* A command begins, with nothing known but the state of the run, or ends in the
\* middle.
LEMMA BeginsSerial ==
  ASSUME TypeOK, NEW p \in Procs, Known(p), RunInv, (\E op \in AllOps : Issue(p, op)) \/ Abort(p)
  PROVE  Known(p)' /\ RunInv' /\ Legal /\ Forward
<1> USE DEF Known, RunInv, rows, world
<1>1. /\ proc'[p].pc \in {"begin", "idle"} /\ proc'[p].op \in Ops \union {"none"}
      /\ \/ proc[p].pc = "idle" \/ "crash" \in Env
      /\ UNCHANGED <<status, step, agent, session, merged, control>>
  <2>1. CASE \E op \in AllOps : Issue(p, op)
    <3>1. PICK op \in AllOps : Issue(p, op)
      BY <2>1
    <3>2. proc'[p].pc = "begin" /\ proc'[p].op = op /\ proc[p].pc = "idle" /\ op \in Ops
      BY <3>1 DEF Issue, At, TypeOK, Frame
    <3> QED BY <3>1, <3>2 DEF Issue
  <2>2. CASE Abort(p)
    BY <2>2 DEF Abort, Return, Idle, TypeOK, Frame
  <2> QED BY <2>1, <2>2
<1>2. Registered' = Registered
  BY <1>1 DEF Registered
<1>3. StatusKnown(p)' /\ Legal
  BY <1>1 DEF StatusKnown, At, Executing, Attempting, Reading, Restarting, Guiding, ToClose, Closing, Legal,
     CanTransitionRun
<1>4. StepsKnown(p)' /\ Forward /\ NoneSkipped'
  BY <1>1, StepsSame DEF Attempting
<1>5. PlanKnown(p)'
  <2>1. CASE proc[p].pc = "idle"
    BY <1>1, <1>4, <2>1, PlanSame DEF Doing, Attempting
  <2>2. CASE "crash" \in Env
    BY <2>2 DEF PlanKnown
  <2> QED BY <1>1, <2>1, <2>2
<1>6. Executed'
  BY <1>1, <1>4, ExecutedSame
<1>7. SessionsKnown(p)' /\ CloseKnown(p)' /\ SignalsKnown(p)'
  BY <1>1, SessionsElsewhere, CloseElsewhere, SignalsElsewhere DEF Killing, CloseLabels, Judging
<1>8. Quiesced'
  BY <1>1, <1>2, QuiescedSame DEF Quieter, Gone
<1>9. MergedInv'
  BY <1>1, <1>2, MergedSame
<1>10. BootstrapAllSignalled'
  BY <1>1, <1>2, SignalledSame DEF Heard
<1> QED BY <1>3, <1>4, <1>5, <1>6, <1>7, <1>8, <1>9, <1>10

\* What agents and the world may do leaves what is known of them true.
LEMMA WorldMoves ==
  ASSUME TypeOK, Environment \/ UNCHANGED vars
  PROVE  /\ UNCHANGED <<status, step, agent, merged, proc>>
         /\ Quieter /\ Heard
         /\ "edit" \notin Env => dirty' \subseteq dirty
<1> USE DEF rows, world, Quieter, Gone, Heard
<1>1. ASSUME NEW k \in SessionNames, AgentExits(k)
      PROVE  session' = [session EXCEPT ![k] = "exit_ok"] \/ session' = [session EXCEPT ![k] = "exit_err"]
  BY <1>1 DEF AgentExits
<1>2. ASSUME NEW k \in SessionNames, AgentExits(k)
      PROVE  Quieter
  <2>1. \A a \in Agents : RowSession(a) = k => ~Gone(a)
    BY <1>2 DEF AgentExits
  <2>2. \A a \in Agents : RowSession(a) \in SessionNames
    BY DEF RowSession, SessionNames
  <2> QED BY <1>1, <1>2, <2>1, <2>2 DEF TypeOK
<1>3. ASSUME NEW n \in Names, Post(n)
      PROVE  Heard
  <2>1. PICK c \in {[control[n] EXCEPT !.pending = TRUE], [control[n] EXCEPT !.pending = FALSE],
                    [control[n] EXCEPT !.completed = TRUE]}
               \union {[control[n] EXCEPT !.validation = v] : v \in Validation} :
             control' = [control EXCEPT ![n] = c]
    BY <1>3 DEF Post
  <2>2. control[n] \in ControlState /\ control \in [Names -> ControlState]
    BY DEF TypeOK
  <2>3. control[n].completed => c.completed
    BY <2>1, <2>2 DEF ControlState
  <2> QED BY <2>1, <2>2, <2>3
<1>4. CASE UNCHANGED vars
  BY <1>4 DEF vars
<1>5. ASSUME NEW k \in SessionNames, AgentExits(k) \/ SessionLost(k)
      PROVE  UNCHANGED <<status, step, agent, merged, proc, dirty, control>> /\ Quieter
  BY <1>2, <1>5 DEF AgentExits, SessionLost
<1>6. ASSUME NEW w \in Tickets, Edit(w) \/ Commit(w)
      PROVE  UNCHANGED <<status, step, agent, merged, proc, session, control>> /\ ("edit" \notin Env => dirty' \subseteq dirty)
  BY <1>6 DEF Edit, Commit
<1>7. ASSUME NEW n \in Names, Post(n)
      PROVE  UNCHANGED <<status, step, agent, merged, proc, session, dirty>>
  BY <1>7 DEF Post
<1> QED BY <1>3, <1>4, <1>5, <1>6, <1>7 DEF Environment

LEMMA WorldKeepsRun ==
  ASSUME TypeOK, RunInv, Environment \/ UNCHANGED vars
  PROVE  RunInv' /\ Legal /\ Forward
<1> USE DEF RunInv
<1>1. UNCHANGED <<status, step, agent, merged>> /\ Quieter /\ Heard
  BY WorldMoves
<1>2. Registered' = Registered
  BY <1>1 DEF Registered
<1>3. Legal /\ Forward /\ NoneSkipped'
  BY <1>1 DEF Legal, CanTransitionRun, Forward, NoneSkipped, CanTransitionStep
<1>4. Executed' /\ Quiesced' /\ MergedInv' /\ BootstrapAllSignalled'
  BY <1>1, <1>2, <1>3, ExecutedSame, QuiescedSame, MergedSame, SignalledSame
<1> QED BY <1>3, <1>4

LEMMA WorldKnown ==
  ASSUME TypeOK, NEW p \in Procs, Known(p), Environment \/ UNCHANGED vars
  PROVE  Known(p)'
<1> USE DEF Known
<1>1. /\ UNCHANGED <<status, step, agent, merged, proc>>
      /\ Quieter /\ Heard
      /\ "edit" \notin Env => dirty' \subseteq dirty
  BY WorldMoves
<1>2. Registered' = Registered /\ InSnapshot(p)' = InSnapshot(p) /\ RunWorkspaces(p)' = RunWorkspaces(p)
  BY <1>1 DEF Registered, InSnapshot, RunWorkspaces
<1>3. StatusKnown(p)' /\ StepsKnown(p)' /\ PlanKnown(p)'
  BY <1>1 DEF StatusKnown, StepsKnown, PlanKnown, Written, At
<1>4. SessionsKnown(p)'
  BY <1>1, <1>2 DEF SessionsKnown, Quieter, At, Registered
<1>5. CloseKnown(p)'
  BY <1>1, <1>2 DEF CloseKnown, At, Merged
<1>6. SignalsKnown(p)'
  <2>1. AllSignalled => AllSignalled'
    BY <1>1, <1>2, SignalledStays
  <2> QED BY <1>1, <1>2, <2>1 DEF SignalsKnown, AllSignalled, At
<1> QED BY <1>3, <1>4, <1>5, <1>6

-----------------------------------------------------------------------------
(* The theorems *)

LEMMA InitSerial == Init => SerialInv
<1> SUFFICES ASSUME Init PROVE SerialInv
  OBVIOUS
<1>1. IInv
  BY InitIInv
<1>2. RunInv
  BY DEF RunInv, Init, Executed, CompletedMeansExecuted, NoneSkipped, Quiesced, StoppedQuiesced, MergedInv,
     ClosedMeansMerged, MergesClean, BootstrapAllSignalled
<1>3. ASSUME NEW p \in Procs PROVE Known(p)
  <2>1. proc[p].pc = "idle" /\ proc[p].op = "none"
    BY DEF Init, Idle
  <2> QED BY <2>1 DEF Init, Known, StatusKnown, StepsKnown, PlanKnown, Written, SessionsKnown, CloseKnown, SignalsKnown,
             At, Executing, Attempting, Doing, Reading, Restarting, Guiding, ToClose, Closing
<1> QED BY <1>1, <1>2, <1>3 DEF SerialInv

LEMMA NextSerial ==
  ASSUME Alone, SerialInv, [Next]_vars
  PROVE  SerialInv' /\ Legal /\ Forward
<1>1. IInv' /\ TypeOK
  BY NextIInv DEF SerialInv, IInv
<1>2. ASSUME NEW p \in Procs, Step(p)
      PROVE  Known(p)' /\ RunInv' /\ Legal /\ Forward
  BY <1>1, <1>2, PlanSerial, AgentsSerial, SignalsSerial, CloseSerial DEF SerialInv, IInv, Step
<1>3. ASSUME NEW p \in Procs, (\E op \in AllOps : Issue(p, op)) \/ Abort(p)
      PROVE  Known(p)' /\ RunInv' /\ Legal /\ Forward
  BY <1>1, <1>3, BeginsSerial DEF SerialInv
<1>4. ASSUME NEW p \in Procs, Step(p) \/ (\E op \in AllOps : Issue(p, op)) \/ Abort(p)
      PROVE  SerialInv' /\ Legal /\ Forward
  <2>1. \A q \in Procs : q = p
    BY DEF Alone
  <2> QED BY <1>1, <1>2, <1>3, <1>4, <2>1 DEF SerialInv
<1>5. CASE Environment \/ UNCHANGED vars
  BY <1>1, <1>5, WorldKeepsRun, WorldKnown DEF SerialInv
<1> QED BY <1>4, <1>5 DEF Next

LEMMA SerialCorrect ==
  ASSUME Alone
  PROVE  Spec => []SerialInv
<1>1. SerialInv /\ [Next]_vars => SerialInv'
  BY NextSerial
<1> QED BY <1>1, InitSerial, PTL DEF Spec

\* Every change of the run's status is one the state machine of hsm.go allows from
\* the status stored, although UpdateRunStatus is unconditional and the callers of
\* transitionRun name the status that they take the run to have.
THEOREM LegalWhenAlone ==
  ASSUME Alone
  PROVE  Spec => LegalTransitions
<1>1. SerialInv /\ [Next]_vars => [status # "none" => CanTransitionRun(status, status')]_vars
  BY NextSerial DEF Legal
<1> QED BY <1>1, SerialCorrect, PTL DEF Spec, LegalTransitions

\* Steps move along stepTransitions in every order of attempts, retries, resumes
\* and deaths of the process that executes them, although no code consults that
\* table: none is executed again once it is done, and none fails that was not
\* running.
THEOREM StepsWhenAlone ==
  ASSUME Alone
  PROVE  Spec => StepsFollowHSM
<1>1. SerialInv /\ [Next]_vars
        => [\A s \in Steps : step[s] # "absent" => CanTransitionStep(step[s], step'[s])]_vars
  BY NextSerial DEF Forward
<1> QED BY <1>1, SerialCorrect, PTL DEF Spec, StepsFollowHSM

\* Unless tmux fails, no registered agent of a stopped run has a session under the
\* name in its row: Stop and Cleanup have killed the sessions of all of them when
\* they write stopped, and whatever starts a session writes running before.
THEOREM StoppedIsQuiet ==
  ASSUME Alone, "tmux" \notin Env
  PROVE  Spec => []StoppedQuiesced
<1>1. SerialInv => StoppedQuiesced
  BY DEF SerialInv, RunInv, Quiesced
<1> QED BY <1>1, SerialCorrect, PTL

\* Unless closes are dry runs, every workspace of a closed run has been merged.
THEOREM ClosedIsMerged ==
  ASSUME Alone, "close_dry" \notin Ops
  PROVE  Spec => []ClosedMeansMerged
<1>1. SerialInv => ClosedMeansMerged
  BY DEF SerialInv, RunInv, MergedInv
<1> QED BY <1>1, SerialCorrect, PTL

\* Unless an agent edits its workspace between the check of a close and the merge,
\* no merge takes in a workspace with uncommitted changes, although the checks of
\* all the workspaces come before the first merge.
THEOREM MergesAreClean ==
  ASSUME Alone, "edit" \notin Env
  PROVE  Spec => []MergesClean
<1>1. SerialInv => MergesClean
  BY DEF SerialInv, RunInv, MergedInv
<1> QED BY <1>1, SerialCorrect, PTL

\* Unless a process dies, a standard run is completed only with every step of its
\* plan done.  One that died before SaveSteps leaves a run without a plan, which a
\* resume completes at once.
THEOREM CompletedIsExecuted ==
  ASSUME Alone, "crash" \notin Env
  PROVE  Spec => []CompletedMeansExecuted
<1>1. SerialInv => CompletedMeansExecuted
  BY DEF SerialInv, RunInv, Executed
<1> QED BY <1>1, SerialCorrect, PTL

\* A bootstrap run is completed, and so closed, only when all its agents have
\* signalled completion, not only some as SignalNeeded says of every number of
\* processes: the agents that a status query judges by are still all there are.
THEOREM AllSignalledWhenAlone ==
  ASSUME Alone
  PROVE  Spec => []BootstrapAllSignalled
<1>1. SerialInv => BootstrapAllSignalled
  BY DEF SerialInv, RunInv
<1> QED BY <1>1, SerialCorrect, PTL

=============================================================================
