------------------------- MODULE RunLifecycleProofs -------------------------
(***************************************************************************)
(* Type correctness of RunLifecycle, for every number of processes,        *)
(* tickets and agent names, every choice of commands and every choice of   *)
(* failures.  A statement's obligations are its frame and the rows it      *)
(* writes; there is one step per statement and one below it for each of    *)
(* those.                                                                  *)
(***************************************************************************)
EXTENDS RunLifecycle, TLAPS

-----------------------------------------------------------------------------
(* Frames: which assignments to a frame's fields keep it a frame.          *)

LEMMA IdleType == Idle \in Frame
BY StateAssumption
   DEF StateAssumption, Idle, Frame, Labels, AllOps, RunStatus, AgentRow, NoAgents,
       Agents

LEMMA SetPc ==
  ASSUME proc \in [Procs -> Frame], NEW p \in Procs, NEW l \in Labels
  PROVE  [proc EXCEPT ![p].pc = l] \in [Procs -> Frame]
<1>1. [proc[p] EXCEPT !.pc = l] \in Frame
  BY DEF Frame
<1> QED BY <1>1

LEMMA SetPcOp ==
  ASSUME proc \in [Procs -> Frame], NEW p \in Procs, NEW l \in Labels,
         NEW o \in AllOps
  PROVE  [proc EXCEPT ![p].pc = l, ![p].op = o] \in [Procs -> Frame]
<1>1. [proc[p] EXCEPT !.pc = l, !.op = o] \in Frame
  BY DEF Frame
<1> QED BY <1>1

LEMMA SetPcSeen ==
  ASSUME proc \in [Procs -> Frame], NEW p \in Procs, NEW l \in Labels,
         NEW st \in RunStatus
  PROVE  [proc EXCEPT ![p].pc = l, ![p].seen = st] \in [Procs -> Frame]
<1>1. [proc[p] EXCEPT !.pc = l, !.seen = st] \in Frame
  BY DEF Frame
<1> QED BY <1>1

LEMMA SetPcTodo ==
  ASSUME proc \in [Procs -> Frame], NEW p \in Procs, NEW l \in Labels,
         NEW S \in SUBSET Steps
  PROVE  [proc EXCEPT ![p].pc = l, ![p].todo = S] \in [Procs -> Frame]
<1>1. [proc[p] EXCEPT !.pc = l, !.todo = S] \in Frame
  BY DEF Frame
<1> QED BY <1>1

LEMMA SetTodo ==
  ASSUME proc \in [Procs -> Frame], NEW p \in Procs, NEW S \in SUBSET Steps
  PROVE  [proc EXCEPT ![p].todo = S] \in [Procs -> Frame]
<1>1. [proc[p] EXCEPT !.todo = S] \in Frame
  BY DEF Frame
<1> QED BY <1>1

LEMMA SetPcAttempt ==
  ASSUME proc \in [Procs -> Frame], NEW p \in Procs, NEW l \in Labels,
         NEW n \in 0..(StepRetries + 1)
  PROVE  [proc EXCEPT ![p].pc = l, ![p].attempt = n] \in [Procs -> Frame]
<1>1. [proc[p] EXCEPT !.pc = l, !.attempt = n] \in Frame
  BY DEF Frame
<1> QED BY <1>1

LEMMA SetPcAttemptTodo ==
  ASSUME proc \in [Procs -> Frame], NEW p \in Procs, NEW l \in Labels,
         NEW n \in 0..(StepRetries + 1), NEW S \in SUBSET Steps
  PROVE  [proc EXCEPT ![p].pc = l, ![p].attempt = n,
                      ![p].todo = S] \in [Procs -> Frame]
<1>1. [proc[p] EXCEPT !.pc = l, !.attempt = n, !.todo = S] \in Frame
  BY DEF Frame
<1> QED BY <1>1

LEMMA SetPcLeft ==
  ASSUME proc \in [Procs -> Frame], NEW p \in Procs, NEW l \in Labels,
         NEW S \in SUBSET Agents
  PROVE  [proc EXCEPT ![p].pc = l, ![p].left = S] \in [Procs -> Frame]
<1>1. [proc[p] EXCEPT !.pc = l, !.left = S] \in Frame
  BY DEF Frame
<1> QED BY <1>1

LEMMA SetLeft ==
  ASSUME proc \in [Procs -> Frame], NEW p \in Procs, NEW S \in SUBSET Agents
  PROVE  [proc EXCEPT ![p].left = S] \in [Procs -> Frame]
<1>1. [proc[p] EXCEPT !.left = S] \in Frame
  BY DEF Frame
<1> QED BY <1>1

LEMMA SetPcWs ==
  ASSUME proc \in [Procs -> Frame], NEW p \in Procs, NEW l \in Labels,
         NEW W \in SUBSET Tickets
  PROVE  [proc EXCEPT ![p].pc = l, ![p].ws = W] \in [Procs -> Frame]
<1>1. [proc[p] EXCEPT !.pc = l, !.ws = W] \in Frame
  BY DEF Frame
<1> QED BY <1>1

LEMMA SetWs ==
  ASSUME proc \in [Procs -> Frame], NEW p \in Procs, NEW W \in SUBSET Tickets
  PROVE  [proc EXCEPT ![p].ws = W] \in [Procs -> Frame]
<1>1. [proc[p] EXCEPT !.ws = W] \in Frame
  BY DEF Frame
<1> QED BY <1>1

LEMMA SetPcSnap ==
  ASSUME proc \in [Procs -> Frame], NEW p \in Procs, NEW l \in Labels,
         NEW g \in [Agents -> AgentRow]
  PROVE  [proc EXCEPT ![p].pc = l, ![p].snap = g] \in [Procs -> Frame]
<1>1. [proc[p] EXCEPT !.pc = l, !.snap = g] \in Frame
  BY DEF Frame
<1> QED BY <1>1

LEMMA SetPcSnapLeft ==
  ASSUME proc \in [Procs -> Frame], NEW p \in Procs, NEW l \in Labels,
         NEW g \in [Agents -> AgentRow], NEW S \in SUBSET Agents
  PROVE  [proc EXCEPT ![p].pc = l, ![p].snap = g, ![p].left = S] \in [Procs -> Frame]
<1>1. [proc[p] EXCEPT !.pc = l, !.snap = g, !.left = S] \in Frame
  BY DEF Frame
<1> QED BY <1>1

LEMMA SetSnapPcLeft ==
  ASSUME proc \in [Procs -> Frame], NEW p \in Procs,
         NEW g \in [Agents -> AgentRow], NEW l \in Labels, NEW S \in SUBSET Agents
  PROVE  [proc EXCEPT ![p].snap = g, ![p].pc = l, ![p].left = S] \in [Procs -> Frame]
<1>1. [proc[p] EXCEPT !.snap = g, !.pc = l, !.left = S] \in Frame
  BY DEF Frame
<1> QED BY <1>1

LEMMA SetPcTodoLeft ==
  ASSUME proc \in [Procs -> Frame], NEW p \in Procs, NEW l \in Labels,
         NEW T \in SUBSET Steps, NEW S \in SUBSET Agents
  PROVE  [proc EXCEPT ![p].pc = l, ![p].todo = T, ![p].left = S] \in [Procs -> Frame]
<1>1. [proc[p] EXCEPT !.pc = l, !.todo = T, !.left = S] \in Frame
  BY DEF Frame
<1> QED BY <1>1

LEMMA SetPcLeftSnapWs ==
  ASSUME proc \in [Procs -> Frame], NEW p \in Procs, NEW l \in Labels,
         NEW S \in SUBSET Agents, NEW g \in [Agents -> AgentRow],
         NEW W \in SUBSET Tickets
  PROVE  [proc EXCEPT ![p].pc = l, ![p].left = S, ![p].snap = g,
                      ![p].ws = W] \in [Procs -> Frame]
<1>1. [proc[p] EXCEPT !.pc = l, !.left = S, !.snap = g, !.ws = W] \in Frame
  BY DEF Frame
<1> QED BY <1>1

LEMMA SetPcVerdict ==
  ASSUME proc \in [Procs -> Frame], NEW p \in Procs, NEW l \in Labels,
         NEW v \in AgentRow
  PROVE  [proc EXCEPT ![p].pc = l, ![p].verdict = v] \in [Procs -> Frame]
<1>1. [proc[p] EXCEPT !.pc = l, !.verdict = v] \in Frame
  BY DEF Frame
<1> QED BY <1>1

LEMMA SetPcLeftVerdict ==
  ASSUME proc \in [Procs -> Frame], NEW p \in Procs, NEW l \in Labels,
         NEW S \in SUBSET Agents, NEW v \in AgentRow
  PROVE  [proc EXCEPT ![p].pc = l, ![p].left = S,
                      ![p].verdict = v] \in [Procs -> Frame]
<1>1. [proc[p] EXCEPT !.pc = l, !.left = S, !.verdict = v] \in Frame
  BY DEF Frame
<1> QED BY <1>1

-----------------------------------------------------------------------------
(* What a typed frame and typed rows give.                                 *)

LEMMA SetsTyped ==
  ASSUME TypeOK, NEW p \in Procs
  PROVE  /\ Agents \in SUBSET Agents
         /\ Steps \in SUBSET Steps
         /\ {} \in SUBSET Tickets
         /\ Registered \in SUBSET Agents
         /\ InSnapshot(p) \in SUBSET Agents
         /\ WorkspacesOf(Registered) \in SUBSET Tickets
         /\ RunWorkspaces(p) \in SUBSET Tickets
         /\ proc[p] \in Frame
         /\ proc[p].left \in SUBSET Agents
         /\ proc[p].ws \in SUBSET Tickets
         /\ proc[p].todo \in SUBSET Steps
         /\ proc[p].attempt \in 0..(StepRetries + 1)
         /\ proc[p].snap \in [Agents -> AgentRow]
         /\ proc[p].verdict \in AgentRow
BY DEF TypeOK, Frame, Registered, InSnapshot, WorkspacesOf, RunWorkspaces, Agents

\* What the statements write to the rows and to tmux is typed.
LEMMA StatusType ==
  ASSUME NEW from, NEW to \in RunStatus, transitionRun(from, to)
  PROVE  status' \in RunStatus \union {"none"}
BY DEF transitionRun

LEMMA StepType ==
  ASSUME TypeOK, NEW s, NEW st \in StepStatus, UpdateStepStatus(s, st)
  PROVE  step' \in [Steps -> StepStatus \union {"absent"}]
BY DEF TypeOK, UpdateStepStatus

LEMMA AgentType ==
  ASSUME TypeOK, NEW a, NEW st \in AgentRow, UpdateAgentStatus(a, st)
  PROVE  agent' \in [Agents -> AgentRow]
BY DEF TypeOK, UpdateAgentStatus

LEMMA SessionType ==
  ASSUME TypeOK, NEW k, tmuxKillSession(k) \/ newSession(k)
  PROVE  session' \in [SessionNames -> SessionState]
BY DEF TypeOK, tmuxKillSession, newSession, SessionState

LEMMA LabelsKnown ==
         /\ "idle" \in Labels  /\ "begin" \in Labels
         /\ "run_plan" \in Labels  /\ "run_save" \in Labels
         /\ "run_seed" \in Labels  /\ "resume_go" \in Labels
         /\ "resume_load" \in Labels  /\ "exec" \in Labels
         /\ "step_begin" \in Labels  /\ "step_work" \in Labels
         /\ "docs_copy" \in Labels  /\ "tmux_new" \in Labels
         /\ "tmux_wait" \in Labels  /\ "tmux_mark" \in Labels
         /\ "step_done" \in Labels  /\ "step_fail" \in Labels
         /\ "exec_fail" \in Labels  /\ "stop_go" \in Labels
         /\ "stop_load" \in Labels  /\ "stop_kill" \in Labels
         /\ "stop_mark" \in Labels  /\ "restart_read" \in Labels
         /\ "restart_load" \in Labels  /\ "restart_go" \in Labels
         /\ "restart_kill" \in Labels  /\ "restart_new" \in Labels
         /\ "restart_wait" \in Labels  /\ "restart_mark" \in Labels
         /\ "cleanup_load" \in Labels  /\ "cleanup_kill" \in Labels
         /\ "cleanup_mark" \in Labels  /\ "cleanup_delete" \in Labels
         /\ "cleanup_stopped" \in Labels  /\ "iterate_load" \in Labels
         /\ "iterate_feedback" \in Labels  /\ "close_load" \in Labels
         /\ "close_docs" \in Labels  /\ "close_dirty" \in Labels
         /\ "close_go" \in Labels  /\ "close_merge" \in Labels
         /\ "close_end" \in Labels  /\ "close_fail" \in Labels
         /\ "status_load" \in Labels  /\ "status_probe" \in Labels
         /\ "status_mark" \in Labels  /\ "status_check" \in Labels
         /\ "status_await" \in Labels  /\ "status_resume" \in Labels
         /\ "status_resolve" \in Labels  /\ "status_complete" \in Labels
         /\ "status_progress" \in Labels  /\ "guide_load" \in Labels
         /\ "guide_target" \in Labels  /\ "guide_answer" \in Labels
         /\ "guide_go" \in Labels
BY DEF Labels

LEMMA SetIdle ==
  ASSUME proc \in [Procs -> Frame], NEW p \in Procs
  PROVE  [proc EXCEPT ![p] = Idle] \in [Procs -> Frame]
BY IdleType

LEMMA HealthType ==
  ASSUME TypeOK, NEW p \in Procs, NEW a \in Agents
  PROVE  Health(p, a) \subseteq AgentRow
<1>1. proc[p].snap[a] \in AgentRow
  BY SetsTyped
<1>2. {"running", "idle", "stalled", "dead", "failed"} \subseteq AgentRow
  BY DEF AgentRow, AgentStatus
<1>3. session[RowSession(a)] \in SessionState
  BY DEF TypeOK, RowSession, SessionNames
<1> QED BY <1>1, <1>2, <1>3 DEF Health, SessionState

-----------------------------------------------------------------------------
(* Each group of statements keeps the state typed.                         *)

LEMMA PlanType ==
  ASSUME TypeOK, NEW p \in Procs, PlanStep(p)
  PROVE  TypeOK'
<1> USE DEF rows, world
<1>1. CASE RunCreate(p)
  <2>1. proc' \in [Procs -> Frame]
    BY <1>1, SetPc, LabelsKnown, SetIdle DEF RunCreate, TypeOK, Goto, Return
  <2>2. status' \in RunStatus \union {"none"}
    BY <1>1, StatusType DEF RunCreate, RunStatus, TypeOK, transitionRun
  <2> QED BY <1>1, <2>1, <2>2 DEF RunCreate, TypeOK
<1>2. CASE RunPlanning(p)
  <2>1. proc' \in [Procs -> Frame]
    BY <1>2, SetPcTodo, SetsTyped, LabelsKnown DEF RunPlanning, TypeOK
  <2>2. status' \in RunStatus \union {"none"}
    BY <1>2, StatusType DEF RunPlanning, RunStatus, TypeOK, transitionRun
  <2> QED BY <1>2, <2>1, <2>2 DEF RunPlanning, TypeOK
<1>3. CASE RunSaveSteps(p)
  <2>1. PICK s \in proc[p].todo :
             /\ step' = [step EXCEPT ![s] = "pending"]
             /\ \/ proc' = [proc EXCEPT ![p].todo = proc[p].todo \ {s}]
                \/ proc' = [proc EXCEPT ![p].pc = "run_seed", ![p].todo = {},
                                        ![p].left = Agents]
    BY <1>3 DEF RunSaveSteps
  <2>2. proc' \in [Procs -> Frame]
    <3>1. proc[p].todo \ {s} \in SUBSET Steps
      BY SetsTyped
    <3>2. {} \in SUBSET Steps
      OBVIOUS
    <3>3. CASE proc' = [proc EXCEPT ![p].todo = proc[p].todo \ {s}]
      BY <3>1, <3>3, SetTodo DEF TypeOK
    <3>4. CASE proc' = [proc EXCEPT ![p].pc = "run_seed", ![p].todo = {}, ![p].left = Agents]
      <4>1. "run_seed" \in Labels /\ Agents \in SUBSET Agents
        BY LabelsKnown
      <4> QED BY <3>2, <3>4, <4>1, SetPcTodoLeft DEF TypeOK
    <3> QED BY <2>1, <3>3, <3>4
  <2>3. step' \in [Steps -> StepStatus \union {"absent"}]
    BY <2>1 DEF StepStatus, TypeOK
  <2> QED BY <1>3, <2>2, <2>3 DEF RunSaveSteps, TypeOK
<1>4. CASE RunSeedAgent(p)
  <2>1. PICK a \in proc[p].left :
             /\ agent' = [agent EXCEPT ![a] = "pending"]
             /\ proc' = [proc EXCEPT ![p].left = proc[p].left \ {a}]
    BY <1>4 DEF RunSeedAgent
  <2>2. proc' \in [Procs -> Frame]
    BY <2>1, SetLeft, SetsTyped DEF TypeOK
  <2>3. agent' \in [Agents -> AgentRow]
    BY <1>4, <2>1, AgentType, SetsTyped
      DEF RunSeedAgent, AgentRow, AgentStatus, TypeOK
  <2> QED BY <1>4, <2>2, <2>3 DEF RunSeedAgent, TypeOK
<1>5. CASE RunGo(p)
  <2>1. proc' \in [Procs -> Frame]
    <3>1. \/ proc' = [proc EXCEPT ![p].pc = "exec", ![p].todo = Steps]
          \/ proc' = [proc EXCEPT ![p] = Idle]
      BY <1>5 DEF RunGo, Return
    <3>2. CASE proc' = [proc EXCEPT ![p].pc = "exec", ![p].todo = Steps]
      BY <3>2, SetPcTodo, LabelsKnown DEF TypeOK
    <3>3. CASE proc' = [proc EXCEPT ![p] = Idle]
      BY <3>3, SetIdle DEF TypeOK
    <3> QED BY <3>1, <3>2, <3>3
  <2>2. status' \in RunStatus \union {"none"}
    BY <1>5, StatusType DEF RunGo, RunStatus, TypeOK, transitionRun
  <2> QED BY <1>5, <2>1, <2>2 DEF RunGo, TypeOK
<1>6. CASE ResumeRead(p)
  <2>1. proc' \in [Procs -> Frame]
    <3>1. \/ status \in RunStatus /\ proc' = [proc EXCEPT ![p].pc = "resume_go",
                                                          ![p].seen = status]
          \/ proc' = [proc EXCEPT ![p] = Idle]
      BY <1>6 DEF ResumeRead, TypeOK, Return
    <3>2. CASE /\ status \in RunStatus
               /\ proc' = [proc EXCEPT ![p].pc = "resume_go",
                                                            ![p].seen = status]
      BY <3>2, SetPcSeen, LabelsKnown DEF TypeOK
    <3>3. CASE proc' = [proc EXCEPT ![p] = Idle]
      BY <3>3, SetIdle DEF TypeOK
    <3> QED BY <3>1, <3>2, <3>3
  <2> QED BY <1>6, <2>1 DEF ResumeRead, TypeOK
<1>7. CASE ResumeGo(p)
  <2>1. proc' \in [Procs -> Frame]
    BY <1>7, SetPc, LabelsKnown DEF ResumeGo, TypeOK, Goto
  <2>2. status' \in RunStatus \union {"none"}
    BY <1>7, StatusType DEF ResumeGo, RunStatus, TypeOK, transitionRun
  <2> QED BY <1>7, <2>1, <2>2 DEF ResumeGo, TypeOK
<1>8. CASE ResumeLoad(p)
  <2>1. proc' \in [Procs -> Frame]
    BY <1>8, SetPcTodo, LabelsKnown DEF ResumeLoad, TypeOK
  <2> QED BY <1>8, <2>1 DEF ResumeLoad, TypeOK
<1>9. CASE StepPick(p)
  <2>1. proc' \in [Procs -> Frame]
    <3>1. \/ \E s \in proc[p].todo :
                   proc' = [proc EXCEPT ![p].todo = proc[p].todo \ {s}]
          \/ proc' = [proc EXCEPT ![p].pc = "step_begin", ![p].attempt = 1]
      BY <1>9 DEF StepPick
    <3>2. CASE \E s \in proc[p].todo :
                   proc' = [proc EXCEPT ![p].todo = proc[p].todo \ {s}]
      <4>1. PICK s \in proc[p].todo :
                 proc' = [proc EXCEPT ![p].todo = proc[p].todo \ {s}]
        BY <3>2
      <4>2. proc[p].todo \ {s} \in SUBSET Steps
        BY SetsTyped
      <4> QED BY <4>1, <4>2, SetTodo DEF TypeOK
    <3>3. CASE proc' = [proc EXCEPT ![p].pc = "step_begin", ![p].attempt = 1]
      <4>1. 1 \in 0..(StepRetries + 1)
        BY StateAssumption DEF StateAssumption
      <4> QED BY <3>3, <4>1, SetPcAttempt, LabelsKnown DEF TypeOK
    <3> QED BY <3>1, <3>2, <3>3
  <2> QED BY <1>9, <2>1 DEF StepPick, TypeOK
<1>10. CASE StepBegin(p)
  <2>1. PICK s \in proc[p].todo :
             UpdateStepStatus(s, "running")
    BY <1>10 DEF StepBegin
  <2>2. proc' \in [Procs -> Frame]
    BY <1>10, <2>1, SetPc, LabelsKnown DEF StepBegin, TypeOK, Goto
  <2>3. step' \in [Steps -> StepStatus \union {"absent"}]
    BY <1>10, <2>1, StepType DEF StepBegin, StepStatus, TypeOK
  <2> QED BY <1>10, <2>2, <2>3 DEF StepBegin, TypeOK
<1>11. CASE ShellStep(p)
  <2>1. proc' \in [Procs -> Frame]
    BY <1>11, SetPc, LabelsKnown DEF ShellStep, TypeOK, Goto
  <2>2. workspace' \in SUBSET Tickets /\ dirty' \in SUBSET Tickets
    <3>1. PICK s \in proc[p].todo : /\ workspace' \subseteq workspace \union {s[1]}
                                 /\ dirty' \subseteq dirty
      BY <1>11 DEF ShellStep
    <3>2. s[1] \in Tickets
      BY SetsTyped DEF Steps
    <3> QED BY <3>1, <3>2 DEF TypeOK
  <2> QED BY <1>11, <2>1, <2>2 DEF ShellStep, TypeOK
<1>12. CASE DocsPending(p)
  <2>1. proc' \in [Procs -> Frame]
    BY <1>12, SetPc, LabelsKnown DEF DocsPending, TypeOK, Goto
  <2>2. docSync' \in [Tickets \X Tickets -> SyncState]
    BY <1>12 DEF DocsPending, SyncState, TypeOK
  <2> QED BY <1>12, <2>1, <2>2 DEF DocsPending, TypeOK
<1>13. CASE DocsCopy(p)
  <2>1. proc' \in [Procs -> Frame]
    <3>1. \/ Goto(p, "step_done")
          \/ Goto(p, "step_fail")
      BY <1>13 DEF DocsCopy
    <3>2. CASE Goto(p, "step_done")
      BY <3>2, SetPc, LabelsKnown DEF TypeOK, Goto
    <3>3. CASE Goto(p, "step_fail")
      BY <3>3, SetPc, LabelsKnown DEF TypeOK, Goto
    <3> QED BY <3>1, <3>2, <3>3
  <2>2. docSync' \in [Tickets \X Tickets -> SyncState]
    BY <1>13 DEF DocsCopy, SyncState, TypeOK
  <2>3. workspace' \in SUBSET Tickets /\ dirty' \in SUBSET Tickets
    BY <1>13, SetsTyped DEF DocsCopy, TypeOK
  <2> QED BY <1>13, <2>1, <2>2, <2>3 DEF DocsCopy, TypeOK
<1>14. CASE TmuxKill(p)
  <2>1. proc' \in [Procs -> Frame]
    BY <1>14, SetPc, LabelsKnown DEF TmuxKill, TypeOK, Goto
  <2>2. session' \in [SessionNames -> SessionState]
    BY <1>14, SessionType DEF TmuxKill, TypeOK
  <2> QED BY <1>14, <2>1, <2>2 DEF TmuxKill, TypeOK
<1>15. CASE TmuxNew(p)
  <2>1. proc' \in [Procs -> Frame]
    BY <1>15, SetPc, LabelsKnown DEF TmuxNew, TypeOK, Goto
  <2>2. session' \in [SessionNames -> SessionState]
    BY <1>15, SessionType DEF TmuxNew, TypeOK
  <2> QED BY <1>15, <2>1, <2>2 DEF TmuxNew, TypeOK
<1>16. CASE TmuxWait(p)
  <2>1. proc' \in [Procs -> Frame]
    BY <1>16, SetPc, LabelsKnown DEF TmuxWait, TypeOK, Goto
  <2> QED BY <1>16, <2>1 DEF TmuxWait, TypeOK
<1>17. CASE TmuxMark(p)
  <2>1. PICK s \in proc[p].todo :
             UpdateAgentStatus(AgentOf(s), "running")
    BY <1>17 DEF TmuxMark
  <2>2. proc' \in [Procs -> Frame]
    BY <1>17, <2>1, SetPc, LabelsKnown DEF TmuxMark, TypeOK, Goto
  <2>3. agent' \in [Agents -> AgentRow]
    BY <1>17, <2>1, AgentType, SetsTyped DEF TmuxMark, AgentRow, AgentStatus, TypeOK
  <2> QED BY <1>17, <2>2, <2>3 DEF TmuxMark, TypeOK
<1>18. CASE StepDone(p)
  <2>1. PICK s \in proc[p].todo :
             UpdateStepStatus(s, "done")
    BY <1>18 DEF StepDone
  <2>2. proc' \in [Procs -> Frame]
    <3>1. PICK r \in proc[p].todo :
             proc' = [proc EXCEPT ![p].pc = "exec", ![p].attempt = 0,
                                  ![p].todo = proc[p].todo \ {r}]
      BY <1>18 DEF StepDone
    <3>2. 0 \in 0..(StepRetries + 1) /\ proc[p].todo \ {r} \in SUBSET Steps
      BY SetsTyped, StateAssumption DEF StateAssumption
    <3> QED BY <3>1, <3>2, SetPcAttemptTodo, LabelsKnown DEF TypeOK
  <2>3. step' \in [Steps -> StepStatus \union {"absent"}]
    BY <1>18, <2>1, StepType DEF StepDone, StepStatus, TypeOK
  <2> QED BY <1>18, <2>2, <2>3 DEF StepDone, TypeOK
<1>19. CASE StepFail(p)
  <2>1. PICK s \in proc[p].todo :
             UpdateStepStatus(s, "failed") \/ step' = step
    BY <1>19 DEF StepFail
  <2>2. proc' \in [Procs -> Frame]
    <3>1. \/ /\ proc[p].attempt <= StepRetries
             /\ proc' = [proc EXCEPT ![p].pc = "step_begin",
                                     ![p].attempt = proc[p].attempt + 1]
          \/ Goto(p, "exec_fail")
      BY <1>19 DEF StepFail
    <3>2. CASE /\ proc[p].attempt <= StepRetries
               /\ proc' = [proc EXCEPT ![p].pc = "step_begin",
                                       ![p].attempt = proc[p].attempt + 1]
      <4>1. proc[p].attempt + 1 \in 0..(StepRetries + 1)
        BY <3>2, SetsTyped, StateAssumption DEF StateAssumption
      <4> QED BY <3>2, <4>1, SetPcAttempt, LabelsKnown DEF TypeOK
    <3>3. CASE Goto(p, "exec_fail")
      BY <3>3, SetPc, LabelsKnown DEF TypeOK, Goto
    <3> QED BY <3>1, <3>2, <3>3
  <2>3. step' \in [Steps -> StepStatus \union {"absent"}]
    BY <1>19, <2>1, StepType DEF StepFail, StepStatus, TypeOK
  <2> QED BY <1>19, <2>2, <2>3 DEF StepFail, TypeOK
<1>20. CASE ExecFailed(p)
  <2>1. proc' \in [Procs -> Frame]
    BY <1>20, SetIdle DEF ExecFailed, TypeOK, Return
  <2>2. status' \in RunStatus \union {"none"}
    BY <1>20, StatusType DEF ExecFailed, RunStatus, TypeOK, transitionRun
  <2> QED BY <1>20, <2>1, <2>2 DEF ExecFailed, TypeOK
<1>21. CASE ExecFinished(p)
  <2>1. proc' \in [Procs -> Frame]
    BY <1>21, SetIdle DEF ExecFinished, TypeOK, Return
  <2>2. status' \in RunStatus \union {"none"}
    BY <1>21, StatusType DEF ExecFinished, RunStatus, TypeOK, transitionRun
  <2> QED BY <1>21, <2>1, <2>2 DEF ExecFinished, TypeOK
<1>22. CASE ExecStoreFails(p)
  <2>1. proc' \in [Procs -> Frame]
    BY <1>22, SetPc, LabelsKnown DEF ExecStoreFails, TypeOK, Goto
  <2> QED BY <1>22, <2>1 DEF ExecStoreFails, TypeOK
<1>23. CASE StepStoreFails(p)
  <2>1. proc' \in [Procs -> Frame]
    BY <1>23, SetPc, LabelsKnown DEF StepStoreFails, TypeOK, Goto
  <2>2. PICK s \in proc[p].todo :
             \/ UNCHANGED <<dirty, docSync>>
             \/ /\ dirty' \in {dirty, dirty \union {s[1]}}
                /\ docSync' \in {docSync, [docSync EXCEPT ![<<s[1], s[1]>>] = "synced"]}
    BY <1>23 DEF StepStoreFails
  <2>3. s[1] \in Tickets
    BY SetsTyped DEF Steps
  <2>4. dirty' \in SUBSET Tickets
    BY <2>2, <2>3 DEF TypeOK
  <2>5. docSync' \in [Tickets \X Tickets -> SyncState]
    BY <2>2 DEF SyncState, TypeOK
  <2> QED BY <1>23, <2>1, <2>4, <2>5 DEF StepStoreFails, TypeOK
<1> QED BY <1>1, <1>2, <1>3, <1>4, <1>5, <1>6, <1>7, <1>8, <1>9, <1>10, <1>11,
           <1>12, <1>13, <1>14, <1>15, <1>16, <1>17, <1>18, <1>19,
   <1>20, <1>21, <1>22, <1>23
   DEF PlanStep

LEMMA AgentsType ==
  ASSUME TypeOK, NEW p \in Procs, AgentsStep(p)
  PROVE  TypeOK'
<1> USE DEF rows, world
<1>1. CASE StopRead(p)
  <2>1. proc' \in [Procs -> Frame]
    <3>1. \/ status \in RunStatus /\ proc' = [proc EXCEPT ![p].pc = "stop_go",
                                                          ![p].seen = status]
          \/ proc' = [proc EXCEPT ![p] = Idle]
      BY <1>1 DEF StopRead, TypeOK, Return
    <3>2. CASE /\ status \in RunStatus
               /\ proc' = [proc EXCEPT ![p].pc = "stop_go",
                                                            ![p].seen = status]
      BY <3>2, SetPcSeen, LabelsKnown DEF TypeOK
    <3>3. CASE proc' = [proc EXCEPT ![p] = Idle]
      BY <3>3, SetIdle DEF TypeOK
    <3> QED BY <3>1, <3>2, <3>3
  <2> QED BY <1>1, <2>1 DEF StopRead, TypeOK
<1>2. CASE StopGo(p)
  <2>1. proc' \in [Procs -> Frame]
    BY <1>2, SetPc, LabelsKnown DEF StopGo, TypeOK, Goto
  <2>2. status' \in RunStatus \union {"none"}
    BY <1>2, StatusType DEF StopGo, RunStatus, TypeOK, transitionRun
  <2> QED BY <1>2, <2>1, <2>2 DEF StopGo, TypeOK
<1>3. CASE StopLoad(p)
  <2>1. proc' \in [Procs -> Frame]
    BY <1>3, SetPcLeft, SetsTyped, LabelsKnown DEF StopLoad, TypeOK
  <2> QED BY <1>3, <2>1 DEF StopLoad, TypeOK
<1>4. CASE StopKill(p)
  <2>1. proc' \in [Procs -> Frame]
    BY <1>4, SetPc, LabelsKnown DEF StopKill, TypeOK, Goto
  <2>2. session' \in [SessionNames -> SessionState]
    BY <1>4, SessionType DEF StopKill, TypeOK
  <2> QED BY <1>4, <2>1, <2>2 DEF StopKill, TypeOK
<1>5. CASE StopMark(p)
  <2>1. PICK a \in proc[p].left :
             /\ UpdateAgentStatus(a, "stopped") \/ agent' = agent
             /\ proc' = [proc EXCEPT ![p].pc = "stop_kill",
                                     ![p].left = proc[p].left \ {a}]
    BY <1>5 DEF StopMark
  <2>2. proc' \in [Procs -> Frame]
    BY <2>1, SetPcLeft, SetsTyped, LabelsKnown DEF TypeOK
  <2>3. agent' \in [Agents -> AgentRow]
    BY <1>5, <2>1, AgentType, SetsTyped DEF StopMark, AgentRow, AgentStatus, TypeOK
  <2> QED BY <1>5, <2>2, <2>3 DEF StopMark, TypeOK
<1>6. CASE StopEnd(p)
  <2>1. proc' \in [Procs -> Frame]
    BY <1>6, SetIdle DEF StopEnd, TypeOK, Return
  <2>2. status' \in RunStatus \union {"none"}
    BY <1>6, StatusType DEF StopEnd, RunStatus, TypeOK, transitionRun
  <2> QED BY <1>6, <2>1, <2>2 DEF StopEnd, TypeOK
<1>7. CASE RestartRead(p)
  <2>1. proc' \in [Procs -> Frame]
    <3>1. \/ status \in RunStatus /\ proc' = [proc EXCEPT ![p].pc = "restart_load",
                                                          ![p].seen = status]
          \/ proc' = [proc EXCEPT ![p] = Idle]
      BY <1>7 DEF RestartRead, TypeOK, Return
    <3>2. CASE /\ status \in RunStatus
               /\ proc' = [proc EXCEPT ![p].pc = "restart_load", ![p].seen = status]
      BY <3>2, SetPcSeen, LabelsKnown DEF TypeOK
    <3>3. CASE proc' = [proc EXCEPT ![p] = Idle]
      BY <3>3, SetIdle DEF TypeOK
    <3> QED BY <3>1, <3>2, <3>3
  <2> QED BY <1>7, <2>1 DEF RestartRead, TypeOK
<1>8. CASE RestartLoad(p)
  <2>1. proc' \in [Procs -> Frame]
    <3>1. \/ proc' = [proc EXCEPT ![p].pc = "restart_go", ![p].left = Registered]
          \/ proc' = [proc EXCEPT ![p] = Idle]
      BY <1>8 DEF RestartLoad, Return
    <3>2. CASE proc' = [proc EXCEPT ![p].pc = "restart_go", ![p].left = Registered]
      BY <3>2, SetPcLeft, LabelsKnown, SetsTyped DEF TypeOK
    <3>3. CASE proc' = [proc EXCEPT ![p] = Idle]
      BY <3>3, SetIdle DEF TypeOK
    <3> QED BY <3>1, <3>2, <3>3
  <2> QED BY <1>8, <2>1 DEF RestartLoad, TypeOK
<1>9. CASE RestartGo(p)
  <2>1. proc' \in [Procs -> Frame]
    BY <1>9, SetPc, LabelsKnown DEF RestartGo, TypeOK, Goto
  <2>2. status' \in RunStatus \union {"none"}
    BY <1>9, StatusType DEF RestartGo, RunStatus, TypeOK, transitionRun
  <2> QED BY <1>9, <2>1, <2>2 DEF RestartGo, TypeOK
<1>10. CASE RestartKill(p)
  <2>1. proc' \in [Procs -> Frame]
    BY <1>10, SetPc, LabelsKnown, SetIdle DEF RestartKill, TypeOK, Goto, Return
  <2>2. session' \in [SessionNames -> SessionState]
    BY <1>10, SessionType DEF RestartKill, TypeOK
  <2> QED BY <1>10, <2>1, <2>2 DEF RestartKill, TypeOK
<1>11. CASE RestartNew(p)
  <2>1. proc' \in [Procs -> Frame]
    BY <1>11, SetPc, LabelsKnown, SetIdle DEF RestartNew, TypeOK, Goto, Return
  <2>2. session' \in [SessionNames -> SessionState]
    BY <1>11, SessionType DEF RestartNew, TypeOK
  <2> QED BY <1>11, <2>1, <2>2 DEF RestartNew, TypeOK
<1>12. CASE RestartWait(p)
  <2>1. proc' \in [Procs -> Frame]
    BY <1>12, SetPc, LabelsKnown, SetIdle DEF RestartWait, TypeOK, Goto, Return
  <2> QED BY <1>12, <2>1 DEF RestartWait, TypeOK
<1>13. CASE RestartMark(p)
  <2>1. PICK a \in proc[p].left :
             UpdateAgentStatus(a, "running")
    BY <1>13 DEF RestartMark
  <2>2. proc' \in [Procs -> Frame]
    <3>1. \/ \E b \in proc[p].left :
                   proc' = [proc EXCEPT ![p].pc = "restart_kill",
                                        ![p].left = proc[p].left \ {b}]
          \/ proc' = [proc EXCEPT ![p] = Idle]
      BY <1>13 DEF RestartMark, Return
    <3>2. CASE \E b \in proc[p].left :
                   proc' = [proc EXCEPT ![p].pc = "restart_kill",
                                        ![p].left = proc[p].left \ {b}]
      <4>1. PICK b \in proc[p].left :
                 proc' = [proc EXCEPT ![p].pc = "restart_kill",
                                      ![p].left = proc[p].left \ {b}]
        BY <3>2
      <4>2. proc[p].left \ {b} \in SUBSET Agents
        BY SetsTyped
      <4> QED BY <4>1, <4>2, SetPcLeft, LabelsKnown DEF TypeOK
    <3>3. CASE proc' = [proc EXCEPT ![p] = Idle]
      BY <3>3, SetIdle DEF TypeOK
    <3> QED BY <3>1, <3>2, <3>3
  <2>3. agent' \in [Agents -> AgentRow]
    BY <1>13, <2>1, AgentType, SetsTyped
      DEF RestartMark, AgentRow, AgentStatus, TypeOK
  <2> QED BY <1>13, <2>2, <2>3 DEF RestartMark, TypeOK
<1>14. CASE IterateRead(p)
  <2>1. proc' \in [Procs -> Frame]
    BY <1>14, SetPc, LabelsKnown, SetIdle DEF IterateRead, TypeOK, Goto, Return
  <2> QED BY <1>14, <2>1 DEF IterateRead, TypeOK
<1>15. CASE IterateLoad(p)
  <2>1. proc' \in [Procs -> Frame]
    <3>1. \/ proc' = [proc EXCEPT ![p].pc = "iterate_feedback",
                                  ![p].ws = WorkspacesOf(Registered)]
          \/ proc' = [proc EXCEPT ![p] = Idle]
      BY <1>15 DEF IterateLoad, Return
    <3>2. CASE proc' = [proc EXCEPT ![p].pc = "iterate_feedback",
                                    ![p].ws = WorkspacesOf(Registered)]
      BY <3>2, SetPcWs, LabelsKnown, SetsTyped DEF TypeOK
    <3>3. CASE proc' = [proc EXCEPT ![p] = Idle]
      BY <3>3, SetIdle DEF TypeOK
    <3> QED BY <3>1, <3>2, <3>3
  <2> QED BY <1>15, <2>1 DEF IterateLoad, TypeOK
<1>16. CASE IterateFeedback(p)
  <2>1. PICK w \in proc[p].ws :
             dirty' \in {dirty, dirty \union {w}}
    BY <1>16 DEF IterateFeedback
  <2>2. proc' \in [Procs -> Frame]
    <3>1. \/ \E v \in proc[p].ws : proc' = [proc EXCEPT ![p].ws = proc[p].ws \ {v}]
          \/ proc' = [proc EXCEPT ![p] = Idle]
      BY <1>16 DEF IterateFeedback, Return
    <3>2. CASE \E v \in proc[p].ws : proc' = [proc EXCEPT ![p].ws = proc[p].ws \ {v}]
      <4>1. PICK v \in proc[p].ws :
                 proc' = [proc EXCEPT ![p].ws = proc[p].ws \ {v}]
        BY <3>2
      <4>2. proc[p].ws \ {v} \in SUBSET Tickets
        BY SetsTyped
      <4> QED BY <4>1, <4>2, SetWs DEF TypeOK
    <3>3. CASE proc' = [proc EXCEPT ![p] = Idle]
      BY <3>3, SetIdle DEF TypeOK
    <3> QED BY <3>1, <3>2, <3>3
  <2>3. workspace' \in SUBSET Tickets /\ dirty' \in SUBSET Tickets
    BY <1>16, <2>1, SetsTyped DEF IterateFeedback, TypeOK
  <2> QED BY <1>16, <2>2, <2>3 DEF IterateFeedback, TypeOK
<1>17. CASE IterateRestart(p)
  <2>1. proc' \in [Procs -> Frame]
    BY <1>17, SetPc, LabelsKnown DEF IterateRestart, TypeOK, Goto
  <2> QED BY <1>17, <2>1 DEF IterateRestart, TypeOK
<1>18. CASE CleanupRead(p)
  <2>1. proc' \in [Procs -> Frame]
    <3>1. \/ status \in RunStatus /\ proc' = [proc EXCEPT ![p].pc = "cleanup_load",
                                                          ![p].seen = status]
          \/ proc' = [proc EXCEPT ![p] = Idle]
      BY <1>18 DEF CleanupRead, TypeOK, Return
    <3>2. CASE /\ status \in RunStatus
               /\ proc' = [proc EXCEPT ![p].pc = "cleanup_load", ![p].seen = status]
      BY <3>2, SetPcSeen, LabelsKnown DEF TypeOK
    <3>3. CASE proc' = [proc EXCEPT ![p] = Idle]
      BY <3>3, SetIdle DEF TypeOK
    <3> QED BY <3>1, <3>2, <3>3
  <2> QED BY <1>18, <2>1 DEF CleanupRead, TypeOK
<1>19. CASE CleanupLoad(p)
  <2>1. proc' \in [Procs -> Frame]
    BY <1>19, SetPcLeftSnapWs, SetsTyped, LabelsKnown DEF CleanupLoad, TypeOK
  <2> QED BY <1>19, <2>1 DEF CleanupLoad, TypeOK
<1>20. CASE CleanupKill(p)
  <2>1. PICK a \in proc[p].left :
             /\ tmuxKillSession(RowSession(a))
             /\ proc' = [proc EXCEPT ![p].left = proc[p].left \ {a}]
    BY <1>20 DEF CleanupKill
  <2>2. proc' \in [Procs -> Frame]
    BY <2>1, SetLeft, SetsTyped DEF TypeOK
  <2>3. session' \in [SessionNames -> SessionState]
    BY <1>20, <2>1, SessionType DEF CleanupKill, TypeOK
  <2> QED BY <1>20, <2>2, <2>3 DEF CleanupKill, TypeOK
<1>21. CASE CleanupKilled(p)
  <2>1. proc' \in [Procs -> Frame]
    BY <1>21, SetPcLeft, SetsTyped, LabelsKnown DEF CleanupKilled, TypeOK
  <2> QED BY <1>21, <2>1 DEF CleanupKilled, TypeOK
<1>22. CASE CleanupMark(p)
  <2>1. PICK a \in proc[p].left :
             /\ UpdateAgentStatus(a, "stopped") \/ agent' = agent
             /\ proc' = [proc EXCEPT ![p].left = proc[p].left \ {a}]
    BY <1>22 DEF CleanupMark
  <2>2. proc' \in [Procs -> Frame]
    BY <2>1, SetLeft, SetsTyped DEF TypeOK
  <2>3. agent' \in [Agents -> AgentRow]
    BY <1>22, <2>1, AgentType, SetsTyped
      DEF CleanupMark, AgentRow, AgentStatus, TypeOK
  <2> QED BY <1>22, <2>2, <2>3 DEF CleanupMark, TypeOK
<1>23. CASE CleanupMarked(p)
  <2>1. proc' \in [Procs -> Frame]
    BY <1>23, SetPcWs, SetsTyped, LabelsKnown DEF CleanupMarked, TypeOK
  <2> QED BY <1>23, <2>1 DEF CleanupMarked, TypeOK
<1>24. CASE CleanupDelete(p)
  <2>1. PICK w \in proc[p].ws :
             workspace' \subseteq workspace /\ dirty' \subseteq dirty
    BY <1>24 DEF CleanupDelete
  <2>2. proc' \in [Procs -> Frame]
    <3>1. \/ \E v \in proc[p].ws : proc' = [proc EXCEPT ![p].ws = proc[p].ws \ {v}]
          \/ proc' = [proc EXCEPT ![p] = Idle]
      BY <1>24 DEF CleanupDelete, Return
    <3>2. CASE \E v \in proc[p].ws : proc' = [proc EXCEPT ![p].ws = proc[p].ws \ {v}]
      <4>1. PICK v \in proc[p].ws :
                 proc' = [proc EXCEPT ![p].ws = proc[p].ws \ {v}]
        BY <3>2
      <4>2. proc[p].ws \ {v} \in SUBSET Tickets
        BY SetsTyped
      <4> QED BY <4>1, <4>2, SetWs DEF TypeOK
    <3>3. CASE proc' = [proc EXCEPT ![p] = Idle]
      BY <3>3, SetIdle DEF TypeOK
    <3> QED BY <3>1, <3>2, <3>3
  <2>3. workspace' \in SUBSET Tickets /\ dirty' \in SUBSET Tickets
    BY <1>24, <2>1, SetsTyped DEF CleanupDelete, TypeOK
  <2> QED BY <1>24, <2>2, <2>3 DEF CleanupDelete, TypeOK
<1>25. CASE CleanupStopping(p)
  <2>1. proc' \in [Procs -> Frame]
    BY <1>25, SetPc, LabelsKnown, SetIdle DEF CleanupStopping, TypeOK, Goto, Return
  <2>2. status' \in RunStatus \union {"none"}
    BY <1>25, StatusType DEF CleanupStopping, RunStatus, TypeOK, transitionRun
  <2> QED BY <1>25, <2>1, <2>2 DEF CleanupStopping, TypeOK
<1>26. CASE CleanupStopped(p)
  <2>1. proc' \in [Procs -> Frame]
    BY <1>26, SetIdle DEF CleanupStopped, TypeOK, Return
  <2>2. status' \in RunStatus \union {"none"}
    BY <1>26, StatusType DEF CleanupStopped, RunStatus, TypeOK, transitionRun
  <2> QED BY <1>26, <2>1, <2>2 DEF CleanupStopped, TypeOK
<1> QED BY <1>1, <1>2, <1>3, <1>4, <1>5, <1>6, <1>7, <1>8, <1>9, <1>10, <1>11,
           <1>12, <1>13, <1>14, <1>15, <1>16, <1>17, <1>18, <1>19,
   <1>20, <1>21, <1>22, <1>23, <1>24, <1>25, <1>26
   DEF AgentsStep

LEMMA SignalsType ==
  ASSUME TypeOK, NEW p \in Procs, SignalsStep(p)
  PROVE  TypeOK'
<1> USE DEF rows, world
<1>1. CASE StatusRead(p)
  <2>1. proc' \in [Procs -> Frame]
    <3>1. \/ status \in RunStatus /\ proc' = [proc EXCEPT ![p].pc = "status_load",
                                                          ![p].seen = status]
          \/ proc' = [proc EXCEPT ![p] = Idle]
      BY <1>1 DEF StatusRead, TypeOK, Return
    <3>2. CASE /\ status \in RunStatus
               /\ proc' = [proc EXCEPT ![p].pc = "status_load", ![p].seen = status]
      BY <3>2, SetPcSeen, LabelsKnown DEF TypeOK
    <3>3. CASE proc' = [proc EXCEPT ![p] = Idle]
      BY <3>3, SetIdle DEF TypeOK
    <3> QED BY <3>1, <3>2, <3>3
  <2> QED BY <1>1, <2>1 DEF StatusRead, TypeOK
<1>2. CASE StatusLoad(p)
  <2>1. proc' \in [Procs -> Frame]
    BY <1>2, SetPcSnapLeft, SetsTyped, LabelsKnown DEF StatusLoad, TypeOK
  <2> QED BY <1>2, <2>1 DEF StatusLoad, TypeOK
<1>3. CASE StatusProbe(p)
  <2>1. proc' \in [Procs -> Frame]
    <3>1. PICK a \in proc[p].left : \E h \in Health(p, a) :
             proc' = [proc EXCEPT ![p].pc = "status_mark", ![p].verdict = h]
      BY <1>3 DEF StatusProbe
    <3>2. PICK h \in Health(p, a) :
             proc' = [proc EXCEPT ![p].pc = "status_mark", ![p].verdict = h]
      BY <3>1
    <3>3. h \in AgentRow
      BY <3>2, SetsTyped, HealthType
    <3> QED BY <3>2, <3>3, SetPcVerdict, LabelsKnown DEF TypeOK
  <2> QED BY <1>3, <2>1 DEF StatusProbe, TypeOK
<1>4. CASE StatusMark(p)
  <2>1. PICK a \in proc[p].left :
             UpdateAgentStatus(a, proc[p].verdict) \/ agent' = agent
    BY <1>4 DEF StatusMark
  <2>2. proc' \in [Procs -> Frame]
    <3>1. PICK b \in proc[p].left :
             proc' = [proc EXCEPT ![p].pc = "status_probe",
                                  ![p].left = proc[p].left \ {b},
                                  ![p].verdict = "absent"]
      BY <1>4 DEF StatusMark
    <3>2. proc[p].left \ {b} \in SUBSET Agents /\ "absent" \in AgentRow
      BY SetsTyped DEF AgentRow
    <3> QED BY <3>1, <3>2, SetPcLeftVerdict, LabelsKnown DEF TypeOK
  <2>3. agent' \in [Agents -> AgentRow]
    BY <1>4, <2>1, AgentType, SetsTyped
      DEF StatusMark, AgentRow, AgentStatus, TypeOK
  <2> QED BY <1>4, <2>2, <2>3 DEF StatusMark, TypeOK
<1>5. CASE StatusReload(p)
  <2>1. proc' \in [Procs -> Frame]
    <3>1. PICK rs \in {agent} \union (IF StoreErrorIgnored THEN {NoAgents} ELSE {}) :
             proc' = [proc EXCEPT
                        ![p].snap = rs,
                        ![p].pc = IF /\ Bootstrap
                                     /\ proc[p].seen \in {"running", "awaiting_guidance"}
                                  THEN "status_check" ELSE "status_progress",
                        ![p].left = {a \in Agents : rs[a] # "absent"}]
      BY <1>5 DEF StatusReload
    <3>2. rs \in [Agents -> AgentRow]
      BY <3>1 DEF TypeOK, NoAgents, AgentRow
    <3>3. {a \in Agents : rs[a] # "absent"} \in SUBSET Agents
      OBVIOUS
    <3> QED BY <3>1, <3>2, <3>3, SetSnapPcLeft, LabelsKnown DEF TypeOK
  <2> QED BY <1>5, <2>1 DEF StatusReload, TypeOK
<1>6. CASE StatusFailRun(p)
  <2>1. proc' \in [Procs -> Frame]
    BY <1>6, SetPc, LabelsKnown DEF StatusFailRun, TypeOK, Goto
  <2>2. status' \in RunStatus \union {"none"}
    BY <1>6, StatusType DEF StatusFailRun, RunStatus, TypeOK, transitionRun
  <2> QED BY <1>6, <2>1, <2>2 DEF StatusFailRun, TypeOK
<1>7. CASE StatusSignals(p)
  <2>1. proc' \in [Procs -> Frame]
    BY <1>7, SetPc, LabelsKnown DEF StatusSignals, TypeOK, Goto
  <2> QED BY <1>7, <2>1 DEF StatusSignals, TypeOK
<1>8. CASE StatusAwait(p)
  <2>1. proc' \in [Procs -> Frame]
    BY <1>8, SetPc, LabelsKnown DEF StatusAwait, TypeOK, Goto
  <2>2. status' \in RunStatus \union {"none"}
    BY <1>8, StatusType DEF StatusAwait, RunStatus, TypeOK, transitionRun
  <2> QED BY <1>8, <2>1, <2>2 DEF StatusAwait, TypeOK
<1>9. CASE StatusResume(p)
  <2>1. proc' \in [Procs -> Frame]
    BY <1>9, SetPc, LabelsKnown DEF StatusResume, TypeOK, Goto
  <2>2. status' \in RunStatus \union {"none"}
    BY <1>9, StatusType DEF StatusResume, RunStatus, TypeOK, transitionRun
  <2> QED BY <1>9, <2>1, <2>2 DEF StatusResume, TypeOK
<1>10. CASE StatusComplete(p)
  <2>1. proc' \in [Procs -> Frame]
    BY <1>10, SetPc, LabelsKnown DEF StatusComplete, TypeOK, Goto
  <2>2. status' \in RunStatus \union {"none"}
    BY <1>10, StatusType DEF StatusComplete, RunStatus, TypeOK, transitionRun
  <2> QED BY <1>10, <2>1, <2>2 DEF StatusComplete, TypeOK
<1>11. CASE StatusProgress(p)
  <2>1. PICK a \in proc[p].left :
             /\ UpdateAgentStatus(a, proc[p].snap[a]) \/ agent' = agent
             /\ proc' = [proc EXCEPT ![p].left = proc[p].left \ {a}]
    BY <1>11 DEF StatusProgress
  <2>2. proc' \in [Procs -> Frame]
    BY <2>1, SetLeft, SetsTyped DEF TypeOK
  <2>3. agent' \in [Agents -> AgentRow]
    BY <1>11, <2>1, AgentType, SetsTyped
      DEF StatusProgress, AgentRow, AgentStatus, TypeOK
  <2> QED BY <1>11, <2>2, <2>3 DEF StatusProgress, TypeOK
<1>12. CASE StatusEnd(p)
  <2>1. proc' \in [Procs -> Frame]
    BY <1>12, SetIdle DEF StatusEnd, TypeOK, Return
  <2> QED BY <1>12, <2>1 DEF StatusEnd, TypeOK
<1>13. CASE GuideRead(p)
  <2>1. proc' \in [Procs -> Frame]
    BY <1>13, SetPc, LabelsKnown, SetIdle DEF GuideRead, TypeOK, Goto, Return
  <2> QED BY <1>13, <2>1 DEF GuideRead, TypeOK
<1>14. CASE GuideLoad(p)
  <2>1. proc' \in [Procs -> Frame]
    BY <1>14, SetPcSnap, LabelsKnown DEF GuideLoad, TypeOK
  <2> QED BY <1>14, <2>1 DEF GuideLoad, TypeOK
<1>15. CASE GuideTarget(p)
  <2>1. proc' \in [Procs -> Frame]
    <3>1. \/ \E a \in InSnapshot(p) :
                   proc' = [proc EXCEPT ![p].pc = "guide_answer", ![p].left = {a}]
          \/ proc' = [proc EXCEPT ![p] = Idle]
      BY <1>15 DEF GuideTarget, Return, IsFirst
    <3>2. CASE \E a \in InSnapshot(p) :
                   proc' = [proc EXCEPT ![p].pc = "guide_answer", ![p].left = {a}]
      <4>1. PICK a \in InSnapshot(p) :
                 proc' = [proc EXCEPT ![p].pc = "guide_answer", ![p].left = {a}]
        BY <3>2
      <4>2. {a} \in SUBSET Agents
        BY SetsTyped
      <4> QED BY <4>1, <4>2, SetPcLeft, LabelsKnown DEF TypeOK
    <3>3. CASE proc' = [proc EXCEPT ![p] = Idle]
      BY <3>3, SetIdle DEF TypeOK
    <3> QED BY <3>1, <3>2, <3>3
  <2> QED BY <1>15, <2>1 DEF GuideTarget, TypeOK
<1>16. CASE GuideAnswer(p)
  <2>1. proc' \in [Procs -> Frame]
    BY <1>16, SetPc, LabelsKnown DEF GuideAnswer, TypeOK, Goto
  <2>2. control' \in [Names -> ControlState]
    <3>1. PICK a \in proc[p].left :
             \/ control' = [control EXCEPT ![a[2]].pending = FALSE]
             \/ control' = control
      BY <1>16 DEF GuideAnswer
    <3>2. CASE control' = [control EXCEPT ![a[2]].pending = FALSE]
      <4>1. a[2] \in Names
        BY SetsTyped DEF Agents
      <4>2. [control[a[2]] EXCEPT !.pending = FALSE] \in ControlState
        BY <4>1 DEF TypeOK, ControlState
      <4> QED BY <3>2, <4>1, <4>2 DEF TypeOK
    <3> QED BY <3>1, <3>2 DEF TypeOK
  <2> QED BY <1>16, <2>1, <2>2 DEF GuideAnswer, TypeOK
<1>17. CASE GuideGo(p)
  <2>1. proc' \in [Procs -> Frame]
    BY <1>17, SetIdle DEF GuideGo, TypeOK, Return
  <2>2. status' \in RunStatus \union {"none"}
    BY <1>17, StatusType DEF GuideGo, RunStatus, TypeOK, transitionRun
  <2> QED BY <1>17, <2>1, <2>2 DEF GuideGo, TypeOK
<1> QED BY <1>1, <1>2, <1>3, <1>4, <1>5, <1>6, <1>7, <1>8, <1>9, <1>10, <1>11,
           <1>12, <1>13, <1>14, <1>15, <1>16, <1>17 DEF SignalsStep

LEMMA CloseType ==
  ASSUME TypeOK, NEW p \in Procs, CloseStep(p)
  PROVE  TypeOK'
<1> USE DEF rows, world
<1>1. CASE CloseRead(p)
  <2>1. proc' \in [Procs -> Frame]
    BY <1>1, SetPc, LabelsKnown, SetIdle DEF CloseRead, TypeOK, Goto, Return
  <2> QED BY <1>1, <2>1 DEF CloseRead, TypeOK
<1>2. CASE CloseLoad(p)
  <2>1. proc' \in [Procs -> Frame]
    BY <1>2, SetPcSnap, LabelsKnown DEF CloseLoad, TypeOK
  <2> QED BY <1>2, <2>1 DEF CloseLoad, TypeOK
<1>3. CASE CloseDocs(p)
  <2>1. proc' \in [Procs -> Frame]
    <3>1. \/ proc' = [proc EXCEPT ![p].pc = "close_dirty", ![p].ws = RunWorkspaces(p)]
          \/ proc' = [proc EXCEPT ![p] = Idle]
      BY <1>3 DEF CloseDocs, Return
    <3>2. CASE proc' = [proc EXCEPT ![p].pc = "close_dirty",
                                    ![p].ws = RunWorkspaces(p)]
      BY <3>2, SetPcWs, LabelsKnown, SetsTyped DEF TypeOK
    <3>3. CASE proc' = [proc EXCEPT ![p] = Idle]
      BY <3>3, SetIdle DEF TypeOK
    <3> QED BY <3>1, <3>2, <3>3
  <2> QED BY <1>3, <2>1 DEF CloseDocs, TypeOK
<1>4. CASE CloseDirty(p)
  <2>1. proc' \in [Procs -> Frame]
    <3>1. \/ \E w \in proc[p].ws : proc' = [proc EXCEPT ![p].ws = proc[p].ws \ {w}]
          \/ proc' = [proc EXCEPT ![p] = Idle]
      BY <1>4 DEF CloseDirty, Return
    <3>2. CASE \E w \in proc[p].ws : proc' = [proc EXCEPT ![p].ws = proc[p].ws \ {w}]
      <4>1. PICK w \in proc[p].ws :
                 proc' = [proc EXCEPT ![p].ws = proc[p].ws \ {w}]
        BY <3>2
      <4>2. proc[p].ws \ {w} \in SUBSET Tickets
        BY SetsTyped
      <4> QED BY <4>1, <4>2, SetWs DEF TypeOK
    <3>3. CASE proc' = [proc EXCEPT ![p] = Idle]
      BY <3>3, SetIdle DEF TypeOK
    <3> QED BY <3>1, <3>2, <3>3
  <2> QED BY <1>4, <2>1 DEF CloseDirty, TypeOK
<1>5. CASE CloseSignals(p)
  <2>1. proc' \in [Procs -> Frame]
    BY <1>5, SetPc, LabelsKnown, SetIdle DEF CloseSignals, TypeOK, Goto, Return
  <2> QED BY <1>5, <2>1 DEF CloseSignals, TypeOK
<1>6. CASE CloseGo(p)
  <2>1. proc' \in [Procs -> Frame]
    BY <1>6, SetPcWs, SetsTyped, LabelsKnown DEF CloseGo, TypeOK
  <2>2. status' \in RunStatus \union {"none"}
    BY <1>6, StatusType DEF CloseGo, RunStatus, TypeOK, transitionRun
  <2> QED BY <1>6, <2>1, <2>2 DEF CloseGo, TypeOK
<1>7. CASE CloseMerge(p)
  <2>1. proc' \in [Procs -> Frame]
    <3>1. \/ \E w \in proc[p].ws : proc' = [proc EXCEPT ![p].ws = proc[p].ws \ {w}]
          \/ Goto(p, "close_fail")
      BY <1>7 DEF CloseMerge
    <3>2. CASE \E w \in proc[p].ws : proc' = [proc EXCEPT ![p].ws = proc[p].ws \ {w}]
      <4>1. PICK w \in proc[p].ws :
                 proc' = [proc EXCEPT ![p].ws = proc[p].ws \ {w}]
        BY <3>2
      <4>2. proc[p].ws \ {w} \in SUBSET Tickets
        BY SetsTyped
      <4> QED BY <4>1, <4>2, SetWs DEF TypeOK
    <3>3. CASE Goto(p, "close_fail")
      BY <3>3, SetPc, LabelsKnown DEF TypeOK, Goto
    <3> QED BY <3>1, <3>2, <3>3
  <2>2. merged' \in [Tickets -> {"no", "clean", "dirty"}]
    BY <1>7 DEF CloseMerge, TypeOK
  <2> QED BY <1>7, <2>1, <2>2 DEF CloseMerge, TypeOK
<1>8. CASE CloseTickets(p)
  <2>1. proc' \in [Procs -> Frame]
    BY <1>8, SetPc, LabelsKnown DEF CloseTickets, TypeOK, Goto
  <2> QED BY <1>8, <2>1 DEF CloseTickets, TypeOK
<1>9. CASE CloseEnd(p)
  <2>1. proc' \in [Procs -> Frame]
    BY <1>9, SetIdle DEF CloseEnd, TypeOK, Return
  <2>2. status' \in RunStatus \union {"none"}
    BY <1>9, StatusType DEF CloseEnd, RunStatus, TypeOK, transitionRun
  <2> QED BY <1>9, <2>1, <2>2 DEF CloseEnd, TypeOK
<1>10. CASE CloseFail(p)
  <2>1. proc' \in [Procs -> Frame]
    BY <1>10, SetIdle DEF CloseFail, TypeOK, Return
  <2>2. status' \in RunStatus \union {"none"}
    BY <1>10, StatusType DEF CloseFail, RunStatus, TypeOK, transitionRun
  <2> QED BY <1>10, <2>1, <2>2 DEF CloseFail, TypeOK
<1> QED BY <1>1, <1>2, <1>3, <1>4, <1>5, <1>6, <1>7, <1>8, <1>9, <1>10 DEF CloseStep

-----------------------------------------------------------------------------
(* The beginning and the end of commands, and the environment.             *)

LEMMA IssueType ==
  ASSUME TypeOK, NEW p \in Procs, NEW op \in AllOps, Issue(p, op)
  PROVE  TypeOK'
<1> USE DEF rows, world
<1>1. proc' \in [Procs -> Frame]
  BY SetPcOp, LabelsKnown DEF Issue, TypeOK
<1>2. issued' \in Nat
  BY DEF Issue, TypeOK
<1> QED BY <1>1, <1>2 DEF Issue, TypeOK

LEMMA AbortType ==
  ASSUME TypeOK, NEW p \in Procs, Abort(p)
  PROVE  TypeOK'
<1> USE DEF rows, world
<1>1. proc' \in [Procs -> Frame]
  BY SetIdle DEF Abort, Return, TypeOK
<1> QED BY <1>1 DEF Abort, TypeOK

LEMMA PostType ==
  ASSUME TypeOK, NEW n \in Names, Post(n)
  PROVE  TypeOK'
<1> USE DEF rows, world
<1>1. PICK c \in {[control[n] EXCEPT !.pending = TRUE],
                  [control[n] EXCEPT !.pending = FALSE],
                  [control[n] EXCEPT !.completed = TRUE]}
             \union {[control[n] EXCEPT !.validation = v] : v \in Validation} :
           control' = [control EXCEPT ![n] = c]
  BY DEF Post
<1>2. control[n] \in ControlState
  BY DEF TypeOK
<1>3. c \in ControlState
  BY <1>1, <1>2 DEF ControlState
<1> QED BY <1>1, <1>3 DEF Post, TypeOK

LEMMA EnvironmentType ==
  ASSUME TypeOK, Environment
  PROVE  TypeOK'
<1> USE DEF rows, world
<1>1. ASSUME NEW k \in SessionNames, AgentExits(k)
      PROVE  TypeOK'
  <2>1. session' \in [SessionNames -> SessionState]
    BY <1>1 DEF AgentExits, TypeOK, SessionState
  <2> QED BY <1>1, <2>1 DEF AgentExits, TypeOK
<1>2. ASSUME NEW k \in SessionNames, SessionLost(k)
      PROVE  TypeOK'
  <2>1. session' \in [SessionNames -> SessionState]
    BY <1>2 DEF SessionLost, TypeOK, SessionState
  <2> QED BY <1>2, <2>1 DEF SessionLost, TypeOK
<1>3. ASSUME NEW w \in Tickets, Edit(w)
      PROVE  TypeOK'
  BY <1>3 DEF Edit, TypeOK
<1>4. ASSUME NEW w \in Tickets, Commit(w)
      PROVE  TypeOK'
  BY <1>4 DEF Commit, TypeOK
<1> QED BY <1>1, <1>2, <1>3, <1>4, PostType DEF Environment

LEMMA InitType == Init => TypeOK
<1> SUFFICES ASSUME Init PROVE TypeOK
  OBVIOUS
<1>1. proc \in [Procs -> Frame]
  BY IdleType DEF Init
<1>2. control \in [Names -> ControlState]
  BY DEF Init, ControlState, Validation
<1>3. agent \in [Agents -> AgentRow]
  BY DEF Init, NoAgents, AgentRow
<1> QED BY <1>1, <1>2, <1>3 DEF Init, TypeOK, SyncState, SessionState

LEMMA NextType ==
  ASSUME TypeOK, [Next]_vars
  PROVE  TypeOK'
<1>1. ASSUME NEW p \in Procs, Step(p)
      PROVE  TypeOK'
  BY <1>1, PlanType, AgentsType, SignalsType, CloseType DEF Step
<1>2. CASE UNCHANGED vars
  BY <1>2 DEF vars, TypeOK
<1> QED BY <1>1, <1>2, IssueType, AbortType, EnvironmentType DEF Next

\* Every reachable state of a run is well typed, for any number of processes,
\* tickets and agents, whatever is issued and whatever fails.
THEOREM TypeCorrect == Spec => []TypeOK
BY InitType, NextType, PTL DEF Spec

=============================================================================
