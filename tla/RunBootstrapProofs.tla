------------------------- MODULE RunBootstrapProofs -------------------------
(***************************************************************************)
(* BootstrapNeedsSignal for every number of processes, tickets and agents. *)
(*                                                                         *)
(* The property is not inductive: a status query decides that the run is   *)
(* completed statements before it writes the transition, a close reads the *)
(* status before it writes closing and closed, and neither looks at the    *)
(* row again.  It holds because what they act on cannot be undone: agent   *)
(* rows are never deleted and a completion is never withdrawn.  The        *)
(* invariant says what each process relies on between its statements.      *)
(***************************************************************************)
EXTENDS RunLifecycleProofs

\* Some registered agent has signalled completion.
Signal == \E a \in Registered : control[a[2]].completed

Late == {"completed", "closing", "closed"}

\* The statements before which a process has found the run complete.
Claims == {"status_resolve", "status_complete", "close_load", "close_docs",
           "close_dirty", "close_go", "close_merge", "close_end", "close_fail"}

\* The statements at which a status query visits, or may still write, the
\* agents of its snapshot.
Following == {"status_probe", "status_mark", "status_check", "status_await",
              "status_resume", "status_resolve", "status_complete",
              "status_progress"}

\* An agent a process has read is registered; those it has still to visit are
\* agents it has read; what it found an agent to be is a status.
SnapshotKnown(p) == InSnapshot(p) \subseteq Registered
LeftKnown(p)     == proc[p].pc \in Following => proc[p].left \subseteq InSnapshot(p)
VerdictKnown(p)  == proc[p].pc = "status_mark" => proc[p].verdict # "absent"
ClaimHolds(p)    == Bootstrap /\ proc[p].pc \in Claims => Signal

FrameInv(p) == SnapshotKnown(p) /\ LeftKnown(p) /\ VerdictKnown(p) /\ ClaimHolds(p)

IInv ==
  /\ TypeOK
  /\ Bootstrap /\ status \in Late => Signal
  /\ \A p \in Procs : FrameInv(p)

\* No agent row is deleted, no completion is withdrawn.
Grows ==
  /\ Registered \subseteq Registered'
  /\ \A n \in Names : control[n].completed => control'[n].completed

\* A step of p writes its own frame only.
OnlyFrame(p) == \A q \in Procs \ {p} : proc'[q] = proc[q]

\* What almost every statement does: it makes no claim and follows no agents
\* that it did not before, and makes the run late only on a claim.
Keeps(p) ==
  /\ Grows
  /\ OnlyFrame(p)
  /\ proc'[p].snap \in {proc[p].snap, agent, NoAgents}
  /\ proc'[p].pc # "status_mark"
  /\ proc'[p].pc \in Following =>
       /\ proc[p].pc \in Following
       /\ proc'[p].left \subseteq proc[p].left
       /\ proc'[p].snap = proc[p].snap
  /\ proc'[p].pc \in Claims => proc[p].pc \in Claims \/ status \in Late
  /\ Bootstrap /\ status' \in Late => status \in Late \/ proc[p].pc \in Claims

-----------------------------------------------------------------------------
(* What a step that Keeps does for the invariant.                          *)

LEMMA SignalStable ==
  ASSUME TypeOK, Grows, Signal
  PROVE  Signal'
<1>1. PICK a \in Registered : control[a[2]].completed
  BY DEF Signal
<1>2. a[2] \in Names /\ a \in Registered'
  BY <1>1 DEF Grows, Registered, Agents
<1> QED BY <1>1, <1>2 DEF Grows, Signal

\* What the other processes rely on survives every step.
LEMMA OthersKept ==
  ASSUME IInv, NEW p \in Procs, Grows, OnlyFrame(p), NEW q \in Procs, q # p
  PROVE  FrameInv(q)'
<1>1. proc'[q] = proc[q] /\ FrameInv(q)
  BY DEF OnlyFrame, IInv
<1>2. Signal => Signal'
  BY SignalStable DEF IInv
<1> QED BY <1>1, <1>2 DEF FrameInv, SnapshotKnown, LeftKnown, VerdictKnown,
                          ClaimHolds, InSnapshot, Grows

LEMMA KeepsIInv ==
  ASSUME IInv, TypeOK', NEW p \in Procs, Keeps(p)
  PROVE  IInv'
<1>1. Signal => Signal'
  BY SignalStable DEF IInv, Keeps
<1>2. FrameInv(p)
  BY DEF IInv
<1>3. Bootstrap /\ (status \in Late \/ proc[p].pc \in Claims) => Signal
  BY <1>2 DEF IInv, FrameInv, ClaimHolds
<1>4. SnapshotKnown(p)'
  BY <1>2 DEF Keeps, Grows, FrameInv, SnapshotKnown, InSnapshot, Registered, NoAgents
<1>5. LeftKnown(p)'
  BY <1>2 DEF Keeps, FrameInv, LeftKnown, InSnapshot
<1>6. VerdictKnown(p)'
  BY DEF Keeps, VerdictKnown
<1>7. ClaimHolds(p)'
  BY <1>1, <1>3 DEF Keeps, ClaimHolds
<1>8. \A q \in Procs : q # p => FrameInv(q)'
  BY OthersKept DEF Keeps
<1>9. Bootstrap /\ status' \in Late => Signal'
  BY <1>1, <1>3 DEF Keeps
<1> QED BY <1>4, <1>5, <1>6, <1>7, <1>8, <1>9 DEF IInv, FrameInv

-----------------------------------------------------------------------------
(* The statements that keep it: all but six of the status query.           *)

LEMMA PlanKeeps ==
  ASSUME TypeOK, NEW p \in Procs, PlanStep(p)
  PROVE  Keeps(p)
<1> USE DEF TypeOK, Frame, Keeps, Grows, OnlyFrame, Registered, At, Goto, Return,
            Idle, transitionRun, UpdateAgentStatus, rows, world, Following, Claims, Late
<1>1. CASE RunCreate(p)
  BY <1>1 DEF RunCreate
<1>2. CASE RunPlanning(p)
  BY <1>2 DEF RunPlanning
<1>3. CASE RunSaveSteps(p)
  BY <1>3 DEF RunSaveSteps
<1>4. CASE RunSeedAgent(p)
  BY <1>4 DEF RunSeedAgent
<1>5. CASE RunGo(p)
  BY <1>5 DEF RunGo
<1>6. CASE ResumeRead(p)
  BY <1>6 DEF ResumeRead
<1>7. CASE ResumeGo(p)
  BY <1>7 DEF ResumeGo
<1>8. CASE ResumeLoad(p)
  BY <1>8 DEF ResumeLoad
<1>9. CASE StepPick(p)
  BY <1>9 DEF StepPick
<1>10. CASE StepBegin(p)
  BY <1>10 DEF StepBegin
<1>11. CASE ShellStep(p)
  BY <1>11 DEF ShellStep
<1>12. CASE DocsPending(p)
  BY <1>12 DEF DocsPending
<1>13. CASE DocsCopy(p)
  BY <1>13 DEF DocsCopy
<1>14. CASE TmuxKill(p)
  BY <1>14 DEF TmuxKill
<1>15. CASE TmuxNew(p)
  BY <1>15 DEF TmuxNew
<1>16. CASE TmuxWait(p)
  BY <1>16 DEF TmuxWait
<1>17. CASE TmuxMark(p)
  BY <1>17 DEF TmuxMark
<1>18. CASE StepDone(p)
  BY <1>18 DEF StepDone
<1>19. CASE StepFail(p)
  BY <1>19 DEF StepFail
<1>20. CASE ExecFailed(p)
  BY <1>20 DEF ExecFailed
<1>21. CASE ExecFinished(p)
  BY <1>21 DEF ExecFinished
<1>22. CASE ExecStoreFails(p)
  BY <1>22 DEF ExecStoreFails
<1>23. CASE StepStoreFails(p)
  BY <1>23 DEF StepStoreFails
<1> QED BY <1>1, <1>2, <1>3, <1>4, <1>5, <1>6, <1>7, <1>8, <1>9, <1>10, <1>11,
    <1>12, <1>13, <1>14, <1>15, <1>16, <1>17, <1>18, <1>19,
   <1>20, <1>21, <1>22, <1>23
   DEF PlanStep

LEMMA AgentsKeeps ==
  ASSUME TypeOK, NEW p \in Procs, AgentsStep(p)
  PROVE  Keeps(p)
<1> USE DEF TypeOK, Frame, Keeps, Grows, OnlyFrame, Registered, At, Goto, Return,
            Idle, transitionRun, UpdateAgentStatus, rows, world, Following, Claims, Late
<1>1. CASE StopRead(p)
  BY <1>1 DEF StopRead
<1>2. CASE StopGo(p)
  BY <1>2 DEF StopGo
<1>3. CASE StopLoad(p)
  BY <1>3 DEF StopLoad
<1>4. CASE StopKill(p)
  BY <1>4 DEF StopKill
<1>5. CASE StopMark(p)
  BY <1>5 DEF StopMark
<1>6. CASE StopEnd(p)
  BY <1>6 DEF StopEnd
<1>7. CASE RestartRead(p)
  BY <1>7 DEF RestartRead
<1>8. CASE RestartLoad(p)
  BY <1>8 DEF RestartLoad
<1>9. CASE RestartGo(p)
  BY <1>9 DEF RestartGo
<1>10. CASE RestartKill(p)
  BY <1>10 DEF RestartKill
<1>11. CASE RestartNew(p)
  BY <1>11 DEF RestartNew
<1>12. CASE RestartWait(p)
  BY <1>12 DEF RestartWait
<1>13. CASE RestartMark(p)
  BY <1>13 DEF RestartMark
<1>14. CASE IterateRead(p)
  BY <1>14 DEF IterateRead
<1>15. CASE IterateLoad(p)
  BY <1>15 DEF IterateLoad
<1>16. CASE IterateFeedback(p)
  BY <1>16 DEF IterateFeedback
<1>17. CASE IterateRestart(p)
  BY <1>17 DEF IterateRestart
<1>18. CASE CleanupRead(p)
  BY <1>18 DEF CleanupRead
<1>19. CASE CleanupLoad(p)
  <2>1. proc'[p].pc = "cleanup_kill" /\ proc'[p].snap = agent
    BY <1>19 DEF CleanupLoad
  <2>2. OnlyFrame(p)
    BY <1>19 DEF CleanupLoad
  <2> QED BY <1>19, <2>1, <2>2 DEF CleanupLoad
<1>20. CASE CleanupKill(p)
  BY <1>20 DEF CleanupKill
<1>21. CASE CleanupKilled(p)
  BY <1>21 DEF CleanupKilled
<1>22. CASE CleanupMark(p)
  BY <1>22 DEF CleanupMark
<1>23. CASE CleanupMarked(p)
  BY <1>23 DEF CleanupMarked
<1>24. CASE CleanupDelete(p)
  BY <1>24 DEF CleanupDelete
<1>25. CASE CleanupStopping(p)
  BY <1>25 DEF CleanupStopping
<1>26. CASE CleanupStopped(p)
  BY <1>26 DEF CleanupStopped
<1> QED BY <1>1, <1>2, <1>3, <1>4, <1>5, <1>6, <1>7, <1>8, <1>9, <1>10, <1>11,
    <1>12, <1>13, <1>14, <1>15, <1>16, <1>17, <1>18, <1>19,
   <1>20, <1>21, <1>22, <1>23, <1>24, <1>25, <1>26
   DEF AgentsStep

LEMMA CloseKeeps ==
  ASSUME TypeOK, NEW p \in Procs, CloseStep(p)
  PROVE  Keeps(p)
<1> USE DEF TypeOK, Frame, Keeps, Grows, OnlyFrame, Registered, At, Goto, Return,
            Idle, transitionRun, UpdateAgentStatus, rows, world, Following, Claims, Late
<1>1. CASE CloseRead(p)
  BY <1>1 DEF CloseRead
<1>2. CASE CloseLoad(p)
  BY <1>2 DEF CloseLoad
<1>3. CASE CloseDocs(p)
  BY <1>3 DEF CloseDocs
<1>4. CASE CloseDirty(p)
  BY <1>4 DEF CloseDirty
<1>5. CASE CloseSignals(p)
  BY <1>5 DEF CloseSignals
<1>6. CASE CloseGo(p)
  BY <1>6 DEF CloseGo
<1>7. CASE CloseMerge(p)
  BY <1>7 DEF CloseMerge
<1>8. CASE CloseTickets(p)
  BY <1>8 DEF CloseTickets
<1>9. CASE CloseEnd(p)
  BY <1>9 DEF CloseEnd
<1>10. CASE CloseFail(p)
  BY <1>10 DEF CloseFail
<1> QED BY <1>1, <1>2, <1>3, <1>4, <1>5, <1>6, <1>7, <1>8, <1>9, <1>10 DEF CloseStep

LEMMA SignalsKeep ==
  ASSUME TypeOK, NEW p \in Procs,
         StatusRead(p) \/ StatusFailRun(p) \/ StatusAwait(p) \/ StatusResume(p)
         \/ StatusComplete(p) \/ StatusEnd(p) \/ GuideRead(p) \/ GuideLoad(p)
         \/ GuideTarget(p) \/ GuideAnswer(p) \/ GuideGo(p)
  PROVE  Keeps(p)
<1> USE DEF TypeOK, Frame, Keeps, Grows, OnlyFrame, Registered, At, Goto, Return,
            Idle, transitionRun, UpdateAgentStatus, rows, world, Following, Claims, Late
<1>1. CASE StatusRead(p)
  BY <1>1 DEF StatusRead
<1>2. CASE StatusFailRun(p)
  BY <1>2 DEF StatusFailRun
<1>3. CASE StatusAwait(p)
  BY <1>3 DEF StatusAwait
<1>4. CASE StatusResume(p)
  BY <1>4 DEF StatusResume
<1>5. CASE StatusComplete(p)
  BY <1>5 DEF StatusComplete
<1>6. CASE StatusEnd(p)
  BY <1>6 DEF StatusEnd
<1>7. CASE GuideRead(p)
  BY <1>7 DEF GuideRead
<1>8. CASE GuideLoad(p)
  BY <1>8 DEF GuideLoad
<1>9. CASE GuideTarget(p)
  <2>1. \/ \E a \in Agents :
           proc' = [proc EXCEPT ![p].pc = "guide_answer", ![p].left = {a}]
        \/ proc' = [proc EXCEPT ![p] = Idle]
    BY <1>9 DEF GuideTarget, InSnapshot
  <2>2. /\ proc'[p].pc \in {"guide_answer", "idle"}
        /\ proc'[p].snap \in {proc[p].snap, NoAgents}
        /\ OnlyFrame(p)
    BY <2>1
  <2> QED BY <1>9, <2>2 DEF GuideTarget
<1>10. CASE GuideAnswer(p)
  <2>1. \A n \in Names : control[n].completed => control'[n].completed
    <3>1. PICK a \in proc[p].left :
             \/ control' = [control EXCEPT ![a[2]].pending = FALSE]
             \/ control' = control
      BY <1>10 DEF GuideAnswer
    <3> QED BY <3>1 DEF ControlState
  <2> QED BY <1>10, <2>1 DEF GuideAnswer
<1>11. CASE GuideGo(p)
  BY <1>11 DEF GuideGo
<1> QED BY <1>1, <1>2, <1>3, <1>4, <1>5, <1>6, <1>7, <1>8, <1>9, <1>10, <1>11

-----------------------------------------------------------------------------
(* The statements that follow the agents, and the one that finds them done. *)

LEMMA HealthKnown ==
  ASSUME TypeOK, NEW p \in Procs, NEW a \in Agents, proc[p].snap[a] # "absent"
  PROVE  "absent" \notin Health(p, a)
<1>1. session[RowSession(a)] \in SessionState
  BY DEF TypeOK, RowSession, SessionNames
<1> QED BY <1>1 DEF Health, SessionState

LEMMA UpdateGrows ==
  ASSUME TypeOK, NEW a \in Agents, NEW st, st # "absent",
         UpdateAgentStatus(a, st) \/ agent' = agent, UNCHANGED control
  PROVE  Grows
BY DEF TypeOK, UpdateAgentStatus, Grows, Registered

\* The steps of a status query that read or visit agents.
LEMMA FollowingIInv ==
  ASSUME IInv, TypeOK', NEW p \in Procs,
         \/ StatusLoad(p) \/ StatusProbe(p) \/ StatusMark(p)
         \/ StatusReload(p) \/ StatusSignals(p) \/ StatusProgress(p)
  PROVE  IInv'
<1> USE DEF rows, world, At, Goto
<1>1. SUFFICES /\ Grows /\ OnlyFrame(p) /\ UNCHANGED status
               /\ FrameInv(p)'
  <2>1. Grows /\ OnlyFrame(p) /\ UNCHANGED status /\ FrameInv(p)' => IInv'
    BY OthersKept, SignalStable DEF IInv
  <2> QED BY <2>1
<1>2. FrameInv(p) /\ (Signal /\ Grows => Signal')
  BY SignalStable DEF IInv
<1>0. TypeOK
  BY DEF IInv
<1>3. CASE StatusLoad(p)
  <2>1. /\ proc'[p].pc = "status_probe" /\ proc'[p].snap = agent
        /\ proc'[p].left = Registered /\ OnlyFrame(p)
    BY <1>3, <1>0 DEF StatusLoad, OnlyFrame, TypeOK, Frame
  <2>2. Grows
    BY <1>3 DEF StatusLoad, Grows, Registered
  <2> QED BY <1>3, <2>1, <2>2
          DEF StatusLoad, FrameInv, SnapshotKnown, LeftKnown, VerdictKnown,
              ClaimHolds,
              Claims, InSnapshot, Registered
<1>4. CASE StatusProbe(p)
  <2>1. PICK a \in proc[p].left : \E h \in Health(p, a) :
               proc' = [proc EXCEPT ![p].pc = "status_mark", ![p].verdict = h]
    BY <1>4 DEF StatusProbe
  <2>2. PICK h \in Health(p, a) :
               proc' = [proc EXCEPT ![p].pc = "status_mark", ![p].verdict = h]
    BY <2>1
  <2>3. a \in Agents /\ proc[p].snap[a] # "absent"
    BY <1>2, <1>4, <1>0
      DEF StatusProbe, FrameInv, LeftKnown, Following, InSnapshot, TypeOK, Frame
  <2>4. h # "absent"
    BY <2>2, <2>3, <1>0, HealthKnown
  <2>5. /\ proc'[p].pc = "status_mark" /\ proc'[p].snap = proc[p].snap
        /\ proc'[p].left = proc[p].left /\ proc'[p].verdict = h /\ OnlyFrame(p)
    BY <2>2, <1>0 DEF OnlyFrame, TypeOK, Frame
  <2>6. Grows
    BY <1>4 DEF StatusProbe, Grows, Registered
  <2>7. SnapshotKnown(p)' /\ LeftKnown(p)'
    BY <1>2, <1>4, <2>5, <2>6
       DEF StatusProbe, FrameInv, SnapshotKnown, LeftKnown, Following, InSnapshot,
           Grows
  <2> QED BY <1>4, <2>4, <2>5, <2>6, <2>7
          DEF StatusProbe, FrameInv, VerdictKnown, ClaimHolds, Claims
<1>5. CASE StatusMark(p)
  <2>1. PICK a \in proc[p].left :
               /\ UpdateAgentStatus(a, proc[p].verdict) \/ agent' = agent
               /\ proc' = [proc EXCEPT ![p].pc = "status_probe",
                                       ![p].left = proc[p].left \ {a},
                                       ![p].verdict = "absent"]
    BY <1>5 DEF StatusMark
  <2>2. a \in Agents /\ proc[p].verdict # "absent"
    BY <1>2, <1>5, <1>0 DEF StatusMark, FrameInv, VerdictKnown, TypeOK, Frame
  <2>3. Grows
    BY <1>5, <1>0, <2>1, <2>2, UpdateGrows DEF StatusMark
  <2>4. /\ proc'[p].pc = "status_probe" /\ proc'[p].snap = proc[p].snap
        /\ proc'[p].left \subseteq proc[p].left /\ OnlyFrame(p)
    BY <2>1, <1>0 DEF OnlyFrame, TypeOK, Frame
  <2> QED BY <1>2, <1>5, <2>3, <2>4
          DEF StatusMark, FrameInv, SnapshotKnown, LeftKnown, VerdictKnown,
              ClaimHolds, Claims, Following, InSnapshot, Grows
<1>6. CASE StatusReload(p)
  <2>1. PICK rs \in {agent} \union (IF StoreErrorIgnored THEN {NoAgents} ELSE {}) :
               proc' = [proc EXCEPT
                          ![p].snap = rs,
                          ![p].pc = IF /\ Bootstrap
                                       /\ proc[p].seen \in {"running", "awaiting_guidance"}
                                    THEN "status_check" ELSE "status_progress",
                          ![p].left = {a \in Agents : rs[a] # "absent"}]
    BY <1>6 DEF StatusReload
  <2>2. /\ proc'[p].pc \in {"status_check", "status_progress"}
        /\ proc'[p].snap = rs
        /\ proc'[p].left = {a \in Agents : rs[a] # "absent"} /\ OnlyFrame(p)
    BY <2>1, <1>0 DEF OnlyFrame, TypeOK, Frame
  <2>3. Grows
    BY <1>6 DEF StatusReload, Grows, Registered
  <2>4. SnapshotKnown(p)'
    BY <1>6, <2>1, <2>2
      DEF StatusReload, SnapshotKnown, InSnapshot, Registered, NoAgents
  <2> QED BY <1>6, <2>2, <2>3, <2>4
          DEF StatusReload, FrameInv, LeftKnown, VerdictKnown, ClaimHolds, Claims,
              InSnapshot
<1>7. CASE StatusSignals(p)
  <2>1. /\ proc'[p].snap = proc[p].snap /\ proc'[p].left = proc[p].left
        /\ OnlyFrame(p)
    BY <1>7, <1>0 DEF StatusSignals, OnlyFrame, TypeOK, Frame
  <2>2. /\ proc'[p].pc # "status_mark"
        /\ proc'[p].pc \in Claims => AllComplete(InSnapshot(p))
    BY <1>7, <1>0 DEF StatusSignals, Claims, TypeOK, Frame
  <2>3. Grows
    BY <1>7 DEF StatusSignals, Grows, Registered
  <2>4. AllComplete(InSnapshot(p)) => Signal
    BY <1>2 DEF AllComplete, FrameInv, SnapshotKnown, Signal
  <2>5. SnapshotKnown(p)' /\ LeftKnown(p)'
    BY <1>2, <1>7, <2>1, <2>3
       DEF StatusSignals, FrameInv, SnapshotKnown, LeftKnown, Following,
           InSnapshot, Grows
  <2>6. VerdictKnown(p)' /\ ClaimHolds(p)'
    BY <1>2, <2>2, <2>3, <2>4 DEF VerdictKnown, ClaimHolds
  <2>7. UNCHANGED status
    BY <1>7 DEF StatusSignals
  <2> QED BY <2>1, <2>3, <2>5, <2>6, <2>7 DEF FrameInv
<1>8. CASE StatusProgress(p)
  <2>1. PICK a \in proc[p].left :
               /\ UpdateAgentStatus(a, proc[p].snap[a]) \/ agent' = agent
               /\ proc' = [proc EXCEPT ![p].left = proc[p].left \ {a}]
    BY <1>8 DEF StatusProgress
  <2>2. a \in Agents /\ proc[p].snap[a] # "absent"
    BY <1>2, <1>8, <1>0
      DEF StatusProgress, FrameInv, LeftKnown, Following, InSnapshot, TypeOK, Frame
  <2>3. Grows
    BY <1>8, <1>0, <2>1, <2>2, UpdateGrows DEF StatusProgress
  <2>4. /\ proc'[p].pc = "status_progress" /\ proc'[p].snap = proc[p].snap
        /\ proc'[p].left \subseteq proc[p].left /\ OnlyFrame(p)
    BY <1>8, <2>1, <1>0 DEF StatusProgress, OnlyFrame, TypeOK, Frame
  <2> QED BY <1>2, <1>8, <2>3, <2>4
          DEF StatusProgress, FrameInv, SnapshotKnown, LeftKnown, VerdictKnown,
              ClaimHolds, Claims, Following, InSnapshot, Grows
<1> QED BY <1>3, <1>4, <1>5, <1>6, <1>7, <1>8

-----------------------------------------------------------------------------
(* Commands that begin or die, the environment, and the theorem.           *)

LEMMA BeginsKeep ==
  ASSUME TypeOK, NEW p \in Procs, (\E op \in AllOps : Issue(p, op)) \/ Abort(p)
  PROVE  Keeps(p)
<1> USE DEF Keeps, Grows, Registered, rows, world, Following, Claims, Late
<1>1. CASE \E op \in AllOps : Issue(p, op)
  <2>1. PICK op \in AllOps : Issue(p, op)
    BY <1>1
  <2>2. proc'[p].pc = "begin" /\ proc'[p].snap = proc[p].snap /\ OnlyFrame(p)
    BY <2>1 DEF Issue, OnlyFrame, TypeOK, Frame
  <2> QED BY <2>1, <2>2 DEF Issue
<1>2. CASE Abort(p)
  <2>1. proc'[p].pc = "idle" /\ proc'[p].snap = NoAgents /\ OnlyFrame(p)
    BY <1>2 DEF Abort, Return, Idle, OnlyFrame, TypeOK, Frame
  <2> QED BY <1>2, <2>1 DEF Abort
<1> QED BY <1>1, <1>2

\* Agents and the world write no frame and no row, and withdraw no completion.
LEMMA WorldIInv ==
  ASSUME IInv, TypeOK', Environment \/ UNCHANGED vars
  PROVE  IInv'
<1>1. UNCHANGED <<status, agent, proc>> /\ Grows
  <2> USE DEF rows, world, Grows, Registered
  <2>1. ASSUME NEW n \in Names, Post(n)
        PROVE  UNCHANGED <<status, agent, proc>> /\ Grows
    <3>1. PICK c \in {[control[n] EXCEPT !.pending = TRUE],
                      [control[n] EXCEPT !.pending = FALSE],
                      [control[n] EXCEPT !.completed = TRUE]}
                 \union {[control[n] EXCEPT !.validation = v] : v \in Validation} :
               control' = [control EXCEPT ![n] = c]
      BY <2>1 DEF Post
    <3>2. control[n] \in ControlState /\ control \in [Names -> ControlState]
      BY DEF IInv, TypeOK
    <3>3. control[n].completed => c.completed
      BY <3>1, <3>2 DEF ControlState
    <3> QED BY <2>1, <3>1, <3>2, <3>3 DEF Post
  <2>2. CASE UNCHANGED vars
    BY <2>2 DEF vars
  <2> QED BY <2>1, <2>2 DEF Environment, AgentExits, SessionLost, Edit, Commit
<1>2. Signal => Signal'
  BY <1>1, SignalStable DEF IInv
<1> QED BY <1>1, <1>2 DEF IInv, FrameInv, SnapshotKnown, LeftKnown, VerdictKnown,
                          ClaimHolds, InSnapshot, Registered

LEMMA InitIInv == Init => IInv
BY InitType DEF Init, IInv, FrameInv, SnapshotKnown, LeftKnown, VerdictKnown,
                ClaimHolds, InSnapshot, Idle, NoAgents, Claims, Following, Late

LEMMA NextIInv ==
  ASSUME IInv, [Next]_vars
  PROVE  IInv'
<1>1. TypeOK /\ TypeOK'
  BY NextType DEF IInv
<1>2. ASSUME NEW p \in Procs, Step(p)
      PROVE  IInv'
  BY <1>1, <1>2, KeepsIInv, PlanKeeps, AgentsKeeps, CloseKeeps, SignalsKeep,
     FollowingIInv DEF Step, SignalsStep
<1>3. ASSUME NEW p \in Procs, (\E op \in AllOps : Issue(p, op)) \/ Abort(p)
      PROVE  IInv'
  BY <1>1, <1>3, KeepsIInv, BeginsKeep
<1> QED BY <1>1, <1>2, <1>3, WorldIInv DEF Next

\* A bootstrap run is completed, closing or closed only if some registered agent
\* has signalled completion (syncBootstrapSignals, service.go:2296-2346): several status queries, closes
\* and answers may overlap, and each acts on rows it read statements earlier.
BootstrapNeedsSignal == Bootstrap /\ status \in Late => Signal

\* It holds for any number of processes, whatever runs concurrently, whatever fails
\* and whichever processes die.  No run checks it: with the one process of the run
\* RunBootstrap, BootstrapAllSignalled says more.
THEOREM SignalNeeded == Spec => []BootstrapNeedsSignal
<1>1. IInv => BootstrapNeedsSignal
  BY DEF IInv, BootstrapNeedsSignal, Signal, Late
<1> QED BY <1>1, InitIInv, NextIInv, PTL DEF Spec

=============================================================================
