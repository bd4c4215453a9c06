----------------------------- MODULE RunAgents ------------------------------
(***************************************************************************)
(* The commands that act on a run's agents and their tmux sessions:        *)
(* Service.Stop, Restart, Cleanup and Iterate                              *)
(* (internal/orchestrator/service.go).                                     *)
(***************************************************************************)
EXTENDS RunState

-----------------------------------------------------------------------------
(* Service.Stop *)

StopRead(p) ==
  /\ At(p, "begin") /\ proc[p].op = "stop"
  /\ \/ /\ status # "none" /\ CanTransitionRun(status, "stopping")
        /\ proc' = [proc EXCEPT ![p].pc = "stop_go", ![p].seen = status]
     \/ /\ status = "none" \/ ~CanTransitionRun(status, "stopping")
        /\ Return(p)
  /\ UNCHANGED <<rows, world, control, issued>>

StopGo(p) ==
  /\ At(p, "stop_go")
  /\ transitionRun(proc[p].seen, "stopping")
  /\ Goto(p, "stop_load")
  /\ UNCHANGED <<step, agent, docSync, world, control, issued>>

\* Mutant: only the agents marked running are stopped.
StopLoad_RunningOnly(p) ==
  /\ At(p, "stop_load")
  /\ proc' = [proc EXCEPT ![p].pc = "stop_kill",
                          ![p].left = {a \in Agents : agent[a] = "running"}]
  /\ UNCHANGED <<rows, world, control, issued>>

StopLoad(p) ==
  /\ At(p, "stop_load")
  /\ proc' = [proc EXCEPT ![p].pc = "stop_kill", ![p].left = Registered]
  /\ UNCHANGED <<rows, world, control, issued>>

StopKill(p) ==
  /\ At(p, "stop_kill")
  /\ \E a \in proc[p].left :
       /\ IsFirst(a, proc[p].left)
       /\ tmuxKillSession(RowSession(a))
  /\ Goto(p, "stop_mark")
  /\ UNCHANGED <<rows, workspace, dirty, merged, control, issued>>

StopMark(p) ==
  /\ At(p, "stop_mark")
  /\ \E a \in proc[p].left :
       /\ IsFirst(a, proc[p].left)
       /\ \/ UpdateAgentStatus(a, "stopped")
          \/ StoreErrorIgnored /\ agent' = agent
       /\ proc' = [proc EXCEPT ![p].pc = "stop_kill", ![p].left = @ \ {a}]
  /\ UNCHANGED <<status, step, docSync, world, control, issued>>

StopEnd(p) ==
  /\ At(p, "stop_kill") /\ proc[p].left = {}
  /\ transitionRun("stopping", "stopped")
  /\ Return(p)
  /\ UNCHANGED <<step, agent, docSync, world, control, issued>>

-----------------------------------------------------------------------------
(* Service.Restart, as a command and as the end of Service.Iterate *)

RestartRead(p) ==
  /\ At(p, "restart_read") \/ (At(p, "begin") /\ proc[p].op = "restart")
  /\ \/ /\ status \notin {"none", "closed"}
        /\ proc' = [proc EXCEPT ![p].pc = "restart_load", ![p].seen = status]
     \/ /\ status \in {"none", "closed"}
        /\ Return(p)
  /\ UNCHANGED <<rows, world, control, issued>>

RestartLoad(p) ==
  /\ At(p, "restart_load")
  /\ \/ /\ Registered # {}
        /\ proc' = [proc EXCEPT ![p].pc = "restart_go", ![p].left = Registered]
     \/ /\ Registered = {}
        /\ Return(p)
  /\ UNCHANGED <<rows, world, control, issued>>

\* The agents are restarted whether or not the run may become running.
RestartGo(p) ==
  /\ At(p, "restart_go")
  /\ \/ /\ proc[p].seen # "running" /\ CanTransitionRun(proc[p].seen, "running")
        /\ transitionRun(proc[p].seen, "running")
     \/ /\ proc[p].seen = "running" \/ ~CanTransitionRun(proc[p].seen, "running")
        /\ UNCHANGED status
  /\ Goto(p, "restart_kill")
  /\ UNCHANGED <<step, agent, docSync, world, control, issued>>

RestartKill(p) ==
  /\ At(p, "restart_kill")
  /\ \E a \in proc[p].left :
       /\ IsFirst(a, proc[p].left)
       /\ \/ /\ a[1] \in workspace
             /\ tmuxKillSession(RowSession(a))
             /\ Goto(p, "restart_new")
          \/ /\ a[1] \notin workspace
             /\ Return(p)
             /\ UNCHANGED session
  /\ UNCHANGED <<rows, workspace, dirty, merged, control, issued>>

RestartNew(p) ==
  /\ At(p, "restart_new")
  /\ \E a \in proc[p].left :
       /\ IsFirst(a, proc[p].left)
       /\ \/ /\ newSession(RowSession(a))
             /\ Goto(p, "restart_wait")
          \/ /\ ~CanStart(RowSession(a)) \/ "shell" \in Env
             /\ Return(p)
             /\ UNCHANGED session
  /\ UNCHANGED <<rows, workspace, dirty, merged, control, issued>>

RestartWait(p) ==
  /\ At(p, "restart_wait")
  /\ \E a \in proc[p].left :
       /\ IsFirst(a, proc[p].left)
       /\ \/ /\ ~StartupFailed(RowSession(a)) \/ "tmux" \in Env
             /\ Goto(p, "restart_mark")
          \/ /\ StartupFailed(RowSession(a))
             /\ Return(p)
  /\ UNCHANGED <<rows, world, control, issued>>

RestartMark(p) ==
  /\ At(p, "restart_mark")
  /\ \E a \in proc[p].left :
       /\ IsFirst(a, proc[p].left)
       /\ UpdateAgentStatus(a, "running")
       /\ \/ /\ proc[p].left = {a}
             /\ Return(p)
          \/ /\ proc[p].left # {a}
             /\ proc' = [proc EXCEPT ![p].pc = "restart_kill", ![p].left = @ \ {a}]
  /\ UNCHANGED <<status, step, docSync, world, control, issued>>

-----------------------------------------------------------------------------
(* Service.Iterate: the feedback is written into every workspace, then the  *)
(* agents are restarted.                                                    *)

IterateRead(p) ==
  /\ At(p, "begin") /\ proc[p].op = "iterate"
  /\ \/ /\ status \notin {"none", "closed"}
        /\ Goto(p, "iterate_load")
     \/ /\ status \in {"none", "closed"}
        /\ Return(p)
  /\ UNCHANGED <<rows, world, control, issued>>

IterateLoad(p) ==
  /\ At(p, "iterate_load")
  /\ \/ /\ Registered # {}
        /\ proc' = [proc EXCEPT ![p].pc = "iterate_feedback",
                                ![p].ws = WorkspacesOf(Registered)]
     \/ /\ Registered = {}
        /\ Return(p)
  /\ UNCHANGED <<rows, world, control, issued>>

\* The feedback files appear in the workspace as uncommitted changes, unless
\* its repositories ignore them.
IterateFeedback(p) ==
  /\ At(p, "iterate_feedback")
  /\ \E w \in proc[p].ws :
       /\ IsLeast(w, proc[p].ws)
       /\ \/ /\ w \in workspace
             /\ dirty' \in {dirty, dirty \union {w}}
             /\ proc' = [proc EXCEPT ![p].ws = @ \ {w}]
          \/ /\ w \notin workspace
             /\ Return(p)
             /\ UNCHANGED dirty
  /\ UNCHANGED <<rows, session, workspace, merged, control, issued>>

IterateRestart(p) ==
  /\ At(p, "iterate_feedback") /\ proc[p].ws = {}
  /\ Goto(p, "restart_read")
  /\ UNCHANGED <<rows, world, control, issued>>

-----------------------------------------------------------------------------
(* Service.Cleanup *)

CleanupRead(p) ==
  /\ At(p, "begin") /\ proc[p].op \in {"cleanup", "cleanup_keep"}
  /\ \/ /\ status # "none"
        /\ proc' = [proc EXCEPT ![p].pc = "cleanup_load", ![p].seen = status]
     \/ /\ status = "none"
        /\ Return(p)
  /\ UNCHANGED <<rows, world, control, issued>>

CleanupLoad(p) ==
  /\ At(p, "cleanup_load")
  /\ proc' = [proc EXCEPT ![p].pc = "cleanup_kill", ![p].left = Registered,
                          ![p].snap = agent,
                          ![p].ws = WorkspacesOf(Registered)]
  /\ UNCHANGED <<rows, world, control, issued>>

CleanupKill(p) ==
  /\ At(p, "cleanup_kill")
  /\ \E a \in proc[p].left :
       /\ IsFirst(a, proc[p].left)
       /\ tmuxKillSession(RowSession(a))
       /\ proc' = [proc EXCEPT ![p].left = @ \ {a}]
  /\ UNCHANGED <<rows, workspace, dirty, merged, control, issued>>

CleanupKilled(p) ==
  /\ At(p, "cleanup_kill") /\ proc[p].left = {}
  /\ proc' = [proc EXCEPT ![p].pc = "cleanup_mark", ![p].left = InSnapshot(p)]
  /\ UNCHANGED <<rows, world, control, issued>>

CleanupMark(p) ==
  /\ At(p, "cleanup_mark")
  /\ \E a \in proc[p].left :
       /\ IsFirst(a, proc[p].left)
       /\ \/ UpdateAgentStatus(a, "stopped")
          \/ StoreErrorIgnored /\ agent' = agent
       /\ proc' = [proc EXCEPT ![p].left = @ \ {a}]
  /\ UNCHANGED <<status, step, docSync, world, control, issued>>

CleanupMarked(p) ==
  /\ At(p, "cleanup_mark") /\ proc[p].left = {}
  /\ proc' = [proc EXCEPT ![p].pc = "cleanup_delete",
                          ![p].ws = IF proc[p].op = "cleanup" THEN @ ELSE {}]
  /\ UNCHANGED <<rows, world, control, issued>>

\* deleteWorkspaceIfPresent
CleanupDelete(p) ==
  /\ At(p, "cleanup_delete")
  /\ \E w \in proc[p].ws :
       /\ IsLeast(w, proc[p].ws)
       /\ \/ /\ workspace' = workspace \ {w}
             /\ dirty' = dirty \ {w}
             /\ proc' = [proc EXCEPT ![p].ws = @ \ {w}]
          \/ /\ "shell" \in Env /\ w \in workspace
             /\ Return(p)
             /\ UNCHANGED <<workspace, dirty>>
  /\ UNCHANGED <<rows, session, merged, control, issued>>

\* Mutant: the run is taken to be running.
CleanupStopping_Unchecked(p) ==
  /\ At(p, "cleanup_delete") /\ proc[p].ws = {}
  /\ transitionRun("running", "stopping")
  /\ Goto(p, "cleanup_stopped")
  /\ UNCHANGED <<step, agent, docSync, world, control, issued>>

CleanupStopping(p) ==
  /\ At(p, "cleanup_delete") /\ proc[p].ws = {}
  /\ \/ /\ proc[p].seen # "stopped" /\ CanTransitionRun(proc[p].seen, "stopping")
        /\ transitionRun(proc[p].seen, "stopping")
        /\ Goto(p, "cleanup_stopped")
     \/ /\ proc[p].seen = "stopped" \/ ~CanTransitionRun(proc[p].seen, "stopping")
        /\ Return(p)
        /\ UNCHANGED status
  /\ UNCHANGED <<step, agent, docSync, world, control, issued>>

CleanupStopped(p) ==
  /\ At(p, "cleanup_stopped")
  /\ transitionRun("stopping", "stopped")
  /\ Return(p)
  /\ UNCHANGED <<step, agent, docSync, world, control, issued>>

AgentsStep(p) ==
  \/ StopRead(p) \/ StopGo(p) \/ StopLoad(p) \/ StopKill(p) \/ StopMark(p)
  \/ StopEnd(p)
  \/ RestartRead(p) \/ RestartLoad(p) \/ RestartGo(p) \/ RestartKill(p)
  \/ RestartNew(p) \/ RestartWait(p) \/ RestartMark(p)
  \/ IterateRead(p) \/ IterateLoad(p) \/ IterateFeedback(p) \/ IterateRestart(p)
  \/ CleanupRead(p) \/ CleanupLoad(p) \/ CleanupKill(p) \/ CleanupKilled(p)
  \/ CleanupMark(p) \/ CleanupMarked(p) \/ CleanupDelete(p)
  \/ CleanupStopping(p) \/ CleanupStopped(p)

=============================================================================
