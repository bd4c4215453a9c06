----------------------------- MODULE RunSignals -----------------------------
(***************************************************************************)
(* What follows the agents: Service.Status and RunSnapshot, which probe    *)
(* the sessions, write the agents' health and move a bootstrap run along   *)
(* its control signals (syncBootstrapSignals), and Service.Guide, which    *)
(* answers a pending question.                                             *)
(*                                                                         *)
(* control[n] is what forumControlStatesForRun folds the posts of agent    *)
(* name n's control thread to.  The threads of all names are read in one   *)
(* step.                                                                   *)
(***************************************************************************)
EXTENDS RunState

-----------------------------------------------------------------------------
(* Status and RunSnapshot *)

\* Mutant: a run that waits for a person is not looked at.
StatusRead_NotWaiting(p) ==
  /\ At(p, "begin") /\ proc[p].op = "status"
  /\ \/ /\ status \notin {"none", "awaiting_guidance"}
        /\ proc' = [proc EXCEPT ![p].pc = "status_load", ![p].seen = status]
     \/ /\ status \in {"none", "awaiting_guidance"}
        /\ Return(p)
  /\ UNCHANGED <<rows, world, control, issued>>

StatusRead(p) ==
  /\ At(p, "begin") /\ proc[p].op = "status"
  /\ \/ /\ status # "none"
        /\ proc' = [proc EXCEPT ![p].pc = "status_load", ![p].seen = status]
     \/ /\ status = "none"
        /\ Return(p)
  /\ UNCHANGED <<rows, world, control, issued>>

StatusLoad(p) ==
  /\ At(p, "status_load")
  /\ proc' = [proc EXCEPT ![p].pc = "status_probe", ![p].snap = agent,
                          ![p].left = Registered]
  /\ UNCHANGED <<rows, world, control, issued>>

\* evaluateHealth: the statuses it may answer for agent a.  How long a session
\* has been quiet is a choice: a live one is running, or idle, or stalled.
Health(p, a) ==
  LET s    == session[RowSession(a)]
      live == {"running"} \union (IF "quiet" \in Env THEN {"idle", "stalled"} ELSE {})
      row  == proc[p].snap[a]
      unknown == IF row \in {"dead", "failed", "stopped"} THEN "idle" ELSE row
  IN  (CASE s = "none"     -> {"dead"}
         [] s = "exit_err" -> {"failed"}
         [] s = "exit_ok"  -> {"idle"}
         [] s = "up"       -> live)
      \union (IF "tmux" \in Env THEN {unknown} ELSE {})
      \union (IF "tmux" \in Env /\ s # "none" THEN live ELSE {})

StatusProbe(p) ==
  /\ At(p, "status_probe")
  /\ \E a \in proc[p].left :
       /\ IsFirst(a, proc[p].left)
       /\ \E h \in Health(p, a) :
            proc' = [proc EXCEPT ![p].pc = "status_mark", ![p].verdict = h]
  /\ UNCHANGED <<rows, world, control, issued>>

StatusMark(p) ==
  /\ At(p, "status_mark")
  /\ \E a \in proc[p].left :
       /\ IsFirst(a, proc[p].left)
       /\ \/ UpdateAgentStatus(a, proc[p].verdict)
          \/ StoreErrorIgnored /\ agent' = agent
       /\ proc' = [proc EXCEPT ![p].pc = "status_probe", ![p].left = @ \ {a},
                               ![p].verdict = "absent"]
  /\ UNCHANGED <<status, step, docSync, world, control, issued>>

\* The rows are read again; a read error is ignored and leaves no agents.  The
\* status read at the beginning is the one syncBootstrapSignals works with.
StatusReload(p) ==
  /\ At(p, "status_probe") /\ proc[p].left = {}
  /\ \E rs \in {agent} \union (IF StoreErrorIgnored THEN {NoAgents} ELSE {}) :
       proc' = [proc EXCEPT
                  ![p].snap = rs,
                  ![p].pc = IF /\ Bootstrap
                               /\ proc[p].seen \in {"running", "awaiting_guidance"}
                            THEN "status_check" ELSE "status_progress",
                  ![p].left = {a \in Agents : rs[a] # "absent"}]
  /\ UNCHANGED <<rows, world, control, issued>>

AgentFailed(p) == \E a \in Agents : proc[p].snap[a] = "failed"

StatusFailRun(p) ==
  /\ At(p, "status_check") /\ AgentFailed(p)
  /\ transitionRun(proc[p].seen, "failed")
  /\ Goto(p, "status_progress")
  /\ UNCHANGED <<step, agent, docSync, world, control, issued>>

\* Mutant: one agent is enough for all.
AllComplete_SomeAgent(S) ==
  \E a \in S : /\ control[a[2]].completed
               /\ control[a[2]].validation \in {"passed", "mismatch"}

\* A validation that passed counts here whatever done criteria it names.
AllComplete(S) ==
  /\ S # {}
  /\ \A a \in S : /\ control[a[2]].completed
                  /\ control[a[2]].validation \in {"passed", "mismatch"}
PendingGuidance(S) == \E a \in S : control[a[2]].pending

\* The control threads are read and the transition is chosen.
StatusSignals(p) ==
  /\ At(p, "status_check") /\ ~AgentFailed(p)
  /\ LET S       == InSnapshot(p)
         waiting == proc[p].seen = "awaiting_guidance"
     IN  Goto(p, CASE PendingGuidance(S) /\ ~waiting -> "status_await"
                   [] PendingGuidance(S) /\ waiting  -> "status_progress"
                   [] ~PendingGuidance(S) /\ AllComplete(S) ->
                        IF waiting THEN "status_resolve" ELSE "status_complete"
                   [] ~PendingGuidance(S) /\ ~AllComplete(S) ->
                        IF waiting THEN "status_resume" ELSE "status_progress")
  /\ UNCHANGED <<rows, world, control, issued>>

StatusAwait(p) ==
  /\ At(p, "status_await")
  /\ transitionRun("running", "awaiting_guidance")
  /\ Goto(p, "status_progress")
  /\ UNCHANGED <<step, agent, docSync, world, control, issued>>

\* Guidance resolved: alone, or before completion.
StatusResume(p) ==
  /\ proc[p].pc \in {"status_resume", "status_resolve"}
  /\ transitionRun("awaiting_guidance", "running")
  /\ Goto(p, IF At(p, "status_resume") THEN "status_progress" ELSE "status_complete")
  /\ UNCHANGED <<step, agent, docSync, world, control, issued>>

StatusComplete(p) ==
  /\ At(p, "status_complete")
  /\ transitionRun("running", "completed")
  /\ Goto(p, "status_progress")
  /\ UNCHANGED <<step, agent, docSync, world, control, issued>>

\* If its workspace shows newer changes, the agent's row is written back with
\* the status in memory.
StatusProgress(p) ==
  /\ At(p, "status_progress")
  /\ \E a \in proc[p].left :
       /\ IsFirst(a, proc[p].left)
       /\ \/ UpdateAgentStatus(a, proc[p].snap[a])
          \/ agent' = agent
       /\ proc' = [proc EXCEPT ![p].left = @ \ {a}]
  /\ UNCHANGED <<status, step, docSync, world, control, issued>>

StatusEnd(p) ==
  /\ At(p, "status_progress") /\ proc[p].left = {}
  /\ Return(p)
  /\ UNCHANGED <<rows, world, control, issued>>

-----------------------------------------------------------------------------
(* Service.Guide *)

GuideRead(p) ==
  /\ At(p, "begin") /\ proc[p].op = "guide"
  /\ \/ /\ status = "awaiting_guidance"
        /\ Goto(p, "guide_load")
     \/ /\ status # "awaiting_guidance"
        /\ Return(p)
  /\ UNCHANGED <<rows, world, control, issued>>

GuideLoad(p) ==
  /\ At(p, "guide_load")
  /\ proc' = [proc EXCEPT ![p].pc = "guide_target", ![p].snap = agent]
  /\ UNCHANGED <<rows, world, control, issued>>

\* The first agent whose thread has an unanswered question.
GuideTarget(p) ==
  /\ At(p, "guide_target")
  /\ LET asking == {a \in InSnapshot(p) : control[a[2]].pending} IN
       \/ /\ \E a \in asking :
               /\ IsFirst(a, asking)
               /\ proc' = [proc EXCEPT ![p].pc = "guide_answer", ![p].left = {a}]
       \/ /\ asking = {}
          /\ Return(p)
  /\ UNCHANGED <<rows, world, control, issued>>

\* ForumAppendControlSignal sends the answer through the forum bus and returns;
\* the post may be in the thread by then, or appear later (Post).
GuideAnswer(p) ==
  /\ At(p, "guide_answer")
  /\ \E a \in proc[p].left :
       \/ control' = [control EXCEPT ![a[2]].pending = FALSE]
       \/ "post" \in Env /\ control' = control
  /\ Goto(p, "guide_go")
  /\ UNCHANGED <<rows, world, issued>>

GuideGo(p) ==
  /\ At(p, "guide_go")
  /\ transitionRun("awaiting_guidance", "running")
  /\ Return(p)
  /\ UNCHANGED <<step, agent, docSync, world, control, issued>>

SignalsStep(p) ==
  \/ StatusRead(p) \/ StatusLoad(p) \/ StatusProbe(p) \/ StatusMark(p)
  \/ StatusReload(p) \/ StatusFailRun(p) \/ StatusSignals(p) \/ StatusAwait(p)
  \/ StatusResume(p) \/ StatusComplete(p) \/ StatusProgress(p) \/ StatusEnd(p)
  \/ GuideRead(p) \/ GuideLoad(p) \/ GuideTarget(p) \/ GuideAnswer(p) \/ GuideGo(p)

=============================================================================
