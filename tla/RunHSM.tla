------------------------------- MODULE RunHSM -------------------------------
(***************************************************************************)
(* The three state machines of internal/hsm/hsm.go: the statuses of a run, *)
(* of a plan step and of an agent, and the transitions each may make.      *)
(* The service consults only the first one, CanTransitionRun; the others   *)
(* are what its tests say of steps and agents.                             *)
(***************************************************************************)

RunStatus ==
  {"created", "planning", "running", "awaiting_guidance", "paused", "failed",
   "stopping", "stopped", "completed", "closing", "closed"}

StepStatus == {"pending", "running", "done", "failed", "skipped"}

AgentStatus ==
  {"pending", "running", "idle", "stalled", "dead", "failed", "stopping",
   "stopped"}

\* The tables of hsm.go as relations: the status on the left may become any
\* of those on the right.  A status that is on no left is terminal.
runTransitions ==
  ({"created"}  \X {"planning"})
  \union ({"planning"} \X {"running", "paused", "failed", "stopping"})
  \union ({"running"} \X {"awaiting_guidance", "paused", "failed", "completed",
                          "stopping"})
  \union ({"awaiting_guidance"} \X {"running", "failed", "stopping"})
  \union ({"paused"}    \X {"running", "stopping"})
  \union ({"failed"}    \X {"running", "stopping"})
  \union ({"stopping"}  \X {"stopped"})
  \union ({"stopped"}   \X {"running"})
  \union ({"completed"} \X {"closing", "running"})
  \union ({"closing"}   \X {"closed", "failed"})

agentTransitions ==
  ({"pending"} \X {"running", "stopped"})
  \union ({"running"} \X {"idle", "stalled", "dead", "stopping", "failed"})
  \union ({"idle"}    \X {"running", "stalled", "dead", "stopping"})
  \union ({"stalled"} \X {"running", "dead", "stopping"})
  \union ({"stopping"} \X {"stopped"})

stepTransitions ==
  ({"pending"} \X {"running", "skipped"})
  \union ({"running"} \X {"done", "failed"})
  \union ({"failed"}  \X {"running", "skipped"})

\* A transition to the same status is always allowed.
CanTransitionRun(from, to)   == from = to \/ <<from, to>> \in runTransitions

CanTransitionStep(from, to)  == from = to \/ <<from, to>> \in stepTransitions

CanTransitionAgent(from, to) == from = to \/ <<from, to>> \in agentTransitions

=============================================================================
