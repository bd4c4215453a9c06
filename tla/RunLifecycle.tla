---------------------------- MODULE RunLifecycle ----------------------------
(***************************************************************************)
(* The life of one run: any number of processes execute metawsm commands   *)
(* on it while its agents work, post control signals and exit, external    *)
(* commands fail and processes die.                                        *)
(***************************************************************************)
EXTENDS RunPlan, RunAgents, RunSignals, RunClose

-----------------------------------------------------------------------------
(* Commands begin, and processes die. *)

\* An operator, the watch loop or the daemon starts a command.
Issue(p, op) ==
  /\ At(p, "idle")
  /\ op \in Ops
  /\ op = "status" \/ issued < MaxOps
  /\ proc' = [proc EXCEPT ![p].pc = "begin", ![p].op = op]
  /\ issued' = IF op = "status" THEN issued ELSE issued + 1
  /\ UNCHANGED <<rows, world, control>>

\* The process is killed, or a store error that is not ignored ends the command
\* between two statements; while a plan executes, such an error is ExecStoreFails
\* or StepStoreFails.
Abort(p) ==
  /\ "crash" \in Env
  /\ ~At(p, "idle")
  /\ Return(p)
  /\ UNCHANGED <<rows, world, control, issued>>

-----------------------------------------------------------------------------
(* The agents and their environment. *)

AgentExits(k) ==
  /\ session[k] = "up"
  /\ \/ "exit" \in Env /\ session' = [session EXCEPT ![k] = "exit_ok"]
     \/ "fail" \in Env /\ session' = [session EXCEPT ![k] = "exit_err"]
  /\ UNCHANGED <<rows, workspace, dirty, merged, control, proc, issued>>

SessionLost(k) ==
  /\ "tmux" \in Env
  /\ session[k] # "none"
  /\ session' = [session EXCEPT ![k] = "none"]
  /\ UNCHANGED <<rows, workspace, dirty, merged, control, proc, issued>>

Edit(w) ==
  /\ "edit" \in Env
  /\ w \in workspace \ dirty
  /\ dirty' = dirty \union {w}
  /\ UNCHANGED <<rows, session, workspace, merged, control, proc, issued>>

Commit(w) ==
  /\ "commit" \in Env
  /\ w \in dirty
  /\ dirty' = dirty \ {w}
  /\ UNCHANGED <<rows, session, workspace, merged, control, proc, issued>>

\* A control post of agent name n is applied to its thread.
Post(n) ==
  /\ "post" \in Env
  /\ status # "none"
  /\ \E c \in {[control[n] EXCEPT !.pending = TRUE],     \* guidance_request
               [control[n] EXCEPT !.pending = FALSE],    \* guidance_answer
               [control[n] EXCEPT !.completed = TRUE]}   \* completion
        \union {[control[n] EXCEPT !.validation = v] :   \* validation
                  v \in Validation} :
       /\ c # control[n]
       /\ control' = [control EXCEPT ![n] = c]
  /\ UNCHANGED <<rows, world, proc, issued>>

-----------------------------------------------------------------------------
\* The next statement of the command p executes.
Step(p) == PlanStep(p) \/ AgentsStep(p) \/ SignalsStep(p) \/ CloseStep(p)

Environment ==
  \/ \E k \in SessionNames : AgentExits(k) \/ SessionLost(k)
  \/ \E w \in Tickets : Edit(w) \/ Commit(w)
  \/ \E n \in Names : Post(n)

Next ==
  \/ \E p \in Procs : \/ \E op \in AllOps : Issue(p, op)
                      \/ Step(p)
                      \/ Abort(p)
  \/ Environment

Spec == Init /\ [][Next]_vars

\* A command that has begun runs on.  The watch and operator loops, and the
\* snapshot requests of the user interface, keep asking for the status.
FairSpec ==
  /\ Spec
  /\ \A p \in Procs : WF_vars(Step(p)) /\ WF_vars(Issue(p, "status"))

-----------------------------------------------------------------------------
(* What the run promises *)

\* Every change of the run's status is one the state machine of hsm.go allows
\* from the status that is stored, although UpdateRunStatus is unconditional and
\* the callers check only the status they read, or assume.
LegalTransitions ==
  [][status # "none" => CanTransitionRun(status, status')]_vars

\* Steps move along stepTransitions, in every order of retries, failed attempts,
\* resumes and crashes, although nothing in the code consults that table.
StepsFollowHSM ==
  [][\A s \in Steps : step[s] # "absent" => CanTransitionStep(step[s], step'[s])]_vars

\* A run that is stopped has no session left under any registered agent's name:
\* the kills come before the transition, and whatever starts sessions moves the
\* run out of stopped first.
StoppedQuiesced ==
  status = "stopped" => \A a \in Registered : session[RowSession(a)] = "none"

\* Nor any other session that the run's own plan started.
StoppedLeavesNoSession ==
  status = "stopped" => \A k \in SessionNames : session[k] = "none"

\* A standard run is completed only when its whole plan has been executed.
CompletedMeansExecuted ==
  ~Bootstrap /\ status \in {"completed", "closing", "closed"}
    => \A s \in Steps : step[s] = "done"

\* While commands come one at a time, every agent of the run has.
BootstrapAllSignalled ==
  Bootstrap /\ status \in {"completed", "closing", "closed"}
    => \A a \in Registered : control[a[2]].completed

\* A closed run's workspaces have been merged.
ClosedMeansMerged ==
  status = "closed" => \A a \in Registered : merged[a[1]] # "no"

\* Close never merges a workspace that has uncommitted changes.
MergesClean == \A w \in Tickets : merged[w] # "dirty"

\* Every command that begins ends: no chain of retries goes on for ever and no
\* hard-coded transition is refused by the state machine.
CommandsReturn == \A p \in Procs : ~At(p, "idle") ~> At(p, "idle")

\* A run does not wait for guidance that nobody owes: once no question is
\* pending, a status query takes it out of awaiting_guidance, unless new
\* questions keep coming.
GuidanceResolves ==
  (status = "awaiting_guidance" /\ ~PendingGuidance(Registered))
    ~> (status # "awaiting_guidance" \/ PendingGuidance(Registered))

\* A close that has begun ends in closed or in failed.
ClosingEnds == status = "closing" ~> status \in {"closed", "failed"}

\* A close of a fully executed run whose workspaces are there and clean is not
\* refused: it closes the run, or an external command fails and so does the run,
\* unless an agent goes on editing.
CloseSucceeds ==
  \A p \in Procs :
    (/\ At(p, "close_docs") /\ proc[p].op = "close"
     /\ \A s \in Steps : step[s] = "done"
     /\ workspace = Tickets /\ dirty = {}) 
      ~> (status \in {"closed", "failed"} \/ dirty # {})

=============================================================================
