------------------------------ MODULE Operator ------------------------------
(***************************************************************************)
(* The supervision loop `metawsm operator' (cmd/metawsm/main.go,           *)
(* operator_llm.go) over one bootstrap run.  Every tick lists the active   *)
(* runs, takes a snapshot of the run (which also moves its status), asks   *)
(* the rules and a language model what to do, raises an alert, and may act *)
(* on it.  The alert and the count of bad snapshots live in the memory of  *)
(* the process; the restarts it has done are counted in the store.         *)
(* `metawsm watch' polls the same snapshots and only shows alerts.         *)
(*                                                                         *)
(* Agents, a human and time change the run between any two steps.  The     *)
(* commands the operator calls are modelled in detail elsewhere (RunAgents,*)
(* RunReview); here each is one step that succeeds or fails.               *)
(***************************************************************************)
EXTENDS Integers, Sequences, FiniteSets, RunHSM

CONSTANTS
  Agents,
  Confirmations,   \* operator.unhealthy_confirmations
  RestartBudget,   \* operator.restart_budget
  Configs,         \* settings the operator may be started with
  MaxEvents,       \* bound: what agents and humans do
  MaxFaults        \* bound: failing calls and deaths of the operator

None    == "none"
Intents == {"noop", "escalate_guidance", "escalate_blocked", "auto_restart",
            "auto_stop_stale", "commit_ready", "pr_ready", "review_feedback_ready"}

\* Whether the operator is started and in which mode the watch is; llm is off,
\* assist or auto; git and review are off, assist or auto; review is also off
\* when git_pr.review_feedback.enabled is false.
Settings == [operator : BOOLEAN, watch : {"off", "all", "run"}, llm : {"off", "assist", "auto"}, git : {"off", "assist", "auto"},
             review : {"off", "assist", "auto"}, dryRun : BOOLEAN]

ASSUME OperatorAssumption ==
  /\ IsFiniteSet(Agents) /\ Agents # {}
  /\ Confirmations \in Nat \ {0} /\ RestartBudget \in Nat \ {0}
  /\ Configs \subseteq Settings
  /\ MaxEvents \in Nat /\ MaxFaults \in Nat

VARIABLES
  config,      \* settings
  run, old,    \* status of the run; whether its row is older than stale_run_age_seconds
  session,     \* agent -> what its session shows
  asked,       \* an agent waits for guidance
  signalled,   \* all agents have signalled completion and passed validation
  work,        \* what a completed run has left to do
  row,         \* the row of the run in operator_run_states
  op,          \* where the operator is in its loop
  alert,       \* the last event it raised for the run
  streak,      \* consecutive snapshots with unhealthy agents, counted up to Confirmations
  restarts,    \* restarts it has done
  lost,        \* restarts it has done whose row was not written
  watch,       \* where the watch is, what it remembers, what it has shown since the run
               \* was last listed as active, and its snapshot while it is taken
  observed,    \* what its last snapshots showed, since it was started
  events, faults

outside == <<config, run, old, session, asked, signalled, work>>
operator == <<row, op, alert, streak>>
ghosts  == <<restarts, lost, observed>>
vars    == <<outside, operator, ghosts, watch, events, faults>>

Status == {"planning", "running", "awaiting_guidance", "paused", "failed", "stopped", "completed", "closed"}

\* up: at work; quiet: no activity for activity_stalled_seconds; done and
\* failed: the agent has exited; gone: no such session.
SessionState == {"up", "quiet", "done", "failed", "gone"}

\* isUnhealthySnapshotAgent of what evaluateHealth makes of the session
Unhealthy(a) == session[a] \in {"quiet", "failed", "gone"}

-----------------------------------------------------------------------------
(* A snapshot.                                                             *)

isActiveRunStatus(s) == s \in {"planning", "running", "awaiting_guidance", "paused", "stopping", "closing"}

\* The status that syncBootstrapSignals leaves the run in.
Synced ==
  CASE run \notin {"running", "awaiting_guidance"} -> run
    [] \E a \in Agents : session[a] = "failed"     -> "failed"
    [] asked                                       -> "awaiting_guidance"
    [] signalled                                   -> "completed"
    [] OTHER                                       -> "running"

\* RunSnapshot reads the agents and leaves the status where the signals put it;
\* then it reads the signals again, the git diffs and the review rows, by when the
\* run may be elsewhere.
SyncedSnapshot ==
  [status |-> Synced, guidance |-> FALSE, unhealthy |-> {a \in Agents : Unhealthy(a)}, left |-> {}]

WithRest(snap) == [snap EXCEPT !.guidance = asked, !.left = work]

NoSnapshot == [status |-> None, guidance |-> FALSE, unhealthy |-> {}, left |-> {}]
Sick(snap) == snap.unhealthy # {} /\ snap.status = "running"

Snapshots == [status : Status \union {None}, guidance : BOOLEAN, unhealthy : SUBSET Agents,
              left : SUBSET {"dirty", "draft", "queued"}]

Asleep == [at |-> "asleep", old |-> FALSE, snap |-> NoSnapshot, todo |-> "noop"]

-----------------------------------------------------------------------------
(* What to do about it: buildOperatorRuleDecision, mergeOperatorDecisions. *)

Rule(intent, execute) == [intent |-> intent, execute |-> execute]
Noop == Rule("noop", FALSE)

\* verifyStaleRuntimeEvidence probes the unhealthy agents once more, and no
\* other: the sessions must be gone, or hold an agent that failed and whose
\* last activity is not recent.
VerifiedStale(snap, recent) ==
  /\ snap.unhealthy # {}
  /\ \A a \in snap.unhealthy : session[a] = "gone" \/ (session[a] = "failed" /\ ~recent)

\* GetOperatorRunState finds no row for a run that was never restarted.
NoOperatorRow == [attempts |-> 0, cooling |-> FALSE]
CountedRow    == [attempts |-> row.attempts + 1, cooling |-> TRUE]

\* Mutant: one restart more than the budget.
UnhealthyRule_OneMore ==
  IF streak < Confirmations                 THEN Noop
  ELSE IF row.attempts > RestartBudget      THEN Rule("escalate_blocked", FALSE)
  ELSE IF row.cooling                       THEN Noop
  ELSE Rule("auto_restart", TRUE)

UnhealthyRule ==
  IF streak < Confirmations                 THEN Noop
  ELSE IF row.attempts >= RestartBudget     THEN Rule("escalate_blocked", FALSE)
  ELSE IF row.cooling                       THEN Noop
  ELSE Rule("auto_restart", TRUE)

CompletedRule(left) ==
  IF config.git # "off" /\ "dirty" \in left         THEN Rule("commit_ready", config.git = "auto")
  ELSE IF config.git # "off" /\ "draft" \in left    THEN Rule("pr_ready", config.git = "auto")
  ELSE IF config.review # "off" /\ "queued" \in left
       THEN Rule("review_feedback_ready", config.review = "auto")
  ELSE Noop

RuleDecision(snap, wasOld, recent) ==
  IF snap.guidance                          THEN Rule("escalate_guidance", FALSE)
  ELSE IF wasOld /\ snap.unhealthy # {}     THEN IF VerifiedStale(snap, recent)
                                                 THEN Rule("auto_stop_stale", TRUE) ELSE Noop
  ELSE IF Sick(snap)                        THEN UnhealthyRule
  ELSE IF snap.status = "completed"         THEN CompletedRule(snap.left)
  ELSE Noop

\* The model may raise a blocked run when the rules would do nothing; it can
\* neither start an action nor prevent one.
Merged(rule, reply) ==
  IF config.llm = "assist" THEN Rule(rule.intent, FALSE)
  ELSE IF config.llm = "auto" /\ rule.intent = "noop" /\ reply = "escalate_blocked"
       THEN Rule(reply, FALSE)
  ELSE rule

-----------------------------------------------------------------------------
(* The commands, as one step each.                                         *)

SetStatus(s) == run' = s /\ old' = (old /\ s = run)

Stop ==
  /\ CanTransitionRun(run, "stopping")
  /\ SetStatus("stopped")
  /\ session' = [a \in Agents |-> "gone"]
  /\ UNCHANGED <<config, asked, signalled, work>>

\* Restart refuses a closed run only.  It starts the agents one after the
\* other, and returns at the first whose session does not come up.
Restart(started) ==
  /\ run # "closed"
  /\ SetStatus(IF CanTransitionRun(run, "running") THEN "running" ELSE run)
  /\ \/ started = Agents /\ session' = [a \in Agents |-> "up"]
     \/ \E bad \in Agents \ started :
          session' = [a \in Agents |-> IF a \in started THEN "up"
                                       ELSE IF a = bad THEN "gone" ELSE session[a]]
  /\ UNCHANGED <<config, asked, signalled, work>>

Commit ==
  /\ run = "completed"
  /\ work' = (work \ {"dirty"}) \union (IF "dirty" \in work THEN {"draft"} ELSE {})
  /\ UNCHANGED <<config, run, old, session, asked, signalled>>

OpenPullRequests ==
  /\ run = "completed" /\ "draft" \in work
  /\ work' = work \ {"draft"}
  /\ UNCHANGED <<config, run, old, session, asked, signalled>>

\* SyncReviewFeedback and DispatchQueuedReviewFeedback: Iterate starts the
\* agents again; what they signalled before still stands.
SyncAndDispatch ==
  /\ run = "completed" /\ "queued" \in work
  /\ SetStatus("running")
  /\ session' = [a \in Agents |-> "up"]
  /\ work' = work \ {"queued"}
  /\ UNCHANGED <<config, asked, signalled>>

Refused(intent) ==
  CASE intent = "auto_stop_stale"       -> ~CanTransitionRun(run, "stopping")
    [] intent = "auto_restart"          -> run = "closed"
    [] intent = "commit_ready"          -> run # "completed"
    [] intent = "pr_ready"              -> run # "completed" \/ "draft" \notin work
    [] intent = "review_feedback_ready" -> run # "completed" \/ "queued" \notin work

-----------------------------------------------------------------------------
(* The loop of operatorCommand.                                            *)

\* ActiveRuns: the row whose age the tick will judge by.
ListActive ==
  /\ op.at = "asleep"
  /\ op' = [Asleep EXCEPT !.at = IF isActiveRunStatus(run) THEN "listed" ELSE "inactive", !.old = old]
  /\ UNCHANGED <<outside, row, alert, streak, ghosts, watch, events, faults>>

\* Mutants: a bad snapshot sets the count instead of raising it; a healthy one in
\* between does not reset it.
NextStreak_NotRaised(snap) == IF Sick(snap) THEN 1 ELSE 0

NextStreak_NoReset(snap) ==
  IF Sick(snap) /\ streak < Confirmations THEN streak + 1 ELSE streak

NextStreak(snap) ==
  IF ~Sick(snap) THEN 0 ELSE IF streak = Confirmations THEN streak ELSE streak + 1

Watched(snap) ==
  LET all == Append(observed, Sick(snap))
  IN  IF Len(all) > Confirmations THEN Tail(all) ELSE all

TakeSnapshot ==
  /\ op.at = "listed"
  /\ SetStatus(Synced)
  /\ op' = [op EXCEPT !.at = "informed", !.snap = SyncedSnapshot]
  /\ streak' = NextStreak(SyncedSnapshot)
  /\ observed' = Watched(SyncedSnapshot)
  /\ UNCHANGED <<config, session, asked, signalled, work, row, alert, restarts, lost, watch, events, faults>>

\* A run that was not listed has a snapshot taken, and is forgotten.
ForgetInactive ==
  /\ op.at = "inactive"
  /\ SetStatus(Synced)
  /\ op' = Asleep
  /\ streak' = 0 /\ alert' = None
  /\ observed' = Watched(SyncedSnapshot)
  /\ UNCHANGED <<config, session, asked, signalled, work, row, restarts, lost, watch, events, faults>>

\* The rest of the snapshot, the rules and the model.  An event that was raised
\* before is not raised, and its action not tried, until a tick without it.
Decide ==
  /\ op.at = "informed"
  /\ \E recent \in BOOLEAN, reply \in {None, "noop", "escalate_blocked", "auto_restart"} :
       LET snap   == WithRest(op.snap)
           merged == Merged(RuleDecision(snap, op.old, recent), reply)
       IN  /\ alert' = IF merged.intent = "noop" THEN None ELSE merged.intent
           /\ op' = IF merged.intent \notin {"noop", alert} /\ merged.execute /\ ~config.dryRun
                    THEN [op EXCEPT !.at = "acting", !.snap = snap, !.todo = merged.intent]
                    ELSE Asleep
  /\ UNCHANGED <<outside, row, streak, ghosts, watch, events, faults>>

\* The rules fail where they look at more than the snapshot: at the sessions of a
\* stale candidate, or at the row.  The tick ends, and alert and count stay.
DecideFails ==
  /\ op.at = "informed" /\ faults < MaxFaults
  /\ ~asked
  /\ (op.old /\ op.snap.unhealthy # {}) \/ (Sick(op.snap) /\ streak = Confirmations)
  /\ op' = Asleep
  /\ faults' = faults + 1
  /\ UNCHANGED <<outside, row, alert, streak, ghosts, watch, events>>

\* executeOperatorAction
Act ==
  /\ op.at = "acting"
  /\ CASE op.todo = "auto_stop_stale"       -> Stop
       [] op.todo = "auto_restart"          -> Restart(Agents)
       [] op.todo = "commit_ready"          -> Commit
       [] op.todo = "pr_ready"              -> OpenPullRequests
       [] op.todo = "review_feedback_ready" -> SyncAndDispatch
  /\ IF op.todo = "auto_restart"
     THEN op' = [Asleep EXCEPT !.at = "restarted"] /\ restarts' = restarts + 1
     ELSE op' = Asleep /\ UNCHANGED restarts
  /\ UNCHANGED <<row, alert, streak, lost, observed, watch, events, faults>>

ActRefused ==
  /\ op.at = "acting" /\ Refused(op.todo)
  /\ op' = Asleep
  /\ UNCHANGED <<outside, row, alert, streak, ghosts, watch, events, faults>>

\* A command that fails for another reason; Restart may have come part of its way.
ActFails ==
  /\ op.at = "acting" /\ faults < MaxFaults
  /\ IF op.todo = "auto_restart"
     THEN \E started \in SUBSET Agents : started # Agents /\ Restart(started)
     ELSE UNCHANGED outside
  /\ op' = Asleep
  /\ faults' = faults + 1
  /\ UNCHANGED <<row, alert, streak, ghosts, watch, events>>

\* Mutant: the state is built anew instead of from the row.
UpsertOperatorRunState_Fresh ==
  /\ op.at = "restarted"
  /\ row' = [attempts |-> 1, cooling |-> TRUE]
  /\ op' = Asleep
  /\ UNCHANGED <<outside, alert, streak, ghosts, watch, events, faults>>

\* GetOperatorRunState and UpsertOperatorRunState, after a restart that succeeded.
UpsertOperatorRunState ==
  /\ op.at = "restarted"
  /\ row' = CountedRow
  /\ op' = Asleep
  /\ UNCHANGED <<outside, alert, streak, ghosts, watch, events, faults>>

UpsertFails ==
  /\ op.at = "restarted" /\ faults < MaxFaults
  /\ op' = Asleep
  /\ lost' = lost + 1 /\ faults' = faults + 1
  /\ UNCHANGED <<outside, row, alert, streak, restarts, observed, watch, events>>

\* An error of ActiveRuns or of the snapshot also ends the command.
Die ==
  /\ op.at # "dead" /\ faults < MaxFaults
  /\ op' = [Asleep EXCEPT !.at = "dead"]
  /\ alert' = None /\ streak' = 0 /\ observed' = <<>>
  /\ lost' = IF op.at = "restarted" THEN lost + 1 ELSE lost
  /\ faults' = faults + 1
  /\ UNCHANGED <<outside, row, restarts, watch, events>>

Start ==
  /\ config.operator /\ op.at = "dead"
  /\ op' = Asleep
  /\ UNCHANGED <<outside, row, alert, streak, ghosts, watch, events, faults>>

Tick == ListActive \/ TakeSnapshot \/ ForgetInactive \/ Decide \/ Act \/ ActRefused \/ UpsertOperatorRunState

-----------------------------------------------------------------------------
(* The loop of watchCommand, over all active runs or over the given one.   *)

StartedWatch == [at |-> IF config.watch = "off" THEN "dead" ELSE "asleep",
                 tracked |-> config.watch = "run", last |-> None, shown |-> None, snap |-> NoSnapshot]

WatchEvents == {"run_failed", "run_stopped", "guidance_needed", "run_done", "agent_unhealthy", None}

isTerminalRunStatus(s) == s \in {"completed", "closed", "failed", "stopped"}

classifyWatchEvent(snap) ==
  IF snap.status = "failed"                          THEN "run_failed"
  ELSE IF snap.status = "stopped"                    THEN "run_stopped"
  ELSE IF snap.guidance                              THEN "guidance_needed"
  ELSE IF snap.status \in {"completed", "closed"}    THEN "run_done"
  ELSE IF Sick(snap)                                 THEN "agent_unhealthy"
  ELSE None

\* An event that ends a watch of one run, and is shown however often it comes.
Urgent(event) == event \notin {"agent_unhealthy", None}

\* Mutant: only the runs that are active are looked at.
Loaded_ActiveOnly == watch.tracked /\ isActiveRunStatus(run)

\* A run that was active once is looked at until its end has been shown.
Loaded == watch.tracked

\* loadWatchSnapshotsAll: the runs that are active, and those that were.
WatchList ==
  /\ config.watch # "off" /\ watch.at = "asleep"
  /\ watch' = [watch EXCEPT !.at = "listed", !.tracked = @ \/ isActiveRunStatus(run),
                           !.shown = IF isActiveRunStatus(run) THEN None ELSE @]
  /\ UNCHANGED <<outside, operator, ghosts, events, faults>>

WatchNothing ==
  /\ watch.at = "listed" /\ ~Loaded
  /\ watch' = [watch EXCEPT !.at = "asleep"]
  /\ UNCHANGED <<outside, operator, ghosts, events, faults>>

WatchSync ==
  /\ watch.at = "listed" /\ Loaded
  /\ SetStatus(Synced)
  /\ watch' = [watch EXCEPT !.at = "synced", !.snap = SyncedSnapshot]
  /\ UNCHANGED <<config, session, asked, signalled, work, operator, ghosts, events, faults>>

WatchShow ==
  LET snap  == WithRest(watch.snap)
      event == classifyWatchEvent(snap)
      ended == config.watch = "all" /\ isTerminalRunStatus(snap.status)
  IN
  /\ watch.at = "synced"
  /\ watch' = [at      |-> IF config.watch = "run" /\ Urgent(event) THEN "returned" ELSE "asleep",
               tracked |-> ~ended,
               last    |-> IF ended THEN None ELSE event,
               shown   |-> IF event # watch.last \/ Urgent(event) THEN event ELSE watch.shown,
               snap    |-> NoSnapshot]
  /\ UNCHANGED <<outside, operator, ghosts, events, faults>>

\* An error of ListRuns or of a snapshot ends the command.
WatchDies ==
  /\ watch.at \in {"asleep", "listed", "synced"} /\ faults < MaxFaults
  /\ watch' = [watch EXCEPT !.at = "dead", !.snap = NoSnapshot]
  /\ faults' = faults + 1
  /\ UNCHANGED <<outside, operator, ghosts, events>>

\* What the command before it had in memory is not there any more.
WatchStart ==
  /\ config.watch # "off" /\ watch.at \in {"dead", "returned"}
  /\ watch' = StartedWatch
  /\ UNCHANGED <<outside, operator, ghosts, events, faults>>

WatchTick == WatchList \/ WatchNothing \/ WatchSync \/ WatchShow

-----------------------------------------------------------------------------
(* The others.                                                             *)

Event == events < MaxEvents /\ events' = events + 1 /\ UNCHANGED <<row, op, alert, streak, ghosts, watch, faults>>

AgentEvent ==
  /\ Event
  /\ \E a \in Agents, s \in SessionState :
       /\ session[a] \in {"up", "quiet"} \/ s = "gone"
       /\ s # session[a]
       /\ session' = [session EXCEPT ![a] = s]
  /\ UNCHANGED <<config, run, old, asked, signalled, work>>

\* An agent edits a file, or a review comment is synced.
WorkAppears ==
  /\ Event
  /\ \E item \in {"dirty", "queued"} \ work : work' = work \union {item}
  /\ UNCHANGED <<config, run, old, session, asked, signalled>>

AgentPost ==
  /\ Event
  /\ \/ asked' = ~asked /\ UNCHANGED signalled
     \/ ~signalled /\ signalled' = TRUE /\ UNCHANGED asked
  /\ UNCHANGED <<config, run, old, session, work>>

HumanStops    == Event /\ Stop
HumanRestarts == Event /\ Restart(Agents)

\* Close, and Run and Resume of a run that is not started yet
HumanMoves ==
  /\ Event
  /\ \/ run = "completed" /\ SetStatus("closed")
     \/ run \in {"planning", "paused"} /\ SetStatus("running")
     \/ run = "running" /\ SetStatus("paused")
  /\ UNCHANGED <<config, session, asked, signalled, work>>

Age ==
  /\ ~old /\ old' = TRUE
  /\ UNCHANGED <<config, run, session, asked, signalled, work, row, op, alert, streak, ghosts, watch, events, faults>>

\* restart_cooldown_seconds have passed
CoolDown ==
  /\ row.cooling
  /\ row' = [row EXCEPT !.cooling = FALSE]
  /\ UNCHANGED <<outside, op, alert, streak, ghosts, watch, events, faults>>

-----------------------------------------------------------------------------
Init ==
  /\ config \in Configs
  /\ run \in {"planning", "running"} /\ old = FALSE
  /\ session = [a \in Agents |-> "up"]
  /\ asked = FALSE /\ signalled = FALSE /\ work = {}
  /\ row = NoOperatorRow
  /\ op = [Asleep EXCEPT !.at = IF config.operator THEN @ ELSE "dead"] /\ alert = None /\ streak = 0
  /\ watch = StartedWatch
  /\ restarts = 0 /\ lost = 0 /\ observed = <<>>
  /\ events = 0 /\ faults = 0

Next ==
  \/ Tick \/ DecideFails \/ ActFails \/ UpsertFails \/ Die \/ Start
  \/ AgentEvent \/ AgentPost \/ WorkAppears \/ HumanStops \/ HumanRestarts \/ HumanMoves
  \/ Age \/ CoolDown
  \/ WatchTick \/ WatchDies \/ WatchStart

\* The tickers fire again and again, and cooldowns end.  Nobody need start an
\* operator or a watch that has died.
Spec == Init /\ [][Next]_vars /\ WF_vars(Tick) /\ WF_vars(CoolDown) /\ WF_vars(WatchTick)

-----------------------------------------------------------------------------
\* The values the state ranges over; the row never counts more restarts than
\* the budget has (operatorCommand, main.go:1592-1611).
TypeOK ==
  /\ config \in Configs /\ run \in Status /\ old \in BOOLEAN
  /\ session \in [Agents -> SessionState]
  /\ asked \in BOOLEAN /\ signalled \in BOOLEAN /\ work \subseteq {"dirty", "draft", "queued"}
  /\ row \in [attempts : 0..RestartBudget, cooling : BOOLEAN]
  /\ op \in [at : {"asleep", "listed", "inactive", "informed", "acting", "restarted", "dead"},
             old : BOOLEAN, snap : Snapshots, todo : Intents]
  /\ watch \in [at : {"asleep", "listed", "synced", "returned", "dead"}, tracked : BOOLEAN,
                last : WatchEvents, shown : WatchEvents, snap : Snapshots]
  /\ alert \in (Intents \ {"noop"}) \union {None}
  /\ streak \in 0..Confirmations
  /\ restarts \in Nat /\ lost \in 0..MaxFaults
  /\ observed \in Seq(BOOLEAN) /\ Len(observed) <= Confirmations
  /\ events \in 0..MaxEvents /\ faults \in 0..MaxFaults

\* However often the operator dies and is started again, and whatever others
\* do to the run, it restarts the agents no more often than its budget, except
\* for the restarts whose row it failed to write (main.go:1592-1611).
RestartsCounted == restarts <= RestartBudget + lost

\* When the operator is about to act, its settings allow it to, no agent was
\* waiting for guidance, and for a restart the snapshots it has taken since it
\* was started, as many as must agree, all showed a running run with unhealthy
\* agents (mergeOperatorDecisions; the counter of main.go:1526-1530).
ActsOnEvidence ==
  op.at = "acting" =>
    /\ config.llm # "assist" /\ ~config.dryRun /\ ~op.snap.guidance
    /\ op.todo = "auto_restart" => observed = [i \in 1..Confirmations |-> TRUE]
    /\ op.todo \in {"commit_ready", "pr_ready"} => config.git = "auto"
    /\ op.todo = "review_feedback_ready" => config.review = "auto"

\* A run whose agents are unhealthy for ever while nobody is asked.  A run that
\* is old is left out while one of these agents still has a session: then the
\* rules find a stale candidate that is not verified, and do nothing.
Stuck ==
  /\ run = "running" /\ ~asked /\ op.at # "dead"
  /\ \E a \in Agents : Unhealthy(a)
  /\ old => \A a \in Agents : session[a] # "quiet"

\* An operator that stays alive ends up showing an alert for a run that stays
\* stuck: confirmations, cooldowns, failing restarts and an exhausted budget
\* delay it and never silence it (buildOperatorRuleDecision, main.go:1682-1713).
ToldInTheEnd == <>[]Stuck => <>[](alert # None)

\* The run has ended, and the watch is about to show an end it had before.
Overtaken == watch.at = "synced" /\ isTerminalRunStatus(watch.snap.status) /\ watch.snap.status # run

\* The end of a run that the watch has seen active is shown, although an ended
\* run is no longer listed among the active ones, unless the run is taken up
\* again or the watch dies first.  A question that an agent has left open is shown
\* in the place of a completion.  An end may escape that comes while the watch takes
\* its snapshot of an earlier one, of a failed run that is stopped, or of one taken
\* up again and stopped: the earlier one is shown and the run forgotten
\* (loadWatchSnapshotsAll, watchCommand, main.go:1320-1366).
EndAnnounced ==
  (watch.tracked /\ isTerminalRunStatus(run)) ~>
    \/ ~isTerminalRunStatus(run) \/ Overtaken
    \/ watch.shown = classifyWatchEvent(SyncedSnapshot)
    \/ asked /\ watch.shown = "guidance_needed"
    \/ watch.at \in {"dead", "returned"}

=============================================================================
