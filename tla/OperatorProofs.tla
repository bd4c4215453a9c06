--------------------------- MODULE OperatorProofs ---------------------------
(***************************************************************************)
(* Type correctness of Operator, RestartsCounted and ActsOnEvidence, for   *)
(* every set of agents, budget, number of confirmations and of faults.     *)
(*                                                                         *)
(* RestartsCounted is not inductive: the budget is looked at when the      *)
(* operator decides, and a restart is counted two steps later.  Between    *)
(* them the row must not grow: only the operator writes it, and its        *)
(* restart is either counted, or lost with a fault.                        *)
(***************************************************************************)
EXTENDS Operator, TLAPS

\* The run and its agents.
OutsideInv ==
  /\ config \in Configs /\ run \in Status /\ old \in BOOLEAN
  /\ session \in [Agents -> SessionState]
  /\ asked \in BOOLEAN /\ signalled \in BOOLEAN /\ work \subseteq {"dirty", "draft", "queued"}

Places == {"asleep", "listed", "inactive", "informed", "acting", "restarted", "dead"}

OpState == [at : Places, old : BOOLEAN, snap : Snapshots, todo : Intents]

RowState == [attempts : 0..RestartBudget, cooling : BOOLEAN]

\* The intents that are executed.
Actions == {"auto_restart", "auto_stop_stale", "commit_ready", "pr_ready", "review_feedback_ready"}

\* The memory of the operator.
MemoryInv ==
  /\ op \in OpState
  /\ op.at = "acting" => op.todo \in Actions
  /\ alert \in (Intents \ {"noop"}) \union {None}
  /\ streak \in 0..Confirmations
  /\ observed \in Seq(BOOLEAN) /\ Len(observed) <= Confirmations

WatchInv ==
  watch \in [at : {"asleep", "listed", "synced", "returned", "dead"}, tracked : BOOLEAN,
             last : WatchEvents, shown : WatchEvents, snap : Snapshots]

\* What has been done and counted.
Uncounted == IF op.at = "restarted" THEN 1 ELSE 0

\* The operator is about to restart, or has done so and not written it yet.
Owing == op.at = "restarted" \/ (op.at = "acting" /\ op.todo = "auto_restart")

CountInv ==
  /\ row \in RowState
  /\ restarts \in Nat /\ lost \in Nat /\ events \in 0..MaxEvents /\ faults \in 0..MaxFaults
  /\ lost <= faults
  /\ restarts = row.attempts + lost + Uncounted
  /\ Owing => row.attempts < RestartBudget

IInv == OutsideInv /\ MemoryInv /\ WatchInv /\ CountInv

-----------------------------------------------------------------------------
(* What snapshots, rules and commands yield *)

LEMMA StatusKnown ==
  ASSUME OutsideInv
  PROVE  Synced \in Status
BY DEF OutsideInv, Status, Synced

LEMMA SnapshotKnown ==
  ASSUME OutsideInv
  PROVE  SyncedSnapshot \in Snapshots
BY StatusKnown DEF OutsideInv, SyncedSnapshot, Snapshots

LEMMA RestKnown ==
  ASSUME OutsideInv, NEW snap \in Snapshots
  PROVE  WithRest(snap) \in Snapshots
BY DEF OutsideInv, WithRest, Snapshots

LEMMA NothingKnown == NoSnapshot \in Snapshots
BY DEF NoSnapshot, Snapshots

LEMMA AsleepKnown == Asleep \in OpState /\ Asleep.at = "asleep" /\ Asleep.todo = "noop"
BY NothingKnown DEF Asleep, OpState, Places, Intents

\* Whatever rules and model decide, it is a decision, and to restart only while the
\* budget has not been used up.
LEMMA Decision ==
  ASSUME NEW snap \in Snapshots, NEW wasOld \in BOOLEAN, NEW recent \in BOOLEAN,
         NEW reply, OutsideInv, CountInv,
         NEW merged, merged = Merged(RuleDecision(snap, wasOld, recent), reply)
  PROVE  /\ merged.intent \in Intents
         /\ merged.execute => merged.intent \in Actions
         /\ merged.intent = "auto_restart" => row.attempts < RestartBudget
<1> DEFINE Sound(r) == /\ r.intent \in Intents
                       /\ r.execute => r.intent \in Actions
                       /\ r.intent = "auto_restart" => row.attempts < RestartBudget
<1>1. Sound(Noop)
  BY DEF Noop, Rule, Intents
<1>2. Sound(UnhealthyRule)
  <2>1. row.attempts \in Nat /\ RestartBudget \in Nat
    BY OperatorAssumption DEF CountInv, RowState
  <2> QED BY <1>1, <2>1 DEF UnhealthyRule, Rule, Intents, Actions
<1>3. Sound(CompletedRule(snap.left))
  BY <1>1 DEF CompletedRule, Rule, Intents, Actions
<1>4. Sound(RuleDecision(snap, wasOld, recent))
  BY <1>1, <1>2, <1>3 DEF RuleDecision, Rule, Intents, Actions
<1> QED BY <1>4 DEF Merged, Rule, Intents

LEMMA StatusSet ==
  ASSUME OutsideInv, NEW s \in Status, SetStatus(s)
  PROVE  run' \in Status /\ old' \in BOOLEAN
BY DEF SetStatus, OutsideInv

LEMMA StopTyped ==
  ASSUME OutsideInv, Stop
  PROVE  OutsideInv'
BY StatusSet DEF Stop, OutsideInv, Status, SessionState

LEMMA RestartTyped ==
  ASSUME OutsideInv, NEW started, Restart(started)
  PROVE  OutsideInv'
<1>1. run' \in Status /\ old' \in BOOLEAN
  <2>1. (IF CanTransitionRun(run, "running") THEN "running" ELSE run) \in Status
    BY DEF OutsideInv, Status
  <2> QED BY <2>1, StatusSet DEF Restart
<1>2. session' \in [Agents -> SessionState]
  BY DEF Restart, OutsideInv, SessionState
<1> QED BY <1>1, <1>2 DEF Restart, OutsideInv

LEMMA CommitTyped ==
  ASSUME OutsideInv, Commit \/ OpenPullRequests
  PROVE  OutsideInv'
BY DEF Commit, OpenPullRequests, OutsideInv

LEMMA DispatchTyped ==
  ASSUME OutsideInv, SyncAndDispatch
  PROVE  OutsideInv'
BY StatusSet DEF SyncAndDispatch, OutsideInv, Status, SessionState

-----------------------------------------------------------------------------
(* The loop of the operator *)

LEMMA InitIInv == Init => IInv
<1> SUFFICES ASSUME Init PROVE IInv
  OBVIOUS
<1>1. OutsideInv
  BY DEF Init, OutsideInv, Status, SessionState
<1>2. MemoryInv
  <2>1. op \in OpState
    <3>1. PICK place \in {"asleep", "dead"} : op = [Asleep EXCEPT !.at = place]
      BY AsleepKnown DEF Init
    <3> QED BY <3>1, AsleepKnown DEF OpState, Places
  <2>3. op.at # "acting"
    BY AsleepKnown DEF Init, OpState
  <2>2. observed \in Seq(BOOLEAN) /\ Len(observed) <= Confirmations
    BY OperatorAssumption DEF Init
  <2> QED BY <2>1, <2>2, <2>3, OperatorAssumption DEF Init, MemoryInv, None
<1>3. WatchInv
  BY NothingKnown, OperatorAssumption DEF Init, WatchInv, StartedWatch, WatchEvents, None, OutsideInv
<1>4. CountInv
  BY OperatorAssumption DEF Init, CountInv, RowState, NoOperatorRow, Uncounted, Owing, Asleep
<1> QED BY <1>1, <1>2, <1>3, <1>4 DEF IInv

\* A step of the loop that leaves what is counted alone, and does not come to owe
\* a restart beyond the budget.
LEMMA CountKept ==
  ASSUME CountInv, UNCHANGED <<row, restarts, lost, events, faults>>,
         op'.at # "restarted", op.at # "restarted",
         Owing' => row.attempts < RestartBudget
  PROVE  CountInv'
BY DEF CountInv, Uncounted

LEMMA ListTyped ==
  ASSUME IInv, ListActive
  PROVE  IInv'
<1> USE DEF IInv, ListActive
<1>1. op' \in OpState /\ op'.at \in {"listed", "inactive"}
  <2>1. PICK place \in {"listed", "inactive"} : op' = [Asleep EXCEPT !.at = place, !.old = old]
    OBVIOUS
  <2>2. old \in BOOLEAN
    BY DEF OutsideInv
  <2> QED BY <2>1, <2>2, AsleepKnown DEF OpState, Places
<1>2. MemoryInv'
  BY <1>1 DEF MemoryInv, ghosts
<1>3. CountInv'
  BY <1>1, CountKept DEF Owing, ghosts
<1> QED BY <1>2, <1>3 DEF OutsideInv, WatchInv, outside

\* What has been seen stays a short sequence.
LEMMA WatchedTyped ==
  ASSUME MemoryInv, NEW snap \in Snapshots
  PROVE  Watched(snap) \in Seq(BOOLEAN) /\ Len(Watched(snap)) <= Confirmations
<1> DEFINE all == Append(observed, Sick(snap))
<1>1. Sick(snap) \in BOOLEAN
  BY DEF Sick
<1>2. all \in Seq(BOOLEAN) /\ Len(all) = Len(observed) + 1
  BY <1>1 DEF MemoryInv
<1>3. Len(observed) \in Nat /\ Confirmations \in Nat \ {0}
  BY OperatorAssumption DEF MemoryInv
<1>4. CASE Len(all) > Confirmations
  <2>1. Tail(all) \in Seq(BOOLEAN) /\ Len(Tail(all)) = Len(all) - 1
    BY <1>2, <1>3
  <2> QED BY <1>2, <1>3, <1>4, <2>1 DEF MemoryInv, Watched
<1>5. CASE ~(Len(all) > Confirmations)
  BY <1>2, <1>3, <1>5 DEF Watched
<1> QED BY <1>4, <1>5

LEMMA SnapshotTyped ==
  ASSUME IInv, TakeSnapshot \/ ForgetInactive
  PROVE  IInv'
<1> USE DEF IInv, TakeSnapshot, ForgetInactive
<1>1. OutsideInv'
  BY StatusKnown, StatusSet DEF OutsideInv
<1>2. op' \in OpState /\ op'.at \in {"informed", "asleep"}
  <2>1. CASE TakeSnapshot
    BY <2>1, SnapshotKnown DEF MemoryInv, OpState, Places
  <2>2. CASE ForgetInactive
    BY <2>2, AsleepKnown
  <2> QED BY <2>1, <2>2
<1>3. streak' \in 0..Confirmations
  BY OperatorAssumption DEF NextStreak, MemoryInv
<1>4. MemoryInv'
  BY <1>2, <1>3, WatchedTyped, SnapshotKnown DEF MemoryInv, None
<1>5. CountInv'
  BY <1>2, CountKept DEF Owing
<1> QED BY <1>1, <1>4, <1>5 DEF WatchInv

LEMMA DecideTyped ==
  ASSUME IInv, Decide
  PROVE  IInv'
<1> USE DEF IInv, Decide
<1>1. PICK recent \in BOOLEAN, reply \in {None, "noop", "escalate_blocked", "auto_restart"} :
        LET snap   == WithRest(op.snap)
            merged == Merged(RuleDecision(snap, op.old, recent), reply)
        IN  /\ alert' = IF merged.intent = "noop" THEN None ELSE merged.intent
            /\ op' = IF merged.intent \notin {"noop", alert} /\ merged.execute /\ ~config.dryRun
                     THEN [op EXCEPT !.at = "acting", !.snap = snap, !.todo = merged.intent]
                     ELSE Asleep
  OBVIOUS
<1> DEFINE snap == WithRest(op.snap)
<1> DEFINE merged == Merged(RuleDecision(snap, op.old, recent), reply)
<1>2. snap \in Snapshots /\ op.old \in BOOLEAN
  BY RestKnown DEF MemoryInv, OpState
<1>3. /\ merged.intent \in Intents
      /\ merged.execute => merged.intent \in Actions
      /\ merged.intent = "auto_restart" => row.attempts < RestartBudget
  BY <1>2, Decision
<1> HIDE DEF snap, merged
<1>4. op' = Asleep \/ (op' = [op EXCEPT !.at = "acting", !.snap = snap, !.todo = merged.intent] /\ merged.execute)
  BY <1>1 DEF snap, merged
<1>5. op' \in OpState /\ (op' = Asleep \/ (op'.at = "acting" /\ op'.todo = merged.intent /\ merged.execute))
  BY <1>2, <1>3, <1>4, AsleepKnown DEF MemoryInv, OpState, Places
<1>6. alert' \in (Intents \ {"noop"}) \union {None}
  BY <1>1, <1>3 DEF snap, merged
<1>7. op'.at # "restarted" /\ (Owing' => row.attempts < RestartBudget)
  BY <1>3, <1>5, AsleepKnown DEF Owing
<1>8. CountInv'
  BY <1>7, CountKept DEF ghosts
<1>9. MemoryInv'
  BY <1>3, <1>5, <1>6, AsleepKnown DEF MemoryInv, ghosts
<1> QED BY <1>8, <1>9 DEF OutsideInv, WatchInv, outside

LEMMA ActTyped ==
  ASSUME IInv, Act
  PROVE  IInv'
<1> USE DEF IInv, Act
<1>1. OutsideInv'
  <2>1. op.todo \in Actions
    BY DEF MemoryInv
  <2>2. CASE op.todo = "auto_stop_stale"
    BY <2>2, StopTyped
  <2>3. CASE op.todo = "auto_restart"
    BY <2>3, RestartTyped
  <2>4. CASE op.todo = "commit_ready"
    BY <2>4, CommitTyped
  <2>5. CASE op.todo = "pr_ready"
    BY <2>5, CommitTyped
  <2>6. CASE op.todo = "review_feedback_ready"
    BY <2>6, DispatchTyped
  <2> QED BY <2>1, <2>2, <2>3, <2>4, <2>5, <2>6 DEF Actions
<1>2. op' \in OpState /\ op'.at \in {"restarted", "asleep"}
  <2>1. CASE op' = [Asleep EXCEPT !.at = "restarted"]
    BY <2>1, AsleepKnown DEF OpState, Places
  <2>2. CASE op' = Asleep
    BY <2>2, AsleepKnown
  <2> QED BY <2>1, <2>2
<1>3. CASE op.todo = "auto_restart"
  <2>1. op'.at = "restarted" /\ restarts' = restarts + 1
    BY <1>3, AsleepKnown DEF OpState
  <2>2. row.attempts < RestartBudget
    BY <1>3 DEF CountInv, Owing
  <2> QED BY <1>1, <1>2, <2>1, <2>2 DEF MemoryInv, CountInv, RowState, Uncounted, WatchInv
<1>4. CASE op.todo # "auto_restart"
  <2>1. op' = Asleep /\ UNCHANGED restarts
    BY <1>4
  <2>2. CountInv'
    BY <2>1, CountKept, AsleepKnown DEF Owing
  <2> QED BY <1>1, <1>2, <2>2 DEF MemoryInv, WatchInv
<1> QED BY <1>3, <1>4

LEMMA ActFailsTyped ==
  ASSUME IInv, DecideFails \/ ActRefused \/ ActFails
  PROVE  IInv'
<1> USE DEF IInv, DecideFails, ActRefused, ActFails
<1>1. OutsideInv'
  <2>1. CASE UNCHANGED outside
    BY <2>1 DEF OutsideInv, outside
  <2>2. CASE \E started \in SUBSET Agents : Restart(started)
    BY <2>2, RestartTyped
  <2> QED BY <2>1, <2>2
<1>2. op' = Asleep /\ op' \in OpState /\ op'.at = "asleep"
  BY AsleepKnown
<1>3. MemoryInv'
  BY <1>2 DEF MemoryInv, ghosts
<1>4. CountInv'
  BY <1>2, OperatorAssumption DEF CountInv, Uncounted, Owing, ghosts
<1> QED BY <1>1, <1>3, <1>4 DEF WatchInv

\* The restart is counted, or lost with a fault.
LEMMA UpsertTyped ==
  ASSUME IInv, UpsertOperatorRunState \/ UpsertFails
  PROVE  IInv'
<1> USE DEF IInv, UpsertOperatorRunState, UpsertFails
<1>1. op' \in OpState /\ op'.at = "asleep" /\ op.at = "restarted"
  BY AsleepKnown
<1>2. row.attempts < RestartBudget
  BY <1>1 DEF CountInv, Owing
<1>3. MemoryInv'
  BY <1>1 DEF MemoryInv, ghosts
<1>4. CountInv'
  <2> USE <1>1, <1>2, OperatorAssumption DEF CountInv, RowState, Uncounted, Owing
  <2>1. CASE UpsertOperatorRunState
    <3>1. row'.attempts = row.attempts + 1 /\ row' \in RowState
      BY <2>1 DEF CountedRow
    <3> QED BY <2>1, <3>1 DEF ghosts
  <2>2. CASE UpsertFails
    BY <2>2
  <2> QED BY <2>1, <2>2
<1> QED BY <1>3, <1>4 DEF OutsideInv, WatchInv, outside

LEMMA DieTyped ==
  ASSUME IInv, Die \/ Start
  PROVE  IInv'
<1> USE DEF IInv, Die, Start
<1>1. op' \in OpState /\ op'.at \in {"dead", "asleep"}
  <2>1. PICK place \in {"dead", "asleep"} : op' = [Asleep EXCEPT !.at = place]
    BY AsleepKnown DEF Asleep
  <2> QED BY <2>1, AsleepKnown DEF OpState, Places
<1>2. MemoryInv'
  <2>1. CASE Die
    <3>1. observed' \in Seq(BOOLEAN) /\ Len(observed') <= Confirmations
      BY <2>1, OperatorAssumption
    <3> QED BY <1>1, <2>1, <3>1, OperatorAssumption DEF MemoryInv, None
  <2>2. CASE Start
    BY <1>1, <2>2 DEF MemoryInv, ghosts
  <2> QED BY <2>1, <2>2
<1>3. CountInv'
  <2> USE <1>1, OperatorAssumption DEF CountInv, RowState, Uncounted, Owing
  <2>1. CASE Die /\ op.at = "restarted"
    BY <2>1
  <2>2. CASE Die /\ op.at # "restarted"
    BY <2>2
  <2>3. CASE Start
    BY <2>3 DEF ghosts
  <2> QED BY <2>1, <2>2, <2>3
<1> QED BY <1>2, <1>3 DEF OutsideInv, WatchInv, outside

-----------------------------------------------------------------------------
(* The watch, and the others *)

LEMMA WatchTyped ==
  ASSUME IInv, WatchTick \/ WatchDies \/ WatchStart
  PROVE  IInv'
<1> USE DEF IInv
<1>1. UNCHANGED <<operator, ghosts, events>>
  BY DEF WatchTick, WatchList, WatchNothing, WatchSync, WatchShow, WatchDies, WatchStart
<1>2. OutsideInv'
  <2>1. CASE WatchSync
    BY <2>1, StatusKnown, StatusSet DEF WatchSync, OutsideInv
  <2>2. CASE UNCHANGED outside
    BY <2>2 DEF outside, OutsideInv
  <2> QED BY <2>1, <2>2 DEF WatchTick, WatchList, WatchNothing, WatchShow, WatchDies, WatchStart
<1>3. WatchInv'
  <2>1. CASE WatchList \/ WatchNothing \/ WatchDies
    BY <2>1, NothingKnown DEF WatchList, WatchNothing, WatchDies, WatchInv, WatchEvents, None, isActiveRunStatus
  <2>2. CASE WatchSync
    BY <2>2, SnapshotKnown DEF WatchSync, WatchInv
  <2>3. CASE WatchShow
    <3>1. classifyWatchEvent(WithRest(watch.snap)) \in WatchEvents
      BY DEF classifyWatchEvent, WatchEvents
    <3> QED BY <2>3, <3>1, NothingKnown DEF WatchShow, WatchInv, WatchEvents, None, isTerminalRunStatus
  <2>4. CASE WatchStart
    BY <2>4, NothingKnown DEF WatchStart, StartedWatch, WatchInv, WatchEvents, None
  <2> QED BY <2>1, <2>2, <2>3, <2>4 DEF WatchTick
<1>4. CountInv'
  <2>1. faults' = faults \/ (faults < MaxFaults /\ faults' = faults + 1)
    BY DEF WatchTick, WatchList, WatchNothing, WatchSync, WatchShow, WatchDies, WatchStart
  <2> QED BY <1>1, <2>1, OperatorAssumption DEF CountInv, Uncounted, Owing, operator, ghosts
<1>5. MemoryInv'
  BY <1>1 DEF MemoryInv, operator, ghosts
<1> QED BY <1>2, <1>3, <1>4, <1>5

LEMMA OthersTyped ==
  ASSUME IInv, AgentEvent \/ AgentPost \/ WorkAppears \/ HumanStops \/ HumanRestarts \/ HumanMoves
  PROVE  IInv'
<1> USE DEF IInv
<1>1. Event
  BY DEF AgentEvent, AgentPost, WorkAppears, HumanStops, HumanRestarts, HumanMoves
<1>2. OutsideInv'
  <2>1. CASE AgentEvent
    BY <2>1 DEF AgentEvent, OutsideInv
  <2>2. CASE AgentPost \/ WorkAppears
    BY <2>2 DEF AgentPost, WorkAppears, OutsideInv
  <2>3. CASE HumanStops \/ HumanRestarts
    BY <2>3, StopTyped, RestartTyped DEF HumanStops, HumanRestarts
  <2>4. CASE HumanMoves
    <3>1. \E s \in Status : SetStatus(s)
      BY <2>4 DEF HumanMoves, Status
    <3> QED BY <2>4, <3>1, StatusSet DEF HumanMoves, OutsideInv
  <2> QED BY <2>1, <2>2, <2>3, <2>4
<1>3. MemoryInv' /\ WatchInv'
  BY <1>1 DEF Event, MemoryInv, WatchInv, ghosts
<1>4. CountInv'
  BY <1>1, OperatorAssumption DEF Event, CountInv, Uncounted, Owing, ghosts
<1> QED BY <1>2, <1>3, <1>4

LEMMA TimeTyped ==
  ASSUME IInv, Age \/ CoolDown
  PROVE  IInv'
<1> USE DEF IInv, Age, CoolDown
<1>1. OutsideInv' /\ MemoryInv' /\ WatchInv'
  BY DEF OutsideInv, MemoryInv, WatchInv, outside, ghosts
<1>2. row' \in RowState /\ row'.attempts = row.attempts
  BY DEF CountInv, RowState
<1>3. CountInv'
  BY <1>2 DEF CountInv, Uncounted, Owing, ghosts
<1> QED BY <1>1, <1>3

LEMMA NextIInv ==
  ASSUME IInv, [Next]_vars
  PROVE  IInv'
<1>1. CASE UNCHANGED vars
  BY <1>1 DEF vars, outside, operator, ghosts, IInv, OutsideInv, MemoryInv, WatchInv,
              CountInv, Uncounted, Owing
<1>2. CASE Tick \/ DecideFails \/ ActFails \/ UpsertFails
  BY <1>2, ListTyped, SnapshotTyped, DecideTyped, ActTyped, ActFailsTyped, UpsertTyped DEF Tick
<1>3. CASE Die \/ Start
  BY <1>3, DieTyped
<1>4. CASE WatchTick \/ WatchDies \/ WatchStart
  BY <1>4, WatchTyped
<1>5. CASE AgentEvent \/ AgentPost \/ WorkAppears \/ HumanStops \/ HumanRestarts \/ HumanMoves
  BY <1>5, OthersTyped
<1>6. CASE Age \/ CoolDown
  BY <1>6, TimeTyped
<1> QED BY <1>1, <1>2, <1>3, <1>4, <1>5, <1>6 DEF Next

-----------------------------------------------------------------------------
\* The variables of the operator and the watch keep to their values, and the row
\* never counts more restarts than the budget has.
THEOREM TypeCorrect == Spec => []TypeOK
<1>1. IInv => TypeOK
  <2> SUFFICES ASSUME IInv PROVE TypeOK
    OBVIOUS
  <2>1. lost \in 0..MaxFaults
    BY OperatorAssumption DEF IInv, CountInv
  <2>2. op \in [at : {"asleep", "listed", "inactive", "informed", "acting", "restarted", "dead"},
                 old : BOOLEAN, snap : Snapshots, todo : Intents]
    BY DEF IInv, MemoryInv, OpState, Places
  <2> QED BY <2>1, <2>2 DEF IInv, OutsideInv, MemoryInv, WatchInv, CountInv, RowState, TypeOK
<1> QED BY <1>1, InitIInv, NextIInv, PTL DEF Spec

\* The operator never restarts the agents more often than its budget, the restarts
\* whose row was not written apart, however often it dies in between.
THEOREM BudgetHolds == Spec => []RestartsCounted
<1>1. IInv => RestartsCounted
  <2> SUFFICES ASSUME IInv PROVE RestartsCounted
    OBVIOUS
  <2>1. restarts = row.attempts + lost + Uncounted /\ row.attempts \in 0..RestartBudget
    BY DEF IInv, CountInv, RowState
  <2>2. CASE op.at = "restarted"
    <3>1. row.attempts < RestartBudget
      BY <2>2 DEF IInv, CountInv, Owing
    <3> QED BY <2>1, <2>2, <3>1, OperatorAssumption DEF Uncounted, RestartsCounted, IInv, CountInv
  <2>3. CASE op.at # "restarted"
    BY <2>1, <2>3, OperatorAssumption DEF Uncounted, RestartsCounted, IInv, CountInv
  <2> QED BY <2>2, <2>3
<1> QED BY <1>1, InitIInv, NextIInv, PTL DEF Spec

-----------------------------------------------------------------------------
(* ActsOnEvidence: the count of bad snapshots is that of the latest ones in a *)
(* row, and nothing changes it between a decision and its action.             *)

\* The latest snapshots, as many as are counted, were all bad.
StreakInv ==
  /\ streak <= Len(observed)
  /\ \A i \in 1..Len(observed) : i > Len(observed) - streak => observed[i] = TRUE

\* What settings, snapshot and count must be for an intent that is executed.
Warranted(snap, intent) ==
  /\ config.llm # "assist" /\ ~snap.guidance
  /\ intent = "auto_restart" => streak = Confirmations
  /\ intent \in {"commit_ready", "pr_ready"} => config.git = "auto"
  /\ intent = "review_feedback_ready" => config.review = "auto"

EvidenceInv ==
  /\ StreakInv
  /\ op.at = "acting" => Warranted(op.snap, op.todo) /\ ~config.dryRun

LEMMA Warrant ==
  ASSUME IInv, NEW snap \in Snapshots, NEW wasOld \in BOOLEAN, NEW recent \in BOOLEAN,
         NEW reply,
         NEW merged, merged = Merged(RuleDecision(snap, wasOld, recent), reply),
         merged.execute
  PROVE  Warranted(snap, merged.intent)
<1> DEFINE rule == RuleDecision(snap, wasOld, recent)
<1>1. config.llm # "assist" /\ rule.execute /\ merged = rule
  BY DEF Merged, Rule
<1>2. ~Noop.execute
  BY DEF Noop, Rule
<1>3. ~snap.guidance
  BY <1>1, <1>2 DEF RuleDecision, Rule
<1>4. \/ rule = Rule("auto_stop_stale", TRUE)
      \/ rule = UnhealthyRule
      \/ rule = CompletedRule(snap.left)
  BY <1>1, <1>2, <1>3 DEF RuleDecision
<1> HIDE DEF rule
<1>5. CASE rule = Rule("auto_stop_stale", TRUE)
  BY <1>1, <1>3, <1>5 DEF Rule, Warranted
<1>6. CASE rule = UnhealthyRule
  <2>1. ~(streak < Confirmations) /\ rule.intent = "auto_restart"
    BY <1>1, <1>2, <1>6 DEF UnhealthyRule, Rule
  <2>2. streak = Confirmations
    BY <2>1, OperatorAssumption DEF IInv, MemoryInv
  <2> QED BY <1>1, <1>3, <2>1, <2>2 DEF Warranted
<1>7. CASE rule = CompletedRule(snap.left)
  <2>1. \/ rule.intent \in {"commit_ready", "pr_ready"} /\ config.git = "auto"
        \/ rule.intent = "review_feedback_ready" /\ config.review = "auto"
    BY <1>1, <1>2, <1>7 DEF CompletedRule, Rule
  <2> QED BY <1>1, <1>3, <2>1 DEF Warranted
<1> QED BY <1>4, <1>5, <1>6, <1>7

LEMMA StreakCounts ==
  ASSUME IInv, StreakInv, NEW snap \in Snapshots,
         streak' = NextStreak(snap), observed' = Watched(snap)
  PROVE  StreakInv'
<1> DEFINE all == Append(observed, Sick(snap))
<1>1. Sick(snap) \in BOOLEAN
  BY DEF Sick
<1>2. /\ observed \in Seq(BOOLEAN) /\ Len(observed) \in Nat /\ Len(observed) <= Confirmations
      /\ streak \in 0..Confirmations /\ Confirmations \in Nat \ {0}
  BY OperatorAssumption DEF IInv, MemoryInv
<1>3. /\ all \in Seq(BOOLEAN) /\ Len(all) = Len(observed) + 1
      /\ \A i \in 1..Len(observed) : all[i] = observed[i]
      /\ all[Len(observed) + 1] = Sick(snap)
  BY <1>1, <1>2
<1> HIDE DEF all
<1>4. CASE Len(all) > Confirmations
  <2>1. observed' = Tail(all)
    BY <1>4 DEF Watched, all
  <2>2. /\ Len(observed') = Len(all) - 1
        /\ \A i \in 1..Len(observed') : observed'[i] = all[i + 1]
    BY <1>2, <1>3, <1>4, <2>1
  <2>3. Len(observed') = Len(observed) /\ Len(observed) = Confirmations
    BY <1>2, <1>3, <1>4, <2>2
  <2>4. CASE ~Sick(snap)
    <3>1. streak' = 0
      BY <2>4 DEF NextStreak
    <3> QED BY <1>2, <2>3, <3>1 DEF StreakInv
  <2>5. CASE Sick(snap)
    <3>1. streak' = IF streak = Confirmations THEN streak ELSE streak + 1
      BY <2>5 DEF NextStreak
    <3>2. streak' <= Len(observed') /\ streak' <= streak + 1 /\ streak' \in Nat
      BY <1>2, <2>3, <3>1
    <3>3. ASSUME NEW i \in 1..Len(observed'), i > Len(observed') - streak'
          PROVE  observed'[i] = TRUE
      <4>1. observed'[i] = all[i + 1] /\ i \in Nat /\ i <= Len(observed)
        BY <1>2, <2>2, <2>3, <3>3
      <4>2. CASE i = Len(observed)
        BY <1>3, <2>5, <4>1, <4>2
      <4>3. CASE i < Len(observed)
        <5>1. i + 1 \in 1..Len(observed) /\ i + 1 > Len(observed) - streak
          BY <1>2, <2>3, <3>2, <3>3, <4>1, <4>3
        <5>2. all[i + 1] = observed[i + 1]
          BY <1>3, <5>1
        <5> QED BY <4>1, <5>1, <5>2 DEF StreakInv
      <4>4. i = Len(observed) \/ i < Len(observed)
        BY <1>2, <4>1
      <4> QED BY <4>2, <4>3, <4>4
    <3> QED BY <3>2, <3>3 DEF StreakInv
  <2> QED BY <2>4, <2>5
<1>5. CASE ~(Len(all) > Confirmations)
  <2>1. observed' = all
    BY <1>5 DEF Watched, all
  <2> QED BY <1>1, <1>2, <1>3, <1>5, <2>1 DEF StreakInv, NextStreak
<1> QED BY <1>4, <1>5

LEMMA InitEvidence == Init => EvidenceInv
<1> SUFFICES ASSUME Init PROVE EvidenceInv
  OBVIOUS
<1>1. op.at # "acting"
  BY AsleepKnown DEF Init, OpState
<1>2. StreakInv
  BY DEF Init, StreakInv
<1> QED BY <1>1, <1>2 DEF EvidenceInv

LEMMA ConfigFixed ==
  ASSUME IInv, [Next]_vars
  PROVE  config' = config
<1>1. CASE UNCHANGED vars \/ Die \/ Start \/ DecideFails \/ UpsertFails \/ Age \/ CoolDown
  BY <1>1 DEF vars, outside, Die, Start, DecideFails, UpsertFails, Age, CoolDown
<1>2. CASE Tick /\ ~Act
  BY <1>2 DEF Tick, ListActive, TakeSnapshot, ForgetInactive, Decide, ActRefused, UpsertOperatorRunState, outside
<1>3. CASE Stop \/ (\E started \in SUBSET Agents : Restart(started)) \/ Commit \/ OpenPullRequests \/ SyncAndDispatch
  BY <1>3 DEF Stop, Restart, Commit, OpenPullRequests, SyncAndDispatch
<1>4. CASE Act
  <2>1. op.todo \in Actions
    BY <1>4 DEF IInv, MemoryInv, Act
  <2> QED BY <1>3, <1>4, <2>1 DEF Act, Actions
<1>5. CASE ActFails
  BY <1>3, <1>5 DEF ActFails, outside
<1>6. CASE WatchTick \/ WatchDies \/ WatchStart
  BY <1>6 DEF WatchTick, WatchList, WatchNothing, WatchSync, WatchShow, WatchDies, WatchStart, outside
<1>7. CASE AgentEvent \/ AgentPost \/ WorkAppears \/ HumanMoves
  BY <1>7 DEF AgentEvent, AgentPost, WorkAppears, HumanMoves
<1>8. CASE HumanStops \/ HumanRestarts
  BY <1>3, <1>8 DEF HumanStops, HumanRestarts
<1> QED BY <1>1, <1>2, <1>3, <1>4, <1>5, <1>6, <1>7, <1>8 DEF Next, Tick

LEMMA NextEvidence ==
  ASSUME IInv, EvidenceInv, [Next]_vars
  PROVE  EvidenceInv'
<1> USE DEF EvidenceInv
<1>1. CASE TakeSnapshot
  <2>1. op'.at # "acting"
    BY <1>1, AsleepKnown DEF TakeSnapshot, IInv, MemoryInv, OpState
  <2> QED BY <1>1, <2>1, StreakCounts, SnapshotKnown DEF TakeSnapshot, IInv
<1>6. CASE ForgetInactive
  <2>1. op'.at # "acting"
    BY <1>6, AsleepKnown DEF ForgetInactive, OpState
  <2>2. streak' = 0 /\ observed' \in Seq(BOOLEAN)
    BY <1>6, WatchedTyped, SnapshotKnown DEF ForgetInactive, IInv
  <2>3. StreakInv'
    BY <2>2 DEF StreakInv
  <2> QED BY <2>1, <2>3
<1>2. CASE Die
  <2>1. op'.at # "acting"
    BY <1>2, AsleepKnown DEF Die, OpState
  <2>2. StreakInv'
    BY <1>2 DEF Die, StreakInv
  <2> QED BY <2>1, <2>2
<1>3. CASE Decide
  <2>1. PICK recent \in BOOLEAN, reply \in {None, "noop", "escalate_blocked", "auto_restart"} :
          LET snap   == WithRest(op.snap)
              merged == Merged(RuleDecision(snap, op.old, recent), reply)
          IN  /\ alert' = IF merged.intent = "noop" THEN None ELSE merged.intent
              /\ op' = IF merged.intent \notin {"noop", alert} /\ merged.execute /\ ~config.dryRun
                       THEN [op EXCEPT !.at = "acting", !.snap = snap, !.todo = merged.intent]
                       ELSE Asleep
    BY <1>3 DEF Decide
  <2> DEFINE snap == WithRest(op.snap)
  <2> DEFINE merged == Merged(RuleDecision(snap, op.old, recent), reply)
  <2>2. op \in OpState /\ snap \in Snapshots /\ op.old \in BOOLEAN
    BY RestKnown DEF IInv, MemoryInv, OpState
  <2>3. merged.execute => Warranted(snap, merged.intent)
    BY <2>2, Warrant
  <2> HIDE DEF snap, merged
  <2>4. CASE op' = Asleep
    BY <1>3, <2>4, AsleepKnown DEF Decide, StreakInv, ghosts
  <2>5. CASE op' = [op EXCEPT !.at = "acting", !.snap = snap, !.todo = merged.intent] /\ merged.execute /\ ~config.dryRun
    <3>1. op'.snap = snap /\ op'.todo = merged.intent
      BY <2>2, <2>5 DEF OpState
    <3> QED BY <1>3, <2>3, <2>5, <3>1 DEF Decide, Warranted, StreakInv, outside, ghosts
  <2> QED BY <2>1, <2>4, <2>5 DEF snap, merged
<1>4. CASE UNCHANGED <<config, streak, observed>> /\ (op' = op \/ op'.at # "acting")
  BY <1>4 DEF StreakInv, Warranted
<1>5. CASE ~TakeSnapshot /\ ~ForgetInactive /\ ~Die /\ ~Decide
  <2>1. UNCHANGED <<streak, observed>>
    BY <1>5 DEF Next, vars, Tick, ListActive, DecideFails, Act, ActRefused, ActFails, UpsertOperatorRunState, UpsertFails,
       Start, AgentEvent, AgentPost, WorkAppears, HumanStops, HumanRestarts, HumanMoves, Event,
       Age, CoolDown, WatchTick, WatchList, WatchNothing, WatchSync, WatchShow, WatchDies, WatchStart,
       operator, ghosts
  <2>2. config' = config
    BY ConfigFixed
  <2>3. op' = op \/ op'.at # "acting"
    BY <1>5, AsleepKnown DEF Next, vars, Tick, ListActive, DecideFails, Act, ActRefused, ActFails,
       UpsertOperatorRunState, UpsertFails,
       Start, AgentEvent, AgentPost, WorkAppears, HumanStops, HumanRestarts, HumanMoves, Event,
       Age, CoolDown, WatchTick, WatchList, WatchNothing, WatchSync, WatchShow, WatchDies, WatchStart,
       operator, IInv, MemoryInv, OpState
  <2> QED BY <1>4, <2>1, <2>2, <2>3
<1> QED BY <1>1, <1>2, <1>3, <1>5, <1>6

\* Whatever happens to the run meanwhile, and however often the operator dies, an
\* action is one that the settings allow, and a restart rests on as many bad
\* snapshots in a row as must confirm it.
THEOREM EvidenceHolds == Spec => []ActsOnEvidence
<1>1. IInv /\ EvidenceInv => ActsOnEvidence
  <2> SUFFICES ASSUME IInv, EvidenceInv, op.at = "acting"
               PROVE  /\ config.llm # "assist" /\ ~config.dryRun /\ ~op.snap.guidance
                      /\ op.todo = "auto_restart" => observed = [i \in 1..Confirmations |-> TRUE]
                      /\ op.todo \in {"commit_ready", "pr_ready"} => config.git = "auto"
                      /\ op.todo = "review_feedback_ready" => config.review = "auto"
    BY DEF ActsOnEvidence
  <2>1. Warranted(op.snap, op.todo) /\ ~config.dryRun
    BY DEF EvidenceInv
  <2>2. ASSUME op.todo = "auto_restart"
        PROVE  observed = [i \in 1..Confirmations |-> TRUE]
    <3>1. /\ streak = Confirmations /\ Confirmations \in Nat
          /\ observed \in Seq(BOOLEAN) /\ Len(observed) <= Confirmations
      BY <2>1, <2>2, OperatorAssumption DEF Warranted, IInv, MemoryInv
    <3>2. Len(observed) = Confirmations /\ \A i \in 1..Confirmations : observed[i] = TRUE
      BY <3>1 DEF EvidenceInv, StreakInv
    <3> QED BY <3>1, <3>2
  <2> QED BY <2>1, <2>2 DEF Warranted
<1>2. IInv /\ EvidenceInv /\ [Next]_vars => (IInv /\ EvidenceInv)'
  BY NextIInv, NextEvidence
<1> QED BY <1>1, <1>2, InitIInv, InitEvidence, PTL DEF Spec

=============================================================================
