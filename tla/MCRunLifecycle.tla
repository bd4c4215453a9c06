--------------------------- MODULE MCRunLifecycle ---------------------------
(***************************************************************************)
(* Instances of RunLifecycle for TLC: the sets of commands and of events   *)
(* that the configurations choose from.  A standard run has no control     *)
(* signals, so its configurations leave out guide and post.                *)
(***************************************************************************)
EXTENDS RunLifecycle, TLC

\* Every command on a standard run, dry runs excepted.
StandardOps == AllOps \ {"guide", "run_dry", "close_dry"}

\* The same with them.
AllStandardOps == AllOps \ {"guide"}

\* Everything but tmux faults, whose kills do not happen, late edits, and sessions
\* that are quiet.
SerialFaults == {"shell", "crash", "db", "exit", "fail", "commit"}

\* Processes are alike.
ProcSymmetry == Permutations(Procs)

=============================================================================
