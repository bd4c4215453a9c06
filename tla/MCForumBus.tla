----------------------------- MODULE MCForumBus -----------------------------
(***************************************************************************)
(* Instances of ForumBus for TLC: the sets of failures of its runs.        *)
(***************************************************************************)
EXTENDS ForumBus, TLC

\* Processes are alike.
ProcSymmetry == Permutations(Procs)

\* What the code recovers from on its own.
Recoverable == {"handler", "redis", "slow"}

=============================================================================
