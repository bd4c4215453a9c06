---------------------------- MODULE MCRunReview ----------------------------
(***************************************************************************)
(* Instances of RunReview for TLC.                                         *)
(***************************************************************************)
EXTENDS RunReview, TLC

AllChecks == CheckNames

\* The third edit makes a directory in target 1; in target 2 it goes to the one that
\* the second has made and a commit may have brought in.
NewDirectories == <<{3}, {2, 3}>>
NoDirectories  == [k \in Targets |-> {}]

Symmetry == Permutations(Procs)

=============================================================================
