--------------------------- MODULE MCSessionJobs ---------------------------
(***************************************************************************)
(* SessionJobs for TLC.  Jobs, tasks and plans are compared for equality   *)
(* only, so each set is a symmetry set of the safety runs.                 *)
(***************************************************************************)
EXTENDS SessionJobs, TLC

Symmetry == Permutations(Jobs) \cup Permutations(Tasks) \cup Permutations(Plans)

=============================================================================
