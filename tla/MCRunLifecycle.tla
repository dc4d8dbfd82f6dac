---------------------------- MODULE MCRunLifecycle ---------------------------
(* RunLifecycle on small sets of runs, for TLC. *)
EXTENDS RunLifecycle, TLC

\* Runs are interchangeable: only their creation order tells them apart.
RunSymmetry == Permutations(Run)
==============================================================================
