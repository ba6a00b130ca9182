--------------------------- MODULE MCRunLifecycle ---------------------------
(* RunLifecycle on small instances.  Runs, Keys and Callers are sets of model  *)
(* values.  Symmetry is used by the safety runs only; a legacy run differs     *)
(* from the others by its initial files.                                       *)
EXTENDS RunLifecycleInv, TLC

Symmetry == Permutations(Runs \ LegacyRuns) \cup Permutations(Callers)
=============================================================================
