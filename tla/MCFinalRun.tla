----------------------------- MODULE MCFinalRun -----------------------------
(* FinalRun for TLC: processes are interchangeable (safety runs only).      *)
EXTENDS FinalRun, TLC

Symmetry == Permutations(Procs)
=============================================================================
