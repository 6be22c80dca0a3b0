------------------------------- MODULE MCProc -------------------------------
(***************************************************************************)
(* Model checking of Proc.  The CPUs are alike: no action tells them apart *)
(* and there is no liveness property in these runs.                        *)
(***************************************************************************)
EXTENDS Proc, TLC

Symmetry == Permutations(CPUs)
=============================================================================
