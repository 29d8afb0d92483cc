------------------------------ MODULE MCKernel ------------------------------
(***************************************************************************)
(* The kernel for TLC; the MC*.cfg files choose tasks and objects.         *)
(***************************************************************************)
EXTENDS KernelProps, TLC

\* The tasks that the constants treat alike.  Not for the liveness runs.
Symmetry == Permutations(StartTasks \ Killable)
=============================================================================
