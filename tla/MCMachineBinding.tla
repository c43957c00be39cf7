-------------------------- MODULE MCMachineBinding --------------------------
(***************************************************************************)
(* MachineBinding for TLC: checks and accounts are interchangeable.        *)
(***************************************************************************)
EXTENDS MachineBinding, TLC

Symmetry == Permutations(Checks) \cup Permutations(Accounts)
=============================================================================
