--------------------------- MODULE MCSignalIngest ---------------------------
(***************************************************************************)
(* SignalIngest for TLC: requests, symbols and keys are interchangeable.   *)
(***************************************************************************)
EXTENDS SignalIngest, TLC

Symmetry ==
    Permutations(Requests) \cup Permutations(Symbols) \cup Permutations(Keys)
=============================================================================
