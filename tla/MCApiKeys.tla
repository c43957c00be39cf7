----------------------------- MODULE MCApiKeys -----------------------------
(* Model values for ApiKeys. Requests are interchangeable, and so are keys. *)
EXTENDS ApiKeys, TLC

Symmetry == Permutations(Requests) \cup Permutations(Keys)
=============================================================================
