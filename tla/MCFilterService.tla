-------------------------- MODULE MCFilterService --------------------------
(* Instances of FilterService for TLC. *)
EXTENDS FilterService, TLC

\* Requests and participants are interchangeable.
Symmetry == Permutations(Requests) \cup Permutations(Keys)
=============================================================================
