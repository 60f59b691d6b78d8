------------------------------ MODULE MCHealth ------------------------------
(* Health on a small instance; providers and requests are interchangeable. *)
EXTENDS Health, TLC

Symmetry == Permutations(Provider) \cup Permutations(Request)

=============================================================================
