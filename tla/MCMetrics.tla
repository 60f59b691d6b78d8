----------------------------- MODULE MCMetrics -----------------------------
(* Metrics with two buckets and the one above; a duration may lie on a bound *)
(* or, the clock being what it is, below zero.                              *)
EXTENDS Metrics, TLC

MCBounds == <<1, 2>>
MCSeconds == {-1, 1, 2, 3}

Symmetry == Permutations(Provider) \cup Permutations(Request)

=============================================================================
