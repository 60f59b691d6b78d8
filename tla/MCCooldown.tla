----------------------------- MODULE MCCooldown -----------------------------
(* Cooldown on a small instance; providers and requests are interchangeable. *)
EXTENDS Cooldown, TLC

Symmetry == Permutations(Provider) \cup Permutations(Request)

=============================================================================
