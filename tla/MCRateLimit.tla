----------------------------- MODULE MCRateLimit -----------------------------
(* Instances of RateLimit for the model checker. *)
EXTENDS RateLimit, TLC

Interchangeable == Permutations(Keys)

=============================================================================
