------------------------------ MODULE MCGateway ------------------------------
(* Instances of Gateway for the model checker. *)
EXTENDS Gateway, TLC

Interchangeable == Permutations(Requests)

=============================================================================
