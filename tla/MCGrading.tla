------------------------------ MODULE MCGrading ------------------------------
(* Instances of Grading for the model checker. *)
EXTENDS Grading, TLC

Interchangeable == Permutations(Requests) \cup Permutations(Answers) \cup Permutations(Errors)

=============================================================================
