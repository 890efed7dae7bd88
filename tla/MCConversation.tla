--------------------------- MODULE MCConversation ---------------------------
(* Instances of Conversation for the model checker. *)
EXTENDS Conversation, TLC

\* Requests, and session ids, are interchangeable (safety runs only).
Interchangeable == Permutations(Requests) \cup Permutations(Sessions)

=============================================================================
