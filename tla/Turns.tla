-------------------------------- MODULE Turns --------------------------------
(***************************************************************************)
(* Dialogues: the turns column of speaking_sessions, an ordered list of    *)
(* {role, text, turn_index}.  A text is abstracted to the request that     *)
(* brought it and to whether there are words in it (transcription of a     *)
(* silent clip is an empty string); turn_index is the position minus one.  *)
(***************************************************************************)
EXTENDS Naturals, Sequences, FiniteSets

CONSTANT Requests   \* the HTTP requests turns come from

Said == {"words", "silence"}
Turn == [role : {"examiner", "candidate"}, by : Requests, said : Said]

Examiner(r) == [role |-> "examiner", by |-> r, said |-> "words"]
Candidate(r, said) == [role |-> "candidate", by |-> r, said |-> said]

\* What the grader is given: the candidate's turns, in order and in full.  The
\* joined text is abstracted to the function from their positions to them.
CandidateTurns(d) == [i \in {j \in DOMAIN d : d[j].role = "candidate"} |-> d[i]]

\* How often the candidate has answered (examiner.next_turn counts these).
CountCandidate(d) == Cardinality(DOMAIN CandidateTurns(d))

\* candidate_text.strip() is not empty.
HasWords(d) == \E i \in DOMAIN d : d[i].role = "candidate" /\ d[i].said = "words"

\* The two _append calls of /turn: the candidate's answer, then the reply.
Exchange(d, r, said) == Append(Append(d, Candidate(r, said)), Examiner(r))

=============================================================================
