------------------------------ MODULE Dialogue ------------------------------
(***************************************************************************)
(* What a speaking session promises its candidate, without requests,       *)
(* transactions or upstream calls: it is opened by the examiner, grows by  *)
(* whole exchanges while it is active, and is graded once, on everything   *)
(* the candidate said, after which nothing about it changes.               *)
(***************************************************************************)
EXTENDS Turns

CONSTANT Sessions

VARIABLES
  status,   \* "none", "active" or "finished"
  turns,    \* the dialogue
  grade     \* what was graded; <<>> before that

vars == <<status, turns, grade>>

Init ==
  /\ status = [s \in Sessions |-> "none"]
  /\ turns = [s \in Sessions |-> <<>>]
  /\ grade = [s \in Sessions |-> <<>>]

Open(s) ==
  /\ status[s] = "none"
  /\ status' = [status EXCEPT ![s] = "active"]
  /\ \E r \in Requests : turns' = [turns EXCEPT ![s] = <<Examiner(r)>>]
  /\ UNCHANGED grade

Speak(s) ==
  /\ status[s] = "active"
  /\ \E r \in Requests, said \in Said :
       turns' = [turns EXCEPT ![s] = Exchange(turns[s], r, said)]
  /\ UNCHANGED <<status, grade>>

Finish(s) ==
  /\ status[s] = "active"
  /\ HasWords(turns[s])
  /\ status' = [status EXCEPT ![s] = "finished"]
  /\ grade' = [grade EXCEPT ![s] = CandidateTurns(turns[s])]
  /\ UNCHANGED turns

Next == \E s \in Sessions : Open(s) \/ Speak(s) \/ Finish(s)

Spec == Init /\ [][Next]_vars

=============================================================================
