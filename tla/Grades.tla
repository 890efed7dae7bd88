-------------------------------- MODULE Grades --------------------------------
(***************************************************************************)
(* What submitting and grading promise a learner: an answer is to a task   *)
(* of one section; it is graded once at most, by one call of a grader, in  *)
(* the rubric of its section if that grader is the oral one; and whoever   *)
(* looks at its grade sees that one.                                       *)
(***************************************************************************)
CONSTANTS
  Answers,   \* what may be submitted
  Graders    \* calls of a grader, each good for one grade

VARIABLES
  section,   \* section of an answer's task; "none": not submitted
  grade,     \* an answer's grade: who gave it and by which rubric; <<>>: none yet
  seen       \* the grades that were shown, each with its answer

vars == <<section, grade, seen>>

Rubrics == {"writing", "speaking"}

Init ==
  /\ section \in [Answers -> Rubrics \cup {"none"}]
  /\ grade = [a \in Answers |-> <<>>]
  /\ seen = {}

Submit(a, task) ==
  /\ section[a] = "none"
  /\ section' = [section EXCEPT ![a] = task]
  /\ UNCHANGED <<grade, seen>>

Give(a, g, rubric) ==
  /\ section[a] # "none"
  /\ grade[a] = <<>>
  /\ rubric = "speaking" => section[a] = "speaking"
  /\ \A b \in Answers : grade[b] = <<>> \/ grade[b][1] # g
  /\ grade' = [grade EXCEPT ![a] = <<g, rubric>>]
  /\ UNCHANGED <<section, seen>>

Show(a) ==
  /\ grade[a] # <<>>
  /\ seen' = seen \cup {<<a, grade[a]>>}
  /\ UNCHANGED <<section, grade>>

Next == \E a \in Answers :
  \/ \E task \in Rubrics : Submit(a, task)
  \/ \E g \in Graders, rubric \in Rubrics : Give(a, g, rubric)
  \/ Show(a)

Spec == Init /\ [][Next]_vars

=============================================================================
