---------------------------- MODULE GradingProofs ----------------------------
(***************************************************************************)
(* Proofs about Grading, for any number of requests, answers and           *)
(* corrections.                                                            *)
(*                                                                         *)
(* TypeOK is not inductive: a response shows the grade of a handler's      *)
(* target, so what a suspended handler knows must come with it.  AtWork    *)
(* says that of each request, and Kept what is known of a grade on record: *)
(* whose request it was has its graph behind it and its route settled.     *)
(***************************************************************************)
EXTENDS Grading, TLAPS

Judging == {"retrieve", "graph", "verify", "save", "grade_refresh"}

\* Why the database may have refused a statement of r: a rubric query it refused
\* before has aborted the transaction; or another request was first, to insert the
\* user or to store the grade.
Excused(r) ==
  \/ aborted[r]
  \/ target[r] = None /\ devUser
  \/ target[r] # None /\ feedback[target[r]] \notin {None, r}

\* What is known of request r wherever it is suspended.
AtWork(r) ==
  /\ pc[r] \in {"new", "transcribe", "create_user", "create_save"} => target[r] = None
  /\ target[r] \in Answers \cup {None}
  /\ code[r] = "server_error" => Excused(r)
  /\ pc[r] # "done" => code[r] = "none" /\ shown[r] = None
  /\ pc[r] \in Judging =>
       /\ target[r] \in Answers
       /\ section[target[r]] # "none"
       /\ route[r] = "speaking" => section[target[r]] = "speaking"
  /\ pc[r] \in {"verify", "save", "grade_refresh"} => running[r] = {}
  /\ pc[r] \in {"save", "grade_refresh"} => (draft[r] = {} => verified[r] = {})
  /\ shown[r] # None => target[r] \in Answers /\ shown[r] = feedback[target[r]]

\* What is known of the grade of answer a, once it has one.
Kept(a) ==
  feedback[a] # None =>
    LET r == feedback[a] IN
      /\ pc[r] \in {"grade_refresh", "done"}
      /\ route[r] = "speaking" => section[a] = "speaking"
      /\ running[r] = {}
      /\ draft[r] = {} => verified[r] = {}
      /\ code[r] \in {"none", "created", "lost"}

Inv ==
  /\ TypeOK
  /\ \A r \in Requests : AtWork(r)
  /\ \A a \in Answers : Kept(a)

Step(r) == Arrive(r) \/ Serve(r) \/ Lose(r)

-----------------------------------------------------------------------------

\* The invariant holds at the start: no request has arrived, no answer is graded.
LEMMA InitInv == Init => Inv
<1> SUFFICES ASSUME Init PROVE Inv
  OBVIOUS
<1> USE NoneIsNothing DEF Init
<1>1. TypeOK
  BY DEF TypeOK, Sections, Codes
<1>2. ASSUME NEW r \in Requests PROVE AtWork(r)
  BY DEF AtWork, Judging
<1>3. ASSUME NEW a \in Answers PROVE Kept(a)
  BY DEF Kept
<1> QED
  BY <1>1, <1>2, <1>3 DEF Inv

\* A call that fails keeps every variable in its type, as does a node that returns.
LEMMA RaisedTypes ==
  ASSUME Inv, NEW r \in Requests, NEW outcome, Raised(r, outcome)
  PROVE  TypeOK'
<1> USE NoneIsNothing DEF TypeOK, Inv, Reply, Rollback, rows, Codes
<1>1. CASE outcome = "api_error"
  BY <1>1 DEF Raised, Fail
<1>2. CASE outcome # "api_error"
  BY <1>2 DEF Raised
<1> QED
  BY <1>1, <1>2

LEMMA ReturnedTypes ==
  ASSUME Inv, NEW r \in Requests, NEW n, NEW found \in SUBSET Errors, Returned(r, n, found)
  PROVE  TypeOK'
<1>1. (IF Joined(running'[r]) THEN "verify" ELSE "graph") \in Working
  BY DEF Working
<1>2. running' \in [Requests -> SUBSET FanOut]
  BY DEF Returned, Inv, TypeOK
<1> QED
  BY <1>1, <1>2, NoneIsNothing DEF Returned, Goto, TypeOK, Inv, rows, user

\* A request's step keeps every variable in its type.
LEMMA StepTypes == ASSUME Inv, NEW r \in Requests, Step(r) PROVE TypeOK'
<1> USE NoneIsNothing DEF TypeOK, Inv, Goto, Reply, rows, user, work, locals, Working, Codes, Sections
<1>1. ASSUME NEW router \in Sections, NEW task \in Sections, CreateRequest(r, router, task)
      PROVE TypeOK'
  BY <1>1 DEF CreateRequest, LookUpUser
<1>2. ASSUME NEW router \in Sections, NEW a \in Answers, GradeRequest(r, router, a) PROVE TypeOK'
  BY <1>2 DEF GradeRequest
<1>3. ASSUME NEW a \in Answers, ReadRequest(r, a) PROVE TypeOK'
  BY <1>3 DEF ReadRequest
<1>4. CASE Transcribe(r)
  BY <1>4 DEF Transcribe, LookUpUser, Fail, Rollback
<1>5. CASE CreateUser(r)
  BY <1>5 DEF CreateUser
<1>6. CASE CreateSave(r)
  BY <1>6 DEF CreateSave
<1>7. CASE Retrieve(r)
  BY <1>7 DEF Retrieve, FanOut
<1>8. CASE Score(r)
  <2>1. draft[r] \in SUBSET Errors
    OBVIOUS
  <2> QED
    BY <1>8, <2>1, RaisedTypes, ReturnedTypes DEF Score
<1>9. CASE FindErrors(r)
  BY <1>9, RaisedTypes, ReturnedTypes DEF FindErrors
<1>10. CASE Verify(r)
  <2>1. ASSUME NEW kept \in Verdicts(r) PROVE kept \in SUBSET Errors
    BY <2>1 DEF Verdicts
  <2>2. CASE \E outcome \in Outcomes : Raised(r, outcome)
    BY <2>2, RaisedTypes
  <2>3. CASE \E kept \in Verdicts(r) : verified' = [verified EXCEPT ![r] = kept]
    BY <1>10, <2>1, <2>2, <2>3 DEF Verify
  <2> QED
    BY <1>10, <2>2, <2>3 DEF Verify
<1>11. CASE Save(r)
  BY <1>11 DEF Save
<1>12. CASE Respond(r)
  BY <1>12 DEF Respond, AtWork, Judging
<1>13. CASE Lose(r)
  BY <1>13 DEF Lose, Rollback
<1> QED
  BY <1>1, <1>2, <1>3, <1>4, <1>5, <1>6, <1>7, <1>8, <1>9, <1>10, <1>11, <1>12, <1>13
     DEF Step, Arrive, Serve, RunGrader, RunSpeakingGrader

-----------------------------------------------------------------------------

\* What a step of r leaves of another request.
Untouched(q) ==
  /\ pc'[q] = pc[q] /\ route'[q] = route[q] /\ target'[q] = target[q]
  /\ running'[q] = running[q] /\ draft'[q] = draft[q] /\ verified'[q] = verified[q]
  /\ code'[q] = code[q] /\ shown'[q] = shown[q] /\ aborted'[q] = aborted[q]

\* An exception ends its request and touches no other, and no row.
LEMMA RaisedEffect ==
  ASSUME Inv, NEW r \in Requests, NEW outcome, Raised(r, outcome)
  PROVE  /\ pc'[r] = "done" /\ shown' = shown /\ target' = target /\ UNCHANGED rows
         /\ code'[r] # "server_error" /\ devUser' = devUser
         /\ \A q \in Requests \ {r} : Untouched(q)
<1> USE DEF Inv, TypeOK, Reply, Rollback, rows, Untouched
<1>1. CASE outcome = "api_error"
  BY <1>1 DEF Raised, Fail
<1>2. CASE outcome # "api_error"
  BY <1>2 DEF Raised
<1> QED
  BY <1>1, <1>2

\* A node that returns touches its own request only, and its graph goes on to
\* verify_errors with nothing left running.
LEMMA ReturnedEffect ==
  ASSUME Inv, NEW r \in Requests, NEW n, NEW found, Returned(r, n, found)
  PROVE  /\ pc'[r] \in {"graph", "verify"}
         /\ pc'[r] = "verify" => running'[r] = {}
         /\ route' = route /\ target' = target /\ code' = code /\ shown' = shown
         /\ UNCHANGED rows /\ devUser' = devUser
         /\ \A q \in Requests \ {r} : Untouched(q)
<1>1. pc' = [pc EXCEPT ![r] = IF Joined(running'[r]) THEN "verify" ELSE "graph"]
  BY DEF Returned, Goto
<1>2. pc'[r] = IF Joined(running'[r]) THEN "verify" ELSE "graph"
  BY <1>1 DEF Inv, TypeOK
<1>3. \A q \in Requests \ {r} : pc'[q] = pc[q]
  BY <1>1 DEF Inv, TypeOK
<1> QED
  BY <1>2, <1>3 DEF Returned, Goto, Joined, Inv, TypeOK, rows, user, Untouched

\* A request's step leaves the others where they are, creates answers but changes
\* none, and stores a grade only for an answer without one, by Save.
LEMMA Frame ==
  ASSUME Inv, NEW r \in Requests, Step(r)
  PROVE  /\ \A q \in Requests \ {r} : Untouched(q)
         /\ \A a \in Answers : section[a] # "none" => section'[a] = section[a]
         /\ section' # section => CreateSave(r)
         /\ devUser => devUser'
         /\ feedback' # feedback => Save(r)
         /\ \A a \in Answers : feedback'[a] # feedback[a] =>
              /\ a = target[r] /\ feedback[a] = None /\ feedback'[a] = r
              /\ pc'[r] = "grade_refresh"
<1> DEFINE Goal == /\ \A q \in Requests \ {r} : Untouched(q)
                   /\ \A a \in Answers : section[a] # "none" => section'[a] = section[a]
                   /\ section' # section => CreateSave(r)
                   /\ devUser => devUser'
                   /\ feedback' = feedback
<1> USE DEF TypeOK, Inv, Goto, Reply, rows, user, work, locals, Untouched
<1>1. ASSUME NEW router \in Sections, NEW task \in Sections, CreateRequest(r, router, task)
      PROVE Goal
  BY <1>1 DEF CreateRequest, LookUpUser
<1>2. ASSUME NEW router \in Sections, NEW a \in Answers, GradeRequest(r, router, a) PROVE Goal
  BY <1>2 DEF GradeRequest
<1>3. ASSUME NEW a \in Answers, ReadRequest(r, a) PROVE Goal
  BY <1>3 DEF ReadRequest
<1>4. CASE Transcribe(r)
  BY <1>4 DEF Transcribe, LookUpUser, Fail, Rollback
<1>5. CASE CreateUser(r)
  BY <1>5 DEF CreateUser
<1>6. CASE CreateSave(r)
  BY <1>6 DEF CreateSave
<1>7. CASE Retrieve(r)
  BY <1>7 DEF Retrieve
<1>8. CASE Score(r)
  BY <1>8, RaisedEffect, ReturnedEffect DEF Score
<1>9. CASE FindErrors(r)
  BY <1>9, RaisedEffect, ReturnedEffect DEF FindErrors
<1>10. CASE Verify(r)
  <2>1. CASE \E outcome \in Outcomes : Raised(r, outcome)
    BY <2>1, RaisedEffect
  <2>2. CASE \E kept \in Verdicts(r) : verified' = [verified EXCEPT ![r] = kept]
    BY <1>10, <2>1, <2>2 DEF Verify
  <2> QED
    BY <1>10, <2>1, <2>2 DEF Verify
<1>11. CASE Save(r)
  <2>1. \A q \in Requests \ {r} : Untouched(q)
    BY <1>11 DEF Save
  <2>2. \A a \in Answers : feedback'[a] # feedback[a] =>
              /\ a = target[r] /\ feedback[a] = None /\ feedback'[a] = r
              /\ pc'[r] = "grade_refresh"
    BY <1>11 DEF Save
  <2> QED
    BY <1>11, <2>1, <2>2 DEF Save
<1>12. CASE Respond(r)
  BY <1>12 DEF Respond
<1>13. CASE Lose(r)
  BY <1>13 DEF Lose, Rollback
<1>14. Goal \/ Save(r)
  BY <1>1, <1>2, <1>3, <1>4, <1>5, <1>6, <1>7, <1>8, <1>9, <1>10, <1>12, <1>13
     DEF Step, Arrive, Serve, RunGrader, RunSpeakingGrader
<1> QED
  BY <1>11, <1>14

-----------------------------------------------------------------------------

\* What r knows of itself it still knows after its step.
LEMMA OwnAtWork ==
  ASSUME Inv, NEW r \in Requests, Step(r), TypeOK'
  PROVE  AtWork(r)'
<1>0. AtWork(r) /\ TypeOK
  BY DEF Inv
<1> USE <1>0, NoneIsNothing DEF TypeOK, AtWork, Judging, Goto, Reply, rows, user, work, locals
<1>1. ASSUME NEW router \in Sections, NEW task \in Sections, CreateRequest(r, router, task)
      PROVE AtWork(r)'
  BY <1>1 DEF CreateRequest, LookUpUser
<1>2. ASSUME NEW router \in Sections, NEW a \in Answers, GradeRequest(r, router, a)
      PROVE AtWork(r)'
  BY <1>2 DEF GradeRequest, Refuses
<1>3. ASSUME NEW a \in Answers, ReadRequest(r, a) PROVE AtWork(r)'
  BY <1>3 DEF ReadRequest
<1>4. CASE Transcribe(r)
  BY <1>4 DEF Transcribe, LookUpUser, Fail, Rollback
<1>5. CASE CreateUser(r)
  BY <1>5 DEF CreateUser, Excused
<1>6. CASE CreateSave(r)
  BY <1>6 DEF CreateSave
<1>7. CASE Retrieve(r)
  BY <1>7 DEF Retrieve
<1>8. ASSUME NEW outcome, Raised(r, outcome) PROVE AtWork(r)'
  BY <1>8, RaisedEffect
<1>9. ASSUME NEW n, NEW found, Returned(r, n, found), pc[r] = "graph" PROVE AtWork(r)'
  BY <1>9, ReturnedEffect
<1>10. CASE Score(r)
  BY <1>8, <1>9, <1>10 DEF Score
<1>11. CASE FindErrors(r)
  BY <1>8, <1>9, <1>11 DEF FindErrors
<1>12. CASE Verify(r)
  <2>1. CASE \E kept \in Verdicts(r) : verified' = [verified EXCEPT ![r] = kept]
                                     /\ Goto(r, "save") /\ pc[r] = "verify"
                                     /\ UNCHANGED <<rows, user, route, target, about, aborted, running, draft>>
    BY <2>1 DEF Verdicts
  <2> QED
    BY <1>8, <1>12, <2>1 DEF Verify
<1>13. CASE Save(r)
  <2>1. feedback[target[r]] # r
    BY <1>13 DEF Save, Inv, Kept
  <2> QED
    BY <1>13, <2>1 DEF Save, Excused
<1>14. CASE Respond(r)
  BY <1>14 DEF Respond
<1>15. CASE Lose(r)
  BY <1>15 DEF Lose, Rollback
<1> QED
  BY <1>1, <1>2, <1>3, <1>4, <1>5, <1>6, <1>7, <1>10, <1>11, <1>12, <1>13, <1>14, <1>15
     DEF Step, Arrive, Serve, RunGrader, RunSpeakingGrader

\* What any request knows of itself survives a step of any other.
LEMMA StepAtWork ==
  ASSUME Inv, NEW r \in Requests, Step(r), TypeOK', NEW q \in Requests
  PROVE  AtWork(q)'
<1>1. CASE q = r
  BY <1>1, OwnAtWork
<1>2. CASE q # r
  <2>1. Untouched(q)
    BY <1>2, Frame
  <2>2. AtWork(q)
    BY DEF Inv
  <2>3. shown[q] # None => feedback'[target[q]] = feedback[target[q]]
    BY <2>2, Frame DEF AtWork
  <2>4. target[q] \in Answers /\ section[target[q]] # "none" =>
          section'[target[q]] = section[target[q]]
    BY Frame
  <2>5. Excused(q) => Excused(q)'
    BY <1>2, <2>1, <2>2, Frame DEF Excused, Untouched, AtWork
  <2> QED
    BY <2>1, <2>2, <2>3, <2>4, <2>5 DEF AtWork, Untouched, Judging
<1> QED
  BY <1>1, <1>2

\* A request that has stored a grade only responds or is lost, and keeps what the
\* grade is vouched for by.
LEMMA Settled ==
  ASSUME Inv, NEW r \in Requests, Step(r), pc[r] \in {"grade_refresh", "done"},
         draft[r] = {} => verified[r] = {}, running[r] = {}
  PROVE  /\ pc'[r] = "done" /\ route'[r] = route[r] /\ running'[r] = {}
         /\ draft'[r] = {} => verified'[r] = {}
         /\ code'[r] \in {"created", "lost"}
<1>1. CASE Respond(r)
  BY <1>1 DEF Respond, Inv, TypeOK, locals, work
<1>2. CASE Lose(r)
  BY <1>2 DEF Lose, Rollback, Reply, Inv, TypeOK
<1>3. ~Arrive(r)
  BY DEF Arrive, CreateRequest, GradeRequest, ReadRequest
<1>4. ~(Transcribe(r) \/ CreateUser(r) \/ CreateSave(r) \/ Save(r))
  BY DEF Transcribe, CreateUser, CreateSave, Save
<1>5. ~(RunGrader(r) \/ RunSpeakingGrader(r))
  BY DEF RunGrader, RunSpeakingGrader, Retrieve, Score, FindErrors, Verify
<1> QED
  BY <1>1, <1>2, <1>3, <1>4, <1>5 DEF Step, Serve

\* What is known of a grade on record is still known after a step of any request.
LEMMA StepKept ==
  ASSUME Inv, NEW r \in Requests, Step(r), NEW a \in Answers
  PROVE  Kept(a)'
<1>1. CASE feedback'[a] # feedback[a]
  <2>1. Save(r) /\ a = target[r] /\ feedback'[a] = r /\ pc'[r] = "grade_refresh"
    BY <1>1, Frame
  <2>2. AtWork(r) /\ pc[r] = "save"
    BY <2>1 DEF Inv, Save
  <2>3. UNCHANGED <<section, route, running, draft, verified, code>>
    BY <2>1 DEF Save, Goto, Reply, locals, work, Inv, TypeOK
  <2> QED
    BY <2>1, <2>2, <2>3 DEF Kept, AtWork, Judging
<1>2. CASE feedback'[a] = feedback[a] /\ feedback[a] # None
  <2> PICK w \in Requests : w = feedback[a]
    BY <1>2 DEF Inv, TypeOK
  <2>1. /\ pc[w] \in {"grade_refresh", "done"}
        /\ route[w] = "speaking" => section[a] = "speaking"
        /\ running[w] = {}
        /\ draft[w] = {} => verified[w] = {}
        /\ code[w] \in {"none", "created", "lost"}
    BY <1>2 DEF Inv, Kept
  <2>2. section[a] = "speaking" => section'[a] = "speaking"
    BY Frame
  <2>3. CASE w = r
    BY <1>2, <2>1, <2>2, <2>3, Settled DEF Kept
  <2>4. CASE w # r
    <3>1. Untouched(w)
      BY <2>4, Frame
    <3> QED
      BY <1>2, <2>1, <2>2, <3>1 DEF Kept, Untouched
  <2> QED
    BY <2>3, <2>4
<1>3. CASE feedback'[a] = feedback[a] /\ feedback[a] = None
  BY <1>3 DEF Kept
<1> QED
  BY <1>1, <1>2, <1>3

\* The invariant is inductive.
LEMMA StepInv == Inv /\ [Next]_vars => Inv'
<1> SUFFICES ASSUME Inv, [Next]_vars PROVE Inv'
  OBVIOUS
<1>1. ASSUME NEW r \in Requests, Step(r) PROVE Inv'
  BY <1>1, StepTypes, StepAtWork, StepKept DEF Inv
<1>2. CASE UNCHANGED vars
  <2> USE <1>2 DEF vars, rows, user, locals, work
  <2>1. TypeOK'
    BY DEF Inv, TypeOK
  <2>2. ASSUME NEW r \in Requests PROVE AtWork(r)'
    BY DEF Inv, AtWork, Judging, Excused
  <2>3. ASSUME NEW a \in Answers PROVE Kept(a)'
    BY DEF Inv, Kept
  <2> QED
    BY <2>1, <2>2, <2>3 DEF Inv
<1> QED
  BY <1>1, <1>2 DEF Next, Step

-----------------------------------------------------------------------------

\* Every variable keeps its type: a response shows a grade only of an answer its
\* request was about, a target is an answer before a grader runs on it.
THEOREM TypesHold == Spec => []TypeOK
<1>1. Inv => TypeOK
  BY DEF Inv
<1> QED
  BY <1>1, InitInv, StepInv, PTL DEF Spec

\* All who are shown the grade of an answer are shown the same one, however many
\* handlers grade it at once and whatever becomes of them: what a response shows is
\* the row, and no step of any handler changes a row.
THEOREM GradesStable == Spec => []GradesAreStable
<1>1. Inv => GradesAreStable
  BY DEF Inv, AtWork, GradesAreStable
<1> QED
  BY <1>1, InitInv, StepInv, PTL DEF Spec

\* The oral rubric grades what was spoken only: the speaking router looks at the
\* section before its first await, and no step changes the section of an answer.
THEOREM OralGradesForSpeech == Spec => []OralGradesAreForSpeech
<1>1. Inv => OralGradesAreForSpeech
  BY DEF Inv, Kept, OralGradesAreForSpeech
<1> QED
  BY <1>1, InitInv, StepInv, PTL DEF Spec

\* A stored grade has its scores and its corrections: verify_errors waits for both
\* nodes before it, and a call that raises ends its request before Save.
THEOREM GradesWhole == Spec => []GradesAreWhole
<1>1. Inv => GradesAreWhole
  BY DEF Inv, Kept, GradesAreWhole
<1> QED
  BY <1>1, InitInv, StepInv, PTL DEF Spec

\* The 500 of a refused statement has one of two causes: a refused rubric query, or
\* a race that another request has won.  Where no query was refused, the user, or
\* a grade another request stored, is in place (answers.py:56-65,
\* feedback.py:116-132, speaking.py:174-187).
THEOREM RefusalsAreExcused ==
  Spec => [](\A r \in Requests : code[r] = "server_error" => Excused(r))
<1>1. Inv => \A r \in Requests : code[r] = "server_error" => Excused(r)
  BY DEF Inv, AtWork
<1> QED
  BY <1>1, InitInv, StepInv, PTL DEF Spec

-----------------------------------------------------------------------------
(* The refinement *)

\* Whose grade is on record has settled its route: what is shown of that grade
\* reads the same after any step.
LEMMA LabelStays ==
  ASSUME Inv, NEW r \in Requests, Step(r), NEW a \in Answers, NEW g,
         g = feedback[a], g # None
  PROVE  Labelled(g)' = Labelled(g)
<1> PICK w \in Requests : w = g
  BY DEF Inv, TypeOK
<1>1. /\ pc[w] \in {"grade_refresh", "done"}
      /\ running[w] = {}
      /\ draft[w] = {} => verified[w] = {}
  BY DEF Inv, Kept
<1>2. route'[w] = route[w]
  <2>1. CASE w = r
    BY <1>1, <2>1, Settled
  <2>2. CASE w # r
    BY <2>2, Frame DEF Untouched
  <2> QED
    BY <2>1, <2>2
<1> QED
  BY <1>2 DEF Labelled

\* The grade of an answer, and its rubric, do not change once there is one.
LEMMA GradeStays ==
  ASSUME Inv, NEW r \in Requests, Step(r), NEW a \in Answers, feedback[a] # None
  PROVE  feedback'[a] = feedback[a] /\ GradeOf(a)' = GradeOf(a)
<1>1. feedback'[a] = feedback[a]
  BY Frame
<1>2. PICK g : g = feedback[a]
  OBVIOUS
<1>3. (IF g = None THEN <<>> ELSE <<g, route'[g]>>) = Labelled(g)
  BY <1>2, LabelStays DEF Labelled
<1> QED
  BY <1>1, <1>2, <1>3 DEF GradeOf, Labelled

\* A request that can step was shown nothing yet.
LEMMA StepIsEarly ==
  ASSUME Inv, NEW r \in Requests, Step(r)
  PROVE  shown[r] = None
<1>1. pc[r] # "done"
  BY DEF Step, Arrive, Serve, CreateRequest, GradeRequest, ReadRequest, Transcribe,
         CreateUser, CreateSave, RunGrader, RunSpeakingGrader, Retrieve, Score, FindErrors,
         Verify, Save, Respond, Lose, Working
<1> QED
  BY <1>1 DEF Inv, AtWork

\* A step takes back nothing that was shown, and what it shows is what was on record
\* before it for the answer the request was about.
LEMMA SeenStep ==
  ASSUME Inv, Inv', NEW r \in Requests, Step(r)
  PROVE  \/ Seen' = Seen /\ shown'[r] = None
         \/ \E a \in Answers : /\ feedback[a] # None
                               /\ Seen' = Seen \cup {<<a, GradeOf(a)>>}
                               /\ shown' # shown
<1> DEFINE After(g) == IF g = None THEN <<>> ELSE <<g, route'[g]>>
<1>1. Seen' = {<<target'[q], After(shown'[q])>> : q \in {p \in Requests : shown'[p] # None}}
  BY DEF Seen, Labelled
<1>2. \A q \in Requests \ {r} : shown'[q] = shown[q] /\ target'[q] = target[q]
  BY Frame DEF Untouched
<1>3. shown[r] = None
  BY StepIsEarly
<1>4. ASSUME NEW a \in Answers, feedback[a] # None PROVE After(feedback[a]) = Labelled(feedback[a])
  BY <1>4, LabelStays DEF Labelled
<1>5. ASSUME NEW q \in Requests \ {r}, shown[q] # None
      PROVE  After(shown'[q]) = Labelled(shown[q])
  <2>1. AtWork(q)
    BY DEF Inv
  <2>2. target[q] \in Answers /\ shown[q] = feedback[target[q]]
    BY <1>5, <2>1 DEF AtWork
  <2> HIDE DEF After
  <2> QED
    BY <1>2, <1>4, <1>5, <2>2
<1>6. CASE shown'[r] = None
  <2> HIDE DEF After
  <2>1. \A q \in Requests : shown'[q] # None <=> shown[q] # None
    BY <1>2, <1>3, <1>6
  <2>2. \A q \in Requests : shown[q] # None =>
          <<target'[q], After(shown'[q])>> = <<target[q], Labelled(shown[q])>>
    BY <1>2, <1>3, <1>5
  <2> QED
    BY <1>1, <1>6, <2>1, <2>2 DEF Seen
<1>7. CASE shown'[r] # None
  <2> PICK a : a = target'[r]
    OBVIOUS
  <2>1. AtWork(r)'
    BY DEF Inv
  <2>2. a \in Answers /\ shown'[r] = feedback'[a]
    BY <1>7, <2>1 DEF AtWork
  <2>3. shown' # shown
    BY <1>3, <1>7
  <2>4. ~Save(r)
    BY <2>3 DEF Save, Goto, Reply
  <2>5. feedback' = feedback
    BY <2>4, Frame
  <2>6. feedback[a] # None /\ shown'[r] = feedback[a] /\ After(shown'[r]) = GradeOf(a)
    BY <1>4, <1>7, <2>2, <2>5 DEF GradeOf
  <2> HIDE DEF After
  <2>7. \A q \in Requests \ {r} : shown[q] # None =>
          <<target'[q], After(shown'[q])>> = <<target[q], Labelled(shown[q])>>
    BY <1>2, <1>5
  <2>8. Seen' = Seen \cup {<<a, GradeOf(a)>>}
    BY <1>1, <1>2, <1>3, <1>7, <2>6, <2>7 DEF Seen
  <2> QED
    BY <2>2, <2>3, <2>6, <2>8
<1> QED
  BY <1>6, <1>7

\* The handlers of both routers, whatever their order, do to the answers and their
\* grades what module Grades allows, and the grade in the body of every response is
\* the one on record for the answer it was asked about, by the rubric it was given
\* by (feedback.py:87-136, speaking.py:148-190).
THEOREM Implementation == Spec => ImplementsGrades
<1> DEFINE grade == [a \in Answers |-> GradeOf(a)]
<1>1. Init => G!Init
  <2> SUFFICES ASSUME Init PROVE G!Init
    OBVIOUS
  <2>1. grade = [a \in Answers |-> <<>>]
    BY DEF Init, GradeOf, Labelled
  <2>2. Seen = {}
    BY DEF Init, Seen
  <2> QED
    BY <2>1, <2>2 DEF Init, G!Init, G!Rubrics, Sections
<1>2. Inv /\ Inv' /\ [Next]_vars => [G!Next]_(G!vars)
  <2>1. ASSUME Inv, Inv', NEW r \in Requests, Step(r)
        PROVE  G!Next \/ UNCHANGED <<section, grade, Seen>>
    <3>1. CASE feedback' # feedback
      <4> DEFINE a == target[r]
      <4>1. Save(r) /\ pc[r] = "save"
        BY <3>1, <2>1, Frame DEF Save
      <4>2. /\ feedback[a] = None /\ feedback' = [feedback EXCEPT ![a] = r]
            /\ UNCHANGED <<section, route, shown>>
        BY <3>1, <4>1 DEF Save, Goto, locals
      <4>3. /\ a \in Answers /\ section[a] # "none"
            /\ route[r] \in Sections
            /\ route[r] = "speaking" => section[a] = "speaking"
        BY <4>1, <2>1 DEF Inv, TypeOK, AtWork, Judging
      <4>4. \A b \in Answers : feedback[b] # r
        BY <4>1, <2>1, NoneIsNothing DEF Inv, Kept
      <4>5. \A b \in Answers : grade[b] = <<>> \/ grade[b][1] # r
        BY <4>4 DEF GradeOf, Labelled
      <4>6. grade[a] = <<>>
        BY <4>2, <4>3 DEF GradeOf, Labelled
      <4>7. \A b \in Answers : GradeOf(b)' = IF b = a THEN <<r, route[r]>> ELSE GradeOf(b)
        <5> SUFFICES ASSUME NEW b \in Answers
                     PROVE  GradeOf(b)' = IF b = a THEN <<r, route[r]>> ELSE GradeOf(b)
          OBVIOUS
        <5>1. CASE b = a
          <6>1. feedback'[a] = r
            BY <4>2, <4>3, <2>1 DEF Inv, TypeOK
          <6> QED
            BY <5>1, <6>1, <4>2, NoneIsNothing DEF GradeOf, Labelled
        <5>2. CASE b # a
          <6>1. feedback'[b] = feedback[b]
            BY <5>2, <4>2, <2>1 DEF Inv, TypeOK
          <6> QED
            BY <5>2, <6>1, <4>2 DEF GradeOf, Labelled
        <5> QED
          BY <5>1, <5>2
      <4>8. grade' = [grade EXCEPT ![a] = <<r, route[r]>>]
        BY <4>3, <4>7
      <4>9. Seen' = Seen
        BY <4>2, <2>1, SeenStep
      <4>10. G!Give(a, r, route[r])
        BY <4>2, <4>3, <4>5, <4>6, <4>8, <4>9 DEF G!Give, Seen
      <4> QED
        BY <4>3, <4>10 DEF G!Next, G!Rubrics, Sections
    <3>2. CASE feedback' = feedback
      <4>1. grade' = grade
        <5>1. \A a \in Answers : GradeOf(a)' = GradeOf(a)
          BY <3>2, <2>1, GradeStays DEF GradeOf, Labelled
        <5> QED
          BY <5>1
      <4>2. CASE section' # section
        <5>1. CreateSave(r)
          BY <4>2, <2>1, Frame
        <5>2. PICK a \in Answers : section[a] = "none" /\ section' = [section EXCEPT ![a] = about[r]]
          BY <5>1 DEF CreateSave
        <5>3. about[r] \in Sections /\ shown' = shown
          BY <5>1, <2>1 DEF CreateSave, Goto, Inv, TypeOK
        <5>4. Seen' = Seen
          BY <5>3, <2>1, SeenStep
        <5>5. G!Submit(a, about[r])
          BY <5>2, <5>4, <4>1 DEF G!Submit, Seen
        <5> QED
          BY <5>3, <5>5 DEF G!Next, G!Rubrics, Sections
      <4>3. CASE section' = section
        <5>1. CASE Seen' = Seen
          BY <5>1, <4>1, <4>3
        <5>2. CASE \E a \in Answers : /\ feedback[a] # None
                                      /\ Seen' = Seen \cup {<<a, GradeOf(a)>>}
          <6>1. PICK a \in Answers : feedback[a] # None /\ Seen' = Seen \cup {<<a, GradeOf(a)>>}
            BY <5>2
          <6>2. grade[a] = GradeOf(a) /\ grade[a] # <<>>
            BY <6>1 DEF GradeOf, Labelled
          <6>3. G!Show(a)
            BY <6>1, <6>2, <4>1, <4>3 DEF G!Show, Seen
          <6> QED
            BY <6>3 DEF G!Next
        <5> QED
          BY <5>1, <5>2, <2>1, SeenStep
      <4> QED
        BY <4>2, <4>3
    <3> QED
      BY <3>1, <3>2
  <2>2. CASE UNCHANGED vars
    BY <2>2 DEF vars, rows, locals, G!vars, GradeOf, Labelled, Seen
  <2> QED
    BY <2>1, <2>2 DEF Next, Step, G!vars, Seen
<1> QED
  BY <1>1, <1>2, InitInv, StepInv, PTL DEF Spec, ImplementsGrades, G!Spec

=============================================================================
