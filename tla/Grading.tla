------------------------------- MODULE Grading -------------------------------
(***************************************************************************)
(* Submitting an answer, grading it and reading its grade back: the        *)
(* writing routers (routers/answers.py, routers/feedback.py), the monologue *)
(* speaking router (routers/speaking.py), retrieval and the two grader     *)
(* graphs (graph.py, speaking_graph.py), over answers, ai_feedback, users. *)
(*                                                                         *)
(* The two sections have routers and graders of their own, alike but for   *)
(* what route[r] decides; they share their tables.  A handler awaits       *)
(* upstream calls between reading ai_feedback and writing it, and nothing  *)
(* but the unique index on ai_feedback.answer_id orders two of them.       *)
(***************************************************************************)
EXTENDS Naturals, FiniteSets

CONSTANTS
  Requests,   \* HTTP requests, each served once
  Answers,    \* ids an answers row may get
  Errors,     \* corrections a model may suggest
  None        \* null

ASSUME NoneIsNothing == None \notin Requests \cup Answers

VARIABLES
  \* committed rows
  section,    \* exam_section of an answer's question; "none": no such answer
  feedback,   \* ai_feedback of an answer: the request that graded it
  devUser,    \* is the development user's row committed?
  inserter,   \* the request with an uncommitted insert of that row
  \* the coroutine serving each request
  pc,         \* the await it is suspended at
  route,      \* whose router serves it: "writing" or "speaking"
  target,     \* the answer it is about
  about,      \* section of the question of an answer to be created
  aborted,    \* has a failed statement aborted its transaction?
  running,    \* nodes of the first superstep of the graph still running
  draft,      \* find_errors' candidates
  verified,   \* verify_errors' result
  code,       \* the response
  shown       \* the grade in the response

rows == <<section, feedback>>
user == <<devUser, inserter>>
work == <<aborted, running, draft, verified>>
locals == <<route, target, about, work>>
vars == <<rows, user, pc, locals, code, shown>>

Sections == {"writing", "speaking"}
FanOut == {"score", "find_errors"}

Working == {"transcribe", "create_user", "create_save", "create_refresh",
            "retrieve", "graph", "verify", "save", "grade_refresh"}

Codes == {"none", "ok", "created", "bad_request", "not_found", "conflict",
          "failed",        \* 502, 503 or the upstream's own status
          "unparsed",      \* the 500 of a completion that is not what was asked for
          "server_error",  \* the 500 of a statement the database refuses
          "lost"}          \* the worker or the connection went away

TypeOK ==
  /\ section \in [Answers -> Sections \cup {"none"}]
  /\ feedback \in [Answers -> Requests \cup {None}]
  /\ devUser \in BOOLEAN
  /\ inserter \in Requests \cup {None}
  /\ pc \in [Requests -> {"new", "done"} \cup Working]
  /\ route \in [Requests -> Sections]
  /\ target \in [Requests -> Answers \cup {None}]
  /\ about \in [Requests -> Sections]
  /\ aborted \in [Requests -> BOOLEAN]
  /\ running \in [Requests -> SUBSET FanOut]
  /\ draft \in [Requests -> SUBSET Errors]
  /\ verified \in [Requests -> SUBSET Errors]
  /\ code \in [Requests -> Codes]
  /\ shown \in [Requests -> Requests \cup {None}]

Init ==
  /\ section \in [Answers -> Sections \cup {"none"}]
  /\ feedback = [a \in Answers |-> None]
  /\ devUser \in BOOLEAN
  /\ (\E a \in Answers : section[a] # "none") => devUser
  /\ inserter = None
  /\ pc = [r \in Requests |-> "new"]
  /\ route = [r \in Requests |-> "writing"]
  /\ target = [r \in Requests |-> None]
  /\ about = [r \in Requests |-> "writing"]
  /\ aborted = [r \in Requests |-> FALSE]
  /\ running = [r \in Requests |-> {}]
  /\ draft = [r \in Requests |-> {}]
  /\ verified = [r \in Requests |-> {}]
  /\ code = [r \in Requests |-> "none"]
  /\ shown = [r \in Requests |-> None]

Goto(r, label) == pc' = [pc EXCEPT ![r] = label] /\ UNCHANGED <<code, shown>>

Reply(r, c) ==
  /\ pc' = [pc EXCEPT ![r] = "done"]
  /\ code' = [code EXCEPT ![r] = c]
  /\ UNCHANGED shown

\* Leaving without a commit rolls the request's transaction back; what a grader
\* had found is gone with it.
Rollback(r) ==
  /\ inserter' = IF inserter = r THEN None ELSE inserter
  /\ aborted' = [aborted EXCEPT ![r] = FALSE]
  /\ running' = [running EXCEPT ![r] = {}]
  /\ draft' = [draft EXCEPT ![r] = {}]
  /\ verified' = [verified EXCEPT ![r] = {}]
  /\ UNCHANGED <<rows, devUser, route, target, about>>

\* An upstream call fails, and the handler turns that into its response.
Fail(r) == Reply(r, "failed") /\ Rollback(r)

-----------------------------------------------------------------------------
(* POST /answers, POST /speaking/answers *)

\* The development user is looked up, and inserted if it is not there.
LookUpUser(r) == Goto(r, IF devUser THEN "create_save" ELSE "create_user")

\* An essay is taken for any question, a recording for a speaking one only; a
\* recording may be empty.
CreateRequest(r, router, task) ==
  /\ pc[r] = "new"
  /\ route' = [route EXCEPT ![r] = router]
  /\ \/ Reply(r, "not_found") /\ UNCHANGED about
     \/ router = "speaking" /\ Reply(r, "bad_request") /\ UNCHANGED about
     \/ /\ \/ router = "writing" /\ LookUpUser(r)
           \/ router = "speaking" /\ task = "speaking" /\ Goto(r, "transcribe")
        /\ about' = [about EXCEPT ![r] = task]
  /\ UNCHANGED <<rows, user, target, work>>

Transcribe(r) ==
  /\ pc[r] = "transcribe"
  /\ \/ LookUpUser(r) /\ UNCHANGED <<rows, user, locals>>
     \/ Fail(r)

\* The insert waits for another uncommitted one, whose commit refuses it.
CreateUser(r) ==
  /\ pc[r] = "create_user"
  /\ inserter = None
  /\ IF devUser
       THEN Reply(r, "server_error") /\ UNCHANGED inserter
       ELSE Goto(r, "create_save") /\ inserter' = r
  /\ UNCHANGED <<rows, devUser, locals>>

CreateSave(r) ==
  /\ pc[r] = "create_save"
  /\ \E a \in Answers :
       /\ section[a] = "none"
       /\ section' = [section EXCEPT ![a] = about[r]]
       /\ target' = [target EXCEPT ![r] = a]
  /\ devUser' = (devUser \/ inserter = r)
  /\ inserter' = IF inserter = r THEN None ELSE inserter
  /\ Goto(r, "create_refresh")
  /\ UNCHANGED <<feedback, route, about, work>>

-----------------------------------------------------------------------------
(* POST /answers/{id}/grade, POST /speaking/answers/{id}/grade *)

\* Mutation: the grade endpoint of the speaking router takes any answer.
RefusesNothing(router, a) == FALSE

\* The speaking router refuses what is not a speaking task; the writing router
\* looks at no section.
Refuses(router, a) == router = "speaking" /\ section[a] # "speaking"

\* The conflict is looked for before the section.
GradeRequest(r, router, a) ==
  /\ pc[r] = "new"
  /\ route' = [route EXCEPT ![r] = router]
  /\ target' = [target EXCEPT ![r] = a]
  /\ \/ section[a] = "none" /\ Reply(r, "not_found")
     \/ section[a] # "none" /\ feedback[a] # None /\ Reply(r, "conflict")
     \/ /\ section[a] # "none" /\ feedback[a] = None
        /\ IF Refuses(router, a) THEN Reply(r, "bad_request") ELSE Goto(r, "retrieve")
  /\ UNCHANGED <<rows, user, about, work>>

\* Embed the answer and query the rubric.  Whatever fails is swallowed, but a
\* query the database refuses aborts the transaction the handler is in.
Retrieve(r) ==
  /\ pc[r] = "retrieve"
  /\ \E refused \in BOOLEAN : aborted' = [aborted EXCEPT ![r] = refused]
  /\ running' = [running EXCEPT ![r] = FanOut]
  /\ Goto(r, "graph")
  /\ UNCHANGED <<rows, user, route, target, about, draft, verified>>

\* Mutation: verify_errors is joined to find_errors only.
JoinedOnFindErrors(left) == "find_errors" \notin left

\* Both nodes of the first superstep have finished.
Joined(left) == left = {}

\* _structured_call: an object of the schema; an error of the client's, which the
\* routers know; or another exception, as for a completion that was cut short.
Outcomes == {"parsed", "api_error", "unparsed"}

\* An exception of a node ends the graph, the other node with it.
Raised(r, outcome) ==
  /\ outcome # "parsed"
  /\ IF outcome = "api_error" THEN Fail(r) ELSE Reply(r, "unparsed") /\ Rollback(r)

\* Node n of the first superstep returns, with the candidates there are then.
Returned(r, n, found) ==
  /\ running' = [running EXCEPT ![r] = @ \ {n}]
  /\ draft' = [draft EXCEPT ![r] = found]
  /\ Goto(r, IF Joined(running'[r]) THEN "verify" ELSE "graph")
  /\ UNCHANGED <<rows, user, route, target, about, aborted, verified>>

\* score_essay, or score_speaking
Score(r) ==
  /\ pc[r] = "graph" /\ "score" \in running[r]
  /\ \/ Returned(r, "score", draft[r])
     \/ \E outcome \in Outcomes : Raised(r, outcome)

\* find_errors, of either grader
FindErrors(r) ==
  /\ pc[r] = "graph" /\ "find_errors" \in running[r]
  /\ \/ \E found \in SUBSET Errors : Returned(r, "find_errors", found)
     \/ \E outcome \in Outcomes : Raised(r, outcome)

\* Mutation: a null correction for an essay without candidates.
VerdictsMissing(r) ==
  IF draft[r] = {} THEN {{None}} ELSE SUBSET Errors

\* Nothing to verify, or the items the model returns as genuine errors, which
\* it writes out itself.
Verdicts(r) == IF draft[r] = {} THEN {{}} ELSE SUBSET Errors

Verify(r) ==
  /\ pc[r] = "verify"
  /\ \/ /\ \E kept \in Verdicts(r) : verified' = [verified EXCEPT ![r] = kept]
        /\ Goto(r, "save")
        /\ UNCHANGED <<rows, user, route, target, about, aborted, running, draft>>
     \/ draft[r] # {} /\ \E outcome \in Outcomes : Raised(r, outcome)

\* The graph of either grader: alike, node for node.
RunGrader(r) == route[r] = "writing" /\ (Retrieve(r) \/ Score(r) \/ FindErrors(r) \/ Verify(r))
RunSpeakingGrader(r) == route[r] = "speaking" /\ (Retrieve(r) \/ Score(r) \/ FindErrors(r) \/ Verify(r))

\* Mutation: an upsert in place of the insert.
SaveReplaces(r) ==
  /\ pc[r] = "save"
  /\ ~aborted[r]
  /\ feedback' = [feedback EXCEPT ![target[r]] = r]
  /\ Goto(r, "grade_refresh")
  /\ UNCHANGED <<section, user, locals>>

\* Mutation: a grade that lost the race is returned all the same, unsaved.
SaveReturnsUnsaved(r) ==
  /\ pc[r] = "save"
  /\ \/ /\ ~aborted[r] /\ feedback[target[r]] = None
        /\ feedback' = [feedback EXCEPT ![target[r]] = r]
        /\ Goto(r, "grade_refresh")
     \/ /\ aborted[r] \/ feedback[target[r]] # None
        /\ pc' = [pc EXCEPT ![r] = "done"]
        /\ code' = [code EXCEPT ![r] = "created"]
        /\ shown' = [shown EXCEPT ![r] = r]
        /\ UNCHANGED feedback
  /\ UNCHANGED <<section, user, locals>>

\* An aborted transaction executes nothing; a second row breaks the unique
\* index.  Neither exception is caught.
Save(r) ==
  /\ pc[r] = "save"
  /\ IF aborted[r] \/ feedback[target[r]] # None
       THEN Reply(r, "server_error") /\ UNCHANGED feedback
       ELSE /\ feedback' = [feedback EXCEPT ![target[r]] = r]
            /\ Goto(r, "grade_refresh")
  /\ UNCHANGED <<section, user, locals>>

-----------------------------------------------------------------------------

\* Refresh the row just committed and return it.
Respond(r) ==
  /\ pc[r] \in {"create_refresh", "grade_refresh"}
  /\ pc' = [pc EXCEPT ![r] = "done"]
  /\ code' = [code EXCEPT ![r] = "created"]
  /\ shown' = [shown EXCEPT ![r] =
                 IF pc[r] = "grade_refresh" THEN feedback[target[r]] ELSE None]
  /\ UNCHANGED <<rows, user, locals>>

\* GET /answers/{id}/feedback, GET /speaking/answers/{id}/feedback: alike but for
\* the band's name.
ReadRequest(r, a) ==
  /\ pc[r] = "new"
  /\ target' = [target EXCEPT ![r] = a]
  /\ pc' = [pc EXCEPT ![r] = "done"]
  /\ code' = [code EXCEPT ![r] = IF feedback[a] = None THEN "not_found" ELSE "ok"]
  /\ shown' = [shown EXCEPT ![r] = feedback[a]]
  /\ UNCHANGED <<rows, user, route, about, work>>

\* The worker serving r dies: its transaction rolls back.
Lose(r) ==
  /\ pc[r] \in Working
  /\ Reply(r, "lost")
  /\ Rollback(r)

Arrive(r) ==
  \/ \E router \in Sections :
       \/ \E task \in Sections : CreateRequest(r, router, task)
       \/ \E a \in Answers : GradeRequest(r, router, a)
  \/ \E a \in Answers : ReadRequest(r, a)

Serve(r) ==
  \/ Transcribe(r) \/ CreateUser(r) \/ CreateSave(r)
  \/ RunGrader(r) \/ RunSpeakingGrader(r) \/ Save(r)
  \/ Respond(r)

Next == \E r \in Requests : Arrive(r) \/ Serve(r) \/ Lose(r)

Spec == Init /\ [][Next]_vars

-----------------------------------------------------------------------------

\* Whoever asks for the grade of an answer, the grader included, is shown the
\* same one ever after: of the handlers that found no grade and called the
\* models, one stores its grade and the others store and show nothing
\* (feedback.py:87-136, speaking.py:148-190, unique ai_feedback.answer_id).
GradesAreStable ==
  \A q, r \in Requests :
    shown[q] # None /\ shown[r] # None /\ target[q] = target[r] => shown[q] = shown[r]

\* No grade is ever given by the oral rubric to what was not spoken, whatever
\* the handlers in flight (speaking.py:157-159).
OralGradesAreForSpeech ==
  \A a \in Answers :
    feedback[a] # None /\ route[feedback[a]] = "speaking" => section[a] = "speaking"

\* What a learner is shown of a grade: whose it is and by which rubric.
Labelled(g) == IF g = None THEN <<>> ELSE <<g, route[g]>>

\* The grade on record for answer a.
GradeOf(a) == Labelled(feedback[a])

\* The responses that carried a grade: the answer each was asked about, and what
\* was in its body.
Seen == {<<target[r], Labelled(shown[r])>> : r \in {q \in Requests : shown[q] # None}}

\* Two routers over the same tables, each with its grader and its handlers in
\* flight, are one desk: it grades an answer once, and what a response about that
\* answer carries is the grade on record when it was made
\* (feedback.py:87-136, speaking.py:148-190).
G == INSTANCE Grades WITH
       Graders <- Requests,
       grade <- [a \in Answers |-> GradeOf(a)],
       seen <- Seen

ImplementsGrades == G!Spec

\* A stored grade has its scores and its corrections: no call of its grader was
\* still running, or had failed, when it was stored (graph.py:205-215).
GradesAreWhole ==
  \A a \in Answers : feedback[a] # None =>
    LET r == feedback[a] IN
      /\ running[r] = {}
      /\ draft[r] = {} => verified[r] = {}
      /\ code[r] \in {"none", "created", "lost"}

-----------------------------------------------------------------------------
(* What documentation says and the code does not ensure. *)

\* retrieval.py:91-92: "because RAG is additive, no retrieval problem should
\* ever surface as a grading error".
RetrievalNeverBreaksGrading ==
  \A r \in Requests : aborted[r] => code[r] # "server_error"

=============================================================================
