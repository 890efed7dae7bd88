---------------------------- MODULE Conversation ----------------------------
(***************************************************************************)
(* The conversational speaking endpoints of the backend                    *)
(* (backend/app/routers/conversation.py) over the speaking_sessions,       *)
(* answers, ai_feedback and users tables.                                  *)
(*                                                                         *)
(* Every request is served by a coroutine with a database session of its   *)
(* own.  It reads the speaking_sessions row once, at its start, then waits *)
(* (seconds to minutes) for speech-to-text, the examiner model, the voice  *)
(* or the grader, and only then writes and commits.  Nothing locks the     *)
(* row, so requests for the same session overlap at every await.  Between  *)
(* two touches of shared state a handler is one step: the upstream calls   *)
(* of a turn, for instance, are the single step TurnTalk.                  *)
(*                                                                         *)
(* A commit writes only the columns the handler assigned: /turn the        *)
(* dialogue, /finish the status and answer_id.                             *)
(***************************************************************************)
EXTENDS Turns, FiniteSets

\* Requests (of Turns): HTTP requests, each served once.
CONSTANTS
  Sessions,           \* ids a speaking_sessions row may get
  None,               \* a null id
  MaxCandidateTurns,  \* examiner.MAX_CANDIDATE_TURNS
  Overlap,            \* may requests for the same session overlap?
  PoolSize            \* connections of the engine's pool, overflow included

ASSUME NoneIsNoId == None \notin Sessions \cup Requests
ASSUME CapIsPositive == MaxCandidateTurns \in Nat \ {0}
ASSUME OverlapIsBoolean == Overlap \in BOOLEAN
ASSUME PoolSizeIsPositive == PoolSize \in Nat \ {0}

VARIABLES
  \* committed rows
  status,     \* speaking_sessions.status; "none": there is no such row
  turns,      \* speaking_sessions.turns
  answerId,   \* speaking_sessions.answer_id
  answers,    \* content of the answers row request r created; <<>>: no row
  feedback,   \* answers that have an ai_feedback row
  devUser,    \* is the development user's row committed?
  inserter,   \* the request with an uncommitted insert of that row
  \* the coroutine serving each request
  pc,         \* the await it is suspended at
  target,     \* the session it is about
  snapshot,   \* the dialogue it loaded
  heard,      \* what transcription made of the candidate's audio
  ended,      \* the examiner's verdict that the interview is over
  code,       \* the response
  turnIndex   \* turn_index in the response of /turn

rows == <<status, turns, answerId, answers, feedback>>
user == <<devUser, inserter>>
locals == <<target, snapshot, heard, ended, turnIndex>>
vars == <<rows, user, pc, locals, code>>

-----------------------------------------------------------------------------
(* Requests. *)

Talking == {"turn_talk", "turn_save"}
Grading == {"finish_grade", "finish_save"}
Refreshing == {"start_refresh", "turn_refresh", "finish_refresh"}
Starting == {"start_user", "start_talk", "start_save"}
Working == Starting \cup Talking \cup Grading \cup Refreshing

Codes == {"none", "ok", "created", "bad_request", "not_found", "conflict",
          "failed",        \* 502, 503, the upstream's own status, or a 500
          "server_error",  \* the 500 of an uncaught IntegrityError
          "lost"}          \* the worker or the connection went away

TypeOK ==
  /\ status \in [Sessions -> {"none", "active", "finished"}]
  /\ turns \in [Sessions -> Seq(Turn)]
  /\ answerId \in [Sessions -> Requests \cup {None}]
  /\ DOMAIN answers = Requests
  /\ \A r \in Requests : \A i \in DOMAIN answers[r] : i \in Nat /\ answers[r][i] \in Turn
  /\ feedback \subseteq Requests
  /\ devUser \in BOOLEAN
  /\ inserter \in Requests \cup {None}
  /\ pc \in [Requests -> {"new", "done"} \cup Working]
  /\ target \in [Requests -> Sessions \cup {None}]
  /\ snapshot \in [Requests -> Seq(Turn)]
  /\ heard \in [Requests -> Said \cup {"none"}]
  /\ ended \in [Requests -> BOOLEAN]
  /\ code \in [Requests -> Codes]
  /\ turnIndex \in [Requests -> Nat]

Init ==
  /\ status = [s \in Sessions |-> "none"]
  /\ turns = [s \in Sessions |-> <<>>]
  /\ answerId = [s \in Sessions |-> None]
  /\ answers = [r \in Requests |-> <<>>]
  /\ feedback = {}
  /\ devUser \in BOOLEAN
  /\ inserter = None
  /\ pc = [r \in Requests |-> "new"]
  /\ target = [r \in Requests |-> None]
  /\ snapshot = [r \in Requests |-> <<>>]
  /\ heard = [r \in Requests |-> "none"]
  /\ ended = [r \in Requests |-> FALSE]
  /\ code = [r \in Requests |-> "none"]
  /\ turnIndex = [r \in Requests |-> 0]

Goto(r, label) == pc' = [pc EXCEPT ![r] = label] /\ UNCHANGED code

Reply(r, c) == pc' = [pc EXCEPT ![r] = "done"] /\ code' = [code EXCEPT ![r] = c]

\* Leaving without a commit rolls the request's transaction back.
Rollback(r) ==
  /\ inserter' = IF inserter = r THEN None ELSE inserter
  /\ UNCHANGED <<rows, devUser, locals>>

\* Mutation: a session keeps its connection when its refresh takes another one.
ConnectedToTheEnd == {r \in Requests : pc[r] \in Working}

\* The requests that hold a connection: from their first statement to the end of
\* the transaction, through all upstream calls.  A refresh takes one anew.
Connected == {r \in Requests : pc[r] \in Working \ Refreshing}

ConnectionIsFree == Cardinality(Connected) < PoolSize

\* May a request for session s arrive now?
Admitted(s) == Overlap \/ \A q \in Requests : target[q] = s => pc[q] \notin Working

-----------------------------------------------------------------------------
(* POST /speaking/sessions *)

\* Bound of the model: the ids suffice for the sessions being started.
IdIsLeft ==
  Cardinality({r \in Requests : pc[r] \in Starting})
    < Cardinality({s \in Sessions : status[s] = "none"})

\* Reject the question, or look the development user up.
StartRequest(r) ==
  /\ pc[r] = "new"
  /\ ConnectionIsFree
  /\ IdIsLeft
  /\ \/ \E c \in {"not_found", "bad_request"} : Reply(r, c)
     \/ Goto(r, IF devUser THEN "start_talk" ELSE "start_user")
  /\ UNCHANGED <<rows, user, locals>>

\* The insert of the user waits while another transaction holds the same
\* e-mail uncommitted; when that one has committed it is a duplicate.
StartUser(r) ==
  /\ pc[r] = "start_user"
  /\ inserter = None
  /\ IF devUser
       THEN Reply(r, "server_error") /\ UNCHANGED inserter
       ELSE Goto(r, "start_talk") /\ inserter' = r
  /\ UNCHANGED <<rows, devUser, locals>>

\* The examiner's opening and its voice, with the insert still uncommitted.
StartTalk(r) ==
  /\ pc[r] = "start_talk"
  /\ \/ Goto(r, "start_save") /\ UNCHANGED <<rows, user, locals>>
     \/ Reply(r, "failed") /\ Rollback(r)

\* Insert the session with the opening turn; the commit keeps the user too.
StartSave(r) ==
  /\ pc[r] = "start_save"
  /\ \E s \in Sessions :
       /\ status[s] = "none"
       /\ status' = [status EXCEPT ![s] = "active"]
       /\ turns' = [turns EXCEPT ![s] = <<Examiner(r)>>]
       /\ target' = [target EXCEPT ![r] = s]
  /\ devUser' = (devUser \/ inserter = r)
  /\ inserter' = IF inserter = r THEN None ELSE inserter
  /\ Goto(r, "start_refresh")
  /\ UNCHANGED <<answerId, answers, feedback, snapshot, heard, ended, turnIndex>>

-----------------------------------------------------------------------------
(* POST /speaking/sessions/{id}/turn *)

\* Mutation: /turn without its status check.
TurnsWelcomeAlways(s) == status[s] # "none"

\* Only an active session takes turns.
TurnsWelcome(s) == status[s] = "active"

\* Load the row; the audio may be empty.
TurnRequest(r, s) ==
  /\ pc[r] = "new"
  /\ ConnectionIsFree
  /\ Admitted(s)
  /\ target' = [target EXCEPT ![r] = s]
  /\ \/ status[s] = "none" /\ Reply(r, "not_found") /\ UNCHANGED snapshot
     \/ status[s] # "none" /\ ~TurnsWelcome(s) /\ Reply(r, "conflict") /\ UNCHANGED snapshot
     \/ TurnsWelcome(s) /\ Reply(r, "bad_request") /\ UNCHANGED snapshot
     \/ /\ TurnsWelcome(s)
        /\ snapshot' = [snapshot EXCEPT ![r] = turns[s]]
        /\ Goto(r, "turn_talk")
  /\ UNCHANGED <<rows, user, heard, ended, turnIndex>>

\* Mutation: the cap looks at the dialogue without the answer just given.
MustEndLate(d) == CountCandidate(d) >= MaxCandidateTurns

\* The turn cap counts the answer just given (examiner.next_turn).
MustEnd(d) == CountCandidate(d) + 1 >= MaxCandidateTurns

\* Transcription, the examiner's reply and its voice, or any of them fails.
TurnTalk(r) ==
  /\ pc[r] = "turn_talk"
  /\ \/ \E said \in Said, shouldEnd \in BOOLEAN :
          /\ heard' = [heard EXCEPT ![r] = said]
          /\ ended' = [ended EXCEPT ![r] = shouldEnd \/ MustEnd(snapshot[r])]
          /\ Goto(r, "turn_save")
          /\ UNCHANGED <<rows, user, target, snapshot, turnIndex>>
     \/ Reply(r, "failed") /\ Rollback(r)

\* Mutation: the exchange is appended to whatever the row holds by now.
TurnSaveOnTop(r) ==
  /\ pc[r] = "turn_save"
  /\ turns' = [turns EXCEPT ![target[r]] = Exchange(turns[target[r]], r, heard[r])]
  /\ Goto(r, "turn_refresh")
  /\ UNCHANGED <<status, answerId, answers, feedback, user, locals>>

\* Mutation: the commit writes back every column as it was loaded.
TurnSaveWholeRow(r) ==
  /\ pc[r] = "turn_save"
  /\ turns' = [turns EXCEPT ![target[r]] = Exchange(snapshot[r], r, heard[r])]
  /\ status' = [status EXCEPT ![target[r]] = "active"]
  /\ Goto(r, "turn_refresh")
  /\ UNCHANGED <<answerId, answers, feedback, user, locals>>

\* The commit overwrites the turns column with this request's own list.
TurnSave(r) ==
  /\ pc[r] = "turn_save"
  /\ turns' = [turns EXCEPT ![target[r]] = Exchange(snapshot[r], r, heard[r])]
  /\ Goto(r, "turn_refresh")
  /\ UNCHANGED <<status, answerId, answers, feedback, user, locals>>

-----------------------------------------------------------------------------
(* POST /speaking/sessions/{id}/finish *)

\* Load the row and flush the new answer, which nobody else sees yet.
FinishRequest(r, s) ==
  /\ pc[r] = "new"
  /\ ConnectionIsFree
  /\ Admitted(s)
  /\ target' = [target EXCEPT ![r] = s]
  /\ \/ status[s] = "none" /\ Reply(r, "not_found") /\ UNCHANGED snapshot
     \/ status[s] = "finished" /\ Reply(r, "conflict") /\ UNCHANGED snapshot
     \/ /\ status[s] = "active" /\ ~HasWords(turns[s])
        /\ Reply(r, "bad_request") /\ UNCHANGED snapshot
     \/ /\ status[s] = "active" /\ HasWords(turns[s])
        /\ snapshot' = [snapshot EXCEPT ![r] = turns[s]]
        /\ Goto(r, "finish_grade")
  /\ UNCHANGED <<rows, user, heard, ended, turnIndex>>

\* Mutation: the answer was committed, not flushed, before the grader failed.
FinishGradeKeepsAnswer(r) ==
  /\ pc[r] = "finish_grade"
  /\ Reply(r, "failed")
  /\ answers' = [answers EXCEPT ![r] = CandidateTurns(snapshot[r])]
  /\ UNCHANGED <<status, turns, answerId, feedback, user, locals>>

FinishGrade(r) ==
  /\ pc[r] = "finish_grade"
  /\ \/ Goto(r, "finish_save") /\ UNCHANGED <<rows, user, locals>>
     \/ Reply(r, "failed") /\ Rollback(r)

\* Mutation: answer_id is given the session's own id.
FinishSaveLinksItself(r) ==
  /\ pc[r] = "finish_save"
  /\ answers' = [answers EXCEPT ![r] = CandidateTurns(snapshot[r])]
  /\ feedback' = feedback \cup {r}
  /\ status' = [status EXCEPT ![target[r]] = "finished"]
  /\ answerId' = [answerId EXCEPT ![target[r]] = target[r]]
  /\ Goto(r, "finish_refresh")
  /\ UNCHANGED <<turns, user, locals>>

\* Mutation: the examiner's turns are graded with the candidate's.
FinishSaveWholeDialogue(r) ==
  /\ pc[r] = "finish_save"
  /\ answers' = [answers EXCEPT ![r] = snapshot[r]]
  /\ feedback' = feedback \cup {r}
  /\ status' = [status EXCEPT ![target[r]] = "finished"]
  /\ answerId' = [answerId EXCEPT ![target[r]] = r]
  /\ Goto(r, "finish_refresh")
  /\ UNCHANGED <<turns, user, locals>>

\* One commit: the answer, its feedback, the status and the link.
FinishSave(r) ==
  /\ pc[r] = "finish_save"
  /\ answers' = [answers EXCEPT ![r] = CandidateTurns(snapshot[r])]
  /\ feedback' = feedback \cup {r}
  /\ status' = [status EXCEPT ![target[r]] = "finished"]
  /\ answerId' = [answerId EXCEPT ![target[r]] = r]
  /\ Goto(r, "finish_refresh")
  /\ UNCHANGED <<turns, user, locals>>

-----------------------------------------------------------------------------

\* Mutation: the number of turns for the index of the last one.
ReplyIndexOffByOne(d) == Len(d)

\* The index of the examiner's reply, the last turn.
ReplyIndex(d) == Len(d) - 1

\* The refresh after the commit, then the response.  The turn_index of /turn
\* is read off the refreshed row, not off the list the request wrote.
Respond(r) ==
  /\ pc[r] \in Refreshing
  /\ ConnectionIsFree
  /\ Reply(r, IF pc[r] = "turn_refresh" THEN "ok" ELSE "created")
  /\ turnIndex' = IF pc[r] = "turn_refresh"
                    THEN [turnIndex EXCEPT ![r] = ReplyIndex(turns[target[r]])]
                    ELSE turnIndex
  /\ UNCHANGED <<rows, user, target, snapshot, heard, ended>>

\* GET /speaking/sessions/{id}
ReadRequest(r, s) ==
  /\ pc[r] = "new"
  /\ ConnectionIsFree
  /\ Admitted(s)
  /\ target' = [target EXCEPT ![r] = s]
  /\ Reply(r, IF status[s] = "none" THEN "not_found" ELSE "ok")
  /\ UNCHANGED <<rows, user, snapshot, heard, ended, turnIndex>>

\* The worker serving r dies, or is restarted, or r has waited too long for a
\* connection: its transaction, if it is in one, rolls back.
Lose(r) ==
  /\ pc[r] \in Working
  /\ Reply(r, "lost")
  /\ Rollback(r)

Arrive(r) ==
  \/ StartRequest(r)
  \/ \E s \in Sessions : TurnRequest(r, s) \/ FinishRequest(r, s) \/ ReadRequest(r, s)

Serve(r) ==
  \/ StartUser(r) \/ StartTalk(r) \/ StartSave(r)
  \/ TurnTalk(r) \/ TurnSave(r)
  \/ FinishGrade(r) \/ FinishSave(r)
  \/ Respond(r)

Next == \E r \in Requests : Arrive(r) \/ Serve(r) \/ Lose(r)

Spec == Init /\ [][Next]_vars

\* The event loop resumes a coroutine whose await completes, and every await
\* does: the SDKs time their calls out, and the database ends a lock wait when
\* the holder's transaction ends.  Nobody is obliged to send a request.
FairSpec == Spec /\ \A r \in Requests : WF_vars(Serve(r))

-----------------------------------------------------------------------------
(* What holds however requests overlap. *)

\* A failing or dying /finish leaves nothing behind, and a graded session
\* leads to its grade: an answer created here exists exactly when its
\* feedback does and its session is finished, and answer_id of a session
\* names such an answer exactly when the session is finished
\* (conversation.py:256-283, one commit after flush, grading and insert).
GradeIsAtomic ==
  /\ \A r \in Requests : answers[r] # <<>> <=> r \in feedback
  /\ \A r \in feedback : status[target[r]] = "finished"
  /\ \A s \in Sessions :
       IF status[s] = "finished" THEN answerId[s] \in feedback ELSE answerId[s] = None

\* Every examiner reply on record was composed with exactly the dialogue that
\* precedes it in view: turns before it are the ones its request loaded, then
\* comes the answer its request transcribed (conversation.py:185-207).  It
\* holds although concurrent turns overwrite each other.
RepliesSawTheirContext ==
  \A s \in Sessions : \A i \in 2 .. Len(turns[s]) :
    turns[s][i].role = "examiner" =>
      LET r == turns[s][i].by IN
        SubSeq(turns[s], 1, i) = Exchange(snapshot[r], r, heard[r])

\* The request that put the last allowed answer on record, or one beyond it,
\* was told that the interview is over (examiner.py:123-133), so a client
\* that honours "ended" stops there.
CapIsAnnounced ==
  \A s \in Sessions :
    CountCandidate(turns[s]) >= MaxCandidateTurns =>
      ended[turns[s][Len(turns[s])].by]

\* Finished, and no handler admitted before that is still at work on it.
Settled(s) ==
  /\ status[s] = "finished"
  /\ \A r \in Requests : target[r] = s => pc[r] \notin Talking \cup Grading

\* A finished session is never reopened, although a turn that loaded the row
\* while it was active may commit after the finish (conversation.py:206-208 writes
\* the turns column only); and once the handlers in flight at the finish are gone,
\* its dialogue and its grade never change again: the 409 of /turn and /finish
\* lets no new one in (conversation.py:161-162, 230-234).
FinishedSettles ==
  [][\A s \in Sessions :
       /\ status[s] = "finished" => status'[s] = "finished"
       /\ Settled(s) => /\ Settled(s)'
                        /\ turns'[s] = turns[s]
                        /\ answerId'[s] = answerId[s]]_vars

\* Every request admitted is answered, or lost with its worker, however small the
\* pool: a failed upstream call gives up the user insert that others wait for, and
\* who waits for a connection holds nothing that those who have one wait for
\* (conversation.py:109-134, 207-209, db.py:20-32).
Answered == \A r \in Requests : pc[r] \in Working ~> pc[r] = "done"

-----------------------------------------------------------------------------
(* What holds for a client that sends one request at a time per session. *)

\* The session's grade, as the dialogue's promise speaks of it.
Grade(s) == IF answerId[s] = None THEN <<>> ELSE answers[answerId[s]]

D == INSTANCE Dialogue WITH grade <- [s \in Sessions |-> Grade(s)]

\* The endpoints implement the promise of module Dialogue.
ImplementsDialogue == D!Spec

\* The turn_index that /turn returns is that of the examiner reply returned
\* with it, then and ever after (conversation.py:208-213).
TurnIndexNamesReply ==
  \A r \in Requests :
    code[r] = "ok" /\ heard[r] # "none" =>
      /\ turnIndex[r] + 1 \in DOMAIN turns[target[r]]
      /\ turns[target[r]][turnIndex[r] + 1] = Examiner(r)

-----------------------------------------------------------------------------
(* What documentation says and the code does not ensure. *)

\* conversation.py:3-4: "the persisted speaking_sessions row as the source of
\* truth for the dialogue".  An exchange whose /turn succeeded is on record.
AcknowledgedTurnsAreKept ==
  \A r \in Requests :
    code[r] = "ok" /\ heard[r] # "none" =>
      \E i \in DOMAIN turns[target[r]] : turns[target[r]][i] = Candidate(r, heard[r])

=============================================================================
