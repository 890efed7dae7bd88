------------------------- MODULE ConversationProofs -------------------------
(***************************************************************************)
(* Theorems about Conversation, for any sets of sessions and requests, any *)
(* cap, and every interleaving: type correctness, then the inductive       *)
(* invariant behind the properties the runs check.                         *)
(***************************************************************************)
EXTENDS Conversation, SequenceTheorems, FiniteSetTheorems, TLAPS

(***************************************************************************)
(* Dialogues.                                                              *)
(***************************************************************************)

\* An exchange keeps what was there and adds an answer and a reply.
LEMMA ExchangeShape ==
  ASSUME NEW d \in Seq(Turn), NEW r \in Requests, NEW said \in Said
  PROVE  /\ Exchange(d, r, said) \in Seq(Turn)
         /\ Len(Exchange(d, r, said)) = Len(d) + 2
         /\ \A i \in 1 .. Len(d) : Exchange(d, r, said)[i] = d[i]
         /\ Exchange(d, r, said)[Len(d) + 1] = Candidate(r, said)
         /\ Exchange(d, r, said)[Len(d) + 2] = Examiner(r)
<1> DEFINE e == Append(d, Candidate(r, said))
<1>1. Candidate(r, said) \in Turn /\ Examiner(r) \in Turn
  BY DEF Candidate, Examiner, Turn, Said
<1>2. /\ e \in Seq(Turn)
      /\ Len(e) = Len(d) + 1
      /\ \A i \in 1 .. Len(d) : e[i] = d[i]
      /\ e[Len(d) + 1] = Candidate(r, said)
  BY <1>1, AppendProperties
<1>3. /\ Append(e, Examiner(r)) \in Seq(Turn)
      /\ Len(Append(e, Examiner(r))) = Len(e) + 1
      /\ \A i \in 1 .. Len(e) : Append(e, Examiner(r))[i] = e[i]
      /\ Append(e, Examiner(r))[Len(e) + 1] = Examiner(r)
  BY <1>1, <1>2, AppendProperties
<1>4. Len(d) \in Nat
  BY LenProperties
<1> QED
  BY <1>2, <1>3, <1>4 DEF Exchange

\* A dialogue's candidate turns are turns at positions of the dialogue, and
\* there are some when the candidate said something.
LEMMA CandidateTurnsShape ==
  ASSUME NEW d \in Seq(Turn)
  PROVE  /\ \A i \in DOMAIN CandidateTurns(d) :
              i \in Nat /\ CandidateTurns(d)[i] \in Turn
         /\ HasWords(d) => CandidateTurns(d) # <<>>
<1>1. DOMAIN d = 1 .. Len(d) /\ Len(d) \in Nat
  BY LenProperties
<1>2. \A i \in DOMAIN d : d[i] \in Turn
  BY ElementOfSeq, <1>1
<1>3. DOMAIN <<>> = {}
  OBVIOUS
<1>4. HasWords(d) => DOMAIN CandidateTurns(d) # {}
  BY DEF HasWords, CandidateTurns
<1> QED
  BY <1>1, <1>2, <1>3, <1>4 DEF CandidateTurns

(***************************************************************************)
(* The inductive invariant.                                                *)
(***************************************************************************)

\* What the place a handler is suspended at says about its locals: a session
\* is known to exist once it has been loaded or saved, there is a transcript
\* once transcription has answered and nowhere else, the grader is only
\* called on words, and a request that put feedback on record is past that.
HandlerInv ==
  /\ \A s \in Sessions : status[s] # "none" => turns[s] # <<>>
  /\ \A r \in Requests :
       /\ pc[r] \in {"new", "start_user", "start_talk", "start_save"} => target[r] = None
       /\ pc[r] \in Talking \cup Grading \cup Refreshing =>
            target[r] \in Sessions /\ status[target[r]] # "none"
       /\ pc[r] \in {"turn_save", "turn_refresh"} => heard[r] \in Said
       /\ heard[r] # "none" => pc[r] \in {"turn_save", "turn_refresh", "done"}
       /\ pc[r] \in Grading => HasWords(snapshot[r])
       /\ r \in feedback => pc[r] \in {"finish_refresh", "done"} /\ target[r] \in Sessions

LEMMA TypeInit == Init => TypeOK /\ HandlerInv
BY EmptySeq, NoneIsNoId
   DEF Init, TypeOK, HandlerInv, Working, Talking, Grading, Refreshing, Starting, Codes, Said

\* Replying without touching a row keeps types.
LEMMA ReplyTypes ==
  ASSUME TypeOK, NEW r \in Requests, NEW c \in Codes, Reply(r, c),
         UNCHANGED <<rows, locals, devUser>>, inserter' \in Requests \cup {None}
  PROVE  TypeOK'
BY DEF TypeOK, Reply, rows, locals

\* So does moving on.
LEMMA GotoTypes ==
  ASSUME TypeOK, NEW r \in Requests, NEW label \in Working, Goto(r, label),
         UNCHANGED <<rows, locals, devUser>>, inserter' \in Requests \cup {None}
  PROVE  TypeOK'
BY DEF TypeOK, Goto, rows, locals

\* Refusing a request about session s keeps types.
LEMMA RefusalTypes ==
  ASSUME TypeOK, NEW r \in Requests, NEW s \in Sessions, NEW c \in Codes, Reply(r, c),
         target' = [target EXCEPT ![r] = s],
         UNCHANGED <<rows, user, snapshot, heard, ended, turnIndex>>
  PROVE  TypeOK'
BY DEF TypeOK, Reply, rows, user

\* So does admitting it on the dialogue it loads.
LEMMA LoadTypes ==
  ASSUME TypeOK, NEW r \in Requests, NEW s \in Sessions, NEW label \in Working,
         Goto(r, label),
         target' = [target EXCEPT ![r] = s],
         snapshot' = [snapshot EXCEPT ![r] = turns[s]],
         UNCHANGED <<rows, user, heard, ended, turnIndex>>
  PROVE  TypeOK'
BY DEF TypeOK, Goto, rows, user

LEMMA TypeStep == TypeOK /\ HandlerInv /\ [Next]_vars => TypeOK'
<1> SUFFICES ASSUME TypeOK, HandlerInv, [Next]_vars PROVE TypeOK'
  OBVIOUS
<1> USE DEF Working, Talking, Grading, Refreshing, Starting, Codes
<1>r. ASSUME NEW r \in Requests, Rollback(r)
      PROVE  inserter' \in Requests \cup {None} /\ UNCHANGED <<rows, locals, devUser>>
  BY <1>r DEF Rollback, TypeOK
<1>1. ASSUME NEW r \in Requests, StartRequest(r) PROVE TypeOK'
  <2>1. inserter' \in Requests \cup {None} /\ UNCHANGED <<rows, locals, devUser>>
    BY <1>1 DEF StartRequest, user, TypeOK
  <2>2. CASE \E c \in {"not_found", "bad_request"} : Reply(r, c)
    BY <2>1, <2>2, ReplyTypes
  <2>3. CASE Goto(r, "start_talk") \/ Goto(r, "start_user")
    BY <2>1, <2>3, GotoTypes
  <2> QED
    BY <1>1, <2>2, <2>3 DEF StartRequest
<1>2. ASSUME NEW r \in Requests, StartUser(r) PROVE TypeOK'
  BY <1>2, ReplyTypes, GotoTypes DEF StartUser, TypeOK
<1>3. ASSUME NEW r \in Requests, StartTalk(r) PROVE TypeOK'
  BY <1>3, <1>r, ReplyTypes, GotoTypes DEF StartTalk, user, TypeOK
<1>4. ASSUME NEW r \in Requests, StartSave(r) PROVE TypeOK'
  <2>1. <<Examiner(r)>> \in Seq(Turn)
    BY DEF Examiner, Turn, Said
  <2>2. devUser' \in BOOLEAN /\ inserter' \in Requests \cup {None}
    BY <1>4 DEF StartSave, TypeOK
  <2>3. PICK s \in Sessions :
          /\ status' = [status EXCEPT ![s] = "active"]
          /\ turns' = [turns EXCEPT ![s] = <<Examiner(r)>>]
          /\ target' = [target EXCEPT ![r] = s]
    BY <1>4 DEF StartSave
  <2>4. /\ Goto(r, "start_refresh")
        /\ UNCHANGED <<answerId, answers, feedback, snapshot, heard, ended, turnIndex>>
    BY <1>4 DEF StartSave
  <2> QED
    BY <2>1, <2>2, <2>3, <2>4 DEF Goto, TypeOK
<1>5. ASSUME NEW r \in Requests, NEW s \in Sessions, TurnRequest(r, s) PROVE TypeOK'
  BY <1>5, RefusalTypes, LoadTypes DEF TurnRequest
<1>6. ASSUME NEW r \in Requests, TurnTalk(r) PROVE TypeOK'
  <2>1. CASE Reply(r, "failed") /\ Rollback(r)
    BY <1>r, <2>1, ReplyTypes
  <2>2. ASSUME NEW said \in Said, NEW shouldEnd \in BOOLEAN,
               heard' = [heard EXCEPT ![r] = said],
               ended' = [ended EXCEPT ![r] = shouldEnd \/ MustEnd(snapshot[r])],
               Goto(r, "turn_save"),
               UNCHANGED <<rows, user, target, snapshot, turnIndex>>
        PROVE  TypeOK'
    <3>1. PICK e \in BOOLEAN : ended' = [ended EXCEPT ![r] = e]
      BY <2>2, Zenon
    <3> QED
      BY <2>2, <3>1 DEF Goto, rows, user, TypeOK
  <2> QED
    BY <1>6, <2>1, <2>2 DEF TurnTalk
<1>7. ASSUME NEW r \in Requests, TurnSave(r) PROVE TypeOK'
  <2>1. Exchange(snapshot[r], r, heard[r]) \in Seq(Turn)
    BY <1>7, ExchangeShape DEF TurnSave, HandlerInv, TypeOK
  <2> QED
    BY <1>7, <2>1 DEF TurnSave, Goto, user, locals, TypeOK
<1>8. ASSUME NEW r \in Requests, NEW s \in Sessions, FinishRequest(r, s) PROVE TypeOK'
  BY <1>8, RefusalTypes, LoadTypes DEF FinishRequest
<1>9. ASSUME NEW r \in Requests, FinishGrade(r) PROVE TypeOK'
  BY <1>9, <1>r, ReplyTypes, GotoTypes DEF FinishGrade, user, TypeOK
<1>10. ASSUME NEW r \in Requests, FinishSave(r) PROVE TypeOK'
  <2>1. \A i \in DOMAIN CandidateTurns(snapshot[r]) :
          i \in Nat /\ CandidateTurns(snapshot[r])[i] \in Turn
    BY CandidateTurnsShape DEF TypeOK
  <2> QED
    BY <1>10, <2>1 DEF FinishSave, HandlerInv, Goto, user, locals, TypeOK
<1>11. ASSUME NEW r \in Requests, Respond(r) PROVE TypeOK'
  <2>1. pc[r] = "turn_refresh" => Len(turns[target[r]]) \in Nat \ {0}
    BY EmptySeq DEF HandlerInv, TypeOK
  <2> QED
    BY <1>11, <2>1 DEF Respond, ReplyIndex, Reply, rows, user, HandlerInv, TypeOK
<1>12. ASSUME NEW r \in Requests, NEW s \in Sessions, ReadRequest(r, s) PROVE TypeOK'
  BY <1>12, RefusalTypes DEF ReadRequest
<1>13. ASSUME NEW r \in Requests, Lose(r) PROVE TypeOK'
  BY <1>13, <1>r, ReplyTypes DEF Lose
<1>14. CASE UNCHANGED vars
  BY <1>14 DEF vars, rows, user, locals, TypeOK
<1> QED
  BY <1>1, <1>2, <1>3, <1>4, <1>5, <1>6, <1>7, <1>8, <1>9, <1>10, <1>11, <1>12, <1>13, <1>14
     DEF Next, Arrive, Serve

(***************************************************************************)
(* Where handlers are.                                                     *)
(***************************************************************************)

\* A step of one request: the others' locals, places and answers stay, rows
\* are never deleted, and feedback only grows, by an answer of that request.
Isolated(r) ==
  /\ \A q \in Requests \ {r} :
       /\ pc'[q] = pc[q] /\ target'[q] = target[q] /\ snapshot'[q] = snapshot[q]
       /\ heard'[q] = heard[q] /\ ended'[q] = ended[q] /\ answers'[q] = answers[q]
  /\ feedback \subseteq feedback'
  /\ feedback' \subseteq feedback \cup {r}
  /\ \A s \in Sessions : status[s] # "none" => status'[s] # "none"

Step(r) == Arrive(r) \/ Serve(r) \/ Lose(r)

LEMMA StepIsIsolated ==
  ASSUME TypeOK, NEW r \in Requests, Step(r)
  PROVE  Isolated(r)
<1> USE DEF TypeOK, Isolated, Goto, Reply, Rollback, rows, user, locals
<1>1. ASSUME StartRequest(r) PROVE Isolated(r)
  BY <1>1 DEF StartRequest
<1>2. ASSUME StartUser(r) PROVE Isolated(r)
  BY <1>2 DEF StartUser
<1>3. ASSUME StartTalk(r) PROVE Isolated(r)
  BY <1>3 DEF StartTalk
<1>4. ASSUME StartSave(r) PROVE Isolated(r)
  BY <1>4 DEF StartSave
<1>5. ASSUME NEW s \in Sessions, TurnRequest(r, s) PROVE Isolated(r)
  BY <1>5 DEF TurnRequest
<1>6. ASSUME TurnTalk(r) PROVE Isolated(r)
  BY <1>6 DEF TurnTalk
<1>7. ASSUME TurnSave(r) PROVE Isolated(r)
  BY <1>7 DEF TurnSave
<1>8. ASSUME NEW s \in Sessions, FinishRequest(r, s) PROVE Isolated(r)
  BY <1>8 DEF FinishRequest
<1>9. ASSUME FinishGrade(r) PROVE Isolated(r)
  BY <1>9 DEF FinishGrade
<1>10. ASSUME FinishSave(r) PROVE Isolated(r)
  BY <1>10 DEF FinishSave
<1>11. ASSUME Respond(r) PROVE Isolated(r)
  BY <1>11 DEF Respond
<1>12. ASSUME NEW s \in Sessions, ReadRequest(r, s) PROVE Isolated(r)
  BY <1>12 DEF ReadRequest
<1>13. ASSUME Lose(r) PROVE Isolated(r)
  BY <1>13 DEF Lose
<1> QED
  BY <1>1, <1>2, <1>3, <1>4, <1>5, <1>6, <1>7, <1>8, <1>9, <1>10, <1>11, <1>12, <1>13
     DEF Step, Arrive, Serve

\* A dialogue on record is never emptied.
LEMMA DialogueStays ==
  ASSUME TypeOK, HandlerInv, NEW r \in Requests, Step(r), NEW s \in Sessions,
         status'[s] # "none"
  PROVE  turns'[s] # <<>>
<1> USE DEF TypeOK, HandlerInv, Goto, Reply, Rollback, rows, user, locals
<1>1. CASE StartSave(r)
  <2>1. PICK n \in Sessions : /\ status' = [status EXCEPT ![n] = "active"]
                              /\ turns' = [turns EXCEPT ![n] = <<Examiner(r)>>]
    BY <1>1 DEF StartSave
  <2>2. <<Examiner(r)>> # <<>>
    OBVIOUS
  <2> QED
    BY <2>1, <2>2
<1>2. CASE TurnSave(r)
  <2>1. Len(Exchange(snapshot[r], r, heard[r])) # 0
    BY <1>2, ExchangeShape, LenProperties DEF TurnSave
  <2>2. Exchange(snapshot[r], r, heard[r]) # <<>>
    BY <2>1
  <2> QED
    BY <1>2, <2>2 DEF TurnSave
<1>3. CASE FinishSave(r)
  BY <1>3 DEF FinishSave, Grading
<1>4. CASE UNCHANGED <<status, turns>>
  BY <1>4
<1> QED
  BY <1>1, <1>2, <1>3, <1>4
     DEF Step, Arrive, Serve, StartRequest, StartUser, StartTalk, TurnRequest, TurnTalk,
         FinishRequest, FinishGrade, Respond, ReadRequest, Lose

LEMMA HandlerStep == TypeOK /\ HandlerInv /\ [Next]_vars => HandlerInv'
<1> SUFFICES ASSUME TypeOK, HandlerInv, [Next]_vars PROVE HandlerInv'
  OBVIOUS
<1>1. CASE UNCHANGED vars
  BY <1>1 DEF HandlerInv, vars, rows, locals
<1>2. ASSUME NEW r \in Requests, Step(r) PROVE HandlerInv'
  <2>1. Isolated(r)
    BY <1>2, StepIsIsolated
  <2>2. \A s \in Sessions : status'[s] # "none" => turns'[s] # <<>>
    BY <1>2, DialogueStays
  <2> DEFINE At(q) ==
        /\ pc[q] \in {"new", "start_user", "start_talk", "start_save"} => target[q] = None
        /\ pc[q] \in Talking \cup Grading \cup Refreshing =>
             target[q] \in Sessions /\ status[target[q]] # "none"
        /\ pc[q] \in {"turn_save", "turn_refresh"} => heard[q] \in Said
        /\ heard[q] # "none" => pc[q] \in {"turn_save", "turn_refresh", "done"}
        /\ pc[q] \in Grading => HasWords(snapshot[q])
        /\ q \in feedback => pc[q] \in {"finish_refresh", "done"} /\ target[q] \in Sessions
  <2>3. ASSUME NEW q \in Requests \ {r} PROVE At(q)'
    <3>1. At(q)
      BY DEF HandlerInv
    <3>2. HasWords(snapshot[q])' <=> HasWords(snapshot[q])
      BY <2>1 DEF Isolated, HasWords
    <3> QED
      BY <2>1, <3>1, <3>2 DEF Isolated
  <2>4. At(r)'
    <3> USE DEF TypeOK, HandlerInv, Goto, Reply, Rollback, rows, user, locals,
                Talking, Grading, Refreshing, Starting, Working, Said
    <3>1. ASSUME StartRequest(r) PROVE At(r)'
      BY <3>1 DEF StartRequest
    <3>2. ASSUME StartUser(r) PROVE At(r)'
      BY <3>2 DEF StartUser
    <3>3. ASSUME StartTalk(r) PROVE At(r)'
      BY <3>3 DEF StartTalk
    <3>4. ASSUME StartSave(r) PROVE At(r)'
      BY <3>4 DEF StartSave
    <3>5. ASSUME NEW s \in Sessions, TurnRequest(r, s) PROVE At(r)'
      BY <3>5 DEF TurnRequest, TurnsWelcome
    <3>6. ASSUME TurnTalk(r) PROVE At(r)'
      BY <3>6 DEF TurnTalk
    <3>7. ASSUME TurnSave(r) PROVE At(r)'
      BY <3>7 DEF TurnSave
    <3>8. ASSUME NEW s \in Sessions, FinishRequest(r, s) PROVE At(r)'
      BY <3>8 DEF FinishRequest
    <3>9. ASSUME FinishGrade(r) PROVE At(r)'
      BY <3>9 DEF FinishGrade
    <3>10. ASSUME FinishSave(r) PROVE At(r)'
      BY <3>10 DEF FinishSave
    <3>11. ASSUME Respond(r) PROVE At(r)'
      BY <3>11 DEF Respond
    <3>12. ASSUME NEW s \in Sessions, ReadRequest(r, s) PROVE At(r)'
      BY <3>12 DEF ReadRequest
    <3>13. ASSUME Lose(r) PROVE At(r)'
      BY <3>13 DEF Lose
    <3> QED
      BY <1>2, <3>1, <3>2, <3>3, <3>4, <3>5, <3>6, <3>7, <3>8, <3>9, <3>10, <3>11, <3>12, <3>13
         DEF Step, Arrive, Serve
  <2> QED
    BY <2>2, <2>3, <2>4 DEF HandlerInv
<1> QED
  BY <1>1, <1>2 DEF Next, Step

\* Type correctness of the endpoints, in every interleaving.
THEOREM TypeCorrect == Spec => [](TypeOK /\ HandlerInv)
<1>1. TypeOK /\ HandlerInv /\ [Next]_vars => (TypeOK /\ HandlerInv)'
  BY TypeStep, HandlerStep
<1> QED
  BY TypeInit, <1>1, PTL DEF Spec

(***************************************************************************)
(* Finishing.                                                              *)
(***************************************************************************)

\* How a step may touch the rows that finishing is about.
LEMMA GradeFootprint ==
  ASSUME TypeOK, HandlerInv, NEW r \in Requests, Step(r)
  PROVE  \/ /\ UNCHANGED <<answerId, answers, feedback>>
            /\ \A s \in Sessions : status'[s] = status[s]
                                  \/ (status[s] = "none" /\ status'[s] = "active")
         \/ FinishSave(r)
<1> USE DEF rows
<1>1. CASE StartSave(r)
  BY <1>1 DEF StartSave, TypeOK
<1>2. CASE UNCHANGED <<status, answerId, answers, feedback>>
  BY <1>2
<1> QED
  BY <1>1, <1>2
     DEF Step, Arrive, Serve, StartRequest, StartUser, StartTalk, TurnRequest, TurnTalk,
         TurnSave, FinishRequest, FinishGrade, Respond, ReadRequest, Lose, Rollback

LEMMA GradeStep ==
  TypeOK /\ HandlerInv /\ GradeIsAtomic /\ [Next]_vars => GradeIsAtomic'
<1> SUFFICES ASSUME TypeOK, HandlerInv, GradeIsAtomic, [Next]_vars PROVE GradeIsAtomic'
  OBVIOUS
<1>1. CASE UNCHANGED vars
  BY <1>1 DEF GradeIsAtomic, vars, rows, locals
<1>2. ASSUME NEW r \in Requests, Step(r) PROVE GradeIsAtomic'
  <2>1. Isolated(r)
    BY <1>2, StepIsIsolated
  <2>2. CASE /\ UNCHANGED <<answerId, answers, feedback>>
             /\ \A s \in Sessions : status'[s] = status[s]
                                   \/ (status[s] = "none" /\ status'[s] = "active")
    <3>1. \A q \in feedback : target'[q] = target[q]
      <4>1. ASSUME r \in feedback PROVE target'[r] = target[r]
        <5>1. pc[r] \in {"finish_refresh", "done"}
          BY <4>1 DEF HandlerInv
        <5> QED
          BY <1>2, <5>1 DEF Step, Arrive, Serve, StartRequest, StartUser, StartTalk, StartSave,
             TurnRequest, TurnTalk, TurnSave, FinishRequest, FinishGrade, FinishSave, Respond,
             ReadRequest, Lose, Rollback, locals
      <4> QED
        BY <2>1, <4>1 DEF Isolated, TypeOK
    <3>2. \A q \in feedback : target[q] \in Sessions
      BY DEF HandlerInv, TypeOK
    <3> QED
      BY <2>2, <3>1, <3>2 DEF GradeIsAtomic
  <2>3. CASE FinishSave(r)
    <3>1. pc[r] = "finish_save" /\ target[r] \in Sessions /\ target' = target
      BY <2>3 DEF FinishSave, HandlerInv, Grading, locals
    <3>2. r \notin feedback
      BY <3>1 DEF HandlerInv
    <3>3. CandidateTurns(snapshot[r]) # <<>>
      BY <3>1, CandidateTurnsShape DEF HandlerInv, TypeOK, Grading
    <3>4. /\ answers' = [answers EXCEPT ![r] = CandidateTurns(snapshot[r])]
          /\ feedback' = feedback \cup {r}
          /\ status' = [status EXCEPT ![target[r]] = "finished"]
          /\ answerId' = [answerId EXCEPT ![target[r]] = r]
      BY <2>3 DEF FinishSave
    <3>5. \A q \in Requests : (answers[q] # <<>> <=> q \in feedback)'
      BY <3>3, <3>4 DEF GradeIsAtomic, TypeOK
    <3>6. \A q \in feedback' : (status[target[q]] = "finished")'
      BY <3>1, <3>4 DEF GradeIsAtomic, HandlerInv, TypeOK
    <3>7. \A s \in Sessions :
            (IF status[s] = "finished" THEN answerId[s] \in feedback ELSE answerId[s] = None)'
      BY <3>1, <3>4 DEF GradeIsAtomic, TypeOK
    <3> QED
      BY <3>5, <3>6, <3>7 DEF GradeIsAtomic
  <2> QED
    BY <1>2, <2>2, <2>3, GradeFootprint
<1> QED
  BY <1>1, <1>2 DEF Next, Step

\* A failing or dying finish leaves nothing behind, however requests overlap:
\* answers, feedback, the status and the link are there together or not at all.
THEOREM GradeAtomicity == Spec => []GradeIsAtomic
<1>1. Init => GradeIsAtomic
  BY NoneIsNoId DEF Init, GradeIsAtomic
<1> QED
  BY <1>1, TypeCorrect, GradeStep, PTL DEF Spec

\* A step of a request leaves a settled session settled.
LEMMA SettledStep ==
  ASSUME TypeOK, HandlerInv, NEW r \in Requests, Step(r), NEW s \in Sessions, Settled(s)
  PROVE  Settled(s)' /\ turns'[s] = turns[s] /\ answerId'[s] = answerId[s]
<1>1. Isolated(r)
  BY StepIsIsolated
<1>2. status[s] = "finished"
  BY DEF Settled
<1>3. target[r] = s => pc[r] \notin Talking \cup Grading
  BY DEF Settled
<1> USE DEF TypeOK, Goto, Reply, Rollback, rows, user, locals, Talking, Grading, Working,
            Refreshing, Starting
<1> DEFINE Kept == /\ status'[s] = "finished"
                   /\ turns'[s] = turns[s]
                   /\ answerId'[s] = answerId[s]
                   /\ target'[r] = s => pc'[r] \notin Talking \cup Grading
<1>4. Kept
  <2>1. ASSUME StartRequest(r) PROVE Kept
    BY <2>1, <1>2, <1>3 DEF StartRequest
  <2>2. ASSUME StartUser(r) PROVE Kept
    BY <2>2, <1>2, <1>3 DEF StartUser
  <2>3. ASSUME StartTalk(r) PROVE Kept
    BY <2>3, <1>2, <1>3 DEF StartTalk
  <2>4. ASSUME StartSave(r) PROVE Kept
    BY <2>4, <1>2, <1>3 DEF StartSave
  <2>5. ASSUME NEW n \in Sessions, TurnRequest(r, n) PROVE Kept
    BY <2>5, <1>2, <1>3 DEF TurnRequest, TurnsWelcome
  <2>6. ASSUME TurnTalk(r) PROVE Kept
    BY <2>6, <1>2, <1>3 DEF TurnTalk
  <2>7. ASSUME TurnSave(r) PROVE Kept
    BY <2>7, <1>2, <1>3 DEF TurnSave, HandlerInv
  <2>8. ASSUME NEW n \in Sessions, FinishRequest(r, n) PROVE Kept
    BY <2>8, <1>2, <1>3 DEF FinishRequest
  <2>9. ASSUME FinishGrade(r) PROVE Kept
    BY <2>9, <1>2, <1>3 DEF FinishGrade
  <2>10. ASSUME FinishSave(r) PROVE Kept
    BY <2>10, <1>2, <1>3 DEF FinishSave, HandlerInv
  <2>11. ASSUME Respond(r) PROVE Kept
    BY <2>11, <1>2, <1>3 DEF Respond
  <2>12. ASSUME NEW n \in Sessions, ReadRequest(r, n) PROVE Kept
    BY <2>12, <1>2, <1>3 DEF ReadRequest
  <2>13. ASSUME Lose(r) PROVE Kept
    BY <2>13, <1>2, <1>3 DEF Lose
  <2> QED
    BY <2>1, <2>2, <2>3, <2>4, <2>5, <2>6, <2>7, <2>8, <2>9, <2>10, <2>11, <2>12, <2>13
       DEF Step, Arrive, Serve
<1> QED
  BY <1>1, <1>4 DEF Isolated, Settled

\* No step reopens a finished session: a turn that commits after the finish
\* leaves the status alone.
LEMMA FinishedStep ==
  ASSUME TypeOK, HandlerInv, Next, NEW s \in Sessions, status[s] = "finished"
  PROVE  status'[s] = "finished"
<1>1. ASSUME NEW r \in Requests, FinishSave(r)
      PROVE  status'[s] = status[s] \/ status'[s] = "finished"
  BY <1>1 DEF FinishSave, TypeOK
<1> QED
  BY <1>1, GradeFootprint DEF Next, Step

\* A finished session stays finished and, once the handlers admitted before the
\* finish are gone, its dialogue and its grade never change again.
THEOREM FinishedStaysSettled == Spec => FinishedSettles
<1> DEFINE Kept == \A s \in Sessions :
              /\ status[s] = "finished" => status'[s] = "finished"
              /\ Settled(s) => /\ Settled(s)'
                               /\ turns'[s] = turns[s]
                               /\ answerId'[s] = answerId[s]
<1>1. TypeOK /\ HandlerInv /\ [Next]_vars => [Kept]_vars
  BY SettledStep, FinishedStep DEF Next, Step
<1> QED
  BY <1>1, TypeCorrect, PTL DEF Spec, FinishedSettles

(***************************************************************************)
(* What the examiner had in view.                                          *)
(***************************************************************************)

\* An exchange leaves the prefixes of the dialogue it extends as they are.
LEMMA ExchangePrefix ==
  ASSUME NEW d \in Seq(Turn), NEW r \in Requests, NEW said \in Said, NEW i \in 1 .. Len(d)
  PROVE  SubSeq(Exchange(d, r, said), 1, i) = SubSeq(d, 1, i)
<1> DEFINE e == Exchange(d, r, said)
<1>1. /\ e \in Seq(Turn) /\ Len(e) = Len(d) + 2 /\ Len(d) \in Nat
      /\ \A j \in 1 .. Len(d) : e[j] = d[j]
  BY ExchangeShape, LenProperties
<1>2. \A j \in 1 .. i : d[j] \in Turn /\ e[j] \in Turn
  BY <1>1, ElementOfSeq
<1> HIDE DEF e
<1>3. /\ SubSeq(d, 1, i) \in Seq(Turn) /\ Len(SubSeq(d, 1, i)) = i
      /\ \A j \in 1 .. i : SubSeq(d, 1, i)[j] = d[j]
  BY <1>2, SubSeqProperties
<1>4. /\ SubSeq(e, 1, i) \in Seq(Turn) /\ Len(SubSeq(e, 1, i)) = i
      /\ \A j \in 1 .. i : SubSeq(e, 1, i)[j] = e[j]
  BY <1>2, SubSeqProperties
<1>5. SubSeq(e, 1, i) = SubSeq(d, 1, i)
  BY <1>1, <1>3, <1>4, SeqEqual
<1> QED
  BY <1>5 DEF e

\* A dialogue every reply of which was composed in view of what precedes it,
\* by a request that has saved it, and which the examiner spoke last in.
Coherent(d) ==
  /\ d # <<>> => d[Len(d)].role = "examiner"
  /\ \A i \in 2 .. Len(d) :
       d[i].role = "examiner" =>
         /\ pc[d[i].by] \in {"turn_refresh", "done"}
         /\ heard[d[i].by] \in Said
         /\ SubSeq(d, 1, i) = Exchange(snapshot[d[i].by], d[i].by, heard[d[i].by])

\* Dialogues on record are coherent, and so are the ones turns build on.
CoherenceInv ==
  /\ \A s \in Sessions : Coherent(turns[s])
  /\ \A r \in Requests : pc[r] \in Talking => Coherent(snapshot[r])

\* A coherent dialogue stays so: what its replies' requests loaded and heard
\* is never touched again.
LEMMA CoherentStays ==
  ASSUME TypeOK, NEW r \in Requests, Step(r), NEW d \in Seq(Turn), Coherent(d)
  PROVE  Coherent(d)'
<1> SUFFICES ASSUME NEW q \in Requests, pc[q] \in {"turn_refresh", "done"}
             PROVE  /\ pc'[q] \in {"turn_refresh", "done"}
                    /\ snapshot'[q] = snapshot[q] /\ heard'[q] = heard[q]
  <2>1. \A i \in 2 .. Len(d) : d[i] \in Turn
    BY ElementOfSeq, LenProperties
  <2>2. \A i \in 2 .. Len(d) : d[i].by \in Requests
    BY <2>1 DEF Turn
  <2> QED
    BY <2>2 DEF Coherent
<1>1. CASE q # r
  BY <1>1, StepIsIsolated DEF Isolated
<1>2. CASE q = r
  BY <1>2 DEF Step, Arrive, Serve, StartRequest, StartUser, StartTalk, StartSave, TurnRequest,
     TurnTalk, TurnSave, FinishRequest, FinishGrade, FinishSave, Respond, ReadRequest, Lose,
     Refreshing, Starting, Working, Talking, Grading, Rollback, locals, Reply, TypeOK
<1> QED
  BY <1>1, <1>2

LEMMA CoherenceStep ==
  TypeOK /\ HandlerInv /\ CoherenceInv /\ [Next]_vars => CoherenceInv'
<1> SUFFICES ASSUME TypeOK, HandlerInv, CoherenceInv, [Next]_vars PROVE CoherenceInv'
  OBVIOUS
<1>1. CASE UNCHANGED vars
  BY <1>1 DEF CoherenceInv, Coherent, vars, rows, locals
<1>2. ASSUME NEW r \in Requests, Step(r) PROVE CoherenceInv'
  <2>1. \A s \in Sessions : Coherent(turns[s]) /\ turns[s] \in Seq(Turn)
    BY DEF CoherenceInv, TypeOK
  <2>2. ASSUME NEW d \in Seq(Turn), Coherent(d) PROVE Coherent(d)'
    BY <1>2, <2>2, CoherentStays
  <2>3. ASSUME NEW q \in Requests, pc'[q] \in Talking PROVE Coherent(snapshot[q])'
    <3>1. CASE pc[q] \in Talking /\ snapshot'[q] = snapshot[q]
      <4> DEFINE d == snapshot[q]
      <4>1. d \in Seq(Turn) /\ Coherent(d)
        BY <3>1 DEF CoherenceInv, TypeOK
      <4>2. ASSUME NEW c \in Seq(Turn), c = d PROVE Coherent(c)'
        BY <2>2, <4>1, <4>2
      <4> QED
        BY <3>1, <4>1, <4>2
    <3>2. CASE \E s \in Sessions : snapshot'[q] = turns[s]
      <4>1. PICK s \in Sessions : snapshot'[q] = turns[s]
        BY <3>2
      <4>2. ASSUME NEW c \in Seq(Turn), c = turns[s] PROVE Coherent(c)'
        BY <2>1, <2>2, <4>2
      <4> QED
        BY <2>1, <4>1, <4>2
    <3>3. CASE q # r
      BY <1>2, <2>3, <3>1, <3>3, StepIsIsolated DEF Isolated
    <3>4. CASE q = r
      <4>1. \/ pc[r] \in Talking /\ snapshot'[r] = snapshot[r]
            \/ \E s \in Sessions : snapshot'[r] = turns[s]
        BY <1>2, <2>3, <3>4
           DEF Step, Arrive, Serve, StartRequest, StartUser, StartTalk, StartSave, TurnRequest,
           TurnTalk, TurnSave, FinishRequest, FinishGrade, FinishSave, Respond, ReadRequest, Lose,
           Refreshing, Starting, Working, Talking, Grading, Rollback, locals, Goto, Reply, TypeOK
      <4> QED
        BY <3>1, <3>2, <3>4, <4>1
    <3> QED
      BY <3>3, <3>4
  <2>4. ASSUME NEW s \in Sessions PROVE Coherent(turns[s])'
    <3>1. CASE turns'[s] = turns[s]
      <4>1. ASSUME NEW c \in Seq(Turn), c = turns[s] PROVE Coherent(c)'
        BY <2>1, <2>2, <4>1
      <4> QED
        BY <2>1, <3>1, <4>1
    <3>2. CASE turns'[s] = <<Examiner(r)>>
      BY <3>2 DEF Coherent, Examiner
    <3>3. CASE TurnSave(r) /\ turns'[s] = Exchange(snapshot[r], r, heard[r])
      <4> DEFINE d == snapshot[r]
                 e == Exchange(d, r, heard[r])
      <4>1. /\ pc[r] = "turn_save" /\ pc'[r] = "turn_refresh"
            /\ snapshot' = snapshot /\ heard' = heard
            /\ heard[r] \in Said /\ d \in Seq(Turn) /\ Coherent(d)
        BY <3>3 DEF TurnSave, Goto, locals, HandlerInv, CoherenceInv, Talking, TypeOK
      <4>2. /\ e \in Seq(Turn) /\ Len(e) = Len(d) + 2 /\ Len(d) \in Nat
            /\ \A i \in 1 .. Len(d) : e[i] = d[i]
            /\ e[Len(d) + 1] = Candidate(r, heard[r])
            /\ e[Len(d) + 2] = Examiner(r)
        BY <4>1, ExchangeShape, LenProperties
      <4>3. ASSUME NEW c \in Seq(Turn), c = d PROVE Coherent(c)'
        BY <2>2, <4>1, <4>3
      <4>4. Coherent(d)'
        BY <4>1, <4>3
      <4>5. ASSUME NEW i \in 2 .. Len(d), e[i].role = "examiner"
            PROVE  /\ pc'[e[i].by] \in {"turn_refresh", "done"}
                   /\ heard[e[i].by] \in Said
                   /\ SubSeq(e, 1, i) = Exchange(snapshot[e[i].by], e[i].by, heard[e[i].by])
        <5>1. e[i] = d[i] /\ SubSeq(e, 1, i) = SubSeq(d, 1, i)
          BY <4>1, <4>2, ExchangePrefix
        <5> QED
          BY <4>1, <4>4, <4>5, <5>1 DEF Coherent
      <4>6. e[Len(d) + 1].role = "candidate"
        BY <4>2 DEF Candidate
      <4>7. /\ e[Len(e)].role = "examiner" /\ e[Len(e)].by = r
            /\ SubSeq(e, 1, Len(e)) = e
        BY <4>2, SubSeqFull DEF Examiner
      <4>8. turns'[s] = e
        BY <3>3
      <4>9. \A i \in 2 .. Len(e) : i \in 2 .. Len(d) \/ i = Len(d) + 1 \/ i = Len(e)
        BY <4>2
      <4> HIDE DEF e
      <4>10. \A i \in 2 .. Len(e) : e[i].role = "examiner" =>
               /\ pc'[e[i].by] \in {"turn_refresh", "done"}
               /\ heard'[e[i].by] \in Said
               /\ SubSeq(e, 1, i) = Exchange(snapshot'[e[i].by], e[i].by, heard'[e[i].by])
        <5>1. e = Exchange(snapshot[r], r, heard[r])
          BY DEF e
        <5> QED
          BY <4>1, <4>5, <4>6, <4>7, <4>9, <5>1
      <4> QED
        BY <4>7, <4>8, <4>10 DEF Coherent
    <3> QED
      <4>1. \/ turns'[s] = turns[s]
            \/ turns'[s] = <<Examiner(r)>>
            \/ TurnSave(r) /\ turns'[s] = Exchange(snapshot[r], r, heard[r])
        BY <1>2
           DEF Step, Arrive, Serve, StartRequest, StartUser, StartTalk, StartSave, TurnRequest,
           TurnTalk, TurnSave, FinishRequest, FinishGrade, FinishSave, Respond, ReadRequest, Lose,
           Rollback, rows, TypeOK
      <4> QED
        BY <3>1, <3>2, <3>3, <4>1
  <2> QED
    BY <2>3, <2>4 DEF CoherenceInv
<1> QED
  BY <1>1, <1>2 DEF Next, Step

LEMMA Coherence == Spec => []CoherenceInv
<1>1. Init => CoherenceInv
  BY EmptySeq DEF Init, CoherenceInv, Coherent, Talking
<1> QED
  BY <1>1, TypeCorrect, CoherenceStep, PTL DEF Spec

\* Every examiner reply on record was composed with exactly the dialogue that
\* precedes it in view, although concurrent turns overwrite each other.
THEOREM RepliesInContext == Spec => []RepliesSawTheirContext
<1>1. CoherenceInv => RepliesSawTheirContext
  BY DEF CoherenceInv, Coherent, RepliesSawTheirContext
<1> QED
  BY <1>1, Coherence, PTL

(***************************************************************************)
(* The turn cap.                                                           *)
(***************************************************************************)

\* An exchange adds one to the count the cap looks at.
LEMMA ExchangeCounts ==
  ASSUME NEW d \in Seq(Turn), NEW r \in Requests, NEW said \in Said
  PROVE  /\ CountCandidate(d) \in Nat
         /\ CountCandidate(Exchange(d, r, said)) = CountCandidate(d) + 1
<1> DEFINE e == Exchange(d, r, said)
           C(x) == {j \in DOMAIN x : x[j].role = "candidate"}
<1>1. /\ e \in Seq(Turn) /\ Len(e) = Len(d) + 2 /\ Len(d) \in Nat
      /\ \A j \in 1 .. Len(d) : e[j] = d[j]
      /\ e[Len(d) + 1] = Candidate(r, said) /\ e[Len(d) + 2] = Examiner(r)
  BY ExchangeShape, LenProperties
<1>2. DOMAIN d = 1 .. Len(d) /\ DOMAIN e = 1 .. Len(d) + 2
  BY <1>1, LenProperties
<1>3. e[Len(d) + 1].role = "candidate" /\ e[Len(d) + 2].role = "examiner"
  BY <1>1 DEF Candidate, Examiner
<1> HIDE DEF e
<1>4. C(e) = C(d) \cup {Len(d) + 1} /\ Len(d) + 1 \notin C(d)
  BY <1>1, <1>2, <1>3
<1>5. IsFiniteSet(C(d))
  <2>1. IsFiniteSet(1 .. Len(d))
    BY <1>1, FS_Interval
  <2> QED
    BY <1>2, <2>1, FS_Subset
<1>6. Cardinality(C(d)) \in Nat /\ Cardinality(C(e)) = Cardinality(C(d)) + 1
  BY <1>4, <1>5, FS_AddElement, FS_CardinalityType
<1>7. DOMAIN CandidateTurns(d) = C(d) /\ DOMAIN CandidateTurns(e) = C(e)
  BY DEF CandidateTurns
<1> QED
  BY <1>6, <1>7 DEF CountCandidate, e

\* Whoever heard the answer that reaches the cap says so.
VerdictInv == \A r \in Requests : heard[r] # "none" /\ MustEnd(snapshot[r]) => ended[r]

LEMMA VerdictStep == TypeOK /\ HandlerInv /\ VerdictInv /\ [Next]_vars => VerdictInv'
<1> SUFFICES ASSUME TypeOK, HandlerInv, VerdictInv, [Next]_vars PROVE VerdictInv'
  OBVIOUS
<1>1. CASE UNCHANGED vars
  BY <1>1 DEF VerdictInv, MustEnd, vars, locals
<1>2. ASSUME NEW r \in Requests, Step(r), NEW q \in Requests,
             heard'[q] # "none", MustEnd(snapshot'[q])
      PROVE  ended'[q]
  <2>1. CASE q # r
    BY <1>2, <2>1, StepIsIsolated DEF Isolated, VerdictInv
  <2>2. CASE q = r
    <3>1. CASE heard'[r] = heard[r] /\ snapshot'[r] = snapshot[r] /\ ended'[r] = ended[r]
      BY <1>2, <2>2, <3>1 DEF VerdictInv
    <3>2. CASE pc[r] = "new" /\ heard'[r] = heard[r]
      BY <1>2, <2>2, <3>2 DEF HandlerInv
    <3>3. ASSUME NEW said \in Said, NEW shouldEnd \in BOOLEAN,
                 ended' = [ended EXCEPT ![r] = shouldEnd \/ MustEnd(snapshot[r])],
                 UNCHANGED snapshot
          PROVE  ended'[q]
      BY <1>2, <2>2, <3>3, Zenon DEF TypeOK
    <3> QED
      BY <1>2, <3>1, <3>2, <3>3
         DEF Step, Arrive, Serve, StartRequest, StartUser, StartTalk, StartSave, TurnRequest,
         TurnTalk, TurnSave, FinishRequest, FinishGrade, FinishSave, Respond, ReadRequest, Lose,
         Rollback, locals, TypeOK
  <2> QED
    BY <2>1, <2>2
<1> QED
  BY <1>1, <1>2 DEF Next, Step, VerdictInv, MustEnd

\* The request that put the answer reaching the cap on record, or one beyond
\* it, was told that the interview is over.
THEOREM CapAnnounced == Spec => []CapIsAnnounced
<1>1. TypeOK /\ CoherenceInv /\ VerdictInv => CapIsAnnounced
  <2> SUFFICES ASSUME TypeOK, CoherenceInv, VerdictInv, NEW s \in Sessions,
                      CountCandidate(turns[s]) >= MaxCandidateTurns
               PROVE  ended[turns[s][Len(turns[s])].by]
    BY DEF CapIsAnnounced
  <2> DEFINE d == turns[s]
             r == d[Len(d)].by
  <2>1. d \in Seq(Turn) /\ Len(d) \in Nat /\ DOMAIN d = 1 .. Len(d) /\ Coherent(d)
    BY LenProperties DEF TypeOK, CoherenceInv
  <2>2. Len(d) >= 2
    <3> SUFFICES ASSUME ~(Len(d) >= 2) PROVE FALSE
      OBVIOUS
    <3>1. Len(d) = 0 \/ Len(d) = 1
      <4>1. \A n \in Nat : n >= 2 \/ n = 0 \/ n = 1
        OBVIOUS
      <4>2. Len(d) \in Nat
        BY <2>1
      <4> HIDE DEF d
      <4> QED
        BY <4>1, <4>2
    <3>2. Len(d) = 1 => d[1].role = "examiner"
      BY <2>1 DEF Coherent
    <3>3. DOMAIN CandidateTurns(d) = {}
      BY <2>1, <3>1, <3>2 DEF CandidateTurns
    <3>4. CountCandidate(d) = 0
      BY <3>3, FS_EmptySet DEF CountCandidate
    <3> QED
      BY <3>4, CapIsPositive
  <2>3. d[Len(d)] \in Turn /\ d # <<>>
    BY <2>1, <2>2, ElementOfSeq
  <2>4. /\ r \in Requests /\ heard[r] \in Said
        /\ SubSeq(d, 1, Len(d)) = Exchange(snapshot[r], r, heard[r])
    BY <2>1, <2>2, <2>3 DEF Coherent, Turn
  <2>5. d = Exchange(snapshot[r], r, heard[r])
    BY <2>1, <2>4, SubSeqFull
  <2>6. snapshot[r] \in Seq(Turn)
    BY <2>4 DEF TypeOK
  <2> HIDE DEF r
  <2>7. MustEnd(snapshot[r])
    BY <2>4, <2>5, <2>6, ExchangeCounts, CapIsPositive DEF MustEnd
  <2> QED
    BY <2>4, <2>7 DEF VerdictInv, Said, r
<1>2. Init => VerdictInv
  BY DEF Init, VerdictInv
<1> QED
  BY <1>1, <1>2, TypeCorrect, Coherence, VerdictStep, PTL DEF Spec

(***************************************************************************)
(* Waiting.                                                                *)
(***************************************************************************)

Starters == {r \in Requests : pc[r] \in Starting}
Unused == {s \in Sessions : status[s] = "none"}

\* The guards of Serve(r), one by one: the insert of the user waits for another
\* uncommitted one, a new session needs an id, a refresh needs a connection.
Ready(r) ==
  /\ pc[r] \in Working
  /\ pc[r] = "start_user" => inserter = None
  /\ pc[r] = "start_save" => Unused # {}
  /\ pc[r] \in Refreshing => ConnectionIsFree

\* r waits for what q holds.
WaitsFor(r, q) ==
  \/ pc[r] = "start_user" /\ inserter = q
  \/ pc[r] \in Refreshing /\ ~ConnectionIsFree /\ q \in Connected

\* Nobody waits for who waits: where one request is held up by what others hold,
\* one of these can go on.
NobodyIsStuck ==
  \A r \in Requests : pc[r] \in Working /\ ~Ready(r) =>
    \E q \in Requests : WaitsFor(r, q) /\ Ready(q)

\* Whoever has the uncommitted insert is past it and waits for nobody, and there
\* is an id for whoever is starting a session.
WaitInv ==
  /\ inserter # None => pc[inserter] \in {"start_talk", "start_save"}
  /\ IsFiniteSet(Starters) /\ IsFiniteSet(Unused)
  /\ Cardinality(Starters) <= Cardinality(Unused)

\* A request that goes on leaves no uncommitted insert behind.
LEMMA InserterStep ==
  ASSUME TypeOK, WaitInv, NEW r \in Requests, Step(r)
  PROVE  inserter' # None => pc'[inserter'] \in {"start_talk", "start_save"}
<1> DEFINE Goal == inserter' # None => pc'[inserter'] \in {"start_talk", "start_save"}
<1> USE NoneIsNoId DEF TypeOK, WaitInv, Goto, Reply, Rollback, rows, user, locals,
                       Working, Starting, Talking, Grading, Refreshing
<1>1. CASE StartRequest(r)
  BY <1>1 DEF StartRequest
<1>2. CASE StartUser(r)
  BY <1>2 DEF StartUser
<1>3. CASE StartTalk(r)
  BY <1>3 DEF StartTalk
<1>4. CASE StartSave(r)
  BY <1>4 DEF StartSave
<1>5. ASSUME NEW s \in Sessions, TurnRequest(r, s) PROVE Goal
  BY <1>5 DEF TurnRequest
<1>6. CASE TurnTalk(r)
  BY <1>6 DEF TurnTalk
<1>7. CASE TurnSave(r)
  BY <1>7 DEF TurnSave
<1>8. ASSUME NEW s \in Sessions, FinishRequest(r, s) PROVE Goal
  BY <1>8 DEF FinishRequest
<1>9. CASE FinishGrade(r)
  BY <1>9 DEF FinishGrade
<1>10. CASE FinishSave(r)
  BY <1>10 DEF FinishSave
<1>11. CASE Respond(r)
  BY <1>11 DEF Respond
<1>12. ASSUME NEW s \in Sessions, ReadRequest(r, s) PROVE Goal
  BY <1>12 DEF ReadRequest
<1>13. CASE Lose(r)
  BY <1>13 DEF Lose
<1> QED
  BY <1>1, <1>2, <1>3, <1>4, <1>5, <1>6, <1>7, <1>8, <1>9, <1>10, <1>11, <1>12, <1>13
     DEF Step, Arrive, Serve

\* Only StartRequest adds a starter, only StartSave uses an id.
LEMMA StarterFootprint ==
  ASSUME TypeOK, HandlerInv, NEW r \in Requests, Step(r), ~StartRequest(r), ~StartSave(r)
  PROVE  Unused' = Unused /\ Starters' \subseteq Starters
<1> DEFINE Goal == /\ \A s \in Sessions : status'[s] = "none" <=> status[s] = "none"
                   /\ pc'[r] \in Starting => pc[r] \in Starting
<1> USE DEF TypeOK, HandlerInv, Goto, Reply, Rollback, rows, user, locals,
            Working, Starting, Talking, Grading, Refreshing
<1>1. ASSUME StartUser(r) PROVE Goal
  BY <1>1 DEF StartUser
<1>2. ASSUME StartTalk(r) PROVE Goal
  BY <1>2 DEF StartTalk
<1>3. ASSUME NEW s \in Sessions, TurnRequest(r, s) PROVE Goal
  BY <1>3 DEF TurnRequest
<1>4. ASSUME TurnTalk(r) PROVE Goal
  BY <1>4 DEF TurnTalk
<1>5. ASSUME TurnSave(r) PROVE Goal
  BY <1>5 DEF TurnSave
<1>6. ASSUME NEW s \in Sessions, FinishRequest(r, s) PROVE Goal
  BY <1>6 DEF FinishRequest
<1>7. ASSUME FinishGrade(r) PROVE Goal
  BY <1>7 DEF FinishGrade
<1>8. ASSUME FinishSave(r) PROVE Goal
  BY <1>8 DEF FinishSave
<1>9. ASSUME Respond(r) PROVE Goal
  BY <1>9 DEF Respond
<1>10. ASSUME NEW s \in Sessions, ReadRequest(r, s) PROVE Goal
  BY <1>10 DEF ReadRequest
<1>11. ASSUME Lose(r) PROVE Goal
  BY <1>11 DEF Lose
<1>12. Goal
  BY <1>1, <1>2, <1>3, <1>4, <1>5, <1>6, <1>7, <1>8, <1>9, <1>10, <1>11
     DEF Step, Arrive, Serve
<1> QED
  BY <1>12, StepIsIsolated DEF Isolated, Unused, Starters

\* Ids are taken one by one and starters admitted only while ids last.
LEMMA IdsStep ==
  ASSUME TypeOK, HandlerInv, WaitInv, NEW r \in Requests, Step(r)
  PROVE  /\ IsFiniteSet(Starters') /\ IsFiniteSet(Unused')
         /\ Cardinality(Starters') <= Cardinality(Unused')
<1>1. /\ IsFiniteSet(Starters) /\ IsFiniteSet(Unused)
      /\ Cardinality(Starters) \in Nat /\ Cardinality(Unused) \in Nat
      /\ Cardinality(Starters) <= Cardinality(Unused)
  BY FS_CardinalityType DEF WaitInv
<1>2. CASE StartRequest(r)
  <2>1. Cardinality(Starters) < Cardinality(Unused)
    BY <1>2 DEF StartRequest, IdIsLeft, Starters, Unused
  <2>2. Unused' = Unused
    BY <1>2 DEF StartRequest, Unused, rows
  <2>3. Starters' \subseteq Starters \cup {r}
    <3>1. \A q \in Requests \ {r} : pc'[q] = pc[q]
      BY StepIsIsolated DEF Isolated
    <3> QED
      BY <3>1 DEF Starters
  <2>4. /\ IsFiniteSet(Starters \cup {r})
        /\ Cardinality(Starters \cup {r}) <= Cardinality(Starters) + 1
        /\ Cardinality(Starters \cup {r}) \in Nat
    <3>1. /\ IsFiniteSet(Starters \cup {r})
          /\ \/ Cardinality(Starters \cup {r}) = Cardinality(Starters)
             \/ Cardinality(Starters \cup {r}) = Cardinality(Starters) + 1
      BY <1>1, FS_AddElement
    <3> QED
      BY <1>1, <3>1
  <2>5. IsFiniteSet(Starters') /\ Cardinality(Starters') <= Cardinality(Starters \cup {r})
    BY <2>3, <2>4, FS_Subset
  <2>6. Cardinality(Starters') \in Nat
    BY <2>5, FS_CardinalityType
  <2> QED
    BY <1>1, <2>1, <2>2, <2>4, <2>5, <2>6
<1>3. CASE StartSave(r)
  <2>1. PICK s \in Sessions : status[s] = "none" /\ status' = [status EXCEPT ![s] = "active"]
    BY <1>3 DEF StartSave
  <2>2. s \in Unused /\ Unused' = Unused \ {s}
    BY <2>1 DEF TypeOK, Unused
  <2>3. r \in Starters /\ Starters' = Starters \ {r}
    <3>1. \A q \in Requests \ {r} : pc'[q] = pc[q]
      BY StepIsIsolated DEF Isolated
    <3>2. pc[r] = "start_save" /\ pc'[r] = "start_refresh"
      BY <1>3 DEF StartSave, Goto, TypeOK
    <3> QED
      BY <3>1, <3>2 DEF Starters, Starting
  <2>4. /\ IsFiniteSet(Unused \ {s})
        /\ Cardinality(Unused \ {s}) = Cardinality(Unused) - 1
    BY <1>1, <2>2, FS_RemoveElement
  <2>5. /\ IsFiniteSet(Starters \ {r})
        /\ Cardinality(Starters \ {r}) = Cardinality(Starters) - 1
    BY <1>1, <2>3, FS_RemoveElement
  <2> QED
    BY <1>1, <2>2, <2>3, <2>4, <2>5
<1>4. CASE ~StartRequest(r) /\ ~StartSave(r)
  <2>1. Unused' = Unused /\ Starters' \subseteq Starters
    BY <1>4, StarterFootprint
  <2>2. IsFiniteSet(Starters') /\ Cardinality(Starters') <= Cardinality(Starters)
    BY <1>1, <2>1, FS_Subset
  <2>3. Cardinality(Starters') \in Nat
    BY <2>2, FS_CardinalityType
  <2> QED
    BY <1>1, <2>1, <2>2, <2>3
<1> QED
  BY <1>2, <1>3, <1>4

\* A held-up handler waits for one that is not: the transaction with the user
\* insert has its connection already, and of those that keep the pool empty one
\* has no lock to wait for (answers.py:56-65, db.py:20-32).
THEOREM WaitingEnds == IsFiniteSet(Sessions) => (Spec => []NobodyIsStuck)
<1> SUFFICES ASSUME IsFiniteSet(Sessions) PROVE Spec => []NobodyIsStuck
  OBVIOUS
<1>1. Init => WaitInv
  <2> SUFFICES ASSUME Init PROVE WaitInv
    OBVIOUS
  <2>1. Starters = {}
    BY DEF Init, Starters, Starting
  <2>2. IsFiniteSet(Unused)
    BY FS_Subset DEF Unused
  <2>3. IsFiniteSet(Starters) /\ Cardinality(Starters) = 0 /\ Cardinality(Unused) \in Nat
    BY <2>1, <2>2, FS_EmptySet, FS_CardinalityType
  <2> QED
    BY <2>2, <2>3 DEF Init, WaitInv
<1>2. TypeOK /\ HandlerInv /\ WaitInv /\ [Next]_vars => WaitInv'
  <2> SUFFICES ASSUME TypeOK, HandlerInv, WaitInv, [Next]_vars PROVE WaitInv'
    OBVIOUS
  <2>1. ASSUME NEW r \in Requests, Step(r) PROVE WaitInv'
    BY <2>1, InserterStep, IdsStep DEF WaitInv
  <2>2. CASE UNCHANGED vars
    BY <2>2 DEF vars, rows, user, WaitInv, Starters, Unused
  <2> QED
    BY <2>1, <2>2 DEF Next, Step
<1>3. TypeOK /\ WaitInv => NobodyIsStuck
  <2> SUFFICES ASSUME TypeOK, WaitInv, NEW r \in Requests, pc[r] \in Working, ~Ready(r)
               PROVE  \E q \in Requests : WaitsFor(r, q) /\ Ready(q)
    BY DEF NobodyIsStuck
  <2>1. ASSUME NEW q \in Requests, pc[q] = "start_save" PROVE Unused # {}
    <3>1. q \in Starters
      BY <2>1 DEF Starters, Starting
    <3>2. Cardinality(Starters) # 0
      BY <3>1, FS_EmptySet DEF WaitInv
    <3>3. Cardinality(Unused) # 0
      BY <3>2, FS_CardinalityType DEF WaitInv
    <3> QED
      BY <3>3, FS_EmptySet
  <2>2. CASE inserter # None
    <3>1. inserter \in Requests /\ pc[inserter] \in {"start_talk", "start_save"}
      BY <2>2 DEF TypeOK, WaitInv
    <3>2. Ready(inserter) /\ inserter \in Connected
      BY <2>1, <3>1 DEF Ready, Connected, Working, Starting, Refreshing
    <3>3. WaitsFor(r, inserter)
      BY <2>1, <3>2 DEF WaitsFor, Ready
    <3> QED
      BY <3>1, <3>2, <3>3
  <2>3. CASE inserter = None
    <3>1. pc[r] \in Refreshing /\ ~ConnectionIsFree
      BY <2>1, <2>3 DEF Ready
    <3>2. Connected # {}
      BY <3>1, FS_EmptySet, PoolSizeIsPositive DEF ConnectionIsFree
    <3>3. PICK q \in Requests : q \in Connected
      BY <3>2 DEF Connected
    <3>4. Ready(q)
      BY <2>1, <2>3, <3>3 DEF Ready, Connected
    <3> QED
      BY <3>1, <3>3, <3>4 DEF WaitsFor
  <2> QED
    BY <2>2, <2>3
<1> QED
  BY <1>1, <1>2, <1>3, TypeCorrect, PTL DEF Spec

=============================================================================
