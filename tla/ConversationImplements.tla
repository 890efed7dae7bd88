----------------------- MODULE ConversationImplements -----------------------
(***************************************************************************)
(* The conversational endpoints implement module Dialogue when requests    *)
(* for the same session do not overlap, for any sets of sessions and       *)
(* requests; and then the turn_index they return names the reply.          *)
(***************************************************************************)
EXTENDS ConversationProofs

\* A request that has loaded or saved a session and is still at work.
AtWork(r) == pc[r] \in Talking \cup Grading \cup Refreshing

\* One request at a time: a session has at most one at work, and while it is
\* between its load and its save the row is as it was loaded.
SerialInv ==
  /\ \A q, r \in Requests : AtWork(q) /\ AtWork(r) /\ target[q] = target[r] => q = r
  /\ \A r \in Requests : pc[r] \in Talking \cup Grading =>
       status[target[r]] = "active" /\ turns[target[r]] = snapshot[r]

\* A step of r keeps the others' sessions, unless r was at work on one or is
\* admitted to it.
LEMMA SerialStep ==
  ASSUME ~Overlap
  PROVE  TypeOK /\ HandlerInv /\ SerialInv /\ [Next]_vars => SerialInv'
<1> SUFFICES ASSUME TypeOK, HandlerInv, SerialInv, [Next]_vars PROVE SerialInv'
  OBVIOUS
<1>1. CASE UNCHANGED vars
  BY <1>1 DEF SerialInv, AtWork, vars, rows, locals
<1>2. ASSUME NEW r \in Requests, Step(r) PROVE SerialInv'
  <2>1. Isolated(r)
    BY <1>2, StepIsIsolated
  <2>2. \A q \in Requests \ {r} :
          AtWork(q) /\ AtWork(r)' => target[q] # target'[r]
    <3> SUFFICES ASSUME NEW q \in Requests \ {r}, AtWork(q), AtWork(r)', target[q] = target'[r]
                 PROVE  FALSE
      OBVIOUS
    <3>1. target[q] \in Sessions /\ status[target[q]] # "none"
      BY DEF HandlerInv, AtWork
    <3>2. CASE AtWork(r) /\ target'[r] = target[r]
      BY <3>2 DEF SerialInv
    <3>3. CASE StartSave(r)
      BY <3>1, <3>3 DEF StartSave, TypeOK
    <3>4. CASE \E s \in Sessions : Admitted(s) /\ target' = [target EXCEPT ![r] = s]
      BY <3>4 DEF Admitted, AtWork, Working, TypeOK
    <3> QED
      BY <1>2, <3>2, <3>3, <3>4
         DEF Step, Arrive, Serve, StartRequest, StartUser, StartTalk, TurnRequest, TurnTalk,
         TurnSave, FinishRequest, FinishGrade, FinishSave, Respond, ReadRequest, Lose, Goto,
         Reply, AtWork, Talking, Grading, Refreshing, Starting, Working, locals, TypeOK
  <2>3. \A q, p \in Requests : (AtWork(q) /\ AtWork(p) /\ target[q] = target[p] => q = p)'
    BY <2>1, <2>2 DEF Isolated, SerialInv, AtWork
  <2>4. ASSUME NEW q \in Requests, pc'[q] \in Talking \cup Grading
        PROVE  status'[target'[q]] = "active" /\ turns'[target'[q]] = snapshot'[q]
    <3>1. CASE q # r
      <4>1. /\ pc[q] \in Talking \cup Grading /\ target'[q] = target[q]
            /\ snapshot'[q] = snapshot[q] /\ target[q] \in Sessions
            /\ status[target[q]] = "active" /\ turns[target[q]] = snapshot[q]
        BY <2>1, <2>4, <3>1 DEF Isolated, HandlerInv, SerialInv
      <4>2. AtWork(r) => target[r] # target[q]
        BY <3>1, <4>1 DEF SerialInv, AtWork
      <4>3. CASE StartSave(r)
        BY <4>1, <4>3 DEF StartSave, TypeOK
      <4>4. CASE TurnSave(r)
        BY <4>1, <4>2, <4>4 DEF TurnSave, AtWork, Talking, TypeOK
      <4>5. CASE FinishSave(r)
        BY <4>1, <4>2, <4>5 DEF FinishSave, AtWork, Grading, TypeOK
      <4>6. CASE UNCHANGED <<status, turns>>
        BY <4>1, <4>6
      <4> QED
        BY <1>2, <4>3, <4>4, <4>5, <4>6
           DEF Step, Arrive, Serve, StartRequest, StartUser, StartTalk, TurnRequest, TurnTalk,
           FinishRequest, FinishGrade, Respond, ReadRequest, Lose, Rollback, rows
    <3>2. CASE q = r
      <4>1. CASE /\ pc[r] \in Talking \cup Grading
                 /\ UNCHANGED <<status, turns, target, snapshot>>
        BY <3>2, <4>1 DEF SerialInv
      <4>2. CASE \E s \in Sessions :
                   /\ status[s] = "active" /\ target' = [target EXCEPT ![r] = s]
                   /\ snapshot' = [snapshot EXCEPT ![r] = turns[s]]
                   /\ UNCHANGED <<status, turns>>
        BY <3>2, <4>2 DEF TypeOK
      <4> QED
        BY <1>2, <2>4, <3>2, <4>1, <4>2
           DEF Step, Arrive, Serve, StartRequest, StartUser, StartTalk, StartSave, TurnRequest, TurnsWelcome,
           TurnTalk, TurnSave, FinishRequest, FinishGrade, FinishSave, Respond, ReadRequest, Lose,
           Goto, Reply, Talking, Grading, Refreshing, Starting, Working, Rollback, rows, locals, TypeOK
    <3> QED
      BY <3>1, <3>2
  <2> QED
    BY <2>3, <2>4 DEF SerialInv
<1> QED
  BY <1>1, <1>2 DEF Next, Step

\* Every step is a step of the promise, or none.
LEMMA DialogueStep ==
  ASSUME TypeOK, HandlerInv, GradeIsAtomic, SerialInv, [Next]_vars
  PROVE  [D!Next]_(D!vars)
<1> DEFINE G == [s \in Sessions |-> Grade(s)]
<1>1. CASE UNCHANGED <<status, turns, answerId, answers>>
  BY <1>1 DEF D!vars, Grade
<1>2. ASSUME NEW r \in Requests, StartSave(r) PROVE D!Next
  <2>1. PICK s \in Sessions : /\ status[s] = "none"
                              /\ status' = [status EXCEPT ![s] = "active"]
                              /\ turns' = [turns EXCEPT ![s] = <<Examiner(r)>>]
    BY <1>2 DEF StartSave
  <2>2. UNCHANGED <<answerId, answers>>
    BY <1>2 DEF StartSave
  <2>3. UNCHANGED G
    BY <2>2 DEF Grade
  <2> QED
    BY <2>1, <2>3 DEF D!Next, D!Open, D!Examiner, Examiner
<1>3. ASSUME NEW r \in Requests, TurnSave(r) PROVE D!Next
  <2>1. /\ target[r] \in Sessions /\ heard[r] \in Said
        /\ status[target[r]] = "active" /\ turns[target[r]] = snapshot[r]
        /\ turns' = [turns EXCEPT ![target[r]] = Exchange(snapshot[r], r, heard[r])]
    BY <1>3 DEF TurnSave, HandlerInv, SerialInv, Talking
  <2>2. UNCHANGED <<status, answerId, answers>>
    BY <1>3 DEF TurnSave
  <2>3. UNCHANGED G
    BY <2>2 DEF Grade
  <2>4. D!Speak(target[r])
    BY <2>1, <2>2, <2>3
       DEF D!Speak, D!Exchange, D!Candidate, D!Examiner, D!Said, Exchange, Candidate, Examiner,
       Said
  <2> QED
    BY <2>1, <2>4 DEF D!Next
<1>4. ASSUME NEW r \in Requests, FinishSave(r) PROVE D!Next
  <2>t. PICK t \in Sessions : t = target[r]
    BY <1>4 DEF FinishSave, HandlerInv, Grading
  <2>1. /\ t \in Sessions /\ status[t] = "active" /\ turns[t] = snapshot[r]
        /\ HasWords(snapshot[r]) /\ pc[r] = "finish_save"
    BY <1>4, <2>t DEF FinishSave, HandlerInv, SerialInv, Grading
  <2>2. /\ answers' = [answers EXCEPT ![r] = CandidateTurns(snapshot[r])]
        /\ status' = [status EXCEPT ![t] = "finished"]
        /\ answerId' = [answerId EXCEPT ![t] = r]
        /\ UNCHANGED turns
    BY <1>4, <2>t DEF FinishSave
  <2>3. \A s \in Sessions : answerId[s] # r
    BY <2>1, NoneIsNoId DEF GradeIsAtomic, HandlerInv
  <2>4. Grade(t)' = CandidateTurns(turns[t])
    BY <2>1, <2>2, NoneIsNoId DEF Grade, TypeOK
  <2>5. \A s \in Sessions \ {t} : Grade(s)' = Grade(s)
    BY <2>2, <2>3 DEF Grade, TypeOK
  <2>6. G' = [G EXCEPT ![t] = CandidateTurns(turns[t])]
    BY <2>1, <2>4, <2>5
  <2>7. D!Finish(t)
    BY <2>1, <2>2, <2>6
       DEF D!Finish, D!HasWords, D!CandidateTurns, HasWords, CandidateTurns
  <2> QED
    BY <2>1, <2>7 DEF D!Next
<1> QED
  BY <1>1, <1>2, <1>3, <1>4
     DEF Next, Arrive, Serve, StartRequest, StartUser, StartTalk, TurnRequest, TurnTalk,
     FinishRequest, FinishGrade, Respond, ReadRequest, Lose, Rollback, rows, vars

\* One request at a time per session, the endpoints keep the promise of module
\* Dialogue: the dialogue grows by whole exchanges while the session is active,
\* and is graded once, on all the candidate said.
THEOREM Implementation == ~Overlap => (Spec => ImplementsDialogue)
<1> SUFFICES ASSUME ~Overlap PROVE Spec => D!Spec
  BY DEF ImplementsDialogue
<1>1. Init => D!Init
  BY DEF Init, D!Init, Grade
<1>2. Init => SerialInv
  BY DEF Init, SerialInv, AtWork, Talking, Grading, Refreshing, Starting
<1>3. TypeOK /\ HandlerInv /\ SerialInv /\ [Next]_vars => SerialInv'
  BY SerialStep
<1>4. TypeOK /\ HandlerInv /\ GradeIsAtomic /\ SerialInv /\ [Next]_vars => [D!Next]_(D!vars)
  BY DialogueStep
<1> QED
  BY <1>1, <1>2, <1>3, <1>4, TypeCorrect, GradeAtomicity, PTL DEF Spec, D!Spec

(***************************************************************************)
(* The index a turn returns.                                               *)
(***************************************************************************)

\* The reply of r is where the index it returned says.
Named(r) ==
  /\ target[r] \in Sessions /\ status[target[r]] # "none"
  /\ turnIndex[r] + 1 \in 1 .. Len(turns[target[r]])
  /\ turns[target[r]][turnIndex[r] + 1] = Examiner(r)

\* Between its save and its refresh the reply of r is the last turn.
IndexInv ==
  \A r \in Requests :
    /\ pc[r] # "done" => code[r] # "ok"
    /\ pc[r] = "turn_refresh" =>
         /\ turns[target[r]] # <<>>
         /\ turns[target[r]][Len(turns[target[r]])] = Examiner(r)
    /\ code[r] = "ok" /\ heard[r] # "none" => Named(r)

\* A step of r leaves the responses of others.
LEMMA ResponsesStay ==
  ASSUME TypeOK, NEW r \in Requests, Step(r), NEW q \in Requests \ {r}
  PROVE  code'[q] = code[q] /\ turnIndex'[q] = turnIndex[q]
  BY DEF Step, Arrive, Serve, StartRequest, StartUser, StartTalk, StartSave, TurnRequest, TurnTalk,
     TurnSave, FinishRequest, FinishGrade, FinishSave, Respond, ReadRequest, Lose, Goto, Reply,
     Rollback, locals, TypeOK

\* A dialogue on record only gets longer: what is saved starts with what was loaded,
\* which is what is there.
LEMMA DialogueGrows ==
  ASSUME TypeOK, HandlerInv, SerialInv, NEW r \in Requests, Step(r),
         NEW s \in Sessions, status[s] # "none"
  PROVE  /\ Len(turns[s]) \in Nat /\ Len(turns'[s]) \in Nat /\ Len(turns[s]) <= Len(turns'[s])
         /\ \A i \in 1 .. Len(turns[s]) : turns'[s][i] = turns[s][i]
         /\ turns'[s] # turns[s] => TurnSave(r) /\ s = target[r]
<1>0. turns[s] \in Seq(Turn) /\ Len(turns[s]) \in Nat
  BY LenProperties DEF TypeOK
<1>1. CASE turns'[s] = turns[s]
  BY <1>0, <1>1
<1>2. CASE TurnSave(r) /\ s = target[r]
  <2>1. turns[s] = snapshot[r] /\ heard[r] \in Said
    BY <1>2 DEF TurnSave, HandlerInv, SerialInv, Talking
  <2>2. turns'[s] = Exchange(turns[s], r, heard[r])
    BY <1>2, <2>1 DEF TurnSave, TypeOK
  <2>3. /\ Len(Exchange(turns[s], r, heard[r])) = Len(turns[s]) + 2
        /\ \A i \in 1 .. Len(turns[s]) : Exchange(turns[s], r, heard[r])[i] = turns[s][i]
    BY <1>0, <2>1, ExchangeShape
  <2> QED
    BY <1>0, <1>2, <2>2, <2>3
<1>3. CASE TurnSave(r) /\ s # target[r]
  BY <1>1, <1>3 DEF TurnSave, TypeOK
<1>4. CASE StartSave(r)
  BY <1>1, <1>4 DEF StartSave, TypeOK
<1>5. CASE UNCHANGED turns
  BY <1>1, <1>5
<1> QED
  BY <1>2, <1>3, <1>4, <1>5
     DEF Step, Arrive, Serve, StartRequest, StartUser, StartTalk, TurnRequest, TurnTalk,
     FinishRequest, FinishGrade, FinishSave, Respond, ReadRequest, Lose, Rollback, rows

\* What a step of r leaves of the index another request returned, or will.
LEMMA OthersIndices ==
  ASSUME TypeOK, HandlerInv, SerialInv, IndexInv, NEW r \in Requests, Step(r),
         NEW q \in Requests \ {r}
  PROVE  /\ pc'[q] # "done" => code'[q] # "ok"
         /\ pc'[q] = "turn_refresh" =>
              /\ turns'[target'[q]] # <<>>
              /\ turns'[target'[q]][Len(turns'[target'[q]])] = Examiner(q)
         /\ code'[q] = "ok" /\ heard'[q] # "none" => Named(q)'
<1>1. Isolated(r) /\ code'[q] = code[q] /\ turnIndex'[q] = turnIndex[q]
  BY StepIsIsolated, ResponsesStay
<1>2. /\ pc'[q] = pc[q] /\ target'[q] = target[q] /\ heard'[q] = heard[q]
      /\ \A s \in Sessions : status[s] # "none" => status'[s] # "none"
  BY <1>1 DEF Isolated
<1>3. ASSUME pc[q] = "turn_refresh"
      PROVE  turns'[target[q]] = turns[target[q]]
  <2>1. target[q] \in Sessions /\ status[target[q]] # "none"
    BY <1>3 DEF HandlerInv, Refreshing
  <2>2. TurnSave(r) => target[r] # target[q]
    BY <1>3 DEF TurnSave, SerialInv, AtWork, Talking, Refreshing
  <2> QED
    BY <2>1, <2>2, DialogueGrows
<1>4. ASSUME Named(q) PROVE Named(q)'
  <2> DEFINE s == target[q]
  <2>1. s \in Sessions /\ status[s] # "none" /\ turnIndex[q] + 1 \in 1 .. Len(turns[s])
        /\ turns[s][turnIndex[q] + 1] = Examiner(q)
    BY <1>4 DEF Named
  <2>2. /\ Len(turns[s]) \in Nat /\ Len(turns'[s]) \in Nat /\ Len(turns[s]) <= Len(turns'[s])
        /\ turns'[s][turnIndex[q] + 1] = Examiner(q)
    BY <2>1, DialogueGrows
  <2>3. turnIndex[q] + 1 \in 1 .. Len(turns'[s])
    BY <2>1, <2>2
  <2> QED
    BY <1>1, <1>2, <2>1, <2>2, <2>3 DEF Named
<1> QED
  BY <1>1, <1>2, <1>3, <1>4 DEF IndexInv

\* A request that steps has not been answered, and only the save of its turn and
\* its refresh bring it to an answer of /turn.
LEMMA OnTheWay ==
  ASSUME TypeOK, HandlerInv, IndexInv, NEW r \in Requests, Step(r)
  PROVE  /\ pc[r] # "done" /\ code[r] # "ok"
         /\ ~TurnSave(r) /\ ~Respond(r) =>
              /\ pc'[r] # "turn_refresh"
              /\ code'[r] # "ok" \/ (pc'[r] = "done" /\ heard'[r] = "none")
<1>1. pc[r] # "done" /\ code[r] # "ok"
  BY DEF IndexInv, Step, Arrive, Serve, StartRequest, StartUser, StartTalk, StartSave, TurnRequest,
     TurnTalk, TurnSave, FinishRequest, FinishGrade, FinishSave, Respond, ReadRequest, Lose,
     Working, Refreshing, Talking, Grading, Starting
<1>2. ASSUME ~TurnSave(r), ~Respond(r)
      PROVE  /\ pc'[r] # "turn_refresh"
             /\ code'[r] # "ok" \/ (pc'[r] = "done" /\ heard'[r] = "none")
  <2>1. pc'[r] # "turn_refresh"
    BY <1>1, <1>2 DEF Step, Arrive, Serve, StartRequest, StartUser, StartTalk, StartSave, TurnRequest,
       TurnTalk, FinishRequest, FinishGrade, FinishSave, ReadRequest, Lose, Goto, Reply, TypeOK
  <2>2. code'[r] # "ok" \/ (pc'[r] = "done" /\ heard'[r] = "none")
    BY <1>1, <1>2 DEF Step, Arrive, Serve, StartRequest, StartUser, StartTalk, StartSave, TurnRequest,
       TurnTalk, FinishRequest, FinishGrade, FinishSave, ReadRequest, Lose, Goto, Reply, TypeOK,
       HandlerInv, locals
  <2> QED
    BY <2>1, <2>2
<1> QED
  BY <1>1, <1>2

\* What a step of r does to its own.
LEMMA OwnIndex ==
  ASSUME TypeOK, HandlerInv, SerialInv, IndexInv, NEW r \in Requests, Step(r)
  PROVE  /\ pc'[r] # "done" => code'[r] # "ok"
         /\ pc'[r] = "turn_refresh" =>
              /\ turns'[target'[r]] # <<>>
              /\ turns'[target'[r]][Len(turns'[target'[r]])] = Examiner(r)
         /\ code'[r] = "ok" /\ heard'[r] # "none" => Named(r)'
<1>0. pc[r] # "done" /\ code[r] # "ok"
  BY OnTheWay
<1>1. CASE TurnSave(r)
  <2>1. /\ target[r] \in Sessions /\ heard[r] \in Said /\ snapshot[r] \in Seq(Turn)
        /\ pc' = [pc EXCEPT ![r] = "turn_refresh"] /\ target' = target /\ code' = code
        /\ turns'[target[r]] = Exchange(snapshot[r], r, heard[r])
    BY <1>1 DEF TurnSave, HandlerInv, Talking, TypeOK, Goto, locals
  <2>2. Len(snapshot[r]) \in Nat
    BY <2>1, LenProperties
  <2>3. LET e == Exchange(snapshot[r], r, heard[r])
        IN  e \in Seq(Turn) /\ Len(e) = Len(snapshot[r]) + 2 /\ e[Len(snapshot[r]) + 2] = Examiner(r)
    BY <2>1, ExchangeShape
  <2>4. Exchange(snapshot[r], r, heard[r]) # <<>>
    BY <2>2, <2>3
  <2> QED
    BY <1>0, <2>1, <2>3, <2>4 DEF TypeOK
<1>2. CASE Respond(r)
  <2>1. /\ pc[r] \in Refreshing /\ UNCHANGED <<status, turns, target, heard>>
        /\ pc'[r] = "done"
        /\ code'[r] = IF pc[r] = "turn_refresh" THEN "ok" ELSE "created"
        /\ pc[r] = "turn_refresh" => turnIndex'[r] = Len(turns[target[r]]) - 1
    BY <1>2 DEF Respond, Reply, TypeOK, ReplyIndex, rows
  <2>2. ASSUME pc[r] = "turn_refresh" PROVE Named(r)'
    <3>1. target[r] \in Sessions /\ status[target[r]] # "none"
      BY <2>2 DEF HandlerInv, Refreshing
    <3>2. /\ turns[target[r]] \in Seq(Turn) /\ turns[target[r]] # <<>>
          /\ turns[target[r]][Len(turns[target[r]])] = Examiner(r)
      BY <2>2, <3>1 DEF IndexInv, TypeOK
    <3>3. Len(turns[target[r]]) \in Nat /\ Len(turns[target[r]]) # 0
      BY <3>2, EmptySeq, LenProperties
    <3>4. turnIndex'[r] + 1 = Len(turns[target[r]]) /\ Len(turns[target[r]]) \in 1 .. Len(turns[target[r]])
      BY <2>1, <2>2, <3>3
    <3> QED
      BY <2>1, <3>1, <3>2, <3>4 DEF Named
  <2> QED
    BY <2>1, <2>2
<1>3. CASE ~TurnSave(r) /\ ~Respond(r)
  BY <1>3, OnTheWay
<1> QED
  BY <1>1, <1>2, <1>3

\* Requests of a session take turns, and the reply of one being refreshed is last.
LEMMA Serial == ~Overlap => (Spec => [](SerialInv /\ IndexInv))
<1> SUFFICES ASSUME ~Overlap PROVE Spec => [](SerialInv /\ IndexInv)
  OBVIOUS
<1>1. Init => SerialInv /\ IndexInv
  BY DEF Init, SerialInv, IndexInv, AtWork, Talking, Grading, Refreshing, Starting
<1>2. TypeOK /\ HandlerInv /\ SerialInv /\ [Next]_vars => SerialInv'
  BY SerialStep
<1>3. TypeOK /\ HandlerInv /\ SerialInv /\ IndexInv /\ [Next]_vars => IndexInv'
  <2> SUFFICES ASSUME TypeOK, HandlerInv, SerialInv, IndexInv, [Next]_vars PROVE IndexInv'
    OBVIOUS
  <2>1. CASE UNCHANGED vars
    BY <2>1 DEF IndexInv, Named, vars, rows, locals
  <2>2. ASSUME NEW r \in Requests, Step(r) PROVE IndexInv'
    BY <2>2, OwnIndex, OthersIndices DEF IndexInv
  <2> QED
    BY <2>1, <2>2 DEF Next, Step
<1> QED
  BY <1>1, <1>2, <1>3, TypeCorrect, PTL DEF Spec

\* One request at a time per session, the index of a turn is that of the reply it
\* came with, then and ever after: the dialogue only grows at its end, and nobody
\* writes between a turn's save and its refresh.
THEOREM TurnIndicesNameReplies == ~Overlap => (Spec => []TurnIndexNamesReply)
<1> SUFFICES ASSUME ~Overlap PROVE Spec => []TurnIndexNamesReply
  OBVIOUS
<1>1. TypeOK /\ IndexInv => TurnIndexNamesReply
  <2> SUFFICES ASSUME TypeOK, IndexInv, NEW r \in Requests, code[r] = "ok", heard[r] # "none"
               PROVE  /\ turnIndex[r] + 1 \in DOMAIN turns[target[r]]
                      /\ turns[target[r]][turnIndex[r] + 1] = Examiner(r)
    BY DEF TurnIndexNamesReply
  <2>1. Named(r)
    BY DEF IndexInv
  <2>2. DOMAIN turns[target[r]] = 1 .. Len(turns[target[r]])
    BY <2>1, LenProperties DEF Named, TypeOK
  <2> QED
    BY <2>1, <2>2 DEF Named
<1> QED
  BY <1>1, TypeCorrect, Serial, PTL

(***************************************************************************)
(* What an answered turn leaves on record.                                 *)
(***************************************************************************)

\* The answer that r transcribed is in the dialogue.
OnRecord(r) ==
  /\ target[r] \in Sessions /\ status[target[r]] # "none"
  /\ \E i \in 1 .. Len(turns[target[r]]) : turns[target[r]][i] = Candidate(r, heard[r])

RecordInv ==
  \A r \in Requests :
    pc[r] = "turn_refresh" \/ (code[r] = "ok" /\ heard[r] # "none") => OnRecord(r)

\* What is on record stays on record.
LEMMA RecordStays ==
  ASSUME TypeOK, HandlerInv, SerialInv, NEW r \in Requests, Step(r),
         NEW q \in Requests, OnRecord(q), target'[q] = target[q], heard'[q] = heard[q]
  PROVE  OnRecord(q)'
<1> PICK s \in Sessions : s = target[q]
  BY DEF OnRecord
<1>1. status[s] # "none" /\ status'[s] # "none"
  BY StepIsIsolated DEF OnRecord, Isolated
<1>2. PICK i \in 1 .. Len(turns[s]) : turns[s][i] = Candidate(q, heard[q])
  BY DEF OnRecord
<1>3. /\ Len(turns[s]) \in Nat /\ Len(turns'[s]) \in Nat /\ Len(turns[s]) <= Len(turns'[s])
      /\ turns'[s][i] = turns[s][i]
  BY <1>1, DialogueGrows
<1>4. i \in 1 .. Len(turns'[s]) /\ turns'[s][i] = Candidate(q, heard'[q])
  BY <1>2, <1>3
<1> QED
  BY <1>1, <1>4 DEF OnRecord

\* A step of r keeps the record of each answered turn and completes its own.
LEMMA RecordStep ==
  ASSUME TypeOK, HandlerInv, SerialInv, IndexInv, RecordInv, NEW r \in Requests, Step(r)
  PROVE  RecordInv'
<1>1. ASSUME NEW q \in Requests \ {r},
             pc'[q] = "turn_refresh" \/ (code'[q] = "ok" /\ heard'[q] # "none")
      PROVE  OnRecord(q)'
  <2>1. /\ pc'[q] = pc[q] /\ target'[q] = target[q] /\ heard'[q] = heard[q]
        /\ code'[q] = code[q]
    BY StepIsIsolated, ResponsesStay DEF Isolated
  <2> QED
    BY <1>1, <2>1, RecordStays DEF RecordInv
<1>2. ASSUME pc'[r] = "turn_refresh" \/ (code'[r] = "ok" /\ heard'[r] # "none")
      PROVE  OnRecord(r)'
  <2>1. CASE TurnSave(r)
    <3>1. /\ target[r] \in Sessions /\ heard[r] \in Said /\ snapshot[r] \in Seq(Turn)
          /\ status[target[r]] # "none" /\ status' = status
          /\ target' = target /\ heard' = heard
          /\ turns'[target[r]] = Exchange(snapshot[r], r, heard[r])
      BY <2>1 DEF TurnSave, HandlerInv, Talking, TypeOK, locals
    <3>2. Len(snapshot[r]) \in Nat
      BY <3>1, LenProperties
    <3>3. /\ Len(turns'[target[r]]) = Len(snapshot[r]) + 2
          /\ turns'[target[r]][Len(snapshot[r]) + 1] = Candidate(r, heard[r])
      BY <3>1, ExchangeShape
    <3>4. Len(snapshot[r]) + 1 \in 1 .. Len(turns'[target[r]])
      BY <3>2, <3>3
    <3> QED
      BY <3>1, <3>3, <3>4 DEF OnRecord
  <2>2. CASE Respond(r)
    <3>1. target'[r] = target[r] /\ heard'[r] = heard[r]
      BY <2>2 DEF Respond
    <3>2. pc[r] = "turn_refresh"
      BY <1>2, <2>2 DEF Respond, Reply, TypeOK
    <3> QED
      BY <3>1, <3>2, RecordStays DEF RecordInv
  <2>3. CASE ~TurnSave(r) /\ ~Respond(r)
    BY <1>2, <2>3, OnTheWay
  <2> QED
    BY <2>1, <2>2, <2>3
<1> QED
  BY <1>1, <1>2 DEF RecordInv

\* One request at a time per session, the row is what conversation.py:3-4 calls
\* it, the source of truth: no exchange that was answered is ever lost from it.
\* The overlap is all that the lost turn of run conversation_lost_turn needs.
THEOREM SerialTurnsAreKept == ~Overlap => (Spec => []AcknowledgedTurnsAreKept)
<1> SUFFICES ASSUME ~Overlap PROVE Spec => []AcknowledgedTurnsAreKept
  OBVIOUS
<1>1. Init => RecordInv
  BY DEF Init, RecordInv
<1>2. TypeOK /\ HandlerInv /\ SerialInv /\ IndexInv /\ RecordInv /\ [Next]_vars => RecordInv'
  <2>1. ASSUME RecordInv, UNCHANGED vars PROVE RecordInv'
    BY <2>1 DEF RecordInv, OnRecord, vars, rows, locals
  <2> QED
    BY <2>1, RecordStep DEF Next, Step
<1>3. TypeOK /\ RecordInv => AcknowledgedTurnsAreKept
  <2> SUFFICES ASSUME TypeOK, RecordInv, NEW r \in Requests, code[r] = "ok", heard[r] # "none"
               PROVE  \E i \in DOMAIN turns[target[r]] :
                        turns[target[r]][i] = Candidate(r, heard[r])
    BY DEF AcknowledgedTurnsAreKept
  <2>1. OnRecord(r)
    BY DEF RecordInv
  <2>2. DOMAIN turns[target[r]] = 1 .. Len(turns[target[r]])
    BY <2>1, LenProperties DEF OnRecord, TypeOK
  <2> QED
    BY <2>1, <2>2 DEF OnRecord
<1> QED
  BY <1>1, <1>2, <1>3, TypeCorrect, Serial, PTL DEF Spec

=============================================================================
