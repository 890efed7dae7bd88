--------------------------- MODULE PipelineProofs ---------------------------
(***************************************************************************)
(* Proofs about Pipeline, for any number of workflows and any eval-runs    *)
(* and eval-required.                                                      *)
(*                                                                         *)
(* Behind follows a workflow through its tasks and needs no order between  *)
(* workflows.  Alone says what is true of the registry while workflows run *)
(* one at a time and its list could be read: it lists, once each, those    *)
(* that came as far as writing it, and serving is the last that finished.  *)
(***************************************************************************)
EXTENDS Pipeline, FunctionTheorems, FiniteSetTheorems, TLAPS

\* What workflow w has behind it.
Behind(w) ==
  /\ clean[w] = passed[w] /\ passed[w] <= ran[w]
  /\ pc[w] \in {"promote", "apply", "set_env", "promoted"} =>
       ran[w] = EvalRuns /\ passed[w] >= EvalRequired
  /\ pc[w] \in {"set_env", "promoted"} /\ read[w] # Blank => w \in recorded
  /\ deployed = w => pc[w] = "promoted"

Inv == TypeOK /\ \A w \in Workflows : Behind(w)

Step(w) == Submit(w) \/ Run(w) \/ Error(w)

-----------------------------------------------------------------------------

\* A run exits with 0 exactly when every case had the grade it should.
LEMMA VerdictIsRight == ASSUME NEW run \in Verdicts PROVE run.exit0 = run.right /\ run.exit0 \in BOOLEAN
<1> PICK suite \in Suites :
      run = [exit0 |-> ExitsZero(suite), right |-> suite = [case \in Names |-> "PASS"]]
  BY DEF Verdicts
<1>1. suite \in [Names -> {"PASS", "FAIL", "raised"}]
  BY DEF Suites
<1>2. ExitsZero(suite) <=> suite = [case \in Names |-> "PASS"]
  BY <1>1 DEF ExitsZero
<1>3. ExitsZero(suite) \in BOOLEAN
  BY DEF ExitsZero
<1> QED
  BY <1>2, <1>3

\* Nobody has run, and the baseline serves.
LEMMA InitInv == Init => Inv
<1> SUFFICES ASSUME Init PROVE Inv
  OBVIOUS
<1> USE EvalRunsIsNat, BaselineIsNoCandidate DEF Init
<1>1. <<>> \in Seq(Workflows)
  OBVIOUS
<1>2. TypeOK
  <2>1. registry \in Seq(Workflows) /\ \A w \in Workflows : read[w] \in Seq(Workflows)
    BY <1>1
  <2>2. 0 \in 0 .. EvalRuns
    OBVIOUS
  <2>3. recorded \subseteq Workflows
    OBVIOUS
  <2> QED
    BY <2>1, <2>2, <2>3 DEF TypeOK, Running, Ended
<1>3. ASSUME NEW w \in Workflows PROVE Behind(w)
  BY DEF Behind
<1> QED
  BY <1>2, <1>3 DEF Inv

\* A step of w keeps the types, leaves the others' tasks alone, and what w has
\* behind it.
LEMMA StepBehind ==
  ASSUME Inv, NEW w \in Workflows, Step(w)
  PROVE  TypeOK' /\ \A v \in Workflows : Behind(v)'
<1> DEFINE Goal == TypeOK' /\ \A v \in Workflows : Behind(v)'
<1>0. TypeOK /\ (\A v \in Workflows : Behind(v))
  BY DEF Inv
<1> USE <1>0, EvalRunsIsNat, EvalRequiredIsNat, BaselineIsNoCandidate
    DEF TypeOK, Behind, Goto, evals, Running, Ended
<1>1. CASE Submit(w)
  BY <1>1 DEF Submit
<1>2. CASE Eval(w)
  <2> PICK run \in Verdicts : Count(w, run)
    BY <1>2 DEF Eval
  <2>1. run.exit0 = run.right /\ run.exit0 \in BOOLEAN
    BY VerdictIsRight
  <2>2. UNCHANGED <<deployed, registry, pc, read, recorded, overlapped>> /\ pc[w] = "eval" /\ ran[w] < EvalRuns
    BY <1>2 DEF Eval
  <2>3. /\ ran' = [ran EXCEPT ![w] = ran[w] + 1]
        /\ \E n \in {0, 1} : /\ passed' = [passed EXCEPT ![w] = passed[w] + n]
                             /\ clean' = [clean EXCEPT ![w] = clean[w] + n]
    BY <2>1 DEF Count
  <2> HIDE DEF Count
  <2>4. TypeOK'
    BY <2>2, <2>3
  <2>5. ASSUME NEW v \in Workflows PROVE Behind(v)'
    BY <2>2, <2>3
  <2> QED
    BY <2>4, <2>5
<1>3. CASE Gate(w)
  BY <1>3 DEF Gate, Passes
<1>4. CASE ReadRegistry(w)
  <2> PICK list \in {registry, Blank} : read' = [read EXCEPT ![w] = Appended(list, w)]
    BY <1>4 DEF ReadRegistry
  <2>1. Appended(list, w) = Blank \/ Appended(list, w) \in Seq(Workflows)
    BY DEF Appended
  <2>2. UNCHANGED <<deployed, registry, evals, recorded, overlapped>> /\ Goto(w, "apply") /\ pc[w] = "promote"
    BY <1>4 DEF ReadRegistry
  <2>3. TypeOK'
    BY <2>1, <2>2
  <2>4. ASSUME NEW v \in Workflows PROVE Behind(v)'
    BY <2>2
  <2> QED
    BY <2>3, <2>4
<1>5. CASE WriteRegistry(w)
  BY <1>5 DEF WriteRegistry
<1>6. CASE Roll(w)
  BY <1>6 DEF Roll
<1>7. CASE Report(w)
  BY <1>7 DEF Report
<1>8. CASE Error(w)
  BY <1>8 DEF Error
<1> QED
  BY <1>1, <1>2, <1>3, <1>4, <1>5, <1>6, <1>7, <1>8 DEF Step, Run

\* The invariant is inductive.
LEMMA StepInv == Inv /\ [Next]_vars => Inv'
<1> SUFFICES ASSUME Inv, [Next]_vars PROVE Inv'
  OBVIOUS
<1>1. ASSUME NEW w \in Workflows, Step(w) PROVE Inv'
  BY <1>1, StepBehind DEF Inv
<1>2. CASE UNCHANGED vars
  BY <1>2 DEF Inv, TypeOK, Behind, vars, evals
<1> QED
  BY <1>1, <1>2 DEF Next, Step

-----------------------------------------------------------------------------

\* Every variable keeps its type: no more runs are counted than the policy has.
THEOREM TypesHold == Spec => []TypeOK
<1>1. Inv => TypeOK
  BY DEF Inv
<1> QED
  BY <1>1, InitInv, StepInv, PTL DEF Spec

\* Whatever workflows interleave and wherever they break off, what serves was the
\* baseline or passed the gate: a task follows only the one that passed before
\* it, and no workflow writes another's model.
THEOREM OnlyGatedServe == Spec => []OnlyGatedModelsServe
<1>1. Inv => OnlyGatedModelsServe
  <2> SUFFICES ASSUME Inv, deployed # Baseline
               PROVE ran[deployed] = EvalRuns /\ clean[deployed] >= EvalRequired
    BY DEF OnlyGatedModelsServe
  <2>1. deployed \in Workflows
    BY DEF Inv, TypeOK
  <2> PICK w \in Workflows : w = deployed
    BY <2>1
  <2> QED
    BY DEF Inv, Behind
<1> QED
  BY <1>1, InitInv, StepInv, PTL DEF Spec

\* The registry is written before the deployment, in every interleaving.
THEOREM ServingRecorded == Spec => []ServingWasRecorded
<1>1. Inv => ServingWasRecorded
  <2> SUFFICES ASSUME Inv, deployed # Baseline, read[deployed] # Blank
               PROVE deployed \in recorded
    BY DEF ServingWasRecorded
  <2> PICK w \in Workflows : w = deployed
    BY DEF Inv, TypeOK
  <2> QED
    BY DEF Inv, Behind
<1> QED
  BY <1>1, InitInv, StepInv, PTL DEF Spec

-----------------------------------------------------------------------------

\* The workflows whose entry may be in the registry.
Wrote == {w \in Workflows : pc[w] \in {"set_env", "promoted", "errored"}}

Last == registry[Len(registry)]

\* The list read is the one in the registry, with the reader appended.
Read == \A w \in Workflows : pc[w] = "apply" =>
          read[w] = Blank \/ (registry # Blank /\ read[w] = Append(registry, w))

\* What serves is the last promotion in the list that went through.
ServesLast ==
  /\ (\A i \in 1 .. Len(registry) : pc[registry[i]] # "promoted") => deployed = Baseline
  /\ \A i \in 1 .. Len(registry) :
       /\ pc[registry[i]] = "promoted"
       /\ \A j \in 1 .. Len(registry) : pc[registry[j]] = "promoted" => j <= i
       => deployed = registry[i]

\* The list has each entry once, only of those that wrote, all who were promoted,
\* the one about to be at its end, and tells what serves.
ListIsTrue ==
  /\ \A i, j \in 1 .. Len(registry) : registry[i] = registry[j] => i = j
  /\ \A i \in 1 .. Len(registry) : registry[i] \in Wrote
  /\ \A w \in Workflows : pc[w] = "promoted" => \E i \in 1 .. Len(registry) : registry[i] = w
  /\ \A w \in Workflows : pc[w] = "set_env" => Len(registry) > 0 /\ Last = w
  /\ ServesLast

Alone ==
  /\ \A v, w \in Workflows : pc[v] \in Running /\ pc[w] \in Running => v = w
  /\ Read
  /\ registry # Blank => ListIsTrue

SerialInv == TypeOK /\ (~overlapped => Alone)

\* A list with one more entry, which it did not have, has each entry once.
LEMMA AppendDistinct ==
  ASSUME NEW list \in Seq(Workflows), NEW w \in Workflows,
         \A i, j \in 1 .. Len(list) : list[i] = list[j] => i = j,
         \A i \in 1 .. Len(list) : list[i] # w,
         NEW longer, longer = Append(list, w)
  PROVE  /\ longer \in Seq(Workflows) /\ Len(longer) = Len(list) + 1
         /\ longer[Len(longer)] = w
         /\ \A i \in 1 .. Len(list) : longer[i] = list[i]
         /\ \A i, j \in 1 .. Len(longer) : longer[i] = longer[j] => i = j
<1>1. /\ longer \in Seq(Workflows) /\ Len(longer) = Len(list) + 1 /\ Len(list) \in Nat
      /\ longer[Len(list) + 1] = w
      /\ \A i \in 1 .. Len(list) : longer[i] = list[i]
  OBVIOUS
<1>2. \A i \in 1 .. Len(longer) : i \in 1 .. Len(list) \/ i = Len(list) + 1
  BY <1>1
<1>3. \A i, j \in 1 .. Len(longer) : longer[i] = longer[j] => i = j
  BY <1>1, <1>2
<1> QED
  BY <1>1, <1>3

\* A step of the only workflow that runs keeps what is known of the registry.
LEMMA StepAlone ==
  ASSUME TypeOK, Alone, ~overlapped', NEW w \in Workflows, Step(w)
  PROVE  Alone'
<1> USE DEF TypeOK, Goto, evals, Running, Ended
<1>1. \A v \in Workflows \ {w} : pc'[v] = pc[v] /\ read'[v] = read[v]
  BY DEF Step, Run, Submit, Eval, Gate, ReadRegistry, WriteRegistry, Roll, Report, Error
<1>2. \A v \in Workflows : pc[v] \in Running /\ pc'[w] \in Running => v = w
  <2>1. CASE Submit(w)
    BY <2>1 DEF Submit
  <2>2. CASE pc[w] \in Running
    BY <2>2 DEF Alone
  <2> QED
    BY <2>1, <2>2 DEF Step, Run, Eval, Gate, ReadRegistry, WriteRegistry, Roll, Report, Error
<1>3. \A u, v \in Workflows : pc'[u] \in Running /\ pc'[v] \in Running => u = v
  BY <1>1, <1>2 DEF Alone
<1>4. CASE ReadRegistry(w)
  <2> PICK list \in {registry, Blank} : read' = [read EXCEPT ![w] = Appended(list, w)]
    BY <1>4 DEF ReadRegistry
  <2>1. /\ registry' = registry /\ deployed' = deployed /\ pc[w] = "promote"
        /\ pc' = [pc EXCEPT ![w] = "apply"]
    BY <1>4 DEF ReadRegistry
  <2>2. read'[w] = Blank \/ (registry # Blank /\ read'[w] = Append(registry, w))
    BY DEF Appended
  <2>3. Read'
    BY <1>1, <2>1, <2>2 DEF Alone, Read
  <2>4. ListIsTrue /\ registry # Blank => ListIsTrue'
    <3> SUFFICES ASSUME ListIsTrue, registry # Blank PROVE ListIsTrue'
      OBVIOUS
    <3>1. \A i \in 1 .. Len(registry) : registry[i] \in Workflows
      OBVIOUS
    <3>2. \A v \in Workflows : pc'[v] = "promoted" <=> pc[v] = "promoted"
      BY <2>1
    <3>3. ServesLast'
      BY <2>1, <3>1, <3>2 DEF ListIsTrue, ServesLast
    <3> QED
      BY <2>1, <3>3 DEF ListIsTrue, Wrote, Last
  <2> QED
    BY <1>3, <2>1, <2>3, <2>4 DEF Alone
<1>5. CASE WriteRegistry(w)
  <2>1. /\ registry' = read[w] /\ deployed' = deployed /\ pc[w] = "apply" /\ read' = read
        /\ pc' = [pc EXCEPT ![w] = "set_env"]
    BY <1>5 DEF WriteRegistry
  <2>2. Read'
    BY <1>2, <2>1 DEF Read
  <2>3. ASSUME registry' # Blank PROVE ListIsTrue'
    <3>1. registry # Blank /\ registry' = Append(registry, w) /\ ListIsTrue
      BY <2>1, <2>3 DEF Alone, Read
    <3>2. registry \in Seq(Workflows)
      BY <3>1
    <3>3. \A i \in 1 .. Len(registry) : registry[i] # w /\ registry[i] \in Wrote
      BY <2>1, <3>1 DEF ListIsTrue, Wrote
    <3>4. /\ Len(registry') = Len(registry) + 1 /\ Len(registry) \in Nat
          /\ registry'[Len(registry')] = w
          /\ \A i \in 1 .. Len(registry) : registry'[i] = registry[i]
          /\ \A i, j \in 1 .. Len(registry') : registry'[i] = registry'[j] => i = j
      <4>1. \A i, j \in 1 .. Len(registry) : registry[i] = registry[j] => i = j
        BY <3>1 DEF ListIsTrue
      <4>2. \A i \in 1 .. Len(registry) : registry[i] # w
        BY <3>3
      <4> QED
        BY ONLY <3>1, <3>2, <4>1, <4>2, AppendDistinct, w \in Workflows
    <3>5. \A v \in Workflows : v \in Wrote \/ v = w => v \in Wrote'
      BY <1>1, <2>1 DEF Wrote
    <3>6. \A i \in 1 .. Len(registry') : registry'[i] \in Wrote'
      <4> SUFFICES ASSUME NEW i \in 1 .. Len(registry') PROVE registry'[i] \in Wrote'
        OBVIOUS
      <4>1. CASE i \in 1 .. Len(registry)
        BY <3>3, <3>4, <3>5, <4>1 DEF Wrote
      <4>2. CASE i = Len(registry')
        BY <3>4, <3>5, <4>2
      <4> QED
        BY <3>4, <4>1, <4>2
    <3>7. ASSUME NEW v \in Workflows, pc'[v] = "promoted"
          PROVE \E i \in 1 .. Len(registry') : registry'[i] = v
      <4>1. pc[v] = "promoted"
        BY <2>1, <3>7
      <4> PICK i \in 1 .. Len(registry) : registry[i] = v
        BY <3>1, <4>1 DEF ListIsTrue
      <4>2. i \in 1 .. Len(registry') /\ registry'[i] = v
        BY <3>4
      <4> QED
        BY <4>2
    <3>8. \A v \in Workflows : pc'[v] = "set_env" => v = w
      BY <1>3, <2>1
    <3>9. Last' = w /\ pc'[w] = "set_env" /\ Len(registry') > 0
      BY <2>1, <3>4 DEF Last
    <3>10. \A i \in 1 .. Len(registry') :
             \/ i \in 1 .. Len(registry) /\ pc'[registry'[i]] = pc[registry[i]]
             \/ i = Len(registry') /\ pc'[registry'[i]] = "set_env"
      <4> SUFFICES ASSUME NEW i \in 1 .. Len(registry')
                   PROVE  \/ i \in 1 .. Len(registry) /\ pc'[registry'[i]] = pc[registry[i]]
                          \/ i = Len(registry') /\ pc'[registry'[i]] = "set_env"
        OBVIOUS
      <4>1. CASE i \in 1 .. Len(registry)
        <5>0. PICK v \in Workflows \ {w} : v = registry[i]
          BY <3>3, <4>1 DEF Wrote
        <5>1. registry'[i] = v
          BY ONLY <3>4, <4>1, <5>0
        <5>2. pc'[v] = pc[v]
          BY <1>1
        <5>3. pc'[registry'[i]] = pc[registry[i]]
          BY ONLY <5>0, <5>1, <5>2
        <5> QED
          BY ONLY <4>1, <5>3
      <4>2. CASE i = Len(registry')
        BY <3>4, <3>9, <4>2
      <4> QED
        BY <3>4, <4>1, <4>2
    <3>11. ServesLast'
      <4>1. ServesLast
        BY <3>1 DEF ListIsTrue
      <4>2. ASSUME \A i \in 1 .. Len(registry') : pc'[registry'[i]] # "promoted"
            PROVE  deployed' = Baseline
        <5>1. \A i \in 1 .. Len(registry) : i \in 1 .. Len(registry') /\ i # Len(registry')
          BY <3>4
        <5>2. \A i \in 1 .. Len(registry) : pc[registry[i]] # "promoted"
          BY <3>10, <4>2, <5>1
        <5> QED
          BY <2>1, <4>1, <5>2 DEF ServesLast
      <4>3. ASSUME NEW i \in 1 .. Len(registry'), pc'[registry'[i]] = "promoted",
                   \A j \in 1 .. Len(registry') : pc'[registry'[j]] = "promoted" => j <= i
            PROVE  deployed' = registry'[i]
        <5>1. i \in 1 .. Len(registry) /\ pc[registry[i]] = "promoted"
          BY <3>10, <4>3
        <5>2. ASSUME NEW j \in 1 .. Len(registry), pc[registry[j]] = "promoted" PROVE j <= i
          <6>1. j \in 1 .. Len(registry') /\ j # Len(registry')
            BY <3>4
          <6> QED
            BY <3>10, <4>3, <5>2, <6>1
        <5> QED
          BY <2>1, <3>4, <4>1, <5>1, <5>2 DEF ServesLast
      <4> QED
        BY <4>2, <4>3 DEF ServesLast
    <3> QED
      BY <3>4, <3>6, <3>7, <3>8, <3>9, <3>11 DEF ListIsTrue
  <2> QED
    BY <1>3, <2>2, <2>3 DEF Alone
<1>6. CASE Roll(w)
  <2>1. /\ UNCHANGED <<registry, read>> /\ deployed' = w /\ pc[w] = "set_env"
        /\ pc' = [pc EXCEPT ![w] = "promoted"]
    BY <1>6 DEF Roll
  <2>2. Read'
    BY <2>1 DEF Alone, Read
  <2>3. ASSUME registry # Blank PROVE ListIsTrue'
    <3>1. ListIsTrue /\ Len(registry) > 0 /\ Last = w /\ registry \in Seq(Workflows)
      BY <2>1, <2>3 DEF Alone, ListIsTrue
    <3>2. Len(registry) \in 1 .. Len(registry)
      BY <3>1
    <3>3. \A v \in Wrote : v \in Wrote'
      BY <2>1 DEF Wrote
    <3>4. \A v \in Workflows : pc'[v] # "set_env"
      BY <1>2, <1>1, <2>1 DEF Alone
    <3>5. \A v \in Workflows : pc'[v] = "promoted" => \E i \in 1 .. Len(registry) : registry[i] = v
      BY <2>1, <3>1, <3>2 DEF ListIsTrue, Last
    <3>6. ServesLast'
      <4>1. PICK n \in 1 .. Len(registry) : n = Len(registry) /\ registry[n] = w
        BY <3>1, <3>2 DEF Last
      <4>2. pc'[w] = "promoted"
        BY <2>1
      <4>3. ASSUME NEW i \in 1 .. Len(registry),
                   \A j \in 1 .. Len(registry) : pc'[registry[j]] = "promoted" => j <= i
            PROVE  registry[i] = w
        <5>1. n <= i
          BY <4>1, <4>2, <4>3
        <5> QED
          BY <4>1, <5>1
      <4>4. registry' = registry /\ deployed' = w
        BY <2>1
      <4> QED
        BY <4>1, <4>2, <4>3, <4>4 DEF ServesLast
    <3> QED
      BY <2>1, <3>1, <3>3, <3>4, <3>5, <3>6 DEF ListIsTrue, Last
  <2> QED
    BY <1>3, <2>1, <2>2, <2>3 DEF Alone
<1>7. CASE Submit(w) \/ Eval(w) \/ Gate(w) \/ Report(w) \/ Error(w)
  <2>1. UNCHANGED <<registry, deployed, read>>
    BY <1>7 DEF Submit, Eval, Gate, Report, Error
  <2>2. /\ pc'[w] \in {"apply", "set_env", "promoted"} => pc'[w] = pc[w]
        /\ pc[w] \in {"set_env", "promoted", "errored"} =>
             pc'[w] = pc[w] \/ (pc[w] = "set_env" /\ pc'[w] = "errored")
    BY <1>7 DEF Submit, Eval, Gate, Report, Error
  <2>3. Read'
    BY <1>1, <2>1, <2>2 DEF Alone, Read
  <2>4. ASSUME registry # Blank PROVE ListIsTrue'
    <3>1. ListIsTrue /\ registry \in Seq(Workflows)
      BY <2>4 DEF Alone
    <3>2. \A v \in Wrote : v \in Wrote'
      BY <1>1, <2>2 DEF Wrote
    <3>3. \A v \in Workflows : pc'[v] \in {"set_env", "promoted"} => pc[v] = pc'[v]
      BY <1>1, <2>2
    <3>4. \A v \in Workflows : pc'[v] = "promoted" <=> pc[v] = "promoted"
      BY <1>1, <2>2
    <3>5. ServesLast'
      <4>1. \A i \in 1 .. Len(registry) : registry[i] \in Workflows
        BY <3>1
      <4> QED
        BY <2>1, <3>1, <3>4, <4>1 DEF ListIsTrue, ServesLast
    <3> QED
      BY <2>1, <3>1, <3>2, <3>3, <3>5 DEF ListIsTrue, Last
  <2> QED
    BY <1>3, <2>1, <2>3, <2>4 DEF Alone
<1> QED
  BY <1>4, <1>5, <1>6, <1>7 DEF Step, Run

\* A list without repetition has as many entries as places.
LEMMA CountEntries ==
  ASSUME NEW list \in Seq(Workflows),
         \A i, j \in 1 .. Len(list) : list[i] = list[j] => i = j
  PROVE  Cardinality({list[i] : i \in DOMAIN list}) = Len(list)
<1> DEFINE S == 1 .. Len(list)
           T == {list[i] : i \in S}
<1>1. DOMAIN list = S /\ Len(list) \in Nat
  OBVIOUS
<1>2. list \in [S -> T]
  BY <1>1
<1>3. \A t \in T : \E s \in S : list[s] = t
  OBVIOUS
<1>4. list \in Bijection(S, T)
  <2> HIDE DEF T
  <2> QED
    BY <1>2, <1>3, Fun_IsBij
<1>5. ExistsBijection(S, T)
  BY <1>4, Fun_ExistsBij
<1> QED
  BY <1>1, <1>5, FS_CountingElements

\* Nothing is on record and nobody runs.
LEMMA SerialInit == Init => SerialInv
<1> SUFFICES ASSUME Init PROVE Alone /\ TypeOK
  BY DEF SerialInv
<1>1. TypeOK
  BY InitInv DEF Inv
<1>2. Len(registry) = 0 /\ \A w \in Workflows : pc[w] = "new"
  BY DEF Init
<1> QED
  BY <1>1, <1>2 DEF Alone, Read, ListIsTrue, ServesLast, Wrote, Running, Init

\* What is known of the registry while workflows run one at a time is inductive.
LEMMA SerialStep == Inv /\ SerialInv /\ [Next]_vars => SerialInv'
<1> SUFFICES ASSUME Inv, SerialInv, [Next]_vars PROVE SerialInv'
  OBVIOUS
<1>1. TypeOK'
  BY StepInv DEF Inv
<1>2. ASSUME NEW w \in Workflows, Step(w), ~overlapped' PROVE Alone'
  <2>1. ~overlapped
    BY <1>2 DEF Step, Run, Submit, Eval, Gate, ReadRegistry, WriteRegistry, Roll, Report, Error
  <2> QED
    BY <1>2, <2>1, StepAlone DEF SerialInv
<1>3. ASSUME UNCHANGED vars, ~overlapped' PROVE Alone'
  BY <1>3 DEF SerialInv, Alone, Read, ListIsTrue, ServesLast, Wrote, Last, vars, evals
<1> QED
  BY <1>1, <1>2, <1>3 DEF SerialInv, Next, Step

\* Workflows one at a time lose no entry while the list can be read, write none
\* twice, and the last promotion listed that went through is the one that serves,
\* wherever others were broken off.
THEOREM SerialRegistryTrue == Spec => []SerialRegistryIsTrue
<1>1. SerialInv => SerialRegistryIsTrue
  <2> SUFFICES ASSUME SerialInv, ~overlapped, registry # Blank PROVE SerialRegistryIsTrue
    BY DEF SerialRegistryIsTrue
  <2>1. ListIsTrue /\ registry \in Seq(Workflows) /\ Entries = {registry[i] : i \in DOMAIN registry}
    BY DEF SerialInv, Alone, TypeOK, Entries
  <2>2. \A w \in Workflows : pc[w] = "promoted" => w \in Entries
    BY <2>1 DEF ListIsTrue
  <2>3. Cardinality(Entries) = Len(registry)
    BY <2>1, CountEntries DEF ListIsTrue
  <2>4. DOMAIN registry = 1 .. Len(registry)
    BY <2>1
  <2>5. Finished = {} => deployed = Baseline
    BY <2>1, <2>4 DEF ListIsTrue, ServesLast, Finished
  <2>6. ASSUME NEW i \in Finished, \A j \in Finished : j <= i PROVE deployed = registry[i]
    BY <2>1, <2>4, <2>6 DEF ListIsTrue, ServesLast, Finished
  <2> QED
    BY <2>2, <2>3, <2>5, <2>6 DEF SerialRegistryIsTrue
<1> QED
  BY <1>1, SerialInit, SerialStep, InitInv, StepInv, PTL DEF Spec

\* What a step may do to the list: append one entry to it, or lose it for good.
ListGrowsOrIsLost ==
  ~overlapped' =>
    \/ registry' = registry
    \/ registry' = Blank
    \/ registry # Blank /\ \E w \in Workflows : registry' = Append(registry, w)

\* Workflows one at a time take no entry out of the list and put none in the place
\* of another; but one read that fails ends the record, as nothing is ever made of
\* the empty list it leaves.
THEOREM SerialListGrows == Spec => [][ListGrowsOrIsLost]_vars
<1>1. SerialInv /\ [Next]_vars => [ListGrowsOrIsLost]_vars
  <2> SUFFICES ASSUME SerialInv, NEW w \in Workflows, Step(w), ~overlapped'
               PROVE  \/ registry' = registry
                      \/ registry' = Blank
                      \/ registry # Blank /\ registry' = Append(registry, w)
    BY DEF ListGrowsOrIsLost, Next, Step
  <2>1. CASE WriteRegistry(w)
    <3>1. pc[w] = "apply" /\ registry' = read[w] /\ ~overlapped
      BY <2>1 DEF WriteRegistry
    <3> QED
      BY <3>1 DEF SerialInv, Alone, Read
  <2>2. CASE ~WriteRegistry(w)
    BY <2>2 DEF Step, Run, Submit, Eval, Gate, ReadRegistry, Roll, Report, Error
  <2> QED
    BY <2>1, <2>2
<1> QED
  BY <1>1, SerialInit, SerialStep, InitInv, StepInv, PTL DEF Spec

=============================================================================
