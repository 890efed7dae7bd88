---------------------------- MODULE SeedingProofs ----------------------------
(***************************************************************************)
(* Proofs about Seeding, for any number of containers, questions and       *)
(* crashes.                                                                *)
(*                                                                         *)
(* The invariant says of each container what the steps it has behind it    *)
(* have established and nobody can take away: the schema, the questions it *)
(* has looked up, all of them once its script has committed.  Of each      *)
(* question that is there it counts the rows together with the containers  *)
(* about to insert one more; and, while boots do not overlap, it says that *)
(* one container boots at a time and is about to insert only what is not   *)
(* there.                                                                  *)
(*                                                                         *)
(* That every container comes to serve needs fairness and stays with TLC;  *)
(* what it rests on is proved at the end: somebody can always go on, and   *)
(* each step of a boot brings it nearer its end.                           *)
(***************************************************************************)
EXTENDS Seeding, FiniteSetTheorems, TLAPS

\* The schema is there for whoever is past alembic.
Migrated(c) == pc[c] \in {"questions", "rubrics", "embed", "serving"} => head = Len(Revisions)

\* Every question c has gone past is there or about to be.
Listed(c) ==
  /\ pc[c] \in {"alembic", "upgrade", "commit"} => next[c] = 1
  /\ pc[c] = "questions" =>
       \A q \in Questions : q < next[c] => questions[q] > 0 \/ q \in added[c]
  /\ pc[c] \in {"rubrics", "embed", "serving"} => \A q \in Questions : questions[q] > 0

\* Rubrics are missing all together or not at all.
Whole == rubrics \in {{}, Rubrics} /\ \A c \in Containers : new[c] \in {{}, Rubrics}

\* One container boots at a time, and adds what is not there.
OneAtATime ==
  /\ \A c, d \in Containers : pc[c] \in Booting /\ pc[d] \in Booting => c = d
  /\ \A q \in Questions : questions[q] <= 1
  /\ \A c \in Containers : \A q \in added[c] : questions[q] = 0

\* The containers about to insert question q.
Holders(q) == {c \in Containers : q \in added[c]}

\* Once a question is there nobody joins those who are about to insert it.
Raced(q) ==
  questions[q] > 0 => questions[q] + Cardinality(Holders(q)) <= Cardinality(Containers)

\* Who has created tables and not committed is one container, and the revision
\* another one has read is out of date only when there is none left to run.
Migrating ==
  \A c \in Containers :
    /\ pc[c] = "commit" <=> migrator = c
    /\ pc[c] = "upgrade" => seen[c] = head \/ UpToDate

Inv ==
  /\ TypeOK
  /\ Migrating
  /\ \A c \in Containers : Migrated(c) /\ Listed(c)
  /\ Whole
  /\ \A q \in Questions : Raced(q)
  /\ ~overlapped => OneAtATime

Step(c) == Start(c) \/ Boot(c) \/ Die(c)

-----------------------------------------------------------------------------

\* There are three revisions.
LEMMA ThreeRevisions == Len(Revisions) = 3
  BY DEF Revisions, CreateUsersQuestionsAnswersFeedback, AddSpeakingSessions, AddRubricChunks

\* The last revision has the tables seed_questions and seed_rubrics work on.
LEMMA AllTables == {"questions", "rubric_chunks"} \subseteq Tables(Len(Revisions))
<1>1. 1 \in 1 .. Len(Revisions) /\ 3 \in 1 .. Len(Revisions)
  BY ThreeRevisions
<1>2. "questions" \in Revisions[1] /\ "rubric_chunks" \in Revisions[3]
  BY DEF Revisions, CreateUsersQuestionsAnswersFeedback, AddSpeakingSessions, AddRubricChunks
<1>3. \A n \in 1 .. Len(Revisions) : Revisions[n] \subseteq Tables(Len(Revisions))
  BY DEF Tables
<1> QED
  BY <1>1, <1>2, <1>3

\* Nobody has started, and every question is there once or not at all.
LEMMA InitInv == Init => Inv
<1> SUFFICES ASSUME Init PROVE Inv
  OBVIOUS
<1> USE NumQuestionsIsPositive, MaxCrashesIsNat, ThreeRevisions DEF Init
<1>1. TypeOK
  <2>1. questions \in [Questions -> Nat]
    BY DEF Questions
  <2>2. next \in [Containers -> 1 .. NumQuestions + 1]
    OBVIOUS
  <2>3. /\ head \in 0 .. Len(Revisions) /\ seen \in [Containers -> 0 .. Len(Revisions)]
        /\ crashes \in 0 .. MaxCrashes
    OBVIOUS
  <2>4. pc \in [Containers -> {"down", "serving"} \cup Booting]
    OBVIOUS
  <2>5. added \in [Containers -> SUBSET Questions] /\ new \in [Containers -> SUBSET Rubrics]
    OBVIOUS
  <2> QED
    BY <2>1, <2>2, <2>3, <2>4, <2>5 DEF TypeOK
<1>2. ASSUME NEW c \in Containers PROVE Migrated(c) /\ Listed(c)
  BY DEF Migrated, Listed
<1>3. Whole /\ OneAtATime
  BY DEF Whole, OneAtATime, Booting
<1>4. Migrating
  BY NoneIsNoContainer DEF Migrating
<1>5. ASSUME NEW q \in Questions PROVE Raced(q)
  <2>1. Holders(q) = {}
    BY DEF Holders
  <2>2. Cardinality(Holders(q)) = 0
    BY <2>1, FS_EmptySet
  <2>3. Cardinality(Containers) \in Nat /\ Cardinality(Containers) # 0
    BY ContainersAreReplicas, FS_EmptySet, FS_CardinalityType
  <2>4. questions[q] \in {0, 1}
    BY <1>5
  <2> QED
    BY <2>2, <2>3, <2>4 DEF Raced
<1> QED
  BY <1>1, <1>2, <1>3, <1>4, <1>5 DEF Inv

\* Committing inserts adds to the counts of a table and to no other key.
LEMMA InsertedCounts ==
  ASSUME NEW table \in [Questions -> Nat], NEW keys \in SUBSET Questions
  PROVE  /\ Inserted(table, keys) \in [Questions -> Nat]
         /\ \A q \in Questions :
              Inserted(table, keys)[q] = IF q \in keys THEN table[q] + 1 ELSE table[q]
  BY DEF Inserted

\* Every step keeps the types, and touches no other container.
LEMMA StepTypes ==
  ASSUME Inv, NEW c \in Containers, Step(c)
  PROVE  /\ TypeOK'
         /\ \A d \in Containers \ {c} :
              /\ pc'[d] = pc[d] /\ next'[d] = next[d]
              /\ added'[d] = added[d] /\ new'[d] = new[d]
<1> DEFINE Goal == /\ TypeOK'
                   /\ \A d \in Containers \ {c} :
                        /\ pc'[d] = pc[d] /\ next'[d] = next[d]
                        /\ added'[d] = added[d] /\ new'[d] = new[d]
<1> USE NumQuestionsIsPositive, MaxCrashesIsNat, ThreeRevisions
    DEF Inv, TypeOK, Goto, rows, schema, sessions, history, Booting, Questions
<1>1. CASE Start(c)
  BY <1>1 DEF Start
<1>2. CASE ReadRevision(c)
  BY <1>2 DEF ReadRevision
<1>3. CASE CreateTables(c)
  BY <1>3 DEF CreateTables
<1>4. CASE CommitRevisions(c)
  BY <1>4 DEF CommitRevisions
<1>5. CASE LookUp(c)
  BY <1>5 DEF LookUp
<1>6. CASE SeedQuestions(c)
  <2> HIDE DEF Questions
  <2>1. questions \in [Questions -> Nat] /\ added[c] \in SUBSET Questions
    OBVIOUS
  <2>2. questions' \in [Questions -> Nat]
    BY <1>6, <2>1, InsertedCounts DEF SeedQuestions
  <2> QED
    BY <1>6, <2>2 DEF SeedQuestions
<1>7. CASE ReadKeys(c)
  BY <1>7 DEF ReadKeys, Missing
<1>8. CASE SeedRubrics(c)
  BY <1>8 DEF SeedRubrics, AfterRubrics
<1>9. CASE Die(c)
  BY <1>9 DEF Die
<1> QED
  BY <1>1, <1>2, <1>3, <1>4, <1>5, <1>6, <1>7, <1>8, <1>9 DEF Step, Boot

\* A container that creates tables keeps the others from it until it commits or
\* dies, and what it commits is the last revision.
LEMMA StepMigrating == ASSUME Inv, NEW c \in Containers, Step(c) PROVE Migrating'
<1>0. TypeOK /\ Migrating
  BY DEF Inv
<1> USE <1>0, NoneIsNoContainer, ThreeRevisions
    DEF TypeOK, Migrating, UpToDate, Goto, rows, schema, sessions, history
<1>1. CASE Start(c)
  BY <1>1 DEF Start
<1>2. CASE ReadRevision(c)
  BY <1>2 DEF ReadRevision
<1>3. CASE CreateTables(c)
  BY <1>3 DEF CreateTables
<1>4. CASE CommitRevisions(c)
  BY <1>4 DEF CommitRevisions
<1>5. CASE LookUp(c)
  BY <1>5 DEF LookUp
<1>6. CASE SeedQuestions(c)
  BY <1>6 DEF SeedQuestions
<1>7. CASE ReadKeys(c)
  BY <1>7 DEF ReadKeys
<1>8. CASE SeedRubrics(c)
  BY <1>8 DEF SeedRubrics, AfterRubrics
<1>9. CASE Die(c)
  BY <1>9 DEF Die
<1> QED
  BY <1>1, <1>2, <1>3, <1>4, <1>5, <1>6, <1>7, <1>8, <1>9 DEF Step, Boot

\* The schema only gains revisions, and once complete it stays so; questions are
\* only ever added.
LEMMA StepGrows ==
  ASSUME Inv, NEW c \in Containers, Step(c)
  PROVE  /\ head = Len(Revisions) => head' = Len(Revisions)
         /\ \A q \in Questions : questions[q] > 0 => questions'[q] > 0
         /\ ~SeedQuestions(c) => questions' = questions
<1>1. CASE SeedQuestions(c)
  <2>1. questions \in [Questions -> Nat] /\ added[c] \in SUBSET Questions
    BY DEF Inv, TypeOK
  <2>2. \A q \in Questions : questions[q] > 0 => questions'[q] > 0
    BY <1>1, <2>1, InsertedCounts DEF SeedQuestions
  <2> QED
    BY <1>1, <2>2 DEF SeedQuestions, schema
<1>2. CASE ~SeedQuestions(c)
  <2>1. questions' = questions /\ (head' = head \/ head' = Len(Revisions))
    BY <1>2 DEF Step, Boot, Start, ReadRevision, CreateTables, CommitRevisions, LookUp,
       ReadKeys, SeedRubrics, Die, rows, schema
  <2> QED
    BY <1>2, <2>1
<1> QED
  BY <1>1, <1>2

\* What a container has behind it stays so through its own step, and through
\* those of the others.
LEMMA StepSettled ==
  ASSUME Inv, NEW c \in Containers, Step(c), NEW d \in Containers
  PROVE  Migrated(d)' /\ Listed(d)'
<1> DEFINE Goal == Migrated(d)' /\ Listed(d)'
<1>0. TypeOK /\ Migrated(d) /\ Listed(d)
  BY DEF Inv
<1>1. CASE d # c
  <2>1. pc'[d] = pc[d] /\ next'[d] = next[d] /\ added'[d] = added[d]
    BY <1>1, StepTypes
  <2> QED
    BY <1>0, <2>1, StepGrows DEF Migrated, Listed
<1>2. CASE d = c
  <2> USE <1>0, <1>2 DEF TypeOK, Migrated, Listed, Goto, rows, schema, sessions, history
  <2>1. CASE Start(c)
    BY <2>1 DEF Start
  <2>2. CASE ReadRevision(c)
    <3>1. next'[c] = 1 /\ pc'[c] \in {"questions", "upgrade"} /\ head' = head
      BY <2>2 DEF ReadRevision
    <3>2. pc'[c] = "questions" => head = Len(Revisions)
      BY <2>2 DEF ReadRevision, UpToDate
    <3> QED
      BY <3>1, <3>2 DEF Questions
  <2>3. CASE CreateTables(c)
    BY <2>3 DEF CreateTables
  <2>4. CASE CommitRevisions(c)
    <3>1. next'[c] = 1 /\ pc'[c] = "questions" /\ head' = Len(Revisions)
      BY <2>4 DEF CommitRevisions
    <3> QED
      BY <3>1 DEF Questions
  <2>5. CASE LookUp(c)
    <3>1. /\ pc' = pc /\ pc[c] = "questions" /\ next'[c] = next[c] + 1 /\ next[c] \in Nat
          /\ head' = head /\ questions' = questions
          /\ added'[c] = IF questions[next[c]] > 0 THEN added[c] ELSE added[c] \cup {next[c]}
      BY <2>5, NumQuestionsIsPositive DEF LookUp, Found
    <3>2. \A q \in Questions : q < next'[c] => q < next[c] \/ q = next[c]
      BY <3>1, NumQuestionsIsPositive DEF Questions
    <3> QED
      BY <3>1, <3>2
  <2>6. CASE SeedQuestions(c)
    <3>1. questions \in [Questions -> Nat] /\ added[c] \in SUBSET Questions
      OBVIOUS
    <3>2. \A q \in Questions : q < next[c]
      BY <2>6, NumQuestionsIsPositive DEF SeedQuestions, LookedUp, Questions
    <3>3. \A q \in Questions : questions[q] > 0 \/ q \in added[c]
      BY <2>6, <3>2 DEF SeedQuestions
    <3>4. \A q \in Questions : questions'[q] > 0
      <4>1. questions' = Inserted(questions, added[c])
        BY <2>6 DEF SeedQuestions
      <4>2. \A q \in Questions :
              questions'[q] = IF q \in added[c] THEN questions[q] + 1 ELSE questions[q]
        BY ONLY <3>1, <4>1, InsertedCounts
      <4>3. \A q \in Questions : questions[q] \in Nat
        BY <3>1
      <4> QED
        BY ONLY <3>3, <4>2, <4>3
    <3> QED
      BY <2>6, <3>4 DEF SeedQuestions
  <2>7. CASE ReadKeys(c)
    BY <2>7 DEF ReadKeys
  <2>8. CASE SeedRubrics(c)
    BY <2>8 DEF SeedRubrics, AfterRubrics
  <2>9. CASE Die(c)
    BY <2>9 DEF Die
  <2> QED
    BY <2>1, <2>2, <2>3, <2>4, <2>5, <2>6, <2>7, <2>8, <2>9 DEF Step, Boot
<1> QED
  BY <1>1, <1>2

\* What is missing when the keys are read is the whole ladder or nothing, and what
\* is inserted then is inserted in one transaction.
LEMMA StepWhole == ASSUME Inv, NEW c \in Containers, Step(c) PROVE Whole'
<1> USE DEF Inv, Whole, TypeOK
<1>1. \A d \in Containers \ {c} : new'[d] = new[d]
  BY StepTypes
<1>2. CASE ReadKeys(c)
  BY <1>1, <1>2 DEF ReadKeys, Missing, rows
<1>3. CASE SeedRubrics(c)
  <2>1. rubrics' \in {{}, Rubrics}
    BY <1>3 DEF SeedRubrics
  <2> QED
    BY <1>1, <1>3, <2>1 DEF SeedRubrics
<1>4. CASE SeedQuestions(c)
  BY <1>1, <1>4 DEF SeedQuestions
<1>5. CASE ~(ReadKeys(c) \/ SeedRubrics(c) \/ SeedQuestions(c))
  <2>1. rubrics' = rubrics /\ new'[c] \in {new[c], {}}
    BY <1>5 DEF Step, Boot, Start, ReadRevision, CreateTables, CommitRevisions, LookUp, Die,
       rows, sessions
  <2> QED
    BY <1>1, <2>1
<1> QED
  BY <1>2, <1>3, <1>4, <1>5

\* Without an overlap it is one container's boot that goes on, and what it commits
\* nobody else has inserted since it looked.
LEMMA StepOneAtATime ==
  ASSUME Inv, NEW c \in Containers, Step(c), ~overlapped'
  PROVE  OneAtATime'
<1>0. TypeOK /\ OneAtATime /\ (\A d \in Containers \ {c} :
                               pc'[d] = pc[d] /\ added'[d] = added[d])
  <2>1. ~overlapped
    BY DEF Step, Boot, Start, ReadRevision, CreateTables, CommitRevisions, LookUp, SeedQuestions,
       ReadKeys, SeedRubrics, Die, history
  <2> QED
    BY <2>1, StepTypes DEF Inv
<1>1. \A d \in Containers : pc'[c] \in Booting /\ pc[d] \in Booting => c = d
  <2>1. CASE Start(c)
    BY <2>1 DEF Start
  <2>2. CASE Boot(c)
    <3>1. pc[c] \in Booting
      BY <2>2 DEF Boot, ReadRevision, CreateTables, CommitRevisions, LookUp, SeedQuestions,
         ReadKeys, SeedRubrics, Booting
    <3> QED
      BY <1>0, <3>1 DEF OneAtATime
  <2>3. CASE Die(c)
    BY <1>0, <2>3 DEF Die, Goto, TypeOK, Booting
  <2> QED
    BY <2>1, <2>2, <2>3 DEF Step
<1>2. \A d, e \in Containers : pc'[d] \in Booting /\ pc'[e] \in Booting => d = e
  BY <1>0, <1>1 DEF OneAtATime
<1>3. CASE SeedQuestions(c)
  <2>1. questions \in [Questions -> Nat] /\ added[c] \in SUBSET Questions
    BY <1>0 DEF TypeOK
  <2>2. /\ pc[c] = "questions" /\ questions' = Inserted(questions, added[c])
        /\ added'[c] = {}
    BY <1>0, <1>3 DEF SeedQuestions, TypeOK
  <2>3. \A d \in Containers : added'[d] = {}
    BY <1>0, <2>2 DEF OneAtATime, TypeOK, Booting
  <2>4. \A q \in Questions : questions'[q] <= 1
    <3> SUFFICES ASSUME NEW q \in Questions PROVE questions'[q] <= 1
      OBVIOUS
    <3>1. questions'[q] = IF q \in added[c] THEN questions[q] + 1 ELSE questions[q]
      BY <2>1, <2>2, InsertedCounts
    <3>2. questions[q] <= 1 /\ (q \in added[c] => questions[q] = 0)
      BY <1>0 DEF OneAtATime
    <3> QED
      BY <3>1, <3>2
  <2> QED
    BY <1>2, <2>3, <2>4 DEF OneAtATime
<1>4. CASE ~SeedQuestions(c)
  <2>1. questions' = questions
    BY <1>4, StepGrows
  <2>2. \A q \in added'[c] : questions[q] = 0
    <3>1. CASE LookUp(c)
      <4>1. /\ next[c] \in Questions /\ questions[next[c]] \in Nat
            /\ added'[c] = IF questions[next[c]] > 0 THEN added[c] ELSE added[c] \cup {next[c]}
        BY <1>0, <3>1 DEF LookUp, Found, TypeOK
      <4> QED
        BY <1>0, <4>1 DEF OneAtATime
    <3>2. CASE ~LookUp(c)
      <4>1. added'[c] \in {added[c], {}}
        BY <1>0, <1>4, <3>2 DEF Step, Boot, Start, ReadRevision, CreateTables, CommitRevisions,
           ReadKeys, SeedRubrics, Die, sessions, TypeOK
      <4> QED
        BY <1>0, <4>1 DEF OneAtATime
    <3> QED
      BY <3>1, <3>2
  <2> QED
    BY <1>0, <1>2, <2>1, <2>2 DEF OneAtATime
<1> QED
  BY <1>3, <1>4

\* The holders of a question are finitely many, no more than there are containers,
\* and fewer hold it once one of them does not.
LEMMA HoldersCount ==
  ASSUME NEW more, more \subseteq Containers, NEW fewer, fewer \subseteq more
  PROVE  /\ Cardinality(fewer) \in Nat /\ Cardinality(more) \in Nat
         /\ Cardinality(Containers) \in Nat
         /\ Cardinality(fewer) <= Cardinality(more)
         /\ Cardinality(more) <= Cardinality(Containers)
         /\ \A c \in more : fewer = more \ {c} => Cardinality(fewer) = Cardinality(more) - 1
<1>1. IsFiniteSet(more) /\ IsFiniteSet(fewer)
  BY ContainersAreReplicas, FS_Subset
<1>2. Cardinality(fewer) <= Cardinality(more) /\ Cardinality(more) <= Cardinality(Containers)
  BY <1>1, ContainersAreReplicas, FS_Subset
<1>3. \A c \in more : Cardinality(more \ {c}) = Cardinality(more) - 1
  BY <1>1, FS_RemoveElement
<1> QED
  BY <1>1, <1>2, <1>3, ContainersAreReplicas, FS_CardinalityType

\* Who looks a question up that is there does not add it, and who commits one is
\* about to no longer: rows and holders together do not outgrow the containers.
LEMMA StepRaced ==
  ASSUME Inv, NEW c \in Containers, Step(c), NEW q \in Questions
  PROVE  Raced(q)'
<1>0. /\ questions \in [Questions -> Nat] /\ added[c] \in SUBSET Questions
      /\ Raced(q) /\ DOMAIN added = Containers
      /\ \A d \in Containers \ {c} : added'[d] = added[d]
  BY StepTypes DEF Inv, TypeOK
<1>1. Holders(q) \subseteq Containers /\ Holders(q)' \subseteq Containers
  BY DEF Holders
<1>2. CASE SeedQuestions(c)
  <2>1. added'[c] = {} /\ questions' = Inserted(questions, added[c])
    BY <1>0, <1>2 DEF SeedQuestions
  <2>2. questions'[q] = IF q \in added[c] THEN questions[q] + 1 ELSE questions[q]
    BY <1>0, <2>1, InsertedCounts
  <2>3. Holders(q)' = Holders(q) \ {c}
    BY <1>0, <2>1 DEF Holders
  <2>4. CASE q \in added[c]
    <3>1. c \in Holders(q)
      BY <2>4 DEF Holders
    <3>2. /\ Cardinality(Holders(q)') = Cardinality(Holders(q)) - 1
          /\ Cardinality(Holders(q)) \in Nat /\ Cardinality(Containers) \in Nat
          /\ Cardinality(Holders(q)) <= Cardinality(Containers)
      BY <1>1, <2>3, <3>1, HoldersCount
    <3> QED
      BY <1>0, <2>2, <2>4, <3>2 DEF Raced
  <2>5. CASE q \notin added[c]
    <3>1. Holders(q)' = Holders(q)
      BY <2>3, <2>5 DEF Holders
    <3> QED
      BY <1>0, <2>2, <2>5, <3>1 DEF Raced
  <2> QED
    BY <2>4, <2>5
<1>3. CASE ~SeedQuestions(c)
  <2>1. questions' = questions
    BY <1>3, StepGrows
  <2>2. questions[q] > 0 => Holders(q)' \subseteq Holders(q)
    <3> SUFFICES ASSUME questions[q] > 0, q \in added'[c] PROVE q \in added[c]
      BY <1>0 DEF Holders
    <3>1. CASE LookUp(c)
      BY <1>0, <3>1 DEF LookUp, Found
    <3>2. CASE ~LookUp(c)
      <4>1. added'[c] \in {added[c], {}}
        BY <1>0, <1>3, <3>2 DEF Step, Boot, Start, ReadRevision, CreateTables, CommitRevisions,
           ReadKeys, SeedRubrics, Die, sessions
      <4> QED
        BY <4>1
    <3> QED
      BY <3>1, <3>2
  <2>3. ASSUME questions[q] > 0
        PROVE  /\ Cardinality(Holders(q)') <= Cardinality(Holders(q))
               /\ Cardinality(Holders(q)') \in Nat /\ Cardinality(Holders(q)) \in Nat
               /\ Cardinality(Containers) \in Nat
    BY <1>1, <2>2, <2>3, HoldersCount
  <2> QED
    BY <1>0, <2>1, <2>3 DEF Raced
<1> QED
  BY <1>2, <1>3

\* The invariant is inductive.
LEMMA StepInv == Inv /\ [Next]_vars => Inv'
<1> SUFFICES ASSUME Inv, [Next]_vars PROVE Inv'
  OBVIOUS
<1>1. ASSUME NEW c \in Containers, Step(c) PROVE Inv'
  BY <1>1, StepTypes, StepMigrating, StepSettled, StepWhole, StepRaced, StepOneAtATime
     DEF Inv
<1>2. CASE UNCHANGED vars
  BY <1>2 DEF Inv, TypeOK, Migrating, UpToDate, Migrated, Listed, Whole, Raced, Holders,
     OneAtATime, vars, rows, schema, sessions, history
<1> QED
  BY <1>1, <1>2 DEF Next, Step

-----------------------------------------------------------------------------

\* Every variable keeps its type, and a session holds inserts only while its
\* script runs.
THEOREM TypesHold == Spec => []TypeOK
<1>1. Inv => TypeOK
  BY DEF Inv
<1> QED
  BY <1>1, InitInv, StepInv, PTL DEF Spec

\* No script and no server meets a schema without its tables, however many
\* containers upgrade at once and die of it.
THEOREM TablesThere == Spec => []TablesAreThere
<1>1. Inv => TablesAreThere
  <2> SUFFICES ASSUME Inv, NEW c \in Containers PROVE Needs(pc[c]) \subseteq Tables(head)
    BY DEF TablesAreThere
  <2>1. pc[c] \in {"questions", "rubrics", "embed", "serving"} => head = Len(Revisions)
    BY DEF Inv, Migrated
  <2>2. CASE pc[c] \in {"questions", "rubrics", "embed", "serving"}
    BY <2>1, <2>2, AllTables DEF Needs
  <2>3. CASE pc[c] \notin {"questions", "rubrics", "embed", "serving"}
    BY <2>3 DEF Needs
  <2> QED
    BY <2>2, <2>3
<1> QED
  BY <1>1, InitInv, StepInv, PTL DEF Spec

\* A container that serves has every sample question to offer: the boot goes
\* through the whole list, and no step takes a question away.
THEOREM ServedQuestionsThere == Spec => []ServedQuestionsAreThere
<1>1. Inv => ServedQuestionsAreThere
  BY DEF Inv, Listed, ServedQuestionsAreThere
<1> QED
  BY <1>1, InitInv, StepInv, PTL DEF Spec

\* The rubric ladder is never there in part, however many containers seed it at
\* once and wherever they die.
THEOREM LadderWhole == Spec => []LadderIsWhole
<1>1. Inv => LadderIsWhole
  BY DEF Inv, Whole, LadderIsWhole
<1> QED
  BY <1>1, InitInv, StepInv, PTL DEF Spec

\* A question has a row of each replica at most, however many of them boot together
\* and however often they die, and one alone while no two boot together: what is
\* committed before a container looks is never inserted by it.
THEOREM DuplicatesBounded == Spec => []DuplicatesAreBounded
<1>1. Inv => DuplicatesAreBounded
  <2> SUFFICES ASSUME Inv, NEW q \in Questions
               PROVE  questions[q] <= IF overlapped THEN Cardinality(Containers) ELSE 1
    BY DEF DuplicatesAreBounded
  <2>1. CASE ~overlapped
    BY <2>1 DEF Inv, OneAtATime
  <2>2. CASE overlapped
    <3>1. Holders(q) \subseteq Containers
      BY DEF Holders
    <3>2. Cardinality(Holders(q)) \in Nat /\ Cardinality(Containers) \in Nat
      BY <3>1, HoldersCount
    <3>3. questions[q] \in Nat /\ Raced(q)
      BY DEF Inv, TypeOK
    <3> QED
      BY <2>2, <3>2, <3>3 DEF Raced
  <2> QED
    BY <2>1, <2>2
<1> QED
  BY <1>1, InitInv, StepInv, PTL DEF Spec

-----------------------------------------------------------------------------
(* What EveryoneServes rests on *)

\* A container's next step can be taken: what stops one that does not serve is
\* another one's tables, not committed.  This is ENABLED (Start(c) \/ Boot(c)),
\* spelled out.
CanBoot(c) == pc[c] # "serving" /\ (pc[c] = "upgrade" => migrator = None)

\* Who cannot go on waits for one that can.
NobodyHangs ==
  \A c \in Containers : pc[c] # "serving" =>
    CanBoot(c) \/ (migrator \in Containers \ {c} /\ CanBoot(migrator))

\* How many steps a boot has left, at most.  An upgrade that loses the race ends
\* in a restart that finds the schema complete.
Distance(c) ==
  CASE pc[c] = "down" -> NumQuestions + (IF UpToDate THEN 5 ELSE 8)
    [] pc[c] = "alembic" -> NumQuestions + (IF UpToDate THEN 4 ELSE 7)
    [] pc[c] = "upgrade" -> NumQuestions + 6
    [] pc[c] = "commit" -> NumQuestions + 4
    [] pc[c] = "questions" -> NumQuestions + 4 - next[c]
    [] pc[c] = "rubrics" -> 2
    [] pc[c] = "embed" -> 1
    [] pc[c] = "serving" -> 0

DistanceIsBounded ==
  \A c \in Containers : /\ Distance(c) \in 0 .. NumQuestions + 8
                        /\ Distance(c) = 0 <=> pc[c] = "serving"

\* A start or a step of a boot brings its container nearer and takes no other
\* one further away.
ComesNearer ==
  \A c \in Containers : Start(c) \/ Boot(c) =>
    /\ Distance(c)' < Distance(c)
    /\ \A d \in Containers \ {c} : Distance(d)' <= Distance(d)

LEMMA DistanceBounds ==
  ASSUME Inv, NEW c \in Containers
  PROVE  Distance(c) \in 0 .. NumQuestions + 8 /\ (Distance(c) = 0 <=> pc[c] = "serving")
<1>1. /\ pc[c] \in {"down", "serving"} \cup Booting
      /\ next[c] \in 1 .. NumQuestions + 1
      /\ NumQuestions \in Nat \ {0}
  BY NumQuestionsIsPositive DEF Inv, TypeOK
<1> QED
  BY <1>1 DEF Distance, Booting

\* The steps of the others leave where a container is alone; the one thing that
\* changes for it is that the schema may be complete by now.
LEMMA OthersDistance ==
  ASSUME Inv, NEW c \in Containers, Step(c), NEW d \in Containers \ {c}
  PROVE  Distance(d)' <= Distance(d)
<1>1. pc'[d] = pc[d] /\ next'[d] = next[d] /\ (UpToDate => UpToDate')
  BY StepTypes, StepGrows DEF UpToDate
<1>2. /\ pc[d] \in {"down", "serving"} \cup Booting
      /\ next[d] \in 1 .. NumQuestions + 1
      /\ NumQuestions \in Nat \ {0}
  BY NumQuestionsIsPositive DEF Inv, TypeOK
<1> QED
  BY <1>1, <1>2 DEF Distance, Booting

LEMMA OwnDistance ==
  ASSUME Inv, NEW c \in Containers, Start(c) \/ Boot(c)
  PROVE  Distance(c)' < Distance(c)
<1>0. /\ TypeOK /\ Migrating /\ Listed(c) /\ Migrated(c)
      /\ NumQuestions \in Nat \ {0} /\ next[c] \in 1 .. NumQuestions + 1
  BY NumQuestionsIsPositive DEF Inv, TypeOK
<1> USE <1>0 DEF Distance, Goto
<1>1. CASE Start(c)
  <2>1. pc[c] = "down" /\ pc'[c] = "alembic" /\ head' = head
    BY <1>1 DEF Start, TypeOK, schema
  <2> QED
    BY <2>1 DEF UpToDate
<1>2. CASE ReadRevision(c)
  <2>1. /\ pc[c] = "alembic" /\ head' = head /\ next'[c] = 1
        /\ pc'[c] = IF UpToDate THEN "questions" ELSE "upgrade"
    BY <1>2 DEF ReadRevision, TypeOK, Listed, sessions
  <2> QED
    BY <2>1 DEF UpToDate
<1>3. CASE CreateTables(c)
  <2>1. pc[c] = "upgrade" /\ head' = head
    BY <1>3 DEF CreateTables
  <2>2. CASE Tables(head) = Tables(seen[c])
    <3>1. pc'[c] = "commit"
      BY <1>3, <2>2 DEF CreateTables, TypeOK
    <3> QED
      BY <2>1, <3>1
  <2>3. CASE Tables(head) # Tables(seen[c])
    <3>1. pc'[c] = "down" /\ UpToDate
      BY <1>3, <2>1, <2>3 DEF CreateTables, TypeOK, Migrating
    <3> QED
      BY <2>1, <3>1 DEF UpToDate
  <2> QED
    BY <2>2, <2>3
<1>4. CASE CommitRevisions(c)
  <2>1. pc[c] = "commit" /\ pc'[c] = "questions" /\ next'[c] = 1
    BY <1>4 DEF CommitRevisions, TypeOK, Listed, sessions
  <2> QED
    BY <2>1
<1>5. CASE LookUp(c)
  <2>1. pc[c] = "questions" /\ pc'[c] = "questions" /\ next'[c] = next[c] + 1
    BY <1>5 DEF LookUp, TypeOK
  <2>2. next[c] \in 1 .. NumQuestions
    BY <1>5 DEF LookUp, Questions
  <2> QED
    BY <2>1, <2>2
<1>6. CASE SeedQuestions(c)
  <2>1. pc[c] = "questions" /\ pc'[c] = "rubrics"
    BY <1>6 DEF SeedQuestions, TypeOK
  <2> QED
    BY <2>1
<1>7. CASE ReadKeys(c)
  <2>1. pc[c] = "rubrics" /\ pc'[c] \in {"serving", "embed"}
    BY <1>7 DEF ReadKeys, TypeOK
  <2> QED
    BY <2>1
<1>8. CASE SeedRubrics(c)
  <2>1. pc[c] = "embed" /\ pc'[c] = "serving"
    BY <1>8 DEF SeedRubrics, AfterRubrics, TypeOK
  <2> QED
    BY <2>1
<1> QED
  BY <1>1, <1>2, <1>3, <1>4, <1>5, <1>6, <1>7, <1>8 DEF Boot

\* No container hangs in its boot: one that waits for the schema waits for a
\* container that can commit, and a dead one's tables are gone with it.
THEOREM BootsGoOn == Spec => []NobodyHangs
<1>1. Inv => NobodyHangs
  <2> SUFFICES ASSUME Inv, NEW c \in Containers, pc[c] # "serving", ~CanBoot(c)
               PROVE  migrator \in Containers \ {c} /\ CanBoot(migrator)
    BY DEF NobodyHangs
  <2>1. pc[c] = "upgrade" /\ migrator \in Containers
    BY DEF CanBoot, Inv, TypeOK
  <2>2. pc[migrator] = "commit"
    BY <2>1 DEF Inv, Migrating
  <2> QED
    BY <2>1, <2>2 DEF CanBoot
<1> QED
  BY <1>1, InitInv, StepInv, PTL DEF Spec

\* A boot is over after at most NumQuestions + 8 steps of its container, a lost
\* race for the schema and the restart it costs included, whatever the others
\* do: no two containers keep each other from serving.
THEOREM BootsAreShort == Spec => []DistanceIsBounded /\ [][ComesNearer]_vars
<1>1. Inv => DistanceIsBounded
  BY DistanceBounds DEF DistanceIsBounded
<1>2. Inv => ComesNearer
  BY OwnDistance, OthersDistance DEF ComesNearer, Step
<1>3. Inv /\ [Next]_vars => [ComesNearer]_vars
  BY <1>2
<1> QED
  BY <1>1, <1>3, InitInv, StepInv, PTL DEF Spec

=============================================================================
