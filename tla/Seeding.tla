------------------------------- MODULE Seeding -------------------------------
(***************************************************************************)
(* What a backend container does before it serves                          *)
(* (backend/docker-entrypoint.sh): alembic upgrade head, seed_questions,   *)
(* seed_rubrics.                                                           *)
(*                                                                         *)
(* An upgrade runs every revision that is missing in one transaction; what *)
(* another one has created and not committed makes it wait, what another   *)
(* one has committed since it read the revision makes it fail, and the     *)
(* container with it.  seed_questions looks every question up by itself in *)
(* a table without a unique key, seed_rubrics all keys at once before it   *)
(* embeds what is missing, in a table that has one; each commits once, at  *)
(* its end.  A container may die at any step and is started again.         *)
(***************************************************************************)
EXTENDS Naturals, Sequences, FiniteSets

CONSTANTS
  Containers,
  NumQuestions,  \* keys of SAMPLE_QUESTIONS: 1 to NumQuestions
  MaxCrashes,    \* bound of the model: containers that die
  None           \* nobody

ASSUME NumQuestionsIsPositive == NumQuestions \in Nat \ {0}
ASSUME MaxCrashesIsNat == MaxCrashes \in Nat
ASSUME NoneIsNoContainer == None \notin Containers
ASSUME ContainersAreReplicas == IsFiniteSet(Containers) /\ Containers # {}

Questions == 1 .. NumQuestions

\* RUBRICS, by their keys: a ladder of levels for either section.
Rubrics == {"writing", "speaking"} \X {"A1", "A2", "B1", "B2", "C1", "C2"}

VARIABLES
  \* committed
  head,       \* alembic_version: how many revisions were applied
  questions,  \* rows of each question
  rubrics,    \* rubric chunks there
  \* the containers
  migrator,   \* the one that has created tables and not committed
  pc,         \* what a container is doing
  seen,       \* the revision its upgrade started from
  next,       \* the question it looks up next
  added,      \* questions its session has yet to commit
  new,        \* rubrics it found missing and has yet to commit
  crashes,
  overlapped  \* history: has a container started while another one booted?

rows == <<questions, rubrics>>
schema == <<head, migrator, seen>>
sessions == <<next, added, new>>
history == <<crashes, overlapped>>
vars == <<rows, schema, pc, sessions, history>>

\* The revisions, oldest first, by the tables they create.
CreateUsersQuestionsAnswersFeedback == {"questions", "users", "answers", "ai_feedback"}
AddSpeakingSessions == {"speaking_sessions"}
AddRubricChunks == {"rubric_chunks"}

Revisions == <<CreateUsersQuestionsAnswersFeedback, AddSpeakingSessions, AddRubricChunks>>

\* The tables at a revision.
Tables(revision) == UNION {Revisions[n] : n \in 1 .. revision}

Booting == {"alembic", "upgrade", "commit", "questions", "rubrics", "embed"}

TypeOK ==
  /\ head \in 0 .. Len(Revisions)
  /\ questions \in [Questions -> Nat]
  /\ rubrics \subseteq Rubrics
  /\ migrator \in Containers \cup {None}
  /\ pc \in [Containers -> {"down", "serving"} \cup Booting]
  /\ seen \in [Containers -> 0 .. Len(Revisions)]
  /\ next \in [Containers -> 1 .. NumQuestions + 1]
  /\ added \in [Containers -> SUBSET Questions]
  /\ new \in [Containers -> SUBSET Rubrics]
  /\ crashes \in 0 .. MaxCrashes
  /\ \A c \in Containers :
       (pc[c] # "questions" => added[c] = {}) /\ (pc[c] # "embed" => new[c] = {})
  /\ overlapped \in BOOLEAN

\* A database without tables, or one that a version before has left, with the
\* questions it had and, if it had their table, the rubrics, seeded or not.
Init ==
  /\ head \in 0 .. Len(Revisions)
  /\ questions \in [Questions -> {0, 1}]
  /\ head = 0 => questions = [q \in Questions |-> 0]
  /\ rubrics \in {{}, Rubrics}
  /\ head < Len(Revisions) => rubrics = {}
  /\ migrator = None
  /\ pc = [c \in Containers |-> "down"]
  /\ seen = [c \in Containers |-> 0]
  /\ next = [c \in Containers |-> 1]
  /\ added = [c \in Containers |-> {}]
  /\ new = [c \in Containers |-> {}]
  /\ crashes = 0
  /\ overlapped = FALSE

Goto(c, label) == pc' = [pc EXCEPT ![c] = label]

\* The container starts.
Start(c) ==
  /\ pc[c] = "down"
  /\ next' = [next EXCEPT ![c] = 1]
  /\ Goto(c, "alembic")
  /\ overlapped' = (overlapped \/ \E d \in Containers : pc[d] \in Booting)
  /\ UNCHANGED <<rows, schema, added, new, crashes>>

-----------------------------------------------------------------------------
(* alembic upgrade head *)

\* Mutation: a database with tables is taken for an up-to-date one.
HasTables == head > 0

UpToDate == head = Len(Revisions)

\* The revision on record says what to run.
ReadRevision(c) ==
  /\ pc[c] = "alembic"
  /\ seen' = [seen EXCEPT ![c] = head]
  /\ Goto(c, IF UpToDate THEN "questions" ELSE "upgrade")
  /\ UNCHANGED <<rows, head, migrator, sessions, history>>

\* CREATE TABLE waits for who creates the same table, and fails if it is there.
CreateTables(c) ==
  /\ pc[c] = "upgrade"
  /\ migrator = None
  /\ IF Tables(head) = Tables(seen[c])
       THEN migrator' = c /\ Goto(c, "commit")
       ELSE UNCHANGED migrator /\ Goto(c, "down")
  /\ UNCHANGED <<rows, head, seen, sessions, history>>

\* The revisions and their record are committed together.
CommitRevisions(c) ==
  /\ pc[c] = "commit"
  /\ head' = Len(Revisions)
  /\ migrator' = None
  /\ Goto(c, "questions")
  /\ UNCHANGED <<rows, seen, sessions, history>>

-----------------------------------------------------------------------------
(* seed_questions *)

\* The table after the rows a session added are committed.
Inserted(table, keys) == [k \in DOMAIN table |-> IF k \in keys THEN table[k] + 1 ELSE table[k]]

\* Mutation: the question is added without being looked up.
FoundNever(q) == FALSE

Found(q) == questions[q] > 0

\* One question is looked up, and added if it is not there.
LookUp(c) ==
  /\ pc[c] = "questions"
  /\ next[c] \in Questions
  /\ added' = [added EXCEPT ![c] = IF Found(next[c]) THEN @ ELSE @ \cup {next[c]}]
  /\ next' = [next EXCEPT ![c] = @ + 1]
  /\ UNCHANGED <<rows, schema, pc, new, history>>

\* Mutation: the scripts run side by side, and nobody waits for the first.
Looked(c) == next[c] > 1

\* The whole list was looked up.
LookedUp(c) == next[c] > NumQuestions

SeedQuestions(c) ==
  /\ pc[c] = "questions"
  /\ LookedUp(c)
  /\ questions' = Inserted(questions, added[c])
  /\ added' = [added EXCEPT ![c] = {}]
  /\ Goto(c, "rubrics")
  /\ UNCHANGED <<rubrics, schema, next, new, history>>

-----------------------------------------------------------------------------
(* seed_rubrics *)

\* filter_new
Missing == Rubrics \ rubrics

\* The keys present are read; with nothing missing the script is done.
ReadKeys(c) ==
  /\ pc[c] = "rubrics"
  /\ new' = [new EXCEPT ![c] = Missing]
  /\ Goto(c, IF Missing = {} THEN "serving" ELSE "embed")
  /\ UNCHANGED <<rows, schema, next, added, history>>

\* Mutation: a failed script ends the boot, as set -e has it.
AfterRubricsUnlessFailed(seeded) == IF seeded THEN "serving" ELSE "down"

\* || echo
AfterRubrics(seeded) == "serving"

\* Mutation: a commit per row, and the gateway is lost after the first.
SeedRubricsOneByOne(c) ==
  /\ pc[c] = "embed"
  /\ \E key \in new[c] : rubrics' = rubrics \cup {key}
  /\ new' = [new EXCEPT ![c] = {}]
  /\ Goto(c, AfterRubrics(TRUE))
  /\ UNCHANGED <<questions, schema, next, added, history>>

\* The gateway embeds them and all are inserted, unless one is there by now; or
\* it does not, and the container serves without.
SeedRubrics(c) ==
  /\ pc[c] = "embed"
  /\ \E seeded \in BOOLEAN :
       /\ seeded => new[c] \cap rubrics = {}
       /\ rubrics' = IF seeded THEN rubrics \cup new[c] ELSE rubrics
       /\ Goto(c, AfterRubrics(seeded))
  /\ new' = [new EXCEPT ![c] = {}]
  /\ UNCHANGED <<questions, schema, next, added, history>>

-----------------------------------------------------------------------------

\* Mutation: what a dead session had added stays around.
DieOpen(c) ==
  /\ pc[c] # "down"
  /\ crashes < MaxCrashes
  /\ crashes' = crashes + 1
  /\ migrator' = IF migrator = c THEN None ELSE migrator
  /\ Goto(c, "down")
  /\ UNCHANGED <<rows, head, seen, sessions, overlapped>>

\* The container dies; an open transaction rolls back.
Die(c) ==
  /\ pc[c] # "down"
  /\ crashes < MaxCrashes
  /\ crashes' = crashes + 1
  /\ migrator' = IF migrator = c THEN None ELSE migrator
  /\ added' = [added EXCEPT ![c] = {}]
  /\ new' = [new EXCEPT ![c] = {}]
  /\ Goto(c, "down")
  /\ UNCHANGED <<rows, head, seen, next, overlapped>>

Boot(c) ==
  \/ ReadRevision(c) \/ CreateTables(c) \/ CommitRevisions(c)
  \/ LookUp(c) \/ SeedQuestions(c)
  \/ ReadKeys(c) \/ SeedRubrics(c)

Next == \E c \in Containers : Start(c) \/ Boot(c) \/ Die(c)

Spec == Init /\ [][Next]_vars

\* A container that is down is started again, and one that boots goes on.
FairSpec == Spec /\ \A c \in Containers : WF_vars(Start(c) \/ Boot(c))

-----------------------------------------------------------------------------

\* The tables a step of a container reads or writes are there
\* (docker-entrypoint.sh:4-19).
Needs(label) ==
  CASE label \in {"questions"} -> {"questions"}
    [] label \in {"rubrics", "embed"} -> {"rubric_chunks"}
    [] label = "serving" -> Tables(Len(Revisions))
    [] OTHER -> {}

TablesAreThere == \A c \in Containers : Needs(pc[c]) \subseteq Tables(head)

\* Whoever serves has every sample question to offer, after any crashes
\* (docker-entrypoint.sh:9-10, seed_questions.py:382-399).
ServedQuestionsAreThere ==
  (\E c \in Containers : pc[c] = "serving") => \A q \in Questions : questions[q] > 0

\* The ladder of rubric bands is there in full or not at all, whatever dies or
\* seeds at the same time: grading is never grounded on part of it
\* (seed_rubrics.py:60-80, retrieval.py:10-16).
LadderIsWhole == rubrics \in {{}, Rubrics}

\* The table has no unique key, so containers that boot together may each insert a
\* question; but none inserts what was committed before it looked.  However often
\* containers die and start, a question comes to have a row of each replica at
\* most, and one alone while no two of them boot together (seed_questions.py:386-399).
DuplicatesAreBounded ==
  \A q \in Questions :
    questions[q] <= IF overlapped THEN Cardinality(Containers) ELSE 1

\* Once containers stop dying, each comes to serve for good: a lost race for the
\* schema is over at the next start, a dead one's tables hold nobody up, and
\* rubrics that cannot be seeded keep nobody from serving
\* (docker-entrypoint.sh:4-19).
EveryoneServes == \A c \in Containers : <>[](pc[c] = "serving")

=============================================================================
