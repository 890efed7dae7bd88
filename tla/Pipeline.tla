------------------------------ MODULE Pipeline ------------------------------
(***************************************************************************)
(* The model pipeline (pipeline/model-eval-workflow.yaml): workflows that  *)
(* evaluate a candidate model EvalRuns times by the cases of               *)
(* backend/scripts/eval_grader.py, gate on EvalRequired passes and promote *)
(* it, in two writes, or report.  Workflows are submitted by hand or by    *)
(* the cron workflow and nothing keeps two apart.  A pod may be lost at    *)
(* any point, which ends its task in the phase Error.                      *)
(***************************************************************************)
EXTENDS Naturals, Sequences, FiniteSets

CONSTANTS
  Workflows,     \* workflows submitted; each names its candidate
  Baseline,      \* the model deployed before
  EvalRuns,      \* eval-runs
  EvalRequired,  \* eval-required
  Blank          \* the empty string in the place of a list

ASSUME BaselineIsNoCandidate == Baseline \notin Workflows
ASSUME EvalRunsIsNat == EvalRuns \in Nat
ASSUME EvalRequiredIsNat == EvalRequired \in Nat

VARIABLES
  deployed,  \* INFERENCE_MODEL of deployment/tcf-backend
  registry,  \* the list in the config map
  pc,        \* a workflow's task, or how it ended
  ran,       \* eval runs so far
  passed,    \* those that passed
  clean,     \* history: those in which every case had the grade it should
  read,      \* the list promote read, with its own entry appended
  recorded,  \* history: the models that have been in the registry
  overlapped \* history: has a workflow started while another one ran?

evals == <<ran, passed, clean>>
vars == <<deployed, registry, pc, evals, read, recorded, overlapped>>

Running == {"eval", "promote", "apply", "set_env", "report"}
Ended == {"promoted", "reported", "errored"}

TypeOK ==
  /\ deployed \in Workflows \cup {Baseline}
  /\ registry = Blank \/ registry \in Seq(Workflows)
  /\ pc \in [Workflows -> {"new"} \cup Running \cup Ended]
  /\ ran \in [Workflows -> 0 .. EvalRuns]
  /\ passed \in [Workflows -> 0 .. EvalRuns]
  /\ clean \in [Workflows -> 0 .. EvalRuns]
  /\ DOMAIN read = Workflows
  /\ \A w \in Workflows : read[w] = Blank \/ read[w] \in Seq(Workflows)
  /\ recorded \subseteq Workflows
  /\ overlapped \in BOOLEAN

Init ==
  /\ deployed = Baseline
  /\ registry = <<>>
  /\ pc = [w \in Workflows |-> "new"]
  /\ ran = [w \in Workflows |-> 0]
  /\ passed = [w \in Workflows |-> 0]
  /\ clean = [w \in Workflows |-> 0]
  /\ read = [w \in Workflows |-> <<>>]
  /\ recorded = {}
  /\ overlapped = FALSE

Goto(w, task) == pc' = [pc EXCEPT ![w] = task]

Submit(w) ==
  /\ pc[w] = "new"
  /\ Goto(w, "eval")
  /\ overlapped' = (overlapped \/ \E v \in Workflows : pc[v] \in Running)
  /\ UNCHANGED <<deployed, registry, evals, read, recorded>>

-----------------------------------------------------------------------------
(* scripts/eval_grader.py *)

Levels == {"A1", "A2", "B1", "B2", "C1", "C2"}
Words == {"voulais", "pomme", "gentils"}

\* What the checks look at of a grade: the level, and which words of the essays
\* its corrections mention.
Grades == [level : Levels, corrected : SUBSET Words]

PoliteImparfait(grade) == "voulais" \notin grade.corrected
ObviousPluralError(grade) == grade.corrected \cap {"pomme", "gentils"} # {}
WeakShortAnswer(grade) == grade.level \in {"A1", "A2", "B1"}

\* The cases, each with the verdict of its check on a grade.
Cases(grade) == [polite_imparfait |-> PoliteImparfait(grade),
                 obvious_plural_error |-> ObviousPluralError(grade),
                 weak_short_answer |-> WeakShortAnswer(grade)]
Names == {"polite_imparfait", "obvious_plural_error", "weak_short_answer"}

\* run_case: the check's verdict on what the grader returns, or an exception of
\* the grader, which nothing catches.
Results(case) == {IF Cases(grade)[case] THEN "PASS" ELSE "FAIL" : grade \in Grades} \cup {"raised"}
Suites == {suite \in [Names -> {"PASS", "FAIL", "raised"}] :
             \A case \in Names : suite[case] \in Results(case)}

\* Mutation: a case whose grader raises is passed over.
ExitsZeroUnlessFailed(suite) == \A case \in Names : suite[case] # "FAIL"

\* main
ExitsZero(suite) == \A case \in Names : suite[case] = "PASS"

\* What a run comes to: whether the script exits with 0, and whether it should.
Verdicts == {[exit0 |-> ExitsZero(suite), right |-> suite = [case \in Names |-> "PASS"]] :
               suite \in Suites}

\* One more run for w.
Count(w, run) ==
  /\ ran' = [ran EXCEPT ![w] = @ + 1]
  /\ passed' = [passed EXCEPT ![w] = @ + IF run.exit0 THEN 1 ELSE 0]
  /\ clean' = [clean EXCEPT ![w] = @ + IF run.right THEN 1 ELSE 0]

-----------------------------------------------------------------------------
(* The workflow *)

\* Mutation: the loop runs once more than it should.
EvalOnceMore(w) ==
  /\ pc[w] = "eval"
  /\ ran[w] <= EvalRuns
  /\ \E run \in Verdicts : Count(w, run)
  /\ UNCHANGED <<deployed, registry, pc, read, recorded, overlapped>>

\* One run of the regression against the candidate.
Eval(w) ==
  /\ pc[w] = "eval"
  /\ ran[w] < EvalRuns
  /\ \E run \in Verdicts : Count(w, run)
  /\ UNCHANGED <<deployed, registry, pc, read, recorded, overlapped>>

\* [ "$passed" -ge "$EVAL_REQUIRED" ]
Passes(n) == n >= EvalRequired

\* The exit code of eval decides which task is next.
Gate(w) ==
  /\ pc[w] = "eval"
  /\ ran[w] = EvalRuns
  /\ Goto(w, IF Passes(passed[w]) THEN "promote" ELSE "report")
  /\ UNCHANGED <<deployed, registry, evals, read, recorded, overlapped>>

\* Mutation: the new entry replaces the list.
AppendedAlone(list, w) == <<w>>

\* jq makes nothing of nothing.
Appended(list, w) == IF list = Blank THEN Blank ELSE Append(list, w)

\* kubectl get | jq: should kubectl fail, jq succeeds on its empty output.
ReadRegistry(w) ==
  /\ pc[w] = "promote"
  /\ \E list \in {registry, Blank} : read' = [read EXCEPT ![w] = Appended(list, w)]
  /\ Goto(w, "apply")
  /\ UNCHANGED <<deployed, registry, evals, recorded, overlapped>>

\* Mutation: the backend is rolled first and the registry is left to later.
WriteRegistryLater(w) ==
  /\ pc[w] = "apply"
  /\ deployed' = w
  /\ Goto(w, "set_env")
  /\ UNCHANGED <<registry, evals, read, recorded, overlapped>>

\* kubectl apply
WriteRegistry(w) ==
  /\ pc[w] = "apply"
  /\ registry' = read[w]
  /\ recorded' = IF read[w] = Blank THEN recorded ELSE recorded \cup {w}
  /\ Goto(w, "set_env")
  /\ UNCHANGED <<deployed, evals, read, overlapped>>

\* kubectl set env
Roll(w) ==
  /\ pc[w] = "set_env"
  /\ deployed' = w
  /\ Goto(w, "promoted")
  /\ UNCHANGED <<registry, evals, read, recorded, overlapped>>

\* report-failure
Report(w) ==
  /\ pc[w] = "report"
  /\ Goto(w, "reported")
  /\ UNCHANGED <<deployed, registry, evals, read, recorded, overlapped>>

\* A pod is lost: no task depends on "eval.Errored".
Error(w) ==
  /\ pc[w] \in Running
  /\ Goto(w, "errored")
  /\ UNCHANGED <<deployed, registry, evals, read, recorded, overlapped>>

Run(w) == Eval(w) \/ Gate(w) \/ ReadRegistry(w) \/ WriteRegistry(w) \/ Roll(w) \/ Report(w)

Next == \E w \in Workflows : Submit(w) \/ Run(w) \/ Error(w)

Spec == Init /\ [][Next]_vars

-----------------------------------------------------------------------------

\* Whatever workflows interleave or break off, the backend runs the model it
\* ran before, or one that was put through every run and graded every case as it
\* should in as many of them as the policy asks (workflow.yaml:1-3, 66-75,
\* eval_grader.py:156-189).
OnlyGatedModelsServe ==
  deployed # Baseline =>
    ran[deployed] = EvalRuns /\ clean[deployed] >= EvalRequired

\* A model that serves was on record before it did, unless its workflow could not
\* read the list: promote writes the registry first (workflow.yaml:100-105).  The
\* entry may be gone since, overwritten by a workflow that had read the list before.
ServingWasRecorded ==
  deployed # Baseline /\ read[deployed] # Blank => deployed \in recorded

Entries == IF registry = Blank THEN {} ELSE {registry[i] : i \in DOMAIN registry}

\* The entries of promotions that went through, by their place.
Finished == {i \in DOMAIN registry : pc[registry[i]] = "promoted"}

\* Workflows one at a time lose no entry while the list can be read, and the list
\* tells what serves, also when promotions were broken off between their two
\* writes: the model of the last one that went through, and the baseline if none
\* did (workflow.yaml:96-105, model-registry.yaml:1-2).
SerialRegistryIsTrue ==
  ~overlapped /\ registry # Blank =>
    /\ \A w \in Workflows : pc[w] = "promoted" => w \in Entries
    /\ Cardinality(Entries) = Len(registry)
    /\ Finished = {} => deployed = Baseline
    /\ \A i \in Finished :
         (\A j \in Finished : j <= i) => deployed = registry[i]

-----------------------------------------------------------------------------
(* What documentation says and the code does not ensure. *)

\* model-registry.yaml:1-2: "a JSON array of promotion records, one per promoted
\* model".  A failed read of the list, without pipefail, writes an empty one; and
\* of two workflows that read the same list the later write drops the entry of the
\* earlier.
EveryPromotionIsRecorded ==
  \A w \in Workflows : pc[w] = "promoted" => w \in Entries

=============================================================================
