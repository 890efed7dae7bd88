# TLA+ models of the TCF AI tutor

The tutor lets a learner write or speak answers to TCF Canada tasks, grades them
with language models behind an inference gateway, and runs a pipeline that
evaluates and promotes the models.  This directory holds TLA+ modules of its
stateful parts, TLC configurations that check them on small instances, and
proofs that TLAPS checks.

Paths below are relative to the repository.

## Inventory

| Component | State it keeps | Operations | What is hard about it |
|---|---|---|---|
| Conversational sessions (`backend/app/routers/conversation.py`, `examiner.py`, `db.py`) | rows of `speaking_sessions`, `answers`, `ai_feedback`, `users`; the pool's connections | start, turn, finish, read | every handler reads its row once, waits for speech-to-text, model, voice or grader, then overwrites; nothing locks, and each holds a connection all the while |
| Submission and grading (`routers/answers.py`, `feedback.py`, `speaking.py`, `graph.py`, `speaking_graph.py`, `retrieval.py`, `db.py`) | the same `answers`, `ai_feedback`, `users` | submit (written, spoken), grade, read feedback | check-then-insert across model calls, a transaction that retrieval may abort, concurrent graph nodes, two routers over one table |
| Rate limiter (`gateway/app/ratelimit.py`) | an ordered map of token buckets | `allow(key)` | bounded map, LRU eviction, lazy refill |
| Gateway (`gateway/app/main.py`, `backends.py`, `metrics.py`) | gauge, counters, the memo `_rejects_response_format` | chat completions, embeddings | a gauge that must fall on every exit, retry and memo across an await, an upstream that changes |
| Speaking page and recorder (`frontend/src/app/speaking/[id]/page.tsx`, `lib/use-audio-recorder.ts`) | React state, refs to stream, recorder, timer and object URL | record, stop, re-record, submit, leave | browser callbacks at any later time, also after the page has gone |
| List and writing page (`frontend/src/app/page.tsx`, `questions/[id]/page.tsx`, `lib/api.ts`) | React state, the promise `inFlightQuestions` that pages share | load, follow a link, go back, edit, submit | calls that outlive their page, a shared promise that fails |
| Boot of a container (`backend/docker-entrypoint.sh`, `alembic/`, `scripts/seed_*.py`) | the schema and its revision, `questions`, `rubric_chunks` | upgrade, seed questions, seed rubrics | several replicas that upgrade and seed together, lookup-then-insert without a unique key, restarts, a seed that may fail |
| Model pipeline (`pipeline/model-eval-workflow.yaml`, `model-registry.yaml`, `backend/scripts/eval_grader.py`) | the registry's config map, the backend's model | eval, gate, promote, report | read-modify-write of the registry, two writes, lost pods, a pipe without `pipefail`, a regression that raises |
| Questions router, API-key gate, proxy and password gate | none | one request each | - |
| Transcription, voice, embeddings clients | a cached client | one upstream call each | outcomes only |
| Rubric texts, band and cost tables, the other eval scripts, benchmark, mock upstream, deployment files | constants or straight-line scripts | - | - |

How they interact: the browser calls the backend through the frontend's proxy;
the backend's routers share the database and call the gateway (models,
embeddings) and OpenAI (speech); the gateway calls its upstream; the
autoscaler reads the gateway's gauge; the pipeline evaluates a candidate
through the gateway and sets the backend's model.

What makes each component correct is what its module's properties say; see
"Modules and runs".  `PROJECT.json` lists every hazard at its line with the
properties that bear on it.

## Plan

1. `Conversation` (the longest protocol over shared rows, and the pool it holds
   connections of) with its abstract promise `Dialogue`; invariants and
   refinement, checked and proved.  *Done.*
2. `RateLimit` with its abstract promise `Limiter`; invariants and refinement,
   checked and proved.  *Done.*
3. `Grading` with its abstract promise `Grades`, `Gateway`: checked and proved.
   *Done.*
4. `Tab` (which extends `Practice`), `Seeding`, `Pipeline`: checked and proved.
   *Done.*
5. What the liveness properties rest on, proved as safety: who waits waits for
   somebody who can go on, and what is awaited is on its way.  *Done.*
6. Left: an abstract promise for `Gateway` (one response per request, counted once).
   A composition of the client library's retries with the limiter was considered
   and left out: it would model the library, and no document of the repository
   bounds what a grade may cost.

## How the modules are written

One module per component.  Every request, container or workflow is a process
with a program counter `pc` naming the await (or step) it is suspended at; one
action is everything the code does between two points where another process may
run, trailing writes included.  Asynchronous Python interleaves at `await` only,
so several statements, or several upstream calls between which nothing shared
is touched, are one action.  Where an outcome is the upstream's, the browser's
or the database's, the action chooses it.

`MC*.tla` add the symmetry sets used in safety runs.  Definitions introduced by
"Mutation:" are not part of a model: each is a way the definition after it
could have been got wrong, and stands in for it to show that a property notices.

Common abstractions: texts, scores, prompts, audio and vectors are left out
except for what the properties tell apart; logging and tracing are left out; a
`response` is its class of status.  Ids are chosen by the database from the
unused ones.

## Modules and runs

### Conversation, Turns, Dialogue

`Conversation` has the rows (`status`, `turns`, `answerId`, `answers`,
`feedback`, `devUser`) and, per request, its position and its local variables
(`snapshot` is the list the ORM object holds).  `StartRequest`, `StartUser`,
`StartTalk`, `StartSave` are `start_session`; `TurnRequest`, `TurnTalk`,
`TurnSave` are `take_turn`; `FinishRequest`, `FinishGrade`, `FinishSave` are
`finish_session`; `Respond` is the refresh after a commit; `ReadRequest` is
`get_session_detail`.  `Lose` is the death of a worker, which rolls back.
`TurnSave` overwrites the column with this request's own list, because
`_append` copies the list as it was loaded.

A request holds a connection of the engine's pool from its first statement to the
end of its transaction, through every upstream call (`Connected`); the refresh
after a commit takes one anew.  A request that finds none (`ConnectionIsFree`)
waits to be served.  That it may give up after the pool's timeout with a 500 is
left out: it has read and written nothing by then.

`Overlap` says whether requests on one session may overlap.  They do whenever a
client times out and tries again (the first handler goes on), or uses two tabs.

| Run | Shows |
|---|---|
| `conversation_overlap` | `GradeIsAtomic`, `RepliesSawTheirContext`, `CapIsAnnounced`, `FinishedSettles` with four overlapping requests on one session and a cap of 2 |
| `conversation_serial` | without overlap the endpoints implement `Dialogue`, `turn_index` names the reply, and no request waits for ever, neither on the development user's insert nor for a connection (`Answered`); three sessions, three requests, two connections, no symmetry since liveness is checked |
| `conversation_lost_turn` | `AcknowledgedTurnsAreKept` fails: of two turns in flight one is lost |

A cap of 2 and four requests allow a start, two turns and a finish, or a start
and three handlers at once: every pair of handlers meets in every order, and the
cap is reached with and without an overwrite.  Three serial requests are a start,
a turn and a finish, or a start that waits for another one's insert.  `IdIsLeft`
lets a start arrive only while an id is left for it.  Two connections for three
requests make the third wait; a request that held its connection while its refresh
takes another one would stop them all, which is what the mutant of `Answered` does.
In the runs with overlap there is a connection for each request, so that the pool
hides no interleaving.  The proofs below do away
with the bounds.

### RateLimit, Limiter

`RateLimit` is `allow()`: `place` is a key's position in the ordered map,
`tokens` and `updated` its bucket.  Time is a counter `now`, capped by
`MaxTime`; a token has `Unit` parts of which `Rate` come back per tick, so that
refill is fractional as in the code.  The lock makes a check one step.
`since`, `from` and `passed` are history: how many other keys were checked since a
key was, and how many of its requests were let through since an arbitrary moment
`from` while it kept its bucket.
`Limiter` is the promise: a bucket of its own for each caller that refills all
the time; where there are more callers than room, a request may let off one
other caller.

| Run | Shows |
|---|---|
| `limiter_flood` | four keys, room for three: `BoundedMap`, the lazy refill, the map and its order keep each caller's bucket as promised (`ImplementsLimiter`), a caller that keeps it passes at most burst plus rate times time from any moment on (`RateIsKept`), and only a caller colder than all others is dropped (`OnlyTheColdestGoes`) |

Half tokens come back per tick, and four of the five ticks refill an empty bucket: a bucket is
checked at every level, early, late, and after a denial.  Four keys are the fewest
that overflow the map.

### Grading, Grades

Both routers and both graders; `route[r]` says which.  `inserter` is the
uncommitted insert of the development user that others wait for on the unique
e-mail, `aborted` a transaction in which a query failed.  `Score` and `FindErrors`
are the nodes of a graph's first superstep, which run side by side, `Verify` the
node that joins them; `Outcomes` are those of a model call: an object of the
schema, an error the routers translate, or a completion that parses to nothing,
which they do not catch.  The two graphs are alike node for node (`RunGrader`,
`RunSpeakingGrader`).  `Grades` is the promise: an answer is submitted to a section
and stays there, is given a grade at most once, an oral one only if it was spoken,
and a grade that is shown is the one that was given.  What a response shows is mapped
from the labels and the rubric the response itself carries (`Seen`), not from the
answer it asked about.

| Run | Shows |
|---|---|
| `grading_shared` | three requests, two answers that may exist from before: everyone is shown the same grade of an answer (`GradesAreStable`), no grade is stored of a graph that runs or has failed (`GradesAreWhole`), and submitting, grading and reading implement `Grades` (`ImplementsGrades`) |
| `grading_retrieval` | `RetrievalNeverBreaksGrading` fails: the aborted transaction breaks the insert |

Three requests are two that grade one answer and one that reads its grade, or one
that creates the development user under them.

### Gateway

`Chat` is the handler up to its POST (limiter's verdict, body, gauge, memo),
`Forwarded` and `Reforwarded` what follows an answer, `Leave` the way out.
`posts` and `answers` record the traffic of a request, `epoch` the requests of
this process, for the properties.  `Upgrade` replaces the upstream, `Restart`
the process.  `Possible` is external: an old vLLM refuses `response_format`, a
newest one `guided_json`, and any 400 may quote the body.  `Completed` has the 500 of
a response whose body cannot be read.

| Run | Shows |
|---|---|
| `gateway_forward` | three requests, any backend (settings may change at a restart): `InflightIsExact`, `CountersAreExact`, `RetriesAreForFormat`, `VerdictIsHeeded` |

Three requests are two that probe at the same time and one that comes later.

### Practice, Tab

`Practice` is the speaking page: its buttons with their enabling conditions, the
hook's functions, and the browser: `Granted`, `Denied`, `Unrecordable` settle
`getUserMedia`, `OnStop` is a recorder's stop event, `Unplug` ends the tracks.
State set after the page has gone is dropped (`Show`, `Keep`); refs are not.

`Tab` puts that page among the others.  `Open` leaves one page and opens another,
which asks for the list (`GetQuestions`): pages share the request in flight, and
`Settle` shows its outcome to whichever page still awaits it.  `SubmitEssay` and
`Awaited` are the writing page's `onSubmit`, which goes on after its page has
gone; `sender` says from which visit it was called, so that `Tell` can drop what
a page of an earlier visit would set.  Every page loads the whole list and looks its
own question up in it (`Found`).  Each speaking page has a recorder of its own
(`Renewed`); the model keeps one at a time, so the next page has one once nothing of
the earlier one is to come or held (`Quiet`, `Released`), and a speaking page opened
straight from another one has none.

| Run | Shows |
|---|---|
| `practice_page` | two takes a page, three visits, two essays: `OneUrl`, `ClipStaysForGrading`, `ListIsShared`, `TextStaysForGrading`; a speaking page that goes with nothing to come lets go of microphone, URL and timer for good (`QuietUnmountCleansUp`), a stopped recording becomes a clip (`StoppedBecomesClip`) and no page loads for ever (`LoadingEnds`) |
| `practice_unmount` | `UnmountCleansUp` fails: the microphone of a page that has gone, or a URL made after it |

A take is over before the next one begins, so a third only repeats what two can
show.  Three visits are a page, another one, and the first one again while what
it awaited is still due; two essays are one from a page that has gone and one from
the page that is there, in either order.

### Seeding

Per container what it is doing (`pc`), the revision its upgrade has read, the
question it looks up next and the rows its session has added.  `ReadRevision`,
`CreateTables`, `CommitRevisions` are `alembic upgrade head`: one transaction for
all missing revisions, whose `CREATE TABLE` waits for whoever creates the same
table (`migrator`) and fails if it is there by then, and with it the container,
under `set -e`.  `LookUp`, `SeedQuestions` and `ReadKeys`, `SeedRubrics` are the
two scripts; the second may fail, which does not stop the boot.  `Die` rolls back
and `Start` runs the entrypoint again.  The database is new, or one that an older
version of the schema has left, with its ladder seeded or not.

| Run | Shows |
|---|---|
| `seeding_overlap` | three containers, one of which dies, two questions: `TablesAreThere`, `ServedQuestionsAreThere`, `LadderIsWhole`, and a question has at most one row per container, and one row as long as boots have not overlapped (`DuplicatesAreBounded`); all come to serve (`EveryoneServes`) |

Three containers are two that race and a third that finds what they left, or one
that dies between them.  `MaxCrashes` is 1: a container that dies again is in the
state it was in when it died before, unless others have moved on, which two of
them can.  `overlapped` remembers whether a container has started while another
one booted.

### Pipeline

Per workflow its task, its counted runs and the list it read.  A run of the
regression puts the script's cases through the grader: each case passes, fails or
raises (`Results`), and the script exits with 0 (`ExitsZero`) or not.  `clean`
counts the runs in which every case had the grade it should, so that the gate can
be held against what it is meant to measure.  `Blank` is what `kubectl get | jq`
yields when `kubectl` fails.  `Error` loses a pod, after which no task follows.

| Run | Shows |
|---|---|
| `pipeline_overlap` | the deployed 2-of-3 policy, three workflows: `OnlyGatedModelsServe`, `ServingWasRecorded`, and `SerialRegistryIsTrue` as long as they have not overlapped: the last promotion that went through is on record and serves, wherever others broke off |
| `pipeline_registry` | `EveryPromotionIsRecorded` fails: a failed read empties the registry, also when workflows run one at a time; two promotions that read together lose an entry too |

Three workflows are two that read the registry together and one that reads what
they left.

## Known divergences

Four runs show a disagreement between the code and what it says of itself.  Others
were met while modelling and have no run of their own:

- `examiner.py:13-14` says the cap forces the interview to end; it reaches only
  the `ended` of the response, and `/turn` goes on accepting answers
  (`CapIsAnnounced` is what does hold).
- A turn in flight at a finish commits after it (`TurnSave` looks at no status),
  so the dialogue on record is not the one graded; two finishes in flight both
  answer 201.  `FinishedSettles` is what does hold.  `docs/dev-log.md:158` lists
  both as 409.
- Of two overlapping requests to grade an answer the later one ends in a 500,
  not in the 409 of `docs/dev-log.md:36` (`Save`); `GradesAreStable` holds.
- `feedback.py:57-59` says reading a grade reports its original band; the router
  that serves the read looks the band up in its own table.
- `grader.py:298` says verification keeps only candidates; the items stored are
  the model's (`Verdicts`).
- `metrics.py:19-20` says the counter counts the requests handled; an exception no
  clause names ends in a 500 without a sample (`Reply`).
- `backend.yaml:21-23` says per-replica runs of migration and seed are safe because
  both are idempotent; two replicas that start together each insert a question
  (`LookUp`), never more rows than replicas (`DuplicatesAreBounded`), and of two that upgrade together one fails and is started again
  (`CreateTables`).
- `seed_rubrics.py:8-10` says the script is not run from the entrypoint;
  `docker-entrypoint.sh:17` runs it.
- Two promotions that read the registry together write one entry between them.  It
  breaks `EveryPromotionIsRecorded` too: with reads that never fail, the run's shortest
  trace is this one.
- `bench_gateway.py:33` says nearest rank; `round(x + 0.5) - 1` is one later where
  `p/100*n` is a whole odd number.

## Fairness

`Answered` (Conversation) assumes weak fairness of each admitted request's next
step.  The event loop resumes a coroutine whose await completes; awaits complete
because the SDK clients and the gateway have timeouts, and a lock wait in the
database ends with the holder's transaction.  No request is obliged to arrive, and
one that waits for a connection has not arrived yet: what is shown is that those
holding the connections always come to an end and give them back.

`StoppedBecomesClip` assumes that the browser fires the stop event of a recorder
that stops, `LoadingEnds` that a fetch settles one way or the other; nothing is
assumed of the learner.

`EveryoneServes` (Seeding) assumes that a container that boots goes on and that
one that is down is started again, as Kubernetes and Fly do; a compose file
without a restart policy does not, and there a container that loses the race for
the schema stays down.  Crashes are bounded and not fair.

## What is proved

Every safety property that a passing run checks, and the three refinements, for
every value of the constants within the modules' assumptions (the refinement of
`Limiter` and `WaitingEnds` for a finite set of callers and of sessions).  Hardly any is
inductive; each module says at its head what the invariant adds.  Some theorems
state what no run lists, since a run can only repeat them on a small instance;
each was checked with TLC on the instances above before it was proved.

- `ConversationProofs`: `TypeOK`, `GradeIsAtomic`, `FinishedSettles`,
  `RepliesSawTheirContext`, `CapIsAnnounced`.
  `HandlerInv` says what a suspended handler knows: a working turn
  or finish has a target that exists, a finish has loaded words to grade,
  nothing is stored of a request that has not saved.  With it `GradeIsAtomic`
  is preserved: only `FinishSave` touches the four columns, and writes them
  together.  For `RepliesSawTheirContext` the strengthening `CoherenceInv`
  speaks of the snapshots too: any list, on record or loaded, that has a reply
  of request r at i begins with r's own snapshot, followed by r's answer and
  that reply; a commit replaces one coherent list by another, so overwriting
  does no harm.  `CapIsAnnounced` adds `VerdictInv`: what a request decided
  about the end agrees with what it had loaded.
  `WaitingEnds` is the part of `Answered` that is no liveness: in every state each
  request in flight can take its next step (`Ready`), or waits for the
  development user's insert or a connection, which another request holds that can.
  It needs that the holder of the insert is connected and never waits itself.
- `ConversationImplements`: without overlap every step of `Conversation` is a
  step of `Dialogue` or a stutter.  The invariant needed is that the snapshot of
  the only working request of a session still equals the row.  From the same
  invariant `TurnIndexNamesReply`: the row refreshed is the row committed, and
  afterwards a dialogue only grows.  And `SerialTurnsAreKept`: without overlap the
  claim that `conversation_lost_turn` refutes does hold, so overlap is what loses
  turns and nothing else is.
- `RateLimitProofs`: `TypeOK`, `BoundedMap`, `OnlyTheColdestGoes`, `RateIsKept`,
  `ImplementsLimiter`.  The map is described by positions; the proof shows that
  eviction and moving to the end keep them a bijection with `1 .. size`, and that no
  bucket is stamped in the future, so a refill never takes tokens away.
  `Fresher` says that the keys behind one in the list were all checked since it was;
  as many are behind it as positions, so a key dropped has a whole map of them.
  The refinement rests on two facts: a cap of a cap is a cap, so time may be
  paid out at once or tick by tick, and at most one key is evicted, none where
  there is room for all.  `RateIsKept` rests on an account (`Paid`): what a caller
  has been let through and what its bucket holds, together, are paid for by the burst
  and the time up to its last check.
- `GradingProofs`: `TypeOK`, `GradesAreStable`, `GradesAreWhole`,
  `ImplementsGrades`.  `AtWork` says what a suspended request has behind it (past
  the section check, past the join, ...), `Kept` what is known of the request
  whose grade is on record.  No step changes a row that is there, nor the rubric
  whoever stored it used, so what a response carried is what is on record (`SeenStep`).  `OralGradesForSpeech` is the part of `Grades` about the
  two rubrics.  `RefusalsAreExcused` gives the reasons for which the database refuses
  a statement: the transaction was aborted before, or somebody else stored the
  user or the grade first; `grading_retrieval` shows the first of them.
- `GatewayProofs`: `TypeOK`, `InflightIsExact`, `CountersAreExact`,
  `RetriesAreForFormat`, `VerdictIsHeeded`.  Each step is shown to let a request in,
  let it out or do neither, with the samples it should take (`Moves`); the gauge
  and the counters then stay cardinalities.  `Shape` follows what one request has
  posted and been answered.  That the gauge is a natural number follows from its
  being exact.  `RejectionsRetried` is the other direction of `RetriesAreForFormat`:
  every refusal of `response_format` is retried, none reaches a caller.
- `SeedingProofs`: `TypeOK`, `TablesAreThere`, `ServedQuestionsAreThere`,
  `LadderIsWhole`, `DuplicatesAreBounded`.  `Migrated` and `Listed` say what a
  container has behind it that nobody can take away; `Whole` that rubrics are
  missing all together, in the table and in every session; `OneAtATime` that a
  boot that is alone inserts only what is not there; `Raced` that once a question is
  there, its rows and those about to insert it are no more than the containers.  Of `EveryoneServes` it proves
  what is left without fairness: a container that waits for the schema waits for one
  that can commit (`BootsGoOn`, from `Migrating`), and each step brings its container
  nearer to serving and no other further away, from at most `NumQuestions + 8` steps
  (`BootsAreShort`); a lost race for the schema costs one restart.
- `PipelineProofs`: `TypeOK`, `OnlyGatedModelsServe`, `ServingWasRecorded`,
  `SerialRegistryIsTrue`.  `Behind` follows one workflow and needs no order between
  workflows.  `Alone` describes the registry while they run one at a time: it
  lists, once each, those that came as far as writing it, the last one at the end,
  and the last of them that finished is the one that serves (`ServesLast`).
  `SerialListGrows` adds that a step only ever appends to it or loses it for good.
- `TabProofs`: `TabTypeOK`, `OneUrl`, `ClipStaysForGrading`, `ListIsShared`,
  `TextStaysForGrading`, `QuietUnmountCleansUp`, and `MicrophoneIsShown`, which no run
  lists: while the page is there, a live microphone is one it shows.  `Page` ties status, refs, tracks, clip and
  URL together while the page is there; `Essay` says that of the calls made from
  the page that is there only the last one is still at work, on the text shown.
  `LoadingAwaits` and `LoadingKept`, `StoppedKept` are what `LoadingEnds` and
  `StoppedBecomesClip` rest on: what is awaited is under way and nothing takes it
  away.  `QuietUnmountCleansUp` is the condition under which the claim
  `practice_unmount` refutes does hold: nothing of the browser's was pending.

Assumptions are the ASSUMEs of the modules, which TLC evaluates in the runs.

## What is only model-checked

Liveness (`Answered`, `StoppedBecomesClip`, `LoadingEnds`, `EveryoneServes`),
since the prover does not handle fairness and ENABLED, and the four runs that
find a violation.  Where a theorem speaks of a step that can be taken (`Ready`,
`CanBoot`), the guards are spelled out; that they are what ENABLED says was checked
with TLC.  No module has a recursive operator, and no statement needs
induction over data.

## What is not modelled

- Stateless or read-only parts: the questions router, the API-key gate, the proxy
  and the password gate decide each request by itself; transcription, voice and
  embeddings are single calls whose outcomes are choices of the handlers' steps.
- Constant data: the texts of questions and rubrics, band and cost tables.
- Downgrades of the schema, which nothing in the repository runs, and columns.
- `eval_examiner.py` and `eval_speaking_grader.py`, which are run by hand and share
  no state with the rest; the benchmark, its mock upstream and the comparison of
  results, which measure.
- Deployment files; what they allow (replicas, restarts) is in the modules'
  environments.
- Latency, token and cost metrics; tracing.
- A client that lost a response after the commit: it is a client that sends one
  more request.
