# Formal models of the Synthetic Persona Sandbox

TLA+ modules, model-checking runs and machine-checked proofs about the program
in `src/`. Every definition is translated from the source; `PROJECT.json`
(`map`) names the lines each one stands for.

## The system

A dashboard asks an API to *simulate* how a persona, built from a segment of
users, reacts to a stimulus. The answer comes from a language model, minutes
later, and is a row of `simulation_runs`.

| Part | State it keeps | Operations | Talks to |
|---|---|---|---|
| Run requests (`api/routers/simulations.py`, `api/services/db.py`) | rows of `simulation_runs`, one transaction per request | `POST /simulate/run`, `POST /simulate/run/sync`, reads | PostgreSQL, arq queue |
| Worker (`api/workers/simulation_worker.py`) | job keys in Redis, the row of its run | `run_simulation_job` | arq, PostgreSQL, persona inference |
| Deletions (`segments.py`, `org.py`, `admin.py`) | segments, and by cascade runs | `delete_segment`, `delete_org_data`, `clear_database` | PostgreSQL |
| Readers (`simulations.py`, `cache.py`, `ws.py`, the dashboard's hook and card) | Redis entry per run, a session per socket, a card's status | `GET /simulate/runs/{id}`, WebSocket stream, progress card | PostgreSQL, Redis |
| Campaigns (`campaigns.py`, `variant_competition.py`) | campaigns, variants, runs | CRUD of the API; the Airflow DAG that simulates and ranks | PostgreSQL, inference |
| Ingestion (`ingestion/`, `kafka_lag_sensor.py`) | Kafka offsets, `behavioral_events`, `profile:{user}` in Redis, dead letters | produce, poll, process, commit; the lag sensor | Kafka, PostgreSQL, Redis |
| Simulation DAG (`run_simulation_pipeline.py`) | rows of `simulation_runs`, the state handed from task to task | six tasks | PostgreSQL, inference |
| Segments (`segments.py`, `extract_segment_data.py`, `drift_detector.py`) | `segments.is_stale`, `last_trained_at`, Qdrant point | edit, train, scan for drift | PostgreSQL, Qdrant |
| Inference (`ml/synthetic_data`) | response files on disk, one per prompt | complete, parse, score | Claude API |
| Rate limiter (`rate_limiter.py`) | a counter per clock minute in Redis | `check_simulation_rate_limit` | Redis |
| Campaign wizard (`CampaignLauncherPage.tsx`, `App.tsx`, `campaignStore.ts`) | the page, the form, the launch under way, the results | edit, launch, follow, show | API, WebSocket |
| Auth, roles, audit, admin, the other dashboard pages | tokens, members, audit rows | request checks, forms | |

### What is hard in it

* The request enqueues the job *before* its transaction commits, and the
  response leaves before the commit too (`simulations.py:109`, `db.py:31`).
* arq delivers at least once: a worker may die in the middle, or its in-progress
  key may expire under a job that still runs. The job body has no `await`, so
  `job_timeout` cannot stop it.
* Every write of the worker is a transaction of its own, and may fail, also after
  it was applied.
* Segments, and with them runs, are deleted under running jobs and DAG tasks.
* Readers cache and keep what they saw; nobody tells them when it changes.
* Airflow executes tasks again, and two DAG runs may compete on one campaign.
* The consumer commits offsets of whole batches, writes two stores without a
  common transaction, and may be evicted from its group while it works.
* The limiter's INCR and EXPIRE are two awaits, and callers of one minute overlap.
* Processes share response files that are opened, emptied and written without a lock.
* The simulation DAG tries each of its six tasks again. Its fourth raises in every
  try, so that only Airflow knows what became of the run. Were it repaired, the last
  would overwrite a row looked at five tasks before, whatever a worker or a deletion
  made of it meanwhile.
* A launch goes on when its page is gone, may be started twice by one click, and
  uses ids whose transactions have not committed.

`PROJECT.json` lists these under `hazards`, each at its line with the properties
that would notice it going wrong, or a note when no property does yet.

### What makes each part correct

* Runs: a deleted run never comes back; a row has its segment; a run that is
  never finished has a known cause; a finished run stays finished unless its job
  was delivered twice or the database failed; a waiting run gets finished.
* Readers: a response is one that was true while it was asked for; a card
  reports what became of the run; a stream ends when its run has.
* Campaigns: the score of a variant is that of the run it links to; ranks follow
  scores; a score is given once; a DAG run has work to do until it ends, of
  which every step counts.
* Ingestion: no committed record vanishes but with a consumer that died; offsets
  never go back; the profile counts what was stored, exactly until consumers
  overlap and never too much after; every event is consumed in the end.
* Limiter: no minute admits more than its limit; a refusal has a cause; only a
  failure between the two commands leaves a counter for good.
* Inference: nobody pays twice for a prompt without a reason; an unreadable file
  has a cause; what a run stores was paid for and is what the parser accepts.
* Simulation DAG: a successful one leaves its run completed, its runs keep the
  lifecycle beside the worker's jobs, a failure has one of three causes, every DAG run ends.
* Launch: rows are made in order, results are those of the form, a launch on the
  screen ends and is reported, unless a card was told a status before the end.
* Segments: one that is not flagged has an embedding of its current definition,
  unless an edit and a training of it overlapped since it was last flagged with no
  training under way; a flagged one is trained in the end.

## Modules

```
RunLifecycle   abstract: what a run promises to its readers
   ^      ^
   |      +-- RunReaders            GET + cache, WebSocket, hook and card
   |            MCRunReaders, RunReadersProofs
   +--------- SimulationRuns        requests, arq, worker, deletions (implements it)
   |            MCSimulationRuns
   |            SimulationRunsProofs   invariants, action property, refinement
   +--------- SimulationPipeline    see below (implements it too)
InferenceCache       one prompt, one file, many processes
   ^
   +-- SimulationPipeline   the DAG and a job of one run    MCSimulationPipeline
         SimulationPipelineProofs   the invariants of both; the pipeline uses
                                    the cache as specified; the lifecycle
RateLimiter          a counter per minute                   MCRateLimiter
                       RateLimiterProofs
CampaignLauncher     wizard, launch, cards, commits         MCCampaignLauncher
                       CampaignLauncherProofs
VariantCompetition   the DAG against the campaign API       MCVariantCompetition
                       VariantCompetitionProofs
EventStore           abstract: what rows and profile promise to their readers
   ^
   +-- EventIngestion       producer, consumer group, stores (implements it)
         MCEventIngestion, EventIngestionProofs
SegmentTraining      edits, training DAG, drift scan        MCSegmentTraining
                       SegmentTrainingProofs
```

**SimulationRuns** is the core. A run `r` stands for the request that made its id.
`pc[r]` is the handler's progress inside its transaction, `row[r]` the *committed*
row, `job`, `lease` and `tries` are arq's keys, `wpc`, `wrun`, `wtry` the worker
slots. A worker slot executes `Start`, `MarkRunning`, `Infer` or `InferFails`,
`Persist` or `MarkFailed`, `Finish`; every write also exists as a failing action,
applied or not. `answer` is the number of the try whose response the row holds:
enough to tell one answer from another. An uncommitted row keeps a lock on its
segment, so a deletion waits for it; an `UPDATE` of a row that is not committed
matches nothing. `mishap[r]` is history: what went wrong for the run.
A worker of the model is one slot: `max_jobs` only bounds how many jobs a process
takes, and two slots interleave alike whether they share a process or not. The queue-depth gauge, logging and arq's stored results are left out.

**RunLifecycle** is what the rest may rely on: a run appears once, pending or
already answered, it never returns to pending, a deleted run stays deleted,
and a settled one changes only when *disturbed*: its job is executed again, a
database call of it failed, or a DAG run writes it as well. A write may itself be
the one that disturbs. A history may begin with runs already requested, because the
pipeline is modelled from there; `NoAnswer` is the NULL of each module that uses it.
`SimulationRuns!Lifecycle` is the refinement mapping: a deleted row is shown as
"erased", and a run counts as disturbed when it has had two executions or a failed call.

**RunReaders** puts the readers over that abstract lifecycle, so what holds there
holds over the worker, and over the worker beside the DAG, by the two refinements. The cache entry has the fields
of the response model, which is why `IsMine`, the test `get_run` makes, is
never true. A socket's session keeps the first entity it loads
(`expire_on_commit` and the identity map), so `Polled` returns it again.
`seen` is history: what a GET could truthfully answer.

**VariantCompetition** has the rows of the campaign tables, the listing a DAG run
has made, and one task per listed variant with its tries. Each task may raise, or
be lost after its commit; `rank_and_persist` is one transaction. The API adds and
deletes variants, edits and deletes the campaign, deletes the segment.
`OrgIdNullable` is FALSE for the schema of the migrations, under which no
run is ever inserted; the other properties are checked as if that were repaired.

**EventIngestion** has the Kafka log and committed offsets, the assignment of
topics to consumers, and for each consumer its positions, the topic it works on and
its background producer. Its batch is the part of each topic from `done` to
`position`: what a poll has returned and the loop has not handled. `commit()` without
offsets commits `position`, hence the whole batch after its first record. A process
that starts again is a new member, without the topics of the dead one.
One user, one partition per topic. Of a profile hash it keeps the
counters (atomic increments) and the two fields that are read and written back. Every
event has a category, which the code adds only where there is one.

**EventStore** is what feature engineering and inference may rely on, whatever
happens on the way: a row never goes; the profile counts an event whose row is there,
maybe again, and one update changes the counter and the field that belongs to it at
once. Until consumers overlap (`disturbed`) the total and the categories are exactly
those of the updates; afterwards an old value may be carried on, which loses updates
and never invents one. `EventIngestion!EventStore` is the mapping: the table, the
fields of the hash, and `overlapped`.

**SegmentTraining** has the row of each segment, its point in Qdrant, one record
per PUT request, one per run of `extract_segment_data` under way, and the run of
`drift_check`. A definition is the number of its edit, and a point the number of
the definition it was made of, so that "up to date" is an equality. A request is
two steps, the load and the commit, because the session writes only what differs
from what it loaded: an `is_stale` loaded as true is not written. Each task of
the DAG is a step, and `TaskFails` is an attempt that failed before or after its
effect. The scan, the marking and each trigger are separate steps, as their
transactions and requests are. `crossed` is history: segments that had an edit and
a training under way at one time; a segment leaves it when it is flagged with no
training under way, for then nothing of the overlap is left that could clear the flag. A slot of `run` is taken by `CHOOSE`, for the
slots have no identity. No statement of the program writes `segments.qdrant_id`,
so `HasQdrantId` is FALSE and a deletion leaves the point where it is. Not in it:
edits of the name or description alone (no flag, no embedding reads them), and the
rows `seed_database` inserts with a made-up flag.

**RateLimiter** has the keys of Redis with their expiry, and for each call the
minute it read before its first await, its step and the count `INCR` gave it. Time
is a count of ticks, `Window` of them to a minute. A command may raise, applied or
not, which lets the request pass (`FailOpen`), or the process dies there (`Die`).
The minutes are those of the clock: the docstring's "sliding window" is not what is
counted, and two minutes that meet admit twice the limit within a minute's length.
A call held up between its commands may also give a TTL to a key that was dropped
and begun anew, or begin one again; `RefusedWhenFull` and `CountersExpire` name these cases.

**InferenceCache** is `generate` and `complete` of one prompt per caller: look, read
or ask, open (which empties the file), write, parse. A file is absent, empty, garbled
or a whole answer; an answer is known by who asked and whether the parser accepts it.
It is never removed, so one that is refused is served to every retry. `asked` and
`broke` are history: what was paid, and who was interrupted between answer and file.

**SimulationPipeline** EXTENDS it with DAG runs, jobs, the row and the segment. A
DAG run is given the run of a request whose job is under way, or makes its own. Each
task may fail, die before or after its effect, and be tried again; `skip` is the look
`init_run` takes. `wait_for_kafka_drain` goes on whatever the lag is;
`run_feature_engineering` reads `matrix.user_count`, which a `SegmentFeatureMatrix` does
not have, and `run_inference` validates the stimulus before it asks. The two prompts are equal when the segment has no users: the DAG's
has their aggregated features, the worker's has none. The upsert names no
`org_id`, which the migrations declare NOT NULL. As the code stands, a DAG run that
does not skip fails in its fourth task (`userCount` is FALSE), and if that were
repaired in its last (`orgIdNullable` is FALSE). Both, and which DAG runs have an
`invalid` stimulus, are chosen at the start (`given`), and every property is checked
and proved for each choice: what the later tasks do is what they would do in a repaired
pipeline. Ids are well-formed UUIDs, as the description of the parameters asks. `wrote` is history: who has ever written a
row. It says when a run counts as disturbed in `SimulationPipeline!Lifecycle`: two
have written it, or its job has been executed twice.

**CampaignLauncher** has the page and step shown, the store's form and results, and
per execution of `launch()` the call it waits for and the rows it made, each open until
its commit. Leaving or signing out unmounts the phase and does not stop the calls;
a reload stops them. `strict` is a build whose effects run twice: two launches, two
campaigns, of which the first is followed by nobody although the comment at
`CampaignLauncherPage.tsx:333` says the effect is run once. Going back after an error
and launching again makes a second campaign too. A card is told "pending" or "running" and
then nothing else (`repeating`), or its socket ends with no status (`silent`), or with the
run's. A request that a sign-out left without its token is one that fails (`Fault`). Left out: names, the
`description` the form has and the call drops (`:307`), the choice of the segment,
and that a run is never linked to the variant it is for, which no call of the page does.

## Runs

Every run has at least two actors, because hardly a property here can break with one.
Deadlock is not checked: clients may
stop asking, and every bounded model then stops.

| Run | Question | Bounds |
|---|---|---|
| `runs_faults` | do rows, deletions and attempts stay consistent, do the rows obey the lifecycle, is a waiting run settled | a queued and a synchronous run of 2 segments, 2 fair slots, 3 tries, up to two crashes, one expired lease, one failed call |
| `readers_readers` | are responses fresh and reports true, does a late stream end | one run, a GET, a card, one failure; the run may be disturbed at any time |
| `competition_campaign` | do ranks, scores and runs agree, has a DAG run work until it ends, does every step of it count | 2 variants, 2 DAG runs, 2 scores, 2 tries, one failure, all edits; symmetry on variants and DAG runs |
| `ingestion_group` | is anything lost, do offsets go back, are rows and profile what EventStore promises, are events consumed | 2 consumers, 2 purchases and a page view in two topics, one fault of any kind |
| `launcher_launches` | are rows in order and results those of the form, does a launch end and report | 2 launches of 2 variants, 1 stimulus, 2 failures or reloads |
| `limiter_windows` | is the limit kept, has a refusal a cause, do counters expire | 4 calls, limit 1, minutes of 2 ticks, 3 of them and a tick; symmetry on the calls |
| `pipeline_pipelines` | is what is stored true, does the run keep the lifecycle, has a failure a cause, do all end | a DAG run and the job of the same run with the same prompt, 2 retries, 2 executions, 2 faults, a deletion, every choice of `given` |
| `training_drift` | is an unflagged embedding current, is a flagged one renewed | 1 segment, 2 edits, 2 trainings at a time, 1 retry, 2 events (a manual trigger, a failed task or trigger) |

Two runs and two slots give two jobs of different runs, two attempts of one job,
and a deletion that hits one run of two. Two crashes and an expired lease use up the three
executions of a job, and arq drops it; how many crashes are to come is chosen at the
start, and with one of them the third try is the attempt that is left, which must
settle the run. The failed call may hit any attempt, the last one too. With two variants
of two scores there are ties, both orders and a partial failure. Two purchases in
one partition and an eviction give the overlapping consumers in which a total can
be lost; the page view is the record in the *other* partition that a commit takes
along. Sessions behave like page views without a field to read, and are not in
the instance. Two trainings at a time and two edits give an edit before, in and after
a training, two trainings of one definition and one of each, and the second edit that
flags a segment anew after the first has met a training. With one retry a failed task
is tried again, and fails for good with the second event. Trainings of different
segments share nothing but the scan that triggers them; the proofs hold for any
number of segments, edits, trainings and retries.

Two launches are a launch and its repetition, or the two of a strict build; two variants
have a middle to fail in, and two faults a failure of one launch under a reload of
another. With one stimulus the variants of a form differ by their place, which is
what the results are indexed by. Four calls of a limit of one leave a call that restarts an
expired counter and two that meet it; three minutes and two lifetimes cover every
order of the two commands, the minute's end and the expiry. One prompt asked by a DAG run
and a job, with retries of both, has every overlap of two writers and a reader of
a file; an instance with a second DAG run passed as well and takes too long to keep.

Four runs show the code doing other than a comment or docstring of it says
(`findings`):

| Run | What is said | What happens |
|---|---|---|
| `readers_stream` | updates until a terminal state | a stream opened early repeats its first message |
| `competition_orgid` | the DAG completes the campaign | its INSERT violates NOT NULL |
| `pipeline_shipped` | features, then inference, score and row | the features raise in every try: nothing asks the model |
| `ingestion_lag` | zero lag means consumed | the first commit covers the whole batch |

Other such places met while modelling, which have no run of their own: the job
starts before its row is committed, though the worker's run is "pre-created in DB"
(`simulation_worker.py:66`); no completed run is served from Redis, because the
cached response has no `org_id` to compare (`simulations.py:278`); all variants are
simulated again, not the missing ones only (`variant_competition.py:13`), because only
the ranking writes scores.

### Fairness

`SimulationRuns!FairSpec`: a worker goes on with the job it has and takes queued
jobs (arq's polling loop), and Redis expires a key nobody renews. Nothing is
assumed of clients, deletions or faults; a waiting run settles only if the tries
outnumber the faults to come, because arq drops a job after `max_tries`, and if no
database call of its own job fails.
`RunReaders!FairReaders`: the server's polling loop (a `sleep(1)` loop) and the
browser's rendering go on. `EventIngestion!FairSpec`: a running consumer goes on,
its sender thread sends, and the group gives every topic to a member. Nobody is
assumed to start a consumer: the property ends when all are down.
`VariantCompetition!FairSpec`: Airflow's scheduler executes what is ready.
`SegmentTraining!FairSpec`: Airflow runs `drift_check` every day and the tasks of
what was triggered, and time passes. Nobody is assumed to edit or to trigger by
hand, and the failures are finite, so that a day comes on which nothing fails.
`SimulationPipeline!FairSpec`: Airflow schedules the next task or try, arq a queued
job, and a call of the SDK, which has a time limit, is answered or breaks.
`CampaignLauncher!FairSpec`: a call of the browser is answered or fails, and a socket
says a first word or ends. If that word is "pending" or "running", the server may
repeat it for ever, because its session hands back the object it has
(`StreamReachesTerminal`, which `readers_stream` refutes): nothing makes a card that is
`repeating` move again, and `LaunchReports` leaves such a launch out, as it does one of
which a card is `silent`. Nobody has to click, and no commit has to come. The limiter
and the cache alone have no liveness property: what must happen in them happens
when their callers go on.

## Proofs

`SimulationRunsProofs`, for every set of runs, segments and workers and every bound:

| Theorem | Property |
|---|---|
| `TypeCorrect` | `TypeOK`: in particular no job is executed more than `MaxTries` times |
| `Invariance` | `RunsInv`, the inductive invariant |
| `Erasure` | `ErasedStaysErased` |
| `SegmentIntegrity` | `RowsHaveSegment` |
| `StuckExplained` | `StuckRunExplained` |
| `SettledFinality` | `SettledIsFinal`, an action property |
| `Refinement` | `ImplementsLifecycle`: `Spec => Lifecycle!RunSpec` |

The assumption is `RunsAssumption` (types of the constants, at least one try).
None of the properties is inductive. `RunsInv` adds:

* `RowInv`: only a committed request has a row or had one. Without it a commit
  might bring an erased run back; and an open transaction keeps its segment, so
  that the row it commits has one.
* `TryInv`: before the second execution there is at most one attempt. It is what
  makes "undisturbed" mean anything.
* `SettledInv`: the attempt of an undisturbed settled run is over. From it
  follows `SettledIsFinal`.
* `FirstInv`: until its first attempt writes, an undisturbed run is pending, so
  that the first write is a `Begin` of the lifecycle and not a `Redo`.
* `JobInv`: a job exists only after the row was inserted.
* `StuckInv`: where nothing went wrong, a concluded attempt has found the
  transaction over, and a row that is not terminal has another attempt at work.
  From it follows `StuckRunExplained`.

The proof of each part has a
lemma per group of actions (request handler, queue, deletion, job), and in it a
step per action. The refinement shows that a commit is `Submit` or
`SubmitAnswered`, a first `MarkRunning` is `Begin`, a last write is `Settle`, a
deletion is `EraseRuns`, a second `Start` is `Disturb`, and any write of a
disturbed run is `Redo`.

`SegmentTrainingProofs`, for every set of segments, edits and DAG runs and every
number of retries and events, from `TrainingAssumption` (types of the constants):

| Theorem | Property |
|---|---|
| `TrainingInvariant` | `TrainingInv`, the inductive invariant |
| `Unflagged` | `UnflaggedIsCurrent` |
| `TrainingTypes` | `TrainingTypeOK` |
| `EmbeddingInvariant` | `EmbeddingsInv`, inductive relative to `TrainingInv` |
| `Trained` | `TrainedHasEmbedding` |

`UnflaggedIsCurrent` is not inductive: the step that clears the flag does not look
at the definition. `SegmentInv` says why it may: of a segment with no edit across a
training (`UpToDate`), every training past its fetch has the row's definition, and one that
is about to clear the flag has stored it; an edit that will not write the flag has it
still set. An unborn segment has neither. A segment that leaves `crossed`
satisfies all of it at once: it is flagged, and no training of it is under way. `TrainingStep` is the lemma for every step
that stores only what was fetched and clears a flag only after storing, and
`OtherStep` the one for steps of other segments; the lemmas of the endpoints and
the DAGs (`RequestStep`, `WorkStep`, `DriftStep`) show that each action is of one of
these kinds, or treat it directly. `TrainedHasEmbedding` holds for segments with such
edits too, and has its own strengthening: `EmbeddingInv` asks of a training only that its
definition is one the segment *has had*, which no later edit makes false.

`RunReadersProofs`, for every set of runs, GETs and views, over the abstract
lifecycle, so also over every execution of `SimulationRuns` and of `SimulationPipeline`:

| Theorem | Property |
|---|---|
| `ReadersInvariant` | `ReadersInv`, the inductive invariant |
| `FreshResponses` | `GetIsFresh` |
| `TrueReports` | `ReportIsTrue` |
| `ReadersTyped` | `ReadersTypeOK` |

What a reader holds was the row at some time since it asked; what `ReadersInv` adds is
that the present row is always among those of the history (`seen`), and that a row
that is shown as ended was that once (`EndedAs`). One lemma is about steps of
the runs, one about GETs, one about cards.

`RateLimiterProofs`, for every finite set of calls, every limit, window and horizon:

| Theorem | Property |
|---|---|
| `LimiterInvariant` | `LimiterInv`, the inductive invariant |
| `AdmittedWithinLimit` | `WithinLimit` |
| `RefusalsHaveCauses` | `RefusedWhenFull` |
| `CountersLive` | `CountersExpire`, `CounterOutlivesMinute` |

`WithinLimit` counts the admitted calls of a minute. The invariant says what bounds
them: as long as the counter was not dropped, no two calls of the minute have the
same count (`PlacesUnique`), and an admitted one has a count of at most `Limit`. So the
counts inject the admitted calls into `1 .. Limit`, and `FiniteSetTheorems` compares
the cardinalities. `PlacesTaken` is the converse, from which a refusal has its cause.

`SimulationPipelineProofs` is about two modules. Of `InferenceCache`, for every set of
callers and prompts:

| Theorem | Property |
|---|---|
| `CacheInvariant` | `CacheInv`, and in it `CacheTypeOK` |
| `UnreadableFiles` | `UnreadableForCause` |
| `PaidAnswers` | `PaidOnce`, `AnsweredTruly` |
| `CacheSettles` | `SettledForGood`, an action property |

`CacheInv` says what a call did from its step: who is about to write has its own answer in
hand, and who paid, was not interrupted and has opened the file finds it when it
looks again. `SettledForGood` is what makes a refused answer permanent: a file that exists
while nobody is about to write it does not change, good or bad.

Of `SimulationPipeline`, for every set of DAG runs, jobs and runs, every number of
retries, and every choice of `given`:

| Theorem | Property |
|---|---|
| `PipelineTypesHold` | `PipelineTypeOK` |
| `StoredAnswers` | `StoredAnswerIsTrue` |
| `DoneRuns` | `DoneMeansStored` |
| `ErasedRuns` | `ErasedForGood` |
| `PipelineFailures` | `FailsForCause` |
| `WriterInvariant` | `WriterInv` |
| `PipelineLifecycle` | `RunsKeepLifecycle`: `Spec => Lifecycle!RunSpec` |

Every step of the pipeline is one of the cache or leaves it as it is
(`PipelineUsesCache`), so the theorems about the cache carry over: what
they say of callers in general holds of tasks and jobs. `PipelineInv` adds that a task that
stores has the answer in hand, that a DAG run asks only when its features and its
stimulus are in order (`AskedInOrder`), that there is no row without its segment, and that a
DAG run that skips has already what one that is done has. `UndisturbedInv` is about
the time before the first interruption: as long as nobody else asks its prompt, the file is
what the call has made of it, and what has failed never came to ask, failed with its
call, or has an answer that the table refuses. From the three follow the three causes
of `FailsForCause`: before the call, in it, and after it.

`PipelineLifecycle` is the second implementation of `RunLifecycle`, and the harder one:
neither the upsert nor the worker's UPDATE looks at the status it overwrites. The
first writer of a run finds it as it was requested, so its write is a `Begin`, a `Settle`
or a `SubmitAnswered`; a write that finds another writer's traces disturbs the run and is a
`Redo`; what is left is the writer that writes again. `WriterInv` is about that one:
a row with a single writer is as that one left it, so a DAG run that stores after a
lost success stores what is there (`LeftBy`), a stutter, and a job executed once
finds its own "running". `StoredAtEnd` keeps a DAG run from asking again after it
stored. `WriterStep` has a case per kind of write (`WriteRow`), and `LifecycleStep` maps
each (`UpsertShown`, `JobShown`, `DeletionShown`).

`CampaignLauncherProofs`, for all numbers of variants, launches and faults and both builds:

| Theorem | Property |
|---|---|
| `LauncherInvariant` | `LauncherInv`, the inductive invariant |
| `LauncherTyped` | `LauncherTypeOK` |
| `OrderedRows` | `RowsInOrder` |
| `CutShortCauses` | `CutShortForCause` |
| `TrueResults` | `ResultsAreOfTheForm` |

`LauncherInv` says exactly which rows a launch has from the call it is at (`LaunchInv`);
one that failed or was reloaded is only known to be in order. `PhaseInv` ties the phase on the
screen to the form, which nobody can edit while it is there. `LaunchStays` is the lemma for
every step that takes a launch no further, and `LaunchGoesOn` the one for its own calls.

`VariantCompetitionProofs`, for every finite set of variants, all DAG runs, scores and
tries, with and without edits and under both schemas (`CompetitionAssumption`):

| Theorem | Property |
|---|---|
| `CompetitionInvariant` | `CompetitionInv`, the inductive invariant |
| `CompetitionTyped` | `CompetitionTypeOK` |
| `WorkInvariant` | `WorkInv` |
| `NeverIdle` | `NeverWedged` |
| `StepsCount` | `EveryStepCounts`, an action property |
| `BackedScores` | `RunBacksScore` |
| `OrderedRanks` | `RanksFollowScores` |
| `ScoresGivenOnce` | `ScoreGivenOnce`, an action property |

`ListInv` and `TaskInv` tie a DAG run to what it has listed: no variant twice, and a
task whose score is that of the run it made. `AloneInv` is about campaigns whose DAG runs
do not overlap: while one ranks, a variant of its list that has a score already has the
score of its task. `RanksFollowScores` needs an argument about cardinalities:
the rank of a variant is one more than the number of those before it, and
the variants before a better one are a strict subset of those before a worse one
(`StrictlyBefore`, `RankFollowsScore`).

`NeverWedged` and `EveryStepCounts` together are what safety can say of termination.
`HasWork` is the disjunction of the guards of a DAG run's own actions, written out because
the prover has no ENABLED: a DAG run has work exactly until it has ended. And each step of it
goes to a later stage, uses up a try or takes one task further, of which there are finitely
many. `WorkInv` says why a join never waits in vain: while a DAG run simulates, what it
listed has a task, although variants and runs may be deleted under it.

`EventIngestionProofs`, for every finite set of events, any topics of them, all consumers
and any number of faults, from `IngestionAssumption`:

| Theorem | Property |
|---|---|
| `IngestionInvariant` | `IngestionInv`, the inductive invariant |
| `IngestionTyped` | `IngestionTypeOK` |
| `OffsetsAreCovered` | `NothingUnaccounted` |
| `CountersCoverRows` | `RowsAreCounted` |
| `ProfileFollowsCounters` | `ProfileAgrees` |
| `OffsetsOnlyRise` | `OffsetsNeverFall`, an action property |
| `ProfileInvariant` | `ProfileInv` |
| `ConsumersKeepStore` | `KeepsStore`: `Spec => EventStore!StoreSpec` |

`NothingUnaccounted` speaks of committed offsets, and a commit raises them to the position
of a batch that is not done. `ConsumerInv` says why it may: a running consumer is at or past
the committed offset of its topics, so that a commit never lowers one, and what it
has passed beyond that offset is accounted for or in its own hands. `Accounting` is the
lemma for every step: it suffices that no record below an offset, or below the position of
the consumer that holds it, leaves the hands of that consumer for nowhere. `RowsStep` is
its counterpart for the counters: the row of the record in hand has been counted by the
step, is still being counted, or is one whose update failed.
`SoleInv` is what the evictions break: a consumer works on records of its own
topics, so that two never update the same field, and what it has read of it is true.

`ConsumersKeepStore` maps every step to storing an event, counting one, an overlap or
a stutter (`StoreEffects`); an INSERT whose commit was applied and reported as failed, and a
pipeline that Redis executed and did not answer, count like the others. Until an overlap
the fields are exact because of `SoleInv`. After one, `SoleInv` is gone, and what remains is
`ProfileInv`: nothing is in the profile, or was read of it by any consumer, that was not
stored and counted. It is inductive because counters only rise and rows never go, so that
an old reading remains below them.

The other inductive invariants hold by their theorems and are not repeated in the runs'
configurations, nor are `ErasedForGood`, `ProfileAgrees` and the type invariants, which
follow from them or from a refinement; TLC has found each of them true on the instances of
the runs.

Only model-checked: the seven liveness properties (fairness is beyond the prover). Every
other property of a passing run is a theorem.

## Not modelled

* `last_seen` of a profile, hashes of the anonymizer, names, texts, the contents
  of prompts and answers: no property tells them apart.
* Connection pools, HTTP retries of clients, authentication: they refuse or delay
  requests, which the models allow anyway.
* Session-level details of PostgreSQL other than row visibility, foreign keys and
  the lock a foreign key takes.
* Faults that a sequence of two calls shows, without any interleaving: `log_event`
  flushes into a session the middleware closes without a commit (`audit.py:63`,
  `main.py:95`); the queue gauge is raised in one process and lowered in another
  (`simulations.py:122`, `metrics.py:35`).
* The numbers of an answer, its fields and the scorer's arithmetic. (`json.loads` accepts
  `NaN`, which `persona_inference.py:179` clamps to 1.0: a matter for a unit test.)
* The average of the results page (`SimulationResultsPage.tsx:209`), the static
  information page, charts and forms of the dashboard: rendering without protocol.
* `storybook-static` and other generated bundles, which are more than nine tenths of the
  repository's lines of code. The share of *all* lines that the models stand
  for is small for that reason and stays so.
* The claim of `claude_client.py:3` that a cached prompt costs no tokens, beyond what
  `PaidOnce` says: two processes that miss together both pay.
* The parts listed as `not_modelled` in `PROJECT.json`, with the plan below.

## Plan

Done: every module is modelled and checked; every safety and action property of a
run is proved, and three refinements: `SimulationRuns` and `SimulationPipeline` implement
`RunLifecycle`, `EventIngestion` implements `EventStore`.

Left, in order of importance:

1. The composition: readers beside `SimulationRuns`, and beside `SimulationPipeline`,
   implement `ReadersSpec`, so that the theorems about the readers need no words to
   carry them over.
2. A measure on the DAG runs of a campaign that every step lowers, from `EveryStepCounts`.
3. `PersonaScoring`: the parser and the scorer as operators, against a reference definition.
4. The administration page, whose counts may arrive out of order; the audit
   middleware with the organisation's data.
