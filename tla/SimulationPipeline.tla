--------------------------- MODULE SimulationPipeline ---------------------------
(***************************************************************************)
(* The DAG run_simulation_pipeline beside the worker, over the cache they  *)
(* ask the persona through (InferenceCache).                               *)
(*                                                                         *)
(* A DAG run passes a state through six tasks, each of which Airflow tries *)
(* again when it fails: init_run, wait_for_kafka_drain, fetch_segment,     *)
(* run_feature_engineering, run_inference, score_and_persist. It is given  *)
(* the id of a run, or makes one up; the run may be one that a request     *)
(* stored and whose job a worker executes at the same time.                *)
(***************************************************************************)
EXTENDS InferenceCache

CONSTANTS
  Pipelines,      \* the DAG runs
  Jobs,           \* the jobs of the worker (SimulationRuns)
  Runs,           \* ids of simulation runs, of one segment
  RunOf,          \* the run each DAG run or job is given
  Retries,        \* DEFAULT_ARGS["retries"]: of one task
  MaxTries,       \* executions of a job before arq drops it
  MaxFaults       \* bound: interruptions of a task or a job

ASSUME PipelineAssumption ==
  /\ Callers = Pipelines \cup Jobs /\ Pipelines \cap Jobs = {}
  /\ RunOf \in [Callers -> Runs]
  /\ Retries \in Nat /\ MaxTries \in Nat \ {0} /\ MaxFaults \in Nat

VARIABLES
  (* given: what the code and the request make of every DAG run *)
  orgIdNullable,  \* simulation_runs.org_id may be NULL: it is declared NOT NULL
  userCount,      \* a SegmentFeatureMatrix has a user_count: it has none
  invalid,        \* DAG runs triggered with a stimulus that does not validate
  segment,  \* the segment exists
  row,      \* committed rows of simulation_runs
  task,     \* the task each DAG run is at
  skip,     \* state["skip"]
  jpc,      \* progress of each job
  tries,    \* failed tries of the task, executions of the job
  (* environment and history *)
  budget,   \* faults that may still occur
  erased,   \* runs deleted with their segment
  writer,   \* who wrote each row last
  wrote     \* who has ever written a row

pipelineVars == <<task, skip>>
given == <<orgIdNullable, userCount, invalid>>
dbVars == <<given, segment, row, erased, writer, wrote>>
vars == <<cacheVars, pipelineVars, dbVars, jpc, tries, budget>>

-----------------------------------------------------------------------------
Ordered == {RunOf[j] : j \in Jobs}
NoRow == [status |-> "absent", answer |-> None]
Statuses == {"pending", "running", "completed", "failed"}

Tasks == {"init", "drain", "fetch", "features", "infer", "persist"}
Ends == {"done", "failed"}
After == [init |-> "drain", drain |-> "fetch", fetch |-> "features",
          features |-> "infer", infer |-> "persist", persist |-> "done"]

(* Types. No task is tried more than Retries times after its first, no job *)
(* executed more than MaxTries times, and a DAG run that is not at its     *)
(* inference has no call under way.                                        *)
PipelineTypeOK ==
  /\ CacheTypeOK
  /\ orgIdNullable \in BOOLEAN /\ userCount \in BOOLEAN /\ invalid \subseteq Pipelines
  /\ segment \in BOOLEAN
  /\ row \in [Runs -> [status : Statuses, answer : Answers \cup {None}] \cup {NoRow}]
  /\ task \in [Pipelines -> Tasks \cup Ends]
  /\ skip \in [Pipelines -> BOOLEAN]
  /\ jpc \in [Jobs -> {"queued", "infer", "saved", "done", "failed", "dropped"}]
  /\ tries \in [Callers -> Nat]
  /\ \A p \in Pipelines : tries[p] <= Retries
  /\ \A j \in Jobs : tries[j] <= MaxTries
  /\ budget \in 0 .. MaxFaults
  /\ erased \subseteq Runs
  /\ writer \in [Runs -> Callers \cup {"api"}] /\ wrote \subseteq Callers
  /\ \A p \in Pipelines : task[p] # "infer" \/ skip[p] => cstep[p] \in Resting

Init ==
  /\ CacheInit
  /\ orgIdNullable \in BOOLEAN /\ userCount \in BOOLEAN /\ invalid \in SUBSET Pipelines
  /\ segment = TRUE
  /\ row = [r \in Runs |->
              IF r \in Ordered THEN [status |-> "pending", answer |-> None] ELSE NoRow]
  /\ task = [p \in Pipelines |-> "init"]
  /\ skip = [p \in Pipelines |-> FALSE]
  /\ jpc = [j \in Jobs |-> "queued"]
  /\ tries = [c \in Callers |-> 0]
  /\ budget = MaxFaults
  /\ erased = {}
  /\ writer = [r \in Runs |-> "api"] /\ wrote = {}

Fault == budget > 0 /\ budget' = budget - 1

-----------------------------------------------------------------------------
(* Airflow: a task that succeeds hands the state on; one that raises, or   *)
(* whose process dies, is tried again, and fails the DAG run at the end.   *)
Advance(p) ==
  /\ task' = [task EXCEPT ![p] = After[@]]
  /\ tries' = [tries EXCEPT ![p] = 0]

(* Mutant: there is no end to the retries.                                 *)
TaskFailsForever(p) == UNCHANGED <<task, tries>>

TaskFails(p) ==
  IF tries[p] < Retries
  THEN tries' = [tries EXCEPT ![p] = @ + 1] /\ UNCHANGED task
  ELSE task' = [task EXCEPT ![p] = "failed"] /\ tries' = [tries EXCEPT ![p] = 0]

(* Mutant: a run that exists is skipped.                                   *)
InitRunSkipsAny(p) ==
  /\ task[p] = "init"
  /\ skip' = [skip EXCEPT ![p] = row[RunOf[p]] # NoRow]
  /\ Advance(p)
  /\ UNCHANGED <<cacheVars, dbVars, jpc, budget>>

(* The run is looked up once, here.                                        *)
InitRun(p) ==
  /\ task[p] = "init"
  /\ skip' = [skip EXCEPT ![p] = row[RunOf[p]].status = "completed"]
  /\ Advance(p)
  /\ UNCHANGED <<cacheVars, dbVars, jpc, budget>>

(* With skip every task hands the state on.                                *)
HandOn(p) ==
  /\ task[p] \in Tasks \ {"init"} /\ skip[p]
  /\ Advance(p)
  /\ UNCHANGED <<cacheVars, skip, dbVars, jpc, budget>>

(* It gives up after ten polls, of which one that fails counts as any.     *)
WaitForKafkaDrain(p) ==
  /\ task[p] = "drain" /\ ~skip[p]
  /\ Advance(p)
  /\ UNCHANGED <<cacheVars, skip, dbVars, jpc, budget>>

FetchSegment(p) ==
  /\ task[p] = "fetch" /\ ~skip[p]
  /\ IF segment THEN Advance(p) ELSE TaskFails(p)
  /\ UNCHANGED <<cacheVars, skip, dbVars, jpc, budget>>

(* It reads the user_count of the matrix it has computed, to log it and to *)
(* hand it on.                                                             *)
RunFeatureEngineering(p) ==
  /\ task[p] = "features" /\ ~skip[p]
  /\ IF userCount THEN Advance(p) ELSE TaskFails(p)
  /\ UNCHANGED <<cacheVars, skip, dbVars, jpc, budget>>

(* run_inference: it validates the stimulus, and in each try asks once.    *)
StimulusRefused(p) ==
  /\ task[p] = "infer" /\ ~skip[p]
  /\ p \in invalid /\ cstep[p] = "idle"
  /\ TaskFails(p)
  /\ UNCHANGED <<cacheVars, skip, dbVars, jpc, budget>>

BeginInference(p) ==
  /\ task[p] = "infer" /\ ~skip[p]
  /\ p \notin invalid /\ cstep[p] = "idle"
  /\ Begin(p)
  /\ UNCHANGED <<pipelineVars, dbVars, jpc, tries, budget>>

EndInference(p) ==
  /\ task[p] = "infer" /\ ~skip[p]
  /\ cstep[p] = "answered"
  /\ Advance(p)
  /\ UNCHANGED <<cacheVars, skip, dbVars, jpc, budget>>

(* The call failed, or the process died with the answer.                   *)
InferenceFails(p) ==
  /\ task[p] = "infer" /\ ~skip[p]
  /\ \/ cstep[p] = "failed" /\ UNCHANGED budget
     \/ cstep[p] = "answered" /\ Fault
  /\ TaskFails(p)
  /\ IF task'[p] = "infer" THEN Begin(p) ELSE UNCHANGED cacheVars
  /\ UNCHANGED <<skip, dbVars, jpc>>

(* A write of the row, by who.                                             *)
WriteRow(r, new, who) ==
  /\ row' = [row EXCEPT ![r] = new]
  /\ writer' = [writer EXCEPT ![r] = who] /\ wrote' = wrote \cup {who}

(* Mutants: an upsert into a table without the foreign key; one that gives *)
(* up on a run that the worker is at.                                      *)
CanUpsertUnchecked == orgIdNullable
CanUpsertUnlessRunning ==
  orgIdNullable /\ segment /\ \A r \in Runs : row[r].status # "running"

(* INSERT ... ON CONFLICT (id) DO UPDATE. The row proposed for insertion   *)
(* has no org_id, and is checked against NOT NULL even if the run exists;  *)
(* the foreign key refuses it when the segment is gone.                    *)
CanUpsert == orgIdNullable /\ segment
Upsert(p) ==
  WriteRow(RunOf[p], [status |-> "completed", answer |-> got[p]], p)

ScoreAndPersist(p) ==
  /\ task[p] = "persist" /\ ~skip[p]
  /\ IF CanUpsert
     THEN Upsert(p) /\ Advance(p)
     ELSE TaskFails(p) /\ UNCHANGED <<row, writer, wrote>>
  /\ UNCHANGED <<cacheVars, skip, given, segment, erased, jpc, budget>>

(* A task without a call under way dies, at the end of its work or before; *)
(* so does one that a database refuses to answer.                          *)
TaskDies(p) ==
  /\ task[p] \in Tasks /\ (task[p] = "infer" => cstep[p] = "idle")
  /\ Fault /\ TaskFails(p)
  /\ \/ UNCHANGED <<row, writer, wrote>>
     \/ task[p] = "persist" /\ ~skip[p] /\ CanUpsert /\ Upsert(p)
  /\ UNCHANGED <<cacheVars, skip, given, segment, erased, jpc>>

-----------------------------------------------------------------------------
(* The job of a run, as its worker executes it; the errors of its database *)
(* calls are those of SimulationRuns. An UPDATE finds the row or does      *)
(* nothing.                                                                *)
UpdateRow(j, new) ==
  IF row[RunOf[j]] = NoRow THEN UNCHANGED <<row, writer, wrote>> ELSE WriteRow(RunOf[j], new, j)
WithStatus(j, status) == [status |-> status, answer |-> row[RunOf[j]].answer]

JobStarts(j) ==
  /\ jpc[j] = "queued" /\ tries[j] < MaxTries
  /\ jpc' = [jpc EXCEPT ![j] = "infer"]
  /\ tries' = [tries EXCEPT ![j] = @ + 1]
  /\ UpdateRow(j, WithStatus(j, "running"))
  /\ Begin(j)
  /\ UNCHANGED <<pipelineVars, given, segment, erased, budget>>

JobDropped(j) ==
  /\ jpc[j] = "queued" /\ tries[j] = MaxTries
  /\ jpc' = [jpc EXCEPT ![j] = "dropped"]
  /\ UNCHANGED <<cacheVars, pipelineVars, dbVars, tries, budget>>

JobWrites(j) ==
  /\ jpc[j] = "infer"
  /\ \/ /\ cstep[j] = "answered"
        /\ UpdateRow(j, [status |-> "completed", answer |-> got[j]])
        /\ jpc' = [jpc EXCEPT ![j] = "saved"]
     \/ /\ cstep[j] = "failed"
        /\ UpdateRow(j, WithStatus(j, "failed"))
        /\ jpc' = [jpc EXCEPT ![j] = "failed"]
  /\ UNCHANGED <<cacheVars, pipelineVars, given, segment, erased, tries, budget>>

JobEnds(j) ==
  /\ jpc[j] = "saved"
  /\ jpc' = [jpc EXCEPT ![j] = "done"]
  /\ UNCHANGED <<cacheVars, pipelineVars, dbVars, tries, budget>>

(* The worker dies; arq executes the job again.                            *)
JobDies(j) ==
  /\ jpc[j] \in {"infer", "saved"}
  /\ Fault
  /\ jpc' = [jpc EXCEPT ![j] = "queued"]
  /\ IF cstep[j] \in Resting THEN UNCHANGED cacheVars ELSE Break(j)
  /\ UNCHANGED <<pipelineVars, dbVars, tries>>

-----------------------------------------------------------------------------
(* The calls of generate go on, or break.                                  *)
CallGoesOn(c) ==
  /\ CallStep(c)
  /\ UNCHANGED <<pipelineVars, dbVars, jpc, tries, budget>>

CallBreaks(c) ==
  /\ Break(c) /\ Fault
  /\ UNCHANGED <<pipelineVars, dbVars, jpc, tries>>

(* The segment is deleted, and its runs with it.                           *)
DeleteSegment ==
  /\ segment /\ segment' = FALSE
  /\ row' = [r \in Runs |-> NoRow]
  /\ erased' = {r \in Runs : row[r] # NoRow}
  /\ UNCHANGED <<cacheVars, pipelineVars, jpc, tries, budget, writer, wrote, given>>

PipelineStep(p) ==
  \/ InitRun(p) \/ HandOn(p)
  \/ WaitForKafkaDrain(p) \/ FetchSegment(p) \/ RunFeatureEngineering(p)
  \/ StimulusRefused(p) \/ BeginInference(p) \/ EndInference(p) \/ InferenceFails(p)
  \/ ScoreAndPersist(p) \/ TaskDies(p)
JobStep(j) ==
  JobStarts(j) \/ JobDropped(j) \/ JobWrites(j) \/ JobEnds(j) \/ JobDies(j)

Next ==
  \/ \E p \in Pipelines : PipelineStep(p)
  \/ \E j \in Jobs : JobStep(j)
  \/ \E c \in Callers : CallGoesOn(c) \/ CallBreaks(c)
  \/ DeleteSegment

Spec == Init /\ [][Next]_vars

(* Airflow schedules the next task or try, arq a queued job, and a process *)
(* that executes one goes on, or dies. The SDK has a time limit.           *)
FairSpec ==
  /\ Spec
  /\ \A p \in Pipelines : WF_vars(PipelineStep(p)) /\ WF_vars(CallGoesOn(p))
  /\ \A j \in Jobs : WF_vars(JobStep(j)) /\ WF_vars(CallGoesOn(j))

-----------------------------------------------------------------------------
(* The answer a run holds is one the parser accepts, paid for with the     *)
(* prompt of one of those who may write this run, though the one who paid  *)
(* may have asked for another run. A completed run has one.                *)
StoredAnswerIsTrue ==
  \A r \in Runs :
    /\ row[r].status = "completed" => row[r].answer # None
    /\ row[r].answer # None =>
         row[r].answer.good /\ \E c \in Callers : RunOf[c] = r /\ PaidFor(row[r].answer, KeyOf[c])

(* A DAG run that Airflow shows as successful left its run completed, or   *)
(* found it so; it is so still, unless the segment was deleted or the job  *)
(* wrote later. Without the NULL only the job can have completed it; and a *)
(* DAG run can do so only if its tasks up to the inference can succeed.    *)
CanInfer(p) == userCount /\ p \notin invalid
SettledRun(p) ==
  LET r == RunOf[p] IN
  /\ r \in erased \/ writer[r] \in Jobs \/ row[r].status = "completed"
  /\ orgIdNullable \/ writer[r] \in Jobs
  /\ skip[p] \/ (orgIdNullable /\ CanInfer(p))
DoneMeansStored ==
  \A p \in Pipelines : task[p] = "done" => SettledRun(p)

(* A run that was deleted never comes back, though the upsert of a DAG run *)
(* that started before the deletion would insert it again.                 *)
ErasedForGood == \A r \in erased : row[r] = NoRow

(* A DAG run that nothing interrupted and whose segment is there fails for *)
(* one of three causes. A task before the model is asked raises in every   *)
(* try: the features always do, as the code stands. Or it has its answer,  *)
(* and org_id is NOT NULL: then none ever stores it. Or it could not get   *)
(* any from its cache file, which holds one the parser refuses or which    *)
(* somebody else wrote too.                                                *)
OthersAsked(c) == \E d \in CallersOf(KeyOf[c]) \ {c} : asked[d] > 0
BadAnswerCached(k) == \E a \in Answers : file[k] = Whole(a) /\ ~a.good
FailsForCause ==
  \A p \in Pipelines : task[p] = "failed" /\ budget = MaxFaults /\ segment =>
    \/ cstep[p] = "idle" /\ ~CanInfer(p)
    \/ cstep[p] = "answered" /\ ~orgIdNullable
    \/ cstep[p] = "failed" /\ (OthersAsked(p) \/ BadAnswerCached(KeyOf[p]))

(* What the docstring says the DAG does: the features, then the inference, *)
(* then the row. With a stimulus that validates, a segment that exists and *)
(* no interruption, a DAG run that fails has at least asked the model.     *)
FailsAfterAsking ==
  \A p \in Pipelines :
    task[p] = "failed" /\ budget = MaxFaults /\ segment /\ p \notin invalid =>
      cstep[p] # "idle"

(* The inductive invariant behind the first three, beside CacheInv: a task *)
(* that stores has the answer in hand; a DAG run asks only if the tasks    *)
(* before can succeed; no row is without its segment; a DAG run that skips *)
(* has already what one that is done has.                                  *)
HandedOn == \A p \in Pipelines : task[p] = "persist" /\ ~skip[p] => cstep[p] = "answered"
AskedInOrder ==
  \A p \in Pipelines : /\ task[p] = "infer" /\ ~skip[p] => userCount
                       /\ cstep[p] # "idle" => CanInfer(p)
RowsHaveSegment ==
  IF segment THEN erased = {} ELSE \A r \in Runs : row[r] = NoRow
PipelineInv ==
  /\ HandedOn /\ AskedInOrder /\ RowsHaveSegment /\ StoredAnswerIsTrue
  /\ \A p \in Pipelines : task[p] = "done" \/ skip[p] => SettledRun(p)
  /\ \A r \in Runs : row[r].status = "completed" => orgIdNullable \/ writer[r] \in Jobs

(* The inductive invariant behind FailsForCause. While nothing has been    *)
(* interrupted and nobody else asks, the file is what the call has made of *)
(* it, and a DAG run fails only for its inference, for the missing org_id, *)
(* or because it never came to ask.                                        *)
CallAlone(c) ==
  \/ OthersAsked(c)
  \/ /\ cstep[c] = "writing" => file[KeyOf[c]] = Nothing(Empty)
     /\ cstep[c] = "parsing" => file[KeyOf[c]] = Whole(got[c])
     /\ cstep[c] = "failed" => BadAnswerCached(KeyOf[c])
UndisturbedInv ==
  budget = MaxFaults =>
    /\ broke = {}
    /\ \A c \in Callers : CallAlone(c)
    /\ \A p \in Pipelines : task[p] = "failed" /\ segment =>
         ~CanInfer(p) \/ cstep[p] = "failed" \/ (cstep[p] = "answered" /\ ~orgIdNullable)

(* DAG runs and jobs together show their readers the lifecycle of a run,   *)
(* as SimulationRuns does for jobs alone (RunLifecycle): deleted, a run    *)
(* never comes back, whatever is still under way; settled, it stays so,    *)
(* unless two of them have written it or its job was executed twice.       *)
shownStatus ==
  [r \in Runs |-> IF row[r] = NoRow /\ r \in erased THEN "erased" ELSE row[r].status]
shownAnswer == [r \in Runs |-> row[r].answer]
Contended(r) == \E c, d \in wrote : c # d /\ RunOf[c] = r /\ RunOf[d] = r
disturbedRuns ==
  {r \in Runs : Contended(r) \/ \E j \in Jobs : RunOf[j] = r /\ tries[j] > 1}
Lifecycle == INSTANCE RunLifecycle WITH
  NoAnswer <- None,
  status <- shownStatus, answer <- shownAnswer, disturbed <- disturbedRuns
RunsKeepLifecycle == Lifecycle!RunSpec

(* The inductive invariant behind the lifecycle. While the segment exists, *)
(* a job has written its row as soon as it was executed, whatever is not   *)
(* as it was requested has been written, and a row with a single writer is *)
(* as that one left it: a DAG run that stores again stores the same.       *)
LeftBy(c) ==
  IF c \in Pipelines
  THEN row[RunOf[c]] = [status |-> "completed", answer |-> got[c]]
  ELSE jpc[c] = "infer" /\ tries[c] = 1 => row[RunOf[c]].status = "running"
StoredAtEnd == \A p \in Pipelines : p \in wrote => task[p] \in {"persist"} \cup Ends
JobsWrote ==
  \A j \in Jobs : /\ row[RunOf[j]] # NoRow /\ (j \in wrote <=> tries[j] > 0)
                  /\ jpc[j] = "infer" => tries[j] > 0
WrittenBySome ==
  \A r \in Runs : row[r].status \notin {"absent", "pending"} =>
    \E c \in wrote : RunOf[c] = r
LeftAsWritten == \A c \in wrote : Contended(RunOf[c]) \/ LeftBy(c)
WriterInv ==
  StoredAtEnd /\ (segment => JobsWrote /\ WrittenBySome /\ LeftAsWritten)

(* Every DAG run and every job comes to an end, whatever fails.            *)
AllEnd ==
  /\ \A p \in Pipelines : <>(task[p] \in Ends)
  /\ \A j \in Jobs : <>(jpc[j] \in {"done", "failed", "dropped"})
=============================================================================
