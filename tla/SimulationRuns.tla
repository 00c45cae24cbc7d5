--------------------------- MODULE SimulationRuns ---------------------------
(***************************************************************************)
(* A simulation run from the request that creates it to the worker that    *)
(* answers it.                                                             *)
(*                                                                         *)
(*   - POST /simulate/run inserts a row of simulation_runs in the          *)
(*     request's transaction, enqueues an ARQ job named after the row, and *)
(*     returns 202; get_db commits the transaction after the response.     *)
(*   - POST /simulate/run/sync asks the persona inside the request.        *)
(*   - run_simulation_job, in a worker process, writes 'running', asks the *)
(*     persona, and writes 'completed' or 'failed', each write in a        *)
(*     transaction of its own.                                             *)
(*   - Deleting a segment, or all the data of the organisation, removes    *)
(*     the rows of the runs.                                               *)
(*                                                                         *)
(* A run stands for the request that made its id (a fresh UUID).           *)
(***************************************************************************)
EXTENDS Integers, FiniteSets

CONSTANTS
  Runs,        \* the runs requested, one request each
  SyncRuns,    \* those requested through /simulate/run/sync
  Segments,    \* the segments of the organisation
  SegmentOf,   \* the segment each request names
  Workers,     \* job slots of the worker processes
  MaxTries,    \* arq's max_tries: executions of a job before arq drops it
  MaxCrashes,  \* bound: process crashes in a behaviour
  MaxSlow,     \* bound: leases that expire under a job still executing
  MaxErrors    \* bound: failed calls to PostgreSQL or Redis

ASSUME RunsAssumption ==
  /\ SyncRuns \subseteq Runs
  /\ SegmentOf \in [Runs -> Segments]
  /\ MaxTries \in Nat \ {0}
  /\ MaxCrashes \in Nat /\ MaxSlow \in Nat /\ MaxErrors \in Nat

VARIABLES
  segments,   \* rows of the segments table
  row,        \* committed rows of simulation_runs
  pc,         \* progress of each request handler
  job, lease, tries,    \* arq: the job, its in-progress key, its executions
  wpc, wrun, wtry,      \* each worker slot: progress, run, number of its try
  (* environment and history *)
  budget,     \* faults the environment may still inject, at most the bounds
  erased,     \* runs whose committed row has been deleted
  mishap      \* what went wrong for a run: "missed", "error", "overlap"

apiVars    == <<segments, pc, erased>>
queueVars  == <<job, lease, tries>>
workerVars == <<wpc, wrun, wtry>>
vars == <<apiVars, row, queueVars, workerVars, budget, mishap>>

-----------------------------------------------------------------------------
Terminal == {"completed", "failed"}
Statuses == {"pending", "running"} \cup Terminal

(* answer is the try whose persona response the row holds, 0 for none.     *)
NoRow == [status |-> "absent", answer |-> 0]
Row   == [status : Statuses, answer : 0 .. MaxTries] \cup {NoRow}

(* Handler progress while the request's transaction holds an uncommitted   *)
(* row: it has a key-share lock on the segment.                            *)
OpenStates == {"inserted", "enqueued", "inferred", "answered"}
HandlerStates ==
  {"new", "found", "rejected", "committed", "aborted"} \cup OpenStates

BusyStates == {"starting", "inferring", "persisting", "failing", "finishing"}

InTransaction(r) == pc[r] \in OpenStates
Visible(r)       == row[r] # NoRow
On(w, r)         == wpc[w] # "idle" /\ wrun[w] = r
Attended(r)      == \E w \in Workers : On(w, r)

(* Types of the rows, the queue and the slots; no job is executed more     *)
(* than MaxTries times.                                                    *)
TypeOK ==
  /\ segments \subseteq Segments
  /\ row \in [Runs -> Row]
  /\ pc \in [Runs -> HandlerStates]
  /\ job \in [Runs -> {"none", "queued", "done", "dropped"}]
  /\ lease \in [Runs -> BOOLEAN]
  /\ tries \in [Runs -> 0 .. MaxTries]
  /\ wpc \in [Workers -> BusyStates \cup {"idle"}]
  /\ wrun \in [Workers -> Runs \cup {"none"}]
  /\ wtry \in [Workers -> 0 .. MaxTries]
  /\ \A w \in Workers : wpc[w] # "idle" => wrun[w] \in Runs /\ wtry[w] # 0
  /\ budget \in [crash : 0 .. MaxCrashes, slow : 0 .. MaxSlow, error : 0 .. MaxErrors]
  /\ erased \in SUBSET Runs
  /\ mishap \in [Runs -> SUBSET {"missed", "error", "overlap"}]

Init ==
  /\ segments = Segments
  /\ row = [r \in Runs |-> NoRow]
  /\ pc = [r \in Runs |-> "new"]
  /\ job = [r \in Runs |-> "none"]
  /\ lease = [r \in Runs |-> FALSE]
  /\ tries = [r \in Runs |-> 0]
  /\ wpc = [w \in Workers |-> "idle"]
  /\ wrun = [w \in Workers |-> "none"]
  /\ wtry = [w \in Workers |-> 0]
  /\ budget \in [crash : 0 .. MaxCrashes, slow : {MaxSlow}, error : {MaxErrors}]
  /\ erased = {}
  /\ mishap = [r \in Runs |-> {}]

Spend(fault) ==
  /\ budget[fault] > 0
  /\ budget' = [budget EXCEPT ![fault] = @ - 1]

Suffer(r, what) == mishap' = [mishap EXCEPT ![r] = @ \cup {what}]

-----------------------------------------------------------------------------
(* The two request handlers.                                               *)

Goto(r, from, to) ==
  /\ pc[r] = from
  /\ pc' = [pc EXCEPT ![r] = to]

(* The SELECT of the segment finds it, or the handler answers 404.         *)
FindSegment(r) ==
  /\ Goto(r, "new", IF SegmentOf[r] \in segments THEN "found" ELSE "rejected")
  /\ UNCHANGED <<segments, erased, row, queueVars, workerVars, budget, mishap>>

(* Mutant: the table of the ORM, whose segment_id has no foreign key.      *)
InsertRow_NoForeignKey(r) ==
  /\ Goto(r, "found", "inserted")
  /\ UNCHANGED <<segments, erased, row, queueVars, workerVars, budget, mishap>>

(* db.add and flush. The foreign key refuses a segment deleted since the   *)
(* SELECT; the exception makes get_db roll back.                           *)
InsertRow(r) ==
  /\ Goto(r, "found", IF SegmentOf[r] \in segments THEN "inserted" ELSE "aborted")
  /\ UNCHANGED <<segments, erased, row, queueVars, workerVars, budget, mishap>>

(* queue.enqueue_job with the run's id as job id.                          *)
Enqueue(r) ==
  /\ r \notin SyncRuns
  /\ Goto(r, "inserted", "enqueued")
  /\ job' = [job EXCEPT ![r] = "queued"]
  /\ UNCHANGED <<segments, erased, row, lease, tries, workerVars, budget, mishap>>

(* Redis fails under enqueue_job, with or without the job stored; the      *)
(* exception makes get_db roll the row back.                               *)
EnqueueFails(r) ==
  /\ r \notin SyncRuns
  /\ Goto(r, "inserted", "aborted")
  /\ Spend("error")
  /\ \E stored \in BOOLEAN :
       job' = IF stored THEN [job EXCEPT ![r] = "queued"] ELSE job
  /\ UNCHANGED <<segments, erased, row, lease, tries, workerVars, mishap>>

(* The blocking inference of the synchronous endpoint.                     *)
InferInRequest(r) ==
  /\ r \in SyncRuns
  /\ Goto(r, "inserted", "inferred")
  /\ UNCHANGED <<segments, erased, row, queueVars, workerVars, budget, mishap>>

(* The handler writes status 'failed', flushes, and raises the 502 on      *)
(* which get_db rolls everything back.                                     *)
InferInRequestFails(r) ==
  /\ r \in SyncRuns
  /\ Goto(r, "inserted", "aborted")
  /\ UNCHANGED <<segments, erased, row, queueVars, workerVars, budget, mishap>>

(* The handler returns: FastAPI sends the response before it resumes the   *)
(* dependency get_db.                                                      *)
Respond(r) ==
  /\ \/ Goto(r, "enqueued", "answered")
     \/ Goto(r, "inferred", "answered")
  /\ UNCHANGED <<segments, erased, row, queueVars, workerVars, budget, mishap>>

(* get_db: session.commit() makes the row visible.                         *)
Commit(r) ==
  /\ Goto(r, "answered", "committed")
  /\ row' = [row EXCEPT ![r] =
               IF r \in SyncRuns THEN [status |-> "completed", answer |-> 1]
                                 ELSE [status |-> "pending", answer |-> 0]]
  /\ UNCHANGED <<segments, erased, queueVars, workerVars, budget, mishap>>

(* The API process dies, or the commit fails: the transaction is rolled    *)
(* back, whatever was enqueued or answered.                                *)
Abort(r) ==
  /\ InTransaction(r)
  /\ pc' = [pc EXCEPT ![r] = "aborted"]
  /\ Spend("crash")
  /\ UNCHANGED <<segments, erased, row, queueVars, workerVars, mishap>>

-----------------------------------------------------------------------------
(* Deletions. A DELETE of a segment waits for the transactions that hold   *)
(* a lock on it, then cascades to the runs of the segment.                 *)

Erase(gone) ==
  /\ gone # {}
  /\ \A r \in Runs : SegmentOf[r] \in gone => ~InTransaction(r)
  /\ segments' = segments \ gone
  /\ row' = [r \in Runs |-> IF SegmentOf[r] \in gone THEN NoRow ELSE row[r]]
  /\ erased' = erased \cup {r \in Runs : SegmentOf[r] \in gone /\ Visible(r)}
  /\ UNCHANGED <<pc, queueVars, workerVars, budget, mishap>>

DeleteSegment(s) == s \in segments /\ Erase({s})

(* DELETE /org/data, and clear_database: all runs and segments in one      *)
(* transaction.                                                            *)
DeleteOrgData == Erase(segments)

-----------------------------------------------------------------------------
(* arq, as simulation_worker.py configures it: a job stays queued until an *)
(* execution of it finishes; an in-progress key with a time to live keeps  *)
(* it from a second worker.                                                *)

(* A worker takes the job and calls run_simulation_job.                    *)
Start(w, r) ==
  /\ wpc[w] = "idle"
  /\ job[r] = "queued" /\ ~lease[r] /\ tries[r] < MaxTries
  /\ lease' = [lease EXCEPT ![r] = TRUE]
  /\ tries' = [tries EXCEPT ![r] = @ + 1]
  /\ wpc' = [wpc EXCEPT ![w] = "starting"]
  /\ wrun' = [wrun EXCEPT ![w] = r]
  /\ wtry' = [wtry EXCEPT ![w] = tries[r] + 1]
  /\ UNCHANGED <<apiVars, row, job, budget, mishap>>

(* max_tries used up: arq discards the job without calling the function.   *)
Drop(r) ==
  /\ job[r] = "queued" /\ ~lease[r] /\ tries[r] = MaxTries
  /\ job' = [job EXCEPT ![r] = "dropped"]
  /\ UNCHANGED <<apiVars, row, lease, tries, workerVars, budget, mishap>>

(* The in-progress key outlives its worker, or expires under a job that    *)
(* takes longer than job_timeout allows.                                   *)
LeaseOutlives(r) ==
  /\ lease[r] /\ ~Attended(r)
  /\ lease' = [lease EXCEPT ![r] = FALSE]
  /\ UNCHANGED <<apiVars, row, job, tries, workerVars, budget, mishap>>

LeaseExpires(r) ==
  /\ lease[r] /\ Attended(r)
  /\ Spend("slow")
  /\ lease' = [lease EXCEPT ![r] = FALSE]
  /\ UNCHANGED <<apiVars, row, job, tries, workerVars, mishap>>

-----------------------------------------------------------------------------
(* run_simulation_job.                                                     *)

Step(w, from, to) ==
  /\ wpc[w] = from
  /\ wpc' = [wpc EXCEPT ![w] = to]

(* Mutant: the worker writes with INSERT ... ON CONFLICT DO UPDATE.        *)
UpdateRow_Upsert(r, new) == row' = [row EXCEPT ![r] = new]

(* UPDATE simulation_runs ... WHERE id = run_id: without effect when no    *)
(* committed row has the id.                                               *)
UpdateRow(r, new) == row' = IF Visible(r) THEN [row EXCEPT ![r] = new] ELSE row

WithStatus(r, status) == [status |-> status, answer |-> row[r].answer]
Answered(w) == [status |-> "completed", answer |-> wtry[w]]

(* The last write of the job: a miss while the request's transaction is    *)
(* still open is remembered.                                               *)
LastUpdate(r, new) ==
  /\ UpdateRow(r, new)
  /\ IF InTransaction(r) THEN Suffer(r, "missed") ELSE UNCHANGED mishap

(* The call fails, and PostgreSQL may have applied the update all the same.*)
FailingUpdate(r, new) ==
  /\ Spend("error")
  /\ Suffer(r, "error")
  /\ \E applied \in BOOLEAN : IF applied THEN UpdateRow(r, new) ELSE row' = row

MarkRunning(w) ==
  /\ Step(w, "starting", "inferring")
  /\ UpdateRow(wrun[w], WithStatus(wrun[w], "running"))
  /\ UNCHANGED <<apiVars, queueVars, wrun, wtry, budget, mishap>>

(* The first write is outside the try block: its error ends the job.       *)
MarkRunningFails(w) ==
  /\ Step(w, "starting", "finishing")
  /\ FailingUpdate(wrun[w], WithStatus(wrun[w], "running"))
  /\ UNCHANGED <<apiVars, queueVars, wrun, wtry>>

(* PersonaInferenceService.generate and ConversionScorer.score.            *)
Infer(w) ==
  /\ Step(w, "inferring", "persisting")
  /\ UNCHANGED <<apiVars, row, queueVars, wrun, wtry, budget, mishap>>

(* Mutant: an exception of the inference that the job does not catch.      *)
InferFails_Uncaught(w) ==
  /\ Step(w, "inferring", "finishing")
  /\ UNCHANGED <<apiVars, row, queueVars, wrun, wtry, budget, mishap>>

InferFails(w) ==
  /\ Step(w, "inferring", "failing")
  /\ UNCHANGED <<apiVars, row, queueVars, wrun, wtry, budget, mishap>>

(* Mutant: an exception after the commit, still inside the try block.      *)
Persist_Raises(w) ==
  /\ Step(w, "persisting", "failing")
  /\ LastUpdate(wrun[w], Answered(w))
  /\ UNCHANGED <<apiVars, queueVars, wrun, wtry, budget>>

Persist(w) ==
  /\ Step(w, "persisting", "finishing")
  /\ LastUpdate(wrun[w], Answered(w))
  /\ UNCHANGED <<apiVars, queueVars, wrun, wtry, budget>>

(* An error of the write is caught by the except clause.                   *)
PersistFails(w) ==
  /\ Step(w, "persisting", "failing")
  /\ FailingUpdate(wrun[w], Answered(w))
  /\ UNCHANGED <<apiVars, queueVars, wrun, wtry>>

MarkFailed(w) ==
  /\ Step(w, "failing", "finishing")
  /\ LastUpdate(wrun[w], WithStatus(wrun[w], "failed"))
  /\ UNCHANGED <<apiVars, queueVars, wrun, wtry, budget>>

MarkFailedFails(w) ==
  /\ Step(w, "failing", "finishing")
  /\ FailingUpdate(wrun[w], WithStatus(wrun[w], "failed"))
  /\ UNCHANGED <<apiVars, queueVars, wrun, wtry>>

(* The slot is free again.                                                 *)
Release(w) ==
  /\ wpc' = [wpc EXCEPT ![w] = "idle"]
  /\ wrun' = [wrun EXCEPT ![w] = "none"]
  /\ wtry' = [wtry EXCEPT ![w] = 0]

(* arq's finish_job: the job leaves the queue, whether the function        *)
(* returned or raised, and the in-progress key goes with it.               *)
Finish(w) ==
  /\ wpc[w] = "finishing"
  /\ Release(w)
  /\ job' = [job EXCEPT ![wrun[w]] = IF @ = "queued" THEN "done" ELSE @]
  /\ lease' = [lease EXCEPT ![wrun[w]] = FALSE]
  /\ UNCHANGED <<apiVars, row, tries, budget, mishap>>

(* The worker process dies. Its attempt is not made up for when another    *)
(* attempt of the same job takes the job out of the queue.                 *)
Crash(w) ==
  /\ wpc[w] # "idle"
  /\ Release(w)
  /\ Spend("crash")
  /\ IF \/ job[wrun[w]] # "queued"
        \/ \E v \in Workers \ {w} : On(v, wrun[w])
     THEN Suffer(wrun[w], "overlap")
     ELSE UNCHANGED mishap
  /\ UNCHANGED <<apiVars, row, queueVars>>

-----------------------------------------------------------------------------
Handler(r) ==
  \/ FindSegment(r) \/ InsertRow(r)
  \/ Enqueue(r) \/ EnqueueFails(r)
  \/ InferInRequest(r) \/ InferInRequestFails(r)
  \/ Respond(r) \/ Commit(r) \/ Abort(r)

Queue(r) == Drop(r) \/ LeaseOutlives(r) \/ LeaseExpires(r)

(* The steps of a job, errors and crashes aside.                           *)
Work(w) ==
  \/ MarkRunning(w) \/ Infer(w) \/ InferFails(w)
  \/ Persist(w) \/ MarkFailed(w) \/ Finish(w)

Faults(w) ==
  \/ MarkRunningFails(w) \/ PersistFails(w) \/ MarkFailedFails(w) \/ Crash(w)

Next ==
  \/ \E r \in Runs : Handler(r) \/ Queue(r)
  \/ \E w \in Workers, r \in Runs : Start(w, r)
  \/ \E w \in Workers : Work(w) \/ Faults(w)
  \/ \E s \in Segments : DeleteSegment(s)
  \/ DeleteOrgData

Spec == Init /\ [][Next]_vars

(* A worker polls the queue and runs what it took, and Redis expires keys. *)
(* Nothing is assumed of clients, of deletions or of faults.               *)
Fairness ==
  /\ \A w \in Workers : WF_vars(Work(w))
  /\ \A r \in Runs :
       WF_vars(\E w \in Workers : Start(w, r)) /\ WF_vars(LeaseOutlives(r))

FairSpec == Spec /\ Fairness

-----------------------------------------------------------------------------
(* What the rows are meant to be. The run's row, once deleted, stays       *)
(* deleted, although jobs of the run may still be queued or executing and  *)
(* write to it later (delete_org_data, delete_segment against              *)
(* run_simulation_job).                                                    *)
ErasedStaysErased == \A r \in erased : ~Visible(r)

(* Every row belongs to a segment that exists, although a segment may be   *)
(* deleted between the SELECT, the INSERT and the commit of a request.     *)
RowsHaveSegment == \A r \in Runs : Visible(r) => SegmentOf[r] \in segments

(* A row that is still pending or running, with its job gone from the      *)
(* queue and no attempt left to write it, is the trace of one of: a last   *)
(* write that preceded the commit of the row, a failed database call, an   *)
(* attempt that died while another one finished the job, or a job dropped  *)
(* after max_tries. The except clause of run_simulation_job leaves no      *)
(* other way to get stuck.                                                 *)
Stuck(r) ==
  /\ row[r].status \in Statuses \ Terminal
  /\ job[r] \in {"done", "dropped"}
  /\ ~Attended(r)
StuckRunExplained ==
  \A r \in Runs : Stuck(r) => mishap[r] # {} \/ job[r] = "dropped"

(* A settled row is not written again except by its deletion, unless arq   *)
(* has delivered the job twice or a database call has failed.              *)
Undisturbed(r) == tries[r] <= 1 /\ "error" \notin mishap[r]
SettledOnce ==
  \A r \in Runs :
    Undisturbed(r) /\ row[r].status \in Terminal => row'[r] \in {row[r], NoRow}
SettledIsFinal == [][SettledOnce]_vars

(* A run that is visible as pending before its job is first taken ends up  *)
(* completed, failed or deleted, whatever workers crash and whatever       *)
(* leases expire, as long as the tries outnumber the faults still to come, *)
(* unless the database fails one of its own job's writes.                  *)
Waiting(r) ==
  /\ row[r].status = "pending" /\ job[r] = "queued" /\ tries[r] = 0
  /\ budget.crash + budget.slow < MaxTries
WaitingRunSettles ==
  \A r \in Runs :
    Waiting(r) ~> row[r].status \in Terminal \cup {"absent"} \/ "error" \in mishap[r]

(* The inductive invariant behind these properties.                        *)

(* Only a committed request has a row, and only a row can be erased; an    *)
(* open transaction and a row keep the segment alive.                      *)
RowInv ==
  \A r \in Runs :
    /\ Visible(r) \/ r \in erased => pc[r] = "committed"
    /\ Visible(r) \/ InTransaction(r) => SegmentOf[r] \in segments

(* The executions of a job are counted: none before the first, and one     *)
(* attempt at most until the job is taken again.                           *)
TryInv ==
  \A r \in Runs :
    /\ r \in SyncRuns => job[r] = "none"
    /\ job[r] = "none" => tries[r] = 0
    /\ tries[r] = 0 => ~Attended(r)
    /\ tries[r] <= 1 => \A v, w \in Workers : On(v, r) /\ On(w, r) => v = w

(* An undisturbed run is settled by the last write of its only attempt.    *)
SettledInv ==
  \A r \in Runs :
    row[r].status \in Terminal =>
      /\ tries[r] = 0 => r \in SyncRuns
      /\ Undisturbed(r) => \A w \in Workers : On(w, r) => wpc[w] = "finishing"

(* Until the first attempt has written, an undisturbed run is pending.     *)
FirstInv ==
  \A r \in Runs \ SyncRuns :
    Undisturbed(r) /\ (tries[r] = 0 \/ \E w \in Workers : On(w, r) /\ wpc[w] = "starting")
      => row[r].status \in {"absent", "pending"}

(* From the last write of an attempt on, nothing having gone wrong, the    *)
(* run's transaction is over, and a row that is not terminal is the work   *)
(* of another attempt still under way.                                     *)
JobInv ==
  \A r \in Runs :
    job[r] # "none" => pc[r] \in {"enqueued", "answered", "committed", "aborted"}

Concluded(r) ==
  job[r] = "done" \/ \E w \in Workers : On(w, r) /\ wpc[w] = "finishing"
StuckInv ==
  \A r \in Runs :
    mishap[r] = {} /\ Concluded(r) =>
      /\ ~InTransaction(r)
      /\ row[r].status \in {"pending", "running"} =>
           \E w \in Workers : On(w, r) /\ wpc[w] # "finishing"

RunsInv ==
  /\ TypeOK /\ ErasedStaysErased /\ RowInv /\ TryInv /\ SettledInv
  /\ FirstInv /\ JobInv /\ StuckInv

(* The rows, as their readers see them, go through the run lifecycle: a    *)
(* refinement mapping in which a run is disturbed by a second execution of *)
(* its job and by a failed call to the database.                           *)
shownStatus   == [r \in Runs |-> IF r \in erased THEN "erased" ELSE row[r].status]
shownAnswer   == [r \in Runs |-> row[r].answer]
disturbedRuns == {r \in Runs : ~Undisturbed(r)}
Lifecycle == INSTANCE RunLifecycle WITH
  Answers <- 1 .. MaxTries, NoAnswer <- 0,
  status <- shownStatus, answer <- shownAnswer, disturbed <- disturbedRuns
ImplementsLifecycle == Lifecycle!RunSpec
=============================================================================
