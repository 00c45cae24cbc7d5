---------------------------- MODULE SegmentTraining ----------------------------
(***************************************************************************)
(* A segment, the embedding made of it, and the flag that says whether the *)
(* embedding is up to date.                                                *)
(*                                                                         *)
(*   - The segments endpoints create, edit and delete rows of segments,    *)
(*     each in the transaction of its request. An edit of the definition   *)
(*     sets is_stale.                                                      *)
(*   - extract_segment_data reads the definition, computes the features,   *)
(*     stores the embedding in Qdrant, and then clears is_stale.           *)
(*   - drift_check, once a day, lists the segments trained too long ago,   *)
(*     sets is_stale for them, and triggers a training of each.            *)
(*                                                                         *)
(* A definition is the number of its edit, and an embedding the number of  *)
(* the definition it was made of, 0 for none.                              *)
(***************************************************************************)
EXTENDS Naturals

CONSTANTS
  Segments,   \* segment ids
  Edits,      \* PUT requests with a definition
  DagRuns,    \* bound: runs of extract_segment_data under way together
  Retries,    \* Airflow's retries of a task of extract_segment_data
  MaxEvents   \* bound: trainings triggered by hand, tasks and triggers that fail

ASSUME TrainingAssumption ==
  /\ Retries \in Nat /\ MaxEvents \in Nat
  /\ "none" \notin Segments

VARIABLES
  row,      \* rows of segments
  point,    \* points of the Qdrant collection
  edit,     \* each PUT request
  run,      \* each run of extract_segment_data
  drift,    \* the run of drift_check
  (* environment and history *)
  budget,   \* what the environment may still do: MaxEvents at first
  crossed   \* segments with an edit and a training under way at one time, since
            \* the last moment they were flagged and no training was under way

vars == <<row, point, edit, run, drift, budget, crossed>>

-----------------------------------------------------------------------------
Rows == [at : {"unborn", "live", "gone"}, definition : Nat,
         stale : BOOLEAN, trained : {"never", "recently", "long ago"}]
Requests == [at : {"new", "open", "closed"}, of : Segments \cup {"none"}, saw : BOOLEAN]
Trainings == [at : {"idle", "queued", "fetched", "featured", "stored"},
              of : Segments \cup {"none"}, definition : Nat, left : 0 .. Retries]
DriftChecks == [at : {"idle", "marking", "scanning", "triggering"},
                listed : SUBSET Segments, todo : SUBSET Segments, left : {0, 1}]
IdleEdit == [at |-> "new", of |-> "none", saw |-> FALSE]
ClosedEdit == [at |-> "closed", of |-> "none", saw |-> FALSE]
IdleRun  == [at |-> "idle", of |-> "none", definition |-> 0, left |-> 0]
NoDrift  == [at |-> "idle", listed |-> {}, todo |-> {}, left |-> 1]

(* Types of the segments, points, requests and DAG runs.                   *)
TrainingTypeOK ==
  /\ row \in [Segments -> Rows]
  /\ point \in [Segments -> Nat]
  /\ edit \in [Edits -> Requests]
  /\ run \in [DagRuns -> Trainings]
  /\ \A d \in DagRuns : run[d].at = "idle" <=> run[d].of = "none"
  /\ \A e \in Edits : edit[e].at = "open" <=> edit[e].of # "none"
  /\ drift \in DriftChecks
  /\ drift.todo \subseteq drift.listed
  /\ budget \in 0 .. MaxEvents
  /\ crossed \subseteq Segments

NoRow(at) == [at |-> at, definition |-> 0, stale |-> FALSE, trained |-> "never"]

Init ==
  /\ row = [s \in Segments |-> NoRow("unborn")]
  /\ point = [s \in Segments |-> 0]
  /\ edit = [e \in Edits |-> IdleEdit]
  /\ run = [d \in DagRuns |-> IdleRun]
  /\ drift = NoDrift
  /\ budget = MaxEvents
  /\ crossed = {}

Event == budget > 0 /\ budget' = budget - 1

Live(s)      == row[s].at = "live"
Training(s)  == \E d \in DagRuns : run[d].of = s /\ run[d].at # "queued"
BeingEdited(s) == \E e \in Edits : edit[e].at = "open" /\ edit[e].of = s

(* What every step adds to the history.                                    *)
Overlap(s)   == BeingEdited(s) /\ Training(s)
Recovered(s) == row[s].stale /\ ~Training(s)
Observe ==
  crossed' = {s \in Segments : ~Recovered(s)' /\ (s \in crossed \/ Overlap(s)')}

-----------------------------------------------------------------------------
(* The segments endpoints.                                                 *)

CreateSegment(s) ==
  /\ row[s].at = "unborn"
  /\ row' = [row EXCEPT ![s] =
       [at |-> "live", definition |-> 1, stale |-> TRUE, trained |-> "never"]]
  /\ UNCHANGED <<point, edit, run, drift, budget>>
  /\ Observe

(* update_segment loads the row ...                                        *)
OpenEdit(e, s) ==
  /\ edit[e].at = "new" /\ Live(s)
  /\ edit' = [edit EXCEPT ![e] = [at |-> "open", of |-> s, saw |-> row[s].stale]]
  /\ UNCHANGED <<row, point, run, drift, budget>>
  /\ Observe

(* Mutant: an update of the definition leaves is_stale alone.              *)
Edited_FlagKept(s, saw) ==
  [row[s] EXCEPT !.definition = @ + 1]

(* The session writes the columns that differ from what it has loaded: an  *)
(* is_stale loaded as TRUE is not written.                                 *)
Edited(s, saw) ==
  [at |-> "live", definition |-> row[s].definition + 1,
   stale |-> IF saw THEN row[s].stale ELSE TRUE, trained |-> row[s].trained]

(* ... and get_db commits. Of a row deleted meanwhile no row is updated,   *)
(* and the session rolls back.                                             *)
CommitEdit(e) ==
  /\ edit[e].at = "open"
  /\ edit' = [edit EXCEPT ![e] = ClosedEdit]
  /\ LET s == edit[e].of IN
       row' = IF Live(s) THEN [row EXCEPT ![s] = Edited(s, edit[e].saw)] ELSE row
  /\ UNCHANGED <<point, run, drift, budget>>
  /\ Observe

(* No statement of the program writes segments.qdrant_id.                  *)
HasQdrantId(s) == FALSE

DeleteSegment(s) ==
  /\ Live(s)
  /\ row' = [row EXCEPT ![s] = NoRow("gone")]
  /\ point' = IF HasQdrantId(s) THEN [point EXCEPT ![s] = 0] ELSE point
  /\ UNCHANGED <<edit, run, drift, budget>>
  /\ Observe

(* delete_org_data and clear_database.                                     *)
DeleteOrgData ==
  /\ \E s \in Segments : Live(s)
  /\ row' = [s \in Segments |-> IF Live(s) THEN NoRow("gone") ELSE row[s]]
  /\ UNCHANGED <<point, edit, run, drift, budget>>
  /\ Observe

-----------------------------------------------------------------------------
(* extract_segment_data: four tasks, each retried by Airflow. What a task  *)
(* returned is kept for the tasks after it, whatever happens to the row.   *)

Queue(d, s) ==
  /\ run[d].at = "idle" /\ d = CHOOSE x \in DagRuns : run[x].at = "idle"
  /\ run' = [run EXCEPT ![d] =
       [at |-> "queued", of |-> s, definition |-> 0, left |-> Retries]]

TriggerByHand(d, s) ==
  /\ Live(s) /\ Event
  /\ Queue(d, s)
  /\ UNCHANGED <<row, point, edit, drift>>
  /\ Observe

(* The next task has its own retries.                                      *)
Advanced(d, to, definition) ==
  [run EXCEPT ![d] = [at |-> to, of |-> run[d].of, definition |-> definition, left |-> Retries]]

Advance(d, from, to) ==
  /\ run[d].at = from
  /\ run' = Advanced(d, to, run[d].definition)

FetchSegment(d) ==
  /\ run[d].at = "queued" /\ Live(run[d].of)
  /\ run' = Advanced(d, "fetched", row[run[d].of].definition)
  /\ UNCHANGED <<row, point, edit, drift, budget>>
  /\ Observe

(* The ValueError of every try: a deleted segment does not come back.      *)
SegmentNotFound(d) ==
  /\ run[d].at = "queued" /\ ~Live(run[d].of)
  /\ run' = [run EXCEPT ![d] = IdleRun]
  /\ UNCHANGED <<row, point, edit, drift, budget>>
  /\ Observe

RunFeatureEngineering(d) ==
  /\ Advance(d, "fetched", "featured")
  /\ UNCHANGED <<row, point, edit, drift, budget>>
  /\ Observe

(* Mutant: a failure of Qdrant is logged, and the task succeeds.           *)
Stored_Never(d) == point

(* encode_and_store: the point of the segment is replaced.                 *)
Stored(d) == [point EXCEPT ![run[d].of] = run[d].definition]

GenerateEmbedding(d) ==
  /\ Advance(d, "featured", "stored")
  /\ point' = Stored(d)
  /\ UNCHANGED <<row, edit, drift, budget>>
  /\ Observe

(* UPDATE segments SET last_trained_at = NOW(), is_stale = FALSE.          *)
MarkedTrained(d) ==
  IF Live(run[d].of)
    THEN [row EXCEPT ![run[d].of] =
           [at |-> "live", definition |-> @.definition, stale |-> FALSE, trained |-> "recently"]]
    ELSE row

UpdateSegmentMetadata(d) ==
  /\ run[d].at = "stored"
  /\ row' = MarkedTrained(d)
  /\ run' = [run EXCEPT ![d] = IdleRun]
  /\ UNCHANGED <<point, edit, drift, budget>>
  /\ Observe

(* The attempt fails: another one, or the run has failed.                  *)
TryAgain(d) ==
  IF run[d].left > 0 THEN [run EXCEPT ![d].left = @ - 1] ELSE [run EXCEPT ![d] = IdleRun]

(* An attempt of a task fails, before or after its effect.                 *)
TaskFails(d) ==
  /\ run[d].at # "idle" /\ Event
  /\ run' = TryAgain(d)
  /\ \/ UNCHANGED <<row, point>>
     \/ run[d].at = "featured" /\ point' = Stored(d) /\ row' = row
     \/ run[d].at = "stored" /\ row' = MarkedTrained(d) /\ point' = point
  /\ UNCHANGED <<edit, drift>>
  /\ Observe

-----------------------------------------------------------------------------
(* drift_check: scan_and_mark_stale, then trigger_retraining.              *)

(* STALE_THRESHOLD_DAYS pass.                                              *)
GrowOld(s) ==
  /\ row[s].trained = "recently"
  /\ row' = [row EXCEPT ![s].trained = "long ago"]
  /\ UNCHANGED <<point, edit, run, drift, budget>>
  /\ Observe

(* Mutant: the condition without IS NULL.                                  *)
OutOfDate_IgnoreNull(s) == Live(s) /\ row[s].trained = "long ago"

(* last_trained_at IS NULL OR last_trained_at < cutoff                     *)
OutOfDate(s) == Live(s) /\ row[s].trained # "recently"

Scan ==
  /\ drift.at \in {"idle", "scanning"}
  /\ LET found == {s \in Segments : OutOfDate(s)} IN
       drift' = IF found = {} THEN NoDrift
                ELSE [at |-> "marking", listed |-> found, todo |-> {}, left |-> drift.left]
  /\ UNCHANGED <<row, point, edit, run, budget>>
  /\ Observe

(* UPDATE ... WHERE id = ANY(the ids listed), in a transaction of its own. *)
Flagged ==
  [s \in Segments |->
    IF s \in drift.listed /\ Live(s) THEN [row[s] EXCEPT !.stale = TRUE] ELSE row[s]]

MarkStale ==
  /\ drift.at = "marking"
  /\ row' = Flagged
  /\ drift' = [at |-> "triggering", listed |-> drift.listed, todo |-> drift.listed, left |-> 1]
  /\ UNCHANGED <<point, edit, run, budget>>
  /\ Observe

(* The task is tried once more, from the scan on.                          *)
MarkFails ==
  /\ drift.at = "marking" /\ Event
  /\ row' \in {row, Flagged}
  /\ drift' = IF drift.left = 0 THEN NoDrift
              ELSE [at |-> "scanning", listed |-> {}, todo |-> {}, left |-> 0]
  /\ UNCHANGED <<point, edit, run>>
  /\ Observe

Triggered(s) ==
  LET rest == drift.todo \ {s} IN
    IF rest = {} THEN NoDrift ELSE [drift EXCEPT !.todo = rest]

TriggerRetraining(d, s) ==
  /\ drift.at = "triggering" /\ s \in drift.todo
  /\ Queue(d, s)
  /\ drift' = Triggered(s)
  /\ UNCHANGED <<row, point, edit, budget>>
  /\ Observe

(* An exception of the POST is logged, and the loop goes on.               *)
TriggerFails(s) ==
  /\ drift.at = "triggering" /\ s \in drift.todo
  /\ Event
  /\ drift' = Triggered(s)
  /\ UNCHANGED <<row, point, edit, run>>
  /\ Observe

(* The task dies in its loop, and is tried once more with the whole list.  *)
TriggerDies ==
  /\ drift.at = "triggering" /\ Event
  /\ drift' = IF drift.left = 0 THEN NoDrift
              ELSE [at |-> "triggering", listed |-> drift.listed, todo |-> drift.listed, left |-> 0]
  /\ UNCHANGED <<row, point, edit, run>>
  /\ Observe

-----------------------------------------------------------------------------
Work(d) ==
  \/ FetchSegment(d) \/ SegmentNotFound(d) \/ RunFeatureEngineering(d)
  \/ GenerateEmbedding(d) \/ UpdateSegmentMetadata(d)

DriftCheck == Scan \/ MarkStale \/ \E d \in DagRuns, s \in Segments : TriggerRetraining(d, s)

Next ==
  \/ \E s \in Segments : CreateSegment(s) \/ DeleteSegment(s) \/ GrowOld(s) \/ TriggerFails(s)
  \/ \E e \in Edits : CommitEdit(e) \/ \E s \in Segments : OpenEdit(e, s)
  \/ DeleteOrgData
  \/ \E d \in DagRuns : Work(d) \/ TaskFails(d) \/ \E s \in Segments : TriggerByHand(d, s)
  \/ DriftCheck \/ MarkFails \/ TriggerDies

Spec == Init /\ [][Next]_vars

(* Airflow runs drift_check every day and the tasks of what is triggered,  *)
(* and time passes. Nobody has to edit, delete or trigger anything.        *)
FairSpec ==
  /\ Spec
  /\ WF_vars(DriftCheck)
  /\ \A d \in DagRuns : WF_vars(Work(d))
  /\ \A s \in Segments : WF_vars(GrowOld(s))

-----------------------------------------------------------------------------
(* A segment that is not flagged has an embedding of its current           *)
(* definition, through retries, half-done runs, concurrent trainings and   *)
(* drift scans, unless an edit of it and a training of it were under way   *)
(* at one time: then update_segment_metadata may clear a flag that is      *)
(* about a later definition, or the edit may not write its flag. The next  *)
(* flag that finds no training under way ends this exception.              *)
UnflaggedIsCurrent ==
  \A s \in Segments :
    Live(s) /\ ~row[s].stale /\ s \notin crossed => point[s] = row[s].definition

(* A segment has last_trained_at only when an embedding of it, of one of   *)
(* the definitions it has had, is in Qdrant.                               *)
TrainedHasEmbedding ==
  \A s \in Segments : row[s].trained # "never" => point[s] \in 1 .. row[s].definition

(* A flagged segment is trained again in the end, or deleted: it is listed *)
(* by drift_check once its last training is old, for an edit alone does    *)
(* not make it be listed, and the failures of a day are repeated the next. *)
FlaggedIsRetrained ==
  \A s \in Segments : Live(s) /\ row[s].stale ~> ~Live(s) \/ ~row[s].stale

(* The inductive invariant behind UnflaggedIsCurrent. Of a segment without *)
(* an edit across a training, a training under way has the current         *)
(* definition, and has stored it when it is about to clear the flag; an    *)
(* edit that will not write the flag has the flag still set.               *)
UpToDate(s) ==
  /\ ~row[s].stale => point[s] = row[s].definition
  /\ \A d \in DagRuns :
       run[d].of = s /\ run[d].at # "queued" =>
         /\ run[d].definition = row[s].definition
         /\ run[d].at = "stored" => point[s] = row[s].definition
  /\ \A e \in Edits : edit[e].of = s /\ edit[e].saw => row[s].stale
SegmentInv(s) ==
  /\ row[s].at = "unborn" => ~BeingEdited(s) /\ ~Training(s)
  /\ Overlap(s) => s \in crossed
  /\ Live(s) /\ s \notin crossed => UpToDate(s)
TrainingInv == TrainingTypeOK /\ \A s \in Segments : SegmentInv(s)

(* The inductive invariant behind TrainedHasEmbedding. A training under    *)
(* way holds a definition that its segment has had, and has stored it when *)
(* it is about to set last_trained_at.                                     *)
HasHad(s, n) == n \in 1 .. row[s].definition
EmbeddingInv(s) ==
  /\ row[s].trained # "never" => Live(s) /\ HasHad(s, point[s])
  /\ Live(s) =>
       /\ row[s].definition > 0
       /\ \A d \in DagRuns :
            run[d].of = s /\ run[d].at # "queued" =>
              /\ HasHad(s, run[d].definition)
              /\ run[d].at = "stored" => HasHad(s, point[s])
EmbeddingsInv == TrainingInv /\ \A s \in Segments : EmbeddingInv(s)
=============================================================================
