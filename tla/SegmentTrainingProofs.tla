------------------------ MODULE SegmentTrainingProofs ------------------------
(* Proofs about SegmentTraining, for any segments, edits, DAG runs and     *)
(* bounds: TrainingInv is inductive, and UnflaggedIsCurrent follows; with  *)
(* EmbeddingInv it gives TrainedHasEmbedding.                              *)
EXTENDS SegmentTraining, TLAPS

(* The invariant holds of the empty table.                                 *)
THEOREM TrainingInit == Init => TrainingInv
<1> SUFFICES ASSUME Init PROVE TrainingInv
  OBVIOUS
<1>1. TrainingTypeOK
  BY TrainingAssumption DEF Init, TrainingTypeOK, NoRow, IdleEdit, IdleRun, NoDrift,
     Rows, Requests, Trainings, DriftChecks
<1>2. ASSUME NEW s \in Segments
      PROVE  SegmentInv(s)
  BY TrainingAssumption
     DEF Init, SegmentInv, NoRow, IdleEdit, IdleRun, Live, Training, BeingEdited, Overlap
<1>3. QED
  BY <1>1, <1>2 DEF TrainingInv

-----------------------------------------------------------------------------
(* Each group of steps keeps the types.                                    *)

(* A row has the fields it should have.                                    *)
LEMMA RowFields ==
  ASSUME TrainingTypeOK, NEW s \in Segments
  PROVE  /\ row[s].definition \in Nat
         /\ row[s].stale \in BOOLEAN
         /\ row[s].trained \in {"never", "recently", "long ago"}
<1>1. row[s] \in Rows
  BY DEF TrainingTypeOK
<1>2. QED
  BY <1>1 DEF Rows

(* A row that is still there has the shape of a row.                       *)
LEMMA RowShape ==
  ASSUME NEW n \in Nat, NEW b \in BOOLEAN, NEW t \in {"never", "recently", "long ago"}
  PROVE  [at |-> "live", definition |-> n, stale |-> b, trained |-> t] \in Rows
BY DEF Rows

(* An edit turns a row into a row.                                         *)
LEMMA EditedIsRow ==
  ASSUME TrainingTypeOK, NEW s \in Segments, NEW saw
  PROVE  Edited(s, saw) \in Rows
<1> DEFINE flag == IF saw THEN row[s].stale ELSE TRUE
<1>1. flag \in BOOLEAN
  BY RowFields
<1>2. row[s].definition + 1 \in Nat
  <2>1. row[s].definition \in Nat
    BY RowFields
  <2>2. QED
    BY <2>1
<1> HIDE DEF flag
<1>3. [at |-> "live", definition |-> row[s].definition + 1, stale |-> flag,
       trained |-> row[s].trained] \in Rows
  BY <1>1, <1>2, RowFields, RowShape
<1>4. QED
  BY <1>3 DEF Edited, flag

(* The history is about segments.                                          *)
LEMMA ObservedTypes ==
  Observe => crossed' \subseteq Segments
BY DEF Observe

(* The endpoints keep the types.                                           *)
LEMMA RequestTypes ==
  ASSUME TrainingTypeOK,
         \/ \E s \in Segments : CreateSegment(s) \/ DeleteSegment(s) \/ GrowOld(s)
         \/ \E e \in Edits : CommitEdit(e) \/ \E s \in Segments : OpenEdit(e, s)
         \/ DeleteOrgData
  PROVE  TrainingTypeOK'
<1> USE TrainingAssumption, ObservedTypes DEF TrainingTypeOK
<1>1. ASSUME NEW s \in Segments, CreateSegment(s)
      PROVE  TrainingTypeOK'
  BY <1>1 DEF CreateSegment, Rows
<1>2. ASSUME NEW s \in Segments, DeleteSegment(s)
      PROVE  TrainingTypeOK'
  BY <1>2 DEF DeleteSegment, NoRow, HasQdrantId, Rows
<1>3. ASSUME NEW s \in Segments, GrowOld(s)
      PROVE  TrainingTypeOK'
  BY <1>3 DEF GrowOld, Rows
<1>4. ASSUME NEW e \in Edits, CommitEdit(e)
      PROVE  TrainingTypeOK'
  <2>1. edit[e].of \in Segments
    BY <1>4 DEF CommitEdit, Requests
  <2>2. Edited(edit[e].of, edit[e].saw) \in Rows
    BY <2>1, EditedIsRow
  <2>3. edit' \in [Edits -> Requests]
    BY <1>4 DEF CommitEdit, ClosedEdit, Requests
  <2>4. row' \in [Segments -> Rows]
    BY <1>4, <2>1, <2>2 DEF CommitEdit
  <2>5. \A x \in Edits : edit'[x].at = "open" <=> edit'[x].of # "none"
    BY <1>4 DEF CommitEdit, ClosedEdit, Requests
  <2>6. QED
    BY <1>4, <2>3, <2>4, <2>5 DEF CommitEdit
<1>5. ASSUME NEW e \in Edits, NEW s \in Segments, OpenEdit(e, s)
      PROVE  TrainingTypeOK'
  <2>1. row[s].stale \in BOOLEAN
    BY RowFields
  <2>2. [at |-> "open", of |-> s, saw |-> row[s].stale] \in Requests
    BY <2>1 DEF Requests
  <2>3. edit' \in [Edits -> Requests]
    BY <1>5, <2>2 DEF OpenEdit
  <2>4. \A x \in Edits : edit'[x].at = "open" <=> edit'[x].of # "none"
    BY <1>5 DEF OpenEdit
  <2>5. crossed' \subseteq Segments
    BY <1>5 DEF OpenEdit
  <2>6. QED
    BY <1>5, <2>3, <2>4, <2>5 DEF OpenEdit
<1>6. ASSUME DeleteOrgData
      PROVE  TrainingTypeOK'
  <2>1. NoRow("gone") \in Rows
    BY DEF NoRow, Rows
  <2>2. row' \in [Segments -> Rows]
    BY <1>6, <2>1 DEF DeleteOrgData
  <2>3. QED
    BY <1>6, <2>2 DEF DeleteOrgData
<1>7. QED
  BY <1>1, <1>2, <1>3, <1>4, <1>5, <1>6

(* A training keeps the types.                                             *)
LEMMA WorkTypes ==
  ASSUME TrainingTypeOK, NEW d \in DagRuns,
         Work(d) \/ TaskFails(d) \/ \E s \in Segments : TriggerByHand(d, s)
  PROVE  TrainingTypeOK'
<1> USE TrainingAssumption, ObservedTypes DEF TrainingTypeOK, Trainings
<1>0. /\ run[d].at # "idle" => run[d].of \in Segments /\ Stored(d) \in [Segments -> Nat]
      /\ IdleRun \in Trainings
  BY DEF Stored, IdleRun
<1>B. ASSUME run[d].at # "idle"
      PROVE  MarkedTrained(d) \in [Segments -> Rows]
  <2>1. row[run[d].of] \in Rows
    BY <1>0, <1>B
  <2>2. row[run[d].of].definition \in Nat
    BY <2>1 DEF Rows
  <2>3. QED
    BY <1>0, <1>B, <2>2 DEF MarkedTrained, Rows
<1>A. ASSUME NEW to \in {"fetched", "featured", "stored"}, NEW v \in Nat, run[d].at # "idle",
             run' = Advanced(d, to, v)
      PROVE  /\ run' \in [DagRuns -> Trainings]
             /\ \A x \in DagRuns : run'[x].at = "idle" <=> run'[x].of = "none"
  BY <1>A DEF Advanced
<1>1. CASE FetchSegment(d)
  <2>1. row[run[d].of] \in Rows
    BY <1>0, <1>1 DEF FetchSegment
  <2>2. row[run[d].of].definition \in Nat
    BY <2>1 DEF Rows
  <2>3. QED
    BY <1>0, <1>1, <2>2, <1>A DEF FetchSegment
<1>2. CASE SegmentNotFound(d)
  BY <1>0, <1>2 DEF SegmentNotFound, IdleRun
<1>3. CASE RunFeatureEngineering(d)
  BY <1>3, <1>A DEF RunFeatureEngineering, Advance
<1>4. CASE GenerateEmbedding(d)
  BY <1>0, <1>4, <1>A DEF GenerateEmbedding, Advance
<1>5. CASE UpdateSegmentMetadata(d)
  BY <1>0, <1>B, <1>5 DEF UpdateSegmentMetadata, IdleRun
<1>6. CASE TaskFails(d)
  <2>1. run' \in [DagRuns -> Trainings]
    BY <1>6 DEF TaskFails, TryAgain, IdleRun
  <2>2. \A x \in DagRuns : run'[x].at = "idle" <=> run'[x].of = "none"
    BY <1>6 DEF TaskFails, TryAgain, IdleRun
  <2>3. row' \in [Segments -> Rows] /\ point' \in [Segments -> Nat]
    BY <1>0, <1>B, <1>6 DEF TaskFails
  <2>4. budget' \in 0 .. MaxEvents
    BY <1>6 DEF TaskFails, Event
  <2>5. QED
    BY <1>6, <2>1, <2>2, <2>3, <2>4 DEF TaskFails
<1>7. ASSUME NEW s \in Segments, TriggerByHand(d, s)
      PROVE  TrainingTypeOK'
  BY <1>7 DEF TriggerByHand, Queue, Event
<1>8. QED
  BY <1>1, <1>2, <1>3, <1>4, <1>5, <1>6, <1>7 DEF Work

(* The flag of a row set by mark_stale leaves it a row.                    *)
LEMMA FlaggedRow ==
  ASSUME NEW r \in Rows
  PROVE  [r EXCEPT !.stale = TRUE] \in Rows
BY DEF Rows

(* drift_check keeps the types.                                            *)
LEMMA DriftTypes ==
  ASSUME TrainingTypeOK,
         DriftCheck \/ MarkFails \/ TriggerDies \/ \E s \in Segments : TriggerFails(s)
  PROVE  TrainingTypeOK'
<1> USE TrainingAssumption, ObservedTypes DEF TrainingTypeOK, DriftChecks
<1>0. Flagged \in [Segments -> Rows]
  <2>1. ASSUME NEW s \in Segments PROVE row[s] \in Rows
    OBVIOUS
  <2>2. ASSUME NEW s \in Segments PROVE [row[s] EXCEPT !.stale = TRUE] \in Rows
    BY <2>1, FlaggedRow
  <2>3. QED
    BY <2>1, <2>2 DEF Flagged
<1>1. CASE Scan
  BY <1>1 DEF Scan, NoDrift
<1>2. CASE MarkStale
  BY <1>0, <1>2 DEF MarkStale
<1>3. ASSUME NEW d \in DagRuns, NEW s \in Segments, TriggerRetraining(d, s)
      PROVE  TrainingTypeOK'
  <2>1. drift' \in DriftChecks /\ drift'.todo \subseteq drift'.listed
    BY <1>3 DEF TriggerRetraining, Triggered, NoDrift
  <2>2. QED
    BY <1>3, <2>1 DEF TriggerRetraining, Queue, Trainings
<1>4. CASE MarkFails
  BY <1>0, <1>4 DEF MarkFails, NoDrift, Event
<1>5. CASE TriggerDies
  BY <1>5 DEF TriggerDies, NoDrift, Event
<1>6. ASSUME NEW s \in Segments, TriggerFails(s)
      PROVE  TrainingTypeOK'
  BY <1>6 DEF TriggerFails, Triggered, NoDrift, Event
<1>7. QED
  BY <1>1, <1>2, <1>3, <1>4, <1>5, <1>6 DEF DriftCheck

-----------------------------------------------------------------------------
(* SegmentInv is kept by each step.                                        *)

(* What is left to show of a step: a segment that has recovered is up to   *)
(* date, whatever was crossed before.                                      *)
LEMMA Protected ==
  ASSUME NEW s \in Segments, Observe,
         row'[s].at = "unborn" => ~BeingEdited(s)' /\ ~Training(s)',
         Live(s)' /\ s \notin crossed /\ ~Overlap(s)' => UpToDate(s)'
  PROVE  SegmentInv(s)'
<1>1. Overlap(s)' => s \in crossed'
  BY DEF Observe, Overlap, Recovered
<1>2. Recovered(s)' => UpToDate(s)'
  BY DEF Recovered, UpToDate, Training
<1>3. s \notin crossed' => Recovered(s)' \/ (s \notin crossed /\ ~Overlap(s)')
  BY DEF Observe
<1>4. QED
  BY <1>1, <1>2, <1>3 DEF SegmentInv

(* A step of the trainings or of drift_check, or a deletion, keeps it: the *)
(* point changes only to what a training of the segment has fetched, and   *)
(* the flag is cleared only by a training that has stored.                 *)
LEMMA TrainingStep ==
  ASSUME TrainingTypeOK, NEW s \in Segments, SegmentInv(s), Observe, edit' = edit,
         \A d \in DagRuns : run'[d].of = s /\ run'[d].at # "queued" =>
           /\ run[d].of = s /\ run[d].at # "queued"
           /\ run'[d].definition = run[d].definition
           /\ run'[d].at = "stored" => run[d].at = "stored" \/ point'[s] = run[d].definition,
         \/ point'[s] = point[s]
         \/ \E d \in DagRuns :
              run[d].of = s /\ run[d].at # "queued" /\ point'[s] = run[d].definition,
         row'[s].at = "unborn" => row[s].at = "unborn",
         row'[s].at = "live" =>
           /\ row[s].at = "live" /\ row'[s].definition = row[s].definition
           /\ \/ row[s].stale => row'[s].stale
              \/ \E d \in DagRuns : run[d].of = s /\ run[d].at = "stored"
  PROVE  SegmentInv(s)'
<1>1. Training(s)' => Training(s)
  BY DEF Training
<1>2. BeingEdited(s)' <=> BeingEdited(s)
  BY DEF BeingEdited
<1>3. \A e \in Edits : edit[e].of = s => BeingEdited(s)
  BY TrainingAssumption DEF TrainingTypeOK, BeingEdited
<1>4. row'[s].at = "unborn" => ~BeingEdited(s)' /\ ~Training(s)'
  BY <1>1, <1>2 DEF SegmentInv
<1>5. ASSUME Live(s)', s \notin crossed
      PROVE  UpToDate(s)'
  <2>1. /\ Live(s) /\ UpToDate(s)
        /\ row'[s].definition = row[s].definition
    BY <1>5 DEF Live, SegmentInv
  <2>2. \A d \in DagRuns :
          run[d].of = s /\ run[d].at # "queued" =>
            /\ run[d].definition = row[s].definition
            /\ run[d].at = "stored" => point[s] = row[s].definition
    BY <2>1 DEF UpToDate
  <2>3. point'[s] = point[s] \/ point'[s] = row[s].definition
    BY <2>2
  <2>4. (\E d \in DagRuns : run[d].of = s /\ run[d].at = "stored")
          => point[s] = row[s].definition /\ ~BeingEdited(s)
    BY <1>5, <2>2 DEF SegmentInv, Training, Overlap
  <2>5. ~row'[s].stale => point'[s] = row'[s].definition
    BY <1>5, <2>1, <2>3, <2>4 DEF UpToDate, Live
  <2>6. \A d \in DagRuns :
          run'[d].of = s /\ run'[d].at # "queued" =>
            /\ run'[d].definition = row'[s].definition
            /\ run'[d].at = "stored" => point'[s] = row'[s].definition
    BY <2>1, <2>2, <2>3
  <2>7. \A e \in Edits : edit'[e].of = s /\ edit'[e].saw => row'[s].stale
    BY <1>3, <1>5, <2>1, <2>4 DEF UpToDate, Live
  <2>8. QED
    BY <2>5, <2>6, <2>7 DEF UpToDate
<1>6. QED
  BY <1>4, <1>5, Protected

(* A step that leaves a segment and its trainings and edits alone.         *)
LEMMA OtherStep ==
  ASSUME NEW s \in Segments, SegmentInv(s), Observe,
         row'[s] = row[s], point'[s] = point[s],
         \A e \in Edits : edit[e].of = s \/ edit'[e].of = s => edit'[e] = edit[e],
         \A d \in DagRuns : run[d].of = s \/ run'[d].of = s => run'[d] = run[d]
  PROVE  SegmentInv(s)'
<1>1. (Training(s)' <=> Training(s)) /\ (BeingEdited(s)' <=> BeingEdited(s)) /\ (Live(s)' <=> Live(s))
  BY DEF Training, BeingEdited, Live
<1>2. UpToDate(s)' <=> UpToDate(s)
  BY DEF UpToDate
<1>3. QED
  BY <1>1, <1>2, Protected DEF SegmentInv

(* The endpoints keep it: a creation finds no training of the segment, and *)
(* an edit that meets one is remembered in crossed.                        *)
LEMMA RequestStep ==
  ASSUME TrainingTypeOK, NEW s \in Segments, SegmentInv(s),
         \/ \E t \in Segments : CreateSegment(t) \/ DeleteSegment(t) \/ GrowOld(t)
         \/ \E e \in Edits : CommitEdit(e) \/ \E t \in Segments : OpenEdit(e, t)
         \/ DeleteOrgData
  PROVE  SegmentInv(s)'
<1>0. row \in [Segments -> Rows] /\ edit \in [Edits -> Requests]
  BY DEF TrainingTypeOK
<1>1. ASSUME NEW t \in Segments, CreateSegment(t)
      PROVE  SegmentInv(s)'
  <2>1. CASE t = s
    <3>1. ~BeingEdited(s) /\ ~Training(s)
      BY <1>1, <2>1 DEF SegmentInv, CreateSegment
    <3>2. ~BeingEdited(s)' /\ ~Training(s)'
      BY <1>1, <3>1 DEF CreateSegment, BeingEdited, Training
    <3>3. row'[s].stale /\ row'[s].at = "live"
      BY <1>0, <1>1, <2>1 DEF CreateSegment
    <3>4. UpToDate(s)'
      BY <3>2, <3>3 DEF UpToDate, Training
    <3>5. QED
      BY <1>1, <3>2, <3>4, Protected DEF CreateSegment
  <2>2. CASE t # s
    BY <1>0, <1>1, <2>2, OtherStep DEF CreateSegment
  <2>3. QED
    BY <2>1, <2>2
<1>2. ASSUME NEW t \in Segments, DeleteSegment(t)
      PROVE  SegmentInv(s)'
  <2>1. row'[s] = row[s] \/ row'[s].at = "gone"
    BY <1>0, <1>2 DEF DeleteSegment, NoRow
  <2>2. QED
    BY <1>2, <2>1, TrainingStep DEF DeleteSegment, HasQdrantId
<1>3. ASSUME NEW t \in Segments, GrowOld(t)
      PROVE  SegmentInv(s)'
  <2>1. /\ row'[s].at = row[s].at /\ row'[s].definition = row[s].definition
        /\ row'[s].stale = row[s].stale
    BY <1>0, <1>3 DEF GrowOld, Rows
  <2>2. QED
    BY <1>3, <2>1, TrainingStep DEF GrowOld
<1>4. ASSUME NEW e \in Edits, CommitEdit(e)
      PROVE  SegmentInv(s)'
  <2>1. edit[e].of \in Segments
    BY <1>0, <1>4 DEF CommitEdit, TrainingTypeOK, Requests
  <2>2. \A x \in Edits : edit'[x] = edit[x] \/ (x = e /\ edit'[x].of = "none")
    BY <1>0, <1>4 DEF CommitEdit, ClosedEdit
  <2>3. CASE edit[e].of # s
    <3>1. row'[s] = row[s]
      BY <1>0, <1>4, <2>1, <2>3 DEF CommitEdit
    <3>2. QED
      BY <1>4, <2>2, <2>3, <3>1, OtherStep, TrainingAssumption DEF CommitEdit
  <2>4. BeingEdited(s)' => BeingEdited(s)
    BY <2>2, TrainingAssumption DEF BeingEdited
  <2>5. Training(s)' <=> Training(s)
    BY <1>4 DEF CommitEdit, Training
  <2>6. CASE edit[e].of = s /\ ~Live(s)
    <3>1. row' = row /\ ~Live(s)'
      BY <1>4, <2>6 DEF CommitEdit, Live
    <3>2. QED
      BY <1>4, <2>4, <2>5, <3>1, Protected DEF CommitEdit, SegmentInv
  <2>7. CASE edit[e].of = s /\ Live(s)
    <3>1. row'[s] = Edited(s, edit[e].saw)
      BY <1>0, <1>4, <2>7 DEF CommitEdit
    <3>2. row'[s].at = "live"
      BY <3>1 DEF Edited
    <3>3. ASSUME s \notin crossed
          PROVE  UpToDate(s)'
      <4>1. BeingEdited(s)
        BY <1>4, <2>7 DEF CommitEdit, BeingEdited
      <4>2. ~Training(s)'
        BY <2>5, <3>3, <4>1 DEF SegmentInv, Overlap
      <4>3. edit[e].saw => row[s].stale
        BY <2>7, <3>3 DEF SegmentInv, UpToDate
      <4>4. row'[s].stale
        BY <3>1, <4>3 DEF Edited
      <4>5. QED
        BY <4>2, <4>4 DEF UpToDate, Training
    <3>4. QED
      BY <1>4, <3>2, <3>3, Protected DEF CommitEdit
  <2>8. QED
    BY <2>3, <2>6, <2>7
<1>5. ASSUME NEW e \in Edits, NEW t \in Segments, OpenEdit(e, t)
      PROVE  SegmentInv(s)'
  <2>0. edit[e].of = "none"
    BY <1>5 DEF OpenEdit, TrainingTypeOK
  <2>1. \A x \in Edits : edit'[x] = edit[x] \/ (x = e /\ edit'[x].of = t /\ edit'[x].saw = row[t].stale)
    BY <1>0, <1>5 DEF OpenEdit
  <2>2. CASE t # s
    BY <1>5, <2>0, <2>1, <2>2, OtherStep, TrainingAssumption DEF OpenEdit
  <2>3. CASE t = s
    <3>1. /\ Training(s)' <=> Training(s)
          /\ BeingEdited(s)'
          /\ Live(s) /\ row' = row /\ point' = point /\ run' = run
      BY <1>0, <1>5, <2>3 DEF OpenEdit, Training, BeingEdited
    <3>2. row'[s].at # "unborn"
      BY <3>1 DEF Live
    <3>3. ASSUME s \notin crossed
          PROVE  UpToDate(s)'
      BY <2>1, <2>3, <3>1, <3>3 DEF SegmentInv, UpToDate
    <3>4. QED
      BY <1>5, <3>2, <3>3, Protected DEF OpenEdit
  <2>4. QED
    BY <2>2, <2>3
<1>6. ASSUME DeleteOrgData
      PROVE  SegmentInv(s)'
  <2>1. row'[s] = row[s] \/ row'[s].at = "gone"
    BY <1>6 DEF DeleteOrgData, NoRow
  <2>2. QED
    BY <1>6, <2>1, TrainingStep DEF DeleteOrgData
<1>7. QED
  BY <1>1, <1>2, <1>3, <1>4, <1>5, <1>6

(* The tasks of a training keep it: the definition a training fetches is   *)
(* that of the row, and what it stores is what it has fetched.             *)
LEMMA WorkStep ==
  ASSUME TrainingTypeOK, NEW s \in Segments, SegmentInv(s), NEW d \in DagRuns,
         Work(d) \/ TaskFails(d) \/ \E t \in Segments : TriggerByHand(d, t)
  PROVE  SegmentInv(s)'
<1>0. /\ row \in [Segments -> Rows] /\ point \in [Segments -> Nat] /\ run \in [DagRuns -> Trainings]
      /\ run[d].at # "idle" => run[d].of \in Segments
  BY DEF TrainingTypeOK, Trainings
<1>1. CASE FetchSegment(d)
  <2>1. /\ \A x \in DagRuns : x # d => run'[x] = run[x]
        /\ run'[d].at = "fetched" /\ run'[d].of = run[d].of
        /\ run'[d].definition = row[run[d].of].definition
        /\ row' = row /\ point' = point /\ edit' = edit
    BY <1>0, <1>1 DEF FetchSegment, Advanced
  <2>2. CASE run[d].of = s
    <3>1. /\ Live(s) /\ row'[s].at # "unborn"
          /\ Training(s)'
          /\ BeingEdited(s)' <=> BeingEdited(s)
      BY <1>1, <2>1, <2>2 DEF FetchSegment, Live, BeingEdited, Training
    <3>2. ASSUME s \notin crossed
          PROVE  UpToDate(s)'
      BY <2>1, <2>2, <3>1, <3>2 DEF SegmentInv, UpToDate
    <3>3. QED
      BY <1>1, <3>1, <3>2, Protected DEF FetchSegment
  <2>3. CASE run[d].of # s
    BY <1>1, <2>1, <2>3, OtherStep DEF FetchSegment
  <2>4. QED
    BY <2>2, <2>3
<1>2. CASE SegmentNotFound(d)
  BY <1>0, <1>2, TrainingStep, TrainingAssumption DEF SegmentNotFound, IdleRun
<1>3. CASE RunFeatureEngineering(d)
  <2>1. \A x \in DagRuns : run'[x] = run[x]
          \/ /\ x = d /\ run[x].at = "fetched" /\ run'[x].at = "featured"
             /\ run'[x].of = run[x].of /\ run'[x].definition = run[x].definition
    BY <1>0, <1>3 DEF RunFeatureEngineering, Advance, Advanced
  <2>2. QED
    BY <1>3, <2>1, TrainingStep DEF RunFeatureEngineering
<1>4. CASE GenerateEmbedding(d)
  <2>1. \A x \in DagRuns : run'[x] = run[x]
          \/ /\ x = d /\ run[x].at = "featured"
             /\ run'[x].of = run[x].of /\ run'[x].definition = run[x].definition
    BY <1>0, <1>4 DEF GenerateEmbedding, Advance, Advanced
  <2>2. IF run[d].of = s THEN point'[s] = run[d].definition ELSE point'[s] = point[s]
    BY <1>0, <1>4 DEF GenerateEmbedding, Stored
  <2>3. run[d].at = "featured"
    BY <1>4 DEF GenerateEmbedding, Advance
  <2>4. QED
    BY <1>4, <2>1, <2>2, <2>3, TrainingStep DEF GenerateEmbedding
<1>5. CASE UpdateSegmentMetadata(d)
  <2>1. \A x \in DagRuns : run'[x] = run[x] \/ run'[x].of = "none"
    BY <1>0, <1>5 DEF UpdateSegmentMetadata, IdleRun
  <2>2. row'[s] = row[s] \/
          /\ run[d].of = s /\ Live(s) /\ row'[s].at = "live"
          /\ row'[s].definition = row[s].definition
    BY <1>0, <1>5 DEF UpdateSegmentMetadata, MarkedTrained
  <2>3. run[d].at = "stored"
    BY <1>5 DEF UpdateSegmentMetadata
  <2>4. QED
    BY <1>5, <2>1, <2>2, <2>3, TrainingStep, TrainingAssumption DEF UpdateSegmentMetadata, Live
<1>6. CASE TaskFails(d)
  <2>1. \A x \in DagRuns : run'[x].of = "none"
          \/ /\ run'[x].at = run[x].at /\ run'[x].of = run[x].of
             /\ run'[x].definition = run[x].definition
    BY <1>0, <1>6 DEF TaskFails, TryAgain, IdleRun
  <2>2. /\ edit' = edit /\ Observe
        /\ \/ row' = row /\ point' = point
           \/ run[d].at = "featured" /\ point' = Stored(d) /\ row' = row
           \/ run[d].at = "stored" /\ row' = MarkedTrained(d) /\ point' = point
    BY <1>6 DEF TaskFails
  <2>3. CASE row' = row /\ point' = point
    BY <2>1, <2>2, <2>3, TrainingStep, TrainingAssumption
  <2>4. CASE run[d].at = "featured" /\ point' = Stored(d) /\ row' = row
    <3>1. IF run[d].of = s THEN point'[s] = run[d].definition ELSE point'[s] = point[s]
      BY <1>0, <2>4 DEF Stored
    <3>2. QED
      BY <2>1, <2>2, <2>4, <3>1, TrainingStep, TrainingAssumption
  <2>5. CASE run[d].at = "stored" /\ row' = MarkedTrained(d) /\ point' = point
    <3>1. row'[s] = row[s] \/
            /\ run[d].of = s /\ Live(s) /\ row'[s].at = "live"
            /\ row'[s].definition = row[s].definition
      BY <1>0, <2>5 DEF MarkedTrained
    <3>2. QED
      BY <2>1, <2>2, <2>5, <3>1, TrainingStep, TrainingAssumption DEF Live
  <2>6. QED
    BY <2>2, <2>3, <2>4, <2>5
<1>7. ASSUME NEW t \in Segments, TriggerByHand(d, t)
      PROVE  SegmentInv(s)'
  <2>1. \A x \in DagRuns : run'[x] = run[x] \/ run'[x].at = "queued"
    BY <1>0, <1>7 DEF TriggerByHand, Queue
  <2>2. QED
    BY <1>7, <2>1, TrainingStep DEF TriggerByHand
<1>8. QED
  BY <1>1, <1>2, <1>3, <1>4, <1>5, <1>6, <1>7 DEF Work

(* drift_check keeps it: it sets flags and clears none.                    *)
LEMMA DriftStep ==
  ASSUME TrainingTypeOK, NEW s \in Segments, SegmentInv(s),
         DriftCheck \/ MarkFails \/ TriggerDies \/ \E t \in Segments : TriggerFails(t)
  PROVE  SegmentInv(s)'
<1>0. row \in [Segments -> Rows] /\ run \in [DagRuns -> Trainings]
  BY DEF TrainingTypeOK
<1>A. /\ Flagged[s].at = row[s].at /\ Flagged[s].definition = row[s].definition
      /\ row[s].stale => Flagged[s].stale
  <2>1. row[s] \in Rows
    BY <1>0
  <2>2. QED
    BY <2>1 DEF Flagged, Rows
<1>1. CASE row' \in {row, Flagged} /\ UNCHANGED <<point, edit, run>> /\ Observe
  BY <1>1, <1>A, TrainingStep
<1>2. ASSUME NEW d \in DagRuns, NEW t \in Segments, TriggerRetraining(d, t)
      PROVE  SegmentInv(s)'
  <2>1. \A x \in DagRuns : run'[x] = run[x] \/ run'[x].at = "queued"
    BY <1>0, <1>2 DEF TriggerRetraining, Queue
  <2>2. QED
    BY <1>2, <2>1, TrainingStep DEF TriggerRetraining
<1>3. QED
  BY <1>1, <1>2 DEF DriftCheck, Scan, MarkStale, MarkFails, TriggerDies, TriggerFails

(* TrainingInv is an invariant.                                            *)
THEOREM TrainingInvariant == Spec => []TrainingInv
<1>1. TrainingInv /\ [Next]_vars => TrainingInv'
  <2> SUFFICES ASSUME TrainingInv, [Next]_vars
               PROVE  TrainingInv'
    OBVIOUS
  <2>1. TrainingTypeOK'
    <3>1. CASE UNCHANGED vars
      BY <3>1 DEF vars, TrainingInv, TrainingTypeOK
    <3>2. CASE Next
      BY <3>2, RequestTypes, WorkTypes, DriftTypes DEF Next, TrainingInv
    <3>3. QED
      BY <3>1, <3>2
  <2>2. ASSUME NEW s \in Segments
        PROVE  SegmentInv(s)'
    <3>1. CASE UNCHANGED vars
      BY <3>1
         DEF vars, TrainingInv, SegmentInv, UpToDate, Overlap, Training, BeingEdited, Live
    <3>2. CASE Next
      BY <3>2, RequestStep, WorkStep, DriftStep DEF Next, TrainingInv
    <3>3. QED
      BY <3>1, <3>2
  <2>3. QED
    BY <2>1, <2>2 DEF TrainingInv
<1>2. QED
  BY <1>1, TrainingInit, PTL DEF Spec

(* A segment that is not flagged, and of which no edit has been under way  *)
(* with a training since it was last flagged and at rest, has the          *)
(* embedding of its current definition.                                    *)
THEOREM Unflagged == Spec => []UnflaggedIsCurrent
<1>1. TrainingInv => UnflaggedIsCurrent
  BY DEF TrainingInv, SegmentInv, UpToDate, UnflaggedIsCurrent
<1>2. QED
  BY <1>1, TrainingInvariant, PTL

(* TrainingTypeOK is an invariant.                                         *)
THEOREM TrainingTypes == Spec => []TrainingTypeOK
<1>1. TrainingInv => TrainingTypeOK
  BY DEF TrainingInv
<1>2. QED
  BY <1>1, TrainingInvariant, PTL
-----------------------------------------------------------------------------
(* EmbeddingInv is kept by each step.                                      *)

(* A step that fetches no definition keeps it: what is stored has been     *)
(* fetched, and a training sets last_trained_at only once it has stored.   *)
LEMMA EmbeddingStep ==
  ASSUME TrainingTypeOK, TrainingTypeOK', NEW s \in Segments, EmbeddingInv(s),
         \A d \in DagRuns : run'[d].of = s /\ run'[d].at # "queued" =>
           /\ run[d].of = s /\ run[d].at # "queued"
           /\ run'[d].definition = run[d].definition
           /\ run'[d].at = "stored" => run[d].at = "stored" \/ point'[s] = run[d].definition,
         \/ point'[s] = point[s]
         \/ \E d \in DagRuns :
              run[d].of = s /\ run[d].at # "queued" /\ point'[s] = run[d].definition,
         row'[s].at = "live" => row[s].at = "live" /\ row'[s].definition >= row[s].definition,
         row'[s].trained # "never" =>
           /\ row'[s].at = "live"
           /\ \/ row[s].trained # "never"
              \/ \E d \in DagRuns : run[d].of = s /\ run[d].at = "stored"
  PROVE  EmbeddingInv(s)'
<1>1. row[s].definition \in Nat /\ row'[s].definition \in Nat
  BY RowFields DEF TrainingTypeOK, Rows
<1>2. \A n : Live(s)' /\ HasHad(s, n) => n \in 1 .. row'[s].definition
  BY <1>1 DEF HasHad, Live
<1>3. ASSUME Live(s)'
      PROVE  /\ row'[s].definition > 0
             /\ \A d \in DagRuns :
                  run[d].of = s /\ run[d].at # "queued" =>
                    /\ HasHad(s, run[d].definition)
                    /\ run[d].at = "stored" => HasHad(s, point[s])
  BY <1>1, <1>3 DEF EmbeddingInv, Live
<1>4. HasHad(s, point[s]) /\ Live(s)' => point'[s] \in 1 .. row'[s].definition
  BY <1>2, <1>3
<1>5. row'[s].trained # "never" => Live(s)' /\ point'[s] \in 1 .. row'[s].definition
  BY <1>3, <1>4 DEF EmbeddingInv, Live
<1>6. ASSUME Live(s)', NEW d \in DagRuns, run'[d].of = s, run'[d].at # "queued"
      PROVE  /\ run'[d].definition \in 1 .. row'[s].definition
             /\ run'[d].at = "stored" => point'[s] \in 1 .. row'[s].definition
  BY <1>2, <1>3, <1>4, <1>6
<1>7. QED
  BY <1>3, <1>5, <1>6 DEF EmbeddingInv, HasHad, Live

(* The endpoints keep it: a creation finds no training of the segment, and *)
(* an edit only raises the definition.                                     *)
LEMMA RequestEmbedding ==
  ASSUME TrainingTypeOK, TrainingTypeOK', NEW s \in Segments, SegmentInv(s), EmbeddingInv(s),
         \/ \E t \in Segments : CreateSegment(t) \/ DeleteSegment(t) \/ GrowOld(t)
         \/ \E e \in Edits : CommitEdit(e) \/ \E t \in Segments : OpenEdit(e, t)
         \/ DeleteOrgData
  PROVE  EmbeddingInv(s)'
<1>0. /\ row \in [Segments -> Rows] /\ edit \in [Edits -> Requests]
      /\ row[s].definition \in Nat
      /\ row[s].trained # "never" => row[s].at = "live"
  BY RowFields DEF TrainingTypeOK, EmbeddingInv, Live
<1>1. ASSUME NEW t \in Segments, CreateSegment(t)
      PROVE  EmbeddingInv(s)'
  <2>1. CASE t = s
    <3>1. ~Training(s) /\ run' = run
      BY <1>1, <2>1 DEF SegmentInv, CreateSegment
    <3>2. row'[s].definition = 1 /\ row'[s].trained = "never"
      BY <1>0, <1>1, <2>1 DEF CreateSegment
    <3>3. QED
      BY <3>1, <3>2 DEF EmbeddingInv, Training
  <2>2. CASE t # s
    <3>1. row'[s] = row[s] /\ point' = point /\ run' = run
      BY <1>0, <1>1, <2>2 DEF CreateSegment
    <3>2. QED
      BY <1>0, <3>1, EmbeddingStep
  <2>3. QED
    BY <2>1, <2>2
<1>2. ASSUME NEW t \in Segments, DeleteSegment(t)
      PROVE  EmbeddingInv(s)'
  <2>1. row'[s] = row[s] \/ (row'[s].at = "gone" /\ row'[s].trained = "never")
    BY <1>0, <1>2 DEF DeleteSegment, NoRow
  <2>2. QED
    BY <1>0, <1>2, <2>1, EmbeddingStep DEF DeleteSegment, HasQdrantId
<1>3. ASSUME NEW t \in Segments, GrowOld(t)
      PROVE  EmbeddingInv(s)'
  <2>1. /\ row'[s].at = row[s].at /\ row'[s].definition = row[s].definition
        /\ row'[s].trained # "never" => row[s].trained # "never"
    BY <1>0, <1>3 DEF GrowOld, Rows
  <2>2. point' = point /\ run' = run
    BY <1>3 DEF GrowOld
  <2>3. row'[s].definition >= row[s].definition
    BY <1>0, <2>1
  <2>4. QED
    BY <1>0, <2>1, <2>2, <2>3, EmbeddingStep
<1>4. ASSUME NEW e \in Edits, CommitEdit(e)
      PROVE  EmbeddingInv(s)'
  <2>1. edit[e].of \in Segments
    BY <1>0, <1>4 DEF CommitEdit, TrainingTypeOK, Requests
  <2>2. row'[s] = row[s] \/ (Live(s) /\ row'[s] = Edited(s, edit[e].saw))
    BY <1>0, <1>4, <2>1 DEF CommitEdit
  <2>3. CASE row'[s] = row[s]
    BY <1>0, <1>4, <2>3, EmbeddingStep DEF CommitEdit
  <2>4. CASE Live(s) /\ row'[s] = Edited(s, edit[e].saw)
    <3>1. /\ row[s].at = "live" /\ row'[s].at = "live"
          /\ row'[s].definition >= row[s].definition
          /\ row'[s].trained = row[s].trained
      BY <1>0, <2>4 DEF Edited, Live
    <3>2. QED
      BY <1>4, <3>1, EmbeddingStep DEF CommitEdit
  <2>5. QED
    BY <2>2, <2>3, <2>4
<1>5. ASSUME NEW e \in Edits, NEW t \in Segments, OpenEdit(e, t)
      PROVE  EmbeddingInv(s)'
  BY <1>0, <1>5, EmbeddingStep DEF OpenEdit
<1>6. ASSUME DeleteOrgData
      PROVE  EmbeddingInv(s)'
  <2>1. row'[s] = row[s] \/ (row'[s].at = "gone" /\ row'[s].trained = "never")
    BY <1>6 DEF DeleteOrgData, NoRow
  <2>2. QED
    BY <1>0, <1>6, <2>1, EmbeddingStep DEF DeleteOrgData
<1>7. QED
  BY <1>1, <1>2, <1>3, <1>4, <1>5, <1>6

(* A training and drift_check keep it: a definition fetched is the row's.  *)
LEMMA WorkEmbedding ==
  ASSUME TrainingTypeOK, TrainingTypeOK', NEW s \in Segments, EmbeddingInv(s), NEW d \in DagRuns,
         Work(d) \/ TaskFails(d) \/ \E t \in Segments : TriggerByHand(d, t)
  PROVE  EmbeddingInv(s)'
<1>0. /\ row \in [Segments -> Rows] /\ point \in [Segments -> Nat] /\ run \in [DagRuns -> Trainings]
      /\ run[d].at # "idle" => run[d].of \in Segments
      /\ row[s].definition \in Nat
      /\ row[s].trained # "never" => row[s].at = "live"
  BY RowFields DEF TrainingTypeOK, Trainings, EmbeddingInv, Live
<1>M. ASSUME row' = MarkedTrained(d), run[d].at = "stored"
      PROVE  /\ row'[s].at = row[s].at /\ row'[s].definition = row[s].definition
             /\ row'[s].trained # "never" =>
                  /\ row'[s].at = "live"
                  /\ row[s].trained # "never" \/ run[d].of = s
  BY <1>0, <1>M DEF MarkedTrained, Live
<1>S. IF run[d].of = s THEN Stored(d)[s] = run[d].definition ELSE Stored(d)[s] = point[s]
  BY <1>0 DEF Stored
<1>1. CASE FetchSegment(d)
  <2>1. /\ \A x \in DagRuns : x # d => run'[x] = run[x]
        /\ run'[d].at = "fetched" /\ run'[d].of = run[d].of
        /\ run'[d].definition = row[run[d].of].definition
        /\ row' = row /\ point' = point /\ Live(run[d].of)
    BY <1>0, <1>1 DEF FetchSegment, Advanced
  <2>2. Live(s) => row[s].definition > 0
    BY DEF EmbeddingInv
  <2>3. \A x \in DagRuns : Live(s) /\ run'[x].of = s /\ run'[x].at # "queued" =>
          /\ run'[x].definition \in 1 .. row[s].definition
          /\ run'[x].at = "stored" => point[s] \in 1 .. row[s].definition
    BY <1>0, <2>1, <2>2 DEF EmbeddingInv, HasHad
  <2>4. QED
    BY <2>1, <2>2, <2>3 DEF EmbeddingInv, HasHad, Live
<1>2. CASE SegmentNotFound(d)
  BY <1>0, <1>2, EmbeddingStep, TrainingAssumption DEF SegmentNotFound, IdleRun
<1>3. CASE RunFeatureEngineering(d)
  <2>1. \A x \in DagRuns : run'[x] = run[x]
          \/ /\ x = d /\ run[x].at = "fetched" /\ run'[x].at = "featured"
             /\ run'[x].of = run[x].of /\ run'[x].definition = run[x].definition
    BY <1>0, <1>3 DEF RunFeatureEngineering, Advance, Advanced
  <2>2. QED
    BY <1>0, <1>3, <2>1, EmbeddingStep DEF RunFeatureEngineering
<1>4. CASE GenerateEmbedding(d)
  <2>1. \A x \in DagRuns : run'[x] = run[x]
          \/ /\ x = d /\ run[x].at = "featured"
             /\ run'[x].of = run[x].of /\ run'[x].definition = run[x].definition
    BY <1>0, <1>4 DEF GenerateEmbedding, Advance, Advanced
  <2>2. point' = Stored(d) /\ row' = row /\ run[d].at = "featured"
    BY <1>4 DEF GenerateEmbedding, Advance
  <2>3. QED
    BY <1>0, <1>S, <2>1, <2>2, EmbeddingStep
<1>5. CASE UpdateSegmentMetadata(d)
  <2>1. \A x \in DagRuns : run'[x] = run[x] \/ run'[x].of = "none"
    BY <1>0, <1>5 DEF UpdateSegmentMetadata, IdleRun
  <2>2. row' = MarkedTrained(d) /\ run[d].at = "stored" /\ point' = point
    BY <1>5 DEF UpdateSegmentMetadata
  <2>3. QED
    BY <1>0, <1>M, <2>1, <2>2, EmbeddingStep, TrainingAssumption
<1>6. CASE TaskFails(d)
  <2>1. \A x \in DagRuns : run'[x].of = "none"
          \/ /\ run'[x].at = run[x].at /\ run'[x].of = run[x].of
             /\ run'[x].definition = run[x].definition
    BY <1>0, <1>6 DEF TaskFails, TryAgain, IdleRun
  <2>2. \/ row' = row /\ point' = point
        \/ run[d].at = "featured" /\ point' = Stored(d) /\ row' = row
        \/ run[d].at = "stored" /\ row' = MarkedTrained(d) /\ point' = point
    BY <1>6 DEF TaskFails
  <2>3. CASE row' = row /\ point' = point
    BY <1>0, <2>1, <2>3, EmbeddingStep, TrainingAssumption
  <2>4. CASE run[d].at = "featured" /\ point' = Stored(d) /\ row' = row
    BY <1>0, <1>S, <2>1, <2>4, EmbeddingStep, TrainingAssumption
  <2>5. CASE run[d].at = "stored" /\ row' = MarkedTrained(d) /\ point' = point
    BY <1>0, <1>M, <2>1, <2>5, EmbeddingStep, TrainingAssumption
  <2>6. QED
    BY <2>2, <2>3, <2>4, <2>5
<1>7. ASSUME NEW t \in Segments, TriggerByHand(d, t)
      PROVE  EmbeddingInv(s)'
  <2>1. \A x \in DagRuns : run'[x] = run[x] \/ run'[x].at = "queued"
    BY <1>0, <1>7 DEF TriggerByHand, Queue
  <2>2. QED
    BY <1>0, <1>7, <2>1, EmbeddingStep DEF TriggerByHand
<1>8. QED
  BY <1>1, <1>2, <1>3, <1>4, <1>5, <1>6, <1>7 DEF Work

(* drift_check keeps it: it stores nothing and trains nothing itself.      *)
LEMMA DriftEmbedding ==
  ASSUME TrainingTypeOK, TrainingTypeOK', NEW s \in Segments, EmbeddingInv(s),
         DriftCheck \/ MarkFails \/ TriggerDies \/ \E t \in Segments : TriggerFails(t)
  PROVE  EmbeddingInv(s)'
<1>0. /\ row \in [Segments -> Rows] /\ run \in [DagRuns -> Trainings]
      /\ row[s].definition \in Nat
      /\ row[s].trained # "never" => row[s].at = "live"
  BY RowFields DEF TrainingTypeOK, EmbeddingInv, Live
<1>A. /\ Flagged[s].at = row[s].at /\ Flagged[s].definition = row[s].definition
      /\ Flagged[s].trained = row[s].trained
  <2>1. row[s] \in Rows
    BY <1>0
  <2>2. QED
    BY <2>1 DEF Flagged, Rows
<1>1. CASE row' \in {row, Flagged} /\ UNCHANGED <<point, run>>
  BY <1>0, <1>1, <1>A, EmbeddingStep
<1>2. ASSUME NEW d \in DagRuns, NEW t \in Segments, TriggerRetraining(d, t)
      PROVE  EmbeddingInv(s)'
  <2>1. \A x \in DagRuns : run'[x] = run[x] \/ run'[x].at = "queued"
    BY <1>0, <1>2 DEF TriggerRetraining, Queue
  <2>2. QED
    BY <1>0, <1>2, <2>1, EmbeddingStep DEF TriggerRetraining
<1>3. QED
  BY <1>1, <1>2 DEF DriftCheck, Scan, MarkStale, MarkFails, TriggerDies, TriggerFails

(* EmbeddingInv is an invariant: the definition a training holds is one    *)
(* its segment has had, whatever is edited meanwhile.                      *)
THEOREM EmbeddingInvariant == Spec => []EmbeddingsInv
<1>1. Init => \A s \in Segments : EmbeddingInv(s)
  <2> SUFFICES ASSUME Init, NEW s \in Segments PROVE EmbeddingInv(s)
    OBVIOUS
  <2>1. row[s].at = "unborn" /\ row[s].trained = "never"
    BY DEF Init, NoRow
  <2>2. QED
    BY <2>1 DEF EmbeddingInv, Live
<1>2. ASSUME TrainingInv, TrainingInv', \A s \in Segments : EmbeddingInv(s), [Next]_vars
      PROVE  (\A s \in Segments : EmbeddingInv(s))'
  <2> SUFFICES ASSUME NEW s \in Segments PROVE EmbeddingInv(s)'
    OBVIOUS
  <2>1. CASE UNCHANGED vars
    BY <1>2, <2>1 DEF vars, EmbeddingInv, HasHad, Live
  <2>2. CASE Next
    BY <1>2, <2>2, RequestEmbedding, WorkEmbedding, DriftEmbedding DEF Next, TrainingInv
  <2>3. QED
    BY <1>2, <2>1, <2>2
<1>3. QED
  BY <1>1, <1>2, TrainingInvariant, PTL DEF Spec, EmbeddingsInv

(* A segment with a last_trained_at has an embedding in Qdrant, made of a  *)
(* definition it has had.                                                  *)
THEOREM Trained == Spec => []TrainedHasEmbedding
<1>1. EmbeddingsInv => TrainedHasEmbedding
  BY DEF EmbeddingsInv, EmbeddingInv, HasHad, TrainedHasEmbedding
<1>2. QED
  BY <1>1, EmbeddingInvariant, PTL
=============================================================================
