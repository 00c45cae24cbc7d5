------------------------ MODULE SimulationRunsProofs ------------------------
(* Proofs about SimulationRuns, for any runs, segments, workers and        *)
(* bounds: RunsInv is inductive, the safety properties follow from it, and *)
(* SimulationRuns implements RunLifecycle.                                 *)
EXTENDS SimulationRuns, TLAPS

(* The row an attempt writes has the shape of a row.                       *)
LEMMA RowValues ==
  ASSUME TypeOK, NEW w \in Workers, wpc[w] # "idle", NEW st \in Statuses
  PROVE  /\ wrun[w] \in Runs /\ wtry[w] \in 1 .. MaxTries
         /\ WithStatus(wrun[w], st) \in Row
         /\ WithStatus(wrun[w], st).status = st
         /\ Answered(w) \in Row
         /\ Answered(w).status = "completed"
<1>1. wrun[w] \in Runs /\ wtry[w] \in 1 .. MaxTries
  BY RunsAssumption DEF TypeOK
<1>2. row[wrun[w]].answer \in 0 .. MaxTries
  BY <1>1, RunsAssumption DEF TypeOK, Row, NoRow
<1>3. QED
  BY <1>1, <1>2, RunsAssumption DEF Row, WithStatus, Answered, Statuses, Terminal

(* The invariant holds before the first request.                           *)
THEOREM InitInv == Init => RunsInv
<1>1. ASSUME Init PROVE TypeOK
  BY <1>1, RunsAssumption DEF Init, TypeOK, Row, NoRow, HandlerStates, OpenStates, BusyStates
<1>2. ASSUME Init
      PROVE  /\ ErasedStaysErased /\ RowInv /\ TryInv /\ SettledInv
             /\ FirstInv /\ JobInv /\ StuckInv
  BY <1>2 DEF Init, ErasedStaysErased, RowInv, TryInv, SettledInv, FirstInv, JobInv, StuckInv, Concluded,
     Visible, NoRow, InTransaction, OpenStates, Attended, On, Terminal
<1>3. QED
  BY <1>1, <1>2 DEF RunsInv

-----------------------------------------------------------------------------
(* Each group of steps keeps the types.                                    *)

(* A request handler keeps the types.                                      *)
LEMMA HandlerTypes ==
  ASSUME TypeOK, NEW r \in Runs, Handler(r)
  PROVE  TypeOK'
<1> USE DEF TypeOK, Goto, HandlerStates, OpenStates, Spend, apiVars, queueVars, workerVars
<1>1. CASE FindSegment(r)
  BY <1>1 DEF FindSegment
<1>2. CASE InsertRow(r)
  BY <1>2 DEF InsertRow
<1>3. CASE Enqueue(r)
  BY <1>3 DEF Enqueue
<1>4. CASE EnqueueFails(r)
  BY <1>4, RunsAssumption DEF EnqueueFails
<1>5. CASE InferInRequest(r)
  BY <1>5 DEF InferInRequest
<1>6. CASE InferInRequestFails(r)
  BY <1>6 DEF InferInRequestFails
<1>7. CASE Respond(r)
  BY <1>7 DEF Respond
<1>8. CASE Commit(r)
  BY <1>8, RunsAssumption DEF Commit, Row, Statuses, Terminal
<1>9. CASE Abort(r)
  BY <1>9, RunsAssumption DEF Abort, InTransaction
<1>10. QED
  BY <1>1, <1>2, <1>3, <1>4, <1>5, <1>6, <1>7, <1>8, <1>9 DEF Handler

(* Drops and lease expiries keep the types.                                *)
LEMMA QueueTypes ==
  ASSUME TypeOK, NEW r \in Runs, Queue(r) \/ \E w \in Workers : Start(w, r)
  PROVE  TypeOK'
<1> USE DEF TypeOK, Spend, apiVars, queueVars, workerVars
<1>1. CASE Drop(r)
  BY <1>1 DEF Drop
<1>2. CASE LeaseOutlives(r)
  BY <1>2 DEF LeaseOutlives
<1>3. CASE LeaseExpires(r)
  BY <1>3, RunsAssumption DEF LeaseExpires
<1>4. ASSUME NEW w \in Workers, Start(w, r)
      PROVE  TypeOK'
  BY <1>4, RunsAssumption DEF Start, BusyStates
<1>5. QED
  BY <1>1, <1>2, <1>3, <1>4 DEF Queue

(* A deletion keeps the types.                                             *)
LEMMA EraseTypes ==
  ASSUME TypeOK, NEW gone, Erase(gone)
  PROVE  TypeOK'
  BY RunsAssumption DEF TypeOK, Erase, Row, NoRow, queueVars, workerVars

(* The writes of a job put rows into the table and nothing else.           *)
LEMMA UpdateTypes ==
  ASSUME TypeOK, NEW r \in Runs, NEW new \in Row
  PROVE  /\ UpdateRow(r, new) => row' \in [Runs -> Row]
         /\ LastUpdate(r, new) =>
              /\ row' \in [Runs -> Row]
              /\ mishap' \in [Runs -> SUBSET {"missed", "error", "overlap"}]
         /\ FailingUpdate(r, new) =>
              /\ row' \in [Runs -> Row]
              /\ mishap' \in [Runs -> SUBSET {"missed", "error", "overlap"}]
              /\ budget' \in [crash : 0 .. MaxCrashes, slow : 0 .. MaxSlow, error : 0 .. MaxErrors]
<1>1. UpdateRow(r, new) => row' \in [Runs -> Row]
  BY DEF TypeOK, UpdateRow
<1>2. Suffer(r, "missed") \/ Suffer(r, "error")
        => mishap' \in [Runs -> SUBSET {"missed", "error", "overlap"}]
  BY DEF TypeOK, Suffer
<1>3. Spend("error")
        => budget' \in [crash : 0 .. MaxCrashes, slow : 0 .. MaxSlow, error : 0 .. MaxErrors]
  BY RunsAssumption DEF TypeOK, Spend
<1>4. QED
  BY <1>1, <1>2, <1>3 DEF TypeOK, LastUpdate, FailingUpdate

(* A job keeps the types, whether its writes succeed or fail.              *)
LEMMA WorkTypes ==
  ASSUME TypeOK, NEW w \in Workers, Work(w) \/ Faults(w)
  PROVE  TypeOK'
<1>0. /\ wpc[w] # "idle"
      /\ wrun[w] \in Runs
      /\ WithStatus(wrun[w], "running") \in Row
      /\ WithStatus(wrun[w], "failed") \in Row
      /\ Answered(w) \in Row
  <2>1. wpc[w] # "idle"
    BY DEF Work, Faults, MarkRunning, Infer, InferFails, Persist, MarkFailed, Finish,
       MarkRunningFails, PersistFails, MarkFailedFails, Crash, Step
  <2>2. QED
    BY <2>1, RowValues DEF Statuses, Terminal
<1> USE DEF Step, BusyStates, apiVars, queueVars
<1>1. CASE MarkRunning(w)
  BY <1>1, <1>0, UpdateTypes DEF MarkRunning, TypeOK
<1>2. CASE MarkRunningFails(w)
  BY <1>2, <1>0, UpdateTypes DEF MarkRunningFails, TypeOK
<1>3. CASE Infer(w)
  BY <1>3 DEF Infer, TypeOK
<1>4. CASE InferFails(w)
  BY <1>4 DEF InferFails, TypeOK
<1>5. CASE Persist(w)
  BY <1>5, <1>0, UpdateTypes DEF Persist, TypeOK
<1>6. CASE PersistFails(w)
  BY <1>6, <1>0, UpdateTypes DEF PersistFails, TypeOK
<1>7. CASE MarkFailed(w)
  BY <1>7, <1>0, UpdateTypes DEF MarkFailed, TypeOK
<1>8. CASE MarkFailedFails(w)
  BY <1>8, <1>0, UpdateTypes DEF MarkFailedFails, TypeOK
<1>9. CASE Finish(w)
  BY <1>9, <1>0, RunsAssumption DEF Finish, Release, TypeOK
<1>10. CASE Crash(w)
  BY <1>10, <1>0, RunsAssumption DEF Crash, Release, Spend, Suffer, TypeOK
<1>11. QED
  BY <1>1, <1>2, <1>3, <1>4, <1>5, <1>6, <1>7, <1>8, <1>9, <1>10 DEF Work, Faults

(* A stuttering step keeps the types.                                      *)
LEMMA StutterTypes ==
  ASSUME TypeOK, UNCHANGED vars
  PROVE  TypeOK'
  BY DEF TypeOK, vars, apiVars, queueVars, workerVars

(* Every step keeps the types: all its cases together.                     *)
LEMMA NextTypes ==
  ASSUME TypeOK, [Next]_vars
  PROVE  TypeOK'
  BY HandlerTypes, QueueTypes, EraseTypes, WorkTypes, StutterTypes DEF Next, DeleteSegment, DeleteOrgData

(* The state of the program keeps its types: in particular no job is       *)
(* executed more often than max_tries.                                     *)
THEOREM TypeCorrect == Spec => []TypeOK
<1>1. Init => TypeOK
  BY InitInv DEF RunsInv
<1>2. TypeOK /\ [Next]_vars => TypeOK'
  BY NextTypes
<1>3. QED
  BY <1>1, <1>2, PTL DEF Spec

-----------------------------------------------------------------------------
(* Each group of steps keeps the rest of RunsInv.                          *)

(* A request handler keeps the rows and tries consistent: only its commit  *)
(* makes a row.                                                            *)
LEMMA HandlerInv ==
  ASSUME RunsInv, NEW q \in Runs, Handler(q)
  PROVE  ErasedStaysErased' /\ RowInv' /\ TryInv' /\ SettledInv'
<1> USE DEF RunsInv, TypeOK, ErasedStaysErased, RowInv, TryInv, SettledInv,
        Visible, InTransaction, OpenStates, HandlerStates, Attended, On, Undisturbed,
        Goto, apiVars, queueVars, workerVars
<1>1. CASE FindSegment(q)
  BY <1>1 DEF FindSegment
<1>2. CASE InsertRow(q)
  BY <1>2 DEF InsertRow
<1>3. CASE Enqueue(q)
  BY <1>3 DEF Enqueue
<1>4. CASE EnqueueFails(q)
  BY <1>4 DEF EnqueueFails
<1>5. CASE InferInRequest(q)
  BY <1>5 DEF InferInRequest
<1>6. CASE InferInRequestFails(q)
  BY <1>6 DEF InferInRequestFails
<1>7. CASE Respond(q)
  BY <1>7 DEF Respond
<1>8. CASE Commit(q)
  BY <1>8 DEF Commit, NoRow, Terminal
<1>9. CASE Abort(q)
  BY <1>9 DEF Abort
<1>10. QED
  BY <1>1, <1>2, <1>3, <1>4, <1>5, <1>6, <1>7, <1>8, <1>9 DEF Handler

(* Drops, lease expiries and starts keep the rows and count the tries.     *)
LEMMA QueueInv ==
  ASSUME RunsInv, NEW q \in Runs, Queue(q) \/ \E w \in Workers : Start(w, q)
  PROVE  ErasedStaysErased' /\ RowInv' /\ TryInv' /\ SettledInv'
<1> USE DEF RunsInv, TypeOK, ErasedStaysErased, RowInv, TryInv, SettledInv,
        Visible, InTransaction, Attended, On, Undisturbed,
        apiVars, queueVars, workerVars
<1>1. CASE Drop(q)
  BY <1>1 DEF Drop
<1>2. CASE LeaseOutlives(q)
  BY <1>2 DEF LeaseOutlives
<1>3. CASE LeaseExpires(q)
  BY <1>3 DEF LeaseExpires
<1>4. ASSUME NEW w \in Workers, Start(w, q)
      PROVE  ErasedStaysErased' /\ RowInv' /\ TryInv' /\ SettledInv'
  <2> USE <1>4 DEF Start
  <2>1. ErasedStaysErased' /\ RowInv'
    OBVIOUS
  <2>2. TryInv'
    OBVIOUS
  <2>3. SettledInv'
    OBVIOUS
  <2>4. QED
    BY <2>1, <2>2, <2>3
<1>5. QED
  BY <1>1, <1>2, <1>3, <1>4 DEF Queue

(* A deletion takes away rows and segments together.                       *)
LEMMA EraseInv ==
  ASSUME RunsInv, NEW gone, Erase(gone)
  PROVE  ErasedStaysErased' /\ RowInv' /\ TryInv' /\ SettledInv'
<1> USE DEF RunsInv, TypeOK, Erase, queueVars, workerVars
<1>1. ErasedStaysErased' /\ RowInv'
  BY DEF ErasedStaysErased, RowInv, Visible, InTransaction
<1>2. TryInv'
  BY DEF TryInv, Attended, On
<1>3. SettledInv'
  BY DEF SettledInv, NoRow, Terminal, Undisturbed, On
<1>4. QED
  BY <1>1, <1>2, <1>3

(* A write of a job changes the row of its own run, and only a row that is *)
(* there.                                                                  *)
Writes(r, new) == row' = row \/ (Visible(r) /\ row' = [row EXCEPT ![r] = new])

(* Each of the three ways a job writes its row is a write or nothing.      *)
LEMMA UpdatesWrite ==
  ASSUME NEW r, NEW new
  PROVE  /\ UpdateRow(r, new) => Writes(r, new)
         /\ LastUpdate(r, new) => Writes(r, new)
         /\ FailingUpdate(r, new) => Writes(r, new)
  BY DEF UpdateRow, LastUpdate, FailingUpdate, Writes

(* What a write of a job does to the rows: no row appears or disappears.   *)
LEMMA WritesKeepRows ==
  ASSUME RunsInv, NEW w \in Workers, wpc[w] # "idle", NEW new \in Row,
         new.status # "absent", Writes(wrun[w], new), UNCHANGED apiVars
  PROVE  ErasedStaysErased' /\ RowInv'
<1>1. new # NoRow
  BY DEF NoRow
<1>2. \A r \in Runs : Visible(r)' <=> Visible(r)
  BY <1>1 DEF RunsInv, TypeOK, Writes, Visible
<1>3. QED
  BY <1>2 DEF RunsInv, ErasedStaysErased, RowInv, InTransaction, apiVars, TypeOK

(* A step of a job on its way to its last write.                           *)
LEMMA StepKeepsTries ==
  ASSUME RunsInv, NEW w \in Workers, wpc[w] # "idle", NEW to \in BusyStates,
         wpc' = [wpc EXCEPT ![w] = to], UNCHANGED <<queueVars, wrun>>
  PROVE  TryInv' /\ \A v \in Workers, r \in Runs : On(v, r)' <=> On(v, r)
<1>1. \A v \in Workers, r \in Runs : On(v, r)' <=> On(v, r)
  BY DEF RunsInv, TypeOK, On, BusyStates
<1>2. QED
  BY <1>1 DEF RunsInv, TryInv, Attended, queueVars

(* A job that writes new and leaves slot w at "to" keeps SettledInv, when  *)
(* new is not terminal, or to is the end of the job, or the write was one  *)
(* that failed.                                                            *)
LEMMA WritesSettle ==
  ASSUME RunsInv, NEW w \in Workers, wpc[w] \notin {"idle", "finishing"},
         NEW to \in BusyStates, wpc' = [wpc EXCEPT ![w] = to],
         UNCHANGED <<queueVars, wrun>>,
         NEW new \in Row, Writes(wrun[w], new),
         \A r \in Runs : mishap[r] \subseteq mishap'[r],
         \/ new.status \notin Terminal
         \/ to = "finishing"
         \/ "error" \in mishap'[wrun[w]]
  PROVE  SettledInv'
<1> SUFFICES ASSUME NEW r \in Runs, row'[r].status \in Terminal
             PROVE  /\ tries[r] = 0 => r \in SyncRuns
                    /\ Undisturbed(r)' => \A v \in Workers : On(v, r)' => wpc'[v] = "finishing"
  BY DEF SettledInv, queueVars
<1>0. wrun[w] \in Runs
  BY DEF RunsInv, TypeOK
<1>1. \A v \in Workers : On(v, r)' <=> On(v, r)
  BY DEF RunsInv, TypeOK, On, BusyStates
<1>2. Undisturbed(r)' => Undisturbed(r)
  BY DEF Undisturbed, queueVars
<1>3. CASE row'[r] = row[r] /\ r # wrun[w]
  <2>1. \A v \in Workers : On(v, r) => v # w
    BY <1>3 DEF On
  <2>2. \A v \in Workers : On(v, r) => wpc'[v] = wpc[v]
    BY <2>1 DEF RunsInv, TypeOK
  <2>3. QED
    BY <1>1, <1>2, <1>3, <2>2 DEF RunsInv, SettledInv
<1>4. CASE row'[r] = row[r] /\ r = wrun[w]
  <2>1. On(w, r) /\ tries[r] # 0
    BY <1>4 DEF On, RunsInv, TryInv, Attended
  <2>2. ~Undisturbed(r)
    BY <1>4, <2>1 DEF RunsInv, SettledInv
  <2>3. QED
    BY <1>2, <2>1, <2>2
<1>5. CASE row'[r] # row[r]
  <2>1. r = wrun[w] /\ row'[r] = new
    BY <1>5, <1>0 DEF Writes, RunsInv, TypeOK
  <2>2. On(w, r) /\ tries[r] # 0
    BY <2>1 DEF On, RunsInv, TryInv, Attended
  <2>3. to = "finishing" \/ ~Undisturbed(r)'
    BY <2>1 DEF Undisturbed
  <2>4. Undisturbed(r) => \A v \in Workers : On(v, r) => v = w
    BY <2>2 DEF Undisturbed, RunsInv, TryInv
  <2>5. wpc'[w] = to
    BY DEF RunsInv, TypeOK
  <2>6. QED
    BY <1>1, <1>2, <2>2, <2>3, <2>4, <2>5
<1>6. QED
  BY <1>3, <1>4, <1>5

(* A job keeps the rows and tries consistent, with writes that may fail.   *)
LEMMA WorkInv ==
  ASSUME RunsInv, NEW w \in Workers, Work(w) \/ Faults(w)
  PROVE  ErasedStaysErased' /\ RowInv' /\ TryInv' /\ SettledInv'
<1> DEFINE r == wrun[w]
<1> DEFINE Kept == ErasedStaysErased' /\ RowInv' /\ TryInv' /\ SettledInv'
<1>0. /\ wpc[w] # "idle" => r \in Runs
      /\ wpc[w] # "idle" =>
           /\ WithStatus(r, "running") \in Row /\ WithStatus(r, "running").status = "running"
           /\ WithStatus(r, "failed") \in Row /\ WithStatus(r, "failed").status = "failed"
           /\ Answered(w) \in Row /\ Answered(w).status = "completed"
  BY RowValues DEF RunsInv, Statuses, Terminal
<1>1. ASSUME NEW to \in BusyStates, NEW new \in Row, new.status # "absent",
             wpc[w] \notin {"idle", "finishing"}, wpc' = [wpc EXCEPT ![w] = to],
             UNCHANGED <<apiVars, queueVars, wrun>>, Writes(r, new),
             \A q \in Runs : mishap[q] \subseteq mishap'[q],
             \/ new.status \notin Terminal
             \/ to = "finishing"
             \/ "error" \in mishap'[r]
      PROVE  Kept
  BY <1>1, WritesKeepRows, StepKeepsTries, WritesSettle
<1>2. \A q \in Runs, what \in {"missed", "error", "overlap"} :
        Suffer(q, what) => /\ \A p \in Runs : mishap[p] \subseteq mishap'[p]
                           /\ what \in mishap'[q]
  BY DEF Suffer, RunsInv, TypeOK
<1>3. CASE MarkRunning(w)
  BY <1>3, <1>0, <1>1, UpdatesWrite DEF MarkRunning, Step, BusyStates, Terminal
<1>4. CASE MarkRunningFails(w)
  BY <1>4, <1>0, <1>1, <1>2, UpdatesWrite DEF MarkRunningFails, FailingUpdate, Step, BusyStates
<1>5. CASE Infer(w) \/ InferFails(w)
  BY <1>5 DEF Infer, InferFails, Step, RunsInv, TypeOK, ErasedStaysErased, RowInv, TryInv,
     SettledInv, Visible, InTransaction, Attended, On, Undisturbed, apiVars, queueVars, BusyStates
<1>6. CASE Persist(w)
  BY <1>6, <1>0, <1>1, <1>2, UpdatesWrite DEF Persist, LastUpdate, Step, BusyStates
<1>7. CASE PersistFails(w)
  BY <1>7, <1>0, <1>1, <1>2, UpdatesWrite DEF PersistFails, FailingUpdate, Step, BusyStates
<1>8. CASE MarkFailed(w)
  BY <1>8, <1>0, <1>1, <1>2, UpdatesWrite DEF MarkFailed, LastUpdate, Step, BusyStates
<1>9. CASE MarkFailedFails(w)
  BY <1>9, <1>0, <1>1, <1>2, UpdatesWrite DEF MarkFailedFails, FailingUpdate, Step, BusyStates
<1>10. CASE Finish(w)
  BY <1>10 DEF Finish, Release, RunsInv, TypeOK, ErasedStaysErased, RowInv, TryInv,
     SettledInv, Visible, InTransaction, Attended, On, Undisturbed, apiVars, BusyStates
<1>11. CASE Crash(w)
  BY <1>11 DEF Crash, Release, Suffer, RunsInv, TypeOK, ErasedStaysErased, RowInv, TryInv,
     SettledInv, Visible, InTransaction, Attended, On, Undisturbed, apiVars, queueVars, BusyStates
<1>12. QED
  BY <1>3, <1>4, <1>5, <1>6, <1>7, <1>8, <1>9, <1>10, <1>11 DEF Work, Faults

-----------------------------------------------------------------------------
(* Each group of steps keeps the account of how attempts conclude.         *)

(* A request handler concludes no attempt.                                 *)
LEMMA HandlerStuck ==
  ASSUME RunsInv, NEW q \in Runs, Handler(q)
  PROVE  JobInv' /\ StuckInv'
<1> USE DEF RunsInv, TypeOK, RowInv, TryInv, JobInv, StuckInv, Concluded, Visible,
        InTransaction, OpenStates, HandlerStates, Attended, On,
        Goto, apiVars, queueVars, workerVars
<1>1. CASE FindSegment(q)
  BY <1>1 DEF FindSegment
<1>2. CASE InsertRow(q)
  BY <1>2 DEF InsertRow
<1>3. CASE Enqueue(q)
  BY <1>3 DEF Enqueue
<1>4. CASE EnqueueFails(q)
  BY <1>4 DEF EnqueueFails
<1>5. CASE InferInRequest(q)
  BY <1>5 DEF InferInRequest
<1>6. CASE InferInRequestFails(q)
  BY <1>6 DEF InferInRequestFails
<1>7. CASE Respond(q)
  BY <1>7 DEF Respond
<1>8. CASE Commit(q)
  BY <1>8 DEF Commit, NoRow
<1>9. CASE Abort(q)
  BY <1>9 DEF Abort
<1>10. QED
  BY <1>1, <1>2, <1>3, <1>4, <1>5, <1>6, <1>7, <1>8, <1>9 DEF Handler

(* A job that is dropped is not concluded by an attempt.                   *)
LEMMA QueueStuck ==
  ASSUME RunsInv, NEW q \in Runs, Queue(q) \/ \E w \in Workers : Start(w, q)
  PROVE  JobInv' /\ StuckInv'
<1> USE DEF RunsInv, TypeOK, JobInv, StuckInv, Concluded, InTransaction, On,
        apiVars, queueVars, workerVars
<1>1. CASE Drop(q)
  BY <1>1 DEF Drop
<1>2. CASE LeaseOutlives(q)
  BY <1>2 DEF LeaseOutlives
<1>3. CASE LeaseExpires(q)
  BY <1>3 DEF LeaseExpires
<1>4. ASSUME NEW w \in Workers, Start(w, q)
      PROVE  JobInv' /\ StuckInv'
  BY <1>4 DEF Start
<1>5. QED
  BY <1>1, <1>2, <1>3, <1>4 DEF Queue

(* A deleted row is not stuck.                                             *)
LEMMA EraseStuck ==
  ASSUME RunsInv, NEW gone, Erase(gone)
  PROVE  JobInv' /\ StuckInv'
  BY DEF RunsInv, TypeOK, JobInv, StuckInv, Concluded, InTransaction, On, NoRow, Erase,
     queueVars, workerVars

(* A step of a job that does not conclude it.                              *)
LEMMA MidwayStuck ==
  ASSUME RunsInv, NEW w \in Workers, wpc[w] \notin {"idle", "finishing"},
         NEW to \in BusyStates \ {"finishing"}, wpc' = [wpc EXCEPT ![w] = to],
         UNCHANGED <<apiVars, queueVars, wrun>>,
         NEW new \in Row, Writes(wrun[w], new),
         \A r \in Runs : mishap[r] \subseteq mishap'[r]
  PROVE  JobInv' /\ StuckInv'
<1> USE DEF RunsInv, TypeOK, apiVars, queueVars
<1>1. JobInv'
  BY DEF JobInv
<1>2. \A r \in Runs : Concluded(r)' => Concluded(r)
  BY DEF Concluded, On, BusyStates
<1>3. On(w, wrun[w])' /\ wpc'[w] # "finishing" /\ wrun[w] \in Runs
  BY DEF On, BusyStates
<1>4. \A r \in Runs : r # wrun[w] => row'[r] = row[r]
  BY DEF Writes
<1>5. \A r \in Runs, v \in Workers :
        On(v, r) /\ wpc[v] # "finishing" => On(v, r)' /\ wpc'[v] # "finishing"
  BY DEF On, BusyStates
<1>6. \A r \in Runs : mishap'[r] = {} => mishap[r] = {}
  OBVIOUS
<1>7. QED
  BY <1>1, <1>2, <1>3, <1>4, <1>5, <1>6 DEF StuckInv, InTransaction

(* The last write of an attempt: it settles the row, or is remembered.     *)
LEMMA LastWriteStuck ==
  ASSUME RunsInv, NEW w \in Workers, wpc[w] \notin {"idle", "finishing"},
         wpc' = [wpc EXCEPT ![w] = "finishing"],
         UNCHANGED <<apiVars, queueVars, wrun>>,
         NEW new \in Row, new.status \in Terminal,
         LastUpdate(wrun[w], new)
  PROVE  JobInv' /\ StuckInv'
<1> USE DEF RunsInv, TypeOK, apiVars, queueVars
<1>0. wrun[w] \in Runs
  OBVIOUS
<1>1. JobInv'
  BY DEF JobInv
<1> SUFFICES ASSUME NEW r \in Runs, mishap'[r] = {}, Concluded(r)'
             PROVE  /\ ~InTransaction(r)'
                    /\ row'[r].status \in {"pending", "running"} =>
                         \E v \in Workers : On(v, r)' /\ wpc'[v] # "finishing"
  BY <1>1 DEF StuckInv
<1>2. CASE r # wrun[w]
  <2>1. row'[r] = row[r] /\ mishap[r] = {} /\ Concluded(r)
    BY <1>0, <1>2 DEF LastUpdate, UpdateRow, Suffer, Concluded, On
  <2>2. \A v \in Workers : On(v, r) => On(v, r)' /\ wpc'[v] = wpc[v]
    BY <1>2 DEF On
  <2>3. QED
    BY <2>1, <2>2 DEF StuckInv, InTransaction
<1>3. CASE r = wrun[w]
  <2>1. ~InTransaction(r)
    <3>1. Suffer(r, "missed") => mishap'[r] # {}
      BY <1>0, <1>3 DEF Suffer
    <3>2. QED
      BY <3>1, <1>3 DEF LastUpdate
  <2>2. row'[r] = new \/ row'[r] = NoRow
    BY <1>3 DEF LastUpdate, UpdateRow, Visible
  <2>3. QED
    BY <2>1, <2>2 DEF InTransaction, NoRow, Terminal
<1>4. QED
  BY <1>2, <1>3

(* A step that remembers a failed call, whatever it wrote.                 *)
LEMMA ErrorStuck ==
  ASSUME RunsInv, NEW w \in Workers, wpc[w] \notin {"idle", "finishing"},
         NEW to \in BusyStates, wpc' = [wpc EXCEPT ![w] = to],
         UNCHANGED <<apiVars, queueVars, wrun>>,
         NEW new \in Row, FailingUpdate(wrun[w], new)
  PROVE  JobInv' /\ StuckInv'
<1> USE DEF RunsInv, TypeOK, apiVars, queueVars
<1>1. JobInv'
  BY DEF JobInv
<1> SUFFICES ASSUME NEW r \in Runs, mishap'[r] = {}, Concluded(r)'
             PROVE  /\ ~InTransaction(r)'
                    /\ row'[r].status \in {"pending", "running"} =>
                         \E v \in Workers : On(v, r)' /\ wpc'[v] # "finishing"
  BY <1>1 DEF StuckInv
<1>2. r # wrun[w]
  BY DEF FailingUpdate, Suffer
<1>3. row'[r] = row[r] /\ mishap[r] = {} /\ Concluded(r)
  BY <1>2 DEF FailingUpdate, UpdateRow, Suffer, Concluded, On
<1>4. \A v \in Workers : On(v, r) => On(v, r)' /\ wpc'[v] = wpc[v]
  BY <1>2 DEF On, BusyStates
<1>5. QED
  BY <1>3, <1>4 DEF StuckInv, InTransaction

(* A job concludes with a terminal row, or with a mishap on record.        *)
LEMMA WorkStuck ==
  ASSUME RunsInv, NEW w \in Workers, Work(w) \/ Faults(w)
  PROVE  JobInv' /\ StuckInv'
<1> DEFINE r == wrun[w]
<1>0. wpc[w] # "idle" =>
        /\ r \in Runs
        /\ WithStatus(r, "running") \in Row
        /\ WithStatus(r, "failed") \in Row /\ WithStatus(r, "failed").status = "failed"
        /\ Answered(w) \in Row /\ Answered(w).status = "completed"
  BY RowValues DEF RunsInv, Statuses, Terminal
<1>1. CASE MarkRunning(w)
  <2>1. Writes(r, WithStatus(r, "running")) /\ UNCHANGED <<apiVars, queueVars, wrun, mishap>>
    BY <1>1, UpdatesWrite DEF MarkRunning
  <2>2. QED
    BY <1>0, <1>1, <2>1, MidwayStuck DEF MarkRunning, Step, BusyStates
<1>2. CASE Infer(w) \/ InferFails(w)
  <2>1. Writes(r, Answered(w)) /\ UNCHANGED <<apiVars, queueVars, wrun, mishap>>
    BY <1>2 DEF Infer, InferFails, Writes
  <2>2. QED
    BY <1>0, <1>2, <2>1, MidwayStuck DEF Infer, InferFails, Step, BusyStates
<1>3. CASE Persist(w)
  BY <1>0, <1>3, LastWriteStuck DEF Persist, Step, Terminal
<1>4. CASE MarkFailed(w)
  BY <1>0, <1>4, LastWriteStuck DEF MarkFailed, Step, Terminal
<1>5. CASE MarkRunningFails(w)
  BY <1>0, <1>5, ErrorStuck DEF MarkRunningFails, Step, BusyStates
<1>6. CASE PersistFails(w)
  BY <1>0, <1>6, ErrorStuck DEF PersistFails, Step, BusyStates
<1>7. CASE MarkFailedFails(w)
  BY <1>0, <1>7, ErrorStuck DEF MarkFailedFails, Step, BusyStates
<1>8. CASE Finish(w)
  <2>1. wpc[w] = "finishing" /\ On(w, r) /\ r \in Runs
    BY <1>8 DEF Finish, On, RunsInv, TypeOK
  <2>2. JobInv'
    BY <1>8, <2>1 DEF Finish, Release, RunsInv, TypeOK, JobInv, apiVars
  <2>3. \A q \in Runs : Concluded(q)' => Concluded(q)
    BY <1>8, <2>1 DEF Finish, Release, RunsInv, TypeOK, Concluded, On
  <2>4. \A q \in Runs, v \in Workers :
          On(v, q) /\ wpc[v] # "finishing" => On(v, q)' /\ wpc'[v] # "finishing"
    BY <1>8, <2>1 DEF Finish, Release, RunsInv, TypeOK, On
  <2>5. UNCHANGED <<row, pc, mishap>>
    BY <1>8 DEF Finish, apiVars
  <2>6. QED
    BY <2>2, <2>3, <2>4, <2>5 DEF RunsInv, StuckInv, InTransaction
<1>9. CASE Crash(w)
  <2>0. PICK k \in Runs : k = wrun[w]
    BY <1>9 DEF Crash, RunsInv, TypeOK
  <2>1. On(w, k) /\ UNCHANGED <<row, pc, job>>
    BY <1>9, <2>0 DEF Crash, On, apiVars, queueVars
  <2>2. JobInv'
    BY <2>1 DEF RunsInv, JobInv
  <2>3. \A q \in Runs, v \in Workers :
          /\ On(v, q)' => On(v, q) /\ wpc'[v] = wpc[v]
          /\ On(v, q) /\ v # w => On(v, q)' /\ wpc'[v] = wpc[v]
    BY <1>9 DEF Crash, Release, On, RunsInv, TypeOK
  <2>4. mishap'[k] = {} =>
          job[k] = "queued" /\ \A v \in Workers : On(v, k) => v = w
    <3>1. Suffer(k, "overlap") => mishap'[k] # {}
      BY <2>1 DEF Suffer, RunsInv, TypeOK
    <3>2. QED
      BY <1>9, <2>0, <3>1 DEF Crash
  <2>5. \A q \in Runs : mishap'[q] = {} => mishap[q] = {}
    BY <1>9 DEF Crash, Suffer, RunsInv, TypeOK
  <2>6. \A q \in Runs : mishap'[q] = {} /\ Concluded(q)' => Concluded(q) /\ q # k
    <3>1. ~On(w, k)'
      BY <1>9 DEF Crash, Release, On, RunsInv, TypeOK
    <3>2. ASSUME NEW q \in Runs, mishap'[q] = {}, Concluded(q)'
          PROVE  Concluded(q)
      BY <2>1, <2>3, <3>2 DEF Concluded
    <3>3. mishap'[k] = {} => ~Concluded(k)'
      BY <2>1, <2>3, <2>4, <3>1 DEF Concluded
    <3>4. QED
      BY <3>2, <3>3
  <2>7. \A q \in Runs : q # k => ~On(w, q)
    BY <2>0 DEF On
  <2>8. QED
    BY <2>1, <2>2, <2>3, <2>5, <2>6, <2>7 DEF RunsInv, StuckInv, InTransaction
<1>10. QED
  BY <1>1, <1>2, <1>3, <1>4, <1>5, <1>6, <1>7, <1>8, <1>9 DEF Work, Faults

-----------------------------------------------------------------------------
(* An undisturbed run stays pending until its first attempt has written.   *)

(* What FirstInv says of one run, in terms of a slot.                      *)
Untouched(r) ==
  tries[r] = 0 \/ \E w \in Workers : On(w, r) /\ wpc[w] = "starting"

(* A step that touches no row, disturbs no run less and starts none.       *)
LEMMA KeepsFirst ==
  ASSUME RunsInv, NEW r \in Runs \ SyncRuns, row'[r] = row[r],
         Undisturbed(r)' => Undisturbed(r), Untouched(r)' => Untouched(r)
  PROVE  (Undisturbed(r) /\ Untouched(r) => row[r].status \in {"absent", "pending"})'
  BY DEF RunsInv, FirstInv, Untouched

(* The steps of a job: they start nothing, and only the write of the first *)
(* attempt touches a row that has not been touched.                        *)
LEMMA WorkFirst ==
  ASSUME RunsInv, NEW w \in Workers, Work(w) \/ Faults(w)
  PROVE  FirstInv'
<1> SUFFICES ASSUME NEW r \in Runs \ SyncRuns
             PROVE  (Undisturbed(r) /\ Untouched(r) => row[r].status \in {"absent", "pending"})'
  BY DEF FirstInv, Untouched
<1>1. wpc[w] # "idle" /\ UNCHANGED tries
  BY DEF Work, Faults, MarkRunning, MarkRunningFails, Infer, InferFails, Persist, PersistFails,
     MarkFailed, MarkFailedFails, Finish, Crash, Step, queueVars
<1>2. PICK k \in Runs : k = wrun[w]
  BY <1>1 DEF RunsInv, TypeOK
<1>3. /\ wpc'[w] # "starting"
      /\ \A v \in Workers : v # w => wpc'[v] = wpc[v] /\ wrun'[v] = wrun[v]
  BY DEF Work, Faults, MarkRunning, MarkRunningFails, Infer, InferFails, Persist, PersistFails,
     MarkFailed, MarkFailedFails, Finish, Crash, Step, Release, RunsInv, TypeOK
<1>4. Untouched(r)' => Untouched(r)
  BY <1>1, <1>3 DEF Untouched, On
<1>5. \A q \in Runs : mishap[q] \subseteq mishap'[q]
  BY DEF Work, Faults, MarkRunning, MarkRunningFails, Infer, InferFails, Persist, PersistFails,
     MarkFailed, MarkFailedFails, Finish, Crash, LastUpdate, FailingUpdate, Suffer, RunsInv, TypeOK
<1>6. Undisturbed(r)' => Undisturbed(r)
  BY <1>1, <1>5 DEF Undisturbed
<1>7. CASE r # k
  <2>1. row'[r] = row[r]
    BY <1>2, <1>7 DEF Work, Faults, MarkRunning, MarkRunningFails, Infer, InferFails, Persist,
       PersistFails, MarkFailed, MarkFailedFails, Finish, Crash, LastUpdate, FailingUpdate,
       UpdateRow, RunsInv, TypeOK
  <2>2. QED
    BY <1>4, <1>6, <2>1, KeepsFirst
<1>8. CASE r = k
  <2>1. On(w, r) /\ tries[r] # 0
    BY <1>1, <1>2, <1>8 DEF On, Attended, RunsInv, TryInv
  <2>2. Undisturbed(r)' => ~Untouched(r)'
    <3> SUFFICES ASSUME Undisturbed(r)', NEW v \in Workers, On(v, r)', wpc'[v] = "starting"
                 PROVE  FALSE
      BY <1>1, <2>1 DEF Untouched
    <3>1. v # w /\ On(v, r)
      BY <1>3 DEF On
    <3>2. QED
      BY <1>6, <2>1, <3>1 DEF Undisturbed, RunsInv, TryInv
  <2>3. QED
    BY <2>2
<1>9. QED
  BY <1>7, <1>8

(* Every step keeps an untouched run pending.                              *)
LEMMA NextFirst ==
  ASSUME RunsInv, [Next]_vars
  PROVE  FirstInv'
<1>1. ASSUME NEW q \in Runs, Handler(q)
      PROVE  FirstInv'
  <2> SUFFICES ASSUME NEW r \in Runs \ SyncRuns
               PROVE  (Undisturbed(r) /\ Untouched(r) => row[r].status \in {"absent", "pending"})'
    BY DEF FirstInv, Untouched
  <2>1. UNCHANGED <<tries, workerVars, mishap>>
    BY <1>1 DEF Handler, FindSegment, InsertRow, Enqueue, EnqueueFails, InferInRequest,
       InferInRequestFails, Respond, Commit, Abort, queueVars
  <2>2. CASE row'[r] = row[r]
    BY <2>1, <2>2, KeepsFirst DEF Undisturbed, Untouched, On, workerVars
  <2>3. CASE row'[r] # row[r]
    <3>1. Commit(q)
      BY <1>1, <2>3 DEF Handler, FindSegment, InsertRow, Enqueue, EnqueueFails, InferInRequest,
         InferInRequestFails, Respond, Abort
    <3>2. row'[r] = [status |-> "pending", answer |-> 0]
      BY <2>3, <3>1 DEF Commit, RunsInv, TypeOK
    <3>3. QED
      BY <3>2
  <2>4. QED
    BY <2>2, <2>3
<1>2. ASSUME NEW q \in Runs, Queue(q)
      PROVE  FirstInv'
  BY <1>2 DEF Queue, Drop, LeaseOutlives, LeaseExpires, RunsInv, FirstInv, Undisturbed, On,
     apiVars, queueVars, workerVars
<1>3. ASSUME NEW w \in Workers, NEW q \in Runs, Start(w, q)
      PROVE  FirstInv'
  <2> SUFFICES ASSUME NEW r \in Runs \ SyncRuns, Undisturbed(r)', Untouched(r)'
               PROVE  row'[r].status \in {"absent", "pending"}
    BY DEF FirstInv, Untouched
  <2>1. row' = row /\ mishap' = mishap
    BY <1>3 DEF Start
  <2>2. CASE r = q
    <3>1. tries[r] = 0
      BY <1>3, <2>2 DEF Start, Undisturbed, RunsInv, TypeOK
    <3>2. QED
      BY <2>1, <3>1 DEF Undisturbed, RunsInv, FirstInv
  <2>3. CASE r # q
    BY <1>3, <2>1, <2>3 DEF Start, Undisturbed, Untouched, On, RunsInv, TypeOK, FirstInv
  <2>4. QED
    BY <2>2, <2>3
<1>4. ASSUME NEW gone, Erase(gone)
      PROVE  FirstInv'
  BY <1>4 DEF Erase, RunsInv, FirstInv, Undisturbed, On, NoRow, queueVars, workerVars
<1>5. CASE UNCHANGED vars
  BY <1>5 DEF vars, RunsInv, FirstInv, Undisturbed, On, queueVars, workerVars
<1>6. QED
  BY <1>1, <1>2, <1>3, <1>4, <1>5, WorkFirst DEF Next, DeleteSegment, DeleteOrgData

(* The invariant is inductive.                                             *)
LEMMA NextInv ==
  ASSUME RunsInv, [Next]_vars
  PROVE  RunsInv'
<1>1. CASE UNCHANGED vars
  <2>1. ErasedStaysErased' /\ RowInv' /\ TryInv' /\ SettledInv' /\ JobInv' /\ StuckInv'
    BY <1>1 DEF RunsInv, ErasedStaysErased, RowInv, TryInv, SettledInv, JobInv, StuckInv,
       Concluded, Visible, InTransaction, Attended, On, Undisturbed, vars, apiVars, queueVars,
       workerVars
  <2>2. QED
    BY <1>1, <2>1, StutterTypes, NextFirst DEF RunsInv
<1>2. CASE Next
  <2>1. ErasedStaysErased' /\ RowInv' /\ TryInv' /\ SettledInv'
    BY <1>2, HandlerInv, QueueInv, EraseInv, WorkInv DEF Next, DeleteSegment, DeleteOrgData
  <2>2. JobInv' /\ StuckInv'
    BY <1>2, HandlerStuck, QueueStuck, EraseStuck, WorkStuck DEF Next, DeleteSegment, DeleteOrgData
  <2>3. QED
    BY <1>2, <2>1, <2>2, NextTypes, NextFirst DEF RunsInv
<1>3. QED
  BY <1>1, <1>2

(* Every reachable state satisfies the invariant.                          *)
THEOREM Invariance == Spec => []RunsInv
  BY InitInv, NextInv, PTL DEF Spec

(* A deleted run never comes back, whatever jobs of it are still executed. *)
THEOREM Erasure == Spec => []ErasedStaysErased
<1>1. RunsInv => ErasedStaysErased
  BY DEF RunsInv
<1>2. QED
  BY <1>1, Invariance, PTL

(* Every row has its segment.                                              *)
THEOREM SegmentIntegrity == Spec => []RowsHaveSegment
<1>1. RunsInv => RowsHaveSegment
  BY DEF RunsInv, RowInv, RowsHaveSegment
<1>2. QED
  BY <1>1, Invariance, PTL

(* A run that stays pending or running for good has a known cause.         *)
THEOREM StuckExplained == Spec => []StuckRunExplained
<1>1. RunsInv => StuckRunExplained
  <2>1. Statuses \ Terminal = {"pending", "running"}
    BY DEF Statuses, Terminal
  <2>2. QED
    BY <2>1 DEF RunsInv, StuckInv, Concluded, StuckRunExplained, Stuck, Attended
<1>2. QED
  BY <1>1, Invariance, PTL

-----------------------------------------------------------------------------
(* One step of SettledIsFinal, from the invariant before it.               *)
LEMMA SettledStep ==
  ASSUME RunsInv, [Next]_vars
  PROVE  SettledOnce
<1> SUFFICES ASSUME NEW r \in Runs, Undisturbed(r), row[r].status \in Terminal
             PROVE  row'[r] \in {row[r], NoRow}
  BY DEF SettledOnce
<1>1. ASSUME NEW q \in Runs, Handler(q)
      PROVE  row'[r] \in {row[r], NoRow}
  <2>1. CASE Commit(q)
    <3>1. q # r
      BY <2>1 DEF Commit, Goto, RunsInv, RowInv, Visible, NoRow, Terminal
    <3>2. QED
      BY <2>1, <3>1 DEF Commit, RunsInv, TypeOK
  <2>2. CASE row' = row
    BY <2>2
  <2>3. QED
    BY <1>1, <2>1, <2>2 DEF Handler, FindSegment, InsertRow, Enqueue, EnqueueFails,
       InferInRequest, InferInRequestFails, Respond, Abort
<1>2. ASSUME NEW gone, Erase(gone)
      PROVE  row'[r] \in {row[r], NoRow}
  BY <1>2 DEF Erase
<1>3. ASSUME NEW w \in Workers, Work(w) \/ Faults(w)
      PROVE  row'[r] \in {row[r], NoRow}
  <2>1. CASE wrun[w] = r /\ wpc[w] # "finishing" /\ wpc[w] # "idle"
    BY <2>1 DEF RunsInv, SettledInv, On
  <2>2. CASE wrun[w] # r /\ wpc[w] # "finishing" /\ wpc[w] # "idle"
    BY <1>3, <2>2 DEF Work, Faults, MarkRunning, MarkRunningFails, Infer, InferFails, Persist,
       PersistFails, MarkFailed, MarkFailedFails, Finish, Crash, UpdateRow, LastUpdate,
       FailingUpdate, RunsInv, TypeOK
  <2>3. CASE wpc[w] \in {"finishing", "idle"}
    BY <1>3, <2>3 DEF Work, Faults, MarkRunning, MarkRunningFails, Infer, InferFails, Persist,
       PersistFails, MarkFailed, MarkFailedFails, Finish, Crash, Step
  <2>4. QED
    BY <2>1, <2>2, <2>3
<1>4. CASE row' = row
  BY <1>4
<1>5. QED
  BY <1>1, <1>2, <1>3, <1>4 DEF Next, Queue, Drop, LeaseOutlives, LeaseExpires, Start,
     DeleteSegment, DeleteOrgData, vars

(* A settled row of a run that arq delivered once, and for which no        *)
(* database call failed, changes only by its deletion.                     *)
THEOREM SettledFinality == Spec => SettledIsFinal
<1>1. RunsInv /\ [Next]_vars => [SettledOnce]_vars
  BY SettledStep
<1>2. QED
  BY <1>1, Invariance, PTL DEF Spec, SettledIsFinal

-----------------------------------------------------------------------------
(* SimulationRuns implements RunLifecycle: every step is a step of the     *)
(* lifecycle or leaves what the readers see as it was.                     *)

(* Before the first request no run is there and none is disturbed.         *)
LEMMA RefinesInit == Init => Lifecycle!RunInit
  BY DEF Init, Lifecycle!RunInit, shownStatus, shownAnswer, disturbedRuns, Undisturbed, NoRow

(* What is kept when rows, deletions and disturbances are.                 *)
LEMMA SameView ==
  ASSUME UNCHANGED <<row, erased, tries, mishap>>
  PROVE  UNCHANGED Lifecycle!runVars
  BY DEF Lifecycle!runVars, shownStatus, shownAnswer, disturbedRuns, Undisturbed

(* Writing the row of a run that has not been deleted is a Put.            *)
LEMMA WriteIsPut ==
  ASSUME TypeOK, NEW r \in Runs, r \notin erased, NEW new \in Row, erased' = erased,
         row' = [row EXCEPT ![r] = new],
         disturbedRuns' \in {disturbedRuns, disturbedRuns \cup {r}}
  PROVE  Lifecycle!Put(r, new.status, new.answer)
<1>1. shownStatus' = [shownStatus EXCEPT ![r] = new.status]
  BY DEF TypeOK, shownStatus
<1>2. shownAnswer' = [shownAnswer EXCEPT ![r] = new.answer]
  BY DEF TypeOK, shownAnswer
<1>3. QED
  BY <1>1, <1>2 DEF Lifecycle!Put

(* The rows alone tell which runs are disturbed no more than before.       *)
LEMMA SameDisturbed ==
  ASSUME UNCHANGED <<tries, mishap>>
  PROVE  disturbedRuns' = disturbedRuns
  BY DEF disturbedRuns, Undisturbed

(* Request handlers: the commit submits the run, all else is unseen.       *)
LEMMA HandlerRefines ==
  ASSUME RunsInv, NEW q \in Runs, Handler(q)
  PROVE  [Lifecycle!RunNext]_(Lifecycle!runVars)
<1>1. CASE Commit(q)
  <2>1. pc[q] = "answered" /\ UNCHANGED <<erased, tries, mishap>>
    BY <1>1 DEF Commit, Goto, queueVars
  <2>2. q \notin erased /\ ~Visible(q)
    BY <2>1 DEF RunsInv, RowInv
  <2>3. shownStatus[q] = "absent"
    BY <2>2 DEF shownStatus, Visible, NoRow
  <2>4. CASE q \in SyncRuns
    <3>1. row' = [row EXCEPT ![q] = [status |-> "completed", answer |-> 1]]
      BY <1>1, <2>4 DEF Commit
    <3>2. [status |-> "completed", answer |-> 1] \in Row /\ 1 \in 1 .. MaxTries
      BY RunsAssumption DEF Row, Statuses, Terminal
    <3>3. Lifecycle!Put(q, "completed", 1)
      BY <2>1, <2>2, <3>1, <3>2, WriteIsPut, SameDisturbed DEF RunsInv
    <3>4. QED
      BY <2>3, <3>2, <3>3 DEF Lifecycle!RunNext, Lifecycle!SubmitAnswered
  <2>5. CASE q \notin SyncRuns
    <3>1. row' = [row EXCEPT ![q] = [status |-> "pending", answer |-> 0]]
      BY <1>1, <2>5 DEF Commit
    <3>2. [status |-> "pending", answer |-> 0] \in Row
      BY RunsAssumption DEF Row, Statuses
    <3>3. Lifecycle!Put(q, "pending", 0)
      BY <2>1, <2>2, <3>1, <3>2, WriteIsPut, SameDisturbed DEF RunsInv
    <3>4. QED
      BY <2>3, <3>3 DEF Lifecycle!RunNext, Lifecycle!Submit
  <2>6. QED
    BY <2>4, <2>5
<1>2. CASE ~Commit(q)
  BY <1>2, SameView DEF Handler, FindSegment, InsertRow, Enqueue, EnqueueFails, InferInRequest,
     InferInRequestFails, Respond, Abort, queueVars
<1>3. QED
  BY <1>1, <1>2

(* Taking a job disturbs its run when it is not the first time.            *)
LEMMA StartRefines ==
  ASSUME RunsInv, NEW w \in Workers, NEW q \in Runs, Start(w, q)
  PROVE  [Lifecycle!RunNext]_(Lifecycle!runVars)
<1>1. UNCHANGED <<row, erased, mishap>> /\ tries' = [tries EXCEPT ![q] = @ + 1]
  BY DEF Start, apiVars
<1>2. \A r \in Runs : r # q => tries'[r] = tries[r]
  BY <1>1 DEF RunsInv, TypeOK
<1>3. tries[q] > 1 => tries'[q] > 1
  BY <1>1, RunsAssumption DEF RunsInv, TypeOK
<1>4. disturbedRuns' \in {disturbedRuns, disturbedRuns \cup {q}}
  <2>1. \A r \in Runs : r # q => (Undisturbed(r)' <=> Undisturbed(r))
    BY <1>1, <1>2 DEF Undisturbed
  <2>2. ~Undisturbed(q) => ~Undisturbed(q)'
    BY <1>1, RunsAssumption DEF Undisturbed, RunsInv, TypeOK
  <2>3. QED
    BY <2>1, <2>2 DEF disturbedRuns
<1>5. UNCHANGED <<shownStatus, shownAnswer>>
  BY <1>1 DEF shownStatus, shownAnswer
<1>6. QED
  BY <1>4, <1>5 DEF Lifecycle!RunNext, Lifecycle!Disturb, Lifecycle!runVars

(* Deletions erase the runs of the deleted segments.                       *)
LEMMA EraseRefines ==
  ASSUME RunsInv, NEW gone, Erase(gone)
  PROVE  [Lifecycle!RunNext]_(Lifecycle!runVars)
<1> DEFINE G == {r \in Runs : SegmentOf[r] \in gone}
<1>1. \A r \in Runs : Lifecycle!Exposed(r) <=> Visible(r)
  BY DEF Lifecycle!Exposed, Visible, shownStatus, NoRow, Row, RunsInv, TypeOK, Statuses,
     Terminal, ErasedStaysErased
<1>2. shownStatus' = [r \in Runs |-> IF r \in G /\ Lifecycle!Exposed(r)
                                      THEN "erased" ELSE shownStatus[r]]
  BY <1>1 DEF Erase, shownStatus, Visible, NoRow
<1>3. shownAnswer' = [r \in Runs |-> IF r \in G THEN 0 ELSE shownAnswer[r]]
  BY DEF Erase, shownAnswer, NoRow
<1>4. disturbedRuns' = disturbedRuns
  BY SameDisturbed DEF Erase, queueVars
<1>5. QED
  BY <1>2, <1>3, <1>4 DEF Lifecycle!RunNext, Lifecycle!EraseRuns

-----------------------------------------------------------------------------
(* The steps of a job disturb their own run at most.                       *)
LEMMA WorkDisturbs ==
  ASSUME RunsInv, NEW w \in Workers, Work(w) \/ Faults(w), NEW k \in Runs, k = wrun[w]
  PROVE  disturbedRuns' \in {disturbedRuns, disturbedRuns \cup {k}}
<1>1. /\ UNCHANGED tries
      /\ \A r \in Runs : r # k => mishap'[r] = mishap[r]
      /\ mishap[k] \subseteq mishap'[k]
  BY DEF Work, Faults, MarkRunning, MarkRunningFails, Infer, InferFails, Persist, PersistFails,
     MarkFailed, MarkFailedFails, Finish, Crash, LastUpdate, FailingUpdate, Suffer, queueVars,
     RunsInv, TypeOK
<1>2. QED
  BY <1>1 DEF disturbedRuns, Undisturbed

(* A job writes 'running' as its first step, and an undisturbed run is     *)
(* then pending; it settles an undisturbed run that is pending or running. *)
LEMMA WriteRefines ==
  ASSUME RunsInv, NEW w \in Workers, wpc[w] \notin {"idle", "finishing"},
         NEW k \in Runs, k = wrun[w],
         NEW new \in Row, Writes(k, new), erased' = erased,
         disturbedRuns' \in {disturbedRuns, disturbedRuns \cup {k}},
         \/ new = WithStatus(k, "running") /\ wpc[w] = "starting"
         \/ new = WithStatus(k, "failed")
         \/ new = Answered(w)
  PROVE  [Lifecycle!RunNext]_(Lifecycle!runVars)
<1>1. CASE row' = row
  <2>1. UNCHANGED <<shownStatus, shownAnswer>>
    BY <1>1 DEF shownStatus, shownAnswer
  <2>2. QED
    BY <2>1 DEF Lifecycle!RunNext, Lifecycle!Disturb, Lifecycle!runVars
<1>2. CASE Visible(k) /\ row' = [row EXCEPT ![k] = new]
  <2>1. k \notin erased /\ On(w, k) /\ tries[k] # 0 /\ k \notin SyncRuns
    BY <1>2 DEF RunsInv, ErasedStaysErased, TryInv, On, Attended
  <2>2. Lifecycle!Put(k, new.status, new.answer)
    BY <1>2, <2>1, WriteIsPut DEF RunsInv
  <2>3. /\ shownStatus[k] = row[k].status /\ shownAnswer[k] = row[k].answer
        /\ row[k].status \in Statuses
    BY <1>2, <2>1 DEF shownStatus, shownAnswer, RunsInv, TypeOK, Row, Visible
  <2>4. Lifecycle!Exposed(k)
    BY <2>3 DEF Lifecycle!Exposed, Statuses, Terminal
  <2>5. wtry[w] \in 1 .. MaxTries
    BY RowValues DEF RunsInv, Statuses, Terminal
  <2>6. CASE k \in disturbedRuns
    BY <2>2, <2>3, <2>4, <2>5, <2>6
       DEF Lifecycle!RunNext, Lifecycle!Redo, WithStatus, Answered
  <2>7. CASE k \notin disturbedRuns
    <3>1. Undisturbed(k)
      BY <2>7 DEF disturbedRuns
    <3>2. row[k].status \in {"pending", "running"}
      BY <2>1, <2>3, <3>1 DEF RunsInv, SettledInv, Statuses, Terminal
    <3>3. CASE new = WithStatus(k, "running") /\ wpc[w] = "starting"
      <4>1. row[k].status = "pending"
        BY <2>1, <3>1, <3>2, <3>3 DEF RunsInv, FirstInv
      <4>2. QED
        BY <2>2, <2>3, <3>3, <4>1 DEF Lifecycle!RunNext, Lifecycle!Begin, WithStatus
    <3>4. CASE new \in {WithStatus(k, "failed"), Answered(w)}
      BY <2>2, <2>3, <2>5, <3>2, <3>4
         DEF Lifecycle!RunNext, Lifecycle!Settle, WithStatus, Answered
    <3>5. QED
      BY <3>3, <3>4
  <2>8. QED
    BY <2>6, <2>7
<1>3. QED
  BY <1>1, <1>2 DEF Writes

(* Every step of a worker is a write of its job, or unseen but for the     *)
(* disturbance.                                                            *)
LEMMA WorkRefines ==
  ASSUME RunsInv, NEW w \in Workers, Work(w) \/ Faults(w)
  PROVE  [Lifecycle!RunNext]_(Lifecycle!runVars)
<1>0. wpc[w] # "idle" /\ erased' = erased
  BY DEF Work, Faults, MarkRunning, MarkRunningFails, Infer, InferFails, Persist, PersistFails,
     MarkFailed, MarkFailedFails, Finish, Crash, Step, apiVars
<1>1. PICK k \in Runs : k = wrun[w]
  BY <1>0 DEF RunsInv, TypeOK
<1>2. /\ WithStatus(k, "running") \in Row
      /\ WithStatus(k, "failed") \in Row
      /\ Answered(w) \in Row
  BY <1>0, <1>1, RowValues DEF RunsInv, Statuses, Terminal
<1>3. disturbedRuns' \in {disturbedRuns, disturbedRuns \cup {k}}
  BY <1>1, WorkDisturbs
<1>4. CASE MarkRunning(w) \/ MarkRunningFails(w)
  <2>1. Writes(k, WithStatus(k, "running")) /\ wpc[w] = "starting"
    BY <1>1, <1>4, UpdatesWrite DEF MarkRunning, MarkRunningFails, Step
  <2>2. QED
    BY <1>0, <1>1, <1>2, <1>3, <2>1, WriteRefines
<1>5. CASE Persist(w) \/ PersistFails(w)
  <2>1. Writes(k, Answered(w)) /\ wpc[w] = "persisting"
    BY <1>1, <1>5, UpdatesWrite DEF Persist, PersistFails, Step
  <2>2. QED
    BY <1>0, <1>1, <1>2, <1>3, <2>1, WriteRefines
<1>6. CASE MarkFailed(w) \/ MarkFailedFails(w)
  <2>1. Writes(k, WithStatus(k, "failed")) /\ wpc[w] = "failing"
    BY <1>1, <1>6, UpdatesWrite DEF MarkFailed, MarkFailedFails, Step
  <2>2. QED
    BY <1>0, <1>1, <1>2, <1>3, <2>1, WriteRefines
<1>7. CASE Infer(w) \/ InferFails(w) \/ Finish(w) \/ Crash(w)
  <2>1. row' = row
    BY <1>7 DEF Infer, InferFails, Finish, Crash
  <2>2. UNCHANGED <<shownStatus, shownAnswer>>
    BY <1>0, <2>1 DEF shownStatus, shownAnswer
  <2>3. QED
    BY <1>3, <2>2 DEF Lifecycle!RunNext, Lifecycle!Disturb, Lifecycle!runVars
<1>8. QED
  BY <1>4, <1>5, <1>6, <1>7 DEF Work, Faults

(* Every step of the program is a step of the lifecycle or a stutter.      *)
LEMMA RefinesNext ==
  ASSUME RunsInv, [Next]_vars
  PROVE  [Lifecycle!RunNext]_(Lifecycle!runVars)
<1>1. ASSUME NEW q \in Runs, Queue(q)
      PROVE  UNCHANGED Lifecycle!runVars
  BY <1>1, SameView DEF Queue, Drop, LeaseOutlives, LeaseExpires, apiVars, queueVars
<1>2. CASE UNCHANGED vars
  BY <1>2, SameView DEF vars, apiVars, queueVars
<1>3. QED
  BY <1>1, <1>2, HandlerRefines, StartRefines, EraseRefines, WorkRefines
     DEF Next, DeleteSegment, DeleteOrgData

(* The committed rows of simulation_runs, seen by their readers, obey the  *)
(* run lifecycle: requests, workers, faults and deletions can do nothing   *)
(* to a run that RunLifecycle does not allow.                              *)
THEOREM Refinement == Spec => ImplementsLifecycle
<1>1. Init => Lifecycle!RunInit
  BY RefinesInit
<1>2. RunsInv /\ [Next]_vars => [Lifecycle!RunNext]_(Lifecycle!runVars)
  BY RefinesNext
<1>3. QED
  BY <1>1, <1>2, Invariance, PTL DEF Spec, ImplementsLifecycle, Lifecycle!RunSpec
=============================================================================
