---------------------------- MODULE RunLifecycle ----------------------------
(***************************************************************************)
(* What the rest of the system may rely on about a simulation run: the     *)
(* committed status of its row and whose answer the row holds, as readers  *)
(* of simulation_runs see them.                                            *)
(*                                                                         *)
(* A run appears once, as 'pending' or already 'completed'; it never       *)
(* returns to 'pending'; deleted, it never comes back. Settled, it stays   *)
(* settled, unless it is disturbed: its job is executed again, a database  *)
(* call of the job fails, or a DAG run writes it as well. A disturbed run  *)
(* may be done again.                                                      *)
(***************************************************************************)
EXTENDS Naturals

CONSTANTS
  Runs,      \* the runs
  Answers,   \* the answers a persona may give to a run
  NoAnswer   \* the NULL in place of one

ASSUME LifecycleAssumption == NoAnswer \notin Answers

VARIABLES status, answer, disturbed

runVars == <<status, answer, disturbed>>

RunTerminal == {"completed", "failed"}
RunStatuses == {"absent", "pending", "running", "erased"} \cup RunTerminal
Exposed(r) == status[r] \notin {"absent", "erased"}

(* Some runs may have been requested before anybody looks.                 *)
RunInit ==
  /\ status \in [Runs -> {"absent", "pending"}]
  /\ answer = [r \in Runs |-> NoAnswer]
  /\ disturbed = {}

(* A write may be the very one that disturbs the run: it was applied, and  *)
(* its caller was told that it failed, or it is the first of another       *)
(* writer.                                                                 *)
Put(r, st, a) ==
  /\ status' = [status EXCEPT ![r] = st]
  /\ answer' = [answer EXCEPT ![r] = a]
  /\ disturbed' \in {disturbed, disturbed \cup {r}}

Disturb(r) ==
  /\ disturbed' = disturbed \cup {r}
  /\ UNCHANGED <<status, answer>>

Submit(r) == status[r] = "absent" /\ Put(r, "pending", NoAnswer)

(* The synchronous endpoint: the row is born with its answer.              *)
SubmitAnswered(r) ==
  /\ status[r] = "absent"
  /\ \E a \in Answers : Put(r, "completed", a)

Begin(r) == status[r] = "pending" /\ Put(r, "running", answer[r])

Settle(r) ==
  /\ status[r] \in {"pending", "running"}
  /\ \/ \E a \in Answers : Put(r, "completed", a)
     \/ Put(r, "failed", answer[r])

Redo(r) ==
  /\ Exposed(r)
  /\ \/ \E a \in Answers : Put(r, "completed", a)
     \/ \E st \in {"running", "failed"} : Put(r, st, answer[r])
  /\ r \in disturbed'

EraseRuns(gone) ==
  /\ status' = [r \in Runs |-> IF r \in gone /\ Exposed(r) THEN "erased" ELSE status[r]]
  /\ answer' = [r \in Runs |-> IF r \in gone THEN NoAnswer ELSE answer[r]]
  /\ UNCHANGED disturbed

RunNext ==
  \/ \E r \in Runs :
       \/ Submit(r) \/ SubmitAnswered(r) \/ Begin(r) \/ Settle(r)
       \/ Disturb(r) \/ Redo(r)
  \/ \E gone \in SUBSET Runs : EraseRuns(gone)

RunSpec == RunInit /\ [][RunNext]_runVars
=============================================================================
