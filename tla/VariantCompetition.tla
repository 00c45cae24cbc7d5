------------------------- MODULE VariantCompetition -------------------------
(***************************************************************************)
(* The variant_competition DAG against the campaign tables it shares with  *)
(* the API: fetch_campaign lists the variants of the campaign, one mapped  *)
(* task simulate_variant per variant inserts a completed simulation run,   *)
(* and rank_and_persist writes ranks, scores and links to runs.            *)
(*                                                                         *)
(* Airflow executes each task up to 1 + retries times; a task may be lost  *)
(* after its transaction committed. Operators trigger DAG runs, one after  *)
(* the other or at once, and the API edits the campaign meanwhile.         *)
(***************************************************************************)
EXTENDS Naturals, FiniteSets, SequencesExt

CONSTANTS
  Variants,       \* variants the campaign may get
  Dags,           \* DAG runs triggered for the campaign
  Scores,         \* conversion scores; 0 stands for NULL
  MaxTries,       \* executions of a task: 1 + retries
  MaxFaults,      \* bound: failed inferences, database errors, lost tasks
  Edited,         \* whether the API edits the campaign meanwhile
  OrgIdNullable   \* whether simulation_runs.org_id accepts NULL

ASSUME CompetitionAssumption ==
  /\ IsFiniteSet(Variants)
  /\ Scores \subseteq Nat \ {0} /\ Scores # {}
  /\ MaxTries \in Nat \ {0} /\ MaxFaults \in Nat
  /\ {Edited, OrgIdNullable} \subseteq BOOLEAN

VARIABLES
  segment,    \* whether the row of the target segment exists
  campaign,   \* the campaign's row: whether it exists, has its segment, status
  variant,    \* rows of campaign_variants
  runs,       \* rows of simulation_runs inserted by the DAG
  dag,        \* each DAG run: progress, listed variants, tries of its task
  task,       \* each mapped task simulate_variant: progress, tries, result
  faults,     \* faults the environment may still inject
  overlapped  \* history: a DAG run was triggered while another was active

vars == <<segment, campaign, variant, runs, dag, task, faults, overlapped>>

-----------------------------------------------------------------------------
(* A run is named after the execution that inserts it.                     *)
Run == [dag : Dags, variant : Variants, try : 1 .. MaxTries, score : Scores]
NoRun == [dag |-> "none"]

NewVariant == [exists |-> TRUE, score |-> 0, rank |-> 0, run |-> NoRun]
NoVariant  == [exists |-> FALSE, score |-> 0, rank |-> 0, run |-> NoRun]
NewDag  == [at |-> "new", list |-> <<>>, tries |-> 0]
NewTask == [at |-> "none", tries |-> 0, score |-> 0, run |-> NoRun]

Active(d) == dag[d].at \in {"fetching", "simulating", "ranking"}

Campaigns == [exists : BOOLEAN, segment : BOOLEAN, status : {"draft", "completed"}]
Rows == [exists : BOOLEAN, score : Scores \cup {0}, rank : 0 .. Cardinality(Variants),
         run : Run \cup {NoRun}]
DagRuns == [at : {"new", "fetching", "simulating", "ranking", "success", "failed"},
            list : Seq(Variants), tries : 0 .. MaxTries]
Tasks == [at : {"none", "ready", "inferring", "done", "failed"}, tries : 0 .. MaxTries,
          score : Scores \cup {0}, run : Run \cup {NoRun}]

(* Types of the campaign's rows and of the tasks; no task is tried too     *)
(* often.                                                                  *)
CompetitionTypeOK ==
  /\ segment \in BOOLEAN /\ campaign \in Campaigns
  /\ variant \in [Variants -> Rows] /\ runs \subseteq Run
  /\ dag \in [Dags -> DagRuns] /\ task \in [Dags -> [Variants -> Tasks]]
  /\ faults \in 0 .. MaxFaults /\ overlapped \in BOOLEAN

Init ==
  /\ segment = TRUE
  /\ campaign = [exists |-> TRUE, segment |-> TRUE, status |-> "draft"]
  /\ \E some \in SUBSET Variants :
       variant = [v \in Variants |-> IF v \in some THEN NewVariant ELSE NoVariant]
  /\ runs = {}
  /\ dag = [d \in Dags |-> NewDag]
  /\ task = [d \in Dags |-> [v \in Variants |-> NewTask]]
  /\ faults = MaxFaults /\ overlapped = FALSE

Fault == faults > 0 /\ faults' = faults - 1

-----------------------------------------------------------------------------
(* The API. A deleted variant or campaign does not come back.              *)

AddVariant(v) ==
  /\ campaign.exists /\ variant[v] = NoVariant
  /\ \A d \in Dags : v \notin ToSet(dag[d].list)
  /\ variant' = [variant EXCEPT ![v] = NewVariant]
  /\ UNCHANGED <<segment, campaign, runs, dag, task, faults, overlapped>>

DeleteVariant(v) ==
  /\ campaign.exists /\ variant[v].exists
  /\ variant' = [variant EXCEPT ![v] = NoVariant]
  /\ UNCHANGED <<segment, campaign, runs, dag, task, faults, overlapped>>

(* PUT: a status, or the segment again while the segment exists.           *)
UpdateCampaign ==
  /\ campaign.exists
  /\ \/ campaign' = [campaign EXCEPT !.status = "draft"]
     \/ segment /\ campaign' = [campaign EXCEPT !.segment = TRUE]
  /\ UNCHANGED <<segment, variant, runs, dag, task, faults, overlapped>>

DeleteCampaign ==
  /\ campaign.exists
  /\ campaign' = [campaign EXCEPT !.exists = FALSE]
  /\ variant' = [v \in Variants |-> NoVariant]
  /\ UNCHANGED <<segment, runs, dag, task, faults, overlapped>>

(* The cascade deletes the runs; links to runs and segment become NULL.    *)
DeleteSegment ==
  /\ segment
  /\ segment' = FALSE
  /\ runs' = {}
  /\ variant' = [v \in Variants |-> [variant[v] EXCEPT !.run = NoRun]]
  /\ campaign' = [campaign EXCEPT !.segment = FALSE]
  /\ UNCHANGED <<dag, task, faults, overlapped>>

Edit ==
  /\ Edited
  /\ \/ \E v \in Variants : AddVariant(v) \/ DeleteVariant(v)
     \/ UpdateCampaign \/ DeleteCampaign \/ DeleteSegment

-----------------------------------------------------------------------------
Trigger(d) ==
  /\ dag[d].at = "new"
  /\ dag' = [dag EXCEPT ![d].at = "fetching"]
  /\ overlapped' = (overlapped \/ \E e \in Dags : Active(e))
  /\ UNCHANGED <<segment, campaign, variant, runs, task, faults>>

(* A task of the DAG itself raises: again, or the DAG run has failed.      *)
Raise(d) ==
  dag' = [dag EXCEPT ![d] =
    [at |-> IF dag[d].tries + 1 = MaxTries THEN "failed" ELSE dag[d].at,
     list |-> dag[d].list, tries |-> dag[d].tries + 1]]

Listed == {v \in Variants : variant[v].exists}
Fetchable == campaign.exists /\ campaign.segment /\ Listed # {}

(* fetch_campaign and build_variant_specs: the SELECT has no order.        *)
Fetch(d) ==
  /\ dag[d].at = "fetching" /\ Fetchable
  /\ \E list \in SetToSeqs(Listed) :
       dag' = [dag EXCEPT ![d] = [at |-> "simulating", list |-> list, tries |-> 0]]
  /\ task' = [task EXCEPT ![d] =
       [v \in Variants |-> IF v \in Listed THEN [NewTask EXCEPT !.at = "ready"] ELSE NewTask]]
  /\ UNCHANGED <<segment, campaign, variant, runs, faults, overlapped>>

FetchRaises(d) ==
  /\ dag[d].at = "fetching" /\ ~Fetchable
  /\ Raise(d)
  /\ UNCHANGED <<segment, campaign, variant, runs, task, faults, overlapped>>

FetchFails(d) ==
  /\ dag[d].at = "fetching" /\ Fetchable
  /\ Raise(d) /\ Fault
  /\ UNCHANGED <<segment, campaign, variant, runs, task, overlapped>>

-----------------------------------------------------------------------------
(* simulate_variant.                                                       *)

(* Mutant: no look at the score.                                           *)
Check_Always(d, v) ==
  /\ task[d][v].at = "ready"
  /\ task' = [task EXCEPT ![d][v].at = "inferring"]
  /\ UNCHANGED <<segment, campaign, variant, runs, dag, faults, overlapped>>

(* A variant with a score is skipped: its result has no run_id.            *)
Check(d, v) ==
  /\ task[d][v].at = "ready"
  /\ task' = [task EXCEPT ![d][v] =
       [at |-> IF variant[v].score # 0 THEN "done" ELSE "inferring",
        tries |-> task[d][v].tries, score |-> variant[v].score, run |-> NoRun]]
  /\ UNCHANGED <<segment, campaign, variant, runs, dag, faults, overlapped>>

(* Mutant: an execution that raised is not counted.                        *)
Retry_Uncounted(d, v) ==
  task' = [task EXCEPT ![d][v] = [NewTask EXCEPT !.at = "ready"]]

(* The task raises: executed again from its beginning, or failed.          *)
Retry(d, v) ==
  task' = [task EXCEPT ![d][v] =
    [at |-> IF task[d][v].tries + 1 = MaxTries THEN "failed" ELSE "ready",
     tries |-> task[d][v].tries + 1, score |-> 0, run |-> NoRun]]

NewRun(d, v, sc) == [dag |-> d, variant |-> v, try |-> task[d][v].tries + 1, score |-> sc]

(* The INSERT names no org_id and needs the segment's row.                 *)
Insertable == segment /\ OrgIdNullable

(* Inference, score, INSERT, commit, and the task's result.                *)
Simulate(d, v) ==
  /\ task[d][v].at = "inferring" /\ Insertable
  /\ \E sc \in Scores :
       /\ runs' = runs \cup {NewRun(d, v, sc)}
       /\ task' = [task EXCEPT ![d][v] =
            [at |-> "done", tries |-> task[d][v].tries, score |-> sc, run |-> NewRun(d, v, sc)]]
  /\ UNCHANGED <<segment, campaign, variant, dag, faults, overlapped>>

InsertRaises(d, v) ==
  /\ task[d][v].at = "inferring" /\ ~Insertable
  /\ Retry(d, v)
  /\ UNCHANGED <<segment, campaign, variant, runs, dag, faults, overlapped>>

(* The inference raises, or the task is lost after its commit.             *)
SimulateFails(d, v) ==
  /\ task[d][v].at = "inferring" /\ Insertable
  /\ Fault /\ Retry(d, v)
  /\ \/ runs' = runs
     \/ \E sc \in Scores : runs' = runs \cup {NewRun(d, v, sc)}
  /\ UNCHANGED <<segment, campaign, variant, dag, overlapped>>

(* Mutant: rank_and_persist waits for results that never come.             *)
Joinable_AllDone(d) ==
  dag[d].at = "simulating" /\ \A v \in ToSet(dag[d].list) : task[d][v].at = "done"

(* All mapped tasks are over.                                              *)
Joinable(d) ==
  /\ dag[d].at = "simulating"
  /\ \A v \in ToSet(dag[d].list) : task[d][v].at \in {"done", "failed"}

(* Then rank_and_persist runs, or the DAG run fails.                       *)
Join(d) ==
  /\ Joinable(d)
  /\ dag' = [dag EXCEPT ![d].at =
       IF \E v \in ToSet(dag[d].list) : task[d][v].at = "failed" THEN "failed" ELSE "ranking"]
  /\ UNCHANGED <<segment, campaign, variant, runs, task, faults, overlapped>>

-----------------------------------------------------------------------------
(* rank_and_persist: one transaction over the results of the tasks.        *)

IndexOf(s, x) == CHOOSE i \in DOMAIN s : s[i] = x

(* Mutant: the sort without reverse=True.                                  *)
RankOf_Ascending(d, v) ==
  Cardinality({i \in DOMAIN dag[d].list :
    LET u == dag[d].list[i] IN
      \/ task[d][u].score < task[d][v].score
      \/ task[d][u].score = task[d][v].score /\ i <= IndexOf(dag[d].list, v)})

(* The position in the stable sort of the results by descending score.     *)
RankOf(d, v) ==
  Cardinality({i \in DOMAIN dag[d].list :
    LET u == dag[d].list[i] IN
      \/ task[d][u].score > task[d][v].score
      \/ task[d][u].score = task[d][v].score /\ i <= IndexOf(dag[d].list, v)})

(* Mutant: the score of a variant is written once.                         *)
Ranked_KeepScore(d, v) ==
  [variant[v] EXCEPT !.rank = RankOf(d, v),
                     !.score = IF @ = 0 THEN task[d][v].score ELSE @,
                     !.run = task[d][v].run]
Ranked(d, v) ==
  [exists |-> TRUE, score |-> task[d][v].score, rank |-> RankOf(d, v), run |-> task[d][v].run]

(* An UPDATE that links a variant to a run needs the run's row.            *)
Linkable(d) ==
  \A v \in ToSet(dag[d].list) :
    variant[v].exists => task[d][v].run \in runs \cup {NoRun}

RankEffect(d) ==
  /\ variant' = [v \in Variants |->
       IF v \in ToSet(dag[d].list) /\ variant[v].exists THEN Ranked(d, v) ELSE variant[v]]
  /\ campaign' = IF campaign.exists THEN [campaign EXCEPT !.status = "completed"] ELSE campaign

Rank(d) ==
  /\ dag[d].at = "ranking" /\ Linkable(d)
  /\ RankEffect(d)
  /\ dag' = [dag EXCEPT ![d].at = "success"]
  /\ UNCHANGED <<segment, runs, task, faults, overlapped>>

RankRaises(d) ==
  /\ dag[d].at = "ranking" /\ ~Linkable(d)
  /\ Raise(d)
  /\ UNCHANGED <<segment, campaign, variant, runs, task, faults, overlapped>>

(* A deadlock with another DAG run, a lost connection, a lost task.        *)
RankFails(d) ==
  /\ dag[d].at = "ranking" /\ Linkable(d)
  /\ Fault /\ Raise(d)
  /\ RankEffect(d) \/ UNCHANGED <<variant, campaign>>
  /\ UNCHANGED <<segment, runs, task, overlapped>>

-----------------------------------------------------------------------------
Work(d) ==
  \/ Fetch(d) \/ FetchRaises(d)
  \/ \E v \in Variants : Check(d, v) \/ Simulate(d, v) \/ InsertRaises(d, v)
  \/ Join(d) \/ Rank(d) \/ RankRaises(d)

Failure(d) ==
  \/ FetchFails(d) \/ RankFails(d)
  \/ \E v \in Variants : SimulateFails(d, v)

Next == Edit \/ \E d \in Dags : Trigger(d) \/ Work(d) \/ Failure(d)

Spec == Init /\ [][Next]_vars

(* Airflow's scheduler runs what is ready; nobody need trigger anything.   *)
FairSpec == Spec /\ \A d \in Dags : WF_vars(Work(d))

-----------------------------------------------------------------------------
(* A variant's link to a run and its score agree: the run exists, was made *)
(* for this variant and has this score, whatever is deleted or executed    *)
(* again between simulate_variant and rank_and_persist.                    *)
RunBacksScore ==
  \A v \in Variants :
    variant[v].run # NoRun =>
      variant[v].run \in runs /\ variant[v].run.variant = v
        /\ variant[v].run.score = variant[v].score

(* As long as DAG runs follow one another, the ranks list_variants orders  *)
(* by never contradict the scores, with variants added and deleted, tasks  *)
(* executed again and DAG runs that fail half way.                         *)
RanksFollowScores ==
  ~overlapped =>
    \A u, v \in Variants :
      u # v /\ variant[u].rank # 0 /\ variant[v].rank # 0 =>
        /\ variant[u].rank # variant[v].rank
        /\ variant[u].score > variant[v].score => variant[u].rank < variant[v].rank

(* As long as DAG runs follow one another, the score of a variant is given *)
(* once (the skip of simulate_variant).                                    *)
ScoreGivenOnce ==
  [][~overlapped' => \A v \in Variants :
       variant[v].score # 0 => variant'[v].score = variant[v].score \/ ~variant'[v].exists]_vars

(* The guards of Work's actions: fetch_campaign, an execution of           *)
(* simulate_variant, the join, rank_and_persist.                           *)
HasWork(d) ==
  \/ dag[d].at \in {"fetching", "ranking"} \/ Joinable(d)
  \/ \E v \in Variants : task[d][v].at \in {"ready", "inferring"}

(* A DAG run has work to do until it has ended, and none after: whatever   *)
(* failed, was deleted or cascaded away, it never waits for a result that  *)
(* does not come, and no task of it is left to run behind its back.        *)
NeverWedged == \A d \in Dags : Active(d) <=> HasWork(d)

(* Every step of a DAG run counts: it takes the DAG run to a later stage,  *)
(* uses up a try of a task, or takes one task further within its try, and  *)
(* a DAG run that has ended stays as it is. With NeverWedged: it ends.     *)
Stage(at) == IF at = "new" THEN 0 ELSE IF at = "fetching" THEN 1
  ELSE IF at = "simulating" THEN 2 ELSE IF at = "ranking" THEN 3 ELSE 4
Phase(at) == IF at = "none" THEN 0 ELSE IF at = "ready" THEN 1 ELSE IF at = "inferring" THEN 2 ELSE 3
DagAdvances(d) ==
  \/ Stage(dag'[d].at) > Stage(dag[d].at)
  \/ dag'[d].at = dag[d].at /\ dag'[d].tries > dag[d].tries
TaskAdvances(d, v) ==
  /\ dag'[d] = dag[d]
  /\ \/ task'[d][v].tries > task[d][v].tries
     \/ task'[d][v].tries = task[d][v].tries /\ Phase(task'[d][v].at) > Phase(task[d][v].at)
  /\ \A u \in Variants \ {v} : task'[d][u] = task[d][u]
EveryStepCounts ==
  [][\A d \in Dags : dag'[d] # dag[d] \/ task'[d] # task[d] =>
       /\ dag[d].at \notin {"success", "failed"}
       /\ DagAdvances(d) \/ \E v \in Variants : TaskAdvances(d, v)]_vars

(* The inductive invariant behind the properties. What a task remembers of *)
(* its run is about its variant and its score. While DAG runs follow one   *)
(* another, the ranks outside the list of the active one are still unset,  *)
(* and a score that is there is the one its task reports, or will.         *)
Ranking(d) == dag[d].at \in {"simulating", "ranking"}
ListInv(d) ==
  /\ Active(d) \/ dag[d].at = "new" => dag[d].tries < MaxTries
  /\ \A i, j \in DOMAIN dag[d].list : i # j => dag[d].list[i] # dag[d].list[j]
  /\ dag[d].at = "ranking" => \A v \in ToSet(dag[d].list) : task[d][v].at = "done"
TaskInv(d, v) ==
  /\ task[d][v].at \in {"ready", "inferring"} => task[d][v].tries < MaxTries
  /\ task[d][v].run # NoRun =>
       task[d][v].run.variant = v /\ task[d][v].run.score = task[d][v].score
AloneInv(d) ==
  /\ \A e \in Dags : Active(d) /\ Active(e) => d = e
  /\ Ranking(d) =>
       \A v \in Variants :
         IF v \in ToSet(dag[d].list)
         THEN variant[v].score # 0 =>
                \/ task[d][v].at = "ready"
                \/ task[d][v].at = "done" /\ task[d][v].score = variant[v].score
         ELSE variant[v].rank = 0
CompetitionInv ==
  /\ CompetitionTypeOK
  /\ \A v \in Variants : ~variant[v].exists => variant[v].score = 0 /\ variant[v].rank = 0
  /\ RunBacksScore
  /\ \A d \in Dags : ListInv(d)
  /\ \A d \in Dags, v \in Variants : TaskInv(d, v)
  /\ ~overlapped => \A d \in Dags : AloneInv(d)
  /\ RanksFollowScores

(* And behind NeverWedged: while a DAG run simulates, what it listed has   *)
(* a task and nothing else has; before and after, no task is under way.    *)
WorkInv(d) ==
  IF dag[d].at = "simulating"
  THEN \A v \in Variants : v \in ToSet(dag[d].list) <=> task[d][v].at # "none"
  ELSE \A v \in Variants : task[d][v].at \notin {"ready", "inferring"}

(* What the repository says. variant_competition.py:10: the DAG will       *)
(* "write ranks back [...]; update campaign status = 'completed'": without *)
(* edits or failures it succeeds.                                          *)
CompetitionSucceeds == \A d \in Dags : dag[d].at = "simulating" ~> dag[d].at = "success"
=============================================================================
