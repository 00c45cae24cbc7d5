----------------------- MODULE VariantCompetitionProofs -----------------------
(* Proofs about VariantCompetition, for any finite set of variants, any    *)
(* DAG runs, scores and bounds: CompetitionInv is inductive, and the       *)
(* safety properties follow from it.                                       *)
EXTENDS VariantCompetition, FiniteSetTheorems, TLAPS

-----------------------------------------------------------------------------
(* The ranking.                                                            *)

(* The elements of a list.                                                 *)
LEMMA ListFacts ==
  ASSUME CompetitionTypeOK, NEW d \in Dags
  PROVE  /\ dag[d].list \in Seq(Variants)
         /\ DOMAIN dag[d].list = 1 .. Len(dag[d].list) /\ Len(dag[d].list) \in Nat
         /\ \A i \in DOMAIN dag[d].list : dag[d].list[i] \in Variants
         /\ ToSet(dag[d].list) \subseteq Variants
<1>1. dag[d].list \in Seq(Variants)
  BY DEF CompetitionTypeOK, DagRuns
<1>2. QED
  BY <1>1 DEF ToSet

(* The variants that come before one in the ranking, and itself.           *)
UpTo(d, v) ==
  {i \in DOMAIN dag[d].list :
    \/ task[d][dag[d].list[i]].score > task[d][v].score
    \/ /\ task[d][dag[d].list[i]].score = task[d][v].score
       /\ i <= IndexOf(dag[d].list, v)}

(* A variant of the list is where IndexOf says.                            *)
LEMMA IndexOfListed ==
  ASSUME CompetitionTypeOK, NEW d \in Dags, NEW v \in ToSet(dag[d].list)
  PROVE  /\ IndexOf(dag[d].list, v) \in DOMAIN dag[d].list
         /\ dag[d].list[IndexOf(dag[d].list, v)] = v
         /\ IndexOf(dag[d].list, v) \in UpTo(d, v)
         /\ v \in Variants
<1>1. PICK i \in DOMAIN dag[d].list : dag[d].list[i] = v
  BY DEF ToSet
<1>2. /\ IndexOf(dag[d].list, v) \in DOMAIN dag[d].list
      /\ dag[d].list[IndexOf(dag[d].list, v)] = v
  BY <1>1 DEF IndexOf
<1>3. IndexOf(dag[d].list, v) <= IndexOf(dag[d].list, v)
  BY <1>2, ListFacts
<1>4. QED
  BY <1>2, <1>3, ListFacts DEF UpTo

(* Scores, and NULL as 0, are numbers.                                     *)
LEMMA ScoreNat ==
  ASSUME NEW x \in Scores \cup {0}
  PROVE  x \in Nat
<1>1. Scores \subseteq Nat
  BY CompetitionAssumption
<1>2. QED
  BY <1>1

(* A list without repetition has no more members than there are variants.  *)
LEMMA RankBounds ==
  ASSUME CompetitionTypeOK, NEW d \in Dags, ListInv(d), NEW v \in ToSet(dag[d].list)
  PROVE  /\ IsFiniteSet(UpTo(d, v))
         /\ RankOf(d, v) = Cardinality(UpTo(d, v))
         /\ RankOf(d, v) \in 1 .. Cardinality(Variants)
<1>1. IsFiniteSet(DOMAIN dag[d].list)
  BY ListFacts, FS_Interval
<1>2. Cardinality(DOMAIN dag[d].list) <= Cardinality(Variants)
  <2>1. dag[d].list \in [DOMAIN dag[d].list -> Variants]
    BY ListFacts
  <2>2. dag[d].list \in Injection(DOMAIN dag[d].list, Variants)
    BY <2>1 DEF ListInv, Injection, IsInjective
  <2>3. QED
    BY <2>2, FS_Injection, CompetitionAssumption
<1>3. UpTo(d, v) \subseteq DOMAIN dag[d].list
  BY DEF UpTo
<1>4. IsFiniteSet(UpTo(d, v)) /\ Cardinality(UpTo(d, v)) <= Cardinality(DOMAIN dag[d].list)
  BY <1>1, <1>3, FS_Subset
<1>5. Cardinality(UpTo(d, v)) # 0
  BY <1>4, IndexOfListed, FS_EmptySet
<1>6. RankOf(d, v) = Cardinality(UpTo(d, v))
  BY DEF RankOf, UpTo
<1>7. /\ Cardinality(UpTo(d, v)) \in Nat /\ Cardinality(Variants) \in Nat
      /\ Cardinality(DOMAIN dag[d].list) \in Nat
  BY <1>1, <1>4, FS_CardinalityType, CompetitionAssumption
<1>8. QED
  BY <1>2, <1>4, <1>5, <1>6, <1>7

(* What comes before one comes before those after it.                      *)
LEMMA StrictlyBefore ==
  ASSUME CompetitionTypeOK, NEW d \in Dags, ListInv(d),
         NEW u \in ToSet(dag[d].list), NEW v \in ToSet(dag[d].list),
         \/ task[d][u].score > task[d][v].score
         \/ /\ task[d][u].score = task[d][v].score
            /\ IndexOf(dag[d].list, u) < IndexOf(dag[d].list, v)
  PROVE  RankOf(d, u) < RankOf(d, v)
<1> DEFINE i == IndexOf(dag[d].list, u)
           j == IndexOf(dag[d].list, v)
<1>1. /\ i \in Nat /\ j \in Nat /\ j \in DOMAIN dag[d].list
      /\ dag[d].list[j] = v /\ j \in UpTo(d, v)
  BY IndexOfListed, ListFacts
<1>2. \A x \in Variants : task[d][x].score \in Nat
  <2>1. \A x \in Variants : task[d][x] \in Tasks
    BY DEF CompetitionTypeOK
  <2>2. \A x \in Variants : task[d][x].score \in Scores \cup {0}
    BY <2>1 DEF Tasks
  <2>3. QED
    BY <2>2, ScoreNat
<1>3. u \in Variants /\ v \in Variants
  BY IndexOfListed
<1>4. j \notin UpTo(d, u)
  BY <1>1, <1>2, <1>3 DEF UpTo
<1>5. UpTo(d, u) \subseteq UpTo(d, v)
  <2> SUFFICES ASSUME NEW k \in UpTo(d, u) PROVE k \in UpTo(d, v)
    OBVIOUS
  <2>1. k \in DOMAIN dag[d].list /\ k \in Nat /\ dag[d].list[k] \in Variants
    BY ListFacts DEF UpTo
  <2>2. task[d][dag[d].list[k]].score \in Nat /\ task[d][u].score \in Nat /\ task[d][v].score \in Nat
    BY <1>2, <1>3, <2>1
  <2>3. QED
    BY <1>1, <2>1, <2>2 DEF UpTo
<1>6. Cardinality(UpTo(d, u)) < Cardinality(UpTo(d, v))
  <2>1. IsFiniteSet(UpTo(d, u)) /\ IsFiniteSet(UpTo(d, v))
    BY RankBounds
  <2>2. UpTo(d, u) # UpTo(d, v)
    BY <1>1, <1>4
  <2>3. Cardinality(UpTo(d, u)) <= Cardinality(UpTo(d, v)) /\ Cardinality(UpTo(d, u)) # Cardinality(UpTo(d, v))
    BY <1>5, <2>1, <2>2, FS_Subset
  <2>4. QED
    BY <2>1, <2>3, FS_CardinalityType
<1>7. QED
  BY <1>6, RankBounds

(* The ranks of two variants of a list differ, and follow their scores.    *)
LEMMA RankFollowsScore ==
  ASSUME CompetitionTypeOK, NEW d \in Dags, ListInv(d),
         NEW u \in ToSet(dag[d].list), NEW v \in ToSet(dag[d].list), u # v
  PROVE  /\ RankOf(d, u) # RankOf(d, v)
         /\ task[d][u].score > task[d][v].score => RankOf(d, u) < RankOf(d, v)
<1>1. RankOf(d, u) \in Nat /\ RankOf(d, v) \in Nat
  BY RankBounds
<1>2. task[d][u].score \in Nat /\ task[d][v].score \in Nat
  <2>1. task[d][u] \in Tasks /\ task[d][v] \in Tasks
    BY IndexOfListed DEF CompetitionTypeOK
  <2>2. task[d][u].score \in Scores \cup {0} /\ task[d][v].score \in Scores \cup {0}
    BY <2>1 DEF Tasks
  <2>3. QED
    BY <2>2, ScoreNat
<1>3. /\ IndexOf(dag[d].list, u) \in Nat /\ IndexOf(dag[d].list, v) \in Nat
      /\ IndexOf(dag[d].list, u) # IndexOf(dag[d].list, v)
  <2>1. IndexOf(dag[d].list, u) \in DOMAIN dag[d].list /\ dag[d].list[IndexOf(dag[d].list, u)] = u
    BY IndexOfListed
  <2>2. IndexOf(dag[d].list, v) \in DOMAIN dag[d].list /\ dag[d].list[IndexOf(dag[d].list, v)] = v
    BY IndexOfListed
  <2>3. QED
    BY <2>1, <2>2, ListFacts
<1>4. \/ task[d][u].score > task[d][v].score
      \/ task[d][v].score > task[d][u].score
      \/ /\ task[d][u].score = task[d][v].score
         /\ IndexOf(dag[d].list, u) < IndexOf(dag[d].list, v)
      \/ /\ task[d][v].score = task[d][u].score
         /\ IndexOf(dag[d].list, v) < IndexOf(dag[d].list, u)
  BY <1>2, <1>3
<1>5. RankOf(d, u) < RankOf(d, v) \/ RankOf(d, v) < RankOf(d, u)
  BY <1>4, StrictlyBefore
<1>6. task[d][u].score > task[d][v].score => RankOf(d, u) < RankOf(d, v)
  BY StrictlyBefore
<1>7. QED
  BY <1>1, <1>5, <1>6
-----------------------------------------------------------------------------
(* The rows and records that the steps write.                              *)

(* A run is not NoRun: it has more fields.                                 *)
LEMMA Shapes ==
  /\ NewVariant \in Rows /\ NoVariant \in Rows
  /\ NewVariant = [exists |-> TRUE, score |-> 0, rank |-> 0, run |-> NoRun]
  /\ NoVariant = [exists |-> FALSE, score |-> 0, rank |-> 0, run |-> NoRun]
  /\ NewTask \in Tasks /\ [NewTask EXCEPT !.at = "ready"] \in Tasks
  /\ NewTask.tries = 0 /\ NewTask.run = NoRun /\ NewTask.at = "none"
  /\ [NewTask EXCEPT !.at = "ready"].tries = 0 /\ [NewTask EXCEPT !.at = "ready"].run = NoRun
  /\ [NewTask EXCEPT !.at = "ready"].at = "ready"
<1>1. Cardinality(Variants) \in Nat
  BY CompetitionAssumption, FS_CardinalityType
<1>2. NewVariant = [exists |-> TRUE, score |-> 0, rank |-> 0, run |-> NoRun]
  BY DEF NewVariant
<1>3. NoVariant = [exists |-> FALSE, score |-> 0, rank |-> 0, run |-> NoRun]
  BY DEF NoVariant
<1>4. 0 \in 0 .. Cardinality(Variants)
  BY <1>1
<1>5. NewVariant \in Rows /\ NoVariant \in Rows
  BY <1>2, <1>3, <1>4 DEF Rows
<1>6. NewTask \in Tasks /\ [NewTask EXCEPT !.at = "ready"] \in Tasks
  BY CompetitionAssumption DEF NewTask, Tasks
<1>7. QED
  BY <1>2, <1>3, <1>5, <1>6 DEF NewTask

(* A row keeps its shape when a ranking or a cascade writes it.            *)
LEMMA RowShape ==
  ASSUME NEW sc \in Scores \cup {0}, NEW rk \in 0 .. Cardinality(Variants),
         NEW r \in Run \cup {NoRun}, NEW b \in BOOLEAN
  PROVE  [exists |-> b, score |-> sc, rank |-> rk, run |-> r] \in Rows
BY DEF Rows

(* A row of which the run is set to NULL.                                  *)
LEMMA UnlinkedRow ==
  ASSUME NEW r \in Rows
  PROVE  /\ [r EXCEPT !.run = NoRun] \in Rows
         /\ [r EXCEPT !.run = NoRun].run = NoRun
         /\ [r EXCEPT !.run = NoRun].score = r.score
         /\ [r EXCEPT !.run = NoRun].rank = r.rank
         /\ [r EXCEPT !.run = NoRun].exists = r.exists
BY DEF Rows

(* The rows and tasks have the fields they should have.                    *)
LEMMA Fields ==
  ASSUME CompetitionTypeOK
  PROVE  /\ \A v \in Variants :
              /\ variant[v] \in Rows
              /\ variant[v].exists \in BOOLEAN /\ variant[v].score \in Scores \cup {0}
              /\ variant[v].score \in Nat /\ variant[v].rank \in Nat
              /\ variant[v].rank \in 0 .. Cardinality(Variants) /\ variant[v].run \in Run \cup {NoRun}
         /\ \A d \in Dags, v \in Variants :
              /\ task[d][v].tries \in 0 .. MaxTries /\ task[d][v].score \in Scores \cup {0}
              /\ task[d][v].run \in Run \cup {NoRun}
              /\ task[d][v].at \in {"none", "ready", "inferring", "done", "failed"}
         /\ \A d \in Dags : dag[d].tries \in 0 .. MaxTries
<1>1. \A v \in Variants : variant[v] \in Rows
  BY DEF CompetitionTypeOK
<1>2. \A d \in Dags, v \in Variants : task[d][v] \in Tasks
  BY DEF CompetitionTypeOK
<1>3. \A d \in Dags : dag[d] \in DagRuns
  BY DEF CompetitionTypeOK
<1>4. Cardinality(Variants) \in Nat
  BY CompetitionAssumption, FS_CardinalityType
<1>5. \A v \in Variants :
        /\ variant[v].exists \in BOOLEAN /\ variant[v].score \in Scores \cup {0}
        /\ variant[v].rank \in 0 .. Cardinality(Variants) /\ variant[v].run \in Run \cup {NoRun}
  BY <1>1 DEF Rows
<1>6. \A v \in Variants : variant[v].score \in Nat /\ variant[v].rank \in Nat
  <2> SUFFICES ASSUME NEW v \in Variants
               PROVE  variant[v].score \in Nat /\ variant[v].rank \in Nat
    OBVIOUS
  <2>1. variant[v].score \in Nat
    BY <1>5, ScoreNat
  <2>2. variant[v].rank \in Nat
    BY <1>4, <1>5
  <2>3. QED
    BY <2>1, <2>2
<1>7. QED
  BY <1>1, <1>2, <1>3, <1>5, <1>6 DEF Tasks, DagRuns

(* The invariant holds of a campaign that no DAG run has looked at.        *)
THEOREM CompetitionInit == Init => CompetitionInv
<1> SUFFICES ASSUME Init PROVE CompetitionInv
  OBVIOUS
<1>1. \A v \in Variants : variant[v] \in {NewVariant, NoVariant}
  BY DEF Init
<1>2. \A v \in Variants :
        variant[v] \in Rows /\ variant[v].score = 0 /\ variant[v].rank = 0 /\ variant[v].run = NoRun
  <2>1. /\ NewVariant.score = 0 /\ NewVariant.rank = 0 /\ NewVariant.run = NoRun
        /\ NoVariant.score = 0 /\ NoVariant.rank = 0 /\ NoVariant.run = NoRun
    BY DEF NewVariant, NoVariant
  <2>2. QED
    BY <1>1, <2>1, Shapes
<1>3. \A d \in Dags : dag[d] = [at |-> "new", list |-> <<>>, tries |-> 0]
  BY DEF Init, NewDag
<1>4. variant \in [Variants -> Rows]
  BY <1>2 DEF Init
<1>5. dag \in [Dags -> DagRuns]
  <2>1. NewDag \in DagRuns
    BY CompetitionAssumption DEF NewDag, DagRuns
  <2>2. QED
    BY <2>1 DEF Init
<1>6. task \in [Dags -> [Variants -> Tasks]]
  BY Shapes DEF Init
<1>7. CompetitionTypeOK
  <2>1. segment \in BOOLEAN /\ campaign \in Campaigns /\ runs \subseteq Run
    BY DEF Init, Campaigns
  <2>2. faults \in 0 .. MaxFaults
    BY CompetitionAssumption DEF Init
  <2>3. overlapped \in BOOLEAN
    BY DEF Init
  <2>4. QED
    BY <1>4, <1>5, <1>6, <2>1, <2>2, <2>3 DEF CompetitionTypeOK
<1>8. \A d \in Dags : ListInv(d)
  BY <1>3, CompetitionAssumption DEF ListInv, Active
<1>9. \A d \in Dags, v \in Variants : task[d][v] = NewTask
  BY DEF Init
<1>10. \A d \in Dags, v \in Variants : TaskInv(d, v)
  BY <1>9, Shapes, CompetitionAssumption DEF TaskInv
<1>11. \A d \in Dags : AloneInv(d)
  BY <1>3 DEF AloneInv, Active, Ranking
<1>12. RunBacksScore /\ RanksFollowScores
  BY <1>2 DEF RunBacksScore, RanksFollowScores
<1>13. QED
  BY <1>2, <1>7, <1>8, <1>10, <1>11, <1>12 DEF CompetitionInv

-----------------------------------------------------------------------------
(* The API.                                                                *)

(* What an edit makes of a row: nothing, a new row of no list, no row, or  *)
(* the row without its run when all runs go.                               *)
LEMMA EditedRows ==
  ASSUME CompetitionTypeOK, Edit
  PROVE  /\ UNCHANGED <<dag, task, faults, overlapped>>
         /\ \A v \in Variants :
              \/ variant'[v] = variant[v] /\ (runs' = runs \/ variant[v].run = NoRun)
              \/ variant'[v] = NoVariant
              \/ variant'[v] = NewVariant /\ variant[v] = NoVariant
                   /\ \A d \in Dags : v \notin ToSet(dag[d].list)
              \/ variant'[v] = [variant[v] EXCEPT !.run = NoRun]
         /\ variant' \in [Variants -> Rows]
         /\ campaign' \in Campaigns /\ segment' \in BOOLEAN /\ runs' \subseteq Run
<1>0. variant \in [Variants -> Rows] /\ campaign \in Campaigns /\ segment \in BOOLEAN /\ runs \subseteq Run
  BY DEF CompetitionTypeOK
<1>1. ASSUME NEW v \in Variants, AddVariant(v)
      PROVE  /\ UNCHANGED <<segment, campaign, runs, dag, task, faults, overlapped>>
             /\ variant' = [variant EXCEPT ![v] = NewVariant] /\ variant[v] = NoVariant
             /\ \A d \in Dags : v \notin ToSet(dag[d].list)
  BY <1>1 DEF AddVariant
<1>2. ASSUME NEW v \in Variants, DeleteVariant(v)
      PROVE  /\ UNCHANGED <<segment, campaign, runs, dag, task, faults, overlapped>>
             /\ variant' = [variant EXCEPT ![v] = NoVariant]
  BY <1>2 DEF DeleteVariant
<1>3. CASE UpdateCampaign
  <2>1. campaign' \in Campaigns
    BY <1>0, <1>3 DEF UpdateCampaign, Campaigns
  <2>2. QED
    BY <1>0, <1>3, <2>1 DEF UpdateCampaign
<1>4. CASE DeleteCampaign
  <2>1. campaign' \in Campaigns
    BY <1>0, <1>4 DEF DeleteCampaign, Campaigns
  <2>2. QED
    BY <1>0, <1>4, <2>1, Shapes DEF DeleteCampaign
<1>5. CASE DeleteSegment
  <2>1. campaign' \in Campaigns
    BY <1>0, <1>5 DEF DeleteSegment, Campaigns
  <2>2. variant' \in [Variants -> Rows]
    BY <1>0, <1>5, UnlinkedRow DEF DeleteSegment
  <2>3. QED
    BY <1>0, <1>5, <2>1, <2>2 DEF DeleteSegment
<1>6. QED
  BY <1>0, <1>1, <1>2, <1>3, <1>4, <1>5, Shapes DEF Edit

(* An edit keeps the invariant.                                            *)
LEMMA EditStep == CompetitionInv /\ Edit => CompetitionInv'
<1> SUFFICES ASSUME CompetitionInv, Edit PROVE CompetitionInv'
  OBVIOUS
<1>0. CompetitionTypeOK /\ UNCHANGED <<dag, task, faults, overlapped>>
  BY EditedRows DEF CompetitionInv
<1>1. CompetitionTypeOK'
  BY <1>0, EditedRows DEF CompetitionTypeOK
<1>2. \A v \in Variants :
        \/ /\ variant'[v].score = variant[v].score /\ variant'[v].rank = variant[v].rank
           /\ variant'[v].exists = variant[v].exists
           /\ \/ variant'[v].run = NoRun
              \/ variant'[v].run = variant[v].run /\ runs' = runs
        \/ variant'[v].score = 0 /\ variant'[v].rank = 0 /\ variant'[v].run = NoRun
  <2> SUFFICES ASSUME NEW v \in Variants
               PROVE  \/ /\ variant'[v].score = variant[v].score /\ variant'[v].rank = variant[v].rank
                         /\ variant'[v].exists = variant[v].exists
                         /\ \/ variant'[v].run = NoRun
                            \/ variant'[v].run = variant[v].run /\ runs' = runs
                      \/ variant'[v].score = 0 /\ variant'[v].rank = 0 /\ variant'[v].run = NoRun
    OBVIOUS
  <2>1. CASE variant'[v] = variant[v] /\ (runs' = runs \/ variant[v].run = NoRun)
    BY <2>1
  <2>2. CASE variant'[v] \in {NoVariant, NewVariant}
    BY <2>2, Shapes
  <2>3. CASE variant'[v] = [variant[v] EXCEPT !.run = NoRun]
    BY <1>0, <2>3, UnlinkedRow, Fields
  <2>4. QED
    BY <1>0, <2>1, <2>2, <2>3, EditedRows
<1>3. \A v \in Variants : ~variant'[v].exists => variant'[v].score = 0 /\ variant'[v].rank = 0
  BY <1>2 DEF CompetitionInv
<1>4. RunBacksScore'
  BY <1>2 DEF CompetitionInv, RunBacksScore
<1>5. \A d \in Dags : ListInv(d)'
  BY <1>0 DEF CompetitionInv, ListInv, Active
<1>6. \A d \in Dags, v \in Variants : TaskInv(d, v)'
  BY <1>0 DEF CompetitionInv, TaskInv
<1>7. ~overlapped' => \A d \in Dags : AloneInv(d)'
  <2> SUFFICES ASSUME ~overlapped', NEW d \in Dags PROVE AloneInv(d)'
    OBVIOUS
  <2>1. AloneInv(d)
    BY <1>0 DEF CompetitionInv
  <2>2. \A e \in Dags : (Active(e)' <=> Active(e)) /\ (Ranking(e)' <=> Ranking(e))
    BY <1>0 DEF Active, Ranking
  <2>3. \A v \in Variants :
          /\ variant'[v].score # 0 => variant'[v].score = variant[v].score
          /\ variant[v].rank = 0 => variant'[v].rank = 0
    BY <1>2
  <2>4. QED
    BY <1>0, <2>1, <2>2, <2>3 DEF AloneInv
<1>8. RanksFollowScores'
  BY <1>0, <1>2 DEF CompetitionInv, RanksFollowScores
<1>9. QED
  BY <1>1, <1>3, <1>4, <1>5, <1>6, <1>7, <1>8 DEF CompetitionInv
-----------------------------------------------------------------------------
(* The tasks of a DAG run itself.                                          *)

(* What is kept when DAG runs only go on, end, or join their tasks.        *)
LEMMA DagStep ==
  ASSUME CompetitionInv, task' = task,
         \A e \in Dags :
           /\ dag'[e].list = dag[e].list
           /\ Active(e)' => Active(e)
           /\ Ranking(e)' => Ranking(e)
           /\ Active(e)' \/ dag'[e].at = "new" => dag'[e].tries < MaxTries
           /\ dag'[e].at = "ranking" =>
                dag[e].at = "ranking" \/ \A v \in ToSet(dag[e].list) : task[e][v].at = "done"
  PROVE  /\ \A e \in Dags : ListInv(e)'
         /\ \A e \in Dags, v \in Variants : TaskInv(e, v)'
         /\ variant' = variant /\ overlapped' = overlapped /\ runs' = runs /\ CompetitionTypeOK'
              => CompetitionInv'
<1>1. \A e \in Dags : ListInv(e)'
  BY DEF CompetitionInv, ListInv, Active
<1>2. \A e \in Dags, v \in Variants : TaskInv(e, v)'
  BY DEF CompetitionInv, TaskInv
<1>3. ASSUME variant' = variant, overlapped' = overlapped, runs' = runs, CompetitionTypeOK'
      PROVE  CompetitionInv'
  <2>1. ~overlapped' => \A e \in Dags : AloneInv(e)'
    BY <1>3 DEF CompetitionInv, AloneInv
  <2>2. RunBacksScore' /\ RanksFollowScores'
    BY <1>3 DEF CompetitionInv, RunBacksScore, RanksFollowScores
  <2>3. \A v \in Variants : ~variant'[v].exists => variant'[v].score = 0 /\ variant'[v].rank = 0
    BY <1>3 DEF CompetitionInv
  <2>4. QED
    BY <1>1, <1>2, <1>3, <2>1, <2>2, <2>3 DEF CompetitionInv
<1>4. QED
  BY <1>1, <1>2, <1>3

(* A DAG run whose own task raises tries again, or has failed.             *)
LEMMA Raised ==
  ASSUME CompetitionInv, NEW d \in Dags, Active(d), Raise(d)
  PROVE  /\ dag' \in [Dags -> DagRuns]
         /\ \A e \in Dags :
              /\ dag'[e].list = dag[e].list
              /\ dag'[e].at = dag[e].at \/ dag'[e].at = "failed"
              /\ dag'[e].at # "failed" => dag'[e].tries < MaxTries \/ dag'[e] = dag[e]
<1>0. dag \in [Dags -> DagRuns] /\ dag[d] \in DagRuns /\ ListInv(d)
  BY DEF CompetitionInv, CompetitionTypeOK
<1>1. dag[d].tries \in Nat /\ dag[d].tries < MaxTries /\ MaxTries \in Nat
  BY <1>0, CompetitionAssumption DEF ListInv, DagRuns
<1>2. dag[d].tries + 1 \in 0 .. MaxTries
  BY <1>1
<1>3. dag[d].tries + 1 # MaxTries => dag[d].tries + 1 < MaxTries
  BY <1>1
<1>4. dag'[d] = [at |-> IF dag[d].tries + 1 = MaxTries THEN "failed" ELSE dag[d].at,
                 list |-> dag[d].list, tries |-> dag[d].tries + 1]
  BY <1>0 DEF Raise
<1>5. dag'[d] \in DagRuns
  BY <1>0, <1>2, <1>4 DEF DagRuns
<1>6. \A e \in Dags : e # d => dag'[e] = dag[e]
  BY <1>0 DEF Raise
<1>7. dag' \in [Dags -> DagRuns]
  BY <1>0, <1>5, <1>6 DEF Raise
<1>8. QED
  BY <1>3, <1>4, <1>6, <1>7

(* What a task that raises leaves alone.                                   *)
LEMMA RaiseStep ==
  ASSUME CompetitionInv, NEW d \in Dags, Active(d), Raise(d),
         UNCHANGED <<segment, campaign, variant, runs, task, overlapped>>, faults' \in 0 .. MaxFaults
  PROVE  CompetitionInv'
<1>1. CompetitionTypeOK'
  BY Raised DEF CompetitionInv, CompetitionTypeOK
<1>2. QED
  BY <1>1, Raised, DagStep DEF CompetitionInv, ListInv, Active, Ranking

(* A trigger keeps the invariant: a second active DAG run is an overlap.   *)
LEMMA TriggerStep ==
  ASSUME CompetitionInv, NEW d \in Dags, Trigger(d)
  PROVE  CompetitionInv'
<1>0. dag \in [Dags -> DagRuns] /\ dag[d] \in DagRuns /\ CompetitionTypeOK
  BY DEF CompetitionInv, CompetitionTypeOK
<1>1. /\ dag'[d].at = "fetching" /\ dag'[d].list = dag[d].list /\ dag'[d].tries = dag[d].tries
      /\ dag'[d] \in DagRuns /\ dag[d].at = "new"
      /\ \A e \in Dags : e # d => dag'[e] = dag[e]
      /\ UNCHANGED <<segment, campaign, variant, runs, task, faults>>
  BY <1>0 DEF Trigger, DagRuns
<1>2. dag' \in [Dags -> DagRuns]
  BY <1>0, <1>1 DEF Trigger
<1>3. overlapped' \in BOOLEAN
  BY <1>0 DEF Trigger, CompetitionTypeOK
<1>4. CompetitionTypeOK'
  BY <1>0, <1>1, <1>2, <1>3 DEF CompetitionTypeOK
<1>5. \A e \in Dags : ListInv(e)'
  BY <1>1 DEF CompetitionInv, ListInv, Active
<1>6. \A e \in Dags, v \in Variants : TaskInv(e, v)'
  BY <1>1 DEF CompetitionInv, TaskInv
<1>7. ~overlapped' => ~overlapped /\ \A e \in Dags : ~Active(e)
  BY DEF Trigger
<1>8. ~overlapped' => \A e \in Dags : AloneInv(e)'
  <2> SUFFICES ASSUME ~overlapped', NEW e \in Dags PROVE AloneInv(e)'
    OBVIOUS
  <2>1. \A x \in Dags : Active(x)' => x = d
    BY <1>1, <1>7 DEF Active
  <2>2. ~Ranking(e)'
    BY <1>1, <1>7 DEF Active, Ranking
  <2>3. QED
    BY <2>1, <2>2 DEF AloneInv
<1>9. RunBacksScore' /\ RanksFollowScores'
  BY <1>1, <1>7 DEF CompetitionInv, RunBacksScore, RanksFollowScores
<1>10. QED
  BY <1>1, <1>4, <1>5, <1>6, <1>8, <1>9 DEF CompetitionInv

(* What fetch_campaign makes of the DAG run and its tasks: the list has    *)
(* all variants that exist, once, and each of them has a task.             *)
LEMMA Fetched ==
  ASSUME CompetitionTypeOK, NEW d \in Dags, Fetch(d)
  PROVE  /\ dag[d].at = "fetching" /\ dag'[d].at = "simulating" /\ dag'[d].tries = 0
         /\ \A i, j \in DOMAIN dag'[d].list : i # j => dag'[d].list[i] # dag'[d].list[j]
         /\ ToSet(dag'[d].list) = Listed
         /\ dag' \in [Dags -> DagRuns] /\ task' \in [Dags -> [Variants -> Tasks]]
         /\ \A e \in Dags : e # d => dag'[e] = dag[e] /\ task'[e] = task[e]
         /\ \A v \in Listed : task'[d][v] = [NewTask EXCEPT !.at = "ready"]
         /\ \A v \in Variants : v \notin Listed => task'[d][v] = NewTask
         /\ \A v \in Variants :
              task'[d][v].at = IF v \in ToSet(dag'[d].list) THEN "ready" ELSE "none"
         /\ UNCHANGED <<segment, campaign, variant, runs, faults, overlapped>>
<1>0. /\ dag \in [Dags -> DagRuns] /\ task \in [Dags -> [Variants -> Tasks]]
  BY DEF CompetitionTypeOK
<1>1. PICK list \in SetToSeqs(Listed) :
        dag' = [dag EXCEPT ![d] = [at |-> "simulating", list |-> list, tries |-> 0]]
  BY DEF Fetch
<1>2. /\ list \in [1 .. Cardinality(Listed) -> Listed]
      /\ \A i, j \in 1 .. Cardinality(Listed) : i # j => list[i] # list[j]
  BY <1>1 DEF SetToSeqs
<1>3. IsFiniteSet(Listed) /\ Listed \subseteq Variants /\ Cardinality(Listed) \in Nat
  BY CompetitionAssumption, FS_Subset, FS_CardinalityType DEF Listed
<1>4. ToSet(list) = Listed
  <2>1. list \in Injection(1 .. Cardinality(Listed), Listed)
    BY <1>2 DEF Injection, IsInjective
  <2>2. Cardinality(1 .. Cardinality(Listed)) = Cardinality(Listed)
    BY <1>3, FS_Interval
  <2>3. list \in Surjection(1 .. Cardinality(Listed), Listed)
    BY <1>3, <2>1, <2>2, FS_Injection
  <2>4. QED
    BY <1>2, <2>3 DEF Surjection, ToSet
<1>5. list \in Seq(Variants) /\ DOMAIN list = 1 .. Cardinality(Listed)
  BY <1>2, <1>3
<1>6. /\ dag'[d] = [at |-> "simulating", list |-> list, tries |-> 0]
      /\ \A e \in Dags : e # d => dag'[e] = dag[e]
      /\ dag[d].at = "fetching"
      /\ UNCHANGED <<segment, campaign, variant, runs, faults, overlapped>>
  BY <1>0, <1>1 DEF Fetch
<1>7. dag' \in [Dags -> DagRuns]
  <2>1. dag'[d] \in DagRuns
    BY <1>5, <1>6, CompetitionAssumption DEF DagRuns
  <2>2. QED
    BY <1>0, <1>1, <2>1
<1>8. /\ \A v \in Listed : task'[d][v] = [NewTask EXCEPT !.at = "ready"]
      /\ \A v \in Variants : v \notin Listed => task'[d][v] = NewTask
      /\ \A e \in Dags : e # d => task'[e] = task[e]
      /\ task' \in [Dags -> [Variants -> Tasks]]
  BY <1>0, <1>3, Shapes DEF Fetch
<1>9. dag'[d].list = list /\ dag'[d].at = "simulating" /\ dag'[d].tries = 0
  BY <1>6
<1>10. \A i, j \in DOMAIN dag'[d].list : i # j => dag'[d].list[i] # dag'[d].list[j]
  BY <1>2, <1>5, <1>9
<1>11. \A v \in Variants :
         task'[d][v].at = IF v \in ToSet(dag'[d].list) THEN "ready" ELSE "none"
  BY <1>4, <1>8, <1>9, Shapes
<1>12. QED
  BY <1>4, <1>6, <1>7, <1>8, <1>9, <1>10, <1>11

(* fetch_campaign keeps the invariant.                                     *)
LEMMA FetchStep ==
  ASSUME CompetitionInv, NEW d \in Dags, Fetch(d)
  PROVE  CompetitionInv'
<1>0. CompetitionTypeOK
  BY DEF CompetitionInv
<1>1. CompetitionTypeOK'
  BY <1>0, Fetched DEF CompetitionTypeOK
<1>2. \A e \in Dags : ListInv(e)'
  <2>1. ListInv(d)'
    BY <1>0, Fetched, CompetitionAssumption DEF ListInv
  <2>2. \A e \in Dags : e # d => ListInv(e)'
    BY <1>0, Fetched DEF CompetitionInv, ListInv, Active
  <2>3. QED
    BY <2>1, <2>2
<1>3. \A v \in Variants : TaskInv(d, v)'
  <2> SUFFICES ASSUME NEW v \in Variants PROVE TaskInv(d, v)'
    OBVIOUS
  <2>0. task'[d][v] \in {NewTask, [NewTask EXCEPT !.at = "ready"]}
    BY <1>0, Fetched
  <2>1. task'[d][v].run = NoRun /\ task'[d][v].tries = 0
    BY <2>0, Shapes
  <2>2. QED
    BY <2>1, CompetitionAssumption DEF TaskInv
<1>4. \A e \in Dags, v \in Variants : TaskInv(e, v)'
  BY <1>0, <1>3, Fetched DEF CompetitionInv, TaskInv
<1>5. ~overlapped' => \A e \in Dags : AloneInv(e)'
  <2> SUFFICES ASSUME ~overlapped', NEW e \in Dags PROVE AloneInv(e)'
    OBVIOUS
  <2>1. \A x, y \in Dags : Active(x) /\ Active(y) => x = y
    BY <1>0, Fetched DEF CompetitionInv, AloneInv
  <2>2. \A x \in Dags : Active(x)' <=> Active(x)
    BY <1>0, Fetched DEF Active
  <2>3. Ranking(e)' => e = d
    BY <1>0, <2>1, Fetched DEF Active, Ranking
  <2>4. \A v \in Variants : v \in Listed => task'[d][v].at = "ready"
    BY <1>0, Fetched, Shapes
  <2>5. \A v \in Variants : v \notin Listed => variant'[v].rank = 0
    BY <1>0, Fetched, Fields DEF CompetitionInv, Listed
  <2>6. ToSet(dag'[d].list) = Listed /\ variant' = variant
    BY <1>0, Fetched
  <2>7. QED
    BY <2>1, <2>2, <2>3, <2>4, <2>5, <2>6 DEF AloneInv
<1>6. RunBacksScore' /\ RanksFollowScores'
  BY <1>0, Fetched DEF CompetitionInv, RunBacksScore, RanksFollowScores
<1>7. QED
  BY <1>0, <1>1, <1>2, <1>4, <1>5, <1>6, Fetched DEF CompetitionInv

(* The join keeps the invariant: to rank is to have all results.           *)
LEMMA JoinStep ==
  ASSUME CompetitionInv, NEW d \in Dags, Join(d)
  PROVE  CompetitionInv'
<1>0. dag \in [Dags -> DagRuns] /\ dag[d] \in DagRuns /\ CompetitionTypeOK
  BY DEF CompetitionInv, CompetitionTypeOK
<1>1. /\ dag'[d].at \in {"failed", "ranking"} /\ dag'[d].list = dag[d].list /\ dag'[d].tries = dag[d].tries
      /\ dag'[d] \in DagRuns /\ dag[d].at = "simulating"
      /\ dag'[d].at = "ranking" => \A v \in ToSet(dag[d].list) : task[d][v].at = "done"
      /\ \A e \in Dags : e # d => dag'[e] = dag[e]
      /\ UNCHANGED <<segment, campaign, variant, runs, task, faults, overlapped>>
  BY <1>0 DEF Join, Joinable, DagRuns
<1>2. dag' \in [Dags -> DagRuns]
  BY <1>0, <1>1 DEF Join
<1>3. CompetitionTypeOK'
  BY <1>0, <1>1, <1>2 DEF CompetitionTypeOK
<1>4. QED
  BY <1>1, <1>3, DagStep DEF CompetitionInv, ListInv, Active, Ranking
-----------------------------------------------------------------------------
(* simulate_variant.                                                       *)

(* A task that is executed keeps the invariant if what it reports is a new *)
(* result of a variant without score, or the score that is there.          *)
LEMMA TaskStep ==
  ASSUME CompetitionInv, NEW d \in Dags, NEW v \in Variants, NEW t \in Tasks,
         task[d][v].at \in {"ready", "inferring"}, task' = [task EXCEPT ![d][v] = t],
         t.at \in {"ready", "inferring"} => t.tries < MaxTries,
         t.run # NoRun => t.run.variant = v /\ t.run.score = t.score,
         \/ task[d][v].at = "inferring" \/ variant[v].score = 0
         \/ t.at = "done" /\ t.score = variant[v].score,
         UNCHANGED <<segment, campaign, variant, dag, overlapped>>, faults' \in 0 .. MaxFaults,
         runs \subseteq runs', runs' \subseteq Run
  PROVE  CompetitionInv'
<1>0. task \in [Dags -> [Variants -> Tasks]] /\ CompetitionTypeOK
  BY DEF CompetitionInv, CompetitionTypeOK
<1>1. /\ task'[d][v] = t
      /\ \A e \in Dags, u \in Variants : e # d \/ u # v => task'[e][u] = task[e][u]
      /\ task' \in [Dags -> [Variants -> Tasks]]
  BY <1>0
<1>2. CompetitionTypeOK'
  BY <1>0, <1>1 DEF CompetitionTypeOK
<1>3. ASSUME NEW e \in Dags
      PROVE  ListInv(e)'
  <2>1. ListInv(e) /\ \A u \in ToSet(dag[e].list) : u \in Variants
    BY <1>0, ListFacts DEF CompetitionInv
  <2>2. dag[e].at = "ranking" => \A u \in ToSet(dag[e].list) : task'[e][u].at = "done"
    BY <1>1, <2>1 DEF ListInv
  <2>3. QED
    BY <2>1, <2>2 DEF ListInv, Active
<1>4. \A e \in Dags, u \in Variants : TaskInv(e, u)'
  BY <1>1 DEF CompetitionInv, TaskInv
<1>5. ~overlapped' => \A e \in Dags : AloneInv(e)'
  <2> SUFFICES ASSUME ~overlapped', NEW e \in Dags PROVE AloneInv(e)'
    OBVIOUS
  <2>1. AloneInv(e)
    BY DEF CompetitionInv
  <2>2. \A x \in Dags : (Active(x)' <=> Active(x)) /\ (Ranking(x)' <=> Ranking(x))
    BY DEF Active, Ranking
  <2>3. Ranking(d) /\ v \in ToSet(dag[d].list) /\ variant[v].score # 0 /\ e = d =>
          t.at = "done" /\ t.score = variant[v].score
    BY <2>1 DEF AloneInv
  <2>4. QED
    BY <1>1, <2>1, <2>2, <2>3 DEF AloneInv
<1>6. RunBacksScore' /\ RanksFollowScores'
  BY DEF CompetitionInv, RunBacksScore, RanksFollowScores
<1>7. \A u \in Variants : ~variant'[u].exists => variant'[u].score = 0 /\ variant'[u].rank = 0
  BY DEF CompetitionInv
<1>8. QED
  BY <1>2, <1>3, <1>4, <1>5, <1>6, <1>7 DEF CompetitionInv

(* A task that raises is executed again while it has tries left.           *)
LEMMA RetryStep ==
  ASSUME CompetitionInv, NEW d \in Dags, NEW v \in Variants,
         task[d][v].at = "inferring", Retry(d, v),
         UNCHANGED <<segment, campaign, variant, dag, overlapped>>, faults' \in 0 .. MaxFaults,
         runs \subseteq runs', runs' \subseteq Run
  PROVE  CompetitionInv'
<1> DEFINE t == [at |-> IF task[d][v].tries + 1 = MaxTries THEN "failed" ELSE "ready",
                 tries |-> task[d][v].tries + 1, score |-> 0, run |-> NoRun]
<1>1. task[d][v].tries \in Nat /\ task[d][v].tries < MaxTries
  BY Fields DEF CompetitionInv, TaskInv
<1>2. t.tries \in 0 .. MaxTries /\ (t.at = "ready" => t.tries < MaxTries)
  BY <1>1, CompetitionAssumption
<1>3. t \in Tasks /\ t.run = NoRun /\ t.at \in {"failed", "ready"}
  BY <1>2 DEF Tasks
<1>4. task' = [task EXCEPT ![d][v] = t]
  BY DEF Retry
<1> HIDE DEF t
<1>5. t.at \in {"ready", "inferring"} => t.tries < MaxTries
  BY <1>2, <1>3
<1>6. QED
  BY <1>3, <1>4, <1>5, TaskStep

(* The run of an execution.                                                *)
LEMMA NewRunIsRun ==
  ASSUME CompetitionInv, NEW d \in Dags, NEW v \in Variants, NEW sc \in Scores,
         task[d][v].at = "inferring"
  PROVE  /\ NewRun(d, v, sc) \in Run
         /\ NewRun(d, v, sc).variant = v /\ NewRun(d, v, sc).score = sc
<1>1. task[d][v].tries \in Nat /\ task[d][v].tries < MaxTries
  BY Fields DEF CompetitionInv, TaskInv
<1>2. task[d][v].tries + 1 \in 1 .. MaxTries
  BY <1>1, CompetitionAssumption
<1>3. QED
  BY <1>2 DEF NewRun, Run

(* The executions of simulate_variant keep the invariant.                  *)
LEMMA SimulateStep ==
  ASSUME CompetitionInv, NEW d \in Dags, NEW v \in Variants,
         Check(d, v) \/ Simulate(d, v) \/ InsertRaises(d, v) \/ SimulateFails(d, v)
  PROVE  CompetitionInv'
<1>0. faults \in 0 .. MaxFaults /\ runs \subseteq Run
  BY DEF CompetitionInv, CompetitionTypeOK
<1>1. CASE Check(d, v)
  <2> DEFINE t == [at |-> IF variant[v].score # 0 THEN "done" ELSE "inferring",
                   tries |-> task[d][v].tries, score |-> variant[v].score, run |-> NoRun]
  <2>1. /\ task[d][v].tries \in 0 .. MaxTries /\ task[d][v].tries < MaxTries
        /\ task[d][v].at = "ready" /\ variant[v].score \in Scores \cup {0}
    BY <1>1, Fields DEF CompetitionInv, TaskInv, Check
  <2>2. t \in Tasks /\ t.run = NoRun /\ t.tries < MaxTries
    BY <2>1 DEF Tasks
  <2>3. variant[v].score = 0 \/ (t.at = "done" /\ t.score = variant[v].score)
    OBVIOUS
  <2>4. task' = [task EXCEPT ![d][v] = t]
    BY <1>1 DEF Check
  <2> HIDE DEF t
  <2>5. UNCHANGED <<segment, campaign, variant, runs, dag, faults, overlapped>>
    BY <1>1 DEF Check
  <2>6. QED
    BY <1>0, <2>1, <2>2, <2>3, <2>4, <2>5, TaskStep
<1>2. CASE Simulate(d, v)
  <2>1. PICK sc \in Scores :
          /\ runs' = runs \cup {NewRun(d, v, sc)}
          /\ task' = [task EXCEPT ![d][v] =
               [at |-> "done", tries |-> task[d][v].tries, score |-> sc, run |-> NewRun(d, v, sc)]]
    BY <1>2 DEF Simulate
  <2> DEFINE t == [at |-> "done", tries |-> task[d][v].tries, score |-> sc, run |-> NewRun(d, v, sc)]
  <2>2. task[d][v].at = "inferring" /\ UNCHANGED <<segment, campaign, variant, dag, faults, overlapped>>
    BY <1>2 DEF Simulate
  <2>3. NewRun(d, v, sc) \in Run /\ NewRun(d, v, sc).variant = v /\ NewRun(d, v, sc).score = sc
    BY <2>2, NewRunIsRun
  <2>4. task[d][v].tries \in 0 .. MaxTries
    BY Fields DEF CompetitionInv
  <2>5. t \in Tasks /\ t.at = "done" /\ t.run.variant = v /\ t.run.score = t.score
    BY <2>3, <2>4 DEF Tasks
  <2>6. task' = [task EXCEPT ![d][v] = t]
    BY <2>1
  <2> HIDE DEF t
  <2>7. runs \subseteq runs' /\ runs' \subseteq Run
    BY <1>0, <2>1, <2>3
  <2>8. faults' \in 0 .. MaxFaults
    BY <1>0, <2>2
  <2>9. t.at \in {"ready", "inferring"} => t.tries < MaxTries
    BY <2>5
  <2>10. QED
    BY <2>2, <2>5, <2>6, <2>7, <2>8, <2>9, TaskStep
<1>3. CASE InsertRaises(d, v)
  BY <1>0, <1>3, RetryStep DEF InsertRaises
<1>4. CASE SimulateFails(d, v)
  <2>1. /\ task[d][v].at = "inferring" /\ Retry(d, v)
        /\ UNCHANGED <<segment, campaign, variant, dag, overlapped>>
        /\ runs' = runs \/ \E sc \in Scores : runs' = runs \cup {NewRun(d, v, sc)}
    BY <1>4 DEF SimulateFails
  <2>2. runs \subseteq runs' /\ runs' \subseteq Run
    BY <1>0, <2>1, NewRunIsRun
  <2>3. faults' \in 0 .. MaxFaults
    BY <1>0, <1>4, CompetitionAssumption DEF SimulateFails, Fault
  <2>4. QED
    BY <2>1, <2>2, <2>3, RetryStep
<1>5. QED
  BY <1>1, <1>2, <1>3, <1>4

-----------------------------------------------------------------------------
(* rank_and_persist.                                                       *)

(* What the transaction makes of the rows.                                 *)
LEMMA RankedRows ==
  ASSUME CompetitionInv, NEW d \in Dags, RankEffect(d)
  PROVE  /\ \A v \in Variants :
              IF v \in ToSet(dag[d].list) /\ variant[v].exists
              THEN /\ variant'[v].exists /\ variant'[v].score = task[d][v].score
                   /\ variant'[v].rank = RankOf(d, v) /\ variant'[v].run = task[d][v].run
              ELSE variant'[v] = variant[v]
         /\ variant' \in [Variants -> Rows] /\ campaign' \in Campaigns
<1>0. variant \in [Variants -> Rows] /\ campaign \in Campaigns /\ CompetitionTypeOK /\ ListInv(d)
  BY DEF CompetitionInv, CompetitionTypeOK
<1>1. ASSUME NEW v \in Variants, v \in ToSet(dag[d].list)
      PROVE  Ranked(d, v) \in Rows
  <2>1. RankOf(d, v) \in 0 .. Cardinality(Variants)
    <3>1. RankOf(d, v) \in 1 .. Cardinality(Variants) /\ Cardinality(Variants) \in Nat
      BY <1>0, <1>1, RankBounds, CompetitionAssumption, FS_CardinalityType
    <3>2. QED
      BY <3>1
  <2>2. task[d][v].score \in Scores \cup {0} /\ task[d][v].run \in Run \cup {NoRun}
    BY <1>0, Fields
  <2>3. QED
    BY <2>1, <2>2, RowShape DEF Ranked
<1>2. variant' \in [Variants -> Rows]
  BY <1>0, <1>1 DEF RankEffect
<1>3. campaign' \in Campaigns
  BY <1>0 DEF RankEffect, Campaigns
<1>4. QED
  BY <1>2, <1>3 DEF RankEffect, Ranked

(* A ranking keeps what is said of the rows.                               *)
LEMMA RankStep ==
  ASSUME CompetitionInv, NEW d \in Dags, dag[d].at = "ranking", Linkable(d), RankEffect(d),
         UNCHANGED <<segment, runs, task, overlapped>>, faults' \in 0 .. MaxFaults,
         dag' \in [Dags -> DagRuns],
         \A e \in Dags :
           /\ dag'[e].list = dag[e].list
           /\ dag'[e].at = dag[e].at \/ dag'[e].at \in {"failed", "success"}
           /\ dag'[e].at \notin {"failed", "success"} => dag'[e].tries < MaxTries \/ dag'[e] = dag[e]
  PROVE  CompetitionInv'
<1>0. CompetitionTypeOK /\ ListInv(d)
  BY DEF CompetitionInv
<1>1. CompetitionTypeOK'
  BY <1>0, RankedRows DEF CompetitionTypeOK
<1>2. (\A e \in Dags : ListInv(e)') /\ (\A e \in Dags, v \in Variants : TaskInv(e, v)')
  BY DagStep DEF CompetitionInv, ListInv, Active, Ranking
<1>3. \A v \in Variants : ~variant'[v].exists => variant'[v].score = 0 /\ variant'[v].rank = 0
  BY RankedRows DEF CompetitionInv
<1>4. RunBacksScore'
  <2> SUFFICES ASSUME NEW v \in Variants, variant'[v].run # NoRun
               PROVE  variant'[v].run \in runs /\ variant'[v].run.variant = v
                        /\ variant'[v].run.score = variant'[v].score
    BY DEF RunBacksScore
  <2>1. CASE v \in ToSet(dag[d].list) /\ variant[v].exists
    <3>1. variant'[v].score = task[d][v].score /\ variant'[v].run = task[d][v].run
      BY <2>1, RankedRows
    <3>2. task[d][v].run \in runs
      BY <2>1, <3>1 DEF Linkable
    <3>3. QED
      BY <3>1, <3>2 DEF CompetitionInv, TaskInv
  <2>2. CASE ~(v \in ToSet(dag[d].list) /\ variant[v].exists)
    BY <2>2, RankedRows DEF CompetitionInv, RunBacksScore
  <2>3. QED
    BY <2>1, <2>2
<1>5. ASSUME ~overlapped'
      PROVE  /\ \A e \in Dags : AloneInv(e)'
             /\ \A v \in Variants : variant'[v].rank # 0 =>
                  /\ v \in ToSet(dag[d].list)
                  /\ variant'[v].score = task[d][v].score /\ variant'[v].rank = RankOf(d, v)
  <2>1. \A e \in Dags : AloneInv(e)
    BY <1>5 DEF CompetitionInv
  <2>2. Active(d) /\ Ranking(d)
    BY DEF Active, Ranking
  <2>3. \A e \in Dags : (Active(e)' => Active(e)) /\ (Ranking(e)' => Ranking(e) /\ e = d)
    BY <2>1, <2>2 DEF AloneInv, Active, Ranking
  <2>4. \A v \in ToSet(dag[d].list) : task[d][v].at = "done"
    BY <1>0 DEF ListInv
  <2>5. \A v \in Variants :
          IF v \in ToSet(dag[d].list)
          THEN variant'[v].score # 0 => variant'[v].score = task[d][v].score
          ELSE variant'[v].rank = 0
    BY <2>1, <2>2, RankedRows DEF AloneInv, CompetitionInv
  <2>6. \A e \in Dags : AloneInv(e)'
    BY <2>1, <2>3, <2>4, <2>5 DEF AloneInv
  <2>7. \A v \in Variants : variant'[v].rank # 0 =>
          /\ v \in ToSet(dag[d].list)
          /\ variant'[v].score = task[d][v].score /\ variant'[v].rank = RankOf(d, v)
    BY <2>5, RankedRows DEF CompetitionInv
  <2>8. QED
    BY <2>6, <2>7
<1>6. RanksFollowScores'
  <2> SUFFICES ASSUME ~overlapped', NEW u \in Variants, NEW v \in Variants,
                      u # v, variant'[u].rank # 0, variant'[v].rank # 0
               PROVE  /\ variant'[u].rank # variant'[v].rank
                      /\ variant'[u].score > variant'[v].score => variant'[u].rank < variant'[v].rank
    BY DEF RanksFollowScores
  <2>1. /\ u \in ToSet(dag[d].list) /\ v \in ToSet(dag[d].list)
        /\ variant'[u].score = task[d][u].score /\ variant'[u].rank = RankOf(d, u)
        /\ variant'[v].score = task[d][v].score /\ variant'[v].rank = RankOf(d, v)
    BY <1>5
  <2>2. QED
    BY <1>0, <2>1, RankFollowsScore
<1>7. QED
  BY <1>1, <1>2, <1>3, <1>4, <1>5, <1>6 DEF CompetitionInv

(* rank_and_persist, tried again or not, keeps the invariant.              *)
LEMMA PersistStep ==
  ASSUME CompetitionInv, NEW d \in Dags, Rank(d) \/ RankFails(d)
  PROVE  CompetitionInv'
<1>0. dag \in [Dags -> DagRuns] /\ dag[d] \in DagRuns /\ faults \in 0 .. MaxFaults
  BY DEF CompetitionInv, CompetitionTypeOK
<1>1. CASE Rank(d)
  <2>1. /\ dag'[d].at = "success" /\ dag'[d].list = dag[d].list /\ dag'[d] \in DagRuns
        /\ \A e \in Dags : e # d => dag'[e] = dag[e]
        /\ UNCHANGED <<segment, runs, task, faults, overlapped>>
        /\ dag[d].at = "ranking" /\ Linkable(d) /\ RankEffect(d)
    BY <1>0, <1>1 DEF Rank, DagRuns
  <2>2. dag' \in [Dags -> DagRuns]
    BY <1>0, <1>1, <2>1 DEF Rank
  <2>3. QED
    BY <1>0, <2>1, <2>2, RankStep
<1>2. CASE RankFails(d)
  <2>1. /\ UNCHANGED <<segment, runs, task, overlapped>>
        /\ dag[d].at = "ranking" /\ Linkable(d) /\ Raise(d) /\ Active(d)
        /\ RankEffect(d) \/ UNCHANGED <<variant, campaign>>
    BY <1>2 DEF RankFails, Active
  <2>2. faults' \in 0 .. MaxFaults
    BY <1>0, <1>2, CompetitionAssumption DEF RankFails, Fault
  <2>3. CASE RankEffect(d)
    <3>1. \A e \in Dags :
            /\ dag'[e].list = dag[e].list
            /\ dag'[e].at = dag[e].at \/ dag'[e].at \in {"failed", "success"}
            /\ dag'[e].at \notin {"failed", "success"} => dag'[e].tries < MaxTries \/ dag'[e] = dag[e]
      BY <2>1, Raised
    <3>2. dag' \in [Dags -> DagRuns]
      BY <2>1, Raised
    <3>3. QED
      BY <2>1, <2>2, <2>3, <3>1, <3>2, RankStep
  <2>4. CASE UNCHANGED <<variant, campaign>>
    BY <2>1, <2>2, <2>4, RaiseStep
  <2>5. QED
    BY <2>1, <2>3, <2>4
<1>3. QED
  BY <1>1, <1>2

-----------------------------------------------------------------------------
(* The theorems.                                                           *)

(* Every step of a DAG run keeps the invariant.                            *)
LEMMA CompetitionStep == CompetitionInv /\ [Next]_vars => CompetitionInv'
<1> SUFFICES ASSUME CompetitionInv, [Next]_vars PROVE CompetitionInv'
  OBVIOUS
<1>0. faults \in 0 .. MaxFaults
  BY DEF CompetitionInv, CompetitionTypeOK
<1>1. CASE UNCHANGED vars
  BY <1>1 DEF vars, CompetitionInv, CompetitionTypeOK, RunBacksScore, ListInv, TaskInv, AloneInv,
     RanksFollowScores, Active, Ranking
<1>2. CASE Edit
  BY <1>2, EditStep
<1>3. ASSUME NEW d \in Dags, Trigger(d)
      PROVE  CompetitionInv'
  BY <1>3, TriggerStep
<1>4. ASSUME NEW d \in Dags, Work(d)
      PROVE  CompetitionInv'
  <2>1. FetchRaises(d) \/ RankRaises(d) => CompetitionInv'
    BY <1>0, RaiseStep DEF FetchRaises, RankRaises, Active
  <2>2. QED
    BY <1>4, <2>1, FetchStep, SimulateStep, JoinStep, PersistStep DEF Work
<1>5. ASSUME NEW d \in Dags, Failure(d)
      PROVE  CompetitionInv'
  <2>1. ASSUME FetchFails(d)
        PROVE  CompetitionInv'
    <3>1. faults' \in 0 .. MaxFaults
      BY <1>0, <2>1, CompetitionAssumption DEF FetchFails, Fault
    <3>2. QED
      BY <2>1, <3>1, RaiseStep DEF FetchFails, Active
  <2>2. QED
    BY <1>5, <2>1, SimulateStep, PersistStep DEF Failure
<1>6. QED
  BY <1>1, <1>2, <1>3, <1>4, <1>5 DEF Next

(* CompetitionInv is an invariant.                                         *)
THEOREM CompetitionInvariant == Spec => []CompetitionInv
  BY CompetitionInit, CompetitionStep, PTL DEF Spec

(* CompetitionTypeOK is an invariant: no task has too many tries.          *)
THEOREM CompetitionTyped == Spec => []CompetitionTypeOK
<1>1. CompetitionInv => CompetitionTypeOK
  BY DEF CompetitionInv
<1>2. QED
  BY <1>1, CompetitionInvariant, PTL

(* A variant's link to a run agrees with its score, and the run exists.    *)
THEOREM BackedScores == Spec => []RunBacksScore
<1>1. CompetitionInv => RunBacksScore
  BY DEF CompetitionInv
<1>2. QED
  BY <1>1, CompetitionInvariant, PTL

(* Ranks follow scores while DAG runs follow one another.                  *)
THEOREM OrderedRanks == Spec => []RanksFollowScores
<1>1. CompetitionInv => RanksFollowScores
  BY DEF CompetitionInv
<1>2. QED
  BY <1>1, CompetitionInvariant, PTL

(* A score is given once while DAG runs follow one another.                *)
THEOREM ScoresGivenOnce == Spec => ScoreGivenOnce
<1> DEFINE Once == ~overlapped' => \A v \in Variants :
      variant[v].score # 0 => variant'[v].score = variant[v].score \/ ~variant'[v].exists
<1>1. ASSUME CompetitionInv, [Next]_vars
      PROVE  [Once]_vars
  <2> SUFFICES ASSUME Next, ~overlapped', NEW v \in Variants, variant[v].score # 0
               PROVE  variant'[v].score = variant[v].score \/ ~variant'[v].exists
    BY <1>1
  <2>1. CASE Edit
    <3>1. CompetitionTypeOK
      BY <1>1 DEF CompetitionInv
    <3>2. variant[v] # NoVariant /\ NoVariant.exists = FALSE
      BY DEF NoVariant
    <3>3. variant'[v] = [variant[v] EXCEPT !.run = NoRun] => variant'[v].score = variant[v].score
      BY <3>1, UnlinkedRow, Fields
    <3>4. QED
      BY <2>1, <3>1, <3>2, <3>3, EditedRows
  <2>2. ASSUME NEW d \in Dags, Rank(d) \/ RankFails(d)
        PROVE  variant'[v].score = variant[v].score \/ ~variant'[v].exists
    <3>1. /\ dag[d].at = "ranking" /\ overlapped' = overlapped
          /\ RankEffect(d) \/ variant' = variant
      BY <2>2 DEF Rank, RankFails
    <3>2. AloneInv(d) /\ ListInv(d)
      BY <1>1, <3>1 DEF CompetitionInv
    <3>3. v \in ToSet(dag[d].list) => task[d][v].score = variant[v].score
      BY <3>1, <3>2 DEF AloneInv, ListInv, Ranking
    <3>4. QED
      BY <1>1, <3>1, <3>3, RankedRows
  <2>3. CASE variant' = variant
    BY <2>3
  <2>4. QED
    BY <2>1, <2>2, <2>3 DEF Next, Trigger, Work, Failure, Fetch, FetchRaises, FetchFails, Check,
       Simulate, InsertRaises, SimulateFails, Join, RankRaises
<1>2. QED
  BY <1>1, CompetitionInvariant, PTL DEF Spec, ScoreGivenOnce
-----------------------------------------------------------------------------
(* A DAG run and its tasks.                                                *)

(* What the steps of a DAG run may do to it: go on, with a try more or in  *)
(* a later stage. Its tasks are those of its list, and the join finds all  *)
(* of them over.                                                           *)
LEMMA StepOfDag ==
  ASSUME CompetitionInv, NEW d \in Dags, dag'[d] # dag[d], Next
  PROVE  /\ Active(d) \/ dag[d].at = "new"
         /\ DagAdvances(d)
         /\ \/ /\ task'[d] = task[d]
               /\ \/ dag'[d].at = dag[d].at /\ dag'[d].list = dag[d].list
                  \/ dag'[d].at # "simulating" /\ dag[d].at # "simulating"
                  \/ dag'[d].at # "simulating" /\ Joinable(d)
            \/ /\ dag'[d].at = "simulating"
               /\ \A v \in Variants :
                    task'[d][v].at = IF v \in ToSet(dag'[d].list) THEN "ready" ELSE "none"
<1>0. /\ dag \in [Dags -> DagRuns] /\ dag[d] \in DagRuns /\ dag[d].tries \in Nat
      /\ CompetitionTypeOK /\ task \in [Dags -> [Variants -> Tasks]]
  <2>1. dag \in [Dags -> DagRuns] /\ CompetitionTypeOK /\ task \in [Dags -> [Variants -> Tasks]]
    BY DEF CompetitionInv, CompetitionTypeOK
  <2>2. dag[d].tries \in 0 .. MaxTries
    BY <2>1, Fields
  <2>3. QED
    BY <2>1, <2>2
<1>1. ASSUME NEW e \in Dags, Trigger(e)
      PROVE  e = d /\ dag[d].at = "new" /\ dag'[d].at = "fetching" /\ task' = task
  BY <1>0, <1>1 DEF Trigger
<1>2. ASSUME NEW e \in Dags, Active(e), dag[e].at # "simulating", Raise(e)
      PROVE  /\ e = d /\ dag'[d].list = dag[d].list /\ dag'[d].tries > dag[d].tries
             /\ \/ dag'[d].at = dag[d].at
                \/ dag'[d].at = "failed" /\ Active(d)
             /\ dag[d].at # "simulating" /\ Active(d)
  <2>1. e = d
    BY <1>0, <1>2 DEF Raise
  <2>2. dag'[d] = [at |-> IF dag[d].tries + 1 = MaxTries THEN "failed" ELSE dag[d].at,
                   list |-> dag[d].list, tries |-> dag[d].tries + 1]
    BY <1>0, <1>2, <2>1 DEF Raise
  <2>3. QED
    BY <1>0, <1>2, <2>1, <2>2
<1>3. ASSUME NEW e \in Dags, Fetch(e)
      PROVE  /\ e = d /\ dag[d].at = "fetching" /\ dag'[d].at = "simulating"
             /\ \A v \in Variants :
                  task'[d][v].at = IF v \in ToSet(dag'[d].list) THEN "ready" ELSE "none"
  BY <1>0, <1>3, Fetched DEF CompetitionInv
<1>4. ASSUME NEW e \in Dags, Join(e)
      PROVE  /\ e = d /\ dag'[d].at \in {"failed", "ranking"} /\ dag[d].at = "simulating"
             /\ task' = task /\ Joinable(d)
  BY <1>0, <1>4 DEF Join, Joinable
<1>5. ASSUME NEW e \in Dags, Rank(e)
      PROVE  e = d /\ dag[d].at = "ranking" /\ dag'[d].at = "success" /\ task' = task
  BY <1>0, <1>5 DEF Rank
<1>6. ASSUME NEW e \in Dags, FetchRaises(e) \/ RankRaises(e) \/ FetchFails(e) \/ RankFails(e)
      PROVE  Active(e) /\ dag[e].at # "simulating" /\ Raise(e) /\ task' = task
  BY <1>6 DEF FetchRaises, RankRaises, FetchFails, RankFails, Active
<1>7. \/ \E e \in Dags : Trigger(e) \/ Fetch(e) \/ Join(e) \/ Rank(e)
      \/ \E e \in Dags : FetchRaises(e) \/ RankRaises(e) \/ FetchFails(e) \/ RankFails(e)
  <2>1. Edit => dag' = dag
    BY <1>0, EditedRows
  <2>2. ASSUME NEW e \in Dags, NEW v \in Variants,
               Check(e, v) \/ Simulate(e, v) \/ InsertRaises(e, v) \/ SimulateFails(e, v)
        PROVE  dag' = dag
    BY <2>2 DEF Check, Simulate, InsertRaises, SimulateFails
  <2>3. QED
    BY <2>1, <2>2 DEF Next, Work, Failure
<1>8. QED
  BY <1>1, <1>2, <1>3, <1>4, <1>5, <1>6, <1>7 DEF DagAdvances, Stage, Active

(* What the other steps may do to its tasks: one of them goes on.          *)
LEMMA StepOfTask ==
  ASSUME CompetitionInv, NEW d \in Dags, dag'[d] = dag[d], task'[d] # task[d], Next
  PROVE  \E v \in Variants :
           /\ TaskAdvances(d, v) /\ task[d][v].at \in {"ready", "inferring"}
           /\ task'[d][v].at # "none"
           /\ \A u \in Variants \ {v} : task'[d][u] = task[d][u]
<1>0. CompetitionTypeOK /\ task \in [Dags -> [Variants -> Tasks]]
  BY DEF CompetitionInv, CompetitionTypeOK
<1>1. PICK e \in Dags, v \in Variants :
        Check(e, v) \/ Simulate(e, v) \/ InsertRaises(e, v) \/ SimulateFails(e, v)
  <2>1. Edit => task' = task
    BY <1>0, EditedRows
  <2>2. ASSUME NEW e \in Dags
        PROVE  Fetch(e) => dag'[e] # dag[e] /\ (e # d => task'[d] = task[d])
    BY <1>0, Fetched DEF CompetitionInv
  <2>3. ASSUME NEW e \in Dags
        PROVE  Trigger(e) \/ FetchRaises(e) \/ FetchFails(e) \/ Join(e) \/ Rank(e)
                 \/ RankRaises(e) \/ RankFails(e) => task' = task
    BY DEF Trigger, FetchRaises, FetchFails, Join, Rank, RankRaises, RankFails
  <2>4. QED
    BY <2>1, <2>2, <2>3 DEF Next, Work, Failure
<1>2. /\ task[e][v].tries \in Nat /\ task[e][v].at \in {"ready", "inferring"}
  <2>1. task[e][v].tries \in 0 .. MaxTries
    BY <1>0, Fields
  <2>2. QED
    BY <1>1, <2>1 DEF Check, Simulate, InsertRaises, SimulateFails
<1>3. \E t : /\ task' = [task EXCEPT ![e][v] = t] /\ t.at # "none"
             /\ \/ t.tries > task[e][v].tries
                \/ t.tries = task[e][v].tries /\ Phase(t.at) > Phase(task[e][v].at)
  <2>1. CASE Check(e, v)
    <3> DEFINE t == [at |-> IF variant[v].score # 0 THEN "done" ELSE "inferring",
                     tries |-> task[e][v].tries, score |-> variant[v].score, run |-> NoRun]
    <3>1. task' = [task EXCEPT ![e][v] = t] /\ task[e][v].at = "ready"
      BY <2>1 DEF Check
    <3>2. t.at \in {"done", "inferring"} /\ t.tries = task[e][v].tries
      OBVIOUS
    <3> HIDE DEF t
    <3>3. Phase(t.at) > Phase(task[e][v].at)
      BY <3>1, <3>2 DEF Phase
    <3>4. QED
      BY <3>1, <3>2, <3>3
  <2>2. CASE Simulate(e, v)
    <3>1. PICK sc \in Scores :
            task' = [task EXCEPT ![e][v] = [at |-> "done", tries |-> task[e][v].tries,
                                            score |-> sc, run |-> NewRun(e, v, sc)]]
      BY <2>2 DEF Simulate
    <3> DEFINE t == [at |-> "done", tries |-> task[e][v].tries, score |-> sc, run |-> NewRun(e, v, sc)]
    <3>2. task' = [task EXCEPT ![e][v] = t] /\ t.at = "done" /\ t.tries = task[e][v].tries
      BY <3>1
    <3> HIDE DEF t
    <3>3. Phase(t.at) > Phase(task[e][v].at)
      BY <2>2, <3>2 DEF Simulate, Phase
    <3>4. QED
      BY <3>2, <3>3
  <2>3. CASE InsertRaises(e, v) \/ SimulateFails(e, v)
    <3> DEFINE t == [at |-> IF task[e][v].tries + 1 = MaxTries THEN "failed" ELSE "ready",
                     tries |-> task[e][v].tries + 1, score |-> 0, run |-> NoRun]
    <3>1. task' = [task EXCEPT ![e][v] = t]
      BY <2>3 DEF InsertRaises, SimulateFails, Retry
    <3>2. t.at # "none" /\ t.tries > task[e][v].tries
      BY <1>2
    <3> HIDE DEF t
    <3>3. QED
      BY <3>1, <3>2
  <2>4. QED
    BY <1>1, <2>1, <2>2, <2>3
<1>4. /\ e = d
      /\ \A u \in Variants \ {v} : task'[d][u] = task[d][u]
      /\ task'[d][v].at # "none"
      /\ \/ task'[d][v].tries > task[d][v].tries
         \/ task'[d][v].tries = task[d][v].tries /\ Phase(task'[d][v].at) > Phase(task[d][v].at)
  BY <1>0, <1>3
<1>5. QED
  BY <1>2, <1>4 DEF TaskAdvances

(* A DAG run has the tasks of its list, and none under way before or after.*)
LEMMA WorkStep ==
  ASSUME CompetitionInv, NEW d \in Dags, WorkInv(d), [Next]_vars
  PROVE  WorkInv(d)'
<1>1. CASE dag'[d] = dag[d] /\ task'[d] = task[d]
  BY <1>1 DEF WorkInv
<1>2. CASE dag'[d] # dag[d]
  <2>1. Next
    BY <1>2 DEF vars
  <2>2. CASE task'[d] = task[d]
    <3>1. Joinable(d) => \A v \in Variants : task[d][v].at \notin {"ready", "inferring"}
      BY DEF Joinable, WorkInv
    <3>2. QED
      BY <1>2, <2>1, <2>2, <3>1, StepOfDag DEF WorkInv
  <2>3. QED
    BY <1>2, <2>1, <2>2, StepOfDag DEF WorkInv
<1>3. CASE dag'[d] = dag[d] /\ task'[d] # task[d]
  <2>1. Next
    BY <1>3 DEF vars
  <2>2. PICK v \in Variants :
          /\ task[d][v].at \in {"ready", "inferring"} /\ task'[d][v].at # "none"
          /\ \A u \in Variants \ {v} : task'[d][u] = task[d][u]
    BY <1>3, <2>1, StepOfTask
  <2>3. QED
    BY <1>3, <2>2 DEF WorkInv
<1>4. QED
  BY <1>1, <1>2, <1>3

(* WorkInv is an invariant of every DAG run.                               *)
THEOREM WorkInvariant == Spec => [](CompetitionInv /\ \A d \in Dags : WorkInv(d))
<1> DEFINE Inv == CompetitionInv /\ \A d \in Dags : WorkInv(d)
<1>1. Init => Inv
  <2> SUFFICES ASSUME Init PROVE \A d \in Dags : WorkInv(d)
    BY CompetitionInit
  <2>1. \A d \in Dags : dag[d].at = "new" /\ \A v \in Variants : task[d][v].at = "none"
    BY Shapes DEF Init, NewDag
  <2>2. QED
    BY <2>1 DEF WorkInv
<1>2. Inv /\ [Next]_vars => Inv'
  BY CompetitionStep, WorkStep
<1>3. QED
  BY <1>1, <1>2, PTL DEF Spec

(* A DAG run has work to do until it ends, and none after.                 *)
THEOREM NeverIdle == Spec => []NeverWedged
<1>1. CompetitionInv /\ (\A d \in Dags : WorkInv(d)) => NeverWedged
  <2> SUFFICES ASSUME CompetitionTypeOK, NEW d \in Dags, WorkInv(d)
               PROVE  Active(d) <=> HasWork(d)
    BY DEF NeverWedged, CompetitionInv
  <2>1. CASE dag[d].at = "simulating"
    <3>1. \A v \in ToSet(dag[d].list) :
            v \in Variants /\ task[d][v].at \in {"ready", "inferring", "done", "failed"}
      BY <2>1, ListFacts, Fields DEF WorkInv
    <3>2. QED
      BY <2>1, <3>1 DEF HasWork, Joinable, Active
  <2>2. CASE dag[d].at # "simulating"
    BY <2>2 DEF WorkInv, HasWork, Joinable, Active
  <2>3. QED
    BY <2>1, <2>2
<1>2. QED
  BY <1>1, WorkInvariant, PTL

(* Every step of a DAG run uses up a try or takes it further, and none is  *)
(* taken after its end: a DAG run takes finitely many steps.               *)
THEOREM StepsCount == Spec => EveryStepCounts
<1> DEFINE Counts == \A d \in Dags : dag'[d] # dag[d] \/ task'[d] # task[d] =>
      /\ dag[d].at \notin {"success", "failed"}
      /\ DagAdvances(d) \/ \E v \in Variants : TaskAdvances(d, v)
<1>1. ASSUME CompetitionInv, \A d \in Dags : WorkInv(d), [Next]_vars
      PROVE  [Counts]_vars
  <2> SUFFICES ASSUME Next, NEW d \in Dags, dag'[d] # dag[d] \/ task'[d] # task[d]
               PROVE  /\ dag[d].at \notin {"success", "failed"}
                      /\ DagAdvances(d) \/ \E v \in Variants : TaskAdvances(d, v)
    BY <1>1
  <2>1. CASE dag'[d] # dag[d]
    BY <1>1, <2>1, StepOfDag DEF Active
  <2>2. CASE dag'[d] = dag[d] /\ task'[d] # task[d]
    BY <1>1, <2>2, StepOfTask DEF WorkInv
  <2>3. QED
    BY <2>1, <2>2
<1>2. QED
  BY <1>1, WorkInvariant, PTL DEF Spec, EveryStepCounts
=============================================================================
