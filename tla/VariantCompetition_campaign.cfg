\* Two DAG runs, one failure, edits.
SPECIFICATION Spec
CONSTANTS
  Variants = {v1, v2}
  Dags = {d1, d2}
  Scores = {1, 2}
  MaxTries = 2
  MaxFaults = 1
  Edited = TRUE
  OrgIdNullable = TRUE
SYMMETRY Symmetry
INVARIANTS RunBacksScore RanksFollowScores NeverWedged
PROPERTIES ScoreGivenOnce EveryStepCounts
CHECK_DEADLOCK FALSE
