\* The schema of the migrations.
SPECIFICATION FairSpec
CONSTANTS
  Variants = {v1, v2}
  Dags = {d1, d2}
  Scores = {1, 2}
  MaxTries = 2
  MaxFaults = 0
  Edited = FALSE
  OrgIdNullable = FALSE
PROPERTY CompetitionSucceeds
CHECK_DEADLOCK FALSE
