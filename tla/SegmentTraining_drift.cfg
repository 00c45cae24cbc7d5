\* One segment, two edits, two trainings at a time, two events.
SPECIFICATION FairSpec
CONSTANTS
  Segments = {s1}
  Edits = {e1, e2}
  DagRuns = {d1, d2}
  Retries = 1
  MaxEvents = 2
INVARIANTS UnflaggedIsCurrent TrainedHasEmbedding
PROPERTY FlaggedIsRetrained
CHECK_DEADLOCK FALSE
