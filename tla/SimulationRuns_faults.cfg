\* A queued and a synchronous run, faults of each kind, fair workers. The
\* crashes to come are chosen at the start: with two, arq may drop the job.
SPECIFICATION FairSpec
CONSTANTS
  s1 = s1
  s2 = s2
  lastRun = r2
  Runs = {r1, r2}
  SyncRuns = {r2}
  Segments = {s1, s2}
  SegmentOf <- MCSegmentOf
  Workers = {w1, w2}
  MaxTries = 3
  MaxCrashes = 2
  MaxSlow = 1
  MaxErrors = 1
INVARIANTS ErasedStaysErased RowsHaveSegment StuckRunExplained
PROPERTIES SettledIsFinal ImplementsLifecycle WaitingRunSettles
CHECK_DEADLOCK FALSE
