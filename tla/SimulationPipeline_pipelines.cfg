\* A DAG run and the job of the same run, whose prompts are equal as the
\* segment has no users yet.
SPECIFICATION FairSpec
CONSTANTS
  Callers <- MCCallers
  Keys = {"prompt"}
  KeyOf <- MCKeyOf
  Pipelines = {"dag"}
  Jobs = {"job"}
  Runs = {"run"}
  RunOf <- MCRunOf
  Retries = 2
  MaxTries = 2
  MaxFaults = 2
INVARIANTS
  UnreadableForCause
  PaidOnce
  StoredAnswerIsTrue
  DoneMeansStored
  FailsForCause
PROPERTIES
  SettledForGood
  RunsKeepLifecycle
  AllEnd
CHECK_DEADLOCK FALSE
