\* The same, and nothing interrupts them.
SPECIFICATION Spec
CONSTANTS
  Callers <- MCCallers
  Keys = {"prompt"}
  KeyOf <- MCKeyOf
  Pipelines = {"dag"}
  Jobs = {"job"}
  Runs = {"run"}
  RunOf <- MCRunOf
  Retries = 2
  MaxTries = 2
  MaxFaults = 0
INVARIANT FailsAfterAsking
CHECK_DEADLOCK FALSE
