\* A GET and a card beside a run that may be disturbed.
SPECIFICATION FairReaders
CONSTANTS
  Runs = {r1}
  Gets = {g1}
  Views = {v1}
  Answers = {1}
  NoAnswer = 0
  MaxFaults = 1
INVARIANTS GetIsFresh ReportIsTrue
PROPERTY LateViewReports
CHECK_DEADLOCK FALSE
