\* A fair stream opened early.
SPECIFICATION FairReaders
CONSTANTS
  Runs = {r1}
  Gets = {}
  Views = {v1}
  Answers = {1}
  NoAnswer = 0
  MaxFaults = 0
PROPERTY StreamReachesTerminal
CHECK_DEADLOCK FALSE
