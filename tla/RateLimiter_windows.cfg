\* Four calls, a limit of one a minute, minutes of two ticks.
SPECIFICATION LimiterSpec
CONSTANTS
  Calls = {a, b, c, d}
  Limit = 1
  Window = 2
  MaxTime = 6
SYMMETRY AnyOrder
INVARIANTS WithinLimit RefusedWhenFull CountersExpire
CHECK_DEADLOCK FALSE
