-------------------------- MODULE MCSimulationRuns --------------------------
(* Small instances of SimulationRuns for TLC: the runs of a configuration  *)
(* all name the first segment, except the last one.                        *)
EXTENDS SimulationRuns

CONSTANTS s1, s2, lastRun

MCSegmentOf == [r \in Runs |-> IF r = lastRun THEN s2 ELSE s1]
=============================================================================
