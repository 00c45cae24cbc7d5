-------------------------- MODULE MCSegmentTraining --------------------------
(* Instances of SegmentTraining for TLC.                                   *)
EXTENDS SegmentTraining
=============================================================================
