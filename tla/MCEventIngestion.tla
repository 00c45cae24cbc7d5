--------------------------- MODULE MCEventIngestion ---------------------------
(* Two consumers, two purchases of one partition and an event of another.  *)
EXTENDS EventIngestion

CONSTANTS p1, p2, other, otherTopic

MCTopicOf == [e \in Events |-> IF e = other THEN otherTopic ELSE "purchases"]
Symmetry  == Permutations(Consumers)
=============================================================================
