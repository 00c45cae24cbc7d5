------------------------- MODULE MCSimulationPipeline -------------------------
EXTENDS SimulationPipeline
MCCallers == {"dag", "job"}
MCKeyOf == [dag |-> "prompt", job |-> "prompt"]
MCRunOf == [dag |-> "run", job |-> "run"]
=============================================================================
