------------------------ MODULE MCVariantCompetition ------------------------
(* Small instances of VariantCompetition for TLC.                          *)
EXTENDS VariantCompetition, TLC

Symmetry == Permutations(Dags) \cup Permutations(Variants)
=============================================================================
