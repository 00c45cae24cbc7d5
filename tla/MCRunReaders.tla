---------------------------- MODULE MCRunReaders ----------------------------
(* Small instances of RunReaders for TLC: the sets of their configurations *)
(* are too small for symmetry to pay.                                      *)
EXTENDS RunReaders
=============================================================================
