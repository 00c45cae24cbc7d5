----------------------------- MODULE MCRateLimiter -----------------------------
(* Instances of RateLimiter for TLC.                                       *)
EXTENDS RateLimiter, TLC

AnyOrder == Permutations(Calls)
=============================================================================
