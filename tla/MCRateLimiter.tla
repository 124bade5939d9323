--------------------------- MODULE MCRateLimiter ---------------------------
(***************************************************************************)
(* Instances of RateLimiter for TLC.                                       *)
(***************************************************************************)
EXTENDS RateLimiter, TLC

CONSTANTS w1, w2  \* workers

TwoWorkers == {w1, w2}
Symmetry == Permutations(Workers)
=============================================================================
