--------------------------- MODULE MCRateLimiter ---------------------------
(* Instances of RateLimiter for TLC: one replica fails closed, one open.   *)
EXTENDS RateLimiter

CONSTANTS p1, p2
=============================================================================
