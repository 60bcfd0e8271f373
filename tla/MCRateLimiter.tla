--------------------------- MODULE MCRateLimiter ---------------------------
(***************************************************************************)
(* A small instance of RateLimiter for TLC: windows that differ between    *)
(* the two limiters.                                                       *)
(***************************************************************************)
EXTENDS RateLimiter

SmallLimit  == [l \in Limiter |-> 2]
SmallWindow == [l \in Limiter |-> IF l = "auth" THEN 3 ELSE 2]
=============================================================================
