--------------------------- MODULE MCTokenBucket ---------------------------
(* Small instances of the token bucket of lab 17.                          *)
EXTENDS TokenBucket

(* Valid capacities below and above the default, and two that must be      *)
(* refused.                                                                *)
MCCapWrites == {-1, 0, 1, 3}

MCRateWrites == {0, 1, 3}
=============================================================================
