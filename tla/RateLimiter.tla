---------------------------- MODULE RateLimiter ----------------------------
(***************************************************************************)
(* What the token bucket of lab 17 promises: a bucket of at most cap       *)
(* tokens, one taken per granted request, rate added per tick, everything  *)
(* atomic and over unbounded integers.  The ghost window counts grants     *)
(* since the last tick, peak is the largest cap in force since then.       *)
(***************************************************************************)
EXTENDS Integers

CONSTANTS Cap0,    \* cap when the module is loaded
          Rate0    \* rate when the module is loaded

VARIABLES up, level, cap, rate, window, peak

vars == <<up, level, cap, rate, window, peak>>

Lesser(a, b) == IF a <= b THEN a ELSE b

Larger(a, b) == IF a >= b THEN a ELSE b

Init ==
    /\ up = FALSE
    /\ level = 0
    /\ cap = Cap0
    /\ rate = Rate0
    /\ window = 0
    /\ peak = Cap0

(* The limiter is loaded afresh, with its default parameters.              *)
Reload ==
    /\ ~up
    /\ cap' = Cap0
    /\ rate' = Rate0
    /\ peak' = Cap0
    /\ UNCHANGED <<up, level, window>>

Start ==
    /\ ~up
    /\ up' = TRUE
    /\ level' = cap
    /\ window' = 0
    /\ peak' = cap
    /\ UNCHANGED <<cap, rate>>

Stop ==
    /\ up
    /\ up' = FALSE
    /\ level' = 0
    /\ window' = 0
    /\ UNCHANGED <<cap, rate, peak>>

Take ==
    /\ up
    /\ level > 0
    /\ level' = level - 1
    /\ window' = window + 1
    /\ UNCHANGED <<up, cap, rate, peak>>

Refill ==
    /\ up
    /\ level' = Lesser(level + rate, cap)
    /\ window' = 0
    /\ peak' = cap
    /\ UNCHANGED <<up, cap, rate>>

Resize ==
    /\ cap' \in Nat \ {0}
    /\ level' = Lesser(level, cap')
    /\ peak' = Larger(peak, cap')
    /\ UNCHANGED <<up, rate, window>>

SetRate ==
    /\ rate' \in 1..cap
    /\ UNCHANGED <<up, level, cap, window, peak>>

Next == Reload \/ Start \/ Stop \/ Take \/ Refill \/ Resize \/ SetRate

Spec == Init /\ [][Next]_vars
=============================================================================
