------------------------ MODULE TokenBucket_proofs ------------------------
(***************************************************************************)
(* Proofs about the token bucket of lab 17, for every set of writers, int  *)
(* width, default and written parameter value.                             *)
(***************************************************************************)
EXTENDS TokenBucket, TLAPS

-----------------------------------------------------------------------------
(* Arithmetic of the refill.                                               *)

(* int arithmetic stays an int, whatever the operands.                     *)
LEMMA WrapInt == ASSUME NEW x \in Int PROVE Wrap(x) \in Int32
  <1> DEFINE d == 2 * (INT_MAX + 1)
             y == x + INT_MAX + 1
  <1>1. INT_MAX \in Nat /\ d \in Nat /\ d > 0 /\ y \in Int
    BY TokenBucketAssumption
  <1>2. y % d \in 0..(d - 1)
    <2> HIDE DEF d, y
    <2> QED BY <1>1
  <1> QED BY <1>1, <1>2 DEF Wrap, Int32

(* A sum within the range of int is not changed by wrapping.               *)
LEMMA WrapIdentity == ASSUME NEW x \in Int32 PROVE Wrap(x) = x
  <1> DEFINE d == 2 * (INT_MAX + 1)
             y == x + INT_MAX + 1
  <1>1. INT_MAX \in Nat /\ d \in Nat /\ d > 0 /\ y \in 0..(d - 1)
    BY TokenBucketAssumption DEF Int32
  <1>2. y % d = y
    <2> HIDE DEF d, y
    <2> QED BY <1>1
  <1> QED BY <1>1, <1>2 DEF Wrap, Int32

-----------------------------------------------------------------------------
(* Every variable keeps its type, and capacity and refill_rate stay        *)
(* positive, whatever is written to them: the early returns of             *)
(* capacity_set() and refill_rate_set().                                   *)
THEOREM TypeCorrect == Spec => []TypeOK
  <1> USE TokenBucketAssumption
  <1>1. Init => TypeOK
    <2> SUFFICES ASSUME Init PROVE TypeOK
      OBVIOUS
    <2>1. refilled \in BOOLEAN /\ had_token \in [Writers -> BOOLEAN]
      BY Zenon DEF Init
    <2>2. /\ capacity_read \in Int32
          /\ tokens \in Int32
          /\ capacity \in 1..INT_MAX
          /\ refill_rate \in 1..INT_MAX
          /\ total_consumed \in 0..MaxWrites
          /\ total_rejected \in 0..MaxWrites
          /\ burst \in Nat
          /\ peak \in 1..INT_MAX
      BY DEF Init, Int32
    <2> QED
      BY <2>1, <2>2 DEF Init, TypeOK, Phases, Modes, timer_static, TimerFlags
  <1>2. TypeOK /\ [Next]_vars => TypeOK'
    <2> SUFFICES ASSUME TypeOK, [Next]_vars PROVE TypeOK'
      OBVIOUS
    <2> USE DEF params, counters, writers, ghosts
    <2>1. CASE Insmod
      <3>1. refilled' \in BOOLEAN /\ had_token' \in [Writers -> BOOLEAN]
        BY <2>1, Zenon DEF Insmod
      <3>2. /\ capacity_read' \in Int32
            /\ tokens' \in Int32
            /\ capacity' \in 1..INT_MAX
            /\ refill_rate' \in 1..INT_MAX
            /\ total_consumed' \in 0..MaxWrites
            /\ total_rejected' \in 0..MaxWrites
            /\ burst' \in Nat
            /\ peak' \in 1..INT_MAX
        BY <2>1 DEF Insmod, Int32
      <3> QED
        BY <2>1, <3>1, <3>2 DEF Insmod, TypeOK, Phases, Modes, timer_static,
                                TimerFlags
    <2>2. CASE ParamWrite
      <3>1. ASSUME NEW m \in Modes, mode_set(m) PROVE TypeOK'
        BY <3>1 DEF mode_set, TypeOK
      <3>2. ASSUME NEW c \in CapWrites, capacity_set(c) PROVE TypeOK'
        <4>1. c \in 1..INT_MAX
          BY <3>2 DEF capacity_set, param_positive
        <4> QED
          BY <3>2, <4>1 DEF capacity_set, TypeOK, clamp, min, max, Int32
      <3>3. ASSUME NEW r \in RateWrites, refill_rate_set(r) PROVE TypeOK'
        <4>1. r \in 1..INT_MAX
          BY <3>3 DEF refill_rate_set, param_positive
        <4> QED BY <3>3, <4>1 DEF refill_rate_set, TypeOK
      <3> QED BY <2>2, <3>1, <3>2, <3>3 DEF ParamWrite
    <2>3. CASE refill_fn
      <3>1. CASE refill_expire
        BY <3>1 DEF refill_expire, TypeOK, timer_expire, TimerFlags
      <3>2. CASE refill_update
        <4>1. Wrap(tokens + refill_rate) \in Int32
          BY WrapInt DEF TypeOK, Int32
        <4> QED
          BY <3>2, <4>1 DEF refill_update, refill, TypeOK, min, Int32
      <3>3. CASE refill_rearm
        BY <3>3 DEF refill_rearm, TypeOK, timer_return, mod_timer, TimerFlags
      <3> QED BY <2>3, <3>1, <3>2, <3>3 DEF refill_fn
    <2>4. ASSUME NEW w \in Writers,
                 consume_open(w) \/ consume_release(w) \/ consume_write(w)
          PROVE  TypeOK'
      <3>1. CASE consume_open(w)
        BY <3>1 DEF consume_open, TypeOK
      <3>2. CASE consume_release(w)
        BY <3>2 DEF consume_release, TypeOK
      <3>3. CASE consume_take(w)
        <4> DEFINE full == tokens > 0
        <4>0. full \in BOOLEAN
          BY DEF TypeOK, Int32
        <4>1. had_token' \in [Writers -> BOOLEAN]
          <5>1. had_token' = [had_token EXCEPT ![w] = full]
            BY <3>3 DEF consume_take
          <5> HIDE DEF full
          <5> QED BY <5>1, <4>0, Zenon DEF TypeOK
        <4>2. /\ tokens' \in Int32
              /\ burst' \in Nat
              /\ total_consumed' \in 0..MaxWrites
              /\ total_rejected' \in 0..MaxWrites
          BY <3>3 DEF consume_take, spend, TypeOK, Int32
        <4> QED BY <3>3, <4>1, <4>2 DEF consume_take, TypeOK
      <3>4. CASE consume_decide(w)
        <4>1. had_token' \in [Writers -> BOOLEAN]
          BY <3>4, Zenon DEF consume_decide, TypeOK
        <4>2. ret' \in [Writers -> {"none", "len", "EBUSY"}]
          BY <3>4 DEF consume_decide, TypeOK
        <4> QED BY <3>4, <4>1, <4>2 DEF consume_decide, TypeOK
      <3> QED BY <2>4, <3>1, <3>2, <3>3, <3>4 DEF consume_write
    <2>5. CASE token_bucket_init
      <3>1. CASE init_register
        BY <3>1 DEF init_register, TypeOK, Phases
      <3>2. CASE init_load_capacity
        BY <3>2 DEF init_load_capacity, TypeOK, Phases, Int32
      <3>3. CASE init_store_tokens
        BY <3>3 DEF init_store_tokens, TypeOK, Phases, Int32
      <3>4. CASE init_start_timer
        BY <3>4 DEF init_start_timer, TypeOK, Phases, mod_timer, timer_setup,
                    TimerFlags
      <3> QED BY <2>5, <3>1, <3>2, <3>3, <3>4 DEF token_bucket_init
    <2>6. CASE token_bucket_exit
      BY <2>6 DEF token_bucket_exit, exit_shutdown_timer, exit_timer_quiet,
                  exit_deregister, TypeOK, Phases, timer_shutdown, TimerFlags
    <2>7. CASE UNCHANGED vars
      BY <2>7 DEF vars, TypeOK
    <2> QED
      BY <2>1, <2>2, <2>3, <2>4, <2>5, <2>6, <2>7 DEF Next
  <1> QED BY <1>1, <1>2, PTL DEF Spec
-----------------------------------------------------------------------------
(* The life of the timer, with what makes UnloadQuiescent inductive.       *)

(* The timer is enqueued only while the module is live, its callback runs  *)
(* only until exit has waited for it, and exit has poisoned it: the        *)
(* re-arming of a callback that exit overtook has no effect.               *)
TimerLife ==
    /\ "armed" \in refill_timer => phase = "live"
    /\ "running" \in refill_timer => phase \in {"live", "going"}
    /\ phase \in {"going", "quiesced"} => "shut" \in refill_timer

(* The references taken by open files keep the module loaded.              *)
FilesClosed ==
    phase \in {"unloaded", "params", "going", "quiesced"} =>
        \A w \in Writers : pc[w] = "closed"

QuiescenceInv == TypeOK /\ TimerLife /\ FilesClosed

LEMMA QuiescenceInductive == Spec => []QuiescenceInv
  <1>1. Init => TimerLife /\ FilesClosed
    BY DEF Init, TimerLife, FilesClosed, timer_static
  <1>2. TypeOK /\ TimerLife /\ FilesClosed /\ [Next]_vars
            => TimerLife' /\ FilesClosed'
    <2> SUFFICES ASSUME TypeOK, TimerLife, FilesClosed, [Next]_vars
                 PROVE  TimerLife' /\ FilesClosed'
      OBVIOUS
    <2> USE DEF params, counters, writers, ghosts, TimerLife, FilesClosed
    <2>1. CASE Insmod
      BY <2>1 DEF Insmod, timer_static
    <2>2. CASE ParamWrite
      BY <2>2 DEF ParamWrite, mode_set, capacity_set, refill_rate_set
    <2>3. CASE refill_expire
      BY <2>3 DEF refill_expire, timer_can_expire, timer_expire
    <2>4. CASE refill_update
      BY <2>4 DEF refill_update
    <2>5. CASE refill_rearm
      BY <2>5 DEF refill_rearm, timer_return, mod_timer
    <2>6. ASSUME NEW w \in Writers,
                 consume_open(w) \/ consume_release(w) \/ consume_write(w)
          PROVE  TimerLife' /\ FilesClosed'
      <3>1. CASE consume_open(w)
        BY <3>1 DEF consume_open, DeviceOpenable, TypeOK
      <3>2. CASE consume_release(w)
        BY <3>2 DEF consume_release, TypeOK
      <3>3. CASE consume_take(w)
        BY <3>3 DEF consume_take, TypeOK
      <3>4. CASE consume_decide(w)
        BY <3>4 DEF consume_decide, TypeOK
      <3> QED BY <2>6, <3>1, <3>2, <3>3, <3>4 DEF consume_write
    <2>7. CASE token_bucket_init
      <3>1. CASE init_register
        BY <3>1 DEF init_register
      <3>2. CASE init_load_capacity
        BY <3>2 DEF init_load_capacity
      <3>3. CASE init_store_tokens
        BY <3>3 DEF init_store_tokens
      <3>4. CASE init_start_timer
        BY <3>4 DEF init_start_timer, mod_timer, timer_setup
      <3> QED BY <2>7, <3>1, <3>2, <3>3, <3>4 DEF token_bucket_init
    <2>8. CASE token_bucket_exit
      <3>1. CASE exit_shutdown_timer
        BY <3>1 DEF exit_shutdown_timer, timer_shutdown
      <3>2. CASE exit_timer_quiet
        BY <3>2 DEF exit_timer_quiet, timer_sync_done
      <3>3. CASE exit_deregister
        BY <3>3 DEF exit_deregister
      <3> QED BY <2>8, <3>1, <3>2, <3>3 DEF token_bucket_exit
    <2>9. CASE UNCHANGED vars
      BY <2>9 DEF vars
    <2> QED
      BY <2>1, <2>2, <2>3, <2>4, <2>5, <2>6, <2>7, <2>8, <2>9
      DEF Next, refill_fn
  <1> QED BY <1>1, <1>2, TypeCorrect, PTL DEF Spec, QuiescenceInv

(* After exit_timer_quiet no refill callback runs or will run, and no      *)
(* process is in the device's code, for any number of writers.             *)
THEOREM UnloadIsQuiescent == Spec => []UnloadQuiescent
  <1>1. QuiescenceInv => UnloadQuiescent
    BY DEF QuiescenceInv, TimerLife, FilesClosed, UnloadQuiescent,
           timer_quiesced
  <1> QED BY <1>1, QuiescenceInductive, PTL

-----------------------------------------------------------------------------
(* The bucket, when nobody writes parameters during init and no sum of a   *)
(* level and a rate leaves the range of int.                               *)

(* The parameters hold a value somebody chose.                             *)
ParamsChosen ==
    /\ capacity \in CapWrites \cup {DefaultCapacity}
    /\ refill_rate \in RateWrites \cup {DefaultRate}

(* init's load of capacity is still good when it is stored to tokens.      *)
LoadIsFresh == phase = "reading" => capacity_read = capacity

BucketInv ==
    TypeOK /\ ParamsChosen /\ LoadIsFresh /\ TokensInBucket /\ RateBound

(* What a refill yields: no wrap around, so at least the old level.        *)
LEMMA RefillBounds ==
    ASSUME NoOverflow, TypeOK, ParamsChosen, TokensInBucket, Up
    PROVE  /\ refill(tokens) = min(tokens + refill_rate, capacity)
           /\ refill(tokens) \in tokens..capacity
  <1>1. capacity + refill_rate <= INT_MAX
    BY DEF NoOverflow, ParamsChosen
  <1>2. tokens \in 0..capacity /\ capacity \in 1..INT_MAX
        /\ refill_rate \in 1..INT_MAX /\ INT_MAX \in Nat
    BY TokenBucketAssumption DEF TokensInBucket, tokens_get, TypeOK
  <1>3. tokens + refill_rate \in Int32
    BY <1>1, <1>2 DEF Int32
  <1>4. Wrap(tokens + refill_rate) = tokens + refill_rate
    BY <1>3, WrapIdentity
  <1> QED BY <1>2, <1>4 DEF refill, min
LEMMA BucketInductive ==
    ASSUME ~ParamsDuringInit, NoOverflow
    PROVE  Spec => []BucketInv
  <1> USE TokenBucketAssumption
  <1> DEFINE Rest == ParamsChosen /\ LoadIsFresh /\ TokensInBucket /\ RateBound
  <1>1. Init => Rest
    BY DEF Init, ParamsChosen, LoadIsFresh, TokensInBucket, RateBound, Up
  <1>2. TypeOK /\ Rest /\ [Next]_vars => Rest'
    <2> SUFFICES ASSUME TypeOK, Rest, [Next]_vars PROVE Rest'
      OBVIOUS
    <2> USE DEF params, counters, writers, ghosts, ParamsChosen, LoadIsFresh,
                TokensInBucket, RateBound, Up, tokens_get
    <2>0. /\ tokens \in Int /\ burst \in Nat /\ peak \in Nat
          /\ capacity \in Nat /\ refill_rate \in Nat
      BY DEF TypeOK, Int32
    <2>1. CASE Insmod
      BY <2>1 DEF Insmod
    <2>2. CASE ParamWrite
      <3>1. ASSUME NEW m \in Modes, mode_set(m) PROVE Rest'
        BY <3>1 DEF mode_set
      <3>2. ASSUME NEW c \in CapWrites, capacity_set(c) PROVE Rest'
        <4>1. c \in Nat /\ phase # "reading"
          BY <3>2 DEF capacity_set, param_positive, ParamWritable
        <4> QED
          BY <2>0, <3>2, <4>1 DEF capacity_set, clamp, min, max
      <3>3. ASSUME NEW r \in RateWrites, refill_rate_set(r) PROVE Rest'
        BY <3>3 DEF refill_rate_set
      <3> QED BY <2>2, <3>1, <3>2, <3>3 DEF ParamWrite
    <2>3. CASE refill_expire
      BY <2>3 DEF refill_expire
    <2>4. CASE refill_update
      <3>1. Up => refill(tokens) \in tokens..capacity
        BY RefillBounds
      <3> QED BY <2>0, <2>4, <3>1 DEF refill_update
    <2>5. CASE refill_rearm
      BY <2>5 DEF refill_rearm
    <2>6. ASSUME NEW w \in Writers,
                 consume_open(w) \/ consume_release(w) \/ consume_write(w)
          PROVE  Rest'
      <3>1. CASE consume_open(w)
        BY <3>1 DEF consume_open
      <3>2. CASE consume_release(w)
        BY <3>2 DEF consume_release
      <3>3. CASE consume_take(w)
        BY <2>0, <3>3 DEF consume_take, spend
      <3>4. CASE consume_decide(w)
        BY <3>4 DEF consume_decide
      <3> QED BY <2>6, <3>1, <3>2, <3>3, <3>4 DEF consume_write
    <2>7. CASE token_bucket_init
      <3>1. CASE init_register
        BY <3>1 DEF init_register
      <3>2. CASE init_load_capacity
        BY <3>2 DEF init_load_capacity
      <3>3. CASE init_store_tokens
        BY <2>0, <3>3 DEF init_store_tokens
      <3>4. CASE init_start_timer
        BY <3>4 DEF init_start_timer
      <3> QED BY <2>7, <3>1, <3>2, <3>3, <3>4 DEF token_bucket_init
    <2>8. CASE token_bucket_exit
      BY <2>8 DEF token_bucket_exit, exit_shutdown_timer, exit_timer_quiet,
                  exit_deregister
    <2>9. CASE UNCHANGED vars
      BY <2>9 DEF vars
    <2> QED
      BY <2>1, <2>2, <2>3, <2>4, <2>5, <2>6, <2>7, <2>8, <2>9
      DEF Next, refill_fn
  <1> QED BY <1>1, <1>2, TypeCorrect, PTL DEF Spec, BucketInv

(* The bucket never holds more than its capacity nor less than nothing,    *)
(* for any parameter values without overflow and any number of writers.    *)
THEOREM LevelStaysInBucket ==
    ASSUME ~ParamsDuringInit, NoOverflow
    PROVE  Spec => []TokensInBucket
  <1>1. BucketInv => TokensInBucket
    BY DEF BucketInv
  <1> QED BY <1>1, BucketInductive, PTL

(* The rate limit: between two ticks writers spend at most the largest     *)
(* capacity in force, however it is shrunk and grown in between.           *)
THEOREM RateIsLimited ==
    ASSUME ~ParamsDuringInit, NoOverflow
    PROVE  Spec => []RateBound
  <1>1. BucketInv => RateBound
    BY DEF BucketInv
  <1> QED BY <1>1, BucketInductive, PTL
(* The callback runs only while there is a bucket to fill.                 *)
LEMMA RunningIsUp ==
    ASSUME QuiescenceInv, "running" \in refill_timer PROVE Up
  BY DEF QuiescenceInv, TimerLife, Up

(* A tick of refill_fn() never leaves fewer tokens than it found.          *)
THEOREM RefillAdds ==
    ASSUME ~ParamsDuringInit, NoOverflow
    PROVE  Spec => RefillNeverDrains
  <1>1. BucketInv /\ QuiescenceInv /\ [Next]_vars
            => [refill_update => tokens' >= tokens]_vars
    <2> SUFFICES ASSUME BucketInv, QuiescenceInv, refill_update
                 PROVE  tokens' >= tokens
      OBVIOUS
    <2>1. Up
      BY RunningIsUp DEF refill_update
    <2>2. refill(tokens) \in tokens..capacity
      BY <2>1, RefillBounds DEF BucketInv
    <2> QED BY <2>2 DEF refill_update, BucketInv, TypeOK, Int32
  <1> QED
    BY <1>1, BucketInductive, QuiescenceInductive, PTL
    DEF Spec, RefillNeverDrains

-----------------------------------------------------------------------------
(* The bucket implements the atomic limiter of RateLimiter: every step of  *)
(* a writer, a parameter callback, the timer, init or exit is one atomic   *)
(* operation of the limiter or leaves it alone.                            *)
THEOREM BucketImplementsLimiter ==
    ASSUME ~ParamsDuringInit, NoOverflow
    PROVE  Spec => ImplementsLimiter
  <1> USE TokenBucketAssumption
  <1>1. Init => Limiter!Init
    BY DEF Init, Limiter!Init, Up
  <1>2. BucketInv /\ QuiescenceInv /\ [Next]_vars
            => [Limiter!Next]_(Limiter!vars)
    <2> SUFFICES ASSUME BucketInv, QuiescenceInv, [Next]_vars
                 PROVE  Limiter!Next \/ UNCHANGED Limiter!vars
      OBVIOUS
    <2> USE DEF params, counters, writers, ghosts, Limiter!vars
    <2>0. /\ tokens \in Int /\ burst \in Nat /\ peak \in Nat
          /\ capacity \in Nat \ {0} /\ refill_rate \in Nat
          /\ Up => tokens \in 0..capacity
      BY DEF BucketInv, TypeOK, TokensInBucket, tokens_get, Int32
    <2>1. CASE Insmod
      <3>1. Limiter!Reload
        BY <2>1 DEF Insmod, Limiter!Reload, Up
      <3> QED BY <3>1 DEF Limiter!Next
    <2>2. CASE ParamWrite
      <3>1. ASSUME NEW m \in Modes, mode_set(m)
            PROVE  UNCHANGED Limiter!vars
        BY <3>1 DEF mode_set, Up
      <3>2. ASSUME NEW c \in CapWrites, capacity_set(c) PROVE Limiter!Resize
        <4>1. c \in Nat \ {0}
          BY <3>2 DEF capacity_set, param_positive
        <4> QED
          BY <2>0, <3>2, <4>1
          DEF capacity_set, clamp, min, max, Limiter!Resize, Limiter!Lesser,
              Limiter!Larger, Up
      <3>3. ASSUME NEW r \in RateWrites, refill_rate_set(r)
            PROVE  Limiter!SetRate
        BY <2>0, <3>3 DEF refill_rate_set, param_positive, rate_accepted,
                          Limiter!SetRate, Up
      <3> QED BY <2>2, <3>1, <3>2, <3>3 DEF ParamWrite, Limiter!Next
    <2>3. CASE refill_expire \/ refill_rearm
      BY <2>3 DEF refill_expire, refill_rearm, Up
    <2>4. CASE refill_update
      <3>1. Up
        BY <2>4, RunningIsUp DEF refill_update
      <3>2. refill(tokens) = min(tokens + refill_rate, capacity)
        BY <3>1, RefillBounds DEF BucketInv
      <3>3. Limiter!Refill
        BY <2>0, <2>4, <3>1, <3>2
        DEF refill_update, min, Limiter!Refill, Limiter!Lesser, Up
      <3> QED BY <3>3 DEF Limiter!Next
    <2>5. ASSUME NEW w \in Writers, consume_open(w) \/ consume_release(w)
          PROVE  UNCHANGED Limiter!vars
      BY <2>5 DEF consume_open, consume_release, Up
    <2>6. ASSUME NEW w \in Writers, consume_take(w)
          PROVE  Limiter!Take \/ UNCHANGED Limiter!vars
      <3>1. CASE Up /\ tokens > 0
        BY <2>0, <2>6, <3>1 DEF consume_take, spend, Limiter!Take, Up
      <3>2. CASE ~(Up /\ tokens > 0)
        BY <2>0, <2>6, <3>2 DEF consume_take, Up
      <3> QED BY <3>1, <3>2
    <2>7. ASSUME NEW w \in Writers, consume_decide(w)
          PROVE  UNCHANGED Limiter!vars
      BY <2>7 DEF consume_decide, Up
    <2>8. CASE init_register \/ init_load_capacity \/ init_start_timer
      BY <2>8 DEF init_register, init_load_capacity, init_start_timer, Up
    <2>9. CASE init_store_tokens
      <3>1. Limiter!Start
        BY <2>0, <2>9 DEF init_store_tokens, BucketInv, LoadIsFresh,
                          Limiter!Start, Up
      <3> QED BY <3>1 DEF Limiter!Next
    <2>10. CASE exit_shutdown_timer \/ exit_timer_quiet
      BY <2>10 DEF exit_shutdown_timer, exit_timer_quiet, Up
    <2>11. CASE exit_deregister
      <3>1. Limiter!Stop
        BY <2>11 DEF exit_deregister, Limiter!Stop, Up
      <3> QED BY <3>1 DEF Limiter!Next
    <2>12. CASE UNCHANGED vars
      BY <2>12 DEF vars, Up
    <2> QED
      BY <2>1, <2>2, <2>3, <2>4, <2>5, <2>6, <2>7, <2>8, <2>9, <2>10, <2>11,
         <2>12
      DEF Next, refill_fn, consume_write, token_bucket_init,
          token_bucket_exit, Limiter!Next
  <1> QED
    BY <1>1, <1>2, BucketInductive, QuiescenceInductive, PTL
    DEF Spec, ImplementsLimiter, Limiter!Spec

-----------------------------------------------------------------------------
(* While the module is loaded the timer is armed or its callback runs, and *)
(* mod_timer() will not be refused.                                        *)
RefillKept ==
    phase = "live" =>
        /\ "shut" \notin refill_timer
        /\ refill_timer \cap {"armed", "running"} # {}

(* refill_fn() arms its timer in every run, whatever is written to the     *)
(* parameters: a tick is always ahead until exit shuts the timer down.     *)
THEOREM RefillIsKept == Spec => []RefillKept
  <1>1. Init => RefillKept
    BY DEF Init, RefillKept
  <1>2. ASSUME RefillKept, [Next]_vars PROVE RefillKept'
    <2>1. ASSUME UNCHANGED <<phase, refill_timer>> PROVE RefillKept'
      BY <1>2, <2>1 DEF RefillKept
    <2>2. CASE refill_fn
      <3>1. CASE refill_expire
        BY <1>2, <3>1 DEF refill_expire, timer_expire, RefillKept
      <3>2. CASE refill_update
        BY <2>1, <3>2 DEF refill_update
      <3>3. CASE refill_rearm
        BY <1>2, <3>3 DEF refill_rearm, timer_return, mod_timer, RefillKept
      <3> QED BY <2>2, <3>1, <3>2, <3>3 DEF refill_fn
    <2>3. CASE init_start_timer
      BY <2>3 DEF init_start_timer, mod_timer, timer_setup, RefillKept
    <2>4. CASE Insmod \/ init_register \/ init_load_capacity
               \/ init_store_tokens \/ token_bucket_exit
      BY <2>4 DEF Insmod, init_register, init_load_capacity,
                  init_store_tokens, token_bucket_exit, exit_shutdown_timer,
                  exit_timer_quiet, exit_deregister, RefillKept
    <2>5. CASE ParamWrite
      BY <2>1, <2>5 DEF ParamWrite, mode_set, capacity_set, refill_rate_set
    <2>6. CASE \E w \in Writers :
                  consume_open(w) \/ consume_release(w) \/ consume_write(w)
      BY <2>1, <2>6 DEF consume_open, consume_release, consume_write,
                        consume_take, consume_decide
    <2>7. CASE UNCHANGED vars
      BY <2>1, <2>7 DEF vars
    <2> QED BY <1>2, <2>2, <2>3, <2>4, <2>5, <2>6, <2>7
           DEF Next, token_bucket_init
  <1> QED BY <1>1, <1>2, PTL DEF Spec
=============================================================================
