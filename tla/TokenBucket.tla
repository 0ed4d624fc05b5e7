---------------------------- MODULE TokenBucket ----------------------------
(***************************************************************************)
(* Lab 17, src/17_advanced_module_params/token_bucket.c: a token-bucket    *)
(* rate limiter driven by module parameters, a timer (softirq) and write() *)
(* on /dev/token_bucket_consume, from loading to unloading.                *)
(*                                                                         *)
(* A section under bucket_lock is one action; what the code does outside   *)
(* the lock is a step of its own.  The kernel serialises the parameter     *)
(* callbacks of a module (kernel_param_lock), so each of them is atomic    *)
(* here too.                                                               *)
(***************************************************************************)
EXTENDS Integers, FiniteSets, KernelTimer

CONSTANTS
    Writers,           \* processes that open and write the device
    INT_MAX,           \* largest int; the kernel is built so that int wraps
    CapWrites,         \* ints written to the capacity parameter
    RateWrites,        \* ints written to the refill_rate parameter
    DefaultCapacity,   \* the initialiser of capacity
    DefaultRate,       \* the initialiser of refill_rate
    MaxWrites,         \* bound: writes per load of the module
    ParamsDuringInit   \* does anyone write parameters while init runs?

ASSUME TokenBucketAssumption ==
    /\ INT_MAX \in Nat \ {0}
    /\ CapWrites \subseteq -(INT_MAX + 1)..INT_MAX
    /\ RateWrites \subseteq -(INT_MAX + 1)..INT_MAX
    /\ DefaultCapacity \in 1..INT_MAX
    /\ DefaultRate \in 1..DefaultCapacity
    /\ MaxWrites \in Nat
    /\ ParamsDuringInit \in BOOLEAN

VARIABLES
    phase,             \* where the module is in its life
    capacity_read,     \* init's load of capacity, before its store to tokens
    tokens, capacity, refill_rate, mode,
    total_consumed, total_rejected,
    refill_timer,
    refilled,          \* refill_fn has updated tokens but not re-armed yet
    pc,                \* per writer: "closed", "open", or "decide" in a write
    had_token,         \* per writer: the local of consume_write, FALSE outside
    ret,               \* per writer: the last result of write()
    burst,             \* ghost: tokens spent since the last refill
    peak               \* ghost: largest capacity in force since then

params == <<capacity, refill_rate, mode>>
counters == <<total_consumed, total_rejected>>
writers == <<pc, had_token, ret>>
ghosts == <<burst, peak>>
vars == <<phase, capacity_read, tokens, params, counters, refill_timer,
          refilled, writers, ghosts>>

Modes == {"off", "monitor", "enforce"}

Phases == {"unloaded",    \* not in the kernel
           "params",      \* load_module(): insmod arguments are being parsed
           "registered",  \* init: misc_register() done
           "reading",     \* init: capacity loaded for tokens = capacity
           "filled",      \* init: tokens stored
           "live",        \* init returned
           "going",       \* exit: timer poisoned, waiting for its callback
           "quiesced"}    \* exit: timer_shutdown_sync() returned

Int32 == -(INT_MAX + 1)..INT_MAX

(* int arithmetic of the kernel build: wraps around                        *)
Wrap(x) == ((x + INT_MAX + 1) % (2 * (INT_MAX + 1))) - (INT_MAX + 1)

min(a, b) == IF a <= b THEN a ELSE b

max(a, b) == IF a >= b THEN a ELSE b

(* The bucket has been filled by init and not yet been given up by exit.   *)
Up == phase \in {"filled", "live", "going", "quiesced"}

(* An open fails before misc_register() and once the module is going.      *)
DeviceOpenable == phase \in {"registered", "reading", "filled", "live"}

-----------------------------------------------------------------------------
Init ==
    /\ phase = "unloaded"
    /\ capacity_read = 0
    /\ tokens = 0
    /\ capacity = DefaultCapacity
    /\ refill_rate = DefaultRate
    /\ mode = "monitor"
    /\ total_consumed = 0
    /\ total_rejected = 0
    /\ refill_timer = timer_static
    /\ refilled = FALSE
    /\ pc = [w \in Writers |-> "closed"]
    /\ had_token = [w \in Writers |-> FALSE]
    /\ ret = [w \in Writers |-> "none"]
    /\ burst = 0
    /\ peak = DefaultCapacity

(* insmod: the module's statics come back with their initialisers.         *)
Insmod ==
    /\ phase = "unloaded"
    /\ phase' = "params"
    /\ capacity_read' = 0
    /\ tokens' = 0
    /\ capacity' = DefaultCapacity
    /\ refill_rate' = DefaultRate
    /\ mode' = "monitor"
    /\ total_consumed' = 0
    /\ total_rejected' = 0
    /\ refill_timer' = timer_static
    /\ refilled' = FALSE
    /\ had_token' = [w \in Writers |-> FALSE]
    /\ ret' = [w \in Writers |-> "none"]
    /\ burst' = 0
    /\ peak' = DefaultCapacity
    /\ UNCHANGED pc

-----------------------------------------------------------------------------
(* Parameter callbacks: insmod arguments first, sysfs writes later.        *)

(* mutant: zero passes the check                                           *)
param_not_negative(n) == n >= 0

(* the early return of capacity_set() and refill_rate_set()                *)
param_positive(n) == n > 0

(* mutant: the live clamp is missing                                       *)
clamp_missing(t, cap) == t

clamp(t, cap) == min(t, cap)

(* mutant: compared with the wrong bound                                   *)
rate_accepted_off_by_one(r) == r <= capacity + 1

rate_accepted(r) == r <= capacity

ParamWritable ==
    \/ phase \in {"params", "live", "going", "quiesced"}
    \/ ParamsDuringInit /\ phase \in {"registered", "reading", "filled"}

mode_set(m) ==
    /\ ParamWritable
    /\ m \in Modes
    /\ mode' = m
    /\ UNCHANGED <<phase, capacity_read, tokens, capacity, refill_rate,
                   counters, refill_timer, refilled, writers, ghosts>>

capacity_set(new_cap) ==
    /\ ParamWritable
    /\ param_positive(new_cap)
    /\ capacity' = new_cap
    /\ tokens' = clamp(tokens, new_cap)
    /\ peak' = max(peak, new_cap)
    /\ UNCHANGED <<phase, capacity_read, refill_rate, mode, counters,
                   refill_timer, refilled, writers, burst>>

refill_rate_set(new_rate) ==
    /\ ParamWritable
    /\ param_positive(new_rate)
    /\ rate_accepted(new_rate)
    /\ refill_rate' = new_rate
    /\ UNCHANGED <<phase, capacity_read, tokens, capacity, mode, counters,
                   refill_timer, refilled, writers, ghosts>>

-----------------------------------------------------------------------------
(* refill_fn(): the expired timer runs, adds tokens, re-arms itself.       *)

refill(t) == min(Wrap(t + refill_rate), capacity)

refill_expire ==
    /\ timer_can_expire(refill_timer)
    /\ refill_timer' = timer_expire(refill_timer)
    /\ refilled' = FALSE
    /\ UNCHANGED <<phase, capacity_read, tokens, params, counters, writers,
                   ghosts>>

refill_update ==
    /\ "running" \in refill_timer
    /\ ~refilled
    /\ tokens' = refill(tokens)
    /\ refilled' = TRUE
    /\ burst' = 0
    /\ peak' = capacity
    /\ UNCHANGED <<phase, capacity_read, params, counters, refill_timer,
                   writers>>

(* mutant: the callback forgets to re-arm its timer                        *)
refill_return ==
    /\ "running" \in refill_timer
    /\ refilled
    /\ refill_timer' = timer_return(refill_timer)
    /\ UNCHANGED <<phase, capacity_read, tokens, params, counters, refilled,
                   writers, ghosts>>

refill_rearm ==
    /\ "running" \in refill_timer
    /\ refilled
    /\ refill_timer' = timer_return(mod_timer(refill_timer))
    /\ UNCHANGED <<phase, capacity_read, tokens, params, counters, refilled,
                   writers, ghosts>>

-----------------------------------------------------------------------------
(* The device: open() takes a module reference until close().              *)

consume_open(w) ==
    /\ DeviceOpenable
    /\ pc[w] = "closed"
    /\ pc' = [pc EXCEPT ![w] = "open"]
    /\ UNCHANGED <<phase, capacity_read, tokens, params, counters,
                   refill_timer, refilled, had_token, ret, ghosts>>

consume_release(w) ==
    /\ pc[w] = "open"
    /\ pc' = [pc EXCEPT ![w] = "closed"]
    /\ ret' = [ret EXCEPT ![w] = "none"]
    /\ UNCHANGED <<phase, capacity_read, tokens, params, counters,
                   refill_timer, refilled, had_token, ghosts>>

(* mutant: the token is checked but not spent                              *)
spend_nothing(t) == t

spend(t) == t - 1

(* consume_write() under bucket_lock                                       *)
consume_take(w) ==
    /\ pc[w] = "open"
    /\ total_consumed + total_rejected < MaxWrites
    /\ pc' = [pc EXCEPT ![w] = "decide"]
    /\ had_token' = [had_token EXCEPT ![w] = tokens > 0]
    /\ IF tokens > 0
       THEN /\ tokens' = spend(tokens)
            /\ total_consumed' = total_consumed + 1
            /\ burst' = burst + 1
            /\ UNCHANGED total_rejected
       ELSE /\ total_rejected' = total_rejected + 1
            /\ UNCHANGED <<tokens, total_consumed, burst>>
    /\ UNCHANGED <<phase, capacity_read, params, refill_timer, refilled, ret,
                   peak>>

(* consume_write() after the unlock: mode is read without the lock         *)
consume_decide(w) ==
    /\ pc[w] = "decide"
    /\ pc' = [pc EXCEPT ![w] = "open"]
    /\ ret' = [ret EXCEPT ![w] =
                 IF ~had_token[w] /\ mode = "enforce" THEN "EBUSY" ELSE "len"]
    /\ had_token' = [had_token EXCEPT ![w] = FALSE]
    /\ UNCHANGED <<phase, capacity_read, tokens, params, counters,
                   refill_timer, refilled, ghosts>>

-----------------------------------------------------------------------------
(* token_bucket_init() and token_bucket_exit()                             *)

init_register ==
    /\ phase = "params"
    /\ phase' \in {"registered", "unloaded"}
    /\ UNCHANGED <<capacity_read, tokens, params, counters, refill_timer,
                   refilled, writers, ghosts>>

init_load_capacity ==
    /\ phase = "registered"
    /\ phase' = "reading"
    /\ capacity_read' = capacity
    /\ UNCHANGED <<tokens, params, counters, refill_timer, refilled, writers,
                   ghosts>>

init_store_tokens ==
    /\ phase = "reading"
    /\ phase' = "filled"
    /\ tokens' = capacity_read
    /\ capacity_read' = 0
    /\ burst' = 0
    /\ peak' = capacity
    /\ UNCHANGED <<params, counters, refill_timer, refilled, writers>>

init_start_timer ==
    /\ phase = "filled"
    /\ phase' = "live"
    /\ refill_timer' = mod_timer(timer_setup)
    /\ UNCHANGED <<capacity_read, tokens, params, counters, refilled, writers,
                   ghosts>>

(* rmmod succeeds only while no file of the device is open.                *)
exit_shutdown_timer ==
    /\ phase = "live"
    /\ \A w \in Writers : pc[w] = "closed"
    /\ phase' = "going"
    /\ refill_timer' = timer_shutdown(refill_timer)
    /\ UNCHANGED <<capacity_read, tokens, params, counters, refilled, writers,
                   ghosts>>

exit_timer_quiet ==
    /\ phase = "going"
    /\ timer_sync_done(refill_timer)
    /\ phase' = "quiesced"
    /\ UNCHANGED <<capacity_read, tokens, params, counters, refill_timer,
                   refilled, writers, ghosts>>

exit_deregister ==
    /\ phase = "quiesced"
    /\ phase' = "unloaded"
    /\ UNCHANGED <<capacity_read, tokens, params, counters, refill_timer,
                   refilled, writers, ghosts>>

-----------------------------------------------------------------------------
ParamWrite ==
    \/ \E m \in Modes : mode_set(m)
    \/ \E c \in CapWrites : capacity_set(c)
    \/ \E r \in RateWrites : refill_rate_set(r)

refill_fn == refill_expire \/ refill_update \/ refill_rearm

consume_write(w) == consume_take(w) \/ consume_decide(w)

token_bucket_init ==
    \/ init_register
    \/ init_load_capacity
    \/ init_store_tokens
    \/ init_start_timer

token_bucket_exit ==
    \/ exit_shutdown_timer
    \/ exit_timer_quiet
    \/ exit_deregister

Next ==
    \/ Insmod
    \/ ParamWrite
    \/ refill_fn
    \/ \E w \in Writers :
          consume_open(w) \/ consume_release(w) \/ consume_write(w)
    \/ token_bucket_init
    \/ token_bucket_exit

(* Timer interrupts keep coming, and the callback never sleeps.            *)
Fairness == WF_vars(refill_fn)

Spec == Init /\ [][Next]_vars

FairSpec == Spec /\ Fairness
-----------------------------------------------------------------------------
(* Every variable holds a value of its C type; capacity and refill_rate    *)
(* are positive, whatever was written to them.                             *)
TypeOK ==
    /\ phase \in Phases
    /\ capacity_read \in Int32
    /\ tokens \in Int32
    /\ capacity \in 1..INT_MAX
    /\ refill_rate \in 1..INT_MAX
    /\ mode \in Modes
    /\ total_consumed \in 0..MaxWrites
    /\ total_rejected \in 0..MaxWrites
    /\ refill_timer \subseteq TimerFlags
    /\ refilled \in BOOLEAN
    /\ pc \in [Writers -> {"closed", "open", "decide"}]
    /\ had_token \in [Writers -> BOOLEAN]
    /\ ret \in [Writers -> {"none", "len", "EBUSY"}]
    /\ burst \in Nat
    /\ peak \in 1..INT_MAX

(* tokens_get(): what a read of tokens_available returns                   *)
tokens_get == tokens

(* The bucket never holds more than its capacity nor less than nothing:    *)
(* capacity_set() clamps tokens in the critical section that shrinks       *)
(* capacity, whatever refill_fn() and consume_write() do around it.        *)
TokensInBucket == Up => tokens_get \in 0..capacity

(* The rate limit itself: between two refills no more tokens are spent     *)
(* than the largest capacity in force, however capacity_set() is used to   *)
(* shrink and grow the bucket in between.                                  *)
RateBound == Up => burst + tokens <= peak

(* refill_fn() adds tokens: a tick never leaves fewer than it found        *)
(* ("tokens added per tick", token_bucket.c:142 and :174).                 *)
RefillNeverDrains == [][refill_update => tokens' >= tokens]_vars

(* Once the module is gone, its timer neither runs nor is armed, and no    *)
(* process is inside the device's code: timer_shutdown_sync() against a    *)
(* callback that re-arms itself, rmmod against open files.                 *)
UnloadQuiescent ==
    phase \in {"unloaded", "quiesced"} =>
        /\ timer_quiesced(refill_timer)
        /\ \A w \in Writers : pc[w] = "closed"

(* A drained bucket is refilled: the timer keeps re-arming itself until    *)
(* the module is unloaded.                                                 *)
EventuallyRefilled ==
    (phase = "live" /\ tokens <= 0) ~> (tokens > 0 \/ phase # "live")

-----------------------------------------------------------------------------
(* The bucket as an atomic limiter; it has no level while it is not Up.    *)
Limiter == INSTANCE RateLimiter WITH
    Cap0   <- DefaultCapacity,
    Rate0  <- DefaultRate,
    up     <- Up,
    level  <- IF Up THEN tokens ELSE 0,
    cap    <- capacity,
    rate   <- refill_rate,
    window <- IF Up THEN burst ELSE 0,
    peak   <- peak

(* The bucket implements the limiter: concurrent writers, parameter        *)
(* writes and the timer behave as atomic operations on unbounded numbers.  *)
ImplementsLimiter == Limiter!Spec

(* No sum of a bucket level and a refill rate leaves the range of int.     *)
NoOverflow ==
    \A c \in CapWrites \cup {DefaultCapacity} :
        \A r \in RateWrites \cup {DefaultRate} : c + r <= INT_MAX
=============================================================================
