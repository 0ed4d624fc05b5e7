------------------------------ MODULE RaceDemo ------------------------------
(***************************************************************************)
(* Lab 11, src/11_concurrency_locking/concurrency_locking.c: write() on    *)
(* /dev/race_demo increments a counter once per byte, in one of four modes *)
(* that sysfs switches at run time; "reset" zeroes the counters.           *)
(*                                                                         *)
(* counter_plain++ is a load and a store, locked or not, and so is         *)
(* reset_count++; only atomic64_inc() is one step.                         *)
(***************************************************************************)
EXTENDS Naturals, FiniteSets

CONSTANTS
    Writers,                    \* processes in race_write()
    Resetters,                  \* processes that write "reset"
    Counts,                     \* byte counts that are written
    MAX_INCREMENTS_PER_WRITE,
    FREE,                       \* nobody holds the lock
    MaxWrites,                  \* bound: calls of write() per load
    MaxResets, MaxSwitches      \* bounds: writes of "reset" and of "mode"

VARIABLES
    loaded,
    mode, counter_plain, counter_atomic, reset_count,
    counter_spinlock, counter_mutex,
    writer,                     \* per writer: its place and its locals
    resetter,                   \* per resetter: its place and its load
    calls,                      \* calls begun so far, for the bounds
    trial                       \* ghost: what has happened since a reset

counters == <<counter_plain, counter_atomic>>
locks == <<counter_spinlock, counter_mutex>>
vars == <<loaded, mode, counters, reset_count, locks, writer, resetter, calls,
          trial>>

Modes == {"none", "spinlock", "mutex", "atomic"}

(* n, i: of race_write(); tmp: what increment_once() has loaded            *)
IdleWriter == [pc |-> "idle", n |-> 0, i |-> 0, tmp |-> 0]

IdleResetter == [pc |-> "idle", tmp |-> 0]

(* A reset begins a trial.  written: the bytes that race_write() has       *)
(* accepted since; fair: no write overlapped the reset, and the mode has   *)
(* not changed since the first write.                                      *)
NoTrial == [written |-> 0, fair |-> FALSE]

Init ==
    /\ loaded = FALSE
    /\ mode = "none"
    /\ counter_plain = 0
    /\ counter_atomic = 0
    /\ reset_count = 0
    /\ counter_spinlock = FREE
    /\ counter_mutex = FREE
    /\ writer = [w \in Writers |-> IdleWriter]
    /\ resetter = [r \in Resetters |-> IdleResetter]
    /\ calls = [write |-> 0, reset |-> 0, mode |-> 0]
    /\ trial = NoTrial

WriterSet(w, new) == writer' = [writer EXCEPT ![w] = new]

WriterGoto(w, from, to) ==
    /\ writer[w].pc = from
    /\ WriterSet(w, [writer[w] EXCEPT !.pc = to])

WritersIdle == \A w \in Writers : writer[w].pc = "idle"

ResettersIdle == \A r \in Resetters : resetter[r].pc = "idle"

-----------------------------------------------------------------------------
(* increment_once(): READ_ONCE(mode), then lock, load and store            *)

more(w) == writer[w].i < writer[w].n

increment_begin(w) ==
    /\ WriterGoto(w, "loop", CASE mode = "none"     -> "load"
                               [] mode = "spinlock" -> "spin_lock"
                               [] mode = "mutex"    -> "mutex_lock"
                               [] mode = "atomic"   -> "inc")
    /\ more(w)
    /\ UNCHANGED <<loaded, mode, counters, reset_count, locks, resetter, calls,
                   trial>>

(* mutant: the lock is not waited for                                      *)
lock_ignored(lock) == TRUE

lock_free(lock) == lock = FREE

increment_lock(w) ==
    /\ \/ /\ WriterGoto(w, "spin_lock", "load")
          /\ lock_free(counter_spinlock)
          /\ counter_spinlock' = w
          /\ UNCHANGED counter_mutex
       \/ /\ WriterGoto(w, "mutex_lock", "load")
          /\ lock_free(counter_mutex)
          /\ counter_mutex' = w
          /\ UNCHANGED counter_spinlock
    /\ UNCHANGED <<loaded, mode, counters, reset_count, resetter, calls, trial>>

increment_load(w) ==
    /\ writer[w].pc = "load"
    /\ WriterSet(w, [writer[w] EXCEPT !.pc = "store", !.tmp = counter_plain])
    /\ UNCHANGED <<loaded, mode, counters, reset_count, locks, resetter, calls,
                   trial>>

Unlock(lock, holder) == IF lock = holder THEN FREE ELSE lock

increment_done(w) ==
    WriterSet(w, [writer[w] EXCEPT !.pc = "loop", !.i = @ + 1, !.tmp = 0])

increment_store(w) ==
    /\ writer[w].pc = "store"
    /\ counter_plain' = writer[w].tmp + 1
    /\ counter_spinlock' = Unlock(counter_spinlock, w)
    /\ counter_mutex' = Unlock(counter_mutex, w)
    /\ increment_done(w)
    /\ UNCHANGED <<loaded, mode, counter_atomic, reset_count, resetter, calls,
                   trial>>

atomic64_inc(w) ==
    /\ writer[w].pc = "inc"
    /\ counter_atomic' = counter_atomic + 1
    /\ increment_done(w)
    /\ UNCHANGED <<loaded, mode, counter_plain, reset_count, locks, resetter,
                   calls, trial>>

increment_once(w) ==
    \/ increment_begin(w)
    \/ increment_lock(w)
    \/ increment_load(w)
    \/ increment_store(w)
    \/ atomic64_inc(w)

-----------------------------------------------------------------------------
(* race_write(), current_counter_value(), reset_counters(), mode_store()   *)

accepted(count) ==
    IF count < MAX_INCREMENTS_PER_WRITE THEN count ELSE MAX_INCREMENTS_PER_WRITE

race_write_begin(w) ==
    /\ loaded
    /\ calls.write < MaxWrites
    /\ writer[w].pc = "idle"
    /\ \E count \in Counts :
          /\ WriterSet(w, [IdleWriter EXCEPT !.pc = "loop", !.n = accepted(count)])
          /\ trial' = [written |-> trial.written + accepted(count),
                       fair    |-> trial.fair /\ ResettersIdle]
    /\ calls' = [calls EXCEPT !.write = @ + 1]
    /\ UNCHANGED <<loaded, mode, counters, reset_count, locks, resetter>>

race_write_return(w) ==
    /\ writer[w].pc = "loop"
    /\ ~more(w)
    /\ WriterSet(w, IdleWriter)
    /\ UNCHANGED <<loaded, mode, counters, reset_count, locks, resetter, calls,
                   trial>>

race_write(w) ==
    race_write_begin(w) \/ increment_once(w) \/ race_write_return(w)

current_counter_value ==
    IF mode = "atomic" THEN counter_atomic ELSE counter_plain

ResetterGoto(r, from, to) ==
    /\ resetter[r].pc = from
    /\ resetter' = [resetter EXCEPT ![r].pc = to]

reset_begin(r) ==
    /\ loaded
    /\ calls.reset < MaxResets
    /\ ResetterGoto(r, "idle", "plain")
    /\ calls' = [calls EXCEPT !.reset = @ + 1]
    /\ trial' = [written |-> 0, fair |-> WritersIdle /\ ResettersIdle]
    /\ UNCHANGED <<loaded, mode, counters, reset_count, locks, writer>>

(* under counter_spinlock, whatever the mode                               *)
reset_plain(r) ==
    /\ lock_free(counter_spinlock)
    /\ ResetterGoto(r, "plain", "atomic")
    /\ counter_plain' = 0
    /\ UNCHANGED <<loaded, mode, counter_atomic, reset_count, locks, writer,
                   calls, trial>>

reset_atomic(r) ==
    /\ ResetterGoto(r, "atomic", "load")
    /\ counter_atomic' = 0
    /\ UNCHANGED <<loaded, mode, counter_plain, reset_count, locks, writer,
                   calls, trial>>

reset_load(r) ==
    /\ resetter[r].pc = "load"
    /\ resetter' = [resetter EXCEPT ![r] = [pc |-> "count", tmp |-> reset_count]]
    /\ UNCHANGED <<loaded, mode, counters, reset_count, locks, writer, calls,
                   trial>>

reset_counted(r) ==
    /\ resetter[r].pc = "count"
    /\ reset_count' = resetter[r].tmp + 1
    /\ resetter' = [resetter EXCEPT ![r] = IdleResetter]
    /\ UNCHANGED <<loaded, mode, counters, locks, writer, calls, trial>>

reset_counters(r) ==
    reset_plain(r) \/ reset_atomic(r) \/ reset_load(r) \/ reset_counted(r)

mode_store ==
    /\ loaded
    /\ calls.mode < MaxSwitches
    /\ mode' \in Modes
    /\ calls' = [calls EXCEPT !.mode = @ + 1]
    /\ trial' = [trial EXCEPT !.fair = @ /\ (mode' = mode \/ trial.written = 0)]
    /\ UNCHANGED <<loaded, counters, reset_count, locks, writer, resetter>>

-----------------------------------------------------------------------------
(* a failed step of init undoes those before it: nothing has changed       *)
concurrency_locking_init ==
    /\ ~loaded
    /\ loaded' = TRUE
    /\ mode' = "none"
    /\ counter_plain' = 0
    /\ counter_atomic' = 0
    /\ reset_count' = 0
    /\ calls' = [write |-> 0, reset |-> 0, mode |-> 0]
    /\ trial' = NoTrial
    /\ UNCHANGED <<locks, writer, resetter>>

(* An open file holds the module, sysfs_remove_group() waits for stores.   *)
concurrency_locking_exit ==
    /\ loaded /\ WritersIdle /\ ResettersIdle
    /\ loaded' = FALSE
    /\ UNCHANGED <<mode, counters, reset_count, locks, writer, resetter, calls,
                   trial>>

-----------------------------------------------------------------------------
Next ==
    \/ \E w \in Writers : race_write(w)
    \/ \E r \in Resetters : reset_begin(r) \/ reset_counters(r)
    \/ mode_store
    \/ concurrency_locking_init
    \/ concurrency_locking_exit

Spec == Init /\ [][Next]_vars

-----------------------------------------------------------------------------
(* What stress_test.c checks: after a reset and any number of concurrent   *)
(* writes in one of the three locking modes, the counter that is shown is  *)
(* the number of bytes written, none lost.                                 *)
NoLostUpdate ==
    trial.fair /\ mode # "none" /\ WritersIdle /\ ResettersIdle =>
        current_counter_value = trial.written

(* Whatever the modes and however they are switched under the writers'     *)
(* feet, an update may be lost but is never made up.                       *)
UpdatesNeverMadeUp ==
    calls.reset = 0 => counter_plain + counter_atomic <= trial.written
=============================================================================
