---------------------------- MODULE BlockingDemo ----------------------------
(***************************************************************************)
(* Lab 12, src/12_wait_queues_blocking/wait_queues_blocking.c: a timer and *)
(* the sysfs file "trigger" post events, read() on /dev/blocking_demo      *)
(* blocks until it can consume one, poll() reports readiness.              *)
(*                                                                         *)
(* Nothing here holds a lock: every atomic_*() call is a step of its own,  *)
(* and wait_event_interruptible() is expanded into the steps of the macro. *)
(* event_wq is the set of enqueued wait entries; a wake-up visits all of   *)
(* them, since none is exclusive.                                          *)
(***************************************************************************)
EXTENDS Integers, FiniteSets, KernelTimer

CONSTANTS
    Readers,      \* processes that read the device
    Pollers,      \* processes that poll it
    Triggers,     \* processes that write the sysfs file "trigger"
    TIMER,        \* the timer callback, as a producer
    LineLen,      \* length of "event #<id>\n"; one length: ids of one digit
    MaxEvents,    \* bound: events per load of the module
    InitFaults,   \* which of init's two registrations may fail
    EarlyOpen     \* can the device be opened before init has returned?

ASSUME BlockingAssumption ==
    /\ TIMER \notin Triggers
    /\ IsFiniteSet(Readers)
    /\ Readers \cap Pollers = {}
    /\ LineLen \in Nat \ {0}
    /\ MaxEvents \in 1..9
    /\ InitFaults \subseteq {"misc", "sysfs"}
    /\ EarlyOpen \in BOOLEAN

Producers == Triggers \cup {TIMER}

VARIABLES
    phase,          \* where the module is in its life
    producer_timer,
    data_ready, event_id, waiter_count,
    event_wq,       \* readers and pollers with an entry on the wait queue
    producer,       \* per producer: where it is in posting an event
    reader,         \* per reader: where it is in bq_read, and its file
    poller,         \* per poller: where it is in poll()
    consumed,       \* ghost: how often data_ready was taken
    deliveries      \* ghost: per event id, how often a read loaded it

life == <<phase, producer_timer>>
ghosts == <<consumed, deliveries>>
vars == <<life, data_ready, event_id, waiter_count, event_wq, producer,
          reader, poller, ghosts>>

Phases == {"unloaded", "loading", "misc", "live",
           "going",      \* exit: timer poisoned, waiting for its callback
           "quiesced",   \* exit: timer_shutdown_sync() returned
           "flagged",    \* exit: data_ready set
           "woken",      \* exit: event_wq woken, sysfs files going away
           "nosysfs"}    \* exit: sysfs_remove_group() returned

(* A reader that waiter_count counts, and one that wants an event.         *)
Waiting == {"check", "prepare", "recheck", "sleep", "dec"}

InRead == Waiting \cup {"xchg", "inc"}

(* wait_ret: wait_event_interruptible() is to return -ERESTARTSYS          *)
ReaderState ==
    [pc : InRead \cup {"closed", "open", "load", "copy"},
     nonblock : BOOLEAN, ppos : 0..LineLen, signal : BOOLEAN,
     wait_ret : BOOLEAN]

PollerState ==
    [pc : {"closed", "open", "register", "check", "sleep", "last"},
     triggered : BOOLEAN]

NoFile == [pc |-> "closed", nonblock |-> FALSE, ppos |-> 0, signal |-> FALSE,
           wait_ret |-> FALSE]

(* misc_register() makes the device visible before init has returned.      *)
DeviceOpenable == phase = "live" \/ (EarlyOpen /\ phase = "misc")

SysfsWritable == phase \in {"live", "going", "quiesced", "flagged"}

ModuleUnused ==
    /\ \A r \in Readers : reader[r].pc = "closed"
    /\ \A q \in Pollers : poller[q].pc = "closed"

Init ==
    /\ phase = "unloaded"
    /\ producer_timer = timer_static
    /\ data_ready = 0
    /\ event_id = 0
    /\ waiter_count = 0
    /\ event_wq = {}
    /\ producer = [p \in Producers |-> "idle"]
    /\ reader = [r \in Readers |-> NoFile]
    /\ poller = [q \in Pollers |-> [pc |-> "closed", triggered |-> FALSE]]
    /\ consumed = 0
    /\ deliveries = [e \in 0..MaxEvents |-> 0]

-----------------------------------------------------------------------------
(* Posting an event: the same three statements in producer_fn() and in     *)
(* trigger_store().                                                        *)

(* bound: no event beyond MaxEvents is begun                               *)
MayPost ==
    event_id + Cardinality({p \in Producers : producer[p] = "inc"}) < MaxEvents

Producing(p, from, to) ==
    /\ producer[p] = from
    /\ producer' = [producer EXCEPT ![p] = to]

producer_expire ==
    /\ MayPost
    /\ timer_can_expire(producer_timer)
    /\ producer_timer' = timer_expire(producer_timer)
    /\ Producing(TIMER, "idle", "inc")
    /\ UNCHANGED <<data_ready, event_id, event_wq, poller>>

trigger_begin(t) ==
    /\ MayPost
    /\ SysfsWritable
    /\ Producing(t, "idle", "inc")
    /\ UNCHANGED <<life, data_ready, event_id, waiter_count, event_wq,
                   reader, poller, ghosts>>

post_inc(p) ==
    /\ Producing(p, "inc", "set")
    /\ event_id' = event_id + 1
    /\ UNCHANGED <<producer_timer, data_ready, event_wq, poller>>

post_set(p) ==
    /\ Producing(p, "set", "wake")
    /\ data_ready' = 1
    /\ UNCHANGED <<producer_timer, event_id, event_wq, poller>>

(* mutant: the wake-up stops at one entry, as it would for exclusive ones  *)
wake_up_one ==
    \E x \in Readers \cup Pollers :
        /\ x \in event_wq \/ event_wq = {}
        /\ event_wq' = event_wq \ ({x} \cap Readers)
        /\ poller' = [q \in Pollers |->
              [poller[q] EXCEPT !.triggered = @ \/ q \in event_wq \cap {x}]]

(* A woken reader's entry leaves the queue (autoremove); a poller's entry  *)
(* stays until poll() returns and only remembers the wake-up.              *)
wake_up ==
    /\ event_wq' = event_wq \ Readers
    /\ poller' = [q \in Pollers |->
          [poller[q] EXCEPT !.triggered = @ \/ q \in event_wq]]

post_wake(p) ==
    /\ Producing(p, "wake", IF p = TIMER THEN "rearm" ELSE "idle")
    /\ wake_up
    /\ UNCHANGED <<producer_timer, data_ready, event_id>>

producer_rearm ==
    /\ Producing(TIMER, "rearm", "idle")
    /\ producer_timer' = timer_return(mod_timer(producer_timer))
    /\ UNCHANGED <<data_ready, event_id, event_wq, poller>>

post_event(p) == post_inc(p) \/ post_set(p) \/ post_wake(p)

producer_fn ==
    /\ producer_expire \/ post_event(TIMER) \/ producer_rearm
    /\ UNCHANGED <<phase, waiter_count, reader, ghosts>>

trigger_store(t) ==
    /\ post_event(t)
    /\ UNCHANGED <<phase, waiter_count, reader, ghosts>>

-----------------------------------------------------------------------------
(* The file, and bq_read() on it.                                          *)

Reading(r, from, to) ==
    /\ reader[r].pc = from
    /\ reader' = [reader EXCEPT ![r].pc = to]

(* Back to user space: a pending signal is handled, the locals are gone.   *)
Return(r, pos) ==
    reader' = [reader EXCEPT ![r] =
                  [NoFile EXCEPT !.pc = "open", !.nonblock = reader[r].nonblock,
                                 !.ppos = pos]]

(* What the process does with the file outside bq_read(), and a signal     *)
(* sent to it, which makes a difference only during a wait.                *)
reader_user(r) ==
    /\ \/ /\ DeviceOpenable
          /\ reader[r].pc = "closed"
          /\ \E b \in BOOLEAN :
                reader' = [reader EXCEPT ![r].pc = "open", ![r].nonblock = b]
       \/ reader[r].pc = "open" /\ reader' = [reader EXCEPT ![r] = NoFile]
       \/ Reading(r, "open", "xchg")
       \/ /\ reader[r].pc \in Waiting
          /\ ~reader[r].signal
          /\ reader' = [reader EXCEPT ![r].signal = TRUE]
    /\ UNCHANGED <<life, data_ready, event_id, waiter_count, event_wq,
                   producer, poller, ghosts>>

(* what atomic_xchg(&data_ready, 0) leaves behind                          *)
after_xchg == 0

xchg_takes(r) ==
    /\ data_ready = 1
    /\ Reading(r, "xchg", "load")
    /\ data_ready' = after_xchg
    /\ consumed' = consumed + 1
    /\ UNCHANGED <<waiter_count, event_wq, deliveries>>

xchg_fails(r) ==
    /\ data_ready = 0
    /\ reader[r].pc = "xchg"
    /\ IF reader[r].nonblock
       THEN Return(r, reader[r].ppos)    \* -EAGAIN
       ELSE Reading(r, "xchg", "inc")
    /\ UNCHANGED <<data_ready, waiter_count, event_wq, ghosts>>

inc_waiters == waiter_count + 1

read_inc(r) ==
    /\ Reading(r, "inc", "check")
    /\ waiter_count' = inc_waiters
    /\ UNCHANGED <<data_ready, event_wq, ghosts>>

(* wait_event_interruptible(): the condition is tried before sleeping,     *)
wait_check(r) ==
    /\ Reading(r, "check", IF data_ready = 1 THEN "dec" ELSE "prepare")
    /\ UNCHANGED <<data_ready, waiter_count, event_wq, ghosts>>

(* then prepare_to_wait_event() enqueues, unless a signal is pending,      *)
wait_prepare(r) ==
    /\ reader[r].pc = "prepare"
    /\ event_wq' = IF reader[r].signal THEN event_wq \ {r}
                                       ELSE event_wq \cup {r}
    /\ reader' = [reader EXCEPT ![r].pc = "recheck",
                                ![r].wait_ret = reader[r].signal]
    /\ UNCHANGED <<data_ready, waiter_count, ghosts>>

(* mutant: sleeps without trying the condition again after enqueueing      *)
condition_skipped == FALSE

(* the condition of the wait                                               *)
condition == data_ready = 1

(* the condition is tried again, before the signal is looked at,           *)
wait_recheck(r) ==
    /\ reader[r].pc = "recheck"
    /\ IF condition
       THEN /\ event_wq' = event_wq \ {r}
            /\ reader' = [reader EXCEPT ![r].pc = "dec",
                                        ![r].wait_ret = FALSE]
       ELSE /\ Reading(r, "recheck",
                       IF reader[r].wait_ret THEN "dec" ELSE "sleep")
            /\ UNCHANGED event_wq
    /\ UNCHANGED <<data_ready, waiter_count, ghosts>>

(* and schedule() returns after a wake-up or for a signal.                 *)
wait_wakes(r) ==
    /\ r \notin event_wq \/ reader[r].signal
    /\ Reading(r, "sleep", "prepare")
    /\ UNCHANGED <<data_ready, waiter_count, event_wq, ghosts>>

(* mutant: the error return comes before atomic_dec()                      *)
dec_unless_interrupted(r) ==
    IF reader[r].wait_ret THEN waiter_count ELSE waiter_count - 1

dec_waiters(r) == waiter_count - 1

read_dec(r) ==
    /\ reader[r].pc = "dec"
    /\ waiter_count' = dec_waiters(r)
    /\ IF reader[r].wait_ret
       THEN Return(r, reader[r].ppos)    \* -ERESTARTSYS
       ELSE Reading(r, "dec", "xchg")
    /\ UNCHANGED <<data_ready, event_wq, ghosts>>

read_load(r) ==
    /\ Reading(r, "load", "copy")
    /\ deliveries' = [deliveries EXCEPT ![event_id] = @ + 1]
    /\ UNCHANGED <<data_ready, waiter_count, event_wq, consumed>>

(* simple_read_from_buffer(): some bytes from the file position on; none   *)
(* at the end of the line, or if they cannot be copied to the user         *)
read_copy(r) ==
    /\ reader[r].pc = "copy"
    /\ \E pos \in reader[r].ppos..LineLen : Return(r, pos)
    /\ UNCHANGED <<data_ready, waiter_count, event_wq, ghosts>>

wait_event_interruptible(r) ==
    wait_check(r) \/ wait_prepare(r) \/ wait_recheck(r) \/ wait_wakes(r)

bq_read(r) ==
    /\ \/ xchg_takes(r)
       \/ xchg_fails(r)
       \/ read_inc(r)
       \/ wait_event_interruptible(r)
       \/ read_dec(r)
       \/ read_load(r)
       \/ read_copy(r)
    /\ UNCHANGED <<life, event_id, producer, poller>>

-----------------------------------------------------------------------------
(* poll(): the VFS calls bq_poll(), sleeps until its entry is triggered or *)
(* the timeout or a signal ends the wait, and calls bq_poll() again.       *)

Polling(q, from, to) ==
    /\ poller[q].pc = from
    /\ poller' = [poller EXCEPT ![q].pc = to]

poll_user(q) ==
    /\ \/ DeviceOpenable /\ Polling(q, "closed", "open")
       \/ Polling(q, "open", "closed")
       \/ Polling(q, "open", "register")
       \/ Polling(q, "sleep", "last")
    /\ UNCHANGED <<life, data_ready, event_id, waiter_count, event_wq,
                   producer, reader, ghosts>>

(* bq_poll(): poll_wait(), which enqueues on the first call only           *)
poll_register(q) ==
    /\ Polling(q, "register", "check")
    /\ event_wq' = event_wq \cup {q}

(* bq_poll(): the readiness test; "last" is the one after the timeout      *)
poll_check(q) ==
    /\ poller[q].pc \in {"check", "last"}
    /\ IF data_ready = 1 \/ poller[q].pc = "last"
       THEN /\ event_wq' = event_wq \ {q}
            /\ poller' = [poller EXCEPT ![q].pc = "open",
                                        ![q].triggered = FALSE]
       ELSE /\ poller' = [poller EXCEPT ![q].pc = "sleep"]
            /\ UNCHANGED event_wq

poll_wakes(q) ==
    /\ poller[q].pc = "sleep"
    /\ poller[q].triggered
    /\ poller' = [poller EXCEPT ![q].pc = "check", ![q].triggered = FALSE]
    /\ UNCHANGED event_wq

bq_poll(q) ==
    /\ poll_register(q) \/ poll_check(q) \/ poll_wakes(q)
    /\ UNCHANGED <<life, data_ready, event_id, waiter_count, producer, reader,
                   ghosts>>

-----------------------------------------------------------------------------
(* Loading and unloading.                                                  *)

Advance(from, to) == phase = from /\ phase' = to

(* insmod: the statics have their initialisers                             *)
insmod ==
    /\ Advance("unloaded", "loading")
    /\ producer_timer' = timer_static
    /\ data_ready' = 0
    /\ event_id' = 0
    /\ waiter_count' = 0
    /\ consumed' = 0
    /\ deliveries' = [e \in 0..MaxEvents |-> 0]
    /\ UNCHANGED <<event_wq, producer, reader, poller>>

init_misc ==
    /\ \/ Advance("loading", "misc")
       \/ "misc" \in InitFaults /\ Advance("loading", "unloaded")
    /\ UNCHANGED <<producer_timer, data_ready, event_wq, poller>>

init_sysfs ==
    /\ \/ /\ Advance("misc", "live")
          /\ producer_timer' = mod_timer(timer_setup)
       \/ /\ "sysfs" \in InitFaults
          /\ Advance("misc", "unloaded")
          /\ UNCHANGED producer_timer
    /\ UNCHANGED <<data_ready, event_wq, poller>>

exit_shutdown_timer ==
    /\ ModuleUnused
    /\ Advance("live", "going")
    /\ producer_timer' = timer_shutdown(producer_timer)
    /\ UNCHANGED <<data_ready, event_wq, poller>>

exit_set_ready ==
    /\ Advance("quiesced", "flagged")
    /\ data_ready' = 1
    /\ UNCHANGED <<producer_timer, event_wq, poller>>

exit_wake_all ==
    /\ Advance("flagged", "woken")
    /\ wake_up
    /\ UNCHANGED <<producer_timer, data_ready>>

(* mutant: the files go away without waiting for a store that is running   *)
sysfs_not_drained == TRUE

(* sysfs_remove_group() returns when no store is active any more           *)
sysfs_drained == \A t \in Triggers : producer[t] = "idle"

(* the calls that only wait: timer_shutdown_sync() for the callback,       *)
(* sysfs_remove_group() for stores; then misc_deregister()                 *)
exit_wait ==
    /\ \/ timer_sync_done(producer_timer) /\ Advance("going", "quiesced")
       \/ sysfs_drained /\ Advance("woken", "nosysfs")
       \/ Advance("nosysfs", "unloaded")
    /\ UNCHANGED <<producer_timer, data_ready, event_wq, poller>>

wait_queues_blocking_init ==
    /\ init_misc \/ init_sysfs
    /\ UNCHANGED <<event_id, waiter_count, producer, reader, ghosts>>

wait_queues_blocking_exit ==
    /\ exit_shutdown_timer \/ exit_set_ready \/ exit_wake_all \/ exit_wait
    /\ UNCHANGED <<event_id, waiter_count, producer, reader, ghosts>>

-----------------------------------------------------------------------------
Next ==
    \/ insmod
    \/ wait_queues_blocking_init
    \/ wait_queues_blocking_exit
    \/ producer_fn
    \/ \E t \in Triggers : trigger_begin(t) \/ trigger_store(t)
    \/ \E r \in Readers : reader_user(r) \/ bq_read(r)
    \/ \E q \in Pollers : poll_user(q) \/ bq_poll(q)

(* Timers fire, and a runnable thread inside a system call runs on.        *)
Fairness ==
    /\ WF_vars(producer_fn)
    /\ \A t \in Triggers : WF_vars(trigger_store(t))
    /\ \A r \in Readers : WF_vars(bq_read(r))

Spec == Init /\ [][Next]_vars

FairSpec == Spec /\ Fairness

-----------------------------------------------------------------------------
(* The program counters of the three kinds of actors, the atomics and the  *)
(* queue have the values the code can give them.                           *)
TypeOK ==
    /\ phase \in Phases
    /\ producer_timer \subseteq TimerFlags
    /\ data_ready \in {0, 1}
    /\ event_id \in 0..MaxEvents
    /\ waiter_count \in Nat
    /\ event_wq \subseteq Readers \cup Pollers
    /\ producer \in [Producers -> {"idle", "inc", "set", "wake", "rearm"}]
    /\ reader \in [Readers -> ReaderState]
    /\ poller \in [Pollers -> PollerState]
    /\ consumed \in Nat
    /\ deliveries \in [0..MaxEvents -> Nat]

(* waiters_show() reports exactly the reads that are blocked or about to   *)
(* be: the count survives signals, lost races for an event and O_NONBLOCK. *)
WaiterCountExact ==
    waiter_count = Cardinality({r \in Readers : reader[r].pc \in Waiting})

(* No wake-up is lost, neither in bq_read() nor in poll(): while somebody  *)
(* sleeps on the queue and has not been woken, an event that is ready has  *)
(* a producer that is about to wake everybody.                             *)
NoLostWakeup ==
    LET Blocked == {r \in Readers : reader[r].pc = "sleep" /\ r \in event_wq}
        InPoll == {q \in Pollers : poller[q].pc = "sleep" /\ ~poller[q].triggered}
    IN  data_ready = 1 /\ Blocked \cup InPoll # {} =>
            \E p \in Producers : producer[p] = "wake"

(* Once the module is gone, none of its code runs: no timer, no store, no  *)
(* reader, no entry on the wait queue.                                     *)
UnloadQuiescent ==
    phase = "unloaded" =>
        /\ timer_quiesced(producer_timer)
        /\ \A p \in Producers : producer[p] = "idle"
        /\ ModuleUnused
        /\ event_wq = {}

(* No two reads return the same event ("neither one ever double-consume    *)
(* an event", wait_queues_blocking.c:72).                                  *)
NoDoubleDelivery == \A e \in 1..MaxEvents : deliveries[e] <= 1

(* While a process is in bq_read() and an event is ready or the timer      *)
(* still posts some, one more event is consumed, or nobody is in there any *)
(* more (signals, O_NONBLOCK): the timer re-arms, no wake-up goes astray.  *)
WaitersAreServed ==
    LET Busy == \E r \in Readers : reader[r].pc \in InRead
    IN  \A n \in 0..MaxEvents :
            /\ consumed = n
            /\ Busy
            /\ data_ready = 1 \/ (phase = "live" /\ event_id < MaxEvents)
            ~> consumed # n \/ ~Busy
=============================================================================
