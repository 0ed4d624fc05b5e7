----------------------------- MODULE KthreadDemo -----------------------------
(***************************************************************************)
(* Lab 15, src/15_kthreads/kthreads.c: a producer thread fills a ring, the *)
(* sysfs file "control" starts and stops it, read() on /dev/kthread_demo   *)
(* drains the ring into a buffer that all readers share.                   *)
(*                                                                         *)
(* A section under ring_lock or producer_task_lock is one action.  An item *)
(* is its sequence number; snapshot_buf and snapshot_len are counted in    *)
(* lines, not bytes, and nothing but luck orders two readers' accesses.    *)
(***************************************************************************)
EXTENDS Integers, FiniteSets, Sequences

CONSTANTS
    RING_SIZE,
    SnapshotLines,  \* lines that fit into SNAPSHOT_BUF_SIZE bytes
    Threads,        \* task_structs that kthread_run() may hand out
    NULL,           \* no task
    Controllers,    \* processes that write "control"
    MODULE_TASK,    \* the process in insmod or rmmod
    Readers,        \* processes that read the device
    MaxSeq,         \* bound: items produced per load of the module
    KthreadMayFail, \* can kthread_run() fail?
    EarlyUse,       \* are the files used before init has returned?
    ExitControl     \* can a write of "control" overlap kthreads_exit()?

ASSUME KthreadAssumption ==
    /\ RING_SIZE \in Nat \ {0}
    /\ SnapshotLines \in Nat \ {0}
    /\ NULL \notin Threads
    /\ MODULE_TASK \notin Controllers
    /\ MaxSeq \in Nat
    /\ KthreadMayFail \in BOOLEAN
    /\ EarlyUse \in BOOLEAN
    /\ ExitControl \in BOOLEAN

VARIABLES
    phase,                             \* where the module is in its life
    ring, ring_head, ring_count, next_seq, dropped_count,
    producer_task,
    thread,                            \* per task: where it is, if it exists
    stopping,                          \* tasks whose stop flag is set
    caller,                            \* per caller of start/stop_producer()
    snapshot_buf, snapshot_len,
    reader,                            \* per reader: place in read(), file
    drained                            \* ghost: items taken out of the ring

ringVars == <<ring, ring_head, ring_count, next_seq, dropped_count, drained>>
taskVars == <<producer_task, thread, stopping, caller>>
snapshotVars == <<snapshot_buf, snapshot_len>>
readVars == <<snapshotVars, reader>>
vars == <<phase, ringVars, taskVars, readVars>>

Callers == Controllers \cup {MODULE_TASK}

Slots == 0..(RING_SIZE - 1)

Lines == 0..(SnapshotLines - 1)

Phases == {"unloaded",
           "registered",  \* init: device, kobject and sysfs files exist
           "starting",    \* init: in start_producer()
           "unwinding",   \* init failed: removing what was registered
           "live",
           "stopping",    \* exit: in stop_producer()
           "stopped",     \* exit: which has returned
           "nosysfs"}     \* exit: sysfs_remove_group() has returned

ThreadPCs == {"none", "check", "produce", "sleep", "exited"}

(* task: the local of stop_producer()                                      *)
CallerState ==
    [pc : {"idle", "start", "swap", "kill", "join"}, task : Threads \cup {NULL}]

NoCall == [pc |-> "idle", task |-> NULL]

(* items, i: locals of kthread_demo_read(); at: its load of snapshot_len;  *)
(* pos: the file position                                                  *)
NoFile == [pc |-> "closed", items |-> <<>>, i |-> 0, at |-> 0, pos |-> 0]

Init ==
    /\ phase = "unloaded"
    /\ ring = [i \in Slots |-> 0]
    /\ ring_head = 0
    /\ ring_count = 0
    /\ next_seq = 0
    /\ dropped_count = 0
    /\ drained = 0
    /\ producer_task = NULL
    /\ thread = [t \in Threads |-> "none"]
    /\ stopping = {}
    /\ caller = [c \in Callers |-> NoCall]
    /\ snapshot_buf = [i \in Lines |-> 0]
    /\ snapshot_len = 0
    /\ reader = [r \in Readers |-> NoFile]

-----------------------------------------------------------------------------
(* producer_thread_fn()                                                    *)

ThreadGoto(t, from, to) ==
    /\ thread[t] = from
    /\ thread' = [thread EXCEPT ![t] = to]

(* bound: at MaxSeq items the thread goes on looping but produces no more  *)
MayProduce ==
    next_seq + Cardinality({t \in Threads : thread[t] = "produce"}) < MaxSeq

(* mutant: the loop never looks at the stop flag                           *)
never_stops(t) == FALSE

kthread_should_stop(t) == t \in stopping

producer_check(t) ==
    /\ \/ kthread_should_stop(t) /\ ThreadGoto(t, "check", "exited")
       \/ /\ ~kthread_should_stop(t)
          /\ ThreadGoto(t, "check", IF MayProduce THEN "produce" ELSE "sleep")
    /\ UNCHANGED <<phase, ringVars, producer_task, stopping, caller, readVars>>

advance_head(head) == (head + 1) % RING_SIZE

(* mutant: an overwritten item is not counted                              *)
overwrite_uncounted == 0

(* the else branch of the locked section: the oldest item is overwritten   *)
overwrite_counted == 1

producer_produce(t) ==
    /\ ThreadGoto(t, "produce", "sleep")
    /\ ring' = [ring EXCEPT ![ring_head] = next_seq]
    /\ next_seq' = next_seq + 1
    /\ ring_head' = advance_head(ring_head)
    /\ IF ring_count < RING_SIZE
       THEN ring_count' = ring_count + 1 /\ UNCHANGED dropped_count
       ELSE /\ dropped_count' = dropped_count + overwrite_counted
            /\ UNCHANGED ring_count
    /\ UNCHANGED <<phase, drained, producer_task, stopping, caller, readVars>>

(* msleep_interruptible() ends with the interval: a thread that            *)
(* kthread_stop() wakes sleeps on, only a signal would end it before       *)
producer_wakes(t) ==
    /\ ThreadGoto(t, "sleep", "check")
    /\ UNCHANGED <<phase, ringVars, producer_task, stopping, caller, readVars>>

producer_thread_fn(t) ==
    producer_check(t) \/ producer_produce(t) \/ producer_wakes(t)

-----------------------------------------------------------------------------
(* start_producer() and stop_producer(), called by control_store(), by     *)
(* kthreads_init() and by kthreads_exit()                                  *)

Return(c) == caller' = [caller EXCEPT ![c] = NoCall]

(* mutant: a second producer is started over the first                     *)
start_anyway == TRUE

may_start == producer_task = NULL

(* -EEXIST, or kthread_run() gives a new task, or it fails                 *)
start_creates(t) ==
    /\ may_start
    /\ ThreadGoto(t, "none", "check")
    /\ producer_task' = t

start_fails ==
    /\ ~may_start \/ KthreadMayFail
    /\ UNCHANGED <<producer_task, thread>>

(* init goes on, or undoes its registrations                               *)
start_producer(c) ==
    /\ caller[c].pc = "start"
    /\ \/ /\ \E t \in Threads : start_creates(t)
          /\ phase' = IF c = MODULE_TASK THEN "live" ELSE phase
       \/ /\ start_fails
          /\ phase' = IF c = MODULE_TASK THEN "unwinding" ELSE phase
    /\ Return(c)
    /\ UNCHANGED <<ringVars, stopping, readVars>>

(* under producer_task_lock: task = producer_task, producer_task = NULL    *)
stop_swap(c) ==
    /\ caller[c].pc = "swap"
    /\ producer_task' = NULL
    /\ caller' = [caller EXCEPT ![c] =
          IF producer_task = NULL
          THEN [NoCall EXCEPT !.pc = IF c = MODULE_TASK THEN "join" ELSE "idle"]
          ELSE [pc |-> "kill", task |-> producer_task]]
    /\ UNCHANGED <<phase, ringVars, thread, stopping, readVars>>

(* kthread_stop(): set the flag and wake the task,                         *)
stop_kill(c) ==
    /\ caller[c].pc = "kill"
    /\ stopping' = stopping \cup {caller[c].task}
    /\ caller' = [caller EXCEPT ![c].pc = "join"]
    /\ UNCHANGED <<phase, ringVars, producer_task, thread, readVars>>

(* then wait until its function has returned                               *)
stop_join(c) ==
    LET task == caller[c].task
    IN  /\ caller[c].pc = "join"
        /\ task # NULL => thread[task] = "exited"
        /\ thread' = [t \in Threads |-> IF t = task THEN "none" ELSE thread[t]]
        /\ stopping' = stopping \ {task}
        /\ phase' = IF c = MODULE_TASK THEN "stopped" ELSE phase
        /\ Return(c)
        /\ UNCHANGED <<ringVars, producer_task, readVars>>

stop_producer(c) == stop_swap(c) \/ stop_kill(c) \/ stop_join(c)

FilesUsable ==
    \/ phase = "live"
    \/ EarlyUse /\ phase \in {"registered", "starting"}

SysfsWritable ==
    \/ FilesUsable
    \/ ExitControl /\ phase \in {"stopping", "stopped"}

control_store(c) ==
    /\ SysfsWritable
    /\ caller[c].pc = "idle"
    /\ \E command \in {"start", "swap"} :
          caller' = [caller EXCEPT ![c].pc = command]
    /\ UNCHANGED <<phase, ringVars, producer_task, thread, stopping, readVars>>

-----------------------------------------------------------------------------
(* kthread_demo_read()                                                     *)

ReaderSet(r, new) == reader' = [reader EXCEPT ![r] = new]

(* mutant: forgets that the ring may not be full                           *)
ring_start_at_head == ring_head

(* the oldest item                                                         *)
ring_start == (ring_head + RING_SIZE - ring_count) % RING_SIZE

(* mutant: walks back from the head, newest item first                     *)
ring_items_backwards ==
    [i \in 1..ring_count |-> ring[(ring_head + RING_SIZE - i) % RING_SIZE]]

ring_items ==
    [i \in 1..ring_count |-> ring[(ring_start + i - 1) % RING_SIZE]]

reader_user(r) ==
    /\ \/ /\ FilesUsable
          /\ reader[r].pc = "closed"
          /\ ReaderSet(r, [NoFile EXCEPT !.pc = "open"])
       \/ reader[r].pc = "open" /\ ReaderSet(r, NoFile)
       \/ /\ reader[r].pc = "open"
          /\ ReaderSet(r, [reader[r] EXCEPT !.pc =
                              IF reader[r].pos = 0 THEN "drain" ELSE "copy"])
    /\ UNCHANGED <<phase, ringVars, taskVars, snapshotVars>>

(* under ring_lock                                                         *)
read_drain(r) ==
    /\ reader[r].pc = "drain"
    /\ ReaderSet(r, [NoFile EXCEPT !.pc = "clear", !.items = ring_items])
    /\ ring_count' = 0
    /\ drained' = drained + ring_count
    /\ UNCHANGED <<phase, ring, ring_head, next_seq, dropped_count, taskVars,
                   snapshotVars>>

(* mutant: the text of the previous read is still there                    *)
snapshot_kept == snapshot_len

snapshot_empty == 0

read_clear(r) ==
    /\ reader[r].pc = "clear"
    /\ snapshot_len' = snapshot_empty
    /\ ReaderSet(r, [reader[r] EXCEPT !.pc = "loop"])
    /\ UNCHANGED <<phase, ringVars, taskVars, snapshot_buf>>

(* the head of the formatting loop: leave it, or load snapshot_len         *)
read_loop(r) ==
    /\ reader[r].pc = "loop"
    /\ ReaderSet(r,
          IF reader[r].i < Len(reader[r].items) /\ snapshot_len < SnapshotLines
          THEN [reader[r] EXCEPT !.pc = "line", !.at = snapshot_len]
          ELSE [reader[r] EXCEPT !.pc = "copy"])
    /\ UNCHANGED <<phase, ringVars, taskVars, snapshotVars>>

(* scnprintf() at what was loaded, then the store of the sum               *)
read_line(r) ==
    LET me == reader[r]
    IN  /\ me.pc = "line"
        /\ snapshot_buf' = [snapshot_buf EXCEPT ![me.at] = me.items[me.i + 1]]
        /\ snapshot_len' = me.at + 1
        /\ ReaderSet(r, [me EXCEPT !.pc = "loop", !.i = me.i + 1])
        /\ UNCHANGED <<phase, ringVars, taskVars>>

(* simple_read_from_buffer(): some lines from the file position on, or     *)
(* none: at the end, or if they cannot be copied to the user               *)
read_copy(r) ==
    /\ reader[r].pc = "copy"
    /\ \E pos \in {reader[r].pos} \cup reader[r].pos..snapshot_len :
          ReaderSet(r, [NoFile EXCEPT !.pc = "open", !.pos = pos])
    /\ UNCHANGED <<phase, ringVars, taskVars, snapshotVars>>

kthread_demo_read(r) ==
    \/ read_drain(r)
    \/ read_clear(r)
    \/ read_loop(r)
    \/ read_line(r)
    \/ read_copy(r)

-----------------------------------------------------------------------------
(* kthreads_init() and kthreads_exit()                                     *)

Advance(from, to) == phase = from /\ phase' = to

(* mutant: nobody waits for a write of "control" that is running           *)
control_ignored == TRUE

control_idle == \A c \in Controllers : caller[c].pc = "idle"

(* the registrations in one step; a failed one undoes those before it, so  *)
(* that nothing has changed                                                *)
init_register ==
    /\ Advance("unloaded", "registered")
    /\ ring' = [i \in Slots |-> 0]
    /\ ring_head' = 0
    /\ ring_count' = 0
    /\ next_seq' = 0
    /\ dropped_count' = 0
    /\ drained' = 0
    /\ producer_task' = NULL
    /\ snapshot_buf' = [i \in Lines |-> 0]
    /\ snapshot_len' = 0
    /\ UNCHANGED <<thread, stopping, caller, reader>>

(* calls of start_producer() and stop_producer()                           *)
module_calls ==
    /\ \/ /\ Advance("registered", "starting")
          /\ caller' = [caller EXCEPT ![MODULE_TASK].pc = "start"]
       \/ /\ Advance("live", "stopping")
          /\ \A r \in Readers : reader[r].pc = "closed"
          /\ control_idle \/ ExitControl
          /\ caller' = [caller EXCEPT ![MODULE_TASK].pc = "swap"]
    /\ UNCHANGED <<ringVars, producer_task, thread, stopping, readVars>>

(* sysfs_remove_group() waits for writers of "control"; the device goes    *)
module_removes ==
    /\ \/ control_idle /\ Advance("unwinding", "unloaded")
       \/ control_idle /\ Advance("stopped", "nosysfs")
       \/ Advance("nosysfs", "unloaded")
    /\ UNCHANGED <<ringVars, taskVars, readVars>>

-----------------------------------------------------------------------------
caller_runs(c) == start_producer(c) \/ stop_producer(c)

Next ==
    \/ \E t \in Threads : producer_thread_fn(t)
    \/ \E c \in Callers : caller_runs(c)
    \/ \E c \in Controllers : control_store(c)
    \/ \E r \in Readers : reader_user(r) \/ kthread_demo_read(r)
    \/ init_register
    \/ module_calls
    \/ module_removes

(* The scheduler runs the producer and whoever is inside a call.           *)
Fairness ==
    /\ \A t \in Threads : WF_vars(producer_thread_fn(t))
    /\ \A c \in Callers : WF_vars(caller_runs(c))

Spec == Init /\ [][Next]_vars

FairSpec == Spec /\ Fairness

-----------------------------------------------------------------------------
(* Every variable has its type; ring_head is always a slot of the ring.    *)
TypeOK ==
    /\ phase \in Phases
    /\ ring \in [Slots -> Nat]
    /\ ring_head \in Slots
    /\ ring_count \in 0..RING_SIZE
    /\ next_seq \in Nat
    /\ dropped_count \in Nat
    /\ drained \in Nat
    /\ producer_task \in Threads \cup {NULL}
    /\ thread \in [Threads -> ThreadPCs]
    /\ stopping \subseteq Threads
    /\ caller \in [Callers -> CallerState]
    /\ snapshot_buf \in [Lines -> Nat]
    /\ snapshot_len \in 0..SnapshotLines

(* The ring holds the ring_count latest items in order, whatever mixture   *)
(* of producing (by one thread or by two), overwriting and draining led    *)
(* there.                                                                  *)
RingHoldsLatest ==
    \A i \in 0..(ring_count - 1) :
        ring[(ring_start + i) % RING_SIZE] = next_seq - ring_count + i

(* No item is lost unaccounted for: each one was drained by a read, was    *)
(* counted as dropped, or is still buffered.                               *)
EveryItemAccounted == next_seq = drained + dropped_count + ring_count

Queue == INSTANCE DropOldestQueue WITH
    Limit <- RING_SIZE,
    queue <- ring_items,
    next <- next_seq,
    dropped <- dropped_count

(* The ring, with head and count, several threads and readers, implements  *)
(* a queue that drops its oldest item when full: a step puts one item,     *)
(* takes all of them in order, or leaves the queue alone.                  *)
ImplementsQueue == Queue!Spec

(* There is one producer at a time: a task other than producer_task that   *)
(* exists is in the hands of a stop_producer() that will wait for it.      *)
OneProducer ==
    \A t \in Threads :
        thread[t] # "none" =>
            \/ t = producer_task
            \/ \E c \in Callers : caller[c].task = t

(* After the module is gone, no thread runs its code: rmmod "confirms the  *)
(* producer thread's own 'stopping' log ran" (readme.md:124).              *)
NoThreadAfterUnload ==
    phase = "unloaded" => \A t \in Threads : thread[t] = "none"

(* A read from the start of the file returns what it has drained           *)
(* (kthreads.c:33: "each read() drains whatever is currently buffered").   *)
ReadReturnsDrained ==
    \A r \in Readers :
        reader[r].pc = "copy" /\ reader[r].pos = 0 =>
            [i \in 1..snapshot_len |-> snapshot_buf[i - 1]] = reader[r].items

(* stop_producer() returns: the thread notices the flag, however long it   *)
(* would have slept.                                                       *)
StopReturns ==
    \A c \in Callers : caller[c].pc = "kill" ~> caller[c].pc = "idle"
=============================================================================
