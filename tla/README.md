# TLA+ models of the linux-kernel-project labs

The repository is a course of seventeen small Linux kernel modules. Each lab is
one C file that is loaded with `insmod`, exposes some files to user space, and is
unloaded with `rmmod`. The labs share no code and no state, so this project has
one model per lab rather than one composed system; what several labs share, the
kernel's timers and work items and the life of a character device, is modelled
once and used by each of them.

Every lab that keeps state is modelled. 01, 02 and 07 only print. The labs in
which contexts run concurrently by themselves, 03 (polling worker), 12 (wait
queue), 14 (timer and work), 15 (kernel thread) and 17 (token bucket), have runs
of their own; the others become concurrent through several processes or threads
in their files, and share two runs.

## Inventory

| Lab | State | Operations | What is hard |
|---|---|---|---|
| 01, 02, 07 | none | print on load and unload | nothing |
| 03 `gpioctrl.c` | `*state` under a mutex, `gpio_work`, the lines | self-requeueing delayed work; `/dev` and sysfs writes that change `invert` and `poll_ms` or take a sample; six-label init; exit | worker, writers and exit all touch `gpio_work`; the sample is read outside the lock; sysfs is removed after the cancel |
| 04 `module_params.c` | parameters | sysfs writes, `read()` | `repeat_count` is loaded twice in one read while somebody writes it; the output changes its length between two reads |
| 05 `register_cdev.c` | `open_count`, file positions | open, `read()`, release | processes that share a file move each other's position |
| 06 `procfs_seqfile.c` | a bounded event list under a mutex | opens that log, seq_file iteration, clear | the lock is dropped between two reads of one listing |
| 08 `open_release_cdev.c` | one context per open file, two atomics | open, dup, close, release | contexts and counters on failing and overlapping opens and releases |
| 09 `read_write_cdev.c` | `buffer`, `data_len` under a mutex, file positions | read, write, seek; five-step init | bounds against two different lengths, holes, partial copies, threads sharing a position |
| 10 `ioctl_basics.c` | statistics and mode under a mutex | four ioctls; four-step init | the mode may change during ECHO; in-place transformations; error labels |
| 11 `concurrency_locking.c` | one counter, four ways to increment it | write, mode, reset | modes do not exclude each other, nor does reset |
| 12 `wait_queues_blocking.c` | three atomics, a wait queue, a timer | timer and sysfs producers, blocking and non-blocking `read()`, `poll()` | lock free: every interleaving of the atomics is possible; signals; lost wake-ups |
| 13 `kernel_memory.c` | one allocation slot under a mutex | allocate by three allocators, free, info, exit | exit looks at the slot without the lock, before sysfs is removed |
| 14 `timers_workqueues.c` | counts and contexts under a spinlock | timer and work callbacks, `stats` | the lock is shared by softirq and process context |
| 15 `kthreads.c` | a ring, a thread, a shared snapshot | producer thread, start and stop, draining `read()` | threads that overlap, `control` against exit, the snapshot outside any lock |
| 16 `debugfs_sysfs.c` | a counter and a flag | locked sysfs, unlocked debugfs writes | raw writes that meet an increment; exit order of two file systems |
| 17 `token_bucket.c` | level, capacity, rate, mode, counters, a timer | parameter callbacks, refill callback, `write()` | resizing against refill and consumption, int overflow, init without the lock |

Parts interact only through the kernel: a system call enters a handler of the
lab, a softirq or a kworker runs its callback, the module loader runs init and
exit. `rmmod` is refused while a file of a device whose `fops.owner` is the
module is open; an open sysfs file takes no such reference, it only makes
`sysfs_remove_group()` wait for a handler that is running. Nearly everything
that can go wrong at unload comes from that difference, so all models keep it.

## Modules

* `KernelTimer` (external): a `timer_list` as a set of flags `armed`, `running`,
  `shut`, with `mod_timer()`, expiry, and `timer_shutdown_sync()` in two parts
  (poison, wait). Delays are not represented: an armed timer may fire any time.
* `DelayedWork` (external): a `delayed_work` as a set of flags `pending`,
  `running`, `cancelling`, with `schedule_delayed_work()`, `mod_delayed_work()`
  and `cancel_delayed_work_sync()`. While a cancel waits, requeues are refused;
  after it has returned they work again, which is what `gpio_unload` is about.
* `TokenBucket` (lab 17): the life of the module (`phase`), the parameters, the
  timer, and per writer its place in `consume_write()`. A section under
  `bucket_lock` is one action; init's unlocked `tokens = capacity` is a load and
  a store; `mode` is read after the unlock. `int` wraps at `INT_MAX`, as the
  kernel is built (`-fno-strict-overflow`). The ghosts `burst` and `peak` count
  tokens spent and the largest capacity since the last tick.
* `RateLimiter`: what lab 17 promises, as an atomic limiter over unbounded
  numbers. `TokenBucket` implements it under the mapping `Limiter`.
* `BlockingDemo` (lab 12): each `atomic_*()` call is one action, and
  `wait_event_interruptible()` is expanded into test, enqueue (with the signal
  check), second test, sleep. `event_wq` is the set of entries; a wake-up visits
  all entries, since none is exclusive, and removes the readers' ones
  (autoremove). A poller stays enqueued until `poll()` returns.
* `GpioCtrl` (lab 03): `state` is a record or `NULL`; `actor` says for each user
  and for the kworker where it is in the driver. Samples are two actions, the
  read of the line and the locked section.
* `KthreadDemo` (lab 15): the ring, the task handed out by `kthread_run()`, the
  callers of `start_producer()` and `stop_producer()` (writers of `control`, and
  the loader process), and readers. Lines of the snapshot stand for its bytes;
  the load and the store of `snapshot_len` are separate actions, since readers
  race on it.
* `DropOldestQueue`: what the ring of lab 15 promises, a bounded queue that drops
  its oldest item. `KthreadDemo` implements it under the mapping `Queue`.
* `TimersWork` (lab 14): composes `KernelTimer` and `DelayedWork` with
  `stats_lock`. The lock is the line of those between `spin_lock()` and
  `spin_unlock()`: `stats_lock[u]` are the users ahead of `u`, and the first in line
  holds it. A task has its CPU (`cpu`) from when it joins the line, since spinning
  keeps it there with softirqs enabled. The callback may run on that CPU; the task
  then does not go on until the callback returns, whether it holds the lock or still
  waits. That the line is served in order is an assumption about the kernel, whose
  native spinlocks are queued. The context strings are represented by the number of
  the run that wrote them.
* `RaceDemo` (lab 11): `counter_plain++` and `reset_count++` are a load and a
  store, locked or not. The ghost `trial` counts accepted bytes since a reset and
  whether the trial is one of those `stress_test.c` makes (no switch of mode, no
  reset during a write).
* `KernelMemory` (lab 13): the slot, the statistics, and `heap`, which allocator
  gave out each address. A section under `state_lock` is several steps, since
  allocators sleep. The ghost `late` records a store after exit's look.
* `DebugfsSysfs` (lab 16): a u32 of `U32` values; the ghost `ledger` holds the
  value the counter should have, and `clear` whether a raw write has met a locked
  section half way.
* `CdevSetup`: init in steps with error labels and the exit in reverse, for labs
  09 and 10; `RwCdev` and `IoctlBasics` give the steps.
* `RwCdev` (lab 09): each call works on a copy of its file's position and the VFS
  stores it back; copies are steps of their own and may fault half way.
* `IoctlBasics` (lab 10): buffers are functions to character codes, the three
  transformations are translated as the loops work, in place. `Expected` is the
  reference definition they are checked against.
* `ProcfsSeq` (lab 06): start, show, next and stop of the iterator; start and next
  hand out a slot of `events` that show dereferences later. An event is its number.
* `OpenRelease` (lab 08): contexts are addresses; `refs` counts descriptors.
* `RegisterCdev` (lab 05) and `ModuleParams` (lab 04): texts are their lengths. The
  rounds of the two loops of lab 04 are steps.
* `MC*`: the sets and symmetries of the small instances. `MCLockLabs` (11, 13, 16)
  and `MCFileLabs` (04, 05, 06, 08, 09, 10) check several labs in one run each.
  They do not compose anything: these kernel modules share nothing, so `lab` picks
  one in `Init` and the others stay unloaded. Their properties are conjunctions of
  those of the lab modules: one claim (increments are accounted for, buffers are
  respected, rmmod leaves nothing) about each lab it applies to.
* `*_proofs`: the theorems. `TokenBucket_proofs` (17), `KthreadDemo_proofs` (15),
  `BlockingDemo_proofs` (12), `TimersWork_proofs` (14) and `GpioCtrl_proofs` (03)
  extend the module of their lab; `LockLabs_proofs` (13, 16), `RaceDemo_proofs` (11)
  and `FileLabs_proofs` (04, 05, 06, 08, 09, 10) extend the module of their run.

State variables have the names of the C variables; actions have the names of the
functions they are a part of, with a suffix for the part. `PROJECT.json` maps each
of them to its lines.

## Runs

Bounds are named constants of the modules and appear only in guards.

| Run | Shows | Bounds |
|---|---|---|
| `bucket_safety` | level in the bucket, rate limit, quiescent unload, refilling goes on, implements `RateLimiter` | 2 writers, 3 writes per load, 4-bit int, capacities -1, 0, 1, 3 and rates 0, 1, 3 besides the defaults 2 and 1; reloads unbounded |
| `blocking_safety` | no lost wake-up in read or poll, exact waiter count | 2 readers, 1 poller, 1 trigger, the timer, 2 events, opens before init has returned |
| `blocking_live` | waiting readers are served as long as events come; quiescent unload with every failure of init | 2 readers, 1 trigger, the timer, 2 events |
| `gpio_safety` | no use of freed state, LED and state agree, the LED settles on what button and inversion ask for | 2 users, `sync`, `invert` and `poll_ms`, 1 press, opens before init has returned |
| `gpio_faults` | every init and read failure: nothing left behind, polling stays alive, the pending delay is the reported one | 1 user, the other commands, 2 presses |
| `kthread_safety` | ring order, every item accounted for, implements `DropOldestQueue`, one producer, no thread after unload, a read returns what it drained, `stop_producer()` returns | ring of 2, 4 items, 2 tasks, 2 controllers, 1 reader, failing `kthread_run()` |
| `timers_live` | the lines of `stats` belong together, nothing left after rmmod, heartbeats and rmmod go on unless the softirq hits a task that holds `stats_lock` or waits for it | 2 CPUs for softirq and tasks, 1 reader, counts modulo 3; reloads unbounded |
| `lock_labs` | `IncrementsAccounted`: 11 loses no update in a locking mode and makes none up in any mixture of modes, 16 loses none across wrap and raw writes; `SlotOwnsHeap`: slot, heap and statistics of 13 agree; `InfoOfOneMoment`: what `info` shows in 13 and 16 belongs together; `NothingLeft`: rmmod of 13 and 16 leaves nothing but a late store's allocation | 2 writers, 1 resetter, 2 writes of 1 or 3 bytes with a limit of 2, 2 switches, 2 resets; 2 users of the slot, 2 addresses, sizes 0, 1 and 4 with a maximum of 3, 3 allocations; u32 of 3 values, 4 increments |
| `file_labs` | `BuffersRespected`: the output of 04 fits, copies of 09 are in bounds and do not overlap; `PositionsAccount`: positions of 09 and messages of 05 account for the bytes returned; `OpensAccounted`: contexts, ids and counters of 08, `open_count` of 05; `ListingInOrder`, `NothingClearedShown`: log and listings of 06; `HolesReadZero` in 09; `SetupUndone`: every failing init and exit of 09 and 10; `EchoIsTransform`: ECHO of 10 applies one mode in force; `ReadEnds` (04) and `CatEnds` (05): readers get to the end | 1 reader, repeat counts 0, 1, 4, 5 with a limit of 4 and room for 6; 2 cats with messages of 2 and 3 bytes; log of 3, 2 files, 6 opens; 2 contexts, 2 descriptors each; buffer of 2, 2 threads sharing a file, faulting copies; buffers of 4 characters, 1 echo against the other commands |

Two of each kind of actor are enough for the races in question, which are between
two threads, or two threads and a callback; a ring of two and four items makes it
empty, full, wrapped and overwritten twice; capacities below and above the default
make every branch of clamp, refill and both refusals happen; six opens fill a log of
three, clear it and fill it again; a limit lies between the smallest and the largest
value wherever the code clamps (bytes, sizes, repeat counts, positions). Deadlock is
checked except in the two runs of lab 14, where the system really may stop: a
softirq that waits for the task it has interrupted waits for ever.

Three runs end in a violation. They state what a comment or a document of the
repository says and show that the code does otherwise:

1. `blocking_double`: flag and id are read in two steps, two reads may return the
   same event.
2. `gpio_unload`: a `poll_ms` store during exit re-arms the worker after the
   cancel; it runs on freed state (`ExitCommands` contains `poll_ms`).
3. `timers_deadlock`: `stats_lock` is taken with plain `spin_lock()` by the worker
   and by `stats`; the timer's softirq on the CPU of one that holds it, or stands in
   line for it, waits behind the task it has interrupted, and sooner or later neither
   heartbeat is seen again.

The passing runs exclude or excuse the circumstances in which the code is known to
do otherwise than one would wish. Most are hazards in `PROJECT.json`:

* 17: parameter writes during init (`ParamsDuringInit = TRUE`) can leave more tokens
  than capacity. Parameters are also kept below overflow (`NoOverflow`): with a
  capacity and a rate whose sum exceeds `INT_MAX` the sum in `refill_fn()` wraps, and
  the tick stores a negative level. `capacity_set()` does not look at `refill_rate`,
  so that the rate may end up above the capacity although the comment at line 143
  says the two are validated against each other; all properties hold with such a
  rate.
* 12: after its line, `cat` waits for the next event instead of ending.
* 15: a `start` during exit (`ExitControl = TRUE`) leaves a thread behind; two readers
  mix their texts in the shared snapshot.
* 13: a store after exit's look leaves an allocation behind (`late`).
* 11: a switch of mode or a reset under running writes may lose updates; mode `none`
  always may.
* 16: a raw debugfs write that meets an increment or `info` half way.
* 05: a cat may be kept reading for ever by others that come and go on the same
  shared file, each of which sets the position back with its last read.
* 03: with several samplers `changes` may count too many, and with two writers of
  `poll_ms` the delay in force may be the other one's.
* 04: the diagnostics load `repeat_count` a second time and may show a count other
  than the one used.
* 14: `SelfDeadlock`, the subject of `timers_deadlock`: the callback is in line behind
  a task on its own CPU, a waiter included. Nothing else stops a heartbeat or rmmod.

## Fairness

* `TokenBucket`: weak fairness of the timer callback. Timer interrupts keep
  coming, and the callback takes only a spinlock.
* `BlockingDemo`: weak fairness of the timer callback, of a trigger store that has
  begun, and of each thread inside `read()`. Processes need not open, read or
  trigger; signals need not arrive. The bound on events stops the timer, so
  `WaitersAreServed` speaks only of states in which events remain.
* `GpioCtrl`: weak fairness of pending work and of users inside the driver. This is
  what the workqueue guarantees only as long as nobody keeps restarting the delay:
  each `poll_ms` store does so. `LedFollowsButton` therefore speaks only of
  behaviours in which those stores end.
* `KthreadDemo`: weak fairness of each thread and of each caller inside
  `start_producer()` or `stop_producer()`. `msleep_interruptible()` ends
  with its interval; a thread that `kthread_stop()` wakes goes back to
  sleep for the rest of it. The model has no clock, so how long the stop takes is not
  represented.
* `TimersWork`: weak fairness of expiry, of pending work, of the timer's callback, of
  init and of exit. The callback is not helped by its fairness: when it is behind a
  task it has interrupted no step of it is enabled. Strong fairness of the worker's
  function and of a reader, for one reason only: other users may take the CPUs
  again and again before such a task joins the line, and the scheduler gives it one in
  the end. In line weak fairness would do. Nobody need read `stats`, and a softirq may
  hit any CPU.
* `RegisterCdev`, `ModuleParams`: weak fairness of a reader that has begun; nothing in
  these handlers sleeps. Nobody need open a file or write a parameter.

## Proofs

Every theorem holds for every value of the constants that satisfies the named
assumption of the module it is about (`TokenBucketAssumption`,
`KthreadAssumption`, `BlockingAssumption`, `TimersAssumption`, `GpioAssumption`
and `NullAssumption`, `LockLabsAssumption`, `FileLabsAssumption` and
`EchoAssumption`). These say that bounds are numbers, that sets whose members are
counted are finite, that special values such as `NULL`, `FREE` and `TIMER` are none
of the processes, that limits are in order, and that a buffer has room for its NUL;
TLC evaluates them in the runs. Where a theorem has further
hypotheses they are named below, with the reason they cannot be dropped.

Each proof has the same shape: an inductive invariant stronger than the
property, one lemma per action or per group of actions that touch the same
variables, and a last step in temporal logic. A module that has many actors first
states what a step of one of them can do (`ReaderEffect`, `UserEffect`,
`SectionEffect`, `...Becomes`), shows each action to be such a step, and then
shows once that such a step keeps the invariant.

**Lab 17, `TokenBucket_proofs`.** For every set of writers, every int width, all
defaults and all parameter values.

* `TypeCorrect`: types, and that capacity and rate stay positive.
* `UnloadIsQuiescent`: by `QuiescenceInv`. The property alone is not inductive: a
  callback may still be running while exit waits. The strengthening says in which
  phases the timer may be armed or running, that it is poisoned from
  `exit_shutdown_timer` on (so the callback's own `mod_timer()` has no effect),
  and in which phases no file is open.
* `LevelStaysInBucket`, `RateIsLimited`, `RefillAdds`: by `BucketInv`, which adds
  that the parameters have values somebody chose and that init's load of capacity
  is still current when it is stored. They assume `~ParamsDuringInit` and
  `NoOverflow` (no capacity and rate that can be in force together sum up beyond
  `INT_MAX`). Neither can be dropped: a write of `capacity` during init
  refutes the first theorem without the one, a wrapping sum without the other.
* `BucketImplementsLimiter`: the refinement, step by step, under the same
  assumptions. `WrapIdentity` and `RefillBounds` carry the arithmetic.
* `RefillIsKept`: while the module is loaded the timer is armed or its callback
  runs, and `mod_timer()` is not refused. Its own invariant, no hypothesis.

**Lab 15, `KthreadDemo_proofs`.** For every ring size, any number of threads,
writers of `control` and readers.

* `ItemsAreAccounted` and `RingIsInOrder`: by `RingInv`. Neither property is
  inductive alone: `RingHoldsLatest` speaks of slots relative to `ring_head`, and
  a step that overwrites keeps it only because item `k` lives in slot
  `k % RING_SIZE` and `ring_head = next_seq % RING_SIZE`. That a new item
  overwrites none of the others is `DistinctSlots`; the change from one numbering
  to the other is `ModAdd` and `ModTurn`.
* `RingImplementsQueue`: the refinement. `ItemsLatest` gives the abstract queue in
  closed form, the `ring_count` numbers before `next_seq`, so that putting,
  dropping and draining become facts about intervals of numbers.
* `TasksAreOwned`: by `TaskInv`. The swap of `producer_task` under its lock hands a
  task to one caller; no task is stopped twice or after it is gone. No hypothesis:
  it holds with `EarlyUse`, `ExitControl` and a failing `kthread_run()`.
* `ThereIsOneProducer`, `NoThreadIsLeft`: by `UnloadInv` on top. They assume
  `ControlOnlyLive`. A `start` during exit comes after exit's own
  `stop_producer()` and leaves a thread; a `start` before init's makes init fail
  and leaves one too.
* `RacingReadersInBounds`: by `SnapshotInv`. Readers that race on the shared
  snapshot may mix their texts, but none of them leaves a buffer. No hypothesis.
* `LoneReaderGetsItems`: by `ReadInv`, which says that the lines formatted so far
  are the reader's own. It assumes `LoneReader`: two readers do mix their texts,
  and a snapshot with less room than the ring would cut the last lines.
* `StoppedThreadsWindDown`, an action property, by `TaskInv`: a thread whose stop
  flag is set ends its round, with at most one more item, and begins no other; the
  flag stays set until it has left the loop. `StepsLeft` counts what is left of the
  round. No hypothesis.

**Lab 12, `BlockingDemo_proofs`.** For any number of readers, pollers and triggers.

* `NoWakeupIsLost`: by `BlockingInv`, which relates an entry on `event_wq` to the
  places in the macro where it can be there (`QueueExact`). It keeps the second
  test of the condition, after enqueueing, from going to sleep on a stale answer.
  No hypothesis.
* `UnloadLeavesNothing`, `WaitersAreCounted`: with `DownUnused`. The count is the
  cardinality of the set of waiters; each step of a reader moves both or neither.
  They assume `NoOpenOfFailedInit`: with a file open when init fails there is a
  process in a module that is gone.
* `BlockingTypes`, under the same assumption: a later `insmod` resets `waiter_count`,
  and the process that waits in the module that is gone would take it below 0.
* `ReadsAreCovered`: reads return no more events than were posted, and never event
  0. `blocking_double` shows that two reads may return the same event; this is what
  holds all the same. By `PostsInv` and `ReturnsInv`: what was consumed, what
  `data_ready` announces and what is being announced add up to at most `event_id`,
  and reads that have returned, one pair of id and number for each, together with
  those that have still to load their id, are as many as were consumed. Exit stores
  into `data_ready` without an event; by then nobody has the device open
  (`FlagOfExit`). No hypothesis: it holds with a file open when init fails, too.
* `ProducerIsKept`: while the module is loaded the timer is armed or its callback
  runs.

**Lab 14, `TimersWork_proofs`.** For any number of readers and CPUs, no hypothesis.
`UnloadStopsHeartbeats` by `LifeInv`: a poisoned timer stays so, whereas the work is
held off only while it is being cancelled, so the order of the two in exit is part of
the invariant. `StatsAreConsistent` by `StatsInv`: count and context differ only
inside the section of the heartbeat that has stored one of them. Both also hold in the
behaviours that end in the deadlock of `timers_deadlock`. `HeartbeatsAreKept`: while the
module is live, timer and work are queued or running. `DeadlockIsForever`: the run
`timers_deadlock` shows that the callback can get in line behind a task of its own
CPU; this action property says that nothing gets it out again: what is ahead of it only
gets less, but never nothing, it does not count any more and `rmmod` does not get past
`timer_shutdown_sync()`. The worker may still count once, when it is ahead on another
CPU. That the interrupted task does not run, be it the holder or a waiter, is
`InterruptedWaits`; that it is not overtaken follows from `Line`, the part of `StatsInv`
that orders any two users in line.

**Lab 03, `GpioCtrl_proofs`.** For any number of users and every range of intervals.

* `PollingGoesOn`: while the module is live its work is queued or running. The only
  one that holds with no hypothesis; `HeldOffByExit` says why no requeue is refused.

The others assume `QuietEnds`: no `poll_ms` store during exit (the subject of
`gpio_unload`) and no file open when init fails. With either, a thread may run in a
module that is gone, and write to a `*state` that is not there.

* `GpioTypes`, `FreedStateIsUnused`, `EverythingIsUndone`: by
  `GpioInv`, which says what is held in each phase (`Resources`), through which
  interface a user can be inside in which phase (`UserLife`), and when `gpio_work`
  can be queued (`WorkLife`). None of them is inductive alone: that `kfree()` is
  safe follows from what every user and the worker can still be doing.
* `LedAgrees` also assumes that reads of the button do not fail: when the sample
  of an `invert` fails, the LED stays as it was under the old inversion until the
  next sample.
* `PollingStaysAlive`: by `DelayInv`, while `WritesTakeTurns`. Of two overlapping
  writes of `poll_ms` one can be shown and the other applied. The run has one user,
  for which this is always so.

**Labs 13 and 16, `LockLabs_proofs`; lab 11, `RaceDemo_proofs`.** For any number of
processes, addresses, sizes and every width of the u32, no hypotheses.

* `SlotAndHeapAgree`: by `MemoryInv`. The property speaks of a free `state_lock`; the
  invariant says how slot and heap differ at each place inside the sections.
* `InfoIsOfOneMoment`, `IncrementsAreCounted`: by `DebugfsInv` too; what was loaded
  under `data_lock` is still so unless a raw write came between.
  `WrapCounts` says that increments that wrap count modulo the width.
* `UnloadLeavesNothing`: exit's look at the slot and the stores that come after it.
* `EveryIncrementIsAccounted`: by `RaceInv`. The increments still to come are a
  sum over the writers; `Owed` makes them a set of pairs, writer and number, whose
  cardinality the step lemmas can follow. `FairTrial` gives, for each of the three
  locking modes, what a load or a reset half way implies.

**Labs 04, 05, 06, 08, 09 and 10, `FileLabs_proofs`.** For any number of files,
processes, threads, contexts and descriptors and buffers of every size, no
hypotheses. The specification is `FairSpec`; fairness plays no part.

* `BuffersAreRespected`: `ParamsInv` (04), where each round of the loops keeps
  length and NUL within `kbuf`, and `RwInv` (09), whose `CopyOK` says that a copy
  has the lock and lies in the data or the buffer.
* `HolesAreZero`, `PositionsAreKept`: `RwInv` again; `AccountOK` follows a position
  through the copy that a call works on. For lab 05 `RegisterInv`.
* `OpensAreAccounted`: `OpenInv` (08) and `RegisterInv` (05). A counter is the
  cardinality of the set of files between its increment and its decrement.
* `ListingsAreInOrder`, and the action property `NothingClearedIsShown`: by
  `ProcfsInv` (06). That a listing stays in order across a clear needs a bound on
  what was shown, `cleared + pos`: whatever the log holds at `pos` is later.
* `EchoAppliesOneMode`: by `EchoInv`, which keeps what was sent until `state_lock` is
  taken. The loops of the transformations are functions of the number of rounds,
  each of which touches one position; `RoundsUnique` shows that the closed form
  (`Turned` for the reversal in place) is the function with these rounds: where two
  such functions would differ there is a first round after which they do, which takes
  the place of an induction. `strlen()` is the least index of a NUL, which exists because
  handlers end the buffer with one (`LeastNumber`, from well-foundedness of `<`).
* `ReadersAlwaysGetOn`, an action property of lab 04: each step of a process that
  reads takes it to the end, its position on, or nearer to the end of the call
  (`StepsOfRead`), while the parameters change. Since positions are bounded by
  `BuffersAreRespected`, only fairness is missing for `ReadEnds`.
* `SetupIsUndone`: one lemma, `SetupStepKeeps`, for both labs. What is held is an
  initial part of the order of init and what is still to undo is that part
  reversed; `LabelsFit` says that labels and exit of each lab are of that form.

Only model-checked: all liveness properties (`EventuallyRefilled`, `WaitersAreServed`,
`LedFollowsButton`, `StopReturns`, `HeartbeatsSurvive`, `UnloadEnds`, `ReadEnds`,
`CatEnds`). Fairness and `ENABLED` are outside the prover's reach. What safety
contributes to them is proved: `RefillIsKept`, `ProducerIsKept` and `NoWakeupIsLost`,
`PollingGoesOn`, `StoppedThreadsWindDown`, `HeartbeatsAreKept`, `ReadersAlwaysGetOn`.
`HeartbeatsGoOn` of the run `timers_deadlock` is false, and `DeadlockIsForever` says
how much so.

`RefillNeverDrains` is proved and not part of a run: a tick that lowers the level is
no step of `RateLimiter`, so `ImplementsLimiter` checks it too. `TypeOK` of labs 03,
12 and 15 is proved with the rest; the runs spend their properties on what is harder.

## Not modelled

Labs 01, 02 and 07 (no state) and the user-space test programs, whose calls are the
environment actions of the models. Logging, formatting and parsing of text, uptimes,
pids and command names, time (delays and intervals, except which delay pending work
carries), and reports that read several counters without a lock and change nothing
(`status_show()` of 15, `stats_show()` of 13). The `label` string of lab 17, which
the kernel's own `module_param_string()` keeps. In lab 06, seeks other than to the
start. In lab 04, the log line about primes at load time and the parameters that only
`insmod` can set, which are constants.

Circumstances that the runs leave out, although the theorems without a hypothesis
cover them: in labs 03 and 12 an early opener combined with a later failure of init;
in lab 15 the use of `control` before init has called
`start_producer()` (`EarlyUse`). Not modelled at all: in labs 09 and 10 opens between `cdev_add()`
and the end of init.

## Plan

Every safety property of the passing runs is proved. What is left:

1. Labs 03 and 12: which of the assertions about a module in its life, such as
   `PollingAlive` and `WaiterCountExact`, still hold of a second life when a thread of
   the first one is left in it. `PollingGoesOn` and `ReadsAreCovered` are of that kind.
2. Lab 05: a measure like `StepsOfRead` for processes that share a file. Positions
   move back there, so it has to count the reads that the others have in progress.
3. Labs 09 and 10: opens before the end of init.
