----------------------------- MODULE TimersWork -----------------------------
(***************************************************************************)
(* Lab 14, src/14_timers_workqueues/timers_workqueues.c: a timer and a     *)
(* delayed work item count their runs under stats_lock and reschedule      *)
(* themselves; the sysfs file "stats" shows both counts.                   *)
(*                                                                         *)
(* The timer's callback is a softirq: the task it interrupts on its CPU    *)
(* waits until it returns.  All users of stats_lock take it with plain     *)
(* spin_lock(), which leaves softirqs enabled, while they spin for it too. *)
(* The kernel's spinlocks are queued: whoever comes first gets it first.   *)
(* What format_ctx() writes is represented by the number of the run that   *)
(* wrote it, 0 before any.                                                 *)
(***************************************************************************)
EXTENDS Naturals, KernelTimer, DelayedWork

CONSTANTS
    SoftirqCPUs,    \* CPUs where the timer may expire
    TaskCPUs,       \* CPUs where kworkers and readers of "stats" run
    TIMER, WORK,    \* the two heartbeats
    Showers,        \* processes that read "stats"
    TickModulus     \* bound: the counters wrap here, in the code at 2^64

ASSUME TimersAssumption ==
    /\ TIMER # WORK
    /\ {TIMER, WORK} \cap Showers = {}
    /\ TickModulus \in Nat \ {0}

VARIABLES
    phase,
    heartbeat_timer, heartbeat_work,
    stats_lock,                     \* per user: who is ahead of it in line
    cpu,                            \* per user: where it runs, if it matters
    pc,                             \* per user of stats_lock
    ticks, last_ctx,                \* timer_ticks, work_ticks; *_last_ctx
    shown                           \* per shower: its locals

lockVars == <<stats_lock, cpu>>
statsVars == <<ticks, last_ctx, shown>>
vars == <<phase, heartbeat_timer, heartbeat_work, lockVars, pc, statsVars>>

Heartbeats == {TIMER, WORK}

Users == Heartbeats \cup Showers

CPUs == SoftirqCPUs \cup TaskCPUs

Phases == {"unloaded",
           "files",      \* init: the sysfs group exists
           "live",
           "shutdown",   \* exit: in timer_shutdown_sync()
           "cancel",     \* exit: in cancel_delayed_work_sync()
           "cancelled",  \* exit: only the sysfs group is left
           "draining"}   \* exit: in sysfs_remove_group()

Zero == [h \in Heartbeats |-> 0]

Nothing == [ticks |-> Zero, ctx |-> Zero]

Init ==
    /\ phase = "unloaded"
    /\ heartbeat_timer = timer_static
    /\ heartbeat_work = INIT_DELAYED_WORK
    /\ stats_lock = [u \in Users |-> {}]
    /\ cpu \in [Users -> CPUs]
    /\ pc = [u \in Users |-> "idle"]
    /\ ticks = Zero
    /\ last_ctx = Zero
    /\ shown = [s \in Showers |-> Nothing]

Goto(u, from, to) ==
    /\ pc[u] = from
    /\ pc' = [pc EXCEPT ![u] = to]

-----------------------------------------------------------------------------
(* stats_lock: the first in line holds it, the others spin                 *)

InLine == {u \in Users : pc[u] \in {"count", "ctx"}}

InSoftirq(c) == pc[TIMER] # "idle" /\ cpu[TIMER] = c

(* A task may stand in line on a CPU where no softirq runs and no task in  *)
(* line does: spin_lock() keeps it from being preempted.                   *)
CanRunOn(c) ==
    /\ ~InSoftirq(c)
    /\ \A u \in InLine \ {TIMER} : cpu[u] # c

spin_lock(u) ==
    /\ Goto(u, "lock", "count")
    /\ stats_lock' = [stats_lock EXCEPT ![u] = InLine]
    /\ IF u = TIMER
       THEN UNCHANGED cpu
       ELSE \E c \in TaskCPUs : CanRunOn(c) /\ cpu' = [cpu EXCEPT ![u] = c]
    /\ UNCHANGED <<phase, heartbeat_timer, heartbeat_work, statsVars>>

(* mutant: the section is not protected                                    *)
lock_ignored(u) == TRUE

Holds(u) == stats_lock[u] = {}

(* The holder goes on unless the softirq has interrupted it.               *)
Runs(u) == Holds(u) /\ (u # TIMER => ~InSoftirq(cpu[u]))

(* mutant: the lock stays taken                                            *)
lock_kept(u) == UNCHANGED stats_lock

spin_unlock(u) == stats_lock' = [v \in Users |-> stats_lock[v] \ {u}]

-----------------------------------------------------------------------------
(* heartbeat_timer_fn(), heartbeat_work_fn(): count, copy ctx, reschedule  *)

timer_fires ==
    /\ timer_can_expire(heartbeat_timer)
    /\ heartbeat_timer' = timer_expire(heartbeat_timer)
    /\ \E c \in SoftirqCPUs : cpu' = [cpu EXCEPT ![TIMER] = c]
    /\ Goto(TIMER, "idle", "lock")
    /\ UNCHANGED <<phase, heartbeat_work, stats_lock, statsVars>>

(* the kworker, which first sleeps                                         *)
work_fires ==
    /\ work_can_start(heartbeat_work)
    /\ heartbeat_work' = work_start(heartbeat_work)
    /\ Goto(WORK, "idle", "lock")
    /\ UNCHANGED <<phase, heartbeat_timer, lockVars, statsVars>>

next_tick(h) == (ticks[h] + 1) % TickModulus

heartbeat_count(h) ==
    /\ Runs(h)
    /\ Goto(h, "count", "ctx")
    /\ ticks' = [ticks EXCEPT ![h] = next_tick(h)]
    /\ UNCHANGED <<phase, heartbeat_timer, heartbeat_work, lockVars,
                   last_ctx, shown>>

heartbeat_ctx(h) ==
    /\ Runs(h)
    /\ Goto(h, "ctx", "resched")
    /\ last_ctx' = [last_ctx EXCEPT ![h] = ticks[h]]
    /\ spin_unlock(h)
    /\ UNCHANGED <<phase, heartbeat_timer, heartbeat_work, cpu, ticks, shown>>

(* mutant: the callback forgets to arm the timer again                     *)
timer_not_rearmed(t) == t

timer_rearmed(t) == mod_timer(t)

timer_resched ==
    /\ Goto(TIMER, "resched", "idle")
    /\ heartbeat_timer' = timer_return(timer_rearmed(heartbeat_timer))
    /\ UNCHANGED <<phase, heartbeat_work, lockVars, statsVars>>

work_resched ==
    /\ Goto(WORK, "resched", "idle")
    /\ heartbeat_work' = work_return(schedule_delayed_work(heartbeat_work))
    /\ UNCHANGED <<phase, heartbeat_timer, lockVars, statsVars>>

heartbeat_timer_fn ==
    \/ spin_lock(TIMER)
    \/ heartbeat_count(TIMER)
    \/ heartbeat_ctx(TIMER)
    \/ timer_resched

heartbeat_work_fn ==
    \/ spin_lock(WORK)
    \/ heartbeat_count(WORK)
    \/ heartbeat_ctx(WORK)
    \/ work_resched

-----------------------------------------------------------------------------
(* stats_show()                                                            *)

show_begins(s) ==
    /\ phase \notin {"unloaded", "draining"}
    /\ Goto(s, "idle", "lock")
    /\ UNCHANGED <<phase, heartbeat_timer, heartbeat_work, lockVars, statsVars>>

show_ticks(s) ==
    /\ Runs(s)
    /\ Goto(s, "count", "ctx")
    /\ shown' = [shown EXCEPT ![s].ticks = ticks]
    /\ UNCHANGED <<phase, heartbeat_timer, heartbeat_work, lockVars,
                   ticks, last_ctx>>

show_ctx(s) ==
    /\ Runs(s)
    /\ Goto(s, "ctx", "emit")
    /\ shown' = [shown EXCEPT ![s].ctx = last_ctx]
    /\ spin_unlock(s)
    /\ UNCHANGED <<phase, heartbeat_timer, heartbeat_work, cpu, ticks,
                   last_ctx>>

show_emit(s) ==
    /\ Goto(s, "emit", "idle")
    /\ shown' = [shown EXCEPT ![s] = Nothing]
    /\ UNCHANGED <<phase, heartbeat_timer, heartbeat_work, lockVars,
                   ticks, last_ctx>>

stats_show(s) ==
    spin_lock(s) \/ show_ticks(s) \/ show_ctx(s) \/ show_emit(s)

-----------------------------------------------------------------------------
(* timers_workqueues_init() and timers_workqueues_exit()                   *)

Advance(from, to) == phase = from /\ phase' = to

(* A failure undoes the kobject: nothing has changed.                      *)
init_files ==
    /\ Advance("unloaded", "files")
    /\ ticks' = Zero
    /\ last_ctx' = Zero
    /\ UNCHANGED <<heartbeat_timer, heartbeat_work, lockVars, pc, shown>>

init_heartbeats ==
    /\ Advance("files", "live")
    /\ heartbeat_timer' = mod_timer(timer_setup)
    /\ heartbeat_work' = schedule_delayed_work(INIT_DELAYED_WORK)
    /\ UNCHANGED <<lockVars, pc, statsVars>>

exit_shutdown ==
    /\ Advance("live", "shutdown")
    /\ heartbeat_timer' = timer_shutdown(heartbeat_timer)
    /\ UNCHANGED <<heartbeat_work, lockVars, pc, statsVars>>

exit_cancel ==
    /\ Advance("shutdown", "cancel")
    /\ timer_sync_done(heartbeat_timer)
    /\ heartbeat_work' = cancel_sync_begin(heartbeat_work)
    /\ UNCHANGED <<heartbeat_timer, lockVars, pc, statsVars>>

exit_cancelled ==
    /\ Advance("cancel", "cancelled")
    /\ cancel_sync_done(heartbeat_work)
    /\ heartbeat_work' = cancel_sync_end(heartbeat_work)
    /\ UNCHANGED <<heartbeat_timer, lockVars, pc, statsVars>>

(* mutant: nobody waits for a read of "stats"                              *)
shows_ignored == TRUE

shows_drained == \A s \in Showers : pc[s] = "idle"

(* sysfs_remove_group() refuses new readers of "stats", then waits for the *)
(* others.                                                                 *)
exit_files ==
    /\ \/ Advance("cancelled", "draining")
       \/ shows_drained /\ Advance("draining", "unloaded")
    /\ UNCHANGED <<heartbeat_timer, heartbeat_work, lockVars, pc,
                   statsVars>>

timers_workqueues_init == init_files \/ init_heartbeats

timers_workqueues_exit ==
    exit_shutdown \/ exit_cancel \/ exit_cancelled \/ exit_files

-----------------------------------------------------------------------------
Next ==
    \/ timer_fires
    \/ work_fires
    \/ heartbeat_timer_fn
    \/ heartbeat_work_fn
    \/ \E s \in Showers : show_begins(s) \/ stats_show(s)
    \/ timers_workqueues_init
    \/ timers_workqueues_exit

(* Timers expire, kworkers and readers are scheduled, and exit is not      *)
(* abandoned.  The callback's turn for the lock does not pass.  A task may *)
(* find no CPU again and again, but gets one if there is one as often.     *)
Fairness ==
    /\ WF_vars(timer_fires)
    /\ WF_vars(work_fires)
    /\ WF_vars(heartbeat_timer_fn)
    /\ SF_vars(heartbeat_work_fn)
    /\ \A s \in Showers : SF_vars(stats_show(s))
    /\ WF_vars(init_heartbeats)
    /\ WF_vars(exit_cancel \/ exit_cancelled \/ exit_files)

Spec == Init /\ [][Next]_vars

FairSpec == Spec /\ Fairness

-----------------------------------------------------------------------------
(* The lines of "stats" belong together: the context shown for a heartbeat *)
(* is that of the run the count shown with it counted.                     *)
StatsBelongTogether ==
    \A s \in Showers : pc[s] = "emit" => shown[s].ctx = shown[s].ticks

(* After rmmod neither heartbeat is queued or running and nobody is in     *)
(* stats_show(): exit waited for the callbacks and for the readers, and    *)
(* neither heartbeat rescheduled itself once it was stopped.               *)
HeartbeatsGone ==
    phase = "unloaded" =>
        /\ timer_quiesced(heartbeat_timer)
        /\ heartbeat_work = {}
        /\ \A u \in Users : pc[u] = "idle"

(* The callback stands in line behind a task that it has interrupted: one  *)
(* that holds stats_lock, or one that spins for it.                        *)
SelfDeadlock ==
    /\ pc[TIMER] = "count"
    /\ \E u \in stats_lock[TIMER] : cpu[u] = cpu[TIMER]

(* While the module is loaded each heartbeat is queued again and again;    *)
(* the one thing that can stop them is that the timer's softirq hits a     *)
(* task on the same CPU between its spin_lock() and its spin_unlock(),     *)
(* whether it has the lock already or waits for another CPU to release it. *)
HeartbeatsSurvive ==
    LET Over == phase # "live" \/ SelfDeadlock
    IN  /\ phase = "live" ~> Over \/ "armed" \in heartbeat_timer
        /\ phase = "live" ~> Over \/ "pending" \in heartbeat_work

(* rmmod ends, but for the same case: neither the callbacks nor the        *)
(* readers hold it up for ever.                                            *)
UnloadEnds == phase = "shutdown" ~> phase = "unloaded" \/ SelfDeadlock

(* timers_workqueues.c:25, "each rescheduling itself forever at its own    *)
(* interval": neither heartbeat ever dies while the module is loaded.      *)
HeartbeatsGoOn ==
    /\ phase = "live" ~> phase # "live" \/ "armed" \in heartbeat_timer
    /\ phase = "live" ~> phase # "live" \/ "pending" \in heartbeat_work
=============================================================================
