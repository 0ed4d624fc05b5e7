------------------------- MODULE TimersWork_proofs -------------------------
(***************************************************************************)
(* Proofs about lab 14, for every number of readers of "stats", every set  *)
(* of CPUs and every modulus of the counters.                              *)
(***************************************************************************)
EXTENDS TimersWork, TLAPS

Counts == [Heartbeats -> Nat]

Types ==
    /\ phase \in Phases
    /\ heartbeat_timer \subseteq TimerFlags
    /\ heartbeat_work \subseteq WorkFlags
    /\ pc \in [Users -> {"idle", "lock", "count", "ctx", "resched", "emit"}]
    /\ stats_lock \in [Users -> SUBSET Users]
    /\ cpu \in [Users -> CPUs]
    /\ ticks \in Counts
    /\ last_ctx \in Counts
    /\ shown \in [Showers -> [ticks : Counts, ctx : Counts]]

(* The callback runs exactly while the timer is marked so.  From           *)
(* timer_shutdown_sync() on it cannot arm the timer again, and when that   *)
(* has returned the callback does not run.                                 *)
TimerLife ==
    /\ pc[TIMER] # "idle" <=> "running" \in heartbeat_timer
    /\ phase = "shutdown" =>
          "shut" \in heartbeat_timer /\ "armed" \notin heartbeat_timer
    /\ phase \notin {"live", "shutdown"} => timer_quiesced(heartbeat_timer)

(* The same of the work item, which is only held off while it is being     *)
(* cancelled: its function could still queue it in "shutdown".             *)
WorkLife ==
    /\ pc[WORK] # "idle" <=> "running" \in heartbeat_work
    /\ phase = "cancel" =>
          "cancelling" \in heartbeat_work /\ "pending" \notin heartbeat_work
    /\ phase # "cancel" => "cancelling" \notin heartbeat_work
    /\ phase \notin {"live", "shutdown", "cancel"} => heartbeat_work = {}

(* Before insmod and after rmmod nobody reads "stats".                     *)
ShowsLife == phase = "unloaded" => shows_drained

LifeInv == Types /\ TimerLife /\ WorkLife /\ ShowsLife

(* The users of stats_lock between spin_lock() and spin_unlock() form a    *)
(* line: of two of them one is ahead of the other, and nobody else is.     *)
(* Who has begun its section has nobody ahead, so it is alone in it.       *)
Line ==
    /\ \A u \in Users : stats_lock[u] \subseteq InLine \ {u}
    /\ \A u, v \in InLine :
          u # v => u \in stats_lock[v] \/ v \in stats_lock[u]
    /\ \A u \in Users : pc[u] = "ctx" => Holds(u)

(* A count and the context of its run differ only inside the section of    *)
(* the heartbeat that has counted and not copied yet.                      *)
CountsMatch ==
    \A h \in Heartbeats : pc[h] # "ctx" => last_ctx[h] = ticks[h]

(* What a reader has copied so far is what the counters still hold.        *)
HalfShown ==
    \A s \in Showers : pc[s] = "ctx" => shown[s].ticks = ticks

StatsInv == Line /\ CountsMatch /\ HalfShown /\ StatsBelongTogether

(* TIMER, WORK and the readers are different users of stats_lock.          *)
LEMMA UsersDiffer ==
    /\ TIMER \in Users /\ WORK \in Users /\ TIMER # WORK
    /\ TIMER \in Heartbeats /\ WORK \in Heartbeats
    /\ \A h \in Heartbeats : h \in {TIMER, WORK} /\ h \in Users
    /\ \A s \in Showers : s \in Users /\ s \notin Heartbeats
  BY TimersAssumption DEF Users, Heartbeats

(* Goto() moves one user and leaves the others where they are.             *)
LEMMA OneMoves ==
    ASSUME Types, NEW u \in Users,
           NEW from \in {"idle", "lock", "count", "ctx", "resched", "emit"},
           NEW to \in {"idle", "lock", "count", "ctx", "resched", "emit"},
           Goto(u, from, to)
    PROVE  /\ pc[u] = from
           /\ pc' \in [Users -> {"idle", "lock", "count", "ctx", "resched",
                                 "emit"}]
           /\ pc'[u] = to
           /\ \A v \in Users : v # u => pc'[v] = pc[v]
  BY DEF Types, Goto

(* Standing in line and leaving it.                                        *)
LEMMA LineTyped ==
    ASSUME Types, NEW u \in Users
    PROVE  /\ spin_lock(u) => /\ stats_lock' \in [Users -> SUBSET Users]
                              /\ cpu' \in [Users -> CPUs]
           /\ spin_unlock(u) => stats_lock' \in [Users -> SUBSET Users]
  BY DEF Types, spin_lock, spin_unlock, InLine, CPUs

-----------------------------------------------------------------------------
(* The life of the heartbeats                                              *)

(* A step in stats_lock's section, or for it, concerns neither heartbeat's *)
(* life.                                                                   *)
SectionEffect(u) ==
    /\ Types'
    /\ \A v \in Users : v # u => pc'[v] = pc[v]
    /\ pc[u] # "idle"
    /\ u \in Heartbeats => pc'[u] # "idle"
    /\ UNCHANGED <<phase, heartbeat_timer, heartbeat_work>>

(* spin_lock() and the counting of a heartbeat, up to spin_unlock().       *)
LEMMA HeartbeatSection ==
    ASSUME Types, NEW h \in Heartbeats,
           spin_lock(h) \/ heartbeat_count(h) \/ heartbeat_ctx(h)
    PROVE  SectionEffect(h)
  <1>1. h \in Users
    BY UsersDiffer
  <1>2. CASE spin_lock(h)
    <2>1. /\ Goto(h, "lock", "count")
          /\ stats_lock' \in [Users -> SUBSET Users]
          /\ cpu' \in [Users -> CPUs]
      BY <1>1, <1>2, LineTyped DEF spin_lock
    <2>2. UNCHANGED <<phase, heartbeat_timer, heartbeat_work, ticks, last_ctx,
                      shown>>
      BY <1>2 DEF spin_lock, statsVars
    <2> QED BY <1>1, <2>1, <2>2, OneMoves DEF SectionEffect, Types
  <1>3. CASE heartbeat_count(h)
    <2>1. Goto(h, "count", "ctx")
      BY <1>3 DEF heartbeat_count
    <2>2. /\ UNCHANGED <<phase, heartbeat_timer, heartbeat_work, stats_lock,
                         cpu, last_ctx, shown>>
          /\ ticks' = [ticks EXCEPT ![h] = next_tick(h)]
      BY <1>3 DEF heartbeat_count, lockVars
    <2>3. next_tick(h) \in Nat
      BY TimersAssumption DEF Types, Counts, next_tick
    <2>4. ticks' \in Counts
      BY <2>2, <2>3 DEF Types, Counts
    <2> QED BY <1>1, <2>1, <2>2, <2>4, OneMoves DEF SectionEffect, Types
  <1>4. CASE heartbeat_ctx(h)
    <2>1. /\ Goto(h, "ctx", "resched")
          /\ stats_lock' \in [Users -> SUBSET Users]
      BY <1>1, <1>4, LineTyped DEF heartbeat_ctx
    <2>2. /\ UNCHANGED <<phase, heartbeat_timer, heartbeat_work, cpu, ticks,
                         shown>>
          /\ last_ctx' = [last_ctx EXCEPT ![h] = ticks[h]]
      BY <1>4 DEF heartbeat_ctx
    <2>3. last_ctx' \in Counts
      BY <2>2 DEF Types, Counts
    <2> QED BY <1>1, <2>1, <2>2, <2>3, OneMoves DEF SectionEffect, Types
  <1> QED BY <1>2, <1>3, <1>4

(* stats_show() from its start to its end.                                 *)
LEMMA ShowSection ==
    ASSUME Types, NEW s \in Showers, stats_show(s)
    PROVE  SectionEffect(s)
  <1>1. s \in Users /\ s \notin Heartbeats
    BY UsersDiffer
  <1>2. UNCHANGED <<phase, heartbeat_timer, heartbeat_work, ticks, last_ctx>>
    BY DEF stats_show, spin_lock, show_ticks, show_ctx, show_emit, statsVars
  <1>3. Nothing \in [ticks : Counts, ctx : Counts]
    BY DEF Nothing, Zero, Counts
  <1>4. shown' \in [Showers -> [ticks : Counts, ctx : Counts]]
    <2>1. CASE spin_lock(s)
      BY <2>1 DEF Types, spin_lock, statsVars
    <2>2. CASE show_ticks(s)
      BY <2>2 DEF Types, show_ticks
    <2>3. CASE show_ctx(s)
      BY <2>3 DEF Types, show_ctx
    <2>4. CASE show_emit(s)
      BY <2>4, <1>3 DEF Types, show_emit
    <2> QED BY <2>1, <2>2, <2>3, <2>4 DEF stats_show
  <1>5. \/ Goto(s, "lock", "count") \/ Goto(s, "count", "ctx")
        \/ Goto(s, "ctx", "emit") \/ Goto(s, "emit", "idle")
    BY DEF stats_show, spin_lock, show_ticks, show_ctx, show_emit
  <1>6. /\ stats_lock' \in [Users -> SUBSET Users]
        /\ cpu' \in [Users -> CPUs]
    BY <1>1, LineTyped
       DEF Types, stats_show, show_ticks, show_ctx, show_emit, lockVars
  <1> QED BY <1>1, <1>2, <1>4, <1>5, <1>6, OneMoves DEF SectionEffect, Types

(* Such a step keeps the invariant.                                        *)
LEMMA SectionKeepsLife ==
    ASSUME LifeInv, NEW u \in Users, SectionEffect(u)
    PROVE  LifeInv'
  <1>1. TimerLife'
    BY UsersDiffer DEF LifeInv, TimerLife, SectionEffect, timer_quiesced
  <1>2. WorkLife'
    BY UsersDiffer DEF LifeInv, WorkLife, SectionEffect
  <1>3. ShowsLife'
    <2> SUFFICES ASSUME phase = "unloaded" PROVE FALSE
      BY DEF ShowsLife, SectionEffect
    <2>1. pc[u] # "idle"
      BY DEF SectionEffect
    <2>2. u \in Showers \/ u = TIMER \/ u = WORK
      BY DEF Users, Heartbeats
    <2> QED BY <2>1, <2>2 DEF LifeInv, ShowsLife, shows_drained, TimerLife,
                              WorkLife, timer_quiesced
  <1> QED BY <1>1, <1>2, <1>3 DEF LifeInv, SectionEffect

(* The timer expires, and its callback arms it again unless it is poisoned.*)
LEMMA TimerKeepsLife ==
    ASSUME LifeInv, timer_fires \/ timer_resched
    PROVE  LifeInv'
  <1>1. /\ UNCHANGED <<phase, heartbeat_work, stats_lock, ticks, last_ctx,
                       shown>>
        /\ \/ /\ Goto(TIMER, "idle", "lock")
              /\ "armed" \in heartbeat_timer
              /\ heartbeat_timer' =
                    (heartbeat_timer \ {"armed"}) \cup {"running"}
           \/ /\ Goto(TIMER, "resched", "idle")
              /\ heartbeat_timer' = timer_return(mod_timer(heartbeat_timer))
    BY DEF timer_fires, timer_resched, lockVars, statsVars, timer_can_expire,
           timer_expire, timer_rearmed
  <1>2. /\ pc' \in [Users -> {"idle", "lock", "count", "ctx", "resched",
                              "emit"}]
        /\ \A v \in Users : v # TIMER => pc'[v] = pc[v]
        /\ \/ pc[TIMER] = "idle" /\ pc'[TIMER] = "lock"
           \/ pc[TIMER] = "resched" /\ pc'[TIMER] = "idle"
    BY <1>1, UsersDiffer, OneMoves DEF LifeInv
  <1>3. heartbeat_timer' \subseteq TimerFlags
    BY <1>1 DEF LifeInv, Types, TimerFlags, mod_timer, timer_return
  <1>4. cpu' \in [Users -> CPUs]
    BY DEF timer_fires, timer_resched, lockVars, LifeInv, Types, CPUs
  <1>5. Types'
    BY <1>1, <1>2, <1>3, <1>4 DEF LifeInv, Types
  <1>6. TimerLife'
    <2>1. CASE Goto(TIMER, "idle", "lock")
      BY <1>1, <1>2, <2>1, UsersDiffer
         DEF LifeInv, TimerLife, timer_quiesced, Goto
    <2>2. CASE Goto(TIMER, "resched", "idle")
      <3>1. /\ pc[TIMER] = "resched" /\ pc'[TIMER] = "idle"
            /\ heartbeat_timer' = timer_return(mod_timer(heartbeat_timer))
        BY <1>1, <1>2, <2>2 DEF Goto
      <3>2. "running" \notin heartbeat_timer'
        BY <3>1 DEF timer_return
      <3>3. phase \in {"live", "shutdown"}
        BY <3>1 DEF LifeInv, TimerLife, timer_quiesced
      <3>4. phase = "shutdown" =>
               "shut" \in heartbeat_timer' /\ "armed" \notin heartbeat_timer'
        BY <3>1 DEF LifeInv, TimerLife, timer_return, mod_timer
      <3> QED BY <1>1, <3>1, <3>2, <3>3, <3>4 DEF TimerLife
    <2> QED BY <1>1, <2>1, <2>2
  <1>7. WorkLife' /\ ShowsLife'
    BY <1>1, <1>2, UsersDiffer
       DEF LifeInv, WorkLife, ShowsLife, shows_drained
  <1> QED BY <1>5, <1>6, <1>7 DEF LifeInv

(* The work item runs, and queues itself again unless it is cancelled.     *)
LEMMA WorkKeepsLife ==
    ASSUME LifeInv, work_fires \/ work_resched
    PROVE  LifeInv'
  <1>1. /\ UNCHANGED <<phase, heartbeat_timer, stats_lock, cpu, ticks,
                       last_ctx, shown>>
        /\ \/ /\ Goto(WORK, "idle", "lock")
              /\ "pending" \in heartbeat_work
              /\ heartbeat_work' =
                    (heartbeat_work \ {"pending"}) \cup {"running"}
           \/ /\ Goto(WORK, "resched", "idle")
              /\ heartbeat_work' =
                    work_return(schedule_delayed_work(heartbeat_work))
    BY DEF work_fires, work_resched, lockVars, statsVars, work_can_start,
           work_start
  <1>2. /\ pc' \in [Users -> {"idle", "lock", "count", "ctx", "resched",
                              "emit"}]
        /\ \A v \in Users : v # WORK => pc'[v] = pc[v]
        /\ \/ pc[WORK] = "idle" /\ pc'[WORK] = "lock"
           \/ pc[WORK] = "resched" /\ pc'[WORK] = "idle"
    BY <1>1, UsersDiffer, OneMoves DEF LifeInv
  <1>3. heartbeat_work' \subseteq WorkFlags
    BY <1>1 DEF LifeInv, Types, WorkFlags, schedule_delayed_work, work_return
  <1>4. Types'
    BY <1>1, <1>2, <1>3 DEF LifeInv, Types
  <1>5. WorkLife'
    <2>1. CASE Goto(WORK, "idle", "lock")
      BY <1>1, <1>2, <2>1, UsersDiffer DEF LifeInv, WorkLife, Goto
    <2>2. CASE Goto(WORK, "resched", "idle")
      <3>1. /\ pc[WORK] = "resched" /\ pc'[WORK] = "idle"
            /\ heartbeat_work' =
                  work_return(schedule_delayed_work(heartbeat_work))
        BY <1>1, <1>2, <2>2 DEF Goto
      <3>2. /\ "running" \notin heartbeat_work'
            /\ "cancelling" \in heartbeat_work' <=>
                  "cancelling" \in heartbeat_work
            /\ "cancelling" \in heartbeat_work =>
                  ("pending" \in heartbeat_work' <=>
                     "pending" \in heartbeat_work)
        BY <3>1 DEF work_return, schedule_delayed_work, schedulable
      <3>3. phase \in {"live", "shutdown", "cancel"}
        BY <3>1 DEF LifeInv, WorkLife
      <3> QED BY <1>1, <3>1, <3>2, <3>3 DEF LifeInv, WorkLife
    <2> QED BY <1>1, <2>1, <2>2
  <1>6. TimerLife' /\ ShowsLife'
    BY <1>1, <1>2, UsersDiffer
       DEF LifeInv, TimerLife, ShowsLife, shows_drained, timer_quiesced
  <1> QED BY <1>4, <1>5, <1>6 DEF LifeInv

(* A read of "stats" starts only while the module is loaded.               *)
LEMMA ShowBeginsKeepsLife ==
    ASSUME LifeInv, NEW s \in Showers, show_begins(s)
    PROVE  LifeInv'
  <1>1. /\ UNCHANGED <<phase, heartbeat_timer, heartbeat_work, stats_lock, cpu,
                       ticks, last_ctx, shown>>
        /\ phase # "unloaded"
        /\ Goto(s, "idle", "lock")
    BY DEF show_begins, lockVars, statsVars
  <1>2. /\ pc' \in [Users -> {"idle", "lock", "count", "ctx", "resched",
                              "emit"}]
        /\ \A v \in Users : v # s => pc'[v] = pc[v]
    BY <1>1, UsersDiffer, OneMoves DEF LifeInv
  <1>3. Types' /\ ShowsLife'
    BY <1>1, <1>2 DEF LifeInv, Types, ShowsLife
  <1>4. TimerLife' /\ WorkLife'
    BY <1>1, <1>2, UsersDiffer
       DEF LifeInv, TimerLife, WorkLife, timer_quiesced
  <1> QED BY <1>3, <1>4 DEF LifeInv

(* Loading and unloading.                                                  *)
LEMMA ModuleKeepsLife ==
    ASSUME LifeInv, timers_workqueues_init \/ timers_workqueues_exit
    PROVE  LifeInv'
  <1>1. UNCHANGED <<pc, stats_lock, cpu, shown>>
    BY DEF timers_workqueues_init, timers_workqueues_exit, init_files,
           init_heartbeats, exit_shutdown, exit_cancel, exit_cancelled,
           exit_files, lockVars, statsVars
  <1>2. CASE init_files
    <2>1. Zero \in Counts
      BY DEF Zero, Counts
    <2> QED BY <1>1, <1>2, <2>1
           DEF init_files, Advance, LifeInv, Types, Phases, TimerLife,
               WorkLife, ShowsLife, timer_quiesced
  <1>3. CASE init_heartbeats
    <2>1. /\ phase = "files" /\ phase' = "live"
          /\ heartbeat_timer' = {"armed"}
          /\ heartbeat_work' = {"pending"}
          /\ UNCHANGED <<ticks, last_ctx>>
      BY <1>3 DEF init_heartbeats, Advance, mod_timer, timer_setup,
                  schedule_delayed_work, schedulable, INIT_DELAYED_WORK,
                  statsVars
    <2>2. Types'
      BY <1>1, <2>1 DEF LifeInv, Types, Phases, TimerFlags, WorkFlags
    <2>3. pc[TIMER] = "idle" /\ pc[WORK] = "idle"
      BY <2>1 DEF LifeInv, TimerLife, WorkLife, timer_quiesced
    <2> QED BY <1>1, <2>1, <2>2, <2>3
           DEF LifeInv, TimerLife, WorkLife, ShowsLife
  <1>4. CASE exit_shutdown
    <2>1. /\ phase = "live" /\ phase' = "shutdown"
          /\ heartbeat_timer' = (heartbeat_timer \ {"armed"}) \cup {"shut"}
          /\ UNCHANGED <<heartbeat_work, ticks, last_ctx>>
      BY <1>4 DEF exit_shutdown, Advance, timer_shutdown, statsVars
    <2>2. Types'
      BY <1>1, <2>1 DEF LifeInv, Types, Phases, TimerFlags
    <2> QED BY <1>1, <2>1, <2>2 DEF LifeInv, TimerLife, WorkLife, ShowsLife
  <1>5. CASE exit_cancel
    <2>1. /\ phase = "shutdown" /\ phase' = "cancel"
          /\ "running" \notin heartbeat_timer
          /\ heartbeat_work' =
                (heartbeat_work \ {"pending"}) \cup {"cancelling"}
          /\ UNCHANGED <<heartbeat_timer, ticks, last_ctx>>
      BY <1>5 DEF exit_cancel, Advance, timer_sync_done, cancel_sync_begin,
                  statsVars
    <2>2. Types'
      BY <1>1, <2>1 DEF LifeInv, Types, Phases, WorkFlags
    <2>3. timer_quiesced(heartbeat_timer)
      BY <2>1 DEF LifeInv, TimerLife, timer_quiesced
    <2> QED BY <1>1, <2>1, <2>2, <2>3
           DEF LifeInv, TimerLife, WorkLife, ShowsLife
  <1>6. CASE exit_cancelled
    <2>1. /\ phase = "cancel" /\ phase' = "cancelled"
          /\ "running" \notin heartbeat_work
          /\ heartbeat_work' = heartbeat_work \ {"cancelling"}
          /\ UNCHANGED <<heartbeat_timer, ticks, last_ctx>>
      BY <1>6 DEF exit_cancelled, Advance, cancel_sync_done, cancel_sync_end,
                  statsVars
    <2>2. heartbeat_work' = {}
      BY <2>1 DEF LifeInv, Types, WorkFlags, WorkLife
    <2>3. Types'
      BY <1>1, <2>1, <2>2 DEF LifeInv, Types, Phases
    <2> QED BY <1>1, <2>1, <2>2, <2>3
           DEF LifeInv, TimerLife, WorkLife, ShowsLife, timer_quiesced
  <1>7. CASE exit_files
    <2>1. /\ phase \in {"cancelled", "draining"}
          /\ phase' \in {"draining", "unloaded"}
          /\ phase' = "unloaded" => shows_drained
          /\ UNCHANGED <<heartbeat_timer, heartbeat_work, ticks, last_ctx>>
      BY <1>7 DEF exit_files, Advance, statsVars
    <2> QED BY <1>1, <2>1
           DEF LifeInv, Types, Phases, TimerLife, WorkLife, ShowsLife,
               shows_drained, timer_quiesced
  <1> QED BY <1>2, <1>3, <1>4, <1>5, <1>6, <1>7
         DEF timers_workqueues_init, timers_workqueues_exit

(* The first states satisfy the invariant, and no step leaves it.          *)
LEMMA LifeInductive ==
    /\ Init => LifeInv
    /\ LifeInv /\ [Next]_vars => LifeInv'
  <1>1. Init => LifeInv
    <2>1. ASSUME Init PROVE Types
      <3>1. Zero \in Counts /\ Nothing \in [ticks : Counts, ctx : Counts]
        BY DEF Zero, Nothing, Counts
      <3> QED BY <2>1, <3>1
             DEF Init, Types, Phases, timer_static, TimerFlags,
                 INIT_DELAYED_WORK, WorkFlags
    <2> QED BY <2>1, UsersDiffer
           DEF Init, LifeInv, TimerLife, WorkLife, ShowsLife, shows_drained,
               timer_static, timer_quiesced, INIT_DELAYED_WORK
  <1>2. ASSUME LifeInv, [Next]_vars PROVE LifeInv'
    <2>1. CASE timer_fires \/ work_fires
      BY <1>2, <2>1, TimerKeepsLife, WorkKeepsLife
    <2>2. CASE heartbeat_timer_fn
      <3>1. CASE timer_resched
        BY <1>2, <3>1, TimerKeepsLife
      <3>2. TIMER \in Heartbeats /\ TIMER \in Users
        BY UsersDiffer
      <3>3. CASE spin_lock(TIMER) \/ heartbeat_count(TIMER)
                 \/ heartbeat_ctx(TIMER)
        BY <1>2, <3>2, <3>3, HeartbeatSection, SectionKeepsLife DEF LifeInv
      <3> QED BY <2>2, <3>1, <3>3 DEF heartbeat_timer_fn
    <2>3. CASE heartbeat_work_fn
      <3>1. CASE work_resched
        BY <1>2, <3>1, WorkKeepsLife
      <3>2. WORK \in Heartbeats /\ WORK \in Users
        BY UsersDiffer
      <3>3. CASE spin_lock(WORK) \/ heartbeat_count(WORK)
                 \/ heartbeat_ctx(WORK)
        BY <1>2, <3>2, <3>3, HeartbeatSection, SectionKeepsLife DEF LifeInv
      <3> QED BY <2>3, <3>1, <3>3 DEF heartbeat_work_fn
    <2>4. CASE \E s \in Showers : show_begins(s) \/ stats_show(s)
      <3>1. PICK s \in Showers : show_begins(s) \/ stats_show(s)
        BY <2>4
      <3>2. s \in Users
        BY UsersDiffer
      <3> QED BY <1>2, <3>1, <3>2, ShowBeginsKeepsLife, ShowSection,
                 SectionKeepsLife DEF LifeInv
    <2>5. CASE timers_workqueues_init \/ timers_workqueues_exit
      BY <1>2, <2>5, ModuleKeepsLife
    <2>6. CASE UNCHANGED vars
      BY <1>2, <2>6
         DEF vars, lockVars, statsVars, LifeInv, Types, TimerLife, WorkLife,
             ShowsLife, shows_drained, timer_quiesced
    <2> QED BY <1>2, <2>1, <2>2, <2>3, <2>4, <2>5, <2>6 DEF Next
  <1> QED BY <1>1, <1>2

(* timers_workqueues_exit() leaves nothing behind: when it has returned    *)
(* neither heartbeat is queued or running and nobody is in stats_show().   *)
THEOREM UnloadStopsHeartbeats == Spec => []HeartbeatsGone
  <1>1. LifeInv => HeartbeatsGone
    BY DEF LifeInv, HeartbeatsGone, TimerLife, WorkLife, ShowsLife,
           shows_drained, timer_quiesced, Users, Heartbeats
  <1> QED BY <1>1, LifeInductive, PTL DEF Spec

-----------------------------------------------------------------------------
(* What "stats" shows                                                      *)

(* Whoever stands in line and has nobody ahead is alone in its section.    *)
LEMMA AloneInSection ==
    ASSUME Line, NEW u \in InLine, Holds(u), NEW v \in Users, v # u
    PROVE  pc[v] # "ctx"
  BY DEF Line, Holds, InLine

(* A step that leaves the counters, the line and the users in it alone     *)
(* keeps the invariant.                                                    *)
LEMMA OutsideKeepsStats ==
    ASSUME StatsInv, UNCHANGED <<stats_lock, ticks, last_ctx, shown>>,
           \A u \in Users :
              pc'[u] = pc[u] \/ {pc[u], pc'[u]} \cap {"count", "ctx", "emit"} = {}
    PROVE  StatsInv'
  <1>1. InLine' = InLine
    BY DEF InLine
  <1>2. Line'
    BY <1>1 DEF StatsInv, Line, Holds
  <1> QED BY <1>2, UsersDiffer
         DEF StatsInv, CountsMatch, HalfShown, StatsBelongTogether

(* Who joins the line has everybody in it ahead.                           *)
LEMMA LockKeepsStats ==
    ASSUME Types, StatsInv, NEW u \in Users, spin_lock(u)
    PROVE  StatsInv'
  <1>1. /\ stats_lock' = [stats_lock EXCEPT ![u] = InLine]
        /\ UNCHANGED <<ticks, last_ctx, shown>>
        /\ Goto(u, "lock", "count")
    BY DEF spin_lock, statsVars
  <1>2. /\ pc[u] = "lock" /\ pc'[u] = "count"
        /\ \A v \in Users : v # u => pc'[v] = pc[v]
    BY <1>1, OneMoves
  <1>3. InLine' = InLine \cup {u} /\ u \notin InLine /\ InLine \subseteq Users
    BY <1>2 DEF InLine
  <1>4. /\ stats_lock'[u] = InLine
        /\ \A v \in Users : v # u => stats_lock'[v] = stats_lock[v]
    BY <1>1 DEF Types
  <1>5. Line'
    <2>1. \A v \in Users : stats_lock'[v] \subseteq InLine' \ {v}
      BY <1>3, <1>4 DEF StatsInv, Line
    <2>2. \A v, w \in InLine' :
             v # w => v \in stats_lock'[w] \/ w \in stats_lock'[v]
      BY <1>3, <1>4 DEF StatsInv, Line
    <2>3. \A v \in Users : pc'[v] = "ctx" => Holds(v)'
      BY <1>2, <1>4 DEF StatsInv, Line, Holds
    <2> QED BY <2>1, <2>2, <2>3 DEF Line
  <1>6. CountsMatch' /\ HalfShown' /\ StatsBelongTogether'
    BY <1>1, <1>2, UsersDiffer
       DEF StatsInv, CountsMatch, HalfShown, StatsBelongTogether
  <1> QED BY <1>5, <1>6 DEF StatsInv

(* The first in line begins its section.                                   *)
LEMMA BeginKeepsLine ==
    ASSUME Types, Line, NEW u \in Users, Goto(u, "count", "ctx"), Holds(u),
           UNCHANGED stats_lock
    PROVE  Line'
  <1>1. /\ pc[u] = "count" /\ pc'[u] = "ctx"
        /\ \A v \in Users : v # u => pc'[v] = pc[v]
    BY OneMoves
  <1>2. InLine' = InLine
    BY <1>1 DEF InLine
  <1> QED BY <1>1, <1>2 DEF Line, Holds

(* The holder leaves the line: nobody has it ahead any more.               *)
LEMMA UnlockKeepsLine ==
    ASSUME Types, Line, NEW u \in Users, NEW to \in {"resched", "emit"},
           Goto(u, "ctx", to), spin_unlock(u)
    PROVE  Line'
  <1>1. /\ pc[u] = "ctx" /\ pc'[u] = to
        /\ \A v \in Users : v # u => pc'[v] = pc[v]
    BY OneMoves
  <1>2. InLine' = InLine \ {u}
    BY <1>1 DEF InLine
  <1>3. \A v \in Users : stats_lock'[v] = stats_lock[v] \ {u}
    BY DEF spin_unlock
  <1>4. \A v \in Users : stats_lock'[v] \subseteq InLine' \ {v}
    BY <1>2, <1>3 DEF Line
  <1>5. \A v, w \in InLine' :
           v # w => v \in stats_lock'[w] \/ w \in stats_lock'[v]
    BY <1>2, <1>3 DEF Line, InLine
  <1>6. \A v \in Users : pc'[v] = "ctx" => Holds(v)'
    BY <1>1, <1>3 DEF Line, Holds
  <1> QED BY <1>4, <1>5, <1>6 DEF Line

(* A heartbeat counts, then copies the context and releases the lock.      *)
LEMMA HeartbeatKeepsStats ==
    ASSUME Types, StatsInv, NEW h \in Heartbeats,
           heartbeat_count(h) \/ heartbeat_ctx(h)
    PROVE  StatsInv'
  <1>1. h \in Users /\ \A s \in Showers : s # h /\ s \in Users
    BY UsersDiffer
  <1>2. CASE heartbeat_count(h)
    <2>1. /\ UNCHANGED <<stats_lock, last_ctx, shown>>
          /\ ticks' = [ticks EXCEPT ![h] = next_tick(h)]
          /\ Goto(h, "count", "ctx") /\ Holds(h)
      BY <1>2 DEF heartbeat_count, lockVars, Runs
    <2>2. /\ pc[h] = "count" /\ pc'[h] = "ctx"
          /\ \A v \in Users : v # h => pc'[v] = pc[v]
      BY <1>1, <2>1, OneMoves
    <2>3. \A v \in Users : v # h => pc[v] # "ctx"
      BY <1>1, <2>1, <2>2, AloneInSection DEF StatsInv, InLine
    <2>4. Line'
      BY <1>1, <2>1, BeginKeepsLine DEF StatsInv
    <2>5. CountsMatch'
      BY <2>1, <2>2, UsersDiffer DEF Types, Counts, StatsInv, CountsMatch
    <2>6. HalfShown' /\ StatsBelongTogether'
      BY <1>1, <2>1, <2>2, <2>3 DEF StatsInv, HalfShown, StatsBelongTogether
    <2> QED BY <2>4, <2>5, <2>6 DEF StatsInv
  <1>3. CASE heartbeat_ctx(h)
    <2>1. /\ spin_unlock(h) /\ Holds(h)
          /\ UNCHANGED <<ticks, shown>>
          /\ last_ctx' = [last_ctx EXCEPT ![h] = ticks[h]]
          /\ Goto(h, "ctx", "resched")
      BY <1>3 DEF heartbeat_ctx, Runs
    <2>2. /\ pc[h] = "ctx" /\ pc'[h] = "resched"
          /\ \A v \in Users : v # h => pc'[v] = pc[v]
      BY <1>1, <2>1, OneMoves
    <2>3. \A v \in Users : v # h => pc[v] # "ctx"
      BY <1>1, <2>1, <2>2, AloneInSection DEF StatsInv, InLine
    <2>4. Line'
      BY <1>1, <2>1, UnlockKeepsLine DEF StatsInv
    <2>5. CountsMatch'
      BY <2>1, <2>2, UsersDiffer DEF Types, Counts, StatsInv, CountsMatch
    <2>6. HalfShown' /\ StatsBelongTogether'
      BY <1>1, <2>1, <2>2 DEF StatsInv, HalfShown, StatsBelongTogether
    <2> QED BY <2>4, <2>5, <2>6 DEF StatsInv
  <1> QED BY <1>2, <1>3

(* stats_show() copies the counts, then the contexts, in one section.      *)
LEMMA ShowKeepsStats ==
    ASSUME Types, StatsInv, NEW s \in Showers,
           show_ticks(s) \/ show_ctx(s) \/ show_emit(s)
    PROVE  StatsInv'
  <1>1. s \in Users /\ s \notin Heartbeats
    BY UsersDiffer
  <1>2. CASE show_ticks(s)
    <2>1. /\ UNCHANGED <<stats_lock, ticks, last_ctx>>
          /\ shown' = [shown EXCEPT ![s].ticks = ticks]
          /\ Goto(s, "count", "ctx") /\ Holds(s)
      BY <1>2 DEF show_ticks, lockVars, Runs
    <2>2. /\ pc[s] = "count" /\ pc'[s] = "ctx"
          /\ \A v \in Users : v # s => pc'[v] = pc[v]
      BY <1>1, <2>1, OneMoves
    <2>3. Line' /\ CountsMatch'
      BY <1>1, <2>1, <2>2, UsersDiffer, BeginKeepsLine
         DEF StatsInv, CountsMatch
    <2>4. /\ shown'[s].ticks = ticks
          /\ \A t \in Showers : t # s => shown'[t] = shown[t]
      BY <2>1 DEF Types
    <2>5. HalfShown' /\ StatsBelongTogether'
      BY <2>1, <2>2, <2>4, UsersDiffer
         DEF StatsInv, HalfShown, StatsBelongTogether
    <2> QED BY <2>3, <2>5 DEF StatsInv
  <1>3. CASE show_ctx(s)
    <2>1. /\ spin_unlock(s) /\ Holds(s)
          /\ UNCHANGED <<ticks, last_ctx>>
          /\ shown' = [shown EXCEPT ![s].ctx = last_ctx]
          /\ Goto(s, "ctx", "emit")
      BY <1>3 DEF show_ctx, Runs
    <2>2. /\ pc[s] = "ctx" /\ pc'[s] = "emit"
          /\ \A v \in Users : v # s => pc'[v] = pc[v]
      BY <1>1, <2>1, OneMoves
    <2>3. \A v \in Users : v # s => pc[v] # "ctx"
      BY <1>1, <2>1, <2>2, AloneInSection DEF StatsInv, InLine
    <2>4. Line' /\ CountsMatch'
      BY <1>1, <2>1, <2>2, UsersDiffer, UnlockKeepsLine
         DEF StatsInv, CountsMatch
    <2>5. \A h \in Heartbeats : last_ctx[h] = ticks[h]
      BY <1>1, <2>3, UsersDiffer DEF StatsInv, CountsMatch
    <2>6. last_ctx = ticks
      BY <2>5 DEF Types, Counts
    <2>7. /\ shown'[s].ticks = ticks /\ shown'[s].ctx = last_ctx
          /\ \A t \in Showers : t # s => shown'[t] = shown[t]
      BY <2>1, <2>2 DEF Types, StatsInv, HalfShown
    <2>8. HalfShown' /\ StatsBelongTogether'
      BY <2>1, <2>2, <2>6, <2>7, UsersDiffer
         DEF StatsInv, HalfShown, StatsBelongTogether
    <2> QED BY <2>4, <2>8 DEF StatsInv
  <1>4. CASE show_emit(s)
    <2>1. /\ UNCHANGED <<stats_lock, ticks, last_ctx>>
          /\ \A t \in Showers : t # s => shown'[t] = shown[t]
          /\ Goto(s, "emit", "idle")
      BY <1>4 DEF show_emit, lockVars, Types
    <2>2. /\ pc[s] = "emit" /\ pc'[s] = "idle"
          /\ \A v \in Users : v # s => pc'[v] = pc[v]
      BY <1>1, <2>1, OneMoves
    <2>3. InLine' = InLine
      BY <1>1, <2>2 DEF InLine
    <2>4. Line'
      BY <2>1, <2>2, <2>3 DEF StatsInv, Line, Holds
    <2> QED BY <1>1, <2>1, <2>2, <2>4, UsersDiffer
           DEF StatsInv, CountsMatch, HalfShown, StatsBelongTogether
  <1> QED BY <1>2, <1>3, <1>4

(* The first states satisfy the invariant, and no step leaves it.          *)
LEMMA StatsInductive ==
    /\ Init => StatsInv
    /\ LifeInv /\ StatsInv /\ [Next]_vars => StatsInv'
  <1>1. Init => StatsInv
    BY UsersDiffer DEF Init, StatsInv, Line, InLine, CountsMatch, HalfShown,
                       StatsBelongTogether
  <1>2. ASSUME LifeInv, StatsInv, [Next]_vars PROVE StatsInv'
    <2>1. Types
      BY <1>2 DEF LifeInv
    <2>2. ASSUME NEW u \in Users, UNCHANGED <<stats_lock, ticks, last_ctx, shown>>,
                 Goto(u, "idle", "lock") \/ Goto(u, "resched", "idle")
          PROVE  StatsInv'
      BY <1>2, <2>1, <2>2, OneMoves, OutsideKeepsStats
    <2>3. CASE timer_fires \/ timer_resched
      BY <2>2, <2>3, UsersDiffer
         DEF timer_fires, timer_resched, lockVars, statsVars
    <2>4. CASE work_fires \/ work_resched
      BY <2>2, <2>4, UsersDiffer
         DEF work_fires, work_resched, lockVars, statsVars
    <2>5. ASSUME NEW h \in Heartbeats,
                 spin_lock(h) \/ heartbeat_count(h) \/ heartbeat_ctx(h)
          PROVE  StatsInv'
      BY <1>2, <2>1, <2>5, UsersDiffer, LockKeepsStats, HeartbeatKeepsStats
    <2>6. CASE heartbeat_timer_fn \/ heartbeat_work_fn
      BY <2>3, <2>4, <2>5, <2>6, UsersDiffer
         DEF heartbeat_timer_fn, heartbeat_work_fn
    <2>7. ASSUME NEW s \in Showers, show_begins(s) \/ stats_show(s)
          PROVE  StatsInv'
      <3>1. s \in Users
        BY UsersDiffer
      <3>2. CASE show_begins(s)
        BY <2>2, <3>1, <3>2 DEF show_begins, lockVars, statsVars
      <3>3. CASE spin_lock(s)
        BY <1>2, <2>1, <3>1, <3>3, LockKeepsStats
      <3> QED BY <1>2, <2>1, <2>7, <3>2, <3>3, ShowKeepsStats DEF stats_show
    <2>8. CASE init_files
      <3>1. /\ UNCHANGED <<stats_lock, pc>>
            /\ ticks' = last_ctx'
            /\ \A s \in Showers : pc[s] = "idle"
        BY <1>2, <2>8
           DEF init_files, Advance, lockVars, LifeInv, ShowsLife, shows_drained
      <3> QED BY <1>2, <3>1
             DEF StatsInv, Line, InLine, Holds, CountsMatch, HalfShown,
                 StatsBelongTogether
    <2>9. ASSUME UNCHANGED <<stats_lock, ticks, last_ctx, shown, pc>>
          PROVE  StatsInv'
      BY <1>2, <2>9, OutsideKeepsStats
    <2>10. CASE init_heartbeats \/ timers_workqueues_exit
      BY <2>9, <2>10
         DEF init_heartbeats, timers_workqueues_exit, exit_shutdown,
             exit_cancel, exit_cancelled, exit_files, lockVars, statsVars
    <2>11. CASE UNCHANGED vars
      BY <2>9, <2>11 DEF vars, lockVars, statsVars
    <2> QED BY <1>2, <2>3, <2>4, <2>6, <2>7, <2>8, <2>10, <2>11
           DEF Next, timers_workqueues_init
  <1> QED BY <1>1, <1>2

(* The lines of "stats" belong together, although the heartbeats and any   *)
(* number of readers run at the same time: a copied count always has the   *)
(* context of the run it counted.                                          *)
THEOREM StatsAreConsistent == Spec => []StatsBelongTogether
  <1>1. StatsInv => StatsBelongTogether
    BY DEF StatsInv
  <1> QED BY <1>1, StatsInductive, LifeInductive, PTL DEF Spec

-----------------------------------------------------------------------------
(* Whether the heartbeats go on                                            *)

(* While the module is loaded no heartbeat falls through between one run   *)
(* and the next: each is queued or running.                                *)
HeartbeatsKept ==
    phase = "live" =>
        /\ "shut" \notin heartbeat_timer
        /\ heartbeat_timer \cap {"armed", "running"} # {}
        /\ heartbeat_work \cap {"pending", "running"} # {}

(* heartbeat_timer_fn() and heartbeat_work_fn() reschedule themselves in   *)
(* every run.  What keeps a heartbeat from going on is therefore a run     *)
(* that never ends, not one that is forgotten.                             *)
THEOREM HeartbeatsAreKept == Spec => []HeartbeatsKept
  <1>1. Init => HeartbeatsKept
    BY DEF Init, HeartbeatsKept
  <1>2. ASSUME LifeInv, HeartbeatsKept, [Next]_vars PROVE HeartbeatsKept'
    <2>1. CASE timer_fires
      BY <1>2, <2>1 DEF timer_fires, timer_expire, HeartbeatsKept
    <2>2. CASE work_fires
      BY <1>2, <2>2 DEF work_fires, work_start, HeartbeatsKept
    <2>3. CASE timer_resched
      BY <1>2, <2>3
         DEF timer_resched, timer_rearmed, timer_return, mod_timer,
             HeartbeatsKept
    <2>4. CASE work_resched
      <3>1. phase = "live" => "cancelling" \notin heartbeat_work
        BY <1>2 DEF LifeInv, WorkLife
      <3> QED BY <1>2, <2>4, <3>1
             DEF work_resched, work_return, schedule_delayed_work,
                 schedulable, HeartbeatsKept
    <2>5. CASE init_heartbeats
      BY <2>5 DEF init_heartbeats, mod_timer, timer_setup,
                  schedule_delayed_work, schedulable, INIT_DELAYED_WORK,
                  HeartbeatsKept
    <2>6. CASE init_files \/ timers_workqueues_exit
      BY <2>6 DEF init_files, timers_workqueues_exit, exit_shutdown,
                  exit_cancel, exit_cancelled, exit_files, Advance,
                  HeartbeatsKept
    <2>7. ASSUME UNCHANGED <<phase, heartbeat_timer, heartbeat_work>>
          PROVE  HeartbeatsKept'
      BY <1>2, <2>7 DEF HeartbeatsKept
    <2>8. ASSUME NEW u \in Users, SectionEffect(u) PROVE HeartbeatsKept'
      BY <2>7, <2>8 DEF SectionEffect
    <2>9. CASE heartbeat_timer_fn \/ heartbeat_work_fn
      BY <1>2, <2>3, <2>4, <2>8, <2>9, UsersDiffer, HeartbeatSection
         DEF heartbeat_timer_fn, heartbeat_work_fn, LifeInv
    <2>10. CASE \E s \in Showers : show_begins(s) \/ stats_show(s)
      BY <1>2, <2>7, <2>8, <2>10, UsersDiffer, ShowSection
         DEF show_begins, LifeInv
    <2>11. CASE UNCHANGED vars
      BY <2>7, <2>11 DEF vars
    <2> QED BY <1>2, <2>1, <2>2, <2>5, <2>6, <2>9, <2>10, <2>11
           DEF Next, timers_workqueues_init
  <1> QED BY <1>1, <1>2, LifeInductive, PTL DEF Spec

(* The softirq never returns: the callback stands in line for ever and     *)
(* does not count again, what is ahead of it at best gets less, and rmmod  *)
(* waits in timer_shutdown_sync() or has not begun.                        *)
DeadlockStays ==
    SelfDeadlock =>
        /\ SelfDeadlock'
        /\ stats_lock'[TIMER] \subseteq stats_lock[TIMER]
        /\ ticks'[TIMER] = ticks[TIMER]
        /\ phase' \in {"live", "shutdown"}

(* A task in line that the softirq has interrupted does not run, nor does  *)
(* the callback, which is behind it.                                       *)
LEMMA InterruptedWaits ==
    ASSUME StatsInv, pc[TIMER] = "count",
           NEW b \in stats_lock[TIMER], cpu[b] = cpu[TIMER]
    PROVE  /\ b \in InLine /\ b \in Users /\ b # TIMER
           /\ ~Runs(b) /\ ~Runs(TIMER)
  <1>1. b \in InLine \ {TIMER}
    BY UsersDiffer DEF StatsInv, Line
  <1> QED BY <1>1 DEF InLine, Runs, Holds, InSoftirq

(* What a step of u does to the place of t in line: at most u goes.        *)
LineStep(u, t) ==
    /\ pc'[t] = pc[t]
    /\ stats_lock'[t] \subseteq stats_lock[t]
    /\ stats_lock[t] \ {u} \subseteq stats_lock'[t]
    /\ \A v \in InLine : cpu'[v] = cpu[v]

(* What another user does between its spin_lock() and its spin_unlock().   *)
LEMMA OthersInLine ==
    ASSUME Types, NEW u \in Users, NEW t \in InLine, u # t,
           \/ spin_lock(u)
           \/ \E from, to : Goto(u, from, to) /\ spin_unlock(u) /\ UNCHANGED cpu
           \/ \E from, to : Goto(u, from, to) /\ UNCHANGED lockVars
    PROVE  LineStep(u, t)
  <1>1. t \in Users /\ InLine \subseteq Users
    BY DEF InLine
  <1>2. pc'[t] = pc[t]
    BY <1>1 DEF spin_lock, Goto, Types
  <1>3. CASE spin_lock(u)
    <2>1. u \notin InLine
      BY <1>3 DEF spin_lock, Goto, InLine
    <2>2. stats_lock'[t] = stats_lock[t]
      BY <1>1, <1>3 DEF spin_lock, Types
    <2>3. \A v \in InLine : cpu'[v] = cpu[v]
      BY <1>1, <1>3, <2>1 DEF spin_lock, Types
    <2> QED BY <1>2, <2>2, <2>3 DEF LineStep
  <1>4. CASE spin_unlock(u) /\ UNCHANGED cpu
    BY <1>1, <1>2, <1>4 DEF LineStep, spin_unlock
  <1>5. CASE UNCHANGED lockVars
    BY <1>2, <1>5 DEF LineStep, lockVars
  <1> QED BY <1>3, <1>4, <1>5

(* The interrupted task never gets on, so the callback waits for ever.     *)
(* timers_workqueues.c takes stats_lock with plain spin_lock() everywhere, *)
(* in softirq context too.                                                 *)
THEOREM DeadlockIsForever == Spec => [][DeadlockStays]_vars
  <1>1. ASSUME LifeInv, StatsInv, [Next]_vars, SelfDeadlock
        PROVE  DeadlockStays
    <2>1. PICK b \in stats_lock[TIMER] : cpu[b] = cpu[TIMER]
      BY <1>1 DEF SelfDeadlock
    <2>2. /\ pc[TIMER] = "count" /\ "running" \in heartbeat_timer
          /\ phase \in {"live", "shutdown"}
      BY <1>1 DEF SelfDeadlock, LifeInv, TimerLife, timer_quiesced
    <2>3. TIMER \in InLine /\ Types
      BY <1>1, <2>2, UsersDiffer DEF InLine, LifeInv
    <2>4. /\ b \in InLine /\ b \in Users /\ b # TIMER
          /\ ~Runs(b) /\ ~Runs(TIMER)
      BY <1>1, <2>1, <2>2, InterruptedWaits
    <2>5. ASSUME NEW u, u # b, LineStep(u, TIMER), ticks'[TIMER] = ticks[TIMER],
                 phase' \in {"live", "shutdown"}
          PROVE  DeadlockStays
      <3>1. /\ b \in stats_lock'[TIMER] /\ pc'[TIMER] = "count"
            /\ cpu'[b] = cpu'[TIMER]
            /\ stats_lock'[TIMER] \subseteq stats_lock[TIMER]
        BY <2>1, <2>2, <2>3, <2>4, <2>5 DEF LineStep
      <3> QED BY <2>5, <3>1 DEF DeadlockStays, SelfDeadlock
    <2>6. ASSUME UNCHANGED <<lockVars, pc, ticks>>,
                 phase' \in {"live", "shutdown"}
          PROVE  DeadlockStays
      BY <1>1, <2>6 DEF DeadlockStays, SelfDeadlock, lockVars
    <2>7. ~timer_fires /\ ~heartbeat_timer_fn
      BY <2>2, <2>4
         DEF timer_fires, heartbeat_timer_fn, spin_lock, heartbeat_count,
             heartbeat_ctx, timer_resched, Goto
    <2>8. CASE work_fires \/ heartbeat_work_fn
      <3>1. ticks'[TIMER] = ticks[TIMER] /\ phase' = phase
        BY <2>3, <2>8, UsersDiffer
           DEF work_fires, heartbeat_work_fn, spin_lock, heartbeat_count,
               heartbeat_ctx, work_resched, statsVars, Types, Counts
      <3>2. b # WORK
        <4> SUFFICES ASSUME b = WORK PROVE FALSE
          OBVIOUS
        <4>1. pc[WORK] \in {"count", "ctx"} /\ ~Runs(WORK)
          BY <2>4 DEF InLine
        <4> QED BY <2>8, <4>1
               DEF work_fires, heartbeat_work_fn, spin_lock, heartbeat_count,
                   heartbeat_ctx, work_resched, Goto
      <3>3. \/ spin_lock(WORK)
            \/ \E from, to :
                  Goto(WORK, from, to) /\ spin_unlock(WORK) /\ UNCHANGED cpu
            \/ \E from, to : Goto(WORK, from, to) /\ UNCHANGED lockVars
        BY <2>8 DEF work_fires, heartbeat_work_fn, heartbeat_count,
                    heartbeat_ctx, work_resched
      <3>4. LineStep(WORK, TIMER)
        BY <2>3, <3>3, UsersDiffer, OthersInLine
      <3> QED BY <2>2, <2>5, <3>1, <3>2, <3>4
    <2>9. ASSUME NEW s \in Showers, show_begins(s) \/ stats_show(s)
          PROVE  DeadlockStays
      <3>1. s \in Users /\ s # TIMER
        BY UsersDiffer
      <3>2. ticks' = ticks /\ phase' = phase
        BY <2>9 DEF show_begins, stats_show, spin_lock, show_ticks, show_ctx,
                    show_emit, statsVars
      <3>3. b # s
        <4> SUFFICES ASSUME b = s PROVE FALSE
          OBVIOUS
        <4>1. pc[s] \in {"count", "ctx"} /\ ~Runs(s)
          BY <2>4 DEF InLine
        <4> QED BY <2>9, <4>1
               DEF show_begins, stats_show, spin_lock, show_ticks, show_ctx,
                   show_emit, Goto
      <3>4. \/ spin_lock(s)
            \/ \E from, to :
                  Goto(s, from, to) /\ spin_unlock(s) /\ UNCHANGED cpu
            \/ \E from, to : Goto(s, from, to) /\ UNCHANGED lockVars
        BY <2>9 DEF show_begins, stats_show, show_ticks, show_ctx, show_emit
      <3>5. LineStep(s, TIMER)
        BY <2>3, <3>1, <3>4, OthersInLine
      <3> QED BY <2>2, <2>5, <3>2, <3>3, <3>5
    <2>10. CASE exit_shutdown
      BY <2>6, <2>10 DEF exit_shutdown, Advance, statsVars
    <2>11. ~timers_workqueues_init /\ ~exit_cancel /\ ~exit_cancelled
           /\ ~exit_files
      BY <2>2 DEF timers_workqueues_init, init_files, init_heartbeats,
                  exit_cancel, exit_cancelled, exit_files, Advance,
                  timer_sync_done
    <2>12. CASE UNCHANGED vars
      BY <2>2, <2>6, <2>12 DEF vars, statsVars
    <2> QED BY <1>1, <2>7, <2>8, <2>9, <2>10, <2>11, <2>12
           DEF Next, timers_workqueues_exit
  <1>2. LifeInv /\ StatsInv /\ [Next]_vars => DeadlockStays
    BY <1>1 DEF DeadlockStays
  <1> QED BY <1>2, LifeInductive, StatsInductive, PTL DEF Spec
=============================================================================
