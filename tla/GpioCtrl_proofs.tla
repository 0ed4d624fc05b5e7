-------------------------- MODULE GpioCtrl_proofs --------------------------
(***************************************************************************)
(* Proofs about lab 03, for every number of users of its two interfaces    *)
(* and every range of polling intervals.                                   *)
(***************************************************************************)
EXTENDS GpioCtrl, TLAPS

(* Nobody has opened /dev/gpioctrl when init fails after misc_register(),  *)
(* and no write of poll_ms overlaps gpioctrl_exit(): that one could queue  *)
(* gpio_work after exit has cancelled it.                                  *)
QuietEnds ==
    /\ ~EarlyOpen \/ "sysfs" \notin InitFaults
    /\ "poll_ms" \notin ExitCommands

(* What init has acquired, undone in the reverse order.                    *)
Resources ==
    /\ state = NULL <=> phase = "unloaded"
    /\ gdev = IF phase \in {"unloaded", "allocated"} THEN 0 ELSE 1
    /\ phase \in {"unloaded", "allocated", "found", "ledoff"} => hwLed = 0

(* Where in the module's life a user can be inside the driver.             *)
UserLife(u) ==
    /\ actor[u].via = "none" <=> actor[u].pc = "idle"
    /\ actor[u].via = "dev" =>
          \/ phase \in {"sysfs", "live"}
          \/ EarlyOpen /\ phase = "misc"
    /\ actor[u].via = "sysfs" =>
          \/ phase \in {"sysfs", "live"}
          \/ /\ phase \in {"cancelling", "cancelled"}
             /\ actor[u].cmd \in ExitCommands

(* What a user carries from one step to the next.                          *)
UserArg(u) ==
    /\ actor[u].pc \notin {"delay", "schedule"}
    /\ actor[u].pc \in {"poll_ms", "mod"} =>
          /\ actor[u].cmd = "poll_ms"
          /\ actor[u].arg \in MIN_POLL_MS..MAX_POLL_MS
    /\ actor[u].pc = "invert" => actor[u].cmd = "invert"
    /\ actor[u].pc \in {"invert", "apply"} => actor[u].arg \in {0, 1}

UsersOK == \A u \in Users : UserLife(u) /\ UserArg(u)

(* The worker is in gpioctrl_work_fn() exactly while its work runs.        *)
WorkerOK ==
    /\ actor[KWORKER].pc \in {"idle", "sample", "apply", "delay", "schedule"}
    /\ actor[KWORKER].pc # "idle" <=> "running" \in gpio_work
    /\ actor[KWORKER].pc = "apply" => actor[KWORKER].arg \in {0, 1}

(* gpio_work is queued at the earliest by a write of poll_ms that comes    *)
(* before the end of init, and not after cancel_delayed_work_sync().       *)
WorkLife ==
    /\ "cancelling" \in gpio_work <=> phase = "cancelling"
    /\ phase = "cancelling" => "pending" \notin gpio_work
    /\ phase \notin {"misc", "sysfs", "live", "cancelling"} => gpio_work = {}
    /\ phase = "misc" /\ ~EarlyOpen => gpio_work = {}

(* Polling goes on, however many users write poll_ms.                      *)
WorkAlive == phase = "live" => gpio_work \cap {"pending", "running"} # {}

GpioInv ==
    /\ TypeOK
    /\ Resources
    /\ UsersOK
    /\ WorkerOK
    /\ WorkLife
    /\ WorkAlive

-----------------------------------------------------------------------------
(* How the record of one thread changes                                    *)

ActorPCs ==
    UserCommands \cup {"idle", "sample", "apply", "mod", "delay", "schedule"}

(* Actor a has the record new, and the others keep theirs.                 *)
Becomes(a, new) ==
    /\ actor' \in [Actors -> ActorState]
    /\ actor'[a] = new
    /\ \A b \in Actors : b # a => actor'[b] = actor[b]

(* A thread goes to another place in the code.                             *)
LEMMA ActorGoes ==
    ASSUME TypeOK, NEW a \in Actors, NEW to \in ActorPCs, Goto(a, to)
    PROVE  \E new \in ActorState :
              /\ Becomes(a, new)
              /\ new.pc = to
              /\ new.cmd = actor[a].cmd
              /\ new.via = actor[a].via
              /\ new.arg = actor[a].arg
  <1>1. actor \in [Actors -> ActorState] /\ actor[a] \in ActorState
    BY DEF TypeOK
  <1>2. PICK new : new = [actor[a] EXCEPT !.pc = to]
    OBVIOUS
  <1>3. /\ new \in ActorState
        /\ new.pc = to
        /\ new.cmd = actor[a].cmd
        /\ new.via = actor[a].via
        /\ new.arg = actor[a].arg
    BY <1>1, <1>2 DEF ActorState, ActorPCs
  <1>4. actor' = [actor EXCEPT ![a] = new]
    BY <1>2 DEF Goto
  <1> QED BY <1>1, <1>3, <1>4 DEF Becomes

(* A thread goes on with a value it has read.                              *)
Carries(a, to, v) == actor' = [actor EXCEPT ![a].pc = to, ![a].arg = v]

(* What that does to the thread's record.                                  *)
LEMMA ActorTakes ==
    ASSUME TypeOK, NEW a \in Actors, NEW to \in ActorPCs, NEW v \in Nat,
           Carries(a, to, v)
    PROVE  \E new \in ActorState :
              /\ Becomes(a, new)
              /\ new.pc = to
              /\ new.cmd = actor[a].cmd
              /\ new.via = actor[a].via
              /\ new.arg = v
  <1>1. actor \in [Actors -> ActorState] /\ actor[a] \in ActorState
    BY DEF TypeOK
  <1>2. PICK new : new = [actor[a] EXCEPT !.pc = to, !.arg = v]
    OBVIOUS
  <1>3. /\ new \in ActorState
        /\ new.pc = to
        /\ new.cmd = actor[a].cmd
        /\ new.via = actor[a].via
        /\ new.arg = v
    BY <1>1, <1>2 DEF ActorState, ActorPCs
  <1>4. actor' = [actor EXCEPT ![a] = new]
    BY <1>1, <1>2 DEF Carries
  <1> QED BY <1>1, <1>3, <1>4 DEF Becomes

(* A thread leaves the driver.                                             *)
LEMMA ActorFinishes ==
    ASSUME TypeOK, NEW a \in Actors, Finish(a)
    PROVE  /\ Becomes(a, Idle)
           /\ Idle \in ActorState
           /\ Idle.pc = "idle" /\ Idle.via = "none"
  <1>1. /\ Idle \in ActorState
        /\ Idle.pc = "idle" /\ Idle.via = "none"
    BY DEF Idle, ActorState
  <1> QED BY <1>1 DEF Becomes, Finish, TypeOK

(* What *state holds while it is allocated.                                *)
StateOK ==
    /\ state \in GpioctrlState
    /\ state.poll_ms \in (MIN_POLL_MS..MAX_POLL_MS) \cup {InitialPoll}

(* A sample is applied.                                                    *)
LEMMA SampleApplied ==
    ASSUME GpioInv, state # NULL, NEW a \in Actors, sample_apply(a),
           actor[a].arg \in {0, 1}
    PROVE  /\ StateOK'
           /\ state'.led = desired_led(actor[a].arg)
           /\ state'.button = actor[a].arg
           /\ state'.invert = state.invert
           /\ state'.poll_ms = state.poll_ms
           /\ desired_led(actor[a].arg) \in {0, 1}
           /\ hwLed' = IF desired_led(actor[a].arg) # state.led
                       THEN desired_led(actor[a].arg) ELSE hwLed
           /\ hwLed' \in {0, 1}
           /\ SampleDone(a)
           /\ UNCHANGED <<phase, hardware, work>>
  <1>1. StateOK /\ hwLed \in {0, 1}
    BY DEF GpioInv, TypeOK, StateOK
  <1>2. desired_led(actor[a].arg) \in {0, 1}
    BY <1>1 DEF desired_led
  <1>3. PICK n : n = IF changed(actor[a].arg) THEN state.changes + 1
                                              ELSE state.changes
    OBVIOUS
  <1>4. n \in Nat
    BY <1>1, <1>3 DEF StateOK, GpioctrlState
  <1>5. PICK b \in {0, 1} : b = actor[a].arg
    OBVIOUS
  <1>6. PICK l \in {0, 1} : l = desired_led(actor[a].arg)
    BY <1>2
  <1>7. state' = [state EXCEPT !.button = b, !.led = l, !.changes = n]
    BY <1>3, <1>5, <1>6 DEF sample_apply
  <1>8. /\ state' \in GpioctrlState
        /\ state'.button = b /\ state'.led = l
        /\ state'.invert = state.invert /\ state'.poll_ms = state.poll_ms
    BY <1>1, <1>4, <1>7 DEF StateOK, GpioctrlState
  <1>9. /\ hwLed' = IF l # state.led THEN l ELSE hwLed
        /\ SampleDone(a)
        /\ UNCHANGED <<phase, hardware, work>>
    BY <1>6 DEF sample_apply
  <1> QED BY <1>1, <1>5, <1>6, <1>8, <1>9 DEF StateOK

(* A thread inside the driver has *state to work on.                       *)
LEMMA InsideHasState ==
    ASSUME GpioInv, NEW a \in Actors, ~At(a, "idle")
    PROVE  /\ state # NULL
           /\ phase \in {"misc", "sysfs", "live", "cancelling", "cancelled"}
           /\ StateOK
  <1>1. CASE a = KWORKER
    <2>1. gpio_work # {}
      BY <1>1 DEF GpioInv, WorkerOK, At
    <2> QED BY <2>1 DEF GpioInv, WorkLife, Resources, TypeOK, StateOK
  <1>2. CASE a \in Users
    <2>1. actor[a].via \in {"dev", "sysfs"}
      BY <1>2 DEF GpioInv, UsersOK, UserLife, At, TypeOK, ActorState
    <2> QED BY <1>2, <2>1
           DEF GpioInv, UsersOK, UserLife, Resources, TypeOK, StateOK
  <1> QED BY <1>1, <1>2 DEF Actors

-----------------------------------------------------------------------------
(* A user's steps                                                          *)

UserEffect(u) ==
    /\ UNCHANGED <<phase, hardware>>
    /\ phase \in {"misc", "sysfs", "live", "cancelling", "cancelled"}
    /\ phase = "misc" => EarlyOpen
    /\ \E new \in ActorState : Becomes(u, new)
    /\ UserLife(u)' /\ UserArg(u)'
    /\ StateOK'
    /\ hwLed' \in {0, 1}
    /\ work_delay' \in Nat
    /\ \/ UNCHANGED gpio_work
       \/ /\ phase \notin {"cancelling", "cancelled"}
          /\ gpio_work' = gpio_work \cup {"pending"}

(* A user comes in.                                                        *)
LEMMA UserBegins ==
    ASSUME GpioInv, NEW u \in Users, user_begin(u)
    PROVE  UserEffect(u)
  <1>0. PICK c \in Commands :
           \E via \in {"dev", "sysfs"}, arg \in Arguments(c) :
              /\ \/ via = "dev" /\ c \notin SysfsOnly /\ DeviceOpenable
                 \/ via = "sysfs" /\ c \notin DeviceOnly /\ SysfsUsable(c)
              /\ actor' = [actor EXCEPT ![u] =
                    [pc |-> IF c = "sync" THEN "sample" ELSE c,
                     cmd |-> c, via |-> via, arg |-> arg]]
    BY DEF user_begin
  <1>1. PICK via \in {"dev", "sysfs"}, arg \in Arguments(c) :
           /\ \/ via = "dev" /\ c \notin SysfsOnly /\ DeviceOpenable
              \/ via = "sysfs" /\ c \notin DeviceOnly /\ SysfsUsable(c)
           /\ actor' = [actor EXCEPT ![u] =
                 [pc |-> IF c = "sync" THEN "sample" ELSE c,
                  cmd |-> c, via |-> via, arg |-> arg]]
    BY <1>0
  <1>2. PICK to : to = IF c = "sync" THEN "sample" ELSE c
    OBVIOUS
  <1>3. /\ c \in UserCommands /\ to \in UserCommands \cup {"sample"}
        /\ to # "idle" /\ to \notin {"apply", "mod", "delay", "schedule"}
        /\ to = "poll_ms" => c = "poll_ms"
        /\ to = "invert" => c = "invert"
    BY <1>2, GpioAssumption DEF UserCommands
  <1>4. /\ arg \in Nat
        /\ c = "invert" => arg \in {0, 1}
        /\ c = "poll_ms" => arg \in MIN_POLL_MS..MAX_POLL_MS
    <2>1. CASE c = "invert"
      BY <2>1 DEF Arguments
    <2>2. CASE c = "poll_ms"
      BY <2>2, GpioAssumption DEF Arguments, poll_in_range
    <2>3. CASE c \notin {"invert", "poll_ms"}
      BY <2>3 DEF Arguments
    <2> QED BY <2>1, <2>2, <2>3
  <1>5. PICK new : new = [pc |-> to, cmd |-> c, via |-> via, arg |-> arg]
    OBVIOUS
  <1>6. /\ new \in ActorState
        /\ new.pc = to /\ new.cmd = c /\ new.via = via /\ new.arg = arg
    BY <1>3, <1>4, <1>5 DEF ActorState
  <1>7. actor' = [actor EXCEPT ![u] = new]
    BY <1>1, <1>2, <1>5
  <1>8. u \in Actors
    BY DEF Actors
  <1>9. Becomes(u, new)
    BY <1>6, <1>7, <1>8 DEF Becomes, GpioInv, TypeOK
  <1>10. UNCHANGED <<phase, state, hardware, hwLed, work>>
    BY DEF user_begin
  <1>11. /\ via = "dev" => \/ phase \in {"sysfs", "live"}
                           \/ EarlyOpen /\ phase = "misc"
         /\ via = "sysfs" => \/ phase \in {"sysfs", "live"}
                             \/ /\ phase \in {"cancelling", "cancelled"}
                                /\ c \in ExitCommands
    BY <1>1 DEF DeviceOpenable, SysfsUsable
  <1>12. UserLife(u)'
    BY <1>1, <1>3, <1>6, <1>9, <1>10, <1>11 DEF UserLife, Becomes
  <1>13. UserArg(u)'
    BY <1>3, <1>4, <1>6, <1>9 DEF UserArg, Becomes
  <1>14. StateOK'
    BY <1>1, <1>10, <1>11 DEF GpioInv, Resources, TypeOK, StateOK
  <1> QED BY <1>1, <1>6, <1>9, <1>10, <1>11, <1>12, <1>13, <1>14
         DEF UserEffect, GpioInv, TypeOK, work

(* A user inside the driver goes somewhere else in it, or leaves.          *)
LEMMA UserMoves ==
    ASSUME GpioInv, NEW u \in Users, ~At(u, "idle"), phase' = phase,
           \/ Finish(u)
           \/ At(u, "invert") /\ Goto(u, "sample")
           \/ At(u, "poll_ms") /\ Goto(u, "mod")
           \/ Carries(u, "apply", hwButton)
    PROVE  /\ \E new \in ActorState : Becomes(u, new)
           /\ UserLife(u)'
           /\ UserArg(u)'
  <1>1. u \in Actors /\ TypeOK /\ UserLife(u) /\ UserArg(u)
    BY DEF Actors, GpioInv, UsersOK
  <1>2. actor[u].via # "none" /\ actor[u].pc # "idle"
    BY <1>1 DEF UserLife, At
  <1>3. CASE Finish(u)
    <2>1. Becomes(u, Idle) /\ Idle \in ActorState
          /\ Idle.pc = "idle" /\ Idle.via = "none"
      BY <1>1, <1>3, ActorFinishes
    <2> QED BY <2>1 DEF Becomes, UserLife, UserArg
  <1>4. CASE At(u, "invert") /\ Goto(u, "sample")
    <2>1. "sample" \in ActorPCs
      BY DEF ActorPCs
    <2>2. PICK new \in ActorState :
             /\ Becomes(u, new) /\ new.pc = "sample"
             /\ new.cmd = actor[u].cmd /\ new.via = actor[u].via
      BY <1>1, <1>4, <2>1, ActorGoes
    <2> QED BY <1>1, <1>2, <2>2 DEF Becomes, UserLife, UserArg
  <1>5. CASE At(u, "poll_ms") /\ Goto(u, "mod")
    <2>1. "mod" \in ActorPCs
      BY DEF ActorPCs
    <2>2. PICK new \in ActorState :
             /\ Becomes(u, new) /\ new.pc = "mod"
             /\ new.cmd = actor[u].cmd /\ new.via = actor[u].via
             /\ new.arg = actor[u].arg
      BY <1>1, <1>5, <2>1, ActorGoes
    <2> QED BY <1>1, <1>2, <1>5, <2>2 DEF Becomes, UserLife, UserArg, At
  <1>6. CASE Carries(u, "apply", hwButton)
    <2>1. "apply" \in ActorPCs /\ hwButton \in {0, 1} /\ hwButton \in Nat
      BY <1>1 DEF ActorPCs, TypeOK
    <2>2. PICK new \in ActorState :
             /\ Becomes(u, new) /\ new.pc = "apply"
             /\ new.cmd = actor[u].cmd /\ new.via = actor[u].via
             /\ new.arg = hwButton
      BY <1>1, <1>6, <2>1, ActorTakes
    <2> QED BY <1>1, <1>2, <2>1, <2>2 DEF Becomes, UserLife, UserArg
  <1> QED BY <1>3, <1>4, <1>5, <1>6

(* A user runs on.                                                         *)
LEMMA UserRuns ==
    ASSUME QuietEnds, GpioInv, NEW u \in Users, user_runs(u)
    PROVE  UserEffect(u)
  <1>1. u \in Actors /\ u # KWORKER /\ TypeOK /\ UserLife(u) /\ UserArg(u)
    BY GpioAssumption DEF Actors, GpioInv, UsersOK
  <1>2. ~At(u, "idle")
    BY DEF user_runs, user_invert, user_poll_ms, user_mod_work,
           user_reset_stats, user_read, user_show, sample_read, sample_apply,
           At
  <1>3. /\ state # NULL
        /\ phase \in {"misc", "sysfs", "live", "cancelling", "cancelled"}
        /\ StateOK
    BY <1>1, <1>2, InsideHasState
  <1>4. phase = "misc" => EarlyOpen
    BY <1>1, <1>2 DEF UserLife, At, TypeOK, ActorState
  <1>5. UNCHANGED <<phase, hardware>>
    BY DEF user_runs, user_invert, user_poll_ms, user_mod_work,
           user_reset_stats, user_read, user_show, sample_read, sample_apply
  <1>6. /\ \E new \in ActorState : Becomes(u, new)
        /\ UserLife(u)' /\ UserArg(u)'
    <2>1. \/ Finish(u)
          \/ At(u, "invert") /\ Goto(u, "sample")
          \/ At(u, "poll_ms") /\ Goto(u, "mod")
          \/ Carries(u, "apply", hwButton)
      BY <1>1
         DEF Carries, user_runs, user_invert, user_poll_ms, user_mod_work,
             user_reset_stats, user_read, user_show, sample_read,
             sample_apply, SampleDone
    <2> QED BY <1>2, <1>5, <2>1, UserMoves
  <1>7. /\ hwLed \in {0, 1} /\ work_delay \in Nat
        /\ actor[u] \in ActorState
    BY <1>1 DEF TypeOK
  <1>8. CASE user_invert(u)
    <2>1. /\ state' = [state EXCEPT !.invert = actor[u].arg]
          /\ actor[u].arg \in {0, 1}
          /\ UNCHANGED <<hwLed, gpio_work, work_delay>>
      BY <1>1, <1>8 DEF user_invert, UserArg, At, work
    <2>2. StateOK'
      BY <1>3, <2>1 DEF StateOK, GpioctrlState
    <2> QED BY <1>3, <1>4, <1>5, <1>6, <1>7, <2>1, <2>2 DEF UserEffect
  <1>9. CASE user_poll_ms(u)
    <2>1. /\ state' = [state EXCEPT !.poll_ms = actor[u].arg]
          /\ actor[u].arg \in MIN_POLL_MS..MAX_POLL_MS
          /\ actor[u].arg \in Nat
          /\ UNCHANGED <<hwLed, gpio_work, work_delay>>
      BY <1>1, <1>7, <1>9 DEF user_poll_ms, UserArg, At, work, ActorState
    <2>2. StateOK'
      BY <1>3, <2>1 DEF StateOK, GpioctrlState
    <2> QED BY <1>3, <1>4, <1>5, <1>6, <1>7, <2>1, <2>2 DEF UserEffect
  <1>10. CASE user_mod_work(u)
    <2>1. /\ UNCHANGED <<state, hwLed>>
          /\ gpio_work' = mod_delayed_work(gpio_work)
          /\ work_delay' = IF mod_applies(gpio_work) THEN actor[u].arg
                                                     ELSE work_delay
      BY <1>10 DEF user_mod_work
    <2>2. actor[u].arg \in Nat
      BY <1>7 DEF ActorState
    <2>3. actor[u].cmd = "poll_ms"
      BY <1>1, <1>10 DEF user_mod_work, UserArg, At
    <2>4. phase \notin {"cancelling", "cancelled"}
      BY <1>1, <1>2, <2>3
         DEF QuietEnds, UserLife, At, TypeOK, ActorState
    <2>5. gpio_work' = gpio_work \cup {"pending"}
      BY <2>1, <2>4
         DEF GpioInv, WorkLife, mod_delayed_work, modifiable
    <2>6. work_delay' \in Nat
      BY <1>7, <2>1, <2>2
    <2>7. StateOK'
      BY <1>3, <2>1 DEF StateOK
    <2> QED BY <1>3, <1>4, <1>5, <1>6, <1>7, <2>1, <2>4, <2>5, <2>6, <2>7
           DEF UserEffect
  <1>11. CASE user_reset_stats(u)
    <2>1. /\ state' = [state EXCEPT !.changes = 0]
          /\ UNCHANGED <<hwLed, gpio_work, work_delay>>
      BY <1>11 DEF user_reset_stats, work
    <2>2. StateOK'
      BY <1>3, <2>1 DEF StateOK, GpioctrlState
    <2> QED BY <1>3, <1>4, <1>5, <1>6, <1>7, <2>1, <2>2 DEF UserEffect
  <1>12. CASE user_read(u) \/ user_show(u) \/ sample_read(u)
    <2>1. UNCHANGED <<state, hwLed, gpio_work, work_delay>>
      BY <1>12 DEF user_read, user_show, sample_read, work
    <2>2. StateOK'
      BY <1>3, <2>1 DEF StateOK
    <2> QED BY <1>3, <1>4, <1>5, <1>6, <1>7, <2>1, <2>2 DEF UserEffect
  <1>13. CASE sample_apply(u)
    <2>1. actor[u].arg \in {0, 1}
      BY <1>1, <1>13 DEF sample_apply, UserArg, At
    <2>2. StateOK' /\ hwLed' \in {0, 1} /\ UNCHANGED work
      BY <1>1, <1>3, <1>13, <2>1, SampleApplied
    <2> QED BY <1>3, <1>4, <1>5, <1>6, <1>7, <2>2 DEF UserEffect, work
  <1> QED BY <1>8, <1>9, <1>10, <1>11, <1>12, <1>13 DEF user_runs

(* A step of a user keeps the invariant.                                   *)
LEMMA UserKeeps ==
    ASSUME GpioInv, NEW u \in Users, UserEffect(u)
    PROVE  GpioInv'
  <1>1. PICK new \in ActorState : Becomes(u, new)
    BY DEF UserEffect
  <1>2. u # KWORKER /\ KWORKER \in Actors /\ Users \subseteq Actors
    BY GpioAssumption DEF Actors
  <1>3. UNCHANGED <<phase, gdev, hwButton, presses>>
    BY DEF UserEffect, hardware
  <1>4. gpio_work' \subseteq WorkFlags
    BY DEF UserEffect, GpioInv, TypeOK, WorkFlags
  <1>5. TypeOK'
    BY <1>1, <1>3, <1>4 DEF UserEffect, GpioInv, TypeOK, StateOK, Becomes
  <1>6. Resources'
    <2>1. state' # NULL
      BY NullAssumption DEF UserEffect, StateOK
    <2> QED BY <1>3, <2>1 DEF UserEffect, GpioInv, Resources
  <1>7. UsersOK'
    <2> SUFFICES ASSUME NEW v \in Users PROVE UserLife(v)' /\ UserArg(v)'
      BY DEF UsersOK
    <2>1. CASE v = u
      BY <2>1 DEF UserEffect
    <2>2. CASE v # u
      <3>1. actor'[v] = actor[v] /\ UserLife(v) /\ UserArg(v)
        BY <1>1, <1>2, <2>2 DEF Becomes, GpioInv, UsersOK
      <3> QED BY <1>3, <3>1 DEF UserLife, UserArg
    <2> QED BY <2>1, <2>2
  <1>8. actor'[KWORKER] = actor[KWORKER]
    BY <1>1, <1>2 DEF Becomes
  <1>9. /\ \A f \in {"running", "cancelling"} :
              f \in gpio_work' <=> f \in gpio_work
        /\ gpio_work \subseteq gpio_work'
    BY DEF UserEffect
  <1>10. WorkerOK'
    BY <1>8, <1>9 DEF GpioInv, WorkerOK
  <1>11. WorkLife'
    BY <1>3, <1>9 DEF UserEffect, GpioInv, WorkLife
  <1>12. WorkAlive'
    BY <1>3, <1>9 DEF GpioInv, WorkAlive
  <1> QED BY <1>5, <1>6, <1>7, <1>10, <1>11, <1>12 DEF GpioInv

-----------------------------------------------------------------------------
(* The worker's steps                                                      *)

WorkerEffect ==
    /\ UNCHANGED <<phase, hardware>>
    /\ \E new \in ActorState : Becomes(KWORKER, new)
    /\ WorkerOK'
    /\ StateOK'
    /\ "pending" \in gpio_work \/ "running" \in gpio_work
    /\ hwLed' \in {0, 1}
    /\ work_delay' \in Nat
    /\ \/ UNCHANGED gpio_work
       \/ "pending" \in gpio_work /\ gpio_work' = work_start(gpio_work)
       \/ /\ "running" \in gpio_work
          /\ gpio_work' = work_return(schedule_delayed_work(gpio_work))

(* Each step of gpioctrl_work_fn() is such a step.                         *)
LEMMA WorkerRuns ==
    ASSUME GpioInv, gpioctrl_work_fn
    PROVE  WorkerEffect
  <1>1. KWORKER \in Actors /\ TypeOK /\ WorkerOK
    BY DEF Actors, GpioInv
  <1>2. /\ hwLed \in {0, 1} /\ work_delay \in Nat
        /\ actor[KWORKER] \in ActorState /\ actor[KWORKER].arg \in Nat
        /\ hwButton \in {0, 1}
    BY <1>1 DEF TypeOK, ActorState
  <1>3. {"sample", "delay", "apply", "schedule"} \subseteq ActorPCs
    BY DEF ActorPCs
  <1>4. CASE work_begin
    <2>1. /\ "pending" \in gpio_work /\ "running" \notin gpio_work
          /\ gpio_work' = work_start(gpio_work)
          /\ Goto(KWORKER, "sample")
          /\ UNCHANGED <<phase, state, hardware, hwLed, work_delay>>
      BY <1>4 DEF work_begin, work_can_start
    <2>2. PICK new \in ActorState : Becomes(KWORKER, new) /\ new.pc = "sample"
      BY <1>1, <1>3, <2>1, ActorGoes
    <2>3. WorkerOK'
      BY <2>1, <2>2 DEF WorkerOK, Becomes, work_start
    <2>4. StateOK'
      BY <2>1 DEF GpioInv, WorkLife, Resources, TypeOK, StateOK
    <2> QED BY <1>2, <2>1, <2>2, <2>3, <2>4 DEF WorkerEffect
  <1>5. ASSUME ~At(KWORKER, "idle")
        PROVE  state # NULL /\ StateOK /\ "running" \in gpio_work
    BY <1>1, <1>5, InsideHasState DEF WorkerOK, At
  <1>6. ASSUME ~At(KWORKER, "idle"), UNCHANGED gpio_work,
               Goto(KWORKER, "delay")
        PROVE  (\E new \in ActorState : Becomes(KWORKER, new)) /\ WorkerOK'
    <2>1. PICK new \in ActorState : Becomes(KWORKER, new) /\ new.pc = "delay"
      BY <1>1, <1>3, <1>6, ActorGoes
    <2> QED BY <1>5, <1>6, <2>1 DEF WorkerOK, Becomes
  <1>7. CASE sample_read(KWORKER)
    <2>1. /\ ~At(KWORKER, "idle")
          /\ UNCHANGED <<phase, state, hardware, hwLed, gpio_work, work_delay>>
          /\ Carries(KWORKER, "apply", hwButton) \/ Goto(KWORKER, "delay")
      BY <1>7 DEF sample_read, SampleDone, At, Carries, work
    <2>2. StateOK'
      BY <1>5, <2>1 DEF StateOK
    <2>3. CASE Carries(KWORKER, "apply", hwButton)
      <3>1. hwButton \in Nat
        BY <1>2
      <3>2. PICK new \in ActorState :
               Becomes(KWORKER, new) /\ new.pc = "apply" /\ new.arg = hwButton
        BY <1>1, <1>3, <2>3, <3>1, ActorTakes
      <3>3. WorkerOK'
        BY <1>2, <1>5, <2>1, <3>2 DEF WorkerOK, Becomes
      <3> QED BY <1>2, <1>5, <2>1, <2>2, <3>2, <3>3 DEF WorkerEffect
    <2>4. CASE Goto(KWORKER, "delay")
      BY <1>2, <1>5, <1>6, <2>1, <2>2, <2>4 DEF WorkerEffect
    <2> QED BY <2>1, <2>3, <2>4
  <1>8. CASE sample_apply(KWORKER)
    <2>1. At(KWORKER, "apply") /\ ~At(KWORKER, "idle")
      BY <1>8 DEF sample_apply, At
    <2>2. actor[KWORKER].arg \in {0, 1}
      BY <1>1, <2>1 DEF WorkerOK, At
    <2>3. /\ StateOK' /\ hwLed' \in {0, 1}
          /\ SampleDone(KWORKER)
          /\ UNCHANGED <<phase, hardware, work>>
      BY <1>1, <1>5, <1>8, <2>1, <2>2, SampleApplied
    <2>4. Goto(KWORKER, "delay") /\ UNCHANGED <<gpio_work, work_delay>>
      BY <2>3 DEF SampleDone, work
    <2> QED BY <1>2, <1>5, <1>6, <2>1, <2>3, <2>4 DEF WorkerEffect
  <1>9. CASE gpioctrl_get_poll_ms
    <2>1. /\ ~At(KWORKER, "idle")
          /\ Carries(KWORKER, "schedule", state.poll_ms)
          /\ UNCHANGED <<phase, state, hardware, hwLed, gpio_work, work_delay>>
      BY <1>9 DEF gpioctrl_get_poll_ms, At, Carries, work
    <2>2. StateOK /\ state.poll_ms \in Nat
      BY <1>5, <2>1 DEF StateOK, GpioctrlState
    <2>3. PICK new \in ActorState :
             Becomes(KWORKER, new) /\ new.pc = "schedule"
      BY <1>1, <1>3, <2>1, <2>2, ActorTakes
    <2>4. WorkerOK'
      BY <1>5, <2>1, <2>3 DEF WorkerOK, Becomes
    <2> QED BY <1>2, <1>5, <2>1, <2>2, <2>3, <2>4 DEF WorkerEffect, StateOK
  <1>10. CASE work_requeue
    <2>1. /\ ~At(KWORKER, "idle")
          /\ gpio_work' = work_return(schedule_delayed_work(gpio_work))
          /\ work_delay' \in Nat
          /\ Finish(KWORKER)
          /\ UNCHANGED <<phase, state, hardware, hwLed>>
      BY <1>2, <1>10 DEF work_requeue, At
    <2>2. Becomes(KWORKER, Idle) /\ Idle \in ActorState /\ Idle.pc = "idle"
      BY <1>1, <2>1, ActorFinishes
    <2>3. WorkerOK'
      BY <2>1, <2>2 DEF WorkerOK, Becomes, work_return
    <2> QED BY <1>2, <1>5, <2>1, <2>2, <2>3 DEF WorkerEffect, StateOK
  <1> QED BY <1>4, <1>7, <1>8, <1>9, <1>10 DEF gpioctrl_work_fn

(* A step of the worker keeps the invariant: it is queued again before it  *)
(* returns, unless it is being cancelled.                                  *)
LEMMA WorkerKeeps ==
    ASSUME GpioInv, WorkerEffect
    PROVE  GpioInv'
  <1>1. PICK new \in ActorState : Becomes(KWORKER, new)
    BY DEF WorkerEffect
  <1>2. KWORKER \notin Users /\ Users \subseteq Actors
    BY GpioAssumption DEF Actors
  <1>3. UNCHANGED <<phase, gdev, hwButton, presses>>
    BY DEF WorkerEffect, hardware
  <1>4. gpio_work' \subseteq WorkFlags
    BY DEF WorkerEffect, GpioInv, TypeOK, WorkFlags, work_start, work_return,
           schedule_delayed_work
  <1>5. TypeOK'
    BY <1>1, <1>3, <1>4 DEF WorkerEffect, GpioInv, TypeOK, StateOK, Becomes
  <1>6. UsersOK'
    <2> SUFFICES ASSUME NEW v \in Users PROVE UserLife(v)' /\ UserArg(v)'
      BY DEF UsersOK
    <2>1. actor'[v] = actor[v] /\ UserLife(v) /\ UserArg(v)
      BY <1>1, <1>2 DEF Becomes, GpioInv, UsersOK
    <2> QED BY <1>3, <2>1 DEF UserLife, UserArg
  <1>7. WorkLife' /\ WorkAlive'
    <2>1. CASE UNCHANGED gpio_work
      BY <1>3, <2>1 DEF GpioInv, WorkLife, WorkAlive
    <2>2. CASE "pending" \in gpio_work /\ gpio_work' = work_start(gpio_work)
      BY <1>3, <2>2 DEF GpioInv, WorkLife, WorkAlive, work_start
    <2>3. CASE /\ "running" \in gpio_work
               /\ gpio_work' = work_return(schedule_delayed_work(gpio_work))
      <3>1. /\ "cancelling" \in gpio_work' <=> "cancelling" \in gpio_work
            /\ "cancelling" \notin gpio_work => "pending" \in gpio_work'
            /\ "cancelling" \in gpio_work =>
                  ("pending" \in gpio_work' => "pending" \in gpio_work)
        BY <2>3 DEF work_return, schedule_delayed_work, schedulable
      <3>2. phase \in {"misc", "sysfs", "live", "cancelling"}
            /\ ~(phase = "misc" /\ ~EarlyOpen)
        BY <2>3 DEF GpioInv, WorkLife
      <3> QED BY <1>3, <3>1, <3>2 DEF GpioInv, WorkLife, WorkAlive
    <2> QED BY <2>1, <2>2, <2>3 DEF WorkerEffect
  <1>8. Resources'
    <2>1. state' # NULL
      BY NullAssumption DEF WorkerEffect, StateOK
    <2>2. phase \in {"misc", "sysfs", "live", "cancelling"}
      BY DEF WorkerEffect, GpioInv, WorkLife
    <2> QED BY <1>3, <2>1, <2>2 DEF GpioInv, Resources
  <1> QED BY <1>5, <1>6, <1>7, <1>8 DEF GpioInv, WorkerEffect

-----------------------------------------------------------------------------
(* Loading and unloading                                                   *)

(* Where no user can be inside the driver.                                 *)
LEMMA UsersOutside ==
    ASSUME GpioInv,
           \/ phase \notin {"misc", "sysfs", "live", "cancelling", "cancelled"}
           \/ phase = "misc" /\ ~EarlyOpen
    PROVE  \A u \in Users : actor[u].via = "none"
  <1>1. ASSUME NEW u \in Users PROVE actor[u].via = "none"
    <2>1. actor[u].via \in {"none", "dev", "sysfs"}
      BY <1>1 DEF GpioInv, TypeOK, ActorState, Actors
    <2> QED BY <2>1 DEF GpioInv, UsersOK, UserLife
  <1> QED BY <1>1

(* A user that is not inside the driver does not mind what phase it is.    *)
LEMMA OutsideStays ==
    ASSUME GpioInv, UNCHANGED actor, \A u \in Users : actor[u].via = "none"
    PROVE  UsersOK'
  BY DEF GpioInv, UsersOK, UserLife, UserArg

(* gpioctrl_init() and its error paths.                                    *)
LEMMA InitKeeps ==
    ASSUME QuietEnds, GpioInv, gpioctrl_init
    PROVE  GpioInv'
  <1>1. UNCHANGED <<actor, hwButton>>
    BY DEF gpioctrl_init, init_alloc, init_find, init_gpio, init_register,
           init_start, hardware
  <1>2. ASSUME UNCHANGED gpio_work
        PROVE  WorkerOK'
    BY <1>1, <1>2 DEF GpioInv, WorkerOK
  <1>3. CASE init_alloc
    <2>1. /\ phase = "unloaded" /\ phase' = "allocated"
          /\ presses' = 0
          /\ UNCHANGED <<gdev, hwLed, gpio_work, work_delay>>
          /\ state' = [button |-> -1, led |-> -1, invert |-> InitialInvert,
                       poll_ms |-> InitialPoll, changes |-> 0]
      BY <1>3 DEF init_alloc, Advance, work
    <2>2. StateOK' /\ state' # NULL
      BY <2>1, GpioAssumption, NullAssumption DEF StateOK, GpioctrlState
    <2>3. TypeOK'
      BY <1>1, <2>1, <2>2, GpioAssumption
         DEF GpioInv, TypeOK, StateOK, Phases
    <2>4. Resources' /\ WorkLife' /\ WorkAlive'
      BY <2>1, <2>2 DEF GpioInv, Resources, WorkLife, WorkAlive
    <2>5. UsersOK'
      BY <1>1, <2>1, UsersOutside, OutsideStays
    <2> QED BY <1>2, <2>1, <2>3, <2>4, <2>5 DEF GpioInv
  <1>4. CASE init_find
    <2>1. /\ phase = "allocated"
          /\ UNCHANGED <<presses, hwLed, gpio_work, work_delay>>
          /\ \/ phase' = "found" /\ gdev' = gdev + 1 /\ state' = state
             \/ phase' = "unloaded" /\ gdev' = gdev /\ state' = NULL
      BY <1>4 DEF init_find, Advance, err_free_state, work
    <2>2. gdev = 0 /\ hwLed = 0 /\ state # NULL
      BY <2>1 DEF GpioInv, Resources
    <2>3. TypeOK'
      BY <1>1, <2>1, <2>2 DEF GpioInv, TypeOK, Phases
    <2>4. Resources'
      BY <2>1, <2>2 DEF Resources
    <2>5. WorkLife' /\ WorkAlive'
      BY <2>1, <2>2 DEF GpioInv, WorkLife, WorkAlive
    <2>6. UsersOK'
      BY <1>1, <2>1, UsersOutside, OutsideStays
    <2> QED BY <1>2, <2>1, <2>3, <2>4, <2>5, <2>6 DEF GpioInv
  <1>5. CASE init_gpio
    <2>1. phase = "found" /\ UNCHANGED <<presses, work_delay>>
      BY <1>5 DEF init_gpio, Advance
    <2>2. gdev = 1 /\ hwLed = 0 /\ state # NULL /\ StateOK /\ gpio_work = {}
      BY <2>1 DEF GpioInv, Resources, WorkLife, TypeOK, StateOK
    <2>3. \/ /\ phase' = "ready"
             /\ hwLed' = desired_led(hwButton)
             /\ state' = [state EXCEPT !.button = hwButton, !.led = hwLed']
             /\ gpio_work' = {}
             /\ gdev' = gdev
          \/ /\ phase' = "unloaded" /\ gdev' = gdev - 1 /\ state' = NULL
             /\ hwLed' = hwLed /\ gpio_work' = gpio_work
      BY <1>5 DEF init_gpio, Advance, err_put_gpio, gpio_device_put,
                  err_free_state, INIT_DELAYED_WORK
    <2>4. CASE phase' = "unloaded"
      <3>1. TypeOK'
        BY <1>1, <2>1, <2>2, <2>3, <2>4 DEF GpioInv, TypeOK, Phases
      <3>2. Resources' /\ WorkLife' /\ WorkAlive'
        BY <2>2, <2>3, <2>4 DEF Resources, WorkLife, WorkAlive
      <3>3. UsersOK'
        BY <1>1, <2>1, UsersOutside, OutsideStays
      <3> QED BY <1>2, <2>3, <2>4, <3>1, <3>2, <3>3 DEF GpioInv
    <2>5. CASE phase' = "ready"
      <3>1. hwButton \in {0, 1}
        BY DEF GpioInv, TypeOK
      <3>2. PICK l \in {0, 1} : l = desired_led(hwButton)
        BY <2>2, <3>1 DEF desired_led
      <3>3. PICK b \in {0, 1} : b = hwButton
        BY <3>1
      <3>4. /\ hwLed' = l /\ gpio_work' = {} /\ gdev' = 1
            /\ state' = [state EXCEPT !.button = b, !.led = l]
        BY <2>2, <2>3, <2>5, <3>2, <3>3
      <3>5. StateOK' /\ state' # NULL
        BY <2>2, <3>4, NullAssumption DEF StateOK, GpioctrlState
      <3>6. TypeOK'
        BY <1>1, <2>1, <2>5, <3>4, <3>5
           DEF GpioInv, TypeOK, StateOK, Phases
      <3>7. Resources' /\ WorkLife' /\ WorkAlive'
        BY <2>5, <3>4, <3>5 DEF Resources, WorkLife, WorkAlive
      <3>8. UsersOK'
        BY <1>1, <2>1, UsersOutside, OutsideStays
      <3>9. WorkerOK'
        BY <1>2, <2>2, <3>4
      <3> QED BY <3>6, <3>7, <3>8, <3>9 DEF GpioInv
    <2> QED BY <2>3, <2>4, <2>5
  <1>6. CASE init_register
    <2>1. UNCHANGED <<presses, gpio_work, work_delay>>
      BY <1>6 DEF init_register, work
    <2>2. \/ /\ UNCHANGED <<state, gdev, hwLed>>
             /\ \/ phase = "ready" /\ phase' = "misc"
                \/ phase = "misc" /\ phase' = "sysfs"
          \/ /\ phase' = "unloaded" /\ hwLed' = 0 /\ gdev' = gdev - 1
             /\ state' = NULL
             /\ phase = "ready" \/ (phase = "misc" /\ ~EarlyOpen)
      BY <1>6 DEF init_register, Advance, err_led_off, err_put_gpio,
                  gpio_device_put, err_free_state, QuietEnds
    <2>3. gdev = 1 /\ state # NULL
      BY <2>2 DEF GpioInv, Resources
    <2>4. TypeOK'
      BY <1>1, <2>1, <2>2, <2>3 DEF GpioInv, TypeOK, Phases
    <2>5. Resources'
      BY <2>2, <2>3 DEF Resources
    <2>6. WorkLife' /\ WorkAlive'
      BY <2>1, <2>2 DEF GpioInv, WorkLife, WorkAlive
    <2>7. UsersOK'
      <3>1. CASE phase = "misc" /\ phase' = "sysfs"
        BY <1>1, <3>1 DEF GpioInv, UsersOK, UserLife, UserArg
      <3>2. CASE phase = "ready" \/ (phase = "misc" /\ ~EarlyOpen)
        BY <1>1, <3>2, UsersOutside, OutsideStays
      <3> QED BY <2>2, <3>1, <3>2
    <2> QED BY <1>2, <2>1, <2>4, <2>5, <2>6, <2>7 DEF GpioInv
  <1>7. CASE init_start
    <2>1. /\ phase = "sysfs" /\ phase' = "live"
          /\ gpio_work' = schedule_delayed_work(gpio_work)
          /\ work_delay' \in {state.poll_ms, work_delay}
          /\ UNCHANGED <<state, gdev, presses, hwLed>>
      BY <1>7 DEF init_start, Advance, hardware
    <2>2. StateOK /\ state # NULL /\ "cancelling" \notin gpio_work
      BY <2>1 DEF GpioInv, Resources, TypeOK, StateOK, WorkLife
    <2>3. /\ gpio_work' = gpio_work \cup {"pending"}
          /\ work_delay' \in Nat
      BY <2>1, <2>2 DEF schedule_delayed_work, schedulable, StateOK,
                        GpioctrlState, GpioInv, TypeOK
    <2>4. TypeOK'
      BY <1>1, <2>1, <2>3 DEF GpioInv, TypeOK, Phases, WorkFlags
    <2>5. Resources' /\ WorkLife' /\ WorkAlive'
      BY <2>1, <2>2, <2>3 DEF GpioInv, Resources, WorkLife, WorkAlive
    <2>6. UsersOK'
      BY <1>1, <2>1 DEF GpioInv, UsersOK, UserLife, UserArg
    <2>7. WorkerOK'
      BY <1>1, <2>3 DEF GpioInv, WorkerOK
    <2> QED BY <2>4, <2>5, <2>6, <2>7 DEF GpioInv
  <1> QED BY <1>3, <1>4, <1>5, <1>6, <1>7 DEF gpioctrl_init

(* gpioctrl_exit(): after cancel_delayed_work_sync() nothing queues the    *)
(* work again, since no write of poll_ms overlaps.                         *)
LEMMA ExitKeeps ==
    ASSUME QuietEnds, GpioInv, gpioctrl_exit
    PROVE  GpioInv'
  <1>1. UNCHANGED <<actor, hwButton, presses, work_delay>>
    BY DEF gpioctrl_exit, exit_cancel, exit_cancelled, exit_remove_sysfs,
           exit_led_off, exit_free, hardware, work
  <1>2. gdev = 1 /\ state # NULL
    BY DEF gpioctrl_exit, exit_cancel, exit_cancelled, exit_remove_sysfs,
           exit_led_off, exit_free, Advance, GpioInv, Resources
  <1>3. CASE exit_cancel
    <2>1. /\ phase = "live" /\ phase' = "cancelling"
          /\ gpio_work' = (gpio_work \ {"pending"}) \cup {"cancelling"}
          /\ UNCHANGED <<state, gdev, hwLed>>
      BY <1>3 DEF exit_cancel, Advance, cancel_sync_begin, hardware
    <2>2. \A u \in Users :
             /\ actor[u].via # "dev"
             /\ actor[u].via = "sysfs" => actor[u].cmd \in ExitCommands
      BY <1>3 DEF exit_cancel, ModuleUnused, ExitMayOverlap
    <2>3. TypeOK'
      BY <1>1, <2>1 DEF GpioInv, TypeOK, Phases, WorkFlags
    <2>4. Resources' /\ WorkLife' /\ WorkAlive'
      BY <1>2, <2>1 DEF Resources, WorkLife, WorkAlive
    <2>5. UsersOK'
      BY <1>1, <2>1, <2>2 DEF GpioInv, UsersOK, UserLife, UserArg
    <2>6. WorkerOK'
      BY <1>1, <2>1 DEF GpioInv, WorkerOK
    <2> QED BY <2>3, <2>4, <2>5, <2>6 DEF GpioInv
  <1>4. CASE exit_cancelled
    <2>1. /\ phase = "cancelling" /\ phase' = "cancelled"
          /\ "running" \notin gpio_work
          /\ gpio_work' = gpio_work \ {"cancelling"}
          /\ UNCHANGED <<state, gdev, hwLed>>
      BY <1>4 DEF exit_cancelled, Advance, cancel_sync_done, cancel_sync_end,
                  hardware
    <2>2. gpio_work' = {}
      BY <2>1 DEF GpioInv, WorkLife, TypeOK, WorkFlags
    <2>3. TypeOK'
      BY <1>1, <2>1, <2>2 DEF GpioInv, TypeOK, Phases
    <2>4. Resources' /\ WorkLife' /\ WorkAlive'
      BY <1>2, <2>1, <2>2 DEF Resources, WorkLife, WorkAlive
    <2>5. UsersOK'
      BY <1>1, <2>1 DEF GpioInv, UsersOK, UserLife, UserArg
    <2>6. WorkerOK'
      BY <1>1, <2>1, <2>2 DEF GpioInv, WorkerOK
    <2> QED BY <2>3, <2>4, <2>5, <2>6 DEF GpioInv
  <1>5. CASE exit_remove_sysfs \/ exit_led_off \/ exit_free
    <2>1. /\ UNCHANGED gpio_work
          /\ \/ /\ phase = "cancelled" /\ phase' = "nosysfs"
                /\ UNCHANGED <<state, gdev, hwLed>>
             \/ /\ phase = "nosysfs" /\ phase' = "ledoff"
                /\ hwLed' = 0 /\ UNCHANGED gdev
                /\ state' = [state EXCEPT !.led = 0]
             \/ /\ phase = "ledoff" /\ phase' = "unloaded"
                /\ state' = NULL /\ gdev' = gdev - 1 /\ UNCHANGED hwLed
      BY <1>5 DEF exit_remove_sysfs, exit_led_off, exit_free, Advance,
                  gpio_device_put, led_low, hardware, work
    <2>2. \A u \in Users : actor[u].via = "none"
      <3>1. CASE phase = "cancelled"
        <4>1. \A u \in Users : actor[u].via # "sysfs"
          BY <1>5, <3>1
             DEF exit_remove_sysfs, exit_led_off, exit_free, Advance
        <4>2. \A u \in Users : actor[u].via \in {"none", "dev", "sysfs"}
          BY DEF GpioInv, TypeOK, ActorState, Actors
        <4> QED BY <3>1, <4>1, <4>2 DEF GpioInv, UsersOK, UserLife
      <3>2. CASE phase # "cancelled"
        BY <2>1, <3>2, UsersOutside
      <3> QED BY <3>1, <3>2
    <2>3. \/ state' \in GpioctrlState /\ state'.poll_ms = state.poll_ms
          \/ phase' = "unloaded" /\ state' = NULL
      BY <1>2, <2>1 DEF GpioInv, TypeOK, GpioctrlState
    <2>4. TypeOK'
      BY <1>1, <1>2, <2>1, <2>3 DEF GpioInv, TypeOK, Phases
    <2>5. Resources'
      BY <1>2, <2>1, <2>3, NullAssumption DEF GpioInv, Resources
    <2>6. WorkLife' /\ WorkAlive'
      BY <2>1 DEF GpioInv, WorkLife, WorkAlive
    <2>7. UsersOK'
      BY <1>1, <2>2, OutsideStays
    <2>8. WorkerOK'
      BY <1>1, <2>1 DEF GpioInv, WorkerOK
    <2> QED BY <2>4, <2>5, <2>6, <2>7, <2>8 DEF GpioInv
  <1> QED BY <1>3, <1>4, <1>5 DEF gpioctrl_exit

-----------------------------------------------------------------------------
(* The first states satisfy the invariant, and no step leaves it.          *)
LEMMA GpioInductive ==
    ASSUME QuietEnds
    PROVE  /\ Init => GpioInv
           /\ GpioInv /\ [Next]_vars => GpioInv'
  <1>1. ASSUME Init PROVE GpioInv
    <2>1. /\ Idle \in ActorState
          /\ Idle.pc = "idle" /\ Idle.via = "none"
      BY DEF Idle, ActorState
    <2>2. /\ actor \in [Actors -> ActorState]
          /\ \A a \in Actors : actor[a].pc = "idle" /\ actor[a].via = "none"
          /\ KWORKER \in Actors /\ Users \subseteq Actors
      BY <1>1, <2>1 DEF Init, Actors
    <2>3. TypeOK
      BY <1>1, <2>2, GpioAssumption
         DEF Init, TypeOK, Phases, INIT_DELAYED_WORK
    <2>4. UsersOK
      BY <1>1, <2>2 DEF UsersOK, UserLife, UserArg
    <2>5. Resources /\ WorkerOK /\ WorkLife /\ WorkAlive
      BY <1>1, <2>2
         DEF Init, INIT_DELAYED_WORK, Resources, WorkerOK, WorkLife, WorkAlive
    <2> QED BY <2>3, <2>4, <2>5 DEF GpioInv
  <1>2. ASSUME GpioInv, [Next]_vars PROVE GpioInv'
    <2>1. CASE press
      <3>1. /\ UNCHANGED <<phase, state, gdev, hwLed, gpio_work, work_delay,
                           actor>>
            /\ hwButton' = 1 - hwButton
            /\ presses < MaxPresses /\ presses' = presses + 1
        BY <2>1 DEF press, work
      <3>2. TypeOK'
        BY <1>2, <3>1, GpioAssumption DEF GpioInv, TypeOK
      <3> QED BY <1>2, <3>1, <3>2
             DEF GpioInv, Resources, UsersOK, UserLife, UserArg, WorkerOK,
                 WorkLife, WorkAlive
    <2>2. CASE gpioctrl_work_fn
      BY <1>2, <2>2, WorkerRuns, WorkerKeeps
    <2>3. CASE \E u \in Users : user_begin(u) \/ user_runs(u)
      BY <1>2, <2>3, UserBegins, UserRuns, UserKeeps
    <2>4. CASE gpioctrl_init \/ gpioctrl_exit
      BY <1>2, <2>4, InitKeeps, ExitKeeps
    <2>5. CASE UNCHANGED vars
      BY <1>2, <2>5
         DEF vars, hardware, work, GpioInv, TypeOK, Resources, UsersOK,
             UserLife, UserArg, WorkerOK, WorkLife, WorkAlive
    <2> QED BY <1>2, <2>1, <2>2, <2>3, <2>4, <2>5 DEF Next
  <1> QED BY <1>1, <1>2

(* Type correctness, accepted polling intervals in range included.         *)
THEOREM GpioTypes ==
    ASSUME QuietEnds
    PROVE  Spec => []TypeOK
  <1>1. GpioInv => TypeOK
    BY DEF GpioInv
  <1> QED BY <1>1, GpioInductive, PTL DEF Spec

(* No thread is in driver code, and no work is queued, while *state is not *)
(* allocated: what gpioctrl_exit() frees, and the error paths of the init, *)
(* nobody uses any more.                                                   *)
THEOREM FreedStateIsUnused ==
    ASSUME QuietEnds
    PROVE  Spec => []NoUseAfterFree
  <1>1. ASSUME GpioInv PROVE NoUseAfterFree
    <2> SUFFICES ASSUME state = NULL
                 PROVE  gpio_work = {} /\ \A a \in Actors : At(a, "idle")
      BY DEF NoUseAfterFree
    <2>1. phase = "unloaded" /\ gpio_work = {}
      BY <1>1 DEF GpioInv, Resources, WorkLife
    <2>2. \A u \in Users : At(u, "idle")
      BY <1>1, <2>1, UsersOutside DEF GpioInv, UsersOK, UserLife, At
    <2>3. At(KWORKER, "idle")
      BY <1>1, <2>1 DEF GpioInv, WorkerOK, At
    <2> QED BY <2>1, <2>2, <2>3 DEF Actors
  <1> QED BY <1>1, GpioInductive, PTL DEF Spec

(* A failed init and an unload give everything back: the allocation, the   *)
(* reference on the gpio device, and the LED is low.                       *)
THEOREM EverythingIsUndone ==
    ASSUME QuietEnds
    PROVE  Spec => []NothingLeftBehind
  <1>1. GpioInv => NothingLeftBehind
    BY DEF GpioInv, Resources, NothingLeftBehind
  <1> QED BY <1>1, GpioInductive, PTL DEF Spec

(* gpio_work is held off only while rmmod waits for it, so that neither    *)
(* init nor the worker queues it in vain.                                  *)
HeldOffByExit == "cancelling" \in gpio_work => phase = "cancelling"

(* What users do to gpio_work: mod_delayed_work() leaves it pending.       *)
LEMMA UserKeepsWork ==
    ASSUME NEW u \in Users, user_begin(u) \/ user_runs(u)
    PROVE  /\ UNCHANGED phase
           /\ \/ UNCHANGED gpio_work
              \/ /\ "cancelling" \notin gpio_work
                 /\ gpio_work' = gpio_work \cup {"pending"}
  BY DEF user_begin, user_runs, user_invert, user_poll_ms, user_mod_work,
         user_reset_stats, user_read, user_show, sample_read, sample_apply,
         mod_delayed_work, modifiable, work

(* Polling goes on while the module is live, whatever the worker and any   *)
(* number of writers of poll_ms do to gpio_work at the same time.          *)
(* gpioctrl_work_fn() queues the work before it returns, and this holds    *)
(* even of a module in which a late write has queued it once too often.    *)
THEOREM PollingGoesOn == Spec => []WorkAlive
  <1>1. Init => WorkAlive /\ HeldOffByExit
    BY DEF Init, WorkAlive, HeldOffByExit, INIT_DELAYED_WORK
  <1>2. ASSUME WorkAlive, HeldOffByExit, [Next]_vars
        PROVE  WorkAlive' /\ HeldOffByExit'
    <2>1. ASSUME UNCHANGED <<phase, gpio_work>>
          PROVE  WorkAlive' /\ HeldOffByExit'
      BY <1>2, <2>1 DEF WorkAlive, HeldOffByExit
    <2>2. CASE gpioctrl_work_fn
      <3>1. CASE work_begin
        BY <1>2, <3>1 DEF work_begin, work_start, WorkAlive, HeldOffByExit
      <3>2. CASE work_requeue
        BY <1>2, <3>2
           DEF work_requeue, work_return, schedule_delayed_work, schedulable,
               WorkAlive, HeldOffByExit
      <3> QED BY <2>1, <2>2, <3>1, <3>2
             DEF gpioctrl_work_fn, sample_read, sample_apply,
                 gpioctrl_get_poll_ms, work
    <2>3. ASSUME NEW u \in Users, user_begin(u) \/ user_runs(u)
          PROVE  WorkAlive' /\ HeldOffByExit'
      BY <1>2, <2>3, UserKeepsWork DEF WorkAlive, HeldOffByExit
    <2>4. CASE gpioctrl_init
      BY <1>2, <2>4
         DEF gpioctrl_init, init_alloc, init_find, init_gpio, init_register,
             init_start, Advance, work, INIT_DELAYED_WORK,
             schedule_delayed_work, schedulable, WorkAlive, HeldOffByExit
    <2>5. CASE gpioctrl_exit
      BY <1>2, <2>5
         DEF gpioctrl_exit, exit_cancel, exit_cancelled, exit_remove_sysfs,
             exit_led_off, exit_free, Advance, work, cancel_sync_begin,
             cancel_sync_end, WorkAlive, HeldOffByExit
    <2> QED BY <1>2, <2>1, <2>2, <2>3, <2>4, <2>5 DEF Next, press, vars, work
  <1> QED BY <1>1, <1>2, PTL DEF Spec

-----------------------------------------------------------------------------
(* The LED and the last sample                                             *)

Sampled == {"ready", "misc", "sysfs", "live", "cancelling", "cancelled"}

(* u has still to take the sample that its write of invert asks for.       *)
Inverting(u) == actor[u].cmd = "invert" /\ actor[u].pc \in {"sample", "apply"}

(* A step that moves neither the LED nor the state.                        *)
LEMMA LedUntouched ==
    ASSUME LedMatchesState, UNCHANGED <<state, hwLed>>,
           phase' \in Sampled => phase \in Sampled,
           \A u \in Users : Inverting(u) => Inverting(u)'
    PROVE  LedMatchesState'
  BY DEF LedMatchesState, Sampled, Inverting

(* A sample sets both, and settles what a write of invert has left open.   *)
LEMMA LedSampled ==
    ASSUME GpioInv, LedMatchesState, NEW a \in Actors, sample_apply(a)
    PROVE  LedMatchesState'
  <1>1. ~At(a, "idle") /\ At(a, "apply")
    BY DEF sample_apply, At
  <1>2. /\ state # NULL /\ StateOK
        /\ phase \in {"misc", "sysfs", "live", "cancelling", "cancelled"}
    BY <1>1, InsideHasState
  <1>3. actor[a].arg \in {0, 1}
    BY <1>1 DEF GpioInv, UsersOK, UserArg, WorkerOK, At, Actors
  <1>4. /\ StateOK'
        /\ state'.led = desired_led(actor[a].arg)
        /\ state'.button = actor[a].arg
        /\ state'.invert = state.invert
        /\ hwLed' = IF desired_led(actor[a].arg) # state.led
                    THEN desired_led(actor[a].arg) ELSE hwLed
    BY <1>2, <1>3, SampleApplied
  <1>5. hwLed' = desired_led(actor[a].arg)
    BY <1>2, <1>4 DEF LedMatchesState
  <1>6. state.invert \in {0, 1}
    BY <1>2 DEF StateOK, GpioctrlState
  <1>7. desired_led(actor[a].arg) = (actor[a].arg + state.invert) % 2
    BY <1>3, <1>6 DEF desired_led
  <1> QED BY <1>4, <1>5, <1>7 DEF LedMatchesState

(* Every step keeps the LED in agreement with *state.                      *)
LEMMA LedStep ==
    ASSUME ~ReadMayFail, GpioInv, LedMatchesState, [Next]_vars
    PROVE  LedMatchesState'
  <1>1. /\ TypeOK /\ Users \subseteq Actors /\ KWORKER \in Actors
        /\ KWORKER \notin Users
    BY GpioAssumption DEF GpioInv, Actors
  <1>2. ASSUME NEW u \in Users, UNCHANGED <<phase, state, hwLed>>,
               ~Inverting(u), NEW new, Becomes(u, new)
        PROVE  LedMatchesState'
    <2>1. \A v \in Users : Inverting(v) => Inverting(v)'
      BY <1>1, <1>2 DEF Inverting, Becomes
    <2> QED BY <1>2, <2>1, LedUntouched
  <1>3. ASSUME UNCHANGED <<state, hwLed, actor>>,
               phase' \in Sampled => phase \in Sampled
        PROVE  LedMatchesState'
    <2>1. \A v \in Users : Inverting(v) => Inverting(v)'
      BY <1>3 DEF Inverting
    <2> QED BY <1>3, <2>1, LedUntouched
  <1>4. CASE gpioctrl_work_fn
    <2>1. CASE sample_apply(KWORKER)
      BY <1>1, <2>1, LedSampled
    <2>2. CASE ~sample_apply(KWORKER)
      <3>1. UNCHANGED <<phase, state, hwLed>>
        BY <1>4, <2>2 DEF gpioctrl_work_fn, work_begin, sample_read,
                          gpioctrl_get_poll_ms, work_requeue
      <3>2. PICK new \in ActorState : Becomes(KWORKER, new)
        BY <1>4, WorkerRuns DEF WorkerEffect
      <3>3. \A v \in Users : Inverting(v) => Inverting(v)'
        BY <1>1, <3>2 DEF Inverting, Becomes
      <3> QED BY <3>1, <3>3, LedUntouched
    <2> QED BY <2>1, <2>2
  <1>5. ASSUME NEW u \in Users, user_begin(u)
        PROVE  LedMatchesState'
    <2>1. UNCHANGED <<phase, state, hwLed>> /\ ~Inverting(u)
      BY <1>5 DEF user_begin, Inverting, At
    <2>2. PICK new \in ActorState : Becomes(u, new)
      BY <1>5, UserBegins DEF UserEffect
    <2> QED BY <1>2, <2>1, <2>2
  <1>6. ASSUME NEW u \in Users, user_runs(u)
        PROVE  LedMatchesState'
    <2>1. u \in Actors /\ u # KWORKER
      BY <1>1
    <2>2. CASE sample_apply(u)
      BY <2>1, <2>2, LedSampled
    <2>3. CASE sample_read(u)
      <3>1. /\ UNCHANGED <<phase, state, hwLed>>
            /\ Carries(u, "apply", hwButton)
        BY <2>3 DEF sample_read, Carries
      <3>2. "apply" \in ActorPCs /\ hwButton \in Nat
        BY <1>1 DEF ActorPCs, TypeOK
      <3>3. PICK new \in ActorState :
               Becomes(u, new) /\ new.pc = "apply" /\ new.cmd = actor[u].cmd
        BY <1>1, <2>1, <3>1, <3>2, ActorTakes
      <3>4. \A v \in Users : Inverting(v) => Inverting(v)'
        BY <1>1, <3>3 DEF Inverting, Becomes
      <3> QED BY <3>1, <3>4, LedUntouched
    <2>4. CASE user_invert(u)
      <3>1. /\ At(u, "invert")
            /\ state' = [state EXCEPT !.invert = actor[u].arg]
            /\ Goto(u, "sample")
            /\ UNCHANGED <<phase, hwLed>>
        BY <2>4 DEF user_invert
      <3>2. /\ StateOK
            /\ phase \in {"misc", "sysfs", "live", "cancelling", "cancelled"}
        BY <2>1, <3>1, InsideHasState DEF At
      <3>3. state'.led = state.led
        BY <3>1, <3>2 DEF StateOK, GpioctrlState
      <3>4. "sample" \in ActorPCs
        BY DEF ActorPCs
      <3>5. PICK new \in ActorState :
               Becomes(u, new) /\ new.pc = "sample" /\ new.cmd = actor[u].cmd
        BY <1>1, <2>1, <3>1, <3>4, ActorGoes
      <3>6. actor[u].cmd = "invert"
        BY <3>1 DEF GpioInv, UsersOK, UserArg, At
      <3> QED BY <3>1, <3>2, <3>3, <3>5, <3>6 DEF LedMatchesState, Becomes
    <2>5. CASE user_poll_ms(u)
      <3>1. /\ At(u, "poll_ms")
            /\ state' = [state EXCEPT !.poll_ms = actor[u].arg]
            /\ Goto(u, "mod")
            /\ UNCHANGED <<phase, hwLed>>
        BY <2>5 DEF user_poll_ms
      <3>2. /\ StateOK
            /\ phase \in {"misc", "sysfs", "live", "cancelling", "cancelled"}
        BY <2>1, <3>1, InsideHasState DEF At
      <3>3. /\ state'.led = state.led /\ state'.button = state.button
            /\ state'.invert = state.invert
        BY <3>1, <3>2 DEF StateOK, GpioctrlState
      <3>4. "mod" \in ActorPCs
        BY DEF ActorPCs
      <3>5. PICK new \in ActorState : Becomes(u, new)
        BY <1>1, <2>1, <3>1, <3>4, ActorGoes
      <3>6. \A v \in Users : Inverting(v) => Inverting(v)'
        BY <1>1, <3>1, <3>5 DEF Inverting, Becomes, At
      <3> QED BY <3>1, <3>2, <3>3, <3>6 DEF LedMatchesState, Inverting
    <2>6. CASE user_reset_stats(u)
      <3>1. /\ At(u, "reset_stats")
            /\ state' = [state EXCEPT !.changes = 0]
            /\ Finish(u)
            /\ UNCHANGED <<phase, hwLed>>
        BY <2>6 DEF user_reset_stats
      <3>2. /\ StateOK
            /\ phase \in {"misc", "sysfs", "live", "cancelling", "cancelled"}
        BY <2>1, <3>1, InsideHasState DEF At
      <3>3. /\ state'.led = state.led /\ state'.button = state.button
            /\ state'.invert = state.invert
        BY <3>1, <3>2 DEF StateOK, GpioctrlState
      <3>4. Becomes(u, Idle)
        BY <1>1, <2>1, <3>1, ActorFinishes
      <3>5. \A v \in Users : Inverting(v) => Inverting(v)'
        BY <1>1, <3>1, <3>4 DEF Inverting, Becomes, At
      <3> QED BY <3>1, <3>2, <3>3, <3>5 DEF LedMatchesState, Inverting
    <2>7. CASE user_mod_work(u) \/ user_read(u) \/ user_show(u)
      <3>1. /\ UNCHANGED <<phase, state, hwLed>> /\ ~Inverting(u)
            /\ Finish(u)
        BY <2>7 DEF user_mod_work, user_read, user_show, Inverting, At
      <3> QED BY <1>1, <1>2, <2>1, <3>1, ActorFinishes
    <2> QED BY <1>6, <2>2, <2>3, <2>4, <2>5, <2>6, <2>7 DEF user_runs
  <1>7. CASE gpioctrl_init
    <2>1. CASE phase' \in Sampled /\ phase \notin Sampled
      <3>1. /\ phase = "found"
            /\ hwLed' = desired_led(hwButton)
            /\ state' = [state EXCEPT !.button = hwButton, !.led = hwLed']
        BY <1>7, <2>1 DEF gpioctrl_init, init_alloc, init_find, init_gpio,
                          init_register, init_start, Advance, Sampled
      <3>2. StateOK /\ hwButton \in {0, 1}
        BY <3>1 DEF GpioInv, TypeOK, Resources, StateOK
      <3>3. PICK l \in {0, 1} : l = desired_led(hwButton)
        BY <3>2 DEF desired_led
      <3>4. l = (hwButton + state.invert) % 2
        BY <3>2, <3>3 DEF desired_led, StateOK, GpioctrlState
      <3>5. PICK b \in {0, 1} : b = hwButton
        BY <3>2
      <3>6. state' = [state EXCEPT !.button = b, !.led = l]
        BY <3>1, <3>3, <3>5
      <3>7. /\ state'.led = l /\ state'.button = b
            /\ state'.invert = state.invert
        BY <3>2, <3>6 DEF StateOK, GpioctrlState
      <3> QED BY <3>1, <3>3, <3>4, <3>5, <3>7 DEF LedMatchesState
    <2>2. CASE phase' \in Sampled /\ phase \in Sampled
      <3>1. UNCHANGED <<state, hwLed, actor>>
        BY <1>7, <2>2 DEF gpioctrl_init, init_alloc, init_find, init_gpio,
                          init_register, init_start, Advance, Sampled
      <3> QED BY <1>3, <2>2, <3>1
    <2>3. CASE phase' \notin Sampled
      BY <2>3 DEF LedMatchesState, Sampled
    <2> QED BY <2>1, <2>2, <2>3
  <1>8. CASE gpioctrl_exit
    <2>1. CASE phase' \in Sampled
      <3>1. UNCHANGED <<state, hwLed, actor>> /\ phase \in Sampled
        BY <1>8, <2>1 DEF gpioctrl_exit, exit_cancel, exit_cancelled,
                          exit_remove_sysfs, exit_led_off, exit_free, Advance,
                          Sampled
      <3> QED BY <1>3, <3>1
    <2>2. CASE phase' \notin Sampled
      BY <2>2 DEF LedMatchesState, Sampled
    <2> QED BY <2>1, <2>2
  <1>9. CASE press \/ UNCHANGED vars
    BY <1>3, <1>9 DEF press, vars
  <1> QED BY <1>4, <1>5, <1>6, <1>7, <1>8, <1>9 DEF Next

(* While no read of the button fails, the LED shows the last sample under  *)
(* the current inversion, and state->led is what is on the line, though    *)
(* the worker and the users sample and invert at the same time.            *)
THEOREM LedAgrees ==
    ASSUME QuietEnds, ~ReadMayFail
    PROVE  Spec => []LedMatchesState
  <1>1. Init => LedMatchesState
    BY DEF Init, LedMatchesState
  <1>2. GpioInv /\ LedMatchesState /\ [Next]_vars => LedMatchesState'
    BY LedStep
  <1> QED BY <1>1, <1>2, GpioInductive, PTL DEF Spec

-----------------------------------------------------------------------------
(* The polling interval                                                    *)

Writing(u) == actor[u].pc \in {"poll_ms", "mod"}

(* Writes of poll_ms do not overlap.  poll_ms_store() and gpioctrl_write() *)
(* store the interval under state->lock and apply it after they have       *)
(* released it, so of two writes that overlap one can be shown and the     *)
(* other applied.                                                          *)
WritesTakeTurns == \A u, v \in Users : Writing(u) /\ Writing(v) => u = v

(* Whoever has still to apply the interval applies the one that is shown.  *)
ModCurrent ==
    \A u \in Users : At(u, "mod") => actor[u].arg = state.poll_ms

Timed == {"ready", "misc", "sysfs", "live"}

(* Pending work has the current interval, and so has the worker that is    *)
(* about to queue itself, unless it finds itself queued already.           *)
QueuedCurrent ==
    /\ "pending" \in gpio_work => work_delay = state.poll_ms
    /\ At(KWORKER, "schedule") =>
          "pending" \in gpio_work \/ actor[KWORKER].arg = state.poll_ms

DelayInv ==
    /\ ModCurrent
    /\ phase \in Timed => (\E u \in Users : At(u, "mod")) \/ QueuedCurrent

(* A step of a user that does not write poll_ms.                           *)
LEMMA ReadersKeepDelay ==
    ASSUME DelayInv, NEW u \in Users, ~At(u, "mod"), ~At(u, "mod")',
           NEW new, Becomes(u, new), phase' = phase,
           state'.poll_ms = state.poll_ms, UNCHANGED <<gpio_work, work_delay>>
    PROVE  DelayInv'
  <1>1. \A b \in Actors : b # u => actor'[b] = actor[b]
    BY DEF Becomes
  <1>2. Users \subseteq Actors /\ KWORKER \in Actors /\ KWORKER # u
    BY GpioAssumption DEF Actors
  <1>3. \A v \in Users : At(v, "mod")' => At(v, "mod") /\ actor'[v] = actor[v]
    BY <1>1, <1>2 DEF At
  <1>4. \A v \in Users : At(v, "mod") => At(v, "mod")'
    BY <1>1, <1>2 DEF At
  <1>5. ModCurrent'
    BY <1>3 DEF DelayInv, ModCurrent
  <1>6. QueuedCurrent => QueuedCurrent'
    BY <1>1, <1>2 DEF QueuedCurrent, At
  <1> QED BY <1>4, <1>5, <1>6 DEF DelayInv

(* A write of poll_ms: the interval is stored, then applied.               *)
LEMMA WriterKeepsDelay ==
    ASSUME QuietEnds, GpioInv, DelayInv, WritesTakeTurns, NEW u \in Users,
           user_poll_ms(u) \/ user_mod_work(u)
    PROVE  DelayInv'
  <1>1. /\ u \in Actors /\ u # KWORKER /\ TypeOK
        /\ Users \subseteq Actors /\ KWORKER \in Actors
    BY GpioAssumption DEF Actors, GpioInv
  <1>2. Writing(u) /\ ~At(u, "idle")
    BY DEF user_poll_ms, user_mod_work, Writing, At
  <1>3. StateOK
    BY <1>1, <1>2, InsideHasState
  <1>4. \A v \in Users : v # u => ~At(v, "mod")
    BY <1>2 DEF WritesTakeTurns, Writing, At
  <1>5. CASE user_poll_ms(u)
    <2>1. /\ state' = [state EXCEPT !.poll_ms = actor[u].arg]
          /\ Goto(u, "mod")
      BY <1>5 DEF user_poll_ms
    <2>2. state'.poll_ms = actor[u].arg
      BY <1>3, <2>1 DEF StateOK, GpioctrlState
    <2>3. "mod" \in ActorPCs
      BY DEF ActorPCs
    <2>4. PICK new \in ActorState :
             Becomes(u, new) /\ new.pc = "mod" /\ new.arg = actor[u].arg
      BY <1>1, <2>1, <2>3, ActorGoes
    <2>5. \A v \in Users : v # u => ~At(v, "mod")'
      BY <1>1, <1>4, <2>4 DEF Becomes, At
    <2>6. At(u, "mod")' /\ actor'[u].arg = state'.poll_ms
      BY <2>2, <2>4 DEF Becomes, At
    <2> QED BY <2>5, <2>6 DEF DelayInv, ModCurrent
  <1>6. CASE user_mod_work(u)
    <2>1. /\ At(u, "mod")
          /\ gpio_work' = mod_delayed_work(gpio_work)
          /\ work_delay' = IF mod_applies(gpio_work) THEN actor[u].arg
                                                     ELSE work_delay
          /\ Finish(u)
          /\ UNCHANGED <<phase, state>>
      BY <1>6 DEF user_mod_work
    <2>2. actor[u].arg = state.poll_ms
      BY <2>1 DEF DelayInv, ModCurrent
    <2>3. Becomes(u, Idle) /\ Idle.pc = "idle"
      BY <1>1, <2>1, ActorFinishes
    <2>4. \A v \in Users : ~At(v, "mod")'
      BY <1>1, <1>4, <2>3 DEF Becomes, At
    <2>5. phase \in Timed =>
             "pending" \in gpio_work' /\ work_delay' = state'.poll_ms
      BY <2>1, <2>2 DEF GpioInv, WorkLife, Timed, mod_delayed_work,
                        mod_applies, modifiable
    <2> QED BY <2>1, <2>4, <2>5 DEF DelayInv, ModCurrent, QueuedCurrent
  <1> QED BY <1>5, <1>6

(* The other calls of a user.                                              *)
LEMMA CallersKeepDelay ==
    ASSUME GpioInv, DelayInv, NEW u \in Users,
           \/ user_begin(u) \/ user_invert(u) \/ user_reset_stats(u)
           \/ user_read(u) \/ user_show(u) \/ sample_read(u)
           \/ sample_apply(u)
    PROVE  DelayInv'
  <1>1. /\ u \in Actors /\ u # KWORKER /\ TypeOK
    BY GpioAssumption DEF Actors, GpioInv
  <1>2. /\ ~At(u, "mod") /\ phase' = phase
        /\ UNCHANGED <<gpio_work, work_delay>>
    BY DEF user_begin, user_invert, user_reset_stats, user_read, user_show,
           sample_read, sample_apply, At, work
  <1>3. {"sample", "apply"} \subseteq ActorPCs /\ hwButton \in Nat
    BY <1>1 DEF ActorPCs, TypeOK
  <1>4. \E new \in ActorState : Becomes(u, new) /\ new.pc # "mod"
    <2>1. CASE user_begin(u)
      <3>1. PICK new \in ActorState : Becomes(u, new)
        BY <2>1, UserBegins DEF UserEffect
      <3>2. PICK c \in Commands : \E via, arg :
               actor' = [actor EXCEPT ![u] =
                  [pc |-> IF c = "sync" THEN "sample" ELSE c,
                   cmd |-> c, via |-> via, arg |-> arg]]
        BY <2>1 DEF user_begin
      <3>3. actor'[u].pc = IF c = "sync" THEN "sample" ELSE c
        BY <1>1, <3>2 DEF TypeOK
      <3>4. actor'[u].pc # "mod"
        BY <3>3, GpioAssumption DEF UserCommands
      <3> QED BY <3>1, <3>4 DEF Becomes
    <2>2. CASE Goto(u, "sample")
      BY <1>1, <1>3, <2>2, ActorGoes
    <2>3. CASE Carries(u, "apply", hwButton)
      BY <1>1, <1>3, <2>3, ActorTakes
    <2>4. CASE Finish(u)
      BY <1>1, <2>4, ActorFinishes
    <2> QED BY <1>1, <2>1, <2>2, <2>3, <2>4
           DEF user_invert, user_reset_stats, user_read, user_show,
               sample_read, sample_apply, SampleDone, Carries
  <1>5. state'.poll_ms = state.poll_ms
    <2>1. CASE user_begin(u) \/ user_read(u) \/ user_show(u) \/ sample_read(u)
      BY <2>1 DEF user_begin, user_read, user_show, sample_read
    <2>2. CASE user_invert(u) \/ user_reset_stats(u)
      <3>1. StateOK
        BY <1>1, <2>2, InsideHasState DEF user_invert, user_reset_stats, At
      <3> QED BY <2>2, <3>1
             DEF user_invert, user_reset_stats, StateOK, GpioctrlState
    <2>3. CASE sample_apply(u)
      <3>1. At(u, "apply") /\ ~At(u, "idle")
        BY <2>3 DEF sample_apply, At
      <3>2. state # NULL /\ actor[u].arg \in {0, 1}
        BY <1>1, <3>1, InsideHasState DEF GpioInv, UsersOK, UserArg, At
      <3> QED BY <1>1, <2>3, <3>2, SampleApplied
    <2> QED BY <2>1, <2>2, <2>3
  <1>6. PICK new \in ActorState : Becomes(u, new) /\ new.pc # "mod"
    BY <1>4
  <1>7. ~At(u, "mod")'
    BY <1>6 DEF Becomes, At
  <1> QED BY <1>2, <1>5, <1>6, <1>7, ReadersKeepDelay

(* The worker reads the interval and queues itself with it.                *)
LEMMA WorkerKeepsDelay ==
    ASSUME GpioInv, DelayInv, gpioctrl_work_fn
    PROVE  DelayInv'
  <1>1. KWORKER \in Actors /\ TypeOK /\ Users \subseteq Actors
        /\ KWORKER \notin Users
    BY GpioAssumption DEF Actors, GpioInv
  <1>2. PICK new \in ActorState : Becomes(KWORKER, new)
    BY WorkerRuns DEF WorkerEffect
  <1>3. \A u \in Users : actor'[u] = actor[u]
    BY <1>1, <1>2 DEF Becomes
  <1>4. phase' = phase
    BY DEF gpioctrl_work_fn, work_begin, sample_read, sample_apply,
           gpioctrl_get_poll_ms, work_requeue
  <1>5. state'.poll_ms = state.poll_ms
    <2>1. CASE sample_apply(KWORKER)
      <3>1. At(KWORKER, "apply") /\ ~At(KWORKER, "idle")
        BY <2>1 DEF sample_apply, At
      <3>2. state # NULL /\ actor[KWORKER].arg \in {0, 1}
        BY <1>1, <3>1, InsideHasState DEF GpioInv, WorkerOK, At
      <3> QED BY <1>1, <2>1, <3>2, SampleApplied
    <2>2. CASE ~sample_apply(KWORKER)
      BY <2>2 DEF gpioctrl_work_fn, work_begin, sample_read,
                  gpioctrl_get_poll_ms, work_requeue
    <2> QED BY <2>1, <2>2
  <1>6. ModCurrent'
    BY <1>3, <1>5 DEF DelayInv, ModCurrent, At
  <1>7. ASSUME phase \in Timed, QueuedCurrent PROVE QueuedCurrent'
    <2>1. CASE work_begin
      <3>1. Goto(KWORKER, "sample") /\ "sample" \in ActorPCs
            /\ "pending" \notin gpio_work'
        BY <2>1 DEF work_begin, work_start, ActorPCs
      <3>2. ~At(KWORKER, "schedule")'
        BY <1>1, <3>1, ActorGoes DEF Becomes, At
      <3> QED BY <3>1, <3>2 DEF QueuedCurrent
    <2>2. CASE sample_read(KWORKER) \/ sample_apply(KWORKER)
      <3>1. /\ UNCHANGED <<gpio_work, work_delay>>
            /\ Goto(KWORKER, "delay") \/ Carries(KWORKER, "apply", hwButton)
        BY <2>2 DEF sample_read, sample_apply, SampleDone, Carries, work
      <3>2. {"delay", "apply"} \subseteq ActorPCs /\ hwButton \in Nat
        BY <1>1 DEF ActorPCs, TypeOK
      <3>3. ~At(KWORKER, "schedule")'
        BY <1>1, <3>1, <3>2, ActorGoes, ActorTakes DEF Becomes, At
      <3> QED BY <1>5, <1>7, <3>1, <3>3 DEF QueuedCurrent
    <2>3. CASE gpioctrl_get_poll_ms
      <3>1. /\ UNCHANGED <<gpio_work, work_delay>>
            /\ Carries(KWORKER, "schedule", state.poll_ms)
            /\ ~At(KWORKER, "idle")
        BY <2>3 DEF gpioctrl_get_poll_ms, Carries, work, At
      <3>2. "schedule" \in ActorPCs /\ state.poll_ms \in Nat
        BY <1>1, <3>1, InsideHasState DEF ActorPCs, StateOK, GpioctrlState
      <3>3. actor'[KWORKER].arg = state.poll_ms
        BY <1>1, <3>1, <3>2, ActorTakes DEF Becomes
      <3> QED BY <1>5, <1>7, <3>1, <3>3 DEF QueuedCurrent
    <2>4. CASE work_requeue
      <3>1. /\ At(KWORKER, "schedule")
            /\ gpio_work' = work_return(schedule_delayed_work(gpio_work))
            /\ work_delay' = IF schedulable(gpio_work) THEN actor[KWORKER].arg
                                                       ELSE work_delay
            /\ Finish(KWORKER)
        BY <2>4 DEF work_requeue
      <3>2. ~At(KWORKER, "schedule")'
        BY <1>1, <3>1, ActorFinishes DEF Becomes, At
      <3>3. "cancelling" \notin gpio_work
        BY <1>7 DEF GpioInv, WorkLife, Timed
      <3>4. work_delay' = state.poll_ms
        BY <1>7, <3>1, <3>3 DEF QueuedCurrent, schedulable
      <3> QED BY <1>5, <3>2, <3>4 DEF QueuedCurrent
    <2> QED BY <2>1, <2>2, <2>3, <2>4 DEF gpioctrl_work_fn
  <1>8. \A u \in Users : At(u, "mod") => At(u, "mod")'
    BY <1>3 DEF At
  <1> QED BY <1>4, <1>6, <1>7, <1>8 DEF DelayInv

(* Init queues the work with the current interval, unless a write of       *)
(* poll_ms has done so before.                                             *)
LEMMA ModuleKeepsDelay ==
    ASSUME QuietEnds, GpioInv, DelayInv, gpioctrl_init \/ gpioctrl_exit
    PROVE  DelayInv'
  <1>1. UNCHANGED actor
    BY DEF gpioctrl_init, init_alloc, init_find, init_gpio, init_register,
           init_start, gpioctrl_exit, exit_cancel, exit_cancelled,
           exit_remove_sysfs, exit_led_off, exit_free
  <1>2. CASE UNCHANGED state
    <2>1. ModCurrent'
      BY <1>1, <1>2 DEF DelayInv, ModCurrent, At
    <2>2. CASE phase' \notin Timed
      BY <2>1, <2>2 DEF DelayInv
    <2>3. CASE phase' \in Timed /\ phase' # "live" /\ phase' # "ready"
      <3>1. phase \in Timed /\ UNCHANGED <<gpio_work, work_delay>>
        BY <2>3 DEF gpioctrl_init, init_alloc, init_find, init_gpio,
                    init_register, init_start, gpioctrl_exit, exit_cancel,
                    exit_cancelled, exit_remove_sysfs, exit_led_off,
                    exit_free, Advance, Timed, work
      <3> QED BY <1>1, <1>2, <2>1, <3>1 DEF DelayInv, QueuedCurrent, At
    <2>4. CASE phase' = "live"
      <3>1. /\ phase = "sysfs"
            /\ gpio_work' = schedule_delayed_work(gpio_work)
            /\ work_delay' = IF schedulable(gpio_work) THEN state.poll_ms
                                                       ELSE work_delay
        BY <2>4 DEF gpioctrl_init, init_alloc, init_find, init_gpio,
                    init_register, init_start, gpioctrl_exit, exit_cancel,
                    exit_cancelled, exit_remove_sysfs, exit_led_off,
                    exit_free, Advance
      <3>2. "cancelling" \notin gpio_work
        BY <3>1 DEF GpioInv, WorkLife
      <3>3. "pending" \in gpio_work'
        BY <3>1, <3>2 DEF schedule_delayed_work, schedulable
      <3>4. QueuedCurrent => QueuedCurrent'
        BY <1>2, <3>1, <3>2, <3>3 DEF QueuedCurrent, schedulable
      <3> QED BY <1>1, <2>1, <3>1, <3>4 DEF DelayInv, Timed, At
    <2>5. CASE phase' = "ready"
      <3>1. phase = "found" /\ gpio_work' = {}
        BY <2>5 DEF gpioctrl_init, init_alloc, init_find, init_gpio,
                    init_register, init_start, gpioctrl_exit, exit_cancel,
                    exit_cancelled, exit_remove_sysfs, exit_led_off,
                    exit_free, Advance, INIT_DELAYED_WORK
      <3>2. ~At(KWORKER, "schedule")
        BY <3>1 DEF GpioInv, WorkerOK, WorkLife, At
      <3> QED BY <1>1, <2>1, <3>1, <3>2 DEF DelayInv, QueuedCurrent, At
    <2> QED BY <2>2, <2>3, <2>4, <2>5
  <1>3. CASE ~UNCHANGED state
    <2>1. /\ \/ phase \notin {"misc", "sysfs", "live", "cancelling",
                              "cancelled"}
             \/ phase = "misc" /\ ~EarlyOpen
          /\ phase' \in Timed => phase = "found" /\ gpio_work' = {}
      BY <1>3 DEF gpioctrl_init, init_alloc, init_find, init_gpio,
                  init_register, init_start, gpioctrl_exit, exit_cancel,
                  exit_cancelled, exit_remove_sysfs, exit_led_off, exit_free,
                  Advance, Timed, INIT_DELAYED_WORK, QuietEnds
    <2>2. \A u \in Users : ~At(u, "mod")
      BY <2>1, UsersOutside DEF GpioInv, UsersOK, UserLife, At
    <2>3. ModCurrent'
      BY <1>1, <2>2 DEF ModCurrent, At
    <2>4. phase' \in Timed => ~At(KWORKER, "schedule")
      BY <2>1 DEF GpioInv, WorkerOK, WorkLife, At
    <2> QED BY <1>1, <2>1, <2>3, <2>4 DEF DelayInv, QueuedCurrent, At
  <1> QED BY <1>2, <1>3

(* While writes of poll_ms take turns, polling never dies out, and pending *)
(* work carries the interval that poll_ms_show() reports, unless a writer  *)
(* has still to apply it.                                                  *)
THEOREM PollingStaysAlive ==
    ASSUME QuietEnds
    PROVE  Spec /\ []WritesTakeTurns => []PollingAlive
  <1>1. Init => DelayInv
    BY DEF Init, DelayInv, ModCurrent, Timed, At, Idle, Actors
  <1>2. ASSUME GpioInv, WritesTakeTurns, DelayInv, [Next]_vars
        PROVE  DelayInv'
    <2>1. CASE \E u \in Users : user_begin(u) \/ user_runs(u)
      BY <1>2, <2>1, WriterKeepsDelay, CallersKeepDelay DEF user_runs
    <2>2. CASE press \/ UNCHANGED vars
      BY <1>2, <2>2
         DEF press, vars, work, DelayInv, ModCurrent, QueuedCurrent, At
    <2> QED BY <1>2, <2>1, <2>2, WorkerKeepsDelay, ModuleKeepsDelay DEF Next
  <1>3. GpioInv /\ DelayInv => PollingAlive
    BY DEF GpioInv, WorkAlive, DelayInv, QueuedCurrent, Timed, PollingAlive
  <1> QED BY <1>1, <1>2, <1>3, GpioInductive, PTL DEF Spec
=============================================================================
