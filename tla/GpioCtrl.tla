------------------------------ MODULE GpioCtrl ------------------------------
(***************************************************************************)
(* Lab 03, src/03_gpio_sim/gpioctrl.c: a polling worker copies a button to *)
(* an LED; /dev/gpioctrl and sysfs change the polling interval and the     *)
(* inversion, and take samples of their own.                               *)
(*                                                                         *)
(* A section under state->lock is one action.  gpioctrl_sample_once()      *)
(* reads the button before it takes the lock, so it is two.  A use of      *)
(* /dev/gpioctrl holds a module reference from open() to close(); a sysfs  *)
(* store only holds off sysfs_remove_group().                              *)
(***************************************************************************)
EXTENDS Integers, DelayedWork

CONSTANTS
    Users,            \* processes that use the two interfaces
    KWORKER,          \* the worker thread that runs gpioctrl_work_fn
    NULL,             \* no allocated state
    Commands,         \* what users do: see UserCommands
    MIN_POLL_MS, MAX_POLL_MS,
    PollWrites,       \* intervals that users write
    InitialPoll,      \* the parameter initial_poll_ms
    InitialInvert,    \* the parameter initial_invert, 0 or 1
    MaxPresses,       \* bound: changes of the button
    ReadMayFail,      \* can gpiod_get_value_cansleep() fail on a sample?
    InitFaults,       \* steps of init that may fail
    EarlyOpen,        \* can /dev be opened before init has returned?
    ExitCommands      \* sysfs uses that may overlap gpioctrl_exit()

UserCommands == {"sync", "reset_stats", "invert", "poll_ms", "show", "read"}

SysfsOnly == {"show"}

DeviceOnly == {"sync", "reset_stats", "read"}

ASSUME GpioAssumption ==
    /\ KWORKER \notin Users
    /\ Commands \subseteq UserCommands
    /\ MIN_POLL_MS \in Nat \ {0} /\ MAX_POLL_MS \in Nat
    /\ PollWrites \subseteq Nat
    /\ InitialPoll \in Nat
    /\ InitialInvert \in {0, 1}
    /\ MaxPresses \in Nat
    /\ ReadMayFail \in BOOLEAN
    /\ InitFaults \subseteq {"find", "gpio", "misc", "sysfs"}
    /\ EarlyOpen \in BOOLEAN
    /\ ExitCommands \subseteq {"invert", "poll_ms", "show"}

VARIABLES
    phase,        \* where the module is in its life
    state,        \* *state, or NULL while it is not allocated
    gdev,         \* references held on the gpio device
    hwButton,     \* the level of the button line
    hwLed,        \* the level driven on the LED line
    gpio_work,
    work_delay,   \* the delay gpio_work was last queued with
    actor,        \* per thread: its command, how it came in, where it is
    presses       \* ghost: changes of the button since the module was loaded

hardware == <<gdev, hwButton, presses>>
work == <<gpio_work, work_delay>>
vars == <<phase, state, hardware, hwLed, work, actor>>

Actors == Users \cup {KWORKER}

Phases == {"unloaded",
           "allocated",    \* init: kzalloc() done
           "found",        \* init: holds the gpio device
           "ready",        \* init: lines configured, first sample taken
           "misc",         \* init: /dev/gpioctrl registered
           "sysfs",        \* init: sysfs group created
           "live",         \* polling started, init returned
           "cancelling",   \* exit: in cancel_delayed_work_sync()
           "cancelled",    \* exit: which has returned
           "nosysfs",      \* exit: sysfs_remove_group() has returned
           "ledoff"}       \* exit: /dev removed, LED driven low

GpioctrlState ==
    [button : {-1, 0, 1}, led : {-1, 0, 1}, invert : {0, 1}, poll_ms : Nat,
     changes : Nat]

ASSUME NullAssumption == NULL \notin GpioctrlState

(* arg: the value being written, the sampled button, or the next delay     *)
ActorState ==
    [pc : UserCommands \cup {"idle", "sample", "apply", "mod", "delay",
                             "schedule"},
     cmd : UserCommands \cup {"none"}, via : {"none", "dev", "sysfs"},
     arg : Nat]

Idle == [pc |-> "idle", cmd |-> "none", via |-> "none", arg |-> 0]

At(a, where) == actor[a].pc = where

Goto(a, where) == actor' = [actor EXCEPT ![a].pc = where]

Finish(a) == actor' = [actor EXCEPT ![a] = Idle]

(* After a sample a user's call returns, the worker goes on.               *)
SampleDone(a) == IF a = KWORKER THEN Goto(a, "delay") ELSE Finish(a)

Init ==
    /\ phase = "unloaded"
    /\ state = NULL
    /\ gdev = 0
    /\ hwButton \in {0, 1}
    /\ hwLed = 0
    /\ gpio_work = INIT_DELAYED_WORK
    /\ work_delay = 0
    /\ actor = [a \in Actors |-> Idle]
    /\ presses = 0

(* gpio-sim: the button line changes                                       *)
press ==
    /\ presses < MaxPresses
    /\ hwButton' = 1 - hwButton
    /\ presses' = presses + 1
    /\ UNCHANGED <<phase, state, gdev, hwLed, work, actor>>

-----------------------------------------------------------------------------
(* gpioctrl_sample_once()                                                  *)

(* button_value is read before the lock is taken                           *)
sample_read(a) ==
    /\ At(a, "sample")
    /\ \/ actor' = [actor EXCEPT ![a].pc = "apply", ![a].arg = hwButton]
       \/ ReadMayFail /\ SampleDone(a)
    /\ UNCHANGED <<phase, state, hardware, hwLed, work>>

desired_led(button_value) ==
    IF state.invert = 1 THEN 1 - button_value ELSE button_value

changed(button_value) == state.button # -1 /\ button_value # state.button

sample_apply(a) ==
    LET button_value == actor[a].arg
        led_value == desired_led(button_value)
    IN  /\ At(a, "apply")
        /\ state' = [state EXCEPT
              !.button = button_value,
              !.led = led_value,
              !.changes = IF changed(button_value) THEN @ + 1 ELSE @]
        /\ hwLed' = IF led_value # state.led THEN led_value ELSE hwLed
        /\ SampleDone(a)
        /\ UNCHANGED <<phase, hardware, work>>

-----------------------------------------------------------------------------
(* gpioctrl_work_fn(): sample, then queue itself again                     *)

work_begin ==
    /\ work_can_start(gpio_work)
    /\ gpio_work' = work_start(gpio_work)
    /\ Goto(KWORKER, "sample")
    /\ UNCHANGED <<phase, state, hardware, hwLed, work_delay>>

gpioctrl_get_poll_ms ==
    /\ At(KWORKER, "delay")
    /\ actor' = [actor EXCEPT ![KWORKER].pc = "schedule",
                              ![KWORKER].arg = state.poll_ms]
    /\ UNCHANGED <<phase, state, hardware, hwLed, work>>

(* mutant: the worker does not queue itself again                          *)
work_stop ==
    /\ At(KWORKER, "schedule")
    /\ gpio_work' = work_return(gpio_work)
    /\ Finish(KWORKER)
    /\ UNCHANGED <<phase, state, hardware, hwLed, work_delay>>

work_requeue ==
    /\ At(KWORKER, "schedule")
    /\ gpio_work' = work_return(schedule_delayed_work(gpio_work))
    /\ work_delay' = IF schedulable(gpio_work) THEN actor[KWORKER].arg
                                               ELSE work_delay
    /\ Finish(KWORKER)
    /\ UNCHANGED <<phase, state, hardware, hwLed>>

gpioctrl_work_fn ==
    \/ work_begin
    \/ sample_read(KWORKER)
    \/ sample_apply(KWORKER)
    \/ gpioctrl_get_poll_ms
    \/ work_requeue

-----------------------------------------------------------------------------
(* gpioctrl_write(), gpioctrl_read() and the sysfs show and store          *)
(* functions.  Input that does not parse, or is out of range, returns an   *)
(* error before it touches anything.                                       *)

DeviceOpenable == phase = "live" \/ (EarlyOpen /\ phase \in {"misc", "sysfs"})

SysfsUsable(c) ==
    \/ phase \in {"sysfs", "live"}
    \/ phase \in {"cancelling", "cancelled"} /\ c \in ExitCommands

(* the -ERANGE test of poll_ms_store() and gpioctrl_write()                *)
poll_in_range(value) == MIN_POLL_MS <= value /\ value <= MAX_POLL_MS

Arguments(c) ==
    CASE c = "invert"  -> {0, 1}
      [] c = "poll_ms" -> {v \in PollWrites : poll_in_range(v)}
      [] OTHER         -> {0}

user_begin(u) ==
    /\ At(u, "idle")
    /\ \E c \in Commands :
       \E via \in {"dev", "sysfs"} :
       \E arg \in Arguments(c) :
          /\ \/ via = "dev" /\ c \notin SysfsOnly /\ DeviceOpenable
             \/ via = "sysfs" /\ c \notin DeviceOnly /\ SysfsUsable(c)
          /\ actor' = [actor EXCEPT ![u] =
                [pc |-> IF c = "sync" THEN "sample" ELSE c,
                 cmd |-> c, via |-> via, arg |-> arg]]
    /\ UNCHANGED <<phase, state, hardware, hwLed, work>>

(* mutant: the new inversion waits for the next poll                       *)
user_invert_no_sync(u) ==
    /\ At(u, "invert")
    /\ state' = [state EXCEPT !.invert = actor[u].arg]
    /\ Finish(u)
    /\ UNCHANGED <<phase, hardware, hwLed, work>>

user_invert(u) ==
    /\ At(u, "invert")
    /\ state' = [state EXCEPT !.invert = actor[u].arg]
    /\ Goto(u, "sample")
    /\ UNCHANGED <<phase, hardware, hwLed, work>>

user_poll_ms(u) ==
    /\ At(u, "poll_ms")
    /\ state' = [state EXCEPT !.poll_ms = actor[u].arg]
    /\ Goto(u, "mod")
    /\ UNCHANGED <<phase, hardware, hwLed, work>>

(* mutant: schedule_delayed_work() instead, a no-op on pending work        *)
mod_only_if_idle(w) == schedulable(w)

(* mod_delayed_work() changes the delay of pending work                    *)
mod_applies(w) == modifiable(w)

user_mod_work(u) ==
    /\ At(u, "mod")
    /\ gpio_work' = mod_delayed_work(gpio_work)
    /\ work_delay' = IF mod_applies(gpio_work) THEN actor[u].arg
                                               ELSE work_delay
    /\ Finish(u)
    /\ UNCHANGED <<phase, state, hardware, hwLed>>

user_reset_stats(u) ==
    /\ At(u, "reset_stats")
    /\ state' = [state EXCEPT !.changes = 0]
    /\ Finish(u)
    /\ UNCHANGED <<phase, hardware, hwLed, work>>

(* gpioctrl_read() and the *_show() functions only copy from *state        *)
user_read(u) ==
    /\ At(u, "read")
    /\ Finish(u)
    /\ UNCHANGED <<phase, state, hardware, hwLed, work>>

user_show(u) ==
    /\ At(u, "show")
    /\ Finish(u)
    /\ UNCHANGED <<phase, state, hardware, hwLed, work>>

user_runs(u) ==
    \/ user_invert(u)
    \/ user_poll_ms(u)
    \/ user_mod_work(u)
    \/ user_reset_stats(u)
    \/ user_read(u)
    \/ user_show(u)
    \/ sample_read(u)
    \/ sample_apply(u)

-----------------------------------------------------------------------------
(* gpioctrl_init()                                                         *)

Advance(from, to) == phase = from /\ phase' = to

(* mutant: err_put_gpio does not put the device                            *)
gpio_device_kept == gdev

gpio_device_put == gdev - 1

(* err_free_state, with nothing else to undo; then the labels above it     *)
err_free_state == state' = NULL

err_put_gpio == gdev' = gpio_device_put /\ err_free_state

err_led_off == hwLed' = 0 /\ err_put_gpio

init_alloc ==
    /\ Advance("unloaded", "allocated")
    /\ state' = [button |-> -1, led |-> -1, invert |-> InitialInvert,
                 poll_ms |-> InitialPoll, changes |-> 0]
    /\ presses' = 0
    /\ UNCHANGED <<gdev, hwButton, hwLed, work, actor>>

init_find ==
    /\ \/ /\ Advance("allocated", "found")
          /\ gdev' = gdev + 1
          /\ UNCHANGED state
       \/ /\ "find" \in InitFaults
          /\ Advance("allocated", "unloaded")
          /\ err_free_state
          /\ UNCHANGED gdev
    /\ UNCHANGED <<hwButton, presses, hwLed, work, actor>>

(* descriptors, directions, the first sample, INIT_DELAYED_WORK            *)
init_gpio ==
    /\ \/ /\ Advance("found", "ready")
          /\ hwLed' = desired_led(hwButton)
          /\ state' = [state EXCEPT !.button = hwButton, !.led = hwLed']
          /\ gpio_work' = INIT_DELAYED_WORK
          /\ UNCHANGED gdev
       \/ /\ "gpio" \in InitFaults
          /\ Advance("found", "unloaded")
          /\ err_put_gpio
          /\ UNCHANGED <<hwLed, gpio_work>>
    /\ UNCHANGED <<hwButton, presses, work_delay, actor>>

(* misc_register(), then sysfs_create_group(): err_misc only deregisters   *)
init_register ==
    /\ \/ /\ Advance("ready", "misc") \/ Advance("misc", "sysfs")
          /\ UNCHANGED <<state, gdev, hwLed>>
       \/ /\ \/ "misc" \in InitFaults /\ Advance("ready", "unloaded")
             \/ "sysfs" \in InitFaults /\ Advance("misc", "unloaded")
          /\ err_led_off
    /\ UNCHANGED <<hwButton, presses, work, actor>>

init_start ==
    /\ Advance("sysfs", "live")
    /\ gpio_work' = schedule_delayed_work(gpio_work)
    /\ work_delay' = IF schedulable(gpio_work) THEN state.poll_ms
                                               ELSE work_delay
    /\ UNCHANGED <<state, hardware, hwLed, actor>>

gpioctrl_init ==
    \/ init_alloc
    \/ init_find
    \/ init_gpio
    \/ init_register
    \/ init_start

-----------------------------------------------------------------------------
(* gpioctrl_exit()                                                         *)

(* rmmod needs the last module reference                                   *)
ModuleUnused == \A u \in Users : actor[u].via # "dev"

(* sysfs uses that are in flight when rmmod starts are among ExitCommands  *)
ExitMayOverlap ==
    \A u \in Users : actor[u].via = "sysfs" => actor[u].cmd \in ExitCommands

exit_cancel ==
    /\ ModuleUnused
    /\ ExitMayOverlap
    /\ Advance("live", "cancelling")
    /\ gpio_work' = cancel_sync_begin(gpio_work)
    /\ UNCHANGED <<state, hardware, hwLed, work_delay, actor>>

exit_cancelled ==
    /\ cancel_sync_done(gpio_work)
    /\ Advance("cancelling", "cancelled")
    /\ gpio_work' = cancel_sync_end(gpio_work)
    /\ UNCHANGED <<state, hardware, hwLed, work_delay, actor>>

(* sysfs_remove_group() waits for the stores and shows that are running    *)
exit_remove_sysfs ==
    /\ \A u \in Users : actor[u].via # "sysfs"
    /\ Advance("cancelled", "nosysfs")
    /\ UNCHANGED <<state, hardware, hwLed, work, actor>>

(* mutant: the output is left as it is                                     *)
led_untouched == hwLed

led_low == 0

exit_led_off ==
    /\ Advance("nosysfs", "ledoff")
    /\ hwLed' = led_low
    /\ state' = [state EXCEPT !.led = 0]
    /\ UNCHANGED <<hardware, work, actor>>

exit_free ==
    /\ Advance("ledoff", "unloaded")
    /\ gdev' = gpio_device_put
    /\ state' = NULL
    /\ UNCHANGED <<hwButton, presses, hwLed, work, actor>>

gpioctrl_exit ==
    \/ exit_cancel
    \/ exit_cancelled
    \/ exit_remove_sysfs
    \/ exit_led_off
    \/ exit_free

-----------------------------------------------------------------------------
Next ==
    \/ press
    \/ gpioctrl_work_fn
    \/ \E u \in Users : user_begin(u) \/ user_runs(u)
    \/ gpioctrl_init
    \/ gpioctrl_exit

(* Pending work is run, and a thread inside the driver runs on.            *)
Fairness ==
    /\ WF_vars(gpioctrl_work_fn)
    /\ \A u \in Users : WF_vars(user_runs(u))

Spec == Init /\ [][Next]_vars

FairSpec == Spec /\ Fairness

-----------------------------------------------------------------------------
(* Every variable has its type; an accepted polling interval is within     *)
(* MIN_POLL_MS..MAX_POLL_MS (the initial one is not checked by the code).  *)
TypeOK ==
    /\ phase \in Phases
    /\ state # NULL =>
          /\ state \in GpioctrlState
          /\ state.poll_ms \in (MIN_POLL_MS..MAX_POLL_MS) \cup {InitialPoll}
    /\ gdev \in {0, 1}
    /\ hwButton \in {0, 1}
    /\ hwLed \in {0, 1}
    /\ gpio_work \subseteq WorkFlags
    /\ work_delay \in Nat
    /\ actor \in [Actors -> ActorState]
    /\ presses \in 0..MaxPresses

(* No thread is in driver code, and none can be started by pending work,   *)
(* while *state is not allocated: "guaranteeing no worker touches driver   *)
(* state after kfree(state) runs" (readme.md:168).                         *)
NoUseAfterFree ==
    state = NULL => gpio_work = {} /\ \A a \in Actors : At(a, "idle")

(* A failed init and an unload leave nothing behind: no allocation, no     *)
(* reference on the gpio device, the LED low.                              *)
NothingLeftBehind ==
    phase = "unloaded" => state = NULL /\ gdev = 0 /\ hwLed = 0

(* The LED line shows the last sample under the current inversion, and     *)
(* state->led mirrors it, unless a write of invert has still to take its   *)
(* own sample.                                                             *)
LedMatchesState ==
    phase \in {"ready", "misc", "sysfs", "live", "cancelling", "cancelled"} =>
        /\ state.led = hwLed
        /\ \/ hwLed = (state.button + state.invert) % 2
           \/ \E u \in Users :
                 actor[u].cmd = "invert" /\ actor[u].pc \in {"sample", "apply"}

(* Polling never dies out: whatever the worker and a writer of poll_ms do  *)
(* to gpio_work, it is pending or running as long as the module is live,   *)
(* and when pending it carries the interval that poll_ms_show() reports,   *)
(* unless the writer has still to apply it.                                *)
PollingAlive ==
    phase = "live" =>
        /\ gpio_work \cap {"pending", "running"} # {}
        /\ \/ "pending" \notin gpio_work
           \/ work_delay = state.poll_ms
           \/ \E u \in Users : At(u, "mod")

(* While button and inversion rest, the LED settles on what they ask for,  *)
(* as long as nobody keeps restarting the delay by writing poll_ms.        *)
LedFollowsButton ==
    \A b \in {0, 1} : \A i \in {0, 1} :
        <>[](/\ phase = "live"
             /\ hwButton = b
             /\ state.invert = i
             /\ \A u \in Users : actor[u].cmd # "poll_ms")
            => <>[](hwLed = (b + i) % 2)
=============================================================================
