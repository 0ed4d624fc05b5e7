---------------------------- MODULE KernelTimer ----------------------------
(***************************************************************************)
(* The kernel's struct timer_list, as the labs use it (external: the       *)
(* timer wheel is not in this repository).  A timer is the set of flags    *)
(* that hold of it:                                                        *)
(*   "armed"    it is enqueued and will expire                             *)
(*   "running"  its callback is executing (softirq context); the kernel    *)
(*              never runs one timer's callback on two CPUs at a time      *)
(*   "shut"     its function pointer is NULL: never set up, or shut down   *)
(* A delay is not represented: an armed timer may expire at any moment.    *)
(***************************************************************************)

TimerFlags == {"armed", "running", "shut"}

(* A static timer_list before timer_setup(): function = NULL.              *)
timer_static == {"shut"}

timer_setup == {}

(* mod_timer() silently does nothing on a timer that was shut down.        *)
mod_timer(t) == IF "shut" \in t THEN t ELSE t \cup {"armed"}

(* The softirq dequeues an expired timer, then calls its function.         *)
timer_can_expire(t) == "armed" \in t /\ "running" \notin t

timer_expire(t) == (t \ {"armed"}) \cup {"running"}

timer_return(t) == t \ {"running"}

(* mutant: timer_delete_sync() instead, which does not poison the timer    *)
timer_delete(t) == t \ {"armed"}

(* timer_shutdown_sync(): dequeue and poison, then wait for the callback.  *)
timer_shutdown(t) == (t \ {"armed"}) \cup {"shut"}

timer_sync_done(t) == "running" \notin t

timer_quiesced(t) == t \cap {"armed", "running"} = {}
=============================================================================
