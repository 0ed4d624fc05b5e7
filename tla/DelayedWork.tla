---------------------------- MODULE DelayedWork ----------------------------
(***************************************************************************)
(* The kernel's struct delayed_work, as the labs use it (external: the     *)
(* workqueue code is not in this repository).  A work item is the set of   *)
(* flags that hold of it:                                                  *)
(*   "pending"     its timer is armed or it waits for a worker             *)
(*   "running"     its function executes in a kworker; never twice at once *)
(*   "cancelling"  a cancel_delayed_work_sync() is waiting for it          *)
(***************************************************************************)

WorkFlags == {"pending", "running", "cancelling"}

INIT_DELAYED_WORK == {}

(* schedule_delayed_work() is a no-op on a work item that is pending ...   *)
schedulable(w) == w \cap {"pending", "cancelling"} = {}

schedule_delayed_work(w) == IF schedulable(w) THEN w \cup {"pending"} ELSE w

(* ... mod_delayed_work() gives that one a new delay; both are refused     *)
(* while the work item is being cancelled, and work again afterwards       *)
modifiable(w) == "cancelling" \notin w

mod_delayed_work(w) == IF modifiable(w) THEN w \cup {"pending"} ELSE w

(* pending is cleared before the function runs, so it may requeue itself   *)
work_can_start(w) == "pending" \in w /\ "running" \notin w

work_start(w) == (w \ {"pending"}) \cup {"running"}

work_return(w) == w \ {"running"}

(* mutant: cancel_delayed_work(), which does not hold off a requeue        *)
cancel_async_begin(w) == w \ {"pending"}

(* cancel_delayed_work_sync(): dequeue, hold off requeues, wait            *)
cancel_sync_begin(w) == (w \ {"pending"}) \cup {"cancelling"}

cancel_sync_done(w) == "running" \notin w

cancel_sync_end(w) == w \ {"cancelling"}
=============================================================================
