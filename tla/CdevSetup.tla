----------------------------- MODULE CdevSetup ------------------------------
(***************************************************************************)
(* The life of a module that sets up a character device in several steps,  *)
(* each of which may fail: read_write_cdev_init() and ioctl_basics_init()  *)
(* with their error labels, and the two exit functions.                    *)
(***************************************************************************)
EXTENDS Naturals, Sequences, FiniteSets

CONSTANTS
    InitOrder,     \* the resources in the order in which init gets them
    InitUndoes,    \* per resource: what init gives back if it cannot get it
    ExitUndoes     \* what exit gives back, in order

VARIABLES
    phase,         \* "unloaded", "loading", "live" or "undoing"
    acquired,      \* the resources that are held
    undo           \* what is still to be given back

setupVars == <<phase, acquired, undo>>

Resources == {InitOrder[i] : i \in DOMAIN InitOrder}

SetupInit == phase = "unloaded" /\ acquired = {} /\ undo = <<>>

init_begin ==
    /\ phase = "unloaded"
    /\ phase' = "loading"
    /\ UNCHANGED <<acquired, undo>>

wanted == InitOrder[Cardinality(acquired) + 1]

(* The next resource is had; the last one makes the module live.           *)
init_acquire ==
    /\ phase = "loading"
    /\ acquired' = acquired \cup {wanted}
    /\ phase' = IF acquired' = Resources THEN "live" ELSE "loading"
    /\ UNCHANGED undo

(* It is not: goto the label.                                              *)
init_goto ==
    /\ phase = "loading"
    /\ phase' = "undoing"
    /\ undo' = InitUndoes[wanted]
    /\ UNCHANGED acquired

exit_begin ==
    /\ phase = "live"
    /\ phase' = "undoing"
    /\ undo' = ExitUndoes
    /\ UNCHANGED acquired

undo_next ==
    /\ phase = "undoing"
    /\ undo # <<>>
    /\ acquired' = acquired \ {Head(undo)}
    /\ undo' = Tail(undo)
    /\ UNCHANGED phase

undo_done ==
    /\ phase = "undoing"
    /\ undo = <<>>
    /\ phase' = "unloaded"
    /\ UNCHANGED <<acquired, undo>>

init_continues == init_acquire \/ init_goto

undo_continues == undo_next \/ undo_done

(* Whether init or exit gave the resources back: none is left, and none    *)
(* was given back before one that was built on it.                         *)
UndoneInOrder ==
    /\ phase = "unloaded" => acquired = {}
    /\ \A i, j \in DOMAIN InitOrder :
          i < j /\ InitOrder[j] \in acquired => InitOrder[i] \in acquired
=============================================================================
