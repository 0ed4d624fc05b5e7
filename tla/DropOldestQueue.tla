-------------------------- MODULE DropOldestQueue --------------------------
(***************************************************************************)
(* What the ring of lab 15 promises: a queue of at most Limit items, which *)
(* are numbered as they come; when it is full a new item pushes the oldest *)
(* one out; a consumer takes all of them, in order, at once.               *)
(***************************************************************************)
EXTENDS Naturals, Sequences

CONSTANT Limit

VARIABLES
    queue,      \* the items that wait, oldest first
    next,       \* the number of the next item
    dropped     \* items pushed out

vars == <<queue, next, dropped>>

Init ==
    /\ queue = <<>>
    /\ next = 0
    /\ dropped = 0

Put ==
    /\ next' = next + 1
    /\ IF Len(queue) < Limit
       THEN queue' = Append(queue, next) /\ UNCHANGED dropped
       ELSE queue' = Append(Tail(queue), next) /\ dropped' = dropped + 1

TakeAll ==
    /\ queue' = <<>>
    /\ UNCHANGED <<next, dropped>>

(* The module is loaded afresh.                                            *)
Reload ==
    /\ queue' = <<>>
    /\ next' = 0
    /\ dropped' = 0

Next == Put \/ TakeAll \/ Reload

Spec == Init /\ [][Next]_vars
=============================================================================
