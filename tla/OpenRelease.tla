----------------------------- MODULE OpenRelease -----------------------------
(***************************************************************************)
(* Lab 08, src/08_open_release_cdev/open_release_cdev.c: each open file    *)
(* has a context of its own, made by open() and freed by release(), which  *)
(* the VFS calls when the last descriptor of the file is closed.           *)
(*                                                                         *)
(* The two atomic operations of open() are separate steps, and so are the  *)
(* freeing and the counting of release(): opens and releases of different  *)
(* files interleave between them.  Of a context only its id is kept.       *)
(***************************************************************************)
EXTENDS Integers, FiniteSets

CONSTANTS
    Files,          \* open file descriptions
    Contexts,       \* what kzalloc() can hand out
    NULL,
    MaxRefs,        \* bound: descriptors of a file
    MaxOpens        \* bound: opens per load

VARIABLES
    loaded,
    file,           \* per file: its place, descriptors and private_data
    id,             \* per context: ctx->id, 0 when it is not allocated
    active_opens, next_open_id

counters == <<active_opens, next_open_id>>
vars == <<loaded, file, id, counters>>

Closed == [pc |-> "closed", refs |-> 0, private_data |-> NULL]

Init ==
    /\ loaded = FALSE
    /\ file = [f \in Files |-> Closed]
    /\ id = [c \in Contexts |-> 0]
    /\ active_opens = 0
    /\ next_open_id = 0

FileSet(f, new) == file' = [file EXCEPT ![f] = new]

FileGoto(f, from, to) ==
    /\ file[f].pc = from
    /\ file' = [file EXCEPT ![f].pc = to]

-----------------------------------------------------------------------------
(* my_open()                                                               *)

new_id == next_open_id + 1

(* kzalloc() and atomic64_inc_return(&next_open_id), or -ENOMEM, which     *)
(* leaves everything as it was                                             *)
open_context(f) ==
    /\ loaded
    /\ next_open_id < MaxOpens
    /\ file[f].pc = "closed"
    /\ \E c \in Contexts :
          /\ id[c] = 0
          /\ id' = [id EXCEPT ![c] = new_id]
          /\ FileSet(f, [pc |-> "opening", refs |-> 1, private_data |-> c])
    /\ next_open_id' = next_open_id + 1
    /\ UNCHANGED <<loaded, active_opens>>

open_counted(f) ==
    /\ FileGoto(f, "opening", "open")
    /\ active_opens' = active_opens + 1
    /\ UNCHANGED <<loaded, id, next_open_id>>

my_open(f) == open_context(f) \/ open_counted(f)

-----------------------------------------------------------------------------
(* dup(), fork() and close() of the VFS                                    *)

(* mutant: release is called for every descriptor that is closed           *)
any_reference(f) == TRUE

last_reference(f) == file[f].refs = 1

file_dup(f) ==
    /\ file[f].pc = "open"
    /\ file[f].refs < MaxRefs
    /\ FileSet(f, [file[f] EXCEPT !.refs = @ + 1])
    /\ UNCHANGED <<loaded, id, counters>>

file_close(f) ==
    /\ file[f].pc = "open"
    /\ file[f].refs > 0
    /\ FileSet(f, [file[f] EXCEPT !.refs = @ - 1,
                      !.pc = IF last_reference(f) THEN "release" ELSE "open"])
    /\ UNCHANGED <<loaded, id, counters>>

-----------------------------------------------------------------------------
(* my_release()                                                            *)

discounted == active_opens - 1

release_counted(f) ==
    /\ FileGoto(f, "release", "free")
    /\ active_opens' = discounted
    /\ UNCHANGED <<loaded, id, next_open_id>>

(* kfree(ctx)                                                              *)
release_free(f) ==
    /\ file[f].pc = "free"
    /\ id' = [id EXCEPT ![file[f].private_data] = 0]
    /\ FileSet(f, [Closed EXCEPT !.refs = file[f].refs])
    /\ UNCHANGED <<loaded, counters>>

my_release(f) == release_counted(f) \/ release_free(f)

-----------------------------------------------------------------------------
open_release_cdev_init ==
    /\ ~loaded
    /\ loaded' = TRUE
    /\ active_opens' = 0
    /\ next_open_id' = 0
    /\ UNCHANGED <<file, id>>

(* .owner = THIS_MODULE: a file that is open keeps the module loaded       *)
open_release_cdev_exit ==
    /\ loaded
    /\ \A f \in Files : file[f].pc = "closed"
    /\ loaded' = FALSE
    /\ UNCHANGED <<file, id, counters>>

-----------------------------------------------------------------------------
Next ==
    \/ \E f \in Files :
          my_open(f) \/ file_dup(f) \/ file_close(f) \/ my_release(f)
    \/ open_release_cdev_init
    \/ open_release_cdev_exit

Spec == Init /\ [][Next]_vars

-----------------------------------------------------------------------------
(* Each context in memory belongs to one file that still has a descriptor  *)
(* or is being released, and each such file has one: nothing leaks, and    *)
(* closing one of several descriptors takes no context away.               *)
ContextsOwned ==
    LET Owned(f) == file[f].private_data
    IN  /\ {c \in Contexts : id[c] # 0} = {Owned(f) : f \in Files} \ {NULL}
        /\ \A f, g \in Files : Owned(f) = Owned(g) => f = g \/ Owned(f) = NULL
        /\ \A f \in Files : file[f].refs > 0 => Owned(f) # NULL

(* No two files that are open at the same time have the same id, however   *)
(* opens and releases overlap ("Monotonic ID assigned to each successful   *)
(* ->open()", open_release_cdev.c:38).                                     *)
IdsUnique ==
    \A c, d \in Contexts : id[c] # 0 /\ id[c] = id[d] => c = d

(* active_opens, which rmmod reports, is the number of files that are open *)
(* and not being opened or released, and it is 0 when the module goes.     *)
ActiveOpensExact ==
    active_opens =
        Cardinality({f \in Files : file[f].pc \in {"open", "release"}})
=============================================================================
