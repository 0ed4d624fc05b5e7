---------------------------- MODULE RegisterCdev ----------------------------
(***************************************************************************)
(* Lab 05, src/05_register_cdev/register_cdev.c: read() returns a message  *)
(* about the process that reads, from the file's position on, and 0 at its *)
(* end.  The users are processes like cat, which read until they get 0.    *)
(*                                                                         *)
(* The VFS hands read() a copy of the position and stores it back; nothing *)
(* keeps two processes that share an open file apart.  The message differs *)
(* in length from process to process (comm and pid).                       *)
(***************************************************************************)
EXTENDS Naturals, FiniteSets

CONSTANTS
    Files,              \* open file descriptions
    Cats,               \* processes that read to the end
    message_length      \* per process: the length of its message

VARIABLES
    loaded, open_count,
    file,               \* per file: is it open, its users, its position
    cat,                \* per process: its place, file and copy of the position
    got,                \* ghost: per process, the bytes it has read alone
    alone               \* ghost: per process, has it had the file to itself?

vars == <<loaded, open_count, file, cat, got, alone>>

Closed == [users |-> {}, pos |-> 0]

Idle == [pc |-> "idle", file |-> CHOOSE f \in Files : TRUE, pos |-> 0]

Init ==
    /\ loaded = FALSE
    /\ open_count = 0
    /\ file = [f \in Files |-> Closed]
    /\ cat = [p \in Cats |-> Idle]
    /\ got = [p \in Cats |-> 0]
    /\ alone = [p \in Cats |-> TRUE]

(* a process opens a file of its own, or gets one by fork(): an inherited  *)
(* file has its position where its users have taken it                     *)
cat_starts(p) ==
    /\ loaded
    /\ cat[p].pc = "idle"
    /\ \E f \in Files :
          /\ cat' = [cat EXCEPT ![p] = [pc |-> "read", file |-> f, pos |-> 0]]
          /\ file' = [file EXCEPT ![f].users = @ \cup {p}]
          /\ open_count' = open_count + (IF file[f].users = {} THEN 1 ELSE 0)
          /\ alone' = [q \in Cats |->
                          IF q = p THEN file[f].users = {}
                          ELSE alone[q] /\ q \notin file[f].users]
    /\ got' = [got EXCEPT ![p] = 0]
    /\ UNCHANGED loaded

-----------------------------------------------------------------------------
(* register_cdev_read()                                                    *)

read_begins(p) ==
    /\ cat[p].pc = "read"
    /\ cat' = [cat EXCEPT ![p].pc = "copy", ![p].pos = file[cat[p].file].pos]
    /\ UNCHANGED <<loaded, open_count, file, got, alone>>

(* mutant: *offset is not advanced                                         *)
offset_kept(pos, n) == pos

offset_advanced(pos, n) == pos + n

(* mutant: one byte short of the message                                   *)
at_end_early(p) == cat[p].pos + 1 >= message_length[p]

at_end(p) == cat[p].pos >= message_length[p]

(* as much as the user's buffer takes, or 0 at the end                     *)
read_copies(p) ==
    /\ cat[p].pc = "copy"
    /\ \/ /\ at_end(p)
          /\ cat' = [cat EXCEPT ![p].pc = "eof"]
          /\ UNCHANGED got
       \/ /\ ~at_end(p)
          /\ \E n \in 1..(message_length[p] - cat[p].pos) :
                /\ cat' = [cat EXCEPT ![p].pc = "store",
                                      ![p].pos = offset_advanced(@, n)]
                /\ got' = [got EXCEPT ![p] = @ + (IF alone[p] THEN n ELSE 0)]
    /\ UNCHANGED <<loaded, open_count, file, alone>>

(* -EFAULT: cat gives up                                                   *)
read_faults(p) ==
    /\ cat[p].pc = "copy"
    /\ ~at_end(p)
    /\ cat' = [cat EXCEPT ![p].pc = "failed"]
    /\ UNCHANGED <<loaded, open_count, file, got, alone>>

(* 0 or more: the VFS stores the position, moved or not                    *)
read_returns(p) ==
    /\ cat[p].pc \in {"store", "eof"}
    /\ file' = [file EXCEPT ![cat[p].file].pos = cat[p].pos]
    /\ cat' = [cat EXCEPT ![p].pc = IF @ = "store" THEN "read" ELSE "done"]
    /\ UNCHANGED <<loaded, open_count, got, alone>>

register_cdev_read(p) ==
    read_begins(p) \/ read_copies(p) \/ read_faults(p) \/ read_returns(p)

release_counted(n) == n - 1

(* the last user closes the file: register_cdev_release()                  *)
cat_ends(p) ==
    LET f == cat[p].file
    IN  /\ cat[p].pc \in {"done", "failed"}
        /\ cat' = [cat EXCEPT ![p] = Idle]
        /\ IF file[f].users = {p}
           THEN /\ file' = [file EXCEPT ![f] = Closed]
                /\ open_count' = release_counted(open_count)
           ELSE /\ file' = [file EXCEPT ![f].users = @ \ {p}]
                /\ UNCHANGED open_count
        /\ UNCHANGED <<loaded, got, alone>>

-----------------------------------------------------------------------------
register_cdev_init ==
    /\ ~loaded
    /\ loaded' = TRUE
    /\ open_count' = 0
    /\ UNCHANGED <<file, cat, got, alone>>

(* .owner = THIS_MODULE: a file that is open keeps the module loaded       *)
register_cdev_exit ==
    /\ loaded
    /\ \A f \in Files : file[f].users = {}
    /\ loaded' = FALSE
    /\ UNCHANGED <<open_count, file, cat, got, alone>>

-----------------------------------------------------------------------------
Next ==
    \/ \E p \in Cats : cat_starts(p) \/ register_cdev_read(p) \/ cat_ends(p)
    \/ register_cdev_init
    \/ register_cdev_exit

(* A process that has started to read goes on.                             *)
Fairness == \A p \in Cats : WF_vars(register_cdev_read(p) \/ cat_ends(p))

Spec == Init /\ [][Next]_vars

FairSpec == Spec /\ Fairness

-----------------------------------------------------------------------------
(* cat stops after the message (register_cdev.c:66, "This allows programs  *)
(* such as cat to stop after consuming the generated message"), even if it *)
(* shares its file with others and they set its position back, unless      *)
(* others keep coming and going: the last read of each, the one that       *)
(* returns 0, may undo what cat has read meanwhile.                        *)
CatEnds ==
    \A p \in Cats :
        []<>(cat[p].pc = "idle")
            \/ \E q \in Cats \ {p} :
                  []<>(cat[q].pc = "idle") /\ []<>(cat[q].pc # "idle")

(* Who has the file to itself gets the whole message, once.                *)
CatGetsMessage ==
    \A p \in Cats :
        cat[p].pc = "done" /\ alone[p] => got[p] = message_length[p]

(* open_count is the number of open files, however many processes share    *)
(* each of them; rmmod reports it as 0.                                    *)
OpenCountExact ==
    loaded => open_count = Cardinality({f \in Files : file[f].users # {}})
=============================================================================
