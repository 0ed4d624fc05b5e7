------------------------------- MODULE RwCdev -------------------------------
(***************************************************************************)
(* Lab 09, src/09_read_write_cdev/read_write_cdev.c: a buffer of BUF_SIZE  *)
(* bytes that files read, write and seek.                                  *)
(*                                                                         *)
(* The VFS hands rw_read() and rw_write() a copy of the file's position    *)
(* and stores it back when they succeed: for a character device nothing    *)
(* keeps two threads that share an open file apart.  copy_to_user() and    *)
(* copy_from_user() may fault, the latter after a part of the bytes, which *)
(* it then fills up with zeros.                                            *)
(***************************************************************************)
EXTENDS Naturals

CONSTANTS
    Files,            \* open file descriptions
    Threads,          \* threads that use them
    BUF_SIZE,
    Bytes,            \* what is written, 0 not among it
    FREE,             \* nobody holds buf_lock
    MayFault          \* can a copy fault?

VARIABLES
    phase, acquired, undo,  \* of CdevSetup
    buffer, data_len, buf_lock,
    file,             \* per file: is it open, and its position
    thread,           \* per thread: its place in a call and its locals
    addressed,        \* ghost: the bytes that some write was about
    account           \* ghost: per file, what its position ought to be

setupVars == <<phase, acquired, undo>>
bufVars == <<buffer, data_len>>
vars == <<setupVars, bufVars, buf_lock, file, thread, addressed, account>>

Slots == 0..(BUF_SIZE - 1)

rw_init_order == <<"buffer", "region", "cdev", "class", "device">>

rw_init_labels ==
    [buffer |-> <<>>,
     region |-> <<"buffer">>,
     cdev   |-> <<"region", "buffer">>,
     class  |-> <<"cdev", "region", "buffer">>,
     device |-> <<"class", "cdev", "region", "buffer">>]

rw_exit_order == <<"device", "class", "cdev", "region", "buffer">>

Setup == INSTANCE CdevSetup WITH
            InitOrder  <- rw_init_order,
            InitUndoes <- rw_init_labels,
            ExitUndoes <- rw_exit_order

Idle == [pc |-> "idle", op |-> "none", file |-> CHOOSE f \in Files : TRUE,
         pos |-> 0, n |-> 0, byte |-> 0]

Closed == [open |-> FALSE, pos |-> 0]

(* due: position by the seeks and by the bytes that calls have returned;   *)
(* alone: no two calls on the file have overlapped since it was opened or  *)
(* sought; when some have, nothing is due                                  *)
NewAccount == [due |-> 0, alone |-> TRUE]

Overlapped == [due |-> 0, alone |-> FALSE]

Init ==
    /\ Setup!SetupInit
    /\ buffer = [i \in Slots |-> 0]
    /\ data_len = 0
    /\ buf_lock = FREE
    /\ file = [f \in Files |-> Closed]
    /\ thread = [t \in Threads |-> Idle]
    /\ addressed = {}
    /\ account = [f \in Files |-> NewAccount]

ThreadSet(t, new) == thread' = [thread EXCEPT ![t] = new]

UsedBy(f) == {t \in Threads : thread[t].pc # "idle" /\ thread[t].file = f}

Span(t) == thread[t].pos..(thread[t].pos + thread[t].n - 1)

min(a, b) == IF a < b THEN a ELSE b

-----------------------------------------------------------------------------
(* open, close and lseek of the VFS                                        *)

file_opens(f) ==
    /\ phase = "live"
    /\ ~file[f].open
    /\ file' = [file EXCEPT ![f] = [open |-> TRUE, pos |-> 0]]
    /\ account' = [account EXCEPT ![f] = NewAccount]
    /\ UNCHANGED <<setupVars, bufVars, buf_lock, thread, addressed>>

file_closes(f) ==
    /\ file[f].open
    /\ UsedBy(f) = {}
    /\ file' = [file EXCEPT ![f] = Closed]
    /\ account' = [account EXCEPT ![f] = NewAccount]
    /\ UNCHANGED <<setupVars, bufVars, buf_lock, thread, addressed>>

(* what fixed_size_llseek() accepts                                        *)
seekable == 0..BUF_SIZE

rw_llseek(f) ==
    /\ file[f].open
    /\ \E pos \in seekable :
          /\ file' = [file EXCEPT ![f].pos = pos]
          /\ account' = [account EXCEPT ![f] =
                IF UsedBy(f) = {} THEN [NewAccount EXCEPT !.due = pos]
                                  ELSE Overlapped]
    /\ UNCHANGED <<setupVars, bufVars, buf_lock, thread, addressed>>

(* read() and write() begin: the position is copied                        *)
call_begins(t) ==
    /\ thread[t].pc = "idle"
    /\ \E f \in Files, op \in {"read", "write"}, n \in 0..(BUF_SIZE + 1),
          byte \in Bytes :
          /\ file[f].open
          /\ ThreadSet(t, [pc |-> "lock", op |-> op, file |-> f,
                           pos |-> file[f].pos, n |-> n, byte |-> byte])
          /\ account' = [account EXCEPT ![f] =
                IF UsedBy(f) = {} THEN @ ELSE Overlapped]
    /\ UNCHANGED <<setupVars, bufVars, buf_lock, file, addressed>>

(* and return, with 0 or more: it is stored                                *)
call_returns(t) ==
    /\ thread[t].pc = "return"
    /\ file' = [file EXCEPT ![thread[t].file].pos = thread[t].pos]
    /\ ThreadSet(t, Idle)
    /\ UNCHANGED <<setupVars, bufVars, buf_lock, addressed, account>>

-----------------------------------------------------------------------------
lock_free == buf_lock = FREE

read_limit == data_len

limit(op) == IF op = "read" THEN read_limit ELSE BUF_SIZE

(* rw_read() and rw_write() up to the copy: 0 or -ENOSPC at the limit      *)
rw_enters(t) ==
    LET me == thread[t]
    IN  /\ me.pc = "lock"
        /\ lock_free
        /\ IF me.pos >= limit(me.op)
           THEN /\ ThreadSet(t, IF me.op = "read"
                                THEN [me EXCEPT !.pc = "return"] ELSE Idle)
                /\ UNCHANGED <<buf_lock, addressed>>
           ELSE /\ buf_lock' = t
                /\ ThreadSet(t, [me EXCEPT !.pc = "copy",
                                    !.n = min(@, limit(me.op) - me.pos)])
                /\ addressed' = addressed \cup
                      (IF me.op = "write" THEN Span(t) \cap Slots ELSE {})
        /\ UNCHANGED <<setupVars, bufVars, file, account>>

(* mutant: *ppos is left alone                                             *)
ppos_kept(me) == me.pos

ppos_advanced(me) == me.pos + me.n

(* the copy from or to the user succeeds; the position advances            *)
rw_copies(t) ==
    LET me  == thread[t]
        end == ppos_advanced(me)
    IN  /\ me.pc = "copy"
        /\ IF me.op = "write"
           THEN /\ buffer' = [i \in Slots |-> IF i \in Span(t) THEN me.byte
                                              ELSE buffer[i]]
                /\ data_len' = IF end > data_len THEN end ELSE data_len
           ELSE UNCHANGED bufVars
        /\ buf_lock' = FREE
        /\ ThreadSet(t, [me EXCEPT !.pc = "return", !.pos = end])
        /\ account' = [account EXCEPT ![me.file] =
              IF @.alone THEN [due |-> @.due + me.n, alone |-> TRUE] ELSE @]
        /\ UNCHANGED <<setupVars, file, addressed>>

(* mutant: kmalloc() instead of kzalloc()                                  *)
fresh_dirty == [i \in Slots |-> CHOOSE b \in Bytes : TRUE]

fresh_zeroed == [i \in Slots |-> 0]

(* -EFAULT: copy_from_user() has copied k bytes and zeroed the rest of the *)
(* span, nothing else changes                                              *)
rw_faults(t) ==
    /\ MayFault
    /\ thread[t].pc = "copy"
    /\ \E k \in 0..(thread[t].n - 1) :
          buffer' = [i \in Slots |->
                       IF thread[t].op = "read" \/ i \notin Span(t)
                       THEN buffer[i]
                       ELSE IF i < thread[t].pos + k THEN thread[t].byte ELSE 0]
    /\ buf_lock' = FREE
    /\ ThreadSet(t, Idle)
    /\ UNCHANGED <<setupVars, data_len, file, addressed, account>>

-----------------------------------------------------------------------------
(* read_write_cdev_init() and read_write_cdev_exit(); a loaded module has  *)
(* a new buffer and data_len = 0; open files keep it loaded                *)
module_loads ==
    /\ Setup!init_begin
    /\ buffer' = fresh_zeroed
    /\ data_len' = 0
    /\ addressed' = {}
    /\ UNCHANGED <<buf_lock, file, thread, account>>

module_steps ==
    /\ \/ Setup!init_continues
       \/ Setup!exit_begin /\ \A f \in Files : ~file[f].open
       \/ Setup!undo_continues
    /\ UNCHANGED <<bufVars, buf_lock, file, thread, addressed, account>>

-----------------------------------------------------------------------------
Next ==
    \/ \E f \in Files : file_opens(f) \/ file_closes(f) \/ rw_llseek(f)
    \/ \E t \in Threads :
          \/ call_begins(t) \/ call_returns(t)
          \/ rw_enters(t) \/ rw_copies(t) \/ rw_faults(t)
    \/ module_loads
    \/ module_steps

Spec == Init /\ [][Next]_vars

-----------------------------------------------------------------------------
(* No copy leaves its bounds, which are two different ones: a read stays   *)
(* within the data there is when it copies, a write within the buffer,     *)
(* also with a position that a seek or another thread has moved meanwhile. *)
CopiesInBounds ==
    \A t \in Threads :
        thread[t].pc = "copy" =>
            /\ thread[t].op = "read" => thread[t].pos + thread[t].n <= data_len
            /\ thread[t].op = "write" => thread[t].pos + thread[t].n <= BUF_SIZE

(* No copy overlaps another one, however long the user's page takes: a     *)
(* read does not return half of a write.                                   *)
CopiesExclusive ==
    \A t, u \in Threads :
        thread[t].pc = "copy" /\ thread[u].pc = "copy" => t = u

(* A hole that a seek past the data has left reads as zeros: only bytes    *)
(* that some write was about, even one that failed, are anything else.     *)
HolesReadZero ==
    \A i \in Slots : i < data_len /\ i \notin addressed => buffer[i] = 0

(* A file's position moves by the bytes that its calls have returned, as   *)
(* long as its users do not call at the same time.                         *)
PositionAccounts ==
    \A f \in Files :
        file[f].open /\ account[f].alone /\ UsedBy(f) = {} =>
            file[f].pos = account[f].due

(* Whether init fails half way or exit runs: nothing stays registered, and *)
(* the buffer outlives the device through which it is reached.             *)
RwUndone == Setup!UndoneInOrder
=============================================================================
