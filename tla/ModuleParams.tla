---------------------------- MODULE ModuleParams ----------------------------
(***************************************************************************)
(* Lab 04, src/04_module_params/module_params.c: read() renders its output *)
(* from parameters that root may write at any moment through sysfs, with   *)
(* no lock and no callback; it returns what lies behind the file's         *)
(* position in the output of that moment.                                  *)
(*                                                                         *)
(* Output is represented by its length.  Parameters that only insmod can   *)
(* set are constants.                                                      *)
(***************************************************************************)
EXTENDS Naturals

CONSTANTS
    MAX_REPEAT, MAX_OUTPUT,
    GreetingLine,       \* length of the greeting and its newline
    Diagnostics,        \* length of the diagnostics block
    RepeatCounts,       \* values that are written to repeat_count
    Readers             \* processes that read to the end, like cat

VARIABLES
    loaded,
    repeat_count, verbose,
    reader              \* per reader: its place, its file and its locals

vars == <<loaded, repeat_count, verbose, reader>>

(* reps: rounds of the loop that are left; len: what is rendered so far;   *)
(* pos: the file position                                                  *)
Idle == [pc |-> "idle", reps |-> 0, len |-> 0, pos |-> 0]

Init ==
    /\ loaded = FALSE
    /\ repeat_count = 1
    /\ verbose = FALSE
    /\ reader = [r \in Readers |-> Idle]

min(a, b) == IF a < b THEN a ELSE b

ReaderSet(r, new) == reader' = [reader EXCEPT ![r] = new]

-----------------------------------------------------------------------------
(* module_params_read()                                                    *)

reader_opens(r) ==
    /\ loaded
    /\ reader[r].pc = "idle"
    /\ ReaderSet(r, [Idle EXCEPT !.pc = "reps"])
    /\ UNCHANGED <<loaded, repeat_count, verbose>>

clamped(n) == IF n > MAX_REPEAT THEN MAX_REPEAT ELSE n

(* the load of repeat_count that counts                                    *)
read_reps(r) ==
    /\ reader[r].pc = "reps"
    /\ ReaderSet(r, [reader[r] EXCEPT !.pc = "render",
                                      !.reps = clamped(repeat_count)])
    /\ UNCHANGED <<loaded, repeat_count, verbose>>

(* mutant: snprintf(), which returns the length it would have needed       *)
snprintf(len, text) == len + text

(* what scnprintf() leaves of a text behind len, and its NUL               *)
scnprintf(len, text) == len + min(text, MAX_OUTPUT - len - 1)

(* a round of the loop, which stops when the buffer is full                *)
rounds_left(me) == me.reps > 0 /\ me.len < MAX_OUTPUT - 1

read_greets(r) ==
    LET me == reader[r]
    IN  /\ me.pc = "render"
        /\ rounds_left(me)
        /\ ReaderSet(r, [me EXCEPT !.reps = @ - 1,
                                   !.len = scnprintf(@, GreetingLine)])
        /\ UNCHANGED <<loaded, repeat_count, verbose>>

(* the load of verbose; the diagnostics load repeat_count once more, to    *)
(* print it                                                                *)
read_renders(r) ==
    LET me == reader[r]
    IN  /\ me.pc = "render"
        /\ ~rounds_left(me)
        /\ ReaderSet(r, [me EXCEPT !.pc = "copy",
              !.len = IF verbose THEN scnprintf(@, Diagnostics) ELSE @])
        /\ UNCHANGED <<loaded, repeat_count, verbose>>

(* mutant: *ppos is not advanced                                           *)
position_kept(pos, n) == pos

position_advanced(pos, n) == pos + n

(* 0 at the end of what was rendered, -EFAULT, or some of it               *)
read_copy(r) ==
    LET me == reader[r]
    IN  /\ me.pc = "copy"
        /\ \/ ReaderSet(r, Idle)
           \/ /\ me.pos < me.len
              /\ \E n \in 1..(me.len - me.pos) :
                    ReaderSet(r, [Idle EXCEPT !.pc = "reps",
                                    !.pos = position_advanced(me.pos, n)])
        /\ UNCHANGED <<loaded, repeat_count, verbose>>

module_params_read(r) ==
    read_reps(r) \/ read_greets(r) \/ read_renders(r) \/ read_copy(r)

-----------------------------------------------------------------------------
(* the parameters' sysfs files                                             *)
param_write ==
    /\ loaded
    /\ \/ repeat_count' \in RepeatCounts /\ UNCHANGED verbose
       \/ verbose' \in BOOLEAN /\ UNCHANGED repeat_count
    /\ UNCHANGED <<loaded, reader>>

(* insmod may set the parameters                                           *)
module_params_init ==
    /\ ~loaded
    /\ loaded' = TRUE
    /\ repeat_count' \in RepeatCounts
    /\ verbose' \in BOOLEAN
    /\ UNCHANGED reader

module_params_exit ==
    /\ loaded
    /\ \A r \in Readers : reader[r].pc = "idle"
    /\ loaded' = FALSE
    /\ UNCHANGED <<repeat_count, verbose, reader>>

-----------------------------------------------------------------------------
Next ==
    \/ \E r \in Readers : reader_opens(r) \/ module_params_read(r)
    \/ param_write
    \/ module_params_init
    \/ module_params_exit

Fairness == \A r \in Readers : WF_vars(module_params_read(r))

Spec == Init /\ [][Next]_vars

FairSpec == Spec /\ Fairness

-----------------------------------------------------------------------------
(* Whatever is written to the parameters, at load time and between the two *)
(* loads of repeat_count, the output and its NUL fit into kbuf, and the    *)
(* position never gets past them.                                          *)
OutputFits ==
    \A r \in Readers :
        /\ reader[r].len < MAX_OUTPUT
        /\ reader[r].pos < MAX_OUTPUT

(* A reader gets to the end even if somebody keeps changing the length of  *)
(* the output under its feet.                                              *)
ReadEnds == \A r \in Readers : reader[r].pc = "reps" ~> reader[r].pc = "idle"
=============================================================================
