----------------------------- MODULE IoctlBasics -----------------------------
(***************************************************************************)
(* Lab 10, src/10_ioctl_basics/ioctl_basics.c: four ioctl commands over    *)
(* statistics and a mode, and a buffer that ECHO transforms in the mode    *)
(* that is in force when it takes state_lock.                              *)
(*                                                                         *)
(* A section under state_lock is one action.  A buffer is a function on    *)
(* 0..BufLen-1 of character codes, 0 being NUL.  A command that is not one *)
(* of the four (-ENOTTY) and a copy from the user that faults change       *)
(* nothing and are left out.                                               *)
(***************************************************************************)
EXTENDS Naturals, SequencesExt

CONSTANTS
    BufLen,         \* sizeof(req.buf)
    Chars,          \* the character codes a caller sends, 0 among them
    Echoers,        \* processes in IOCTL_BASICS_ECHO
    MaxCount        \* bound: the counters stop here

VARIABLES
    phase, acquired, undo,   \* of CdevSetup
    stats,
    echo,           \* per echoer: its place and its req
    inforce         \* ghost: per echoer, the modes since its call began

setupVars == <<phase, acquired, undo>>
vars == <<setupVars, stats, echo, inforce>>

IDENTITY == 0
UPPER == 1
REVERSE == 2

Modes == {IDENTITY, UPPER, REVERSE}

Indices == 0..(BufLen - 1)

Buffers == [Indices -> Chars]

ioctl_init_order == <<"region", "cdev", "class", "device">>

(* mutant: the last label is missing from a path                           *)
ioctl_labels_short ==
    [region |-> <<>>, cdev |-> <<"region">>, class |-> <<"cdev">>,
     device |-> <<"class", "cdev", "region">>]

ioctl_init_labels ==
    [region |-> <<>>,
     cdev   |-> <<"region">>,
     class  |-> <<"cdev", "region">>,
     device |-> <<"class", "cdev", "region">>]

ioctl_exit_order == <<"device", "class", "cdev", "region">>

Setup == INSTANCE CdevSetup WITH
            InitOrder  <- ioctl_init_order,
            InitUndoes <- ioctl_init_labels,
            ExitUndoes <- ioctl_exit_order

NewStats == [reads |-> 0, echoes |-> 0, resets |-> 0, mode |-> IDENTITY]

Empty == [i \in Indices |-> 0]

Idle == [pc |-> "idle", sent |-> Empty, buf |-> Empty]

Init ==
    /\ Setup!SetupInit
    /\ stats = NewStats
    /\ echo = [e \in Echoers |-> Idle]
    /\ inforce = [e \in Echoers |-> {}]

-----------------------------------------------------------------------------
(* apply_mode_transform()                                                  *)

strlen(buf) == CHOOSE n \in Indices :
                  buf[n] = 0 /\ \A i \in Indices : i < n => buf[i] # 0

to_upper(c) == IF c \in 97..122 THEN c - (97 - 65) ELSE c

swapped(buf, i, j) == [buf EXCEPT ![i] = buf[j], ![j] = buf[i]]

(* mutant: the loop runs over the whole string and swaps twice             *)
reversed_twice(buf, len) ==
    LET after[n \in 0..len] ==
            IF n = 0 THEN buf ELSE swapped(after[n - 1], n - 1, len - n)
    IN  after[len]

(* after n rounds of the loop with i = 0 .. n-1                            *)
reversed_in_place(buf, len) ==
    LET after[n \in 0..(len \div 2)] ==
            IF n = 0 THEN buf ELSE swapped(after[n - 1], n - 1, len - n)
    IN  after[len \div 2]

apply_mode_transform(buf, mode) ==
    CASE mode = UPPER ->
            [i \in Indices |-> IF i < strlen(buf) THEN to_upper(buf[i]) ELSE buf[i]]
      [] mode = REVERSE -> reversed_in_place(buf, strlen(buf))
      [] OTHER -> buf

-----------------------------------------------------------------------------
(* ioctl_basics_ioctl()                                                    *)

counted(n) == IF n < MaxCount THEN n + 1 ELSE n

NewMode(mode) ==
    inforce' = [e \in Echoers |->
                    IF echo[e].pc = "idle" THEN {} ELSE inforce[e] \cup {mode}]

ioctl_reset ==
    /\ phase = "live"
    /\ stats' = [NewStats EXCEPT !.resets = counted(stats.resets)]
    /\ NewMode(IDENTITY)
    /\ UNCHANGED <<setupVars, echo>>

(* counted whether or not the copy to the user succeeds                    *)
ioctl_get_stats ==
    /\ phase = "live"
    /\ stats' = [stats EXCEPT !.reads = counted(@)]
    /\ UNCHANGED <<setupVars, echo, inforce>>

mode_known(mode) == mode <= REVERSE

ioctl_set_mode ==
    /\ phase = "live"
    /\ \E mode \in Modes \cup {REVERSE + 1} :
          /\ mode_known(mode)
          /\ stats' = [stats EXCEPT !.mode = mode]
          /\ NewMode(mode)
    /\ UNCHANGED <<setupVars, echo>>

terminated(buf) == [buf EXCEPT ![BufLen - 1] = 0]

echo_begin(e) ==
    /\ phase = "live"
    /\ echo[e].pc = "idle"
    /\ \E buf \in Buffers :
          echo' = [echo EXCEPT ![e] = [pc |-> "lock", sent |-> buf,
                                       buf |-> terminated(buf)]]
    /\ inforce' = [inforce EXCEPT ![e] = {stats.mode}]
    /\ UNCHANGED <<setupVars, stats>>

echo_locked(e) ==
    /\ echo[e].pc = "lock"
    /\ echo' = [echo EXCEPT ![e].pc = "reply",
                            ![e].buf = apply_mode_transform(@, stats.mode)]
    /\ stats' = [stats EXCEPT !.echoes = counted(@)]
    /\ UNCHANGED <<setupVars, inforce>>

(* copy_to_user(), which may fault                                         *)
echo_reply(e) ==
    /\ echo[e].pc = "reply"
    /\ echo' = [echo EXCEPT ![e] = Idle]
    /\ inforce' = [inforce EXCEPT ![e] = {}]
    /\ UNCHANGED <<setupVars, stats>>

ioctl_echo(e) == echo_begin(e) \/ echo_locked(e) \/ echo_reply(e)

-----------------------------------------------------------------------------
(* ioctl_basics_init() and ioctl_basics_exit()                             *)

module_loads ==
    /\ Setup!init_begin
    /\ stats' = NewStats
    /\ UNCHANGED <<echo, inforce>>

module_steps ==
    /\ \/ Setup!init_continues
       \/ Setup!exit_begin /\ \A e \in Echoers : echo[e].pc = "idle"
       \/ Setup!undo_continues
    /\ UNCHANGED <<stats, echo, inforce>>

-----------------------------------------------------------------------------
Next ==
    \/ ioctl_reset
    \/ ioctl_get_stats
    \/ ioctl_set_mode
    \/ \E e \in Echoers : ioctl_echo(e)
    \/ module_loads
    \/ module_steps

Spec == Init /\ [][Next]_vars

-----------------------------------------------------------------------------
(* what a caller expects of each mode: the text up to the NUL is mapped,   *)
(* everything behind it comes back as it was sent                          *)
Text(buf) == [i \in 1..strlen(buf) |-> buf[i - 1]]

Behind(buf) == [i \in strlen(buf)..(BufLen - 1) |-> buf[i]]

Expected(mode, text) ==
    CASE mode = IDENTITY -> text
      [] mode = UPPER    -> [i \in DOMAIN text |-> to_upper(text[i])]
      [] mode = REVERSE  -> Reverse(text)

(* ECHO returns what was sent, transformed in place by one mode that was   *)
(* in force during the call, however the mode is set and reset meanwhile.  *)
EchoIsTransform ==
    \A e \in Echoers :
        LET sent  == [echo[e].sent EXCEPT ![BufLen - 1] = 0]
            reply == echo[e].buf
        IN  echo[e].pc = "reply" =>
                /\ \E mode \in inforce[e] : Text(reply) = Expected(mode, Text(sent))
                /\ Behind(reply) = Behind(sent)

(* Whether init fails half way or exit runs: nothing stays registered.     *)
IoctlUndone == Setup!UndoneInOrder
=============================================================================
