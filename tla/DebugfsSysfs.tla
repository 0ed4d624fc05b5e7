---------------------------- MODULE DebugfsSysfs ----------------------------
(***************************************************************************)
(* Lab 16, src/16_debugfs_sysfs/debugfs_sysfs.c: a u32 and a bool behind   *)
(* sysfs attributes that take data_lock, and behind debugfs files that     *)
(* are bound to the addresses of the two and take no lock.                 *)
(*                                                                         *)
(* counter++ is a load and a store.  debugfs may be missing: init does not *)
(* look at what debugfs_create_*() return.                                 *)
(***************************************************************************)
EXTENDS Naturals

CONSTANTS
    Writers,        \* processes that write "increment"
    Readers,        \* processes that read debugfs "info"
    FREE,           \* nobody holds data_lock
    U32,            \* bound: the number of u32 values, 2^32 in the code
    MaxIncrements   \* bound: writes of "increment" per load

VARIABLES
    phase,
    debugfs,        \* does the debugfs directory exist?
    counter, enabled, data_lock,
    writer,         \* per writer: its place and what it has loaded
    reader,         \* per reader: its place and its locals c and e
    ledger          \* ghost: what the counter ought to be

dataVars == <<counter, enabled>>
vars == <<phase, debugfs, dataVars, data_lock, writer, reader, ledger>>

Values == 0..(U32 - 1)

IdleWriter == [pc |-> "idle", tmp |-> 0]

IdleReader == [pc |-> "idle", c |-> 0, e |-> FALSE]

(* base: the last raw write; begun: increments since the module is loaded; *)
(* done: increments since that raw write; clear: no raw write has met an   *)
(* increment or a read of "info" half way                                  *)
NewLedger == [base |-> 0, begun |-> 0, done |-> 0, clear |-> TRUE]

Init ==
    /\ phase = "unloaded"
    /\ debugfs = FALSE
    /\ counter = 0
    /\ enabled = TRUE
    /\ data_lock = FREE
    /\ writer = [w \in Writers |-> IdleWriter]
    /\ reader = [r \in Readers |-> IdleReader]
    /\ ledger = NewLedger

WriterSet(w, new) == writer' = [writer EXCEPT ![w] = new]

ReaderSet(r, new) == reader' = [reader EXCEPT ![r] = new]

-----------------------------------------------------------------------------
(* sysfs: increment and enabled                                            *)

(* mutant: the sections are not protected                                  *)
lock_ignored == TRUE

lock_free == data_lock = FREE

SysfsUsable == phase \in {"live", "nodebugfs"}

increment_begin(w) ==
    /\ SysfsUsable
    /\ ledger.begun < MaxIncrements
    /\ writer[w].pc = "idle"
    /\ WriterSet(w, [IdleWriter EXCEPT !.pc = "lock"])
    /\ ledger' = [ledger EXCEPT !.begun = @ + 1]
    /\ UNCHANGED <<phase, debugfs, dataVars, data_lock, reader>>

increment_load(w) ==
    /\ writer[w].pc = "lock"
    /\ lock_free
    /\ data_lock' = w
    /\ WriterSet(w, [pc |-> "store", tmp |-> counter])
    /\ UNCHANGED <<phase, debugfs, dataVars, reader, ledger>>

u32_increment(v) == (v + 1) % U32

increment_done(w) ==
    /\ writer[w].pc = "store"
    /\ counter' = u32_increment(writer[w].tmp)
    /\ data_lock' = FREE
    /\ WriterSet(w, IdleWriter)
    /\ ledger' = [ledger EXCEPT !.done = @ + 1]
    /\ UNCHANGED <<phase, debugfs, enabled, reader>>

increment_store(w) ==
    increment_begin(w) \/ increment_load(w) \/ increment_done(w)

enabled_store ==
    /\ SysfsUsable
    /\ lock_free
    /\ enabled' \in BOOLEAN
    /\ UNCHANGED <<phase, debugfs, counter, data_lock, writer, reader, ledger>>

-----------------------------------------------------------------------------
(* debugfs: counter_raw and enabled_raw without data_lock, info with it    *)

HalfWay ==
    \/ \E w \in Writers : writer[w].pc = "store"
    \/ \E r \in Readers : reader[r].pc \notin {"idle", "copy"}

raw_write ==
    /\ debugfs
    /\ \/ /\ counter' \in Values
          /\ ledger' = [ledger EXCEPT !.base = counter', !.done = 0,
                                      !.clear = @ /\ ~HalfWay]
          /\ UNCHANGED enabled
       \/ /\ enabled' \in BOOLEAN
          /\ ledger' = [ledger EXCEPT !.clear = @ /\ ~HalfWay]
          /\ UNCHANGED counter
    /\ UNCHANGED <<phase, debugfs, data_lock, writer, reader>>

info_lock(r) ==
    /\ debugfs
    /\ reader[r].pc = "idle"
    /\ lock_free
    /\ data_lock' = r
    /\ ReaderSet(r, [IdleReader EXCEPT !.pc = "enabled", !.c = counter])
    /\ UNCHANGED <<phase, debugfs, dataVars, writer, ledger>>

info_enabled(r) ==
    /\ reader[r].pc = "enabled"
    /\ ReaderSet(r, [reader[r] EXCEPT !.pc = "unlock", !.e = enabled])
    /\ UNCHANGED <<phase, debugfs, dataVars, data_lock, writer, ledger>>

info_unlock(r) ==
    /\ reader[r].pc = "unlock"
    /\ data_lock' = FREE
    /\ ReaderSet(r, [reader[r] EXCEPT !.pc = "copy"])
    /\ UNCHANGED <<phase, debugfs, dataVars, writer, ledger>>

info_return(r) ==
    /\ reader[r].pc = "copy"
    /\ ReaderSet(r, IdleReader)
    /\ UNCHANGED <<phase, debugfs, dataVars, data_lock, writer, ledger>>

info_read(r) ==
    info_lock(r) \/ info_enabled(r) \/ info_unlock(r) \/ info_return(r)

-----------------------------------------------------------------------------
(* a failed kobject or group is undone; debugfs may fail unnoticed         *)
debugfs_sysfs_init ==
    /\ phase = "unloaded"
    /\ phase' = "live"
    /\ debugfs' \in BOOLEAN
    /\ counter' = 0
    /\ enabled' = TRUE
    /\ ledger' = NewLedger
    /\ UNCHANGED <<data_lock, writer, reader>>

debugfs_removed == FALSE

(* debugfs_remove_recursive() waits for readers, sysfs_remove_group() for  *)
(* stores                                                                  *)
debugfs_sysfs_exit ==
    /\ \/ /\ phase = "live" /\ phase' = "nodebugfs"
          /\ \A r \in Readers : reader[r].pc = "idle"
          /\ debugfs' = debugfs_removed
       \/ /\ phase = "nodebugfs" /\ phase' = "unloaded"
          /\ \A w \in Writers : writer[w].pc = "idle"
          /\ UNCHANGED debugfs
    /\ UNCHANGED <<dataVars, data_lock, writer, reader, ledger>>

-----------------------------------------------------------------------------
Next ==
    \/ \E w \in Writers : increment_store(w)
    \/ enabled_store
    \/ raw_write
    \/ \E r \in Readers : info_read(r)
    \/ debugfs_sysfs_init
    \/ debugfs_sysfs_exit

Spec == Init /\ [][Next]_vars

-----------------------------------------------------------------------------
(* Increments are neither lost nor made up, across the wrap of the u32 and *)
(* on top of raw writes, as long as no raw write meets an increment half   *)
(* way: the raw files (debugfs_sysfs.c:41, "overwrites `counter`           *)
(* directly") are all that can break the count.                            *)
IncrementsCounted ==
    ledger.clear => counter = (ledger.base + ledger.done) % U32

(* "info" shows a counter and a flag that were true together.              *)
InfoOfOneMoment ==
    \A r \in Readers :
        ledger.clear /\ reader[r].pc = "unlock" =>
            reader[r].c = counter /\ reader[r].e = enabled

(* Nothing can reach the two variables once the module is gone.            *)
NoPokeAfterUnload ==
    phase = "unloaded" =>
        /\ ~debugfs
        /\ data_lock = FREE
        /\ \A w \in Writers : writer[w].pc = "idle"
=============================================================================
