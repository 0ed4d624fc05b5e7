----------------------------- MODULE MCLockLabs -----------------------------
(***************************************************************************)
(* The three labs about shared data and locks: 11 (RaceDemo), 13           *)
(* (KernelMemory) and 16 (DebugfsSysfs).  They are separate kernel modules *)
(* that share nothing, so a behaviour is one of one of them: "lab" says    *)
(* which, and the others stay unloaded.                                    *)
(***************************************************************************)
EXTENDS Naturals

CONSTANTS
    Writers, Readers, FREE, NULL,
    Resetters, Counts, MAX_INCREMENTS_PER_WRITE, MaxWrites, MaxResets,
    MaxSwitches,
    Addresses, Sizes, Slack, CACHE_OBJ_SIZE, KMALLOC_MAX_SIZE, Users,
    MODULE_TASK, MaxAllocs,
    U32, MaxIncrements

ASSUME LockLabsAssumption ==
    /\ NULL \notin Addresses
    /\ MODULE_TASK \notin Users
    /\ FREE \notin Users \cup {MODULE_TASK}
    /\ Sizes \subseteq Nat
    /\ {Slack, CACHE_OBJ_SIZE, KMALLOC_MAX_SIZE} \subseteq Nat
    /\ Writers \cap Readers = {}
    /\ FREE \notin Writers \cup Readers
    /\ U32 \in Nat \ {0}
    /\ Counts \subseteq Nat /\ MAX_INCREMENTS_PER_WRITE \in Nat

VARIABLES
    lab,
    race_loaded, mode, counter_plain, counter_atomic, reset_count,
    counter_spinlock, counter_mutex, race_writer, resetter, calls, trial,
    memory_phase, state_lock, cur_type, cur_ptr, cur_requested_size,
    cur_actual_size, stats_alloc_ok, stats_alloc_fail, stats_free_count,
    heap, call, info, late,
    debugfs_phase, debugfs, counter, enabled, data_lock, debugfs_writer,
    reader, ledger

Race == INSTANCE RaceDemo WITH loaded <- race_loaded, writer <- race_writer

Memory == INSTANCE KernelMemory WITH phase <- memory_phase

Debugfs == INSTANCE DebugfsSysfs WITH
    phase <- debugfs_phase, writer <- debugfs_writer

raceVars ==
    <<race_loaded, mode, counter_plain, counter_atomic, reset_count,
      counter_spinlock, counter_mutex, race_writer, resetter, calls, trial>>
memoryVars ==
    <<memory_phase, state_lock, cur_type, cur_ptr, cur_requested_size,
      cur_actual_size, stats_alloc_ok, stats_alloc_fail, stats_free_count,
      heap, call, info, late>>
debugfsVars ==
    <<debugfs_phase, debugfs, counter, enabled, data_lock, debugfs_writer,
      reader, ledger>>
vars == <<lab, raceVars, memoryVars, debugfsVars>>

Init ==
    /\ lab \in {"race", "memory", "debugfs"}
    /\ Race!Init
    /\ Memory!Init
    /\ Debugfs!Init

Next ==
    \/ lab = "race" /\ Race!Next /\ UNCHANGED <<lab, memoryVars, debugfsVars>>
    \/ lab = "memory" /\ Memory!Next /\ UNCHANGED <<lab, raceVars, debugfsVars>>
    \/ lab = "debugfs" /\ Debugfs!Next /\ UNCHANGED <<lab, raceVars, memoryVars>>

Spec == Init /\ [][Next]_vars

-----------------------------------------------------------------------------
(* Labs 11 and 16: increments are accounted for.  After a reset,           *)
(* concurrent writes in a locking mode lose no increment_once(); however   *)
(* "mode" is switched under running writes, none is made up; and           *)
(* increment_store() loses none across the wrap of the u32 and on top of   *)
(* raw writes that do not meet it half way.                                *)
IncrementsAccounted ==
    /\ Race!NoLostUpdate
    /\ Race!UpdatesNeverMadeUp
    /\ Debugfs!IncrementsCounted

(* Lab 13: with state_lock free, the slot that do_allocate() and do_free() *)
(* keep, the allocators and the statistics agree.                          *)
SlotOwnsHeap == Memory!SlotOwnsHeap

(* Labs 13 and 16: what "info" shows was true at one moment: the sizes of  *)
(* one and the same allocation, a counter and a flag that belong together. *)
InfoOfOneMoment ==
    /\ Memory!InfoOfOneAllocation
    /\ Debugfs!InfoOfOneMoment

(* Labs 13 and 16: rmmod leaves nothing behind, neither an allocation (but *)
(* one that a store made after exit had looked) nor a file bound to a      *)
(* variable of the module.                                                 *)
NothingLeft ==
    /\ Memory!NothingLeaked
    /\ Debugfs!NoPokeAfterUnload
=============================================================================
