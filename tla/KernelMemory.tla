---------------------------- MODULE KernelMemory ----------------------------
(***************************************************************************)
(* Lab 13, src/13_kernel_memory/kernel_memory.c: one slot that holds an    *)
(* allocation of one of three allocators; the sysfs files "allocate" and   *)
(* "free" fill and empty it, "info" shows it, rmmod frees what is left.    *)
(*                                                                         *)
(* The allocators may sleep, so a section under state_lock is several      *)
(* steps.  An allocation is the address the allocator handed out; times    *)
(* and log lines are left out.  A store that does not parse changes        *)
(* nothing and is left out too.                                            *)
(***************************************************************************)
EXTENDS Naturals, FiniteSets

CONSTANTS
    Addresses,         \* what the allocators can hand out
    NULL,
    Sizes,             \* sizes that are asked for
    Slack,             \* bound: kmalloc() rounds a size up by at most this
    CACHE_OBJ_SIZE, KMALLOC_MAX_SIZE,
    Users,             \* processes that use the sysfs files
    MODULE_TASK,       \* the process in rmmod
    FREE,              \* nobody holds state_lock
    MaxAllocs          \* bound: calls of the allocators per load

VARIABLES
    phase,
    state_lock,
    cur_type, cur_ptr, cur_requested_size, cur_actual_size,
    stats_alloc_ok, stats_alloc_fail, stats_free_count,
    heap,              \* per address: the allocator that has handed it out
                       \* since the module was loaded
    call,              \* per process: its place in a store and its locals
    info,              \* what "info" has shown last
    late               \* ghost: a store has filled the slot during exit

slotVars == <<cur_type, cur_ptr, cur_requested_size, cur_actual_size>>
statsVars == <<stats_alloc_ok, stats_alloc_fail, stats_free_count>>
vars == <<phase, state_lock, slotVars, statsVars, heap, call, info, late>>

Allocators == {"kmalloc", "vmalloc", "cache"}

Types == Allocators \cup {"none"}

Tasks == Users \cup {MODULE_TASK}

Idle == [pc |-> "idle", type |-> "none", size |-> 0, ptr |-> NULL]

Blank == [type |-> "none", requested |-> 0, actual |-> 0]

Init ==
    /\ phase = "unloaded"
    /\ state_lock = FREE
    /\ cur_type = "none"
    /\ cur_ptr = NULL
    /\ cur_requested_size = 0
    /\ cur_actual_size = 0
    /\ stats_alloc_ok = 0
    /\ stats_alloc_fail = 0
    /\ stats_free_count = 0
    /\ heap = [a \in Addresses |-> "none"]
    /\ call = [t \in Tasks |-> Idle]
    /\ info = Blank
    /\ late = FALSE

Set(t, new) == call' = [call EXCEPT ![t] = new]

Allocated == {a \in Addresses : heap[a] # "none"}

-----------------------------------------------------------------------------
(* do_allocate()                                                           *)

(* mutant: the mutex is not taken                                          *)
unlocked == TRUE

lockable == state_lock = FREE

(* the cache has objects of one size                                       *)
size_allocated(type, size) == IF type = "cache" THEN CACHE_OBJ_SIZE ELSE size

alloc_lock(u) ==
    /\ call[u].pc = "allocate"
    /\ lockable
    /\ IF cur_type # "none"
       THEN Set(u, Idle) /\ UNCHANGED state_lock                   \* -EBUSY
       ELSE /\ state_lock' = u
            /\ Set(u, [call[u] EXCEPT !.pc = "call",
                           !.size = size_allocated(call[u].type, @)])
    /\ UNCHANGED <<phase, slotVars, statsVars, heap, info, late>>

(* The allocators: kmalloc() has a ceiling, but hands out an address even  *)
(* for 0 bytes, which vmalloc() refuses; each may fail at any time.        *)
can_allocate(type, size) ==
    CASE type = "kmalloc" -> size <= KMALLOC_MAX_SIZE
      [] type = "vmalloc" -> size > 0
      [] type = "cache"   -> TRUE

alloc_call(u) ==
    /\ call[u].pc = "call"
    /\ \/ \E a \in Addresses \ Allocated :
             /\ can_allocate(call[u].type, call[u].size)
             /\ heap' = [heap EXCEPT ![a] = call[u].type]
             /\ Set(u, [call[u] EXCEPT !.pc = "record", !.ptr = a])
             /\ UNCHANGED <<state_lock, stats_alloc_fail>>
       \/ /\ stats_alloc_fail' = stats_alloc_fail + 1              \* -ENOMEM
          /\ state_lock' = FREE
          /\ Set(u, Idle)
          /\ UNCHANGED heap
    /\ UNCHANGED <<phase, slotVars, stats_alloc_ok, stats_free_count, info,
                   late>>

(* what ksize() says of a block of kmalloc()                               *)
actual_sizes(type, size) ==
    IF type = "kmalloc" THEN size..(size + Slack) ELSE {size}

alloc_record(u) ==
    /\ call[u].pc = "record"
    /\ cur_type' = call[u].type
    /\ cur_ptr' = call[u].ptr
    /\ cur_requested_size' = call[u].size
    /\ cur_actual_size' \in actual_sizes(call[u].type, call[u].size)
    /\ stats_alloc_ok' = stats_alloc_ok + 1
    /\ state_lock' = FREE
    /\ late' = (late \/ phase # "live")
    /\ Set(u, Idle)
    /\ UNCHANGED <<phase, stats_alloc_fail, stats_free_count, heap, info>>

do_allocate(u) == alloc_lock(u) \/ alloc_call(u) \/ alloc_record(u)

-----------------------------------------------------------------------------
(* do_free(), of free_store() and of kernel_memory_exit()                  *)

free_lock(t) ==
    /\ call[t].pc = "free"
    /\ lockable
    /\ IF cur_type = "none"
       THEN Set(t, Idle) /\ UNCHANGED state_lock                   \* -ENOENT
       ELSE /\ state_lock' = t
            /\ Set(t, [Idle EXCEPT !.pc = "release", !.type = cur_type,
                                   !.ptr = cur_ptr])
    /\ UNCHANGED <<phase, slotVars, statsVars, heap, info, late>>

(* kfree(), vfree() or kmem_cache_free()                                   *)
free_call(t) ==
    /\ call[t].pc = "release"
    /\ heap' = [heap EXCEPT ![call[t].ptr] = "none"]
    /\ Set(t, [call[t] EXCEPT !.pc = "clear"])
    /\ UNCHANGED <<phase, state_lock, slotVars, statsVars, info, late>>

free_record(t) ==
    /\ call[t].pc = "clear"
    /\ cur_type' = "none"
    /\ cur_ptr' = NULL
    /\ stats_free_count' = stats_free_count + 1
    /\ state_lock' = FREE
    /\ Set(t, Idle)
    /\ UNCHANGED <<phase, cur_requested_size, cur_actual_size, stats_alloc_ok,
                   stats_alloc_fail, heap, info, late>>

do_free(t) == free_lock(t) \/ free_call(t) \/ free_record(t)

-----------------------------------------------------------------------------
(* the sysfs files; exit runs for a while before it removes them           *)

FilesExist == phase \in {"live", "freeing", "freed"}

(* bound on the allocations that are under way or done                     *)
MayAllocate ==
    stats_alloc_ok + stats_alloc_fail
        + Cardinality({u \in Users : call[u].type # "none"}) < MaxAllocs

allocate_store(u) ==
    /\ FilesExist
    /\ call[u].pc = "idle"
    /\ MayAllocate
    /\ \E type \in Allocators, size \in Sizes :
          Set(u, [pc |-> "allocate", type |-> type, size |-> size,
                  ptr |-> NULL])
    /\ UNCHANGED <<phase, state_lock, slotVars, statsVars, heap, info, late>>

free_store(u) ==
    /\ FilesExist
    /\ call[u].pc = "idle"
    /\ Set(u, [Idle EXCEPT !.pc = "free"])
    /\ UNCHANGED <<phase, state_lock, slotVars, statsVars, heap, info, late>>

info_show(u) ==
    /\ FilesExist
    /\ call[u].pc = "idle"
    /\ lockable
    /\ info' = [type |-> cur_type, requested |-> cur_requested_size,
                actual |-> cur_actual_size]
    /\ UNCHANGED <<phase, state_lock, slotVars, statsVars, heap, call, late>>

-----------------------------------------------------------------------------
(* a failed step of init undoes those before it: nothing has changed       *)
kernel_memory_init ==
    /\ phase = "unloaded"
    /\ phase' = "live"
    /\ cur_type' = "none"
    /\ cur_ptr' = NULL
    /\ cur_requested_size' = 0
    /\ cur_actual_size' = 0
    /\ stats_alloc_ok' = 0
    /\ stats_alloc_fail' = 0
    /\ stats_free_count' = 0
    /\ heap' = [a \in Addresses |-> "none"]
    /\ info' = Blank
    /\ late' = FALSE
    /\ UNCHANGED <<state_lock, call>>

(* mutant: an allocation that is left is not freed                         *)
exit_forgets == FALSE

exit_must_free == cur_type # "none"

(* without state_lock                                                      *)
exit_looks ==
    /\ phase = "live"
    /\ phase' = "freeing"
    /\ IF exit_must_free
       THEN Set(MODULE_TASK, [Idle EXCEPT !.pc = "free"])
       ELSE UNCHANGED call
    /\ UNCHANGED <<state_lock, slotVars, statsVars, heap, info, late>>

(* do_free() returns; sysfs_remove_group() lets nobody in, then waits      *)
exit_removes ==
    /\ \/ call[MODULE_TASK].pc = "idle" /\ phase = "freeing" /\ phase' = "freed"
       \/ phase = "freed" /\ phase' = "draining"
       \/ /\ phase = "draining" /\ phase' = "unloaded"
          /\ \A u \in Users : call[u].pc = "idle"
    /\ UNCHANGED <<state_lock, slotVars, statsVars, heap, call, info, late>>

kernel_memory_exit == exit_looks \/ exit_removes

-----------------------------------------------------------------------------
Next ==
    \/ \E u \in Users :
          \/ allocate_store(u) \/ do_allocate(u)
          \/ free_store(u)
          \/ info_show(u)
    \/ \E t \in Tasks : do_free(t)
    \/ kernel_memory_init
    \/ kernel_memory_exit

Spec == Init /\ [][Next]_vars

-----------------------------------------------------------------------------
(* Whoever finds state_lock free finds the slot and the heap in agreement: *)
(* the slot names the only allocation there is and the allocator that will *)
(* free it, an empty slot means that nothing is allocated, and the         *)
(* statistics tell which.                                                  *)
SlotOwnsHeap ==
    state_lock = FREE =>
        /\ Allocated = {cur_ptr} \ {NULL}
        /\ cur_type = (IF cur_ptr = NULL THEN "none" ELSE heap[cur_ptr])
        /\ stats_alloc_ok = stats_free_count + Cardinality(Allocated)

(* "info" never mixes two allocations: what it shows of one has the size   *)
(* that its allocator would give it.                                       *)
InfoOfOneAllocation ==
    /\ info.type # "none" => info.actual >= info.requested
    /\ info.type = "cache" => info.requested = CACHE_OBJ_SIZE
    /\ info.type = "kmalloc" => info.requested <= KMALLOC_MAX_SIZE

(* rmmod frees what is left in the slot, also when somebody else is about  *)
(* to free it (readme.md:140, "kernel_memory_exit() notices and frees it   *)
(* for you"); all that it can leave behind is what a store has put into    *)
(* the slot after exit looked at cur_type.                                 *)
NothingLeaked == phase = "unloaded" /\ ~late => Allocated = {}
=============================================================================
