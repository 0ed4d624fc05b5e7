-------------------------- MODULE LockLabs_proofs --------------------------
(***************************************************************************)
(* Proofs about labs 13 and 16, for every number of processes, addresses   *)
(* and sizes.                                                              *)
(***************************************************************************)
EXTENDS MCLockLabs, FiniteSetTheorems, TLAPS

(* Lab 13 *)

CallState ==
    [pc : {"idle", "allocate", "call", "record", "free", "release", "clear"},
     type : Memory!Types, size : Nat, ptr : Addresses \cup {NULL}]

MemoryTypes ==
    /\ memory_phase \in {"unloaded", "live", "freeing", "freed", "draining"}
    /\ cur_type \in Memory!Types
    /\ cur_ptr \in Addresses \cup {NULL}
    /\ cur_requested_size \in Nat /\ cur_actual_size \in Nat
    /\ stats_alloc_ok \in Nat /\ stats_free_count \in Nat
    /\ heap \in [Addresses -> Memory!Types]
    /\ call \in [Memory!Tasks -> CallState]
    /\ late \in BOOLEAN

InSection(t) == call[t].pc \in {"call", "record", "release", "clear"}

(* state_lock is held by the one task that is in a section.                *)
LockOwned ==
    /\ state_lock \in Memory!Tasks \cup {FREE}
    /\ \A t \in Memory!Tasks : InSection(t) <=> state_lock = t

(* Nothing is allocated but p, by the given allocator; if p is NULL,       *)
(* nothing.                                                                *)
OnlyAllocated(p, type) ==
    \A a \in Addresses : heap[a] = IF a = p THEN type ELSE "none"

(* How slot and heap differ at each place in the sections.                 *)
HeapOK(t) ==
    /\ call[t].pc = "call" => cur_ptr = NULL /\ OnlyAllocated(NULL, "none")
    /\ call[t].pc = "record" =>
          /\ cur_ptr = NULL
          /\ call[t].ptr # NULL
          /\ OnlyAllocated(call[t].ptr, call[t].type)
    /\ call[t].pc = "release" =>
          /\ cur_ptr # NULL
          /\ call[t].ptr = cur_ptr
          /\ OnlyAllocated(cur_ptr, cur_type)
    /\ call[t].pc = "clear" => cur_ptr # NULL /\ OnlyAllocated(NULL, "none")

SlotInv ==
    /\ cur_type = "none" <=> cur_ptr = NULL
    /\ stats_alloc_ok = stats_free_count + (IF cur_ptr = NULL THEN 0 ELSE 1)
    /\ state_lock = FREE => OnlyAllocated(cur_ptr, cur_type)
    /\ \A t \in Memory!Tasks : HeapOK(t)

(* What a store knows of the size it is allocating.                        *)
CallOK(t) ==
    /\ call[t].pc \in {"allocate", "call", "record"} =>
          call[t].type \in Memory!Allocators
    /\ call[t].pc \in {"call", "record"} /\ call[t].type = "cache" =>
          call[t].size = CACHE_OBJ_SIZE
    /\ call[t].pc = "record" /\ call[t].type = "kmalloc" =>
          call[t].size <= KMALLOC_MAX_SIZE

CallsOK == \A t \in Memory!Tasks : CallOK(t)

(* The sizes in the slot are those of one allocation.                      *)
SizesOK ==
    /\ cur_type # "none" => cur_actual_size >= cur_requested_size
    /\ cur_type = "cache" => cur_requested_size = CACHE_OBJ_SIZE
    /\ cur_type = "kmalloc" => cur_requested_size <= KMALLOC_MAX_SIZE

(* While exit frees, either it is still at it or the slot is empty, unless *)
(* a store has filled it since.                                            *)
MemoryLife ==
    /\ memory_phase = "unloaded" => \A u \in Users : call[u].pc = "idle"
    /\ memory_phase # "freeing" => call[MODULE_TASK].pc = "idle"
    /\ call[MODULE_TASK].pc \in {"idle", "free", "release", "clear"}
    /\ ~late /\ memory_phase \in {"freed", "draining", "unloaded"} =>
          cur_ptr = NULL
    /\ ~late /\ memory_phase = "freeing" =>
          cur_ptr = NULL \/ call[MODULE_TASK].pc # "idle"

MemoryInv ==
    /\ MemoryTypes
    /\ LockOwned
    /\ SlotInv
    /\ CallsOK
    /\ SizesOK
    /\ Memory!InfoOfOneAllocation
    /\ MemoryLife

(* Task t has the record new, and the others keep theirs.                  *)
Becomes(t, new) ==
    /\ call' \in [Memory!Tasks -> CallState]
    /\ call'[t] = new
    /\ \A v \in Memory!Tasks : v # t => call'[v] = call[v]

(* Set() with a record of the right type does that.                        *)
LEMMA SetBecomes ==
    ASSUME MemoryTypes, NEW t \in Memory!Tasks, NEW new \in CallState,
           Memory!Set(t, new)
    PROVE  Becomes(t, new)
  BY DEF MemoryTypes, Memory!Set, Becomes

(* The record of a process that is not in a store.                         *)
LEMMA IdleCall ==
    /\ Memory!Idle \in CallState
    /\ Memory!Idle.pc = "idle"
    /\ Memory!Idle.type = "none"
  BY DEF Memory!Idle, CallState, Memory!Types

(* The processes that can be in do_free().                                 *)
LEMMA TasksOf ==
    /\ MODULE_TASK \in Memory!Tasks
    /\ \A u \in Users : u \in Memory!Tasks /\ u # MODULE_TASK
    /\ \A t \in Memory!Tasks : t \in Users \/ t = MODULE_TASK
    /\ FREE \notin Memory!Tasks
  BY LockLabsAssumption DEF Memory!Tasks

(* While a task is in its section, or enters it, the others stay outside.  *)
LEMMA OthersOutside ==
    ASSUME MemoryInv, NEW t \in Memory!Tasks, NEW new, Becomes(t, new),
           InSection(t) \/ state_lock = FREE
    PROVE  \A v \in Memory!Tasks :
              v # t => ~InSection(v)' /\ HeapOK(v)' /\ CallOK(v)'
  <1> SUFFICES ASSUME NEW v \in Memory!Tasks, v # t
               PROVE  ~InSection(v)' /\ HeapOK(v)' /\ CallOK(v)'
    OBVIOUS
  <1>1. call'[v] = call[v]
    BY DEF Becomes
  <1>2. ~InSection(v)
    BY TasksOf DEF MemoryInv, LockOwned
  <1>3. ~InSection(v)'
    BY <1>1, <1>2 DEF InSection
  <1>4. HeapOK(v)'
    BY <1>3 DEF InSection, HeapOK
  <1>5. CallOK(v)'
    BY <1>1 DEF MemoryInv, CallsOK, CallOK
  <1> QED BY <1>3, <1>4, <1>5

(* A step of a task that stays outside the sections and changes nothing    *)
(* but its own place.                                                      *)
LEMMA OutsideKeeps ==
    ASSUME MemoryInv, NEW t \in Memory!Tasks, NEW new, Becomes(t, new),
           ~InSection(t), ~InSection(t)', CallOK(t)',
           UNCHANGED <<memory_phase, state_lock, cur_type, cur_ptr,
                       cur_requested_size, cur_actual_size, stats_alloc_ok,
                       stats_free_count, heap, info, late>>,
           t = MODULE_TASK => new.pc = "idle" /\ cur_ptr = NULL,
           t # MODULE_TASK => memory_phase # "unloaded" \/ new.pc = "idle"
    PROVE  MemoryInv'
  <1>1. MemoryTypes'
    BY DEF MemoryInv, MemoryTypes, Becomes
  <1>2. LockOwned'
    BY DEF MemoryInv, LockOwned, InSection, Becomes
  <1>3. ASSUME NEW v \in Memory!Tasks PROVE HeapOK(v)' /\ CallOK(v)'
    <2>1. CASE v = t
      BY <2>1 DEF HeapOK, InSection
    <2>2. CASE v # t
      <3>1. call'[v] = call[v] /\ HeapOK(v) /\ CallOK(v)
        BY <1>3, <2>2 DEF Becomes, MemoryInv, SlotInv, CallsOK
      <3> QED BY <3>1 DEF HeapOK, CallOK, OnlyAllocated
    <2> QED BY <2>1, <2>2
  <1>4. SlotInv' /\ CallsOK'
    BY <1>3 DEF MemoryInv, SlotInv, CallsOK, OnlyAllocated
  <1>5. SizesOK' /\ Memory!InfoOfOneAllocation'
    BY DEF MemoryInv, SizesOK, Memory!InfoOfOneAllocation
  <1>6. MemoryLife'
    BY TasksOf DEF MemoryInv, MemoryLife, Becomes
  <1> QED BY <1>1, <1>2, <1>4, <1>5, <1>6 DEF MemoryInv

(* allocate_store() and free_store() begin.                                *)
LEMMA StoresKeep ==
    ASSUME MemoryInv, NEW u \in Users,
           Memory!allocate_store(u) \/ Memory!free_store(u)
    PROVE  MemoryInv'
  <1>1. /\ u \in Memory!Tasks /\ u # MODULE_TASK /\ MemoryTypes
        /\ ~InSection(u) /\ memory_phase # "unloaded"
    BY TasksOf DEF MemoryInv, InSection, Memory!allocate_store,
                   Memory!free_store, Memory!FilesExist
  <1>2. UNCHANGED <<memory_phase, state_lock, cur_type, cur_ptr,
                    cur_requested_size, cur_actual_size, stats_alloc_ok,
                    stats_free_count, heap, info, late>>
    BY DEF Memory!allocate_store, Memory!free_store, Memory!slotVars,
           Memory!statsVars
  <1>3. CASE Memory!allocate_store(u)
    <2>1. PICK type \in Memory!Allocators, size \in Sizes :
             Memory!Set(u, [pc |-> "allocate", type |-> type, size |-> size,
                            ptr |-> NULL])
      BY <1>3 DEF Memory!allocate_store
    <2>2. PICK new : new = [pc |-> "allocate", type |-> type, size |-> size,
                            ptr |-> NULL]
      OBVIOUS
    <2>3. /\ new \in CallState
          /\ new.pc = "allocate" /\ new.type \in Memory!Allocators
      BY <2>2, LockLabsAssumption DEF CallState, Memory!Types
    <2>4. Becomes(u, new)
      BY <1>1, <2>1, <2>2, <2>3, SetBecomes
    <2>5. CallOK(u)' /\ ~InSection(u)'
      BY <2>3, <2>4 DEF Becomes, CallOK, InSection
    <2> QED BY <1>1, <1>2, <2>4, <2>5, OutsideKeeps
  <1>4. CASE Memory!free_store(u)
    <2>1. PICK new : new = [Memory!Idle EXCEPT !.pc = "free"]
      OBVIOUS
    <2>2. new \in CallState /\ new.pc = "free"
      BY <2>1, IdleCall DEF CallState
    <2>3. Becomes(u, new)
      BY <1>1, <1>4, <2>1, <2>2, SetBecomes DEF Memory!free_store
    <2>4. CallOK(u)' /\ ~InSection(u)'
      BY <2>2, <2>3 DEF Becomes, CallOK, InSection
    <2> QED BY <1>1, <1>2, <2>3, <2>4, OutsideKeeps
  <1> QED BY <1>3, <1>4

(* do_allocate() takes state_lock, unless the slot is full.                *)
LEMMA AllocLockKeeps ==
    ASSUME MemoryInv, NEW u \in Users, Memory!alloc_lock(u)
    PROVE  MemoryInv'
  <1>1. /\ u \in Memory!Tasks /\ u # MODULE_TASK /\ MemoryTypes
        /\ call[u].pc = "allocate" /\ ~InSection(u)
        /\ state_lock = FREE
    BY TasksOf DEF MemoryInv, InSection, Memory!alloc_lock, Memory!lockable
  <1>2. UNCHANGED <<memory_phase, cur_type, cur_ptr, cur_requested_size,
                    cur_actual_size, stats_alloc_ok, stats_free_count, heap,
                    info, late>>
    BY DEF Memory!alloc_lock, Memory!slotVars, Memory!statsVars
  <1>3. CASE cur_type # "none"
    <2>1. Memory!Set(u, Memory!Idle) /\ UNCHANGED state_lock
      BY <1>3 DEF Memory!alloc_lock
    <2>2. Becomes(u, Memory!Idle)
      BY <1>1, <2>1, IdleCall, SetBecomes
    <2>3. CallOK(u)' /\ ~InSection(u)'
      BY <2>2, IdleCall DEF Becomes, CallOK, InSection
    <2> QED BY <1>1, <1>2, <2>1, <2>2, <2>3, IdleCall, OutsideKeeps
  <1>4. CASE cur_type = "none"
    <2>1. /\ state_lock' = u
          /\ Memory!Set(u, [call[u] EXCEPT !.pc = "call",
                    !.size = Memory!size_allocated(call[u].type, @)])
      BY <1>4 DEF Memory!alloc_lock
    <2>2. PICK me : me = call[u]
      OBVIOUS
    <2>3. PICK n : n = Memory!size_allocated(me.type, me.size)
      OBVIOUS
    <2>4. /\ me \in CallState /\ me.type \in Memory!Allocators
          /\ n \in Nat
          /\ me.type = "cache" => n = CACHE_OBJ_SIZE
      <3>1. me \in CallState /\ me.type \in Memory!Allocators
        BY <1>1, <2>2 DEF MemoryTypes, MemoryInv, CallsOK, CallOK
      <3> QED BY <2>3, <3>1, LockLabsAssumption
             DEF Memory!size_allocated, CallState
    <2>5. PICK new : new = [me EXCEPT !.pc = "call", !.size = n]
      OBVIOUS
    <2>6. /\ new \in CallState
          /\ new.pc = "call" /\ new.type = me.type /\ new.size = n
      BY <2>4, <2>5 DEF CallState
    <2>7. Memory!Set(u, new)
      BY <2>1, <2>2, <2>3, <2>5
    <2>8. Becomes(u, new)
      BY <1>1, <2>6, <2>7, SetBecomes
    <2>9. cur_ptr = NULL /\ OnlyAllocated(NULL, "none")
      BY <1>1, <1>4, LockLabsAssumption
         DEF MemoryInv, SlotInv, OnlyAllocated
    <2>10. /\ HeapOK(u)'
           /\ CallOK(u)'
           /\ InSection(u)'
      BY <1>2, <2>4, <2>6, <2>8, <2>9
         DEF Becomes, HeapOK, CallOK, InSection, OnlyAllocated
    <2>11. \A v \in Memory!Tasks :
              v # u => ~InSection(v)' /\ HeapOK(v)' /\ CallOK(v)'
      BY <1>1, <2>8, OthersOutside
    <2>12. MemoryTypes'
      BY <1>1, <1>2, <2>8 DEF MemoryTypes, Becomes
    <2>13. LockOwned' /\ CallsOK'
      BY <1>1, <2>1, <2>10, <2>11 DEF LockOwned, CallsOK
    <2>14. SlotInv'
      BY <1>1, <1>2, <2>1, <2>10, <2>11, TasksOf DEF MemoryInv, SlotInv
    <2>15. SizesOK' /\ Memory!InfoOfOneAllocation'
      BY <1>2 DEF MemoryInv, SizesOK, Memory!InfoOfOneAllocation
    <2>16. MemoryLife'
      BY <1>1, <1>2, <2>8, <2>9, TasksOf DEF MemoryInv, MemoryLife, Becomes
    <2> QED BY <2>12, <2>13, <2>14, <2>15, <2>16 DEF MemoryInv
  <1> QED BY <1>3, <1>4

(* A step of a task that enters a section, is in it or leaves it: only     *)
(* what the step says of the task itself is left to show.                  *)
LEMMA SectionStep ==
    ASSUME MemoryInv, NEW t \in Memory!Tasks, NEW new, Becomes(t, new),
           InSection(t) \/ state_lock = FREE,
           state_lock' = (IF InSection(t)' THEN t ELSE FREE),
           HeapOK(t)', CallOK(t)'
    PROVE  /\ LockOwned' /\ CallsOK'
           /\ \A v \in Memory!Tasks : HeapOK(v)'
  <1>1. \A v \in Memory!Tasks :
           v # t => ~InSection(v)' /\ HeapOK(v)' /\ CallOK(v)'
    BY OthersOutside
  <1>2. t # FREE
    BY TasksOf
  <1>3. LockOwned'
    BY <1>1, <1>2, TasksOf DEF LockOwned
  <1> QED BY <1>1, <1>3 DEF CallsOK

(* kmalloc(), vmalloc() or kmem_cache_alloc().                             *)
LEMMA AllocCallKeeps ==
    ASSUME MemoryInv, NEW u \in Users, Memory!alloc_call(u)
    PROVE  MemoryInv'
  <1>1. /\ u \in Memory!Tasks /\ u # MODULE_TASK /\ MemoryTypes
        /\ call[u].pc = "call" /\ InSection(u) /\ state_lock = u
        /\ state_lock # FREE
    BY TasksOf DEF MemoryInv, InSection, Memory!alloc_call, LockOwned
  <1>2. UNCHANGED <<memory_phase, cur_type, cur_ptr, cur_requested_size,
                    cur_actual_size, stats_alloc_ok, stats_free_count,
                    info, late>>
    BY DEF Memory!alloc_call, Memory!slotVars
  <1>3. cur_ptr = NULL /\ cur_type = "none" /\ OnlyAllocated(NULL, "none")
    BY <1>1 DEF MemoryInv, SlotInv, HeapOK
  <1>4. SizesOK' /\ Memory!InfoOfOneAllocation'
    BY <1>2 DEF MemoryInv, SizesOK, Memory!InfoOfOneAllocation
  <1>5. PICK me : me = call[u]
    OBVIOUS
  <1>6. /\ me \in CallState /\ me.type \in Memory!Allocators
        /\ me.type = "cache" => me.size = CACHE_OBJ_SIZE
    BY <1>1, <1>5 DEF MemoryTypes, MemoryInv, CallsOK, CallOK
  <1>7. CASE \E a \in Addresses \ Memory!Allocated :
                /\ Memory!can_allocate(call[u].type, call[u].size)
                /\ heap' = [heap EXCEPT ![a] = call[u].type]
                /\ Memory!Set(u, [call[u] EXCEPT !.pc = "record", !.ptr = a])
                /\ UNCHANGED <<state_lock, stats_alloc_fail>>
    <2>1. PICK a \in Addresses \ Memory!Allocated :
                /\ Memory!can_allocate(me.type, me.size)
                /\ heap' = [heap EXCEPT ![a] = me.type]
                /\ Memory!Set(u, [me EXCEPT !.pc = "record", !.ptr = a])
                /\ UNCHANGED <<state_lock, stats_alloc_fail>>
      BY <1>5, <1>7
    <2>2. PICK new : new = [me EXCEPT !.pc = "record", !.ptr = a]
      OBVIOUS
    <2>3. /\ new \in CallState
          /\ new.pc = "record" /\ new.ptr = a
          /\ new.type = me.type /\ new.size = me.size
      BY <1>6, <2>2 DEF CallState
    <2>4. Becomes(u, new)
      BY <1>1, <2>1, <2>2, <2>3, SetBecomes
    <2>5. OnlyAllocated(a, me.type)'
      BY <1>1, <1>3, <2>1, LockLabsAssumption DEF OnlyAllocated, MemoryTypes
    <2>6. a # NULL
      BY LockLabsAssumption
    <2>7. HeapOK(u)'
      BY <1>2, <1>3, <2>3, <2>4, <2>5, <2>6 DEF HeapOK, Becomes, OnlyAllocated
    <2>8. me.type = "kmalloc" => me.size <= KMALLOC_MAX_SIZE
      BY <2>1 DEF Memory!can_allocate
    <2>9. CallOK(u)' /\ InSection(u)'
      BY <1>6, <2>3, <2>4, <2>8 DEF Becomes, CallOK, InSection
    <2>10. /\ LockOwned' /\ CallsOK'
           /\ \A v \in Memory!Tasks : HeapOK(v)'
      BY <1>1, <2>1, <2>4, <2>7, <2>9, SectionStep
    <2>11. heap' \in [Addresses -> Memory!Types]
      BY <1>1, <1>6, <2>1 DEF MemoryTypes, Memory!Types
    <2>12. MemoryTypes'
      BY <1>1, <1>2, <2>4, <2>11 DEF MemoryTypes, Becomes
    <2>13. SlotInv'
      BY <1>1, <1>2, <2>1, <2>10 DEF MemoryInv, SlotInv
    <2>14. MemoryLife'
      BY <1>1, <1>2, <1>3, <2>4, TasksOf, Zenon
         DEF MemoryInv, MemoryLife, Becomes
    <2> QED BY <1>4, <2>10, <2>12, <2>13, <2>14 DEF MemoryInv
  <1>8. CASE /\ state_lock' = FREE
             /\ Memory!Set(u, Memory!Idle)
             /\ UNCHANGED heap
    <2>1. Becomes(u, Memory!Idle)
      BY <1>1, <1>8, IdleCall, SetBecomes
    <2>2. CallOK(u)' /\ ~InSection(u)' /\ HeapOK(u)'
      BY <2>1, IdleCall DEF Becomes, CallOK, InSection, HeapOK
    <2>3. /\ LockOwned' /\ CallsOK'
          /\ \A v \in Memory!Tasks : HeapOK(v)'
      BY <1>1, <1>8, <2>1, <2>2, SectionStep
    <2>4. MemoryTypes'
      BY <1>1, <1>2, <1>8, <2>1 DEF MemoryTypes, Becomes
    <2>5. SlotInv'
      BY <1>2, <1>3, <1>8, <2>3 DEF MemoryInv, SlotInv, OnlyAllocated
    <2>6. MemoryLife'
      BY <1>1, <1>2, <1>3, <2>1, IdleCall, TasksOf
         DEF MemoryInv, MemoryLife, Becomes
    <2> QED BY <1>4, <2>3, <2>4, <2>5, <2>6 DEF MemoryInv
  <1> QED BY <1>7, <1>8 DEF Memory!alloc_call

(* The slot and the statistics are filled in, and state_lock is dropped.   *)
LEMMA AllocRecordKeeps ==
    ASSUME MemoryInv, NEW u \in Users, Memory!alloc_record(u)
    PROVE  MemoryInv'
  <1>1. /\ u \in Memory!Tasks /\ u # MODULE_TASK /\ MemoryTypes
        /\ call[u].pc = "record" /\ InSection(u) /\ state_lock = u
    BY TasksOf DEF MemoryInv, InSection, Memory!alloc_record, LockOwned
  <1>2. PICK me : me = call[u]
    OBVIOUS
  <1>3. /\ me \in CallState /\ me.type \in Memory!Allocators
        /\ me.type = "cache" => me.size = CACHE_OBJ_SIZE
        /\ me.type = "kmalloc" => me.size <= KMALLOC_MAX_SIZE
        /\ cur_ptr = NULL /\ me.ptr # NULL /\ OnlyAllocated(me.ptr, me.type)
    BY <1>1, <1>2 DEF MemoryTypes, MemoryInv, CallsOK, CallOK, SlotInv, HeapOK
  <1>4. /\ cur_type' = me.type /\ cur_ptr' = me.ptr
        /\ cur_requested_size' = me.size
        /\ cur_actual_size' \in Memory!actual_sizes(me.type, me.size)
        /\ stats_alloc_ok' = stats_alloc_ok + 1
        /\ state_lock' = FREE
        /\ late' = (late \/ memory_phase # "live")
        /\ Memory!Set(u, Memory!Idle)
        /\ UNCHANGED <<memory_phase, stats_free_count, heap, info>>
    BY <1>2 DEF Memory!alloc_record
  <1>5. Becomes(u, Memory!Idle)
    BY <1>1, <1>4, IdleCall, SetBecomes
  <1>6. me.size \in Nat /\ me.type \in Memory!Types /\ me.ptr \in Addresses
    BY <1>3 DEF CallState
  <1>7. cur_actual_size' \in Nat /\ cur_actual_size' >= me.size
    BY <1>4, <1>6, LockLabsAssumption DEF Memory!actual_sizes
  <1>8. MemoryTypes'
    BY <1>1, <1>4, <1>5, <1>6, <1>7 DEF MemoryTypes, Becomes
  <1>9. CallOK(u)' /\ ~InSection(u)' /\ HeapOK(u)'
    BY <1>5, IdleCall DEF Becomes, CallOK, InSection, HeapOK
  <1>10. /\ LockOwned' /\ CallsOK'
         /\ \A v \in Memory!Tasks : HeapOK(v)'
    BY <1>1, <1>4, <1>5, <1>9, SectionStep
  <1>11. SlotInv'
    <2>1. (cur_type = "none" <=> cur_ptr = NULL)'
      BY <1>3, <1>4 DEF Memory!Allocators
    <2>2. (stats_alloc_ok =
             stats_free_count + (IF cur_ptr = NULL THEN 0 ELSE 1))'
      BY <1>1, <1>3, <1>4 DEF MemoryInv, SlotInv, MemoryTypes
    <2>3. OnlyAllocated(cur_ptr, cur_type)'
      BY <1>3, <1>4 DEF OnlyAllocated
    <2> QED BY <2>1, <2>2, <2>3, <1>10 DEF SlotInv
  <1>12. SizesOK' /\ Memory!InfoOfOneAllocation'
    BY <1>3, <1>4, <1>7 DEF MemoryInv, SizesOK, Memory!InfoOfOneAllocation
  <1>13. MemoryLife'
    BY <1>1, <1>4, <1>5, IdleCall, TasksOf DEF MemoryInv, MemoryLife, Becomes
  <1> QED BY <1>8, <1>10, <1>11, <1>12, <1>13 DEF MemoryInv

(* do_free() takes state_lock, unless the slot is empty.                   *)
LEMMA FreeLockKeeps ==
    ASSUME MemoryInv, NEW t \in Memory!Tasks, Memory!free_lock(t)
    PROVE  MemoryInv'
  <1>1. /\ MemoryTypes
        /\ call[t].pc = "free" /\ ~InSection(t)
        /\ state_lock = FREE
    BY DEF MemoryInv, InSection, Memory!free_lock, Memory!lockable
  <1>2. UNCHANGED <<memory_phase, cur_type, cur_ptr, cur_requested_size,
                    cur_actual_size, stats_alloc_ok, stats_free_count, heap,
                    info, late>>
    BY DEF Memory!free_lock, Memory!slotVars, Memory!statsVars
  <1>3. CASE cur_type = "none"
    <2>1. Memory!Set(t, Memory!Idle) /\ UNCHANGED state_lock
      BY <1>3 DEF Memory!free_lock
    <2>2. Becomes(t, Memory!Idle)
      BY <1>1, <2>1, IdleCall, SetBecomes
    <2>3. CallOK(t)' /\ ~InSection(t)'
      BY <2>2, IdleCall DEF Becomes, CallOK, InSection
    <2>4. cur_ptr = NULL
      BY <1>3 DEF MemoryInv, SlotInv
    <2> QED BY <1>1, <1>2, <2>1, <2>2, <2>3, <2>4, IdleCall, OutsideKeeps
  <1>4. CASE cur_type # "none"
    <2>1. /\ state_lock' = t
          /\ Memory!Set(t, [Memory!Idle EXCEPT !.pc = "release",
                               !.type = cur_type, !.ptr = cur_ptr])
      BY <1>4 DEF Memory!free_lock
    <2>2. PICK new : new = [Memory!Idle EXCEPT !.pc = "release",
                               !.type = cur_type, !.ptr = cur_ptr]
      OBVIOUS
    <2>3. /\ new \in CallState
          /\ new.pc = "release" /\ new.ptr = cur_ptr
      BY <1>1, <2>2, IdleCall DEF CallState, MemoryTypes
    <2>4. Becomes(t, new)
      BY <1>1, <2>1, <2>2, <2>3, SetBecomes
    <2>5. cur_ptr # NULL /\ OnlyAllocated(cur_ptr, cur_type)
      BY <1>1, <1>4 DEF MemoryInv, SlotInv
    <2>6. CallOK(t)' /\ InSection(t)' /\ HeapOK(t)'
      BY <1>2, <2>3, <2>4, <2>5
         DEF Becomes, CallOK, InSection, HeapOK, OnlyAllocated
    <2>7. /\ LockOwned' /\ CallsOK'
          /\ \A v \in Memory!Tasks : HeapOK(v)'
      BY <1>1, <2>1, <2>4, <2>6, SectionStep
    <2>8. MemoryTypes'
      BY <1>1, <1>2, <2>4 DEF MemoryTypes, Becomes
    <2>9. SlotInv'
      BY <1>2, <2>1, <2>7, TasksOf DEF MemoryInv, SlotInv
    <2>10. SizesOK' /\ Memory!InfoOfOneAllocation'
      BY <1>2 DEF MemoryInv, SizesOK, Memory!InfoOfOneAllocation
    <2>11. MemoryLife'
      BY <1>1, <1>2, <2>3, <2>4, TasksOf DEF MemoryInv, MemoryLife, Becomes
    <2> QED BY <2>7, <2>8, <2>9, <2>10, <2>11 DEF MemoryInv
  <1> QED BY <1>3, <1>4

(* kfree(), vfree() or kmem_cache_free().                                  *)
LEMMA FreeCallKeeps ==
    ASSUME MemoryInv, NEW t \in Memory!Tasks, Memory!free_call(t)
    PROVE  MemoryInv'
  <1>1. /\ MemoryTypes
        /\ call[t].pc = "release" /\ InSection(t) /\ state_lock = t
        /\ state_lock # FREE
    BY TasksOf DEF MemoryInv, InSection, Memory!free_call, LockOwned
  <1>2. UNCHANGED <<memory_phase, state_lock, cur_type, cur_ptr,
                    cur_requested_size, cur_actual_size, stats_alloc_ok,
                    stats_free_count, info, late>>
    BY DEF Memory!free_call, Memory!slotVars, Memory!statsVars
  <1>3. PICK me : me = call[t]
    OBVIOUS
  <1>4. /\ me \in CallState
        /\ cur_ptr # NULL /\ me.ptr = cur_ptr
        /\ OnlyAllocated(cur_ptr, cur_type)
    BY <1>1, <1>3 DEF MemoryTypes, MemoryInv, SlotInv, HeapOK
  <1>5. PICK new : new = [me EXCEPT !.pc = "clear"]
    OBVIOUS
  <1>6. new \in CallState /\ new.pc = "clear"
    BY <1>4, <1>5 DEF CallState
  <1>7. Memory!Set(t, new) /\ heap' = [heap EXCEPT ![me.ptr] = "none"]
    BY <1>3, <1>5 DEF Memory!free_call
  <1>8. Becomes(t, new)
    BY <1>1, <1>6, <1>7, SetBecomes
  <1>9. /\ OnlyAllocated(NULL, "none")'
        /\ heap' \in [Addresses -> Memory!Types]
    BY <1>1, <1>4, <1>7, LockLabsAssumption
       DEF OnlyAllocated, MemoryTypes, Memory!Types
  <1>10. CallOK(t)' /\ InSection(t)' /\ HeapOK(t)'
    BY <1>2, <1>4, <1>6, <1>8, <1>9
       DEF Becomes, CallOK, InSection, HeapOK, OnlyAllocated
  <1>11. /\ LockOwned' /\ CallsOK'
         /\ \A v \in Memory!Tasks : HeapOK(v)'
    BY <1>1, <1>2, <1>8, <1>10, SectionStep
  <1>12. MemoryTypes'
    BY <1>1, <1>2, <1>8, <1>9 DEF MemoryTypes, Becomes
  <1>13. SlotInv'
    BY <1>1, <1>2, <1>11 DEF MemoryInv, SlotInv
  <1>14. SizesOK' /\ Memory!InfoOfOneAllocation'
    BY <1>2 DEF MemoryInv, SizesOK, Memory!InfoOfOneAllocation
  <1>15. MemoryLife'
    BY <1>1, <1>2, <1>6, <1>8, TasksOf DEF MemoryInv, MemoryLife, Becomes
  <1> QED BY <1>11, <1>12, <1>13, <1>14, <1>15 DEF MemoryInv

(* The slot is emptied, and state_lock is dropped.                         *)
LEMMA FreeRecordKeeps ==
    ASSUME MemoryInv, NEW t \in Memory!Tasks, Memory!free_record(t)
    PROVE  MemoryInv'
  <1>1. /\ MemoryTypes
        /\ call[t].pc = "clear" /\ InSection(t)
        /\ cur_ptr # NULL /\ OnlyAllocated(NULL, "none")
    BY DEF MemoryInv, InSection, Memory!free_record, SlotInv, HeapOK
  <1>2. /\ cur_type' = "none" /\ cur_ptr' = NULL
        /\ stats_free_count' = stats_free_count + 1
        /\ state_lock' = FREE
        /\ Memory!Set(t, Memory!Idle)
        /\ UNCHANGED <<memory_phase, cur_requested_size, cur_actual_size,
                       stats_alloc_ok, heap, info, late>>
    BY DEF Memory!free_record
  <1>3. Becomes(t, Memory!Idle)
    BY <1>1, <1>2, IdleCall, SetBecomes
  <1>4. CallOK(t)' /\ ~InSection(t)' /\ HeapOK(t)'
    BY <1>3, IdleCall DEF Becomes, CallOK, InSection, HeapOK
  <1>5. /\ LockOwned' /\ CallsOK'
        /\ \A v \in Memory!Tasks : HeapOK(v)'
    BY <1>1, <1>2, <1>3, <1>4, SectionStep
  <1>6. MemoryTypes'
    BY <1>1, <1>2, <1>3 DEF MemoryTypes, Becomes, Memory!Types
  <1>7. SlotInv'
    <2>1. (stats_alloc_ok =
             stats_free_count + (IF cur_ptr = NULL THEN 0 ELSE 1))'
      BY <1>1, <1>2 DEF MemoryInv, SlotInv, MemoryTypes
    <2>2. OnlyAllocated(cur_ptr, cur_type)'
      BY <1>1, <1>2 DEF OnlyAllocated
    <2> QED BY <1>2, <1>5, <2>1, <2>2 DEF SlotInv
  <1>8. SizesOK' /\ Memory!InfoOfOneAllocation'
    BY <1>2 DEF MemoryInv, SizesOK, Memory!InfoOfOneAllocation
  <1>9. MemoryLife'
    BY <1>2, <1>3, IdleCall, TasksOf DEF MemoryInv, MemoryLife, Becomes
  <1> QED BY <1>5, <1>6, <1>7, <1>8, <1>9 DEF MemoryInv

(* info_show() reads the sizes under state_lock.                           *)
LEMMA InfoShowKeeps ==
    ASSUME MemoryInv, NEW u \in Users, Memory!info_show(u)
    PROVE  MemoryInv'
  <1>1. UNCHANGED <<memory_phase, state_lock, cur_type, cur_ptr,
                    cur_requested_size, cur_actual_size, stats_alloc_ok,
                    stats_free_count, heap, call, late>>
    BY DEF Memory!info_show, Memory!slotVars, Memory!statsVars
  <1>2. /\ info'.type = cur_type /\ info'.requested = cur_requested_size
        /\ info'.actual = cur_actual_size
    BY DEF Memory!info_show
  <1>3. Memory!InfoOfOneAllocation'
    BY <1>2 DEF MemoryInv, SizesOK, Memory!InfoOfOneAllocation
  <1>4. MemoryTypes' /\ SizesOK' /\ MemoryLife'
    BY <1>1 DEF MemoryInv, MemoryTypes, SizesOK, MemoryLife
  <1>5. LockOwned' /\ SlotInv' /\ CallsOK'
    BY <1>1 DEF MemoryInv, LockOwned, InSection, SlotInv, HeapOK, CallsOK,
                CallOK, OnlyAllocated
  <1> QED BY <1>3, <1>4, <1>5 DEF MemoryInv

(* insmod: the variables of the module are new.                            *)
LEMMA InitKeeps ==
    ASSUME MemoryInv, Memory!kernel_memory_init
    PROVE  MemoryInv'
  <1>1. /\ memory_phase = "unloaded" /\ memory_phase' = "live"
        /\ cur_type' = "none" /\ cur_ptr' = NULL
        /\ cur_requested_size' = 0 /\ cur_actual_size' = 0
        /\ stats_alloc_ok' = 0 /\ stats_free_count' = 0
        /\ heap' = [a \in Addresses |-> "none"]
        /\ info' = Memory!Blank
        /\ late' = FALSE
        /\ UNCHANGED <<state_lock, call>>
    BY DEF Memory!kernel_memory_init
  <1>2. \A t \in Memory!Tasks : call[t].pc = "idle"
    BY <1>1, TasksOf DEF MemoryInv, MemoryLife
  <1>3. MemoryTypes'
    BY <1>1 DEF MemoryInv, MemoryTypes, Memory!Types
  <1>4. LockOwned' /\ CallsOK'
    BY <1>1 DEF MemoryInv, LockOwned, InSection, CallsOK, CallOK
  <1>5. SlotInv'
    BY <1>1, <1>2 DEF SlotInv, HeapOK, OnlyAllocated
  <1>6. SizesOK' /\ Memory!InfoOfOneAllocation'
    BY <1>1 DEF SizesOK, Memory!InfoOfOneAllocation, Memory!Blank
  <1>7. MemoryLife'
    BY <1>1, <1>2, TasksOf DEF MemoryLife
  <1> QED BY <1>3, <1>4, <1>5, <1>6, <1>7 DEF MemoryInv

(* rmmod looks at the slot, frees what is in it and removes the files.     *)
LEMMA ExitKeeps ==
    ASSUME MemoryInv, Memory!kernel_memory_exit
    PROVE  MemoryInv'
  <1>1. UNCHANGED <<state_lock, cur_type, cur_ptr, cur_requested_size,
                    cur_actual_size, stats_alloc_ok, stats_free_count, heap,
                    info, late>>
    BY DEF Memory!kernel_memory_exit, Memory!exit_looks, Memory!exit_removes,
           Memory!slotVars, Memory!statsVars
  <1>2. SizesOK' /\ Memory!InfoOfOneAllocation'
    BY <1>1 DEF MemoryInv, SizesOK, Memory!InfoOfOneAllocation
  <1>3. CASE UNCHANGED call
    <2>1. memory_phase' \in {"freeing", "freed", "draining", "unloaded"}
      BY DEF Memory!kernel_memory_exit, Memory!exit_looks, Memory!exit_removes
    <2>2. MemoryTypes'
      BY <1>1, <1>3, <2>1 DEF MemoryInv, MemoryTypes
    <2>3. LockOwned' /\ SlotInv' /\ CallsOK'
      BY <1>1, <1>3 DEF MemoryInv, LockOwned, InSection, SlotInv, HeapOK,
                        CallsOK, CallOK, OnlyAllocated
    <2>4. CASE Memory!exit_removes
      <3>1. MemoryLife'
        BY <1>1, <1>3, <2>4 DEF MemoryInv, MemoryLife, Memory!exit_removes
      <3> QED BY <1>2, <2>2, <2>3, <3>1 DEF MemoryInv
    <2>5. CASE Memory!exit_looks
      <3>1. memory_phase = "live" /\ memory_phase' = "freeing"
        BY <2>5 DEF Memory!exit_looks
      <3>2. call[MODULE_TASK].pc = "idle"
        BY <3>1 DEF MemoryInv, MemoryLife
      <3>3. cur_ptr = NULL
        <4>1. CASE cur_type = "none"
          BY <4>1 DEF MemoryInv, SlotInv
        <4>2. CASE cur_type # "none"
          <5>1. call'[MODULE_TASK] = [Memory!Idle EXCEPT !.pc = "free"]
            BY <2>5, <4>2, TasksOf DEF Memory!exit_looks, Memory!Set,
               Memory!exit_must_free, MemoryInv, MemoryTypes
          <5> QED BY <1>3, <3>2, <5>1, IdleCall DEF CallState
        <4> QED BY <4>1, <4>2
      <3> QED BY <1>1, <1>2, <1>3, <2>2, <2>3, <3>1, <3>2, <3>3
             DEF MemoryInv, MemoryLife
    <2> QED BY <1>2, <2>2, <2>3, <2>4, <2>5
           DEF MemoryInv, Memory!kernel_memory_exit
  <1>4. CASE /\ Memory!exit_looks
             /\ Memory!Set(MODULE_TASK, [Memory!Idle EXCEPT !.pc = "free"])
    <2>1. memory_phase = "live" /\ memory_phase' = "freeing"
      BY <1>4 DEF Memory!exit_looks
    <2>2. PICK new : new = [Memory!Idle EXCEPT !.pc = "free"]
      OBVIOUS
    <2>3. new \in CallState /\ new.pc = "free"
      BY <2>2, IdleCall DEF CallState
    <2>4. Becomes(MODULE_TASK, new)
      BY <1>4, <2>2, <2>3, TasksOf, SetBecomes DEF MemoryInv
    <2>5. call[MODULE_TASK].pc = "idle"
      BY <2>1 DEF MemoryInv, MemoryLife
    <2>6. MemoryTypes'
      BY <1>1, <2>1, <2>4 DEF MemoryInv, MemoryTypes, Becomes
    <2>7. LockOwned'
      BY <1>1, <2>3, <2>4, <2>5, TasksOf
         DEF MemoryInv, LockOwned, InSection, Becomes
    <2>8. ASSUME NEW v \in Memory!Tasks PROVE HeapOK(v)' /\ CallOK(v)'
      <3>1. CASE v = MODULE_TASK
        BY <2>3, <2>4, <3>1 DEF HeapOK, CallOK, Becomes
      <3>2. CASE v # MODULE_TASK
        <4>1. call'[v] = call[v] /\ HeapOK(v) /\ CallOK(v)
          BY <2>4, <2>8, <3>2 DEF Becomes, MemoryInv, SlotInv, CallsOK
        <4> QED BY <1>1, <4>1 DEF HeapOK, CallOK, OnlyAllocated
      <3> QED BY <3>1, <3>2
    <2>9. SlotInv' /\ CallsOK'
      BY <1>1, <2>8 DEF MemoryInv, SlotInv, CallsOK, OnlyAllocated
    <2>10. MemoryLife'
      BY <1>1, <2>1, <2>3, <2>4, TasksOf DEF MemoryInv, MemoryLife, Becomes
    <2> QED BY <1>2, <2>6, <2>7, <2>9, <2>10 DEF MemoryInv
  <1> QED BY <1>3, <1>4 DEF Memory!kernel_memory_exit, Memory!exit_looks,
             Memory!exit_removes

(* The inductive invariant of lab 13 in every behaviour of the three labs. *)
LEMMA MemoryInductive == Spec => []MemoryInv
  <1>1. ASSUME Init PROVE MemoryInv
    <2>1. Memory!Init
      BY <1>1 DEF Init
    <2>2. \A t \in Memory!Tasks : call[t].pc = "idle" /\ call[t].type = "none"
      BY <2>1, IdleCall DEF Memory!Init
    <2>3. MemoryTypes
      BY <2>1, IdleCall DEF Memory!Init, MemoryTypes, Memory!Types
    <2>4. LockOwned /\ CallsOK
      BY <2>1, <2>2, TasksOf DEF Memory!Init, LockOwned, InSection, CallsOK,
                                 CallOK
    <2>5. SlotInv
      BY <2>1, <2>2 DEF Memory!Init, SlotInv, HeapOK, OnlyAllocated
    <2>6. SizesOK /\ Memory!InfoOfOneAllocation
      BY <2>1 DEF Memory!Init, SizesOK, Memory!InfoOfOneAllocation,
                  Memory!Blank
    <2>7. MemoryLife
      BY <2>1, <2>2, TasksOf DEF Memory!Init, MemoryLife
    <2> QED BY <2>3, <2>4, <2>5, <2>6, <2>7 DEF MemoryInv
  <1>2. ASSUME MemoryInv, [Next]_vars PROVE MemoryInv'
    <2>1. CASE Memory!Next
      <3>1. ASSUME NEW u \in Users,
                   Memory!allocate_store(u) \/ Memory!do_allocate(u)
                      \/ Memory!free_store(u) \/ Memory!info_show(u)
            PROVE  MemoryInv'
        BY <1>2, <3>1, StoresKeep, AllocLockKeeps, AllocCallKeeps,
           AllocRecordKeeps, InfoShowKeeps DEF Memory!do_allocate
      <3>2. ASSUME NEW t \in Memory!Tasks, Memory!do_free(t)
            PROVE  MemoryInv'
        BY <1>2, <3>2, FreeLockKeeps, FreeCallKeeps, FreeRecordKeeps
           DEF Memory!do_free
      <3>3. CASE Memory!kernel_memory_init
        BY <1>2, <3>3, InitKeeps
      <3>4. CASE Memory!kernel_memory_exit
        BY <1>2, <3>4, ExitKeeps
      <3> QED BY <2>1, <3>1, <3>2, <3>3, <3>4 DEF Memory!Next
    <2>2. CASE UNCHANGED memoryVars
      <3>1. UNCHANGED <<memory_phase, state_lock, cur_type, cur_ptr,
                        cur_requested_size, cur_actual_size, stats_alloc_ok,
                        stats_free_count, heap, call, info, late>>
        BY <2>2 DEF memoryVars
      <3>2. MemoryTypes' /\ SizesOK' /\ MemoryLife'
              /\ Memory!InfoOfOneAllocation'
        BY <1>2, <3>1 DEF MemoryInv, MemoryTypes, SizesOK, MemoryLife,
                          Memory!InfoOfOneAllocation
      <3>3. LockOwned' /\ SlotInv' /\ CallsOK'
        BY <1>2, <3>1 DEF MemoryInv, LockOwned, InSection, SlotInv, HeapOK,
                          CallsOK, CallOK, OnlyAllocated
      <3> QED BY <3>2, <3>3 DEF MemoryInv
    <2> QED BY <1>2, <2>1, <2>2 DEF Next, vars
  <1> QED BY <1>1, <1>2, PTL DEF Spec

(* The cardinality that lab 13 uses is that of the theorems on sets.       *)
LEMMA MemoryCardinality == \A S : Memory!Cardinality(S) = Cardinality(S)
  BY DEF Memory!Cardinality, Cardinality, Memory!IsFiniteSet, IsFiniteSet

(* Lab 13: whoever finds state_lock free finds the slot, the heap and the  *)
(* statistics in agreement, for any number of processes in allocate_store, *)
(* free_store and rmmod: do_allocate() and do_free() leak nothing, free    *)
(* nothing twice and free with the allocator that allocated.               *)
THEOREM SlotAndHeapAgree == Spec => []SlotOwnsHeap
  <1>1. ASSUME MemoryInv PROVE SlotOwnsHeap
    <2> SUFFICES ASSUME state_lock = FREE
                 PROVE  /\ Memory!Allocated = {cur_ptr} \ {NULL}
                        /\ cur_type = (IF cur_ptr = NULL THEN "none"
                                       ELSE heap[cur_ptr])
                        /\ stats_alloc_ok = stats_free_count
                              + Cardinality(Memory!Allocated)
      BY MemoryCardinality DEF SlotOwnsHeap, Memory!SlotOwnsHeap
    <2>1. /\ MemoryTypes /\ OnlyAllocated(cur_ptr, cur_type)
          /\ cur_type = "none" <=> cur_ptr = NULL
          /\ stats_alloc_ok =
                stats_free_count + (IF cur_ptr = NULL THEN 0 ELSE 1)
      BY <1>1 DEF MemoryInv, SlotInv
    <2>2. CASE cur_ptr = NULL
      <3>1. Memory!Allocated = {}
        BY <2>1, <2>2 DEF OnlyAllocated, Memory!Allocated
      <3>2. Cardinality(Memory!Allocated) = 0
        BY <3>1, FS_EmptySet
      <3> QED BY <2>1, <2>2, <3>1, <3>2 DEF MemoryTypes
    <2>3. CASE cur_ptr # NULL
      <3>1. cur_ptr \in Addresses
        BY <2>1, <2>3 DEF MemoryTypes
      <3>2. Memory!Allocated = {cur_ptr}
        BY <2>1, <2>3, <3>1 DEF OnlyAllocated, Memory!Allocated
      <3>3. Cardinality(Memory!Allocated) = 1
        BY <3>2, FS_Singleton
      <3> QED BY <2>1, <2>3, <3>1, <3>2, <3>3 DEF OnlyAllocated
    <2> QED BY <2>2, <2>3
  <1> QED BY <1>1, MemoryInductive, PTL

(* Lab 13: rmmod leaves no allocation behind but what a store put into the *)
(* slot after exit had looked.                                             *)
LEMMA UnloadFrees ==
    ASSUME MemoryInv
    PROVE  Memory!NothingLeaked
  <1> SUFFICES ASSUME memory_phase = "unloaded", ~late
               PROVE  Memory!Allocated = {}
    BY DEF Memory!NothingLeaked
  <1>1. \A t \in Memory!Tasks : ~InSection(t)
    BY TasksOf DEF MemoryInv, MemoryLife, InSection
  <1>2. state_lock = FREE
    BY <1>1 DEF MemoryInv, LockOwned
  <1>3. cur_ptr = NULL /\ OnlyAllocated(cur_ptr, cur_type)
    BY <1>2 DEF MemoryInv, MemoryLife, SlotInv
  <1>4. cur_type = "none"
    BY <1>3 DEF MemoryInv, SlotInv
  <1> QED BY <1>3, <1>4 DEF OnlyAllocated, Memory!Allocated

(* Lab 16 *)

(* Division with remainder, for a modulus that is not known.               *)
LEMMA Division ==
    ASSUME NEW n \in Nat \ {0}, NEW a \in Nat
    PROVE  \E q \in Int, r \in 0..(n - 1) : r = a % n /\ a = n * q + r
  <1>1. a % n \in 0..(n - 1) /\ a \div n \in Int
    OBVIOUS
  <1>2. a % n = a - n * (a \div n)
    OBVIOUS
  <1>3. PICK q \in Int : q = a \div n
    BY <1>1
  <1>4. PICK r \in 0..(n - 1) : r = a % n
    BY <1>1
  <1>5. a = n * q + r
    BY <1>2, <1>3, <1>4
  <1> QED BY <1>4, <1>5, Zenon

(* The remainder is the only one there is.                                 *)
LEMMA Remainder ==
    ASSUME NEW n \in Nat \ {0}, NEW a \in Nat, NEW q \in Int,
           NEW r \in 0..(n - 1), a = n * q + r
    PROVE  a % n = r
  OBVIOUS

(* The wrap of the u32 does not disturb the count: it is exact modulo U32. *)
LEMMA WrapCounts ==
    ASSUME NEW a \in Nat
    PROVE  Debugfs!u32_increment(a % U32) = (a + 1) % U32
  <1>1. U32 \in Nat \ {0}
    BY LockLabsAssumption
  <1>2. PICK q \in Int, r \in 0..(U32 - 1) : r = a % U32 /\ a = U32 * q + r
    BY <1>1, Division, Zenon
  <1>3. CASE r + 1 < U32
    <2>1. (r + 1) % U32 = r + 1
      BY <1>1, <1>3
    <2>2. a + 1 = U32 * q + (r + 1)
      BY <1>1, <1>2
    <2>3. r + 1 \in 0..(U32 - 1) /\ a + 1 \in Nat
      BY <1>1, <1>3
    <2>4. (a + 1) % U32 = r + 1
      BY <1>1, <2>2, <2>3, Remainder
    <2> QED BY <1>2, <2>1, <2>4 DEF Debugfs!u32_increment
  <1>4. CASE r + 1 = U32
    <2>1. (r + 1) % U32 = 0
      <3>1. r + 1 = U32 * 1 + 0
        BY <1>1, <1>4
      <3>2. 0 \in 0..(U32 - 1) /\ r + 1 \in Nat
        BY <1>1
      <3> QED BY <1>1, <3>1, <3>2, Remainder
    <2>2. a + 1 = U32 * (q + 1) + 0
      <3>1. U32 * (q + 1) = U32 * q + U32
        BY <1>1
      <3> QED BY <1>1, <1>2, <1>4, <3>1
    <2>3. (a + 1) % U32 = 0
      <3>1. 0 \in 0..(U32 - 1) /\ a + 1 \in Nat /\ q + 1 \in Int
        BY <1>1
      <3> QED BY <1>1, <2>2, <3>1, Remainder
    <2> QED BY <1>2, <2>1, <2>3 DEF Debugfs!u32_increment
  <1> QED BY <1>1, <1>3, <1>4

WriterState == [pc : {"idle", "lock", "store"}, tmp : Debugfs!Values]

ReaderState ==
    [pc : {"idle", "enabled", "unlock", "copy"}, c : Debugfs!Values,
     e : BOOLEAN]

DebugfsTypes ==
    /\ debugfs_phase \in {"unloaded", "live", "nodebugfs"}
    /\ debugfs \in BOOLEAN
    /\ counter \in Debugfs!Values
    /\ enabled \in BOOLEAN
    /\ debugfs_writer \in [Writers -> WriterState]
    /\ reader \in [Readers -> ReaderState]
    /\ ledger \in [base : Debugfs!Values, begun : Nat, done : Nat,
                   clear : BOOLEAN]

Reading(r) == reader[r].pc \in {"enabled", "unlock"}

(* data_lock is held by the one process that is in a section.              *)
DataLockOwned ==
    /\ data_lock \in Writers \cup Readers \cup {FREE}
    /\ \A w \in Writers : debugfs_writer[w].pc = "store" <=> data_lock = w
    /\ \A r \in Readers : Reading(r) <=> data_lock = r

(* As long as no raw write has met one half way, what a process has loaded *)
(* under data_lock is still so.                                            *)
LoadsCurrent ==
    ledger.clear =>
        /\ counter = (ledger.base + ledger.done) % U32
        /\ \A w \in Writers :
              debugfs_writer[w].pc = "store" => debugfs_writer[w].tmp = counter
        /\ \A r \in Readers :
              /\ Reading(r) => reader[r].c = counter
              /\ reader[r].pc = "unlock" => reader[r].e = enabled

DebugfsLife ==
    /\ debugfs_phase # "live" =>
          ~debugfs /\ \A r \in Readers : reader[r].pc = "idle"
    /\ debugfs_phase = "unloaded" =>
          \A w \in Writers : debugfs_writer[w].pc = "idle"

DebugfsInv ==
    /\ DebugfsTypes
    /\ DataLockOwned
    /\ LoadsCurrent
    /\ DebugfsLife

(* Writer w, or reader r, has the record new; the others keep theirs.      *)
WriterBecomes(w, new) ==
    /\ debugfs_writer' \in [Writers -> WriterState]
    /\ debugfs_writer'[w] = new
    /\ \A v \in Writers : v # w => debugfs_writer'[v] = debugfs_writer[v]

ReaderBecomes(r, new) ==
    /\ reader' \in [Readers -> ReaderState]
    /\ reader'[r] = new
    /\ \A v \in Readers : v # r => reader'[v] = reader[v]

(* WriterSet() and ReaderSet() with a record of the right type do that.    *)
LEMMA RecordsBecome ==
    ASSUME DebugfsTypes
    PROVE  /\ \A w \in Writers, new \in WriterState :
                 Debugfs!WriterSet(w, new) => WriterBecomes(w, new)
           /\ \A r \in Readers, new \in ReaderState :
                 Debugfs!ReaderSet(r, new) => ReaderBecomes(r, new)
  BY DEF DebugfsTypes, Debugfs!WriterSet, Debugfs!ReaderSet, WriterBecomes,
         ReaderBecomes

(* The records of processes that do nothing.                               *)
LEMMA IdleRecords ==
    /\ Debugfs!IdleWriter \in WriterState /\ Debugfs!IdleWriter.pc = "idle"
    /\ Debugfs!IdleReader \in ReaderState /\ Debugfs!IdleReader.pc = "idle"
  BY LockLabsAssumption DEF Debugfs!IdleWriter, Debugfs!IdleReader,
     WriterState, ReaderState, Debugfs!Values

(* A step of writer w.                                                     *)
LEMMA IncrementKeeps ==
    ASSUME DebugfsInv, NEW w \in Writers, Debugfs!increment_store(w)
    PROVE  DebugfsInv'
  <1>1. /\ DebugfsTypes
        /\ w \notin Readers /\ w # FREE
        /\ UNCHANGED <<debugfs_phase, debugfs, enabled, reader>>
    BY LockLabsAssumption DEF DebugfsInv, Debugfs!increment_store,
       Debugfs!increment_begin, Debugfs!increment_load,
       Debugfs!increment_done, Debugfs!dataVars
  <1>2. PICK me : me = debugfs_writer[w]
    OBVIOUS
  <1>3. me \in WriterState
    BY <1>1, <1>2 DEF DebugfsTypes
  <1>4. CASE Debugfs!increment_begin(w)
    <2>1. PICK new : new = [Debugfs!IdleWriter EXCEPT !.pc = "lock"]
      OBVIOUS
    <2>2. new \in WriterState /\ new.pc = "lock"
      BY <2>1, IdleRecords DEF WriterState
    <2>3. WriterBecomes(w, new)
      BY <1>1, <1>4, <2>1, <2>2, RecordsBecome DEF Debugfs!increment_begin
    <2>4. PICK book : book = [ledger EXCEPT !.begun = @ + 1]
      OBVIOUS
    <2>5. /\ book \in [base : Debugfs!Values, begun : Nat, done : Nat,
                       clear : BOOLEAN]
          /\ book.base = ledger.base /\ book.done = ledger.done
          /\ book.clear = ledger.clear
      BY <1>1, <2>4 DEF DebugfsTypes
    <2>6. /\ me.pc = "idle" /\ debugfs_phase # "unloaded"
          /\ UNCHANGED <<counter, data_lock>> /\ ledger' = book
      BY <1>2, <1>4, <2>4 DEF Debugfs!increment_begin, Debugfs!dataVars,
         Debugfs!SysfsUsable
    <2>7. DebugfsTypes'
      BY <1>1, <2>3, <2>5, <2>6 DEF DebugfsTypes, WriterBecomes
    <2>8. DataLockOwned'
      BY <1>1, <1>2, <2>2, <2>3, <2>6
         DEF DebugfsInv, DataLockOwned, Reading, WriterBecomes
    <2>9. LoadsCurrent'
      BY <1>1, <2>2, <2>3, <2>5, <2>6
         DEF DebugfsInv, LoadsCurrent, Reading, WriterBecomes
    <2>10. DebugfsLife'
      BY <1>1, <2>6 DEF DebugfsInv, DebugfsLife
    <2> QED BY <2>7, <2>8, <2>9, <2>10 DEF DebugfsInv
  <1>5. CASE Debugfs!increment_load(w)
    <2>1. PICK new : new = [pc |-> "store", tmp |-> counter]
      OBVIOUS
    <2>2. new \in WriterState /\ new.pc = "store" /\ new.tmp = counter
      BY <1>1, <2>1 DEF WriterState, DebugfsTypes
    <2>3. WriterBecomes(w, new)
      BY <1>1, <1>5, <2>1, <2>2, RecordsBecome DEF Debugfs!increment_load
    <2>4. /\ me.pc = "lock" /\ data_lock = FREE /\ data_lock' = w
          /\ UNCHANGED <<counter, ledger>>
      BY <1>2, <1>5 DEF Debugfs!increment_load, Debugfs!dataVars,
         Debugfs!lock_free
    <2>5. DebugfsTypes'
      BY <1>1, <2>3, <2>4 DEF DebugfsTypes, WriterBecomes
    <2>6. DataLockOwned'
      BY <1>1, <2>2, <2>3, <2>4, LockLabsAssumption
         DEF DebugfsInv, DataLockOwned, Reading, WriterBecomes
    <2>7. LoadsCurrent'
      BY <1>1, <2>2, <2>3, <2>4
         DEF DebugfsInv, LoadsCurrent, Reading, WriterBecomes
    <2>8. DebugfsLife'
      BY <1>1, <1>2, <2>4 DEF DebugfsInv, DebugfsLife
    <2> QED BY <2>5, <2>6, <2>7, <2>8 DEF DebugfsInv
  <1>6. CASE Debugfs!increment_done(w)
    <2>1. PICK book : book = [ledger EXCEPT !.done = @ + 1]
      OBVIOUS
    <2>2. /\ book \in [base : Debugfs!Values, begun : Nat, done : Nat,
                       clear : BOOLEAN]
          /\ book.base = ledger.base /\ book.done = ledger.done + 1
          /\ book.clear = ledger.clear
      BY <1>1, <2>1 DEF DebugfsTypes
    <2>3. /\ me.pc = "store" /\ data_lock' = FREE /\ ledger' = book
          /\ counter' = Debugfs!u32_increment(me.tmp)
      BY <1>2, <1>6, <2>1 DEF Debugfs!increment_done
    <2>4. WriterBecomes(w, Debugfs!IdleWriter)
      BY <1>1, <1>6, IdleRecords, RecordsBecome DEF Debugfs!increment_done
    <2>5. data_lock = w
      BY <1>2, <2>3 DEF DebugfsInv, DataLockOwned
    <2>6. \A v \in Writers : debugfs_writer'[v].pc # "store"
      BY <2>4, <2>5, IdleRecords DEF DebugfsInv, DataLockOwned, WriterBecomes
    <2>7. \A r \in Readers : ~Reading(r)'
      BY <1>1, <2>5 DEF DebugfsInv, DataLockOwned, Reading
    <2>8. counter' \in Debugfs!Values
      BY <1>3, <2>3, LockLabsAssumption
         DEF Debugfs!u32_increment, Debugfs!Values, WriterState
    <2>9. DebugfsTypes'
      BY <1>1, <2>2, <2>3, <2>4, <2>8 DEF DebugfsTypes, WriterBecomes
    <2>10. DataLockOwned'
      BY <2>3, <2>6, <2>7, LockLabsAssumption DEF DataLockOwned
    <2>11. ledger.clear => counter' = (ledger.base + ledger.done + 1) % U32
      <3>1. ledger.base + ledger.done \in Nat
        BY <1>1, LockLabsAssumption DEF DebugfsTypes, Debugfs!Values
      <3>2. ledger.clear =>
               me.tmp = (ledger.base + ledger.done) % U32
        BY <1>2, <2>3 DEF DebugfsInv, LoadsCurrent
      <3> QED BY <2>3, <3>1, <3>2, WrapCounts
    <2>12. ledger.base + ledger.done + 1 = ledger'.base + ledger'.done
      BY <1>1, <2>2, <2>3 DEF DebugfsTypes, Debugfs!Values
    <2>13. LoadsCurrent'
      BY <2>2, <2>3, <2>6, <2>7, <2>11, <2>12 DEF LoadsCurrent, Reading
    <2>14. DebugfsLife'
      BY <1>1, <1>2, <2>3 DEF DebugfsInv, DebugfsLife
    <2> QED BY <2>9, <2>10, <2>13, <2>14 DEF DebugfsInv
  <1> QED BY <1>4, <1>5, <1>6 DEF Debugfs!increment_store

(* A write through a raw file: it takes no lock, so the loads it meets are *)
(* no longer current and the ledger is no longer clear.                    *)
LEMMA RawWriteKeeps ==
    ASSUME DebugfsInv, Debugfs!raw_write
    PROVE  DebugfsInv'
  <1>1. /\ DebugfsTypes
        /\ debugfs
        /\ UNCHANGED <<debugfs_phase, debugfs, data_lock, debugfs_writer,
                       reader>>
    BY DEF DebugfsInv, Debugfs!raw_write
  <1>2. DataLockOwned' /\ DebugfsLife'
    BY <1>1 DEF DebugfsInv, DataLockOwned, DebugfsLife, Reading
  <1>3. ~Debugfs!HalfWay =>
           /\ \A w \in Writers : debugfs_writer[w].pc # "store"
           /\ \A r \in Readers : ~Reading(r)
    BY DEF Debugfs!HalfWay, Reading
  <1>4. Debugfs!HalfWay \in BOOLEAN
    BY DEF Debugfs!HalfWay
  <1>5. CASE /\ counter' \in Debugfs!Values
             /\ ledger' = [ledger EXCEPT !.base = counter', !.done = 0,
                                   !.clear = @ /\ ~Debugfs!HalfWay]
             /\ UNCHANGED enabled
    <2>1. PICK new \in BOOLEAN : new = (ledger.clear /\ ~Debugfs!HalfWay)
      BY <1>1, <1>4 DEF DebugfsTypes
    <2>2. /\ counter' \in Debugfs!Values
          /\ ledger' = [ledger EXCEPT !.base = counter', !.done = 0,
                                      !.clear = new]
      BY <1>5, <2>1
    <2>3. /\ ledger' \in [base : Debugfs!Values, begun : Nat, done : Nat,
                          clear : BOOLEAN]
          /\ ledger'.base = counter' /\ ledger'.done = 0 /\ ledger'.clear = new
      BY <1>1, <2>2 DEF DebugfsTypes
    <2>4. DebugfsTypes'
      BY <1>1, <1>5, <2>3 DEF DebugfsTypes
    <2>5. counter' = (ledger'.base + ledger'.done) % U32
      BY <1>5, <2>3, LockLabsAssumption DEF Debugfs!Values
    <2>6. LoadsCurrent'
      BY <1>1, <1>3, <2>1, <2>3, <2>5 DEF LoadsCurrent, Reading
    <2> QED BY <1>2, <2>4, <2>6 DEF DebugfsInv
  <1>6. CASE /\ enabled' \in BOOLEAN
             /\ ledger' = [ledger EXCEPT !.clear = @ /\ ~Debugfs!HalfWay]
             /\ UNCHANGED counter
    <2>1. PICK new \in BOOLEAN : new = (ledger.clear /\ ~Debugfs!HalfWay)
      BY <1>1, <1>4 DEF DebugfsTypes
    <2>2. ledger' = [ledger EXCEPT !.clear = new]
      BY <1>6, <2>1
    <2>3. /\ ledger' \in [base : Debugfs!Values, begun : Nat, done : Nat,
                          clear : BOOLEAN]
          /\ ledger'.base = ledger.base /\ ledger'.done = ledger.done
          /\ ledger'.clear = new
      BY <1>1, <2>2 DEF DebugfsTypes
    <2>4. DebugfsTypes'
      BY <1>1, <1>6, <2>3 DEF DebugfsTypes
    <2>5. LoadsCurrent'
      BY <1>1, <1>3, <1>6, <2>1, <2>3 DEF DebugfsInv, LoadsCurrent, Reading
    <2> QED BY <1>2, <2>4, <2>5 DEF DebugfsInv
  <1> QED BY <1>5, <1>6 DEF Debugfs!raw_write

(* enabled_store() changes the flag under data_lock.                       *)
LEMMA EnabledStoreKeeps ==
    ASSUME DebugfsInv, Debugfs!enabled_store
    PROVE  DebugfsInv'
  <1>1. /\ data_lock = FREE /\ enabled' \in BOOLEAN
        /\ UNCHANGED <<debugfs_phase, debugfs, counter, data_lock,
                       debugfs_writer, reader, ledger>>
    BY DEF Debugfs!enabled_store, Debugfs!lock_free
  <1>2. \A r \in Readers : ~Reading(r)
    BY <1>1, LockLabsAssumption DEF DebugfsInv, DataLockOwned
  <1>3. DebugfsTypes' /\ DebugfsLife'
    BY <1>1 DEF DebugfsInv, DebugfsTypes, DebugfsLife
  <1>4. DataLockOwned' /\ LoadsCurrent'
    BY <1>1, <1>2 DEF DebugfsInv, DataLockOwned, LoadsCurrent, Reading
  <1> QED BY <1>3, <1>4 DEF DebugfsInv

(* A step of reader r of debugfs "info".                                   *)
LEMMA InfoReadKeeps ==
    ASSUME DebugfsInv, NEW r \in Readers, Debugfs!info_read(r)
    PROVE  DebugfsInv'
  <1>1. /\ DebugfsTypes
        /\ r \notin Writers /\ r # FREE
        /\ UNCHANGED <<debugfs_phase, debugfs, counter, enabled,
                       debugfs_writer, ledger>>
    BY LockLabsAssumption DEF DebugfsInv, Debugfs!info_read,
       Debugfs!info_lock, Debugfs!info_enabled, Debugfs!info_unlock,
       Debugfs!info_return, Debugfs!dataVars
  <1>2. PICK me : me = reader[r]
    OBVIOUS
  <1>3. me \in ReaderState
    BY <1>1, <1>2 DEF DebugfsTypes
  <1>4. ASSUME NEW new \in ReaderState, ReaderBecomes(r, new),
               data_lock' = (IF new.pc \in {"enabled", "unlock"} THEN r
                             ELSE FREE),
               data_lock = FREE \/ data_lock = r,
               debugfs_phase = "live",
               new.pc \in {"enabled", "unlock"} /\ ledger.clear =>
                  new.c = counter,
               new.pc = "unlock" /\ ledger.clear => new.e = enabled
        PROVE  DebugfsInv'
    <2>1. DebugfsTypes'
      BY <1>1, <1>4 DEF DebugfsTypes, ReaderBecomes
    <2>2. \A v \in Readers : v # r => ~Reading(v)'
      BY <1>4, LockLabsAssumption
         DEF DebugfsInv, DataLockOwned, Reading, ReaderBecomes
    <2>3. Reading(r)' <=> new.pc \in {"enabled", "unlock"}
      BY <1>4 DEF Reading, ReaderBecomes
    <2>4. \A w \in Writers : debugfs_writer[w].pc # "store"
      BY <1>1, <1>4, LockLabsAssumption DEF DebugfsInv, DataLockOwned
    <2>5. DataLockOwned'
      BY <1>1, <1>4, <2>2, <2>3, <2>4, LockLabsAssumption DEF DataLockOwned
    <2>6. \A v \in Readers : ledger.clear =>
             /\ Reading(v)' => reader'[v].c = counter
             /\ reader'[v].pc = "unlock" => reader'[v].e = enabled
      BY <1>4, <2>2, <2>3 DEF Reading, ReaderBecomes
    <2>7. LoadsCurrent'
      BY <1>1, <2>4, <2>6 DEF DebugfsInv, LoadsCurrent, Reading
    <2>8. DebugfsLife'
      BY <1>1, <1>4 DEF DebugfsInv, DebugfsLife
    <2> QED BY <2>1, <2>5, <2>7, <2>8 DEF DebugfsInv
  <1>5. me.pc # "idle" \/ debugfs => debugfs_phase = "live"
    BY <1>2 DEF DebugfsInv, DebugfsLife
  <1>6. /\ me.pc \in {"enabled", "unlock"} <=> data_lock = r
        /\ me.pc \in {"enabled", "unlock"} /\ ledger.clear => me.c = counter
        /\ me.pc = "unlock" /\ ledger.clear => me.e = enabled
    BY <1>2 DEF DebugfsInv, DataLockOwned, LoadsCurrent, Reading
  <1>7. CASE Debugfs!info_lock(r)
    <2>1. PICK new : new = [Debugfs!IdleReader EXCEPT !.pc = "enabled",
                                                      !.c = counter]
      OBVIOUS
    <2>2. new \in ReaderState /\ new.pc = "enabled" /\ new.c = counter
      BY <1>1, <2>1, IdleRecords DEF ReaderState, DebugfsTypes
    <2>3. ReaderBecomes(r, new)
      BY <1>1, <1>7, <2>1, <2>2, RecordsBecome DEF Debugfs!info_lock
    <2>4. debugfs /\ data_lock = FREE /\ data_lock' = r
      BY <1>7 DEF Debugfs!info_lock, Debugfs!lock_free
    <2> QED BY <1>4, <1>5, <2>2, <2>3, <2>4
  <1>8. CASE Debugfs!info_enabled(r)
    <2>1. PICK new : new = [me EXCEPT !.pc = "unlock", !.e = enabled]
      OBVIOUS
    <2>2. /\ new \in ReaderState
          /\ new.pc = "unlock" /\ new.c = me.c /\ new.e = enabled
      BY <1>1, <1>3, <2>1 DEF ReaderState, DebugfsTypes
    <2>3. ReaderBecomes(r, new)
      BY <1>1, <1>2, <1>8, <2>1, <2>2, RecordsBecome DEF Debugfs!info_enabled
    <2>4. me.pc = "enabled" /\ data_lock' = data_lock
      BY <1>2, <1>8 DEF Debugfs!info_enabled
    <2> QED BY <1>4, <1>5, <1>6, <2>2, <2>3, <2>4
  <1>9. CASE Debugfs!info_unlock(r)
    <2>1. PICK new : new = [me EXCEPT !.pc = "copy"]
      OBVIOUS
    <2>2. new \in ReaderState /\ new.pc = "copy"
      BY <1>3, <2>1 DEF ReaderState
    <2>3. ReaderBecomes(r, new)
      BY <1>1, <1>2, <1>9, <2>1, <2>2, RecordsBecome DEF Debugfs!info_unlock
    <2>4. me.pc = "unlock" /\ data_lock' = FREE
      BY <1>2, <1>9 DEF Debugfs!info_unlock
    <2> QED BY <1>4, <1>5, <1>6, <2>2, <2>3, <2>4
  <1>10. CASE Debugfs!info_return(r)
    <2>1. ReaderBecomes(r, Debugfs!IdleReader)
      BY <1>1, <1>10, IdleRecords, RecordsBecome DEF Debugfs!info_return
    <2>2. me.pc = "copy" /\ data_lock' = data_lock
      BY <1>2, <1>10 DEF Debugfs!info_return
    <2>3. DebugfsTypes'
      BY <1>1, <2>1 DEF DebugfsTypes, ReaderBecomes
    <2>4. ~Reading(r) /\ ~Reading(r)'
      BY <1>2, <2>1, <2>2, IdleRecords DEF Reading, ReaderBecomes
    <2>5. DataLockOwned' /\ LoadsCurrent'
      BY <1>1, <2>1, <2>2, <2>4, IdleRecords
         DEF DebugfsInv, DataLockOwned, LoadsCurrent, Reading, ReaderBecomes
    <2>6. DebugfsLife'
      BY <1>1, <1>5, <2>2 DEF DebugfsInv, DebugfsLife
    <2> QED BY <2>3, <2>5, <2>6 DEF DebugfsInv
  <1> QED BY <1>7, <1>8, <1>9, <1>10 DEF Debugfs!info_read

(* insmod and rmmod.                                                       *)
LEMMA LoadUnloadKeeps ==
    ASSUME DebugfsInv, Debugfs!debugfs_sysfs_init \/ Debugfs!debugfs_sysfs_exit
    PROVE  DebugfsInv'
  <1>1. DebugfsTypes /\ UNCHANGED <<data_lock, debugfs_writer, reader>>
    BY DEF DebugfsInv, Debugfs!debugfs_sysfs_init, Debugfs!debugfs_sysfs_exit
  <1>2. DataLockOwned'
    BY <1>1 DEF DebugfsInv, DataLockOwned, Reading
  <1>3. CASE Debugfs!debugfs_sysfs_init
    <2>1. /\ debugfs_phase = "unloaded" /\ debugfs_phase' = "live"
          /\ debugfs' \in BOOLEAN /\ counter' = 0 /\ enabled' = TRUE
          /\ ledger' = Debugfs!NewLedger
      BY <1>3 DEF Debugfs!debugfs_sysfs_init
    <2>2. 0 \in Debugfs!Values /\ (0 + 0) % U32 = 0
      BY LockLabsAssumption DEF Debugfs!Values
    <2>3. /\ ledger' \in [base : Debugfs!Values, begun : Nat, done : Nat,
                          clear : BOOLEAN]
          /\ ledger'.base = 0 /\ ledger'.done = 0
      BY <2>1, <2>2 DEF Debugfs!NewLedger
    <2>4. DebugfsTypes'
      BY <1>1, <2>1, <2>2, <2>3 DEF DebugfsTypes
    <2>5. LoadsCurrent'
      BY <1>1, <2>1, <2>2, <2>3
         DEF DebugfsInv, DebugfsLife, LoadsCurrent, Reading
    <2>6. DebugfsLife'
      BY <2>1 DEF DebugfsLife
    <2> QED BY <1>2, <2>4, <2>5, <2>6 DEF DebugfsInv
  <1>4. CASE Debugfs!debugfs_sysfs_exit
    <2>1. UNCHANGED <<counter, enabled, ledger>>
      BY <1>4 DEF Debugfs!debugfs_sysfs_exit, Debugfs!dataVars
    <2>2. DebugfsTypes'
      BY <1>1, <1>4, <2>1
         DEF DebugfsTypes, Debugfs!debugfs_sysfs_exit, Debugfs!debugfs_removed
    <2>3. LoadsCurrent'
      BY <1>1, <2>1 DEF DebugfsInv, LoadsCurrent, Reading
    <2>4. DebugfsLife'
      BY <1>1, <1>4 DEF DebugfsInv, DebugfsLife, Debugfs!debugfs_sysfs_exit,
                        Debugfs!debugfs_removed
    <2> QED BY <1>2, <2>2, <2>3, <2>4 DEF DebugfsInv
  <1> QED BY <1>3, <1>4

(* The inductive invariant of lab 16 in every behaviour of the three labs. *)
LEMMA DebugfsInductive == Spec => []DebugfsInv
  <1>1. ASSUME Init PROVE DebugfsInv
    <2>1. Debugfs!Init
      BY <1>1 DEF Init
    <2>2. /\ \A w \in Writers : debugfs_writer[w].pc = "idle"
          /\ \A r \in Readers : reader[r].pc = "idle"
          /\ ledger.base = 0 /\ ledger.done = 0
      BY <2>1, IdleRecords DEF Debugfs!Init, Debugfs!NewLedger
    <2>3. 0 \in Debugfs!Values /\ (0 + 0) % U32 = 0
      BY LockLabsAssumption DEF Debugfs!Values
    <2>4. DebugfsTypes
      BY <2>1, <2>3, IdleRecords
         DEF Debugfs!Init, DebugfsTypes, Debugfs!NewLedger
    <2>5. DataLockOwned
      BY <2>1, <2>2, LockLabsAssumption
         DEF Debugfs!Init, DataLockOwned, Reading
    <2>6. LoadsCurrent /\ DebugfsLife
      BY <2>1, <2>2, <2>3 DEF Debugfs!Init, LoadsCurrent, DebugfsLife, Reading
    <2> QED BY <2>4, <2>5, <2>6 DEF DebugfsInv
  <1>2. ASSUME DebugfsInv, [Next]_vars PROVE DebugfsInv'
    <2>1. CASE Debugfs!Next
      BY <1>2, <2>1, IncrementKeeps, EnabledStoreKeeps, RawWriteKeeps,
         InfoReadKeeps, LoadUnloadKeeps DEF Debugfs!Next
    <2>2. CASE UNCHANGED debugfsVars
      BY <1>2, <2>2 DEF debugfsVars, DebugfsInv, DebugfsTypes, DataLockOwned,
                        LoadsCurrent, DebugfsLife, Reading
    <2> QED BY <1>2, <2>1, <2>2 DEF Next, vars
  <1> QED BY <1>1, <1>2, PTL DEF Spec

(* Labs 13 and 16: "info" shows one moment, however many processes         *)
(* allocate, free and increment meanwhile: the sizes of one allocation,    *)
(* and a counter and a flag that were true together.                       *)
THEOREM InfoIsOfOneMoment == Spec => []InfoOfOneMoment
  <1>1. ASSUME MemoryInv, DebugfsInv PROVE InfoOfOneMoment
    <2>1. Debugfs!InfoOfOneMoment
      BY <1>1 DEF DebugfsInv, LoadsCurrent, Reading, Debugfs!InfoOfOneMoment
    <2> QED BY <1>1, <2>1 DEF MemoryInv, InfoOfOneMoment
  <1> QED BY <1>1, MemoryInductive, DebugfsInductive, PTL

(* Labs 13 and 16: rmmod leaves nothing behind, neither an allocation (but *)
(* one that a store made after exit had looked) nor a raw file, nor        *)
(* somebody who holds data_lock.                                           *)
THEOREM UnloadLeavesNothing == Spec => []NothingLeft
  <1>1. ASSUME MemoryInv, DebugfsInv PROVE NothingLeft
    <2>1. Memory!NothingLeaked
      BY <1>1, UnloadFrees
    <2>2. Debugfs!NoPokeAfterUnload
      BY <1>1 DEF DebugfsInv, DebugfsLife, DataLockOwned, Reading,
                  Debugfs!NoPokeAfterUnload
    <2> QED BY <2>1, <2>2 DEF NothingLeft
  <1> QED BY <1>1, MemoryInductive, DebugfsInductive, PTL

(* Lab 16: increment_store() counts exactly, modulo the wrap of the u32 of *)
(* any width and from the last raw write on, for any number of writers, as *)
(* long as no raw write meets an increment half way.                       *)
THEOREM IncrementsAreCounted == Spec => []Debugfs!IncrementsCounted
  <1>1. ASSUME DebugfsInv PROVE Debugfs!IncrementsCounted
    BY <1>1 DEF DebugfsInv, LoadsCurrent, Debugfs!IncrementsCounted
  <1> QED BY <1>1, DebugfsInductive, PTL
=============================================================================
