------------------------- MODULE KthreadDemo_proofs -------------------------
(***************************************************************************)
(* Proofs about the ring, the threads and the readers of lab 15, for every *)
(* ring size and any number of threads, writers of "control" and readers.  *)
(***************************************************************************)
EXTENDS KthreadDemo, SequenceTheorems, TLAPS

-----------------------------------------------------------------------------
(* Arithmetic modulo the ring size.                                        *)

(* A multiple of n strictly between -n and n is zero.                      *)
LEMMA SmallMultiple ==
    ASSUME NEW n \in Nat \ {0}, NEW m \in Int, -n < n * m, n * m < n
    PROVE  m = 0
  <1>1. m >= 1 => n * m >= n
    OBVIOUS
  <1>2. m <= -1 => n * m <= -n
    OBVIOUS
  <1> QED BY <1>1, <1>2

(* Division with remainder, as \div and % define it.                       *)
LEMMA Division ==
    ASSUME NEW n \in Nat \ {0}, NEW x \in Int
    PROVE  /\ (x % n) \in 0..(n - 1)
           /\ \E q \in Int : x = (n * q) + (x % n)
  <1>1. (x % n) \in 0..(n - 1)
    OBVIOUS
  <1>2. (x \div n) \in Int
    OBVIOUS
  <1>3. x = (n * (x \div n)) + (x % n)
    OBVIOUS
  <1> QED BY <1>1, <1>2, <1>3

(* Quotient and remainder are unique.                                      *)
LEMMA UniqueRemainder ==
    ASSUME NEW n \in Nat \ {0}, NEW q \in Int, NEW r \in 0..(n - 1),
           NEW x \in Int, x = (n * q) + r
    PROVE  x % n = r
  <1>1. PICK p \in Int : x = (n * p) + (x % n)
    BY Division
  <1>2. (x % n) \in 0..(n - 1)
    BY Division
  <1>3. n * (q - p) = (n * q) - (n * p)
    OBVIOUS
  <1>4. n * (q - p) = (x % n) - r
    BY <1>1, <1>2, <1>3
  <1>5. q - p = 0
    BY <1>2, <1>4, SmallMultiple
  <1> QED BY <1>1, <1>2, <1>5

(* Numbers that differ by a multiple of n have the same remainder.         *)
LEMMA SameRemainder ==
    ASSUME NEW n \in Nat \ {0}, NEW m \in Int, NEW x \in Int, NEW y \in Int,
           x = y + (n * m)
    PROVE  x % n = y % n
  <1> DEFINE r == y % n
  <1>1. PICK p \in Int : y = (n * p) + r
    BY Division
  <1>2. r \in 0..(n - 1)
    BY Division
  <1> HIDE DEF r
  <1>3. p + m \in Int
    OBVIOUS
  <1>4. x = (n * (p + m)) + r
    <2>1. n * (p + m) = (n * p) + (n * m)
      OBVIOUS
    <2>2. (n * p) \in Int /\ (n * m) \in Int
      OBVIOUS
    <2> DEFINE np == n * p
               nm == n * m
    <2>3. /\ np \in Int
          /\ nm \in Int
          /\ x = y + nm
          /\ y = np + r
          /\ (n * (p + m)) = np + nm
      BY <1>1, <2>1, <2>2, Zenon
    <2> HIDE DEF np, nm
    <2> QED BY <1>2, <2>3
  <1>5. PICK q \in Int : x = (n * q) + r
    BY <1>3, <1>4, Zenon
  <1>6. x % n = r
    <2> DEFINE nq == n * q
    <2>1. nq \in Int /\ x = nq + r
      BY <1>5
    <2>2. \A z \in Int : z = nq + r => z % n = r
      BY <1>2, UniqueRemainder
    <2> HIDE DEF nq
    <2> QED BY <2>1, <2>2, Zenon
  <1> QED BY <1>6 DEF r

(* A remainder may be taken before or after an addition.                   *)
LEMMA ModAdd ==
    ASSUME NEW n \in Nat \ {0}, NEW a \in Int, NEW b \in Int
    PROVE  ((a % n) + b) % n = (a + b) % n
  <1> DEFINE r == a % n
  <1>1. PICK p \in Int : a = (n * p) + r
    BY Division
  <1>2. r \in 0..(n - 1)
    BY Division
  <1> HIDE DEF r
  <1>3. a + b \in Int /\ r + b \in Int
    BY <1>2
  <1>4. a + b = (r + b) + (n * p)
    BY <1>1, <1>2
  <1>5. (a + b) % n = (r + b) % n
    BY <1>3, <1>4, SameRemainder, ZenonT(40)
  <1> QED BY <1>5, Zenon DEF r

(* Once round the ring is the same slot.                                   *)
LEMMA ModTurn ==
    ASSUME NEW n \in Nat \ {0}, NEW a \in Int
    PROVE  (a + n) % n = a % n
  <1>1. a + n = a + (n * 1)
    OBVIOUS
  <1>2. a + n \in Int /\ 1 \in Int
    OBVIOUS
  <1> QED BY <1>1, <1>2, SameRemainder, Zenon

(* Fewer than n consecutive numbers have different remainders: the items   *)
(* in the ring never share a slot.                                         *)
LEMMA DistinctSlots ==
    ASSUME NEW n \in Nat \ {0}, NEW a \in Int, NEW b \in Int,
           a < b, b - a < n
    PROVE  (a % n) # (b % n)
  <1> SUFFICES ASSUME (a % n) = (b % n) PROVE FALSE
    OBVIOUS
  <1>1. PICK p \in Int : a = (n * p) + (a % n)
    BY Division
  <1>2. PICK q \in Int : b = (n * q) + (b % n)
    BY Division
  <1>3. (a % n) \in 0..(n - 1)
    BY Division
  <1>4. n * (q - p) = (n * q) - (n * p)
    OBVIOUS
  <1>5. n * (q - p) = b - a
    BY <1>1, <1>2, <1>3, <1>4
  <1>6. q - p = 0
    BY <1>5, SmallMultiple
  <1> QED BY <1>5, <1>6

-----------------------------------------------------------------------------
(* The inductive invariant of the ring.  Item k lives in slot k modulo     *)
(* RING_SIZE, whichever thread produced it: RingHoldsLatest states this    *)
(* relative to ring_head, which no step can keep without knowing that      *)
(* ring_head is next_seq modulo RING_SIZE.                                 *)
RingTypes ==
    /\ ring \in [Slots -> Nat]
    /\ ring_count \in 0..RING_SIZE
    /\ next_seq \in Nat
    /\ dropped_count \in Nat
    /\ drained \in Nat

HeadIsNextSlot == ring_head = next_seq % RING_SIZE

ItemsInTheirSlots ==
    \A k \in (next_seq - ring_count)..(next_seq - 1) :
        ring[k % RING_SIZE] = k

RingInv ==
    /\ RingTypes
    /\ EveryItemAccounted
    /\ HeadIsNextSlot
    /\ ItemsInTheirSlots

(* An empty ring whose counters are zero satisfies the invariant: it is    *)
(* what the loader's zeroed data and kthreads_init() start from.           *)
LEMMA FreshRing ==
    ASSUME ring = [i \in Slots |-> 0], ring_head = 0, ring_count = 0,
           next_seq = 0, dropped_count = 0, drained = 0
    PROVE  RingInv
  <1>1. 0 % RING_SIZE = 0
    BY KthreadAssumption
  <1> QED BY <1>1, KthreadAssumption
         DEF RingInv, RingTypes, EveryItemAccounted, HeadIsNextSlot,
             ItemsInTheirSlots

(* The locked section of producer_thread_fn() keeps the invariant, with    *)
(* room in the ring and without.                                           *)
LEMMA ProduceKeepsRing ==
    ASSUME RingInv, NEW t \in Threads, producer_produce(t)
    PROVE  RingInv'
  <1> DEFINE N == RING_SIZE
  <1>1. N \in Nat \ {0}
    BY KthreadAssumption
  <1>2. /\ next_seq \in Nat
        /\ ring_count \in 0..N
        /\ ring_head = next_seq % N
        /\ ring \in [Slots -> Nat]
    BY DEF RingInv, RingTypes, HeadIsNextSlot
  <1>3. ring_head \in Slots
    BY <1>1, <1>2, Division DEF Slots
  <1>4. /\ next_seq' = next_seq + 1
        /\ ring' = [ring EXCEPT ![ring_head] = next_seq]
        /\ ring_head' = (ring_head + 1) % N
        /\ drained' = drained
    BY DEF producer_produce, advance_head
  <1>5. \/ ring_count < N /\ ring_count' = ring_count + 1
                          /\ dropped_count' = dropped_count
        \/ ring_count = N /\ ring_count' = ring_count
                          /\ dropped_count' = dropped_count + 1
    BY <1>1, <1>2 DEF producer_produce, overwrite_counted
  <1>6. RingTypes'
    <2>1. ring' \in [Slots -> Nat]
      BY <1>2, <1>4
    <2> QED BY <1>1, <1>2, <1>4, <1>5, <2>1 DEF RingInv, RingTypes
  <1>7. EveryItemAccounted'
    BY <1>1, <1>2, <1>4, <1>5 DEF RingInv, RingTypes, EveryItemAccounted
  <1>8. HeadIsNextSlot'
    <2>1. next_seq \in Int /\ 1 \in Int
      BY <1>2
    <2>2. ((next_seq % N) + 1) % N = (next_seq + 1) % N
      BY <1>1, <2>1, ModAdd, Zenon
    <2> QED BY <1>2, <1>4, <2>2, Zenon DEF HeadIsNextSlot
  <1>9. ItemsInTheirSlots'
    <2> SUFFICES ASSUME NEW k \in (next_seq' - ring_count')..(next_seq' - 1)
                 PROVE  ring'[k % N] = k
      BY DEF ItemsInTheirSlots
    <2>1. k \in Int /\ k <= next_seq /\ next_seq - k < N
      BY <1>1, <1>2, <1>4, <1>5
    <2>2. (k % N) \in Slots
      BY <1>1, <2>1, Division DEF Slots
    <2>3. CASE k = next_seq
      BY <1>2, <1>3, <1>4, <2>3
    <2>4. CASE k < next_seq
      <3>1. (k % N) # ring_head
        <4>1. next_seq \in Int
          BY <1>2
        <4>2. (k % N) # (next_seq % N)
          BY <1>1, <2>1, <2>4, <4>1, DistinctSlots, Zenon
        <4> QED BY <1>2, <4>2
      <3>2. k \in (next_seq - ring_count)..(next_seq - 1)
        BY <1>1, <1>2, <1>4, <1>5, <2>4
      <3>3. ring[k % N] = k
        BY <3>2 DEF RingInv, ItemsInTheirSlots
      <3> QED BY <1>2, <1>4, <2>2, <3>1, <3>3
    <2> QED BY <1>2, <2>1, <2>3, <2>4
  <1> QED BY <1>6, <1>7, <1>8, <1>9 DEF RingInv

(* The locked section of kthread_demo_read() keeps it: the ring is empty   *)
(* and the head stays where it is.                                         *)
LEMMA DrainKeepsRing ==
    ASSUME RingInv, NEW r \in Readers, read_drain(r)
    PROVE  RingInv'
  <1>1. /\ ring_count' = 0
        /\ drained' = drained + ring_count
        /\ UNCHANGED <<ring, ring_head, next_seq, dropped_count>>
    BY DEF read_drain
  <1>2. RingTypes'
    BY <1>1, KthreadAssumption DEF RingInv, RingTypes
  <1>3. EveryItemAccounted'
    BY <1>1, KthreadAssumption DEF RingInv, RingTypes, EveryItemAccounted
  <1>4. HeadIsNextSlot'
    BY <1>1 DEF RingInv, HeadIsNextSlot
  <1>5. ItemsInTheirSlots'
    BY <1>1 DEF RingInv, RingTypes, ItemsInTheirSlots
  <1> QED BY <1>2, <1>3, <1>4, <1>5 DEF RingInv

(* A step that leaves the ring's variables alone keeps it.                 *)
LEMMA UntouchedRing ==
    ASSUME RingInv, UNCHANGED ringVars
    PROVE  RingInv'
  BY DEF RingInv, RingTypes, EveryItemAccounted, HeadIsNextSlot,
         ItemsInTheirSlots, ringVars

(* No step of any thread, caller, reader or of the module breaks it.       *)
LEMMA RingStep ==
    ASSUME RingInv, [Next]_vars
    PROVE  RingInv'
  <1>1. CASE UNCHANGED vars
    BY <1>1, UntouchedRing DEF vars
  <1>2. ASSUME NEW t \in Threads, producer_thread_fn(t) PROVE RingInv'
    <2>1. CASE producer_produce(t)
      BY <2>1, ProduceKeepsRing
    <2>2. CASE producer_check(t) \/ producer_wakes(t)
      BY <2>2, UntouchedRing DEF producer_check, producer_wakes
    <2> QED BY <1>2, <2>1, <2>2 DEF producer_thread_fn
  <1>3. ASSUME NEW c \in Callers, caller_runs(c) PROVE RingInv'
    BY <1>3, UntouchedRing
       DEF caller_runs, start_producer, stop_producer, stop_swap, stop_kill,
           stop_join
  <1>4. ASSUME NEW c \in Controllers, control_store(c) PROVE RingInv'
    BY <1>4, UntouchedRing DEF control_store
  <1>5. ASSUME NEW r \in Readers, reader_user(r) \/ kthread_demo_read(r)
        PROVE  RingInv'
    <2>1. CASE read_drain(r)
      BY <2>1, DrainKeepsRing
    <2>2. CASE reader_user(r) \/ read_clear(r) \/ read_loop(r)
      BY <2>2, UntouchedRing DEF reader_user, read_clear, read_loop
    <2>3. CASE read_line(r) \/ read_copy(r)
      BY <2>3, UntouchedRing DEF read_line, read_copy
    <2> QED BY <1>5, <2>1, <2>2, <2>3 DEF kthread_demo_read
  <1>6. CASE init_register
    <2>1. /\ ring' = [i \in Slots |-> 0]
          /\ ring_head' = 0
          /\ ring_count' = 0
          /\ next_seq' = 0
          /\ dropped_count' = 0
          /\ drained' = 0
      BY <1>6 DEF init_register
    <2>2. 0 % RING_SIZE = 0
      BY KthreadAssumption
    <2> QED BY <2>1, <2>2, KthreadAssumption
           DEF RingInv, RingTypes, EveryItemAccounted, HeadIsNextSlot,
               ItemsInTheirSlots
  <1>7. CASE module_calls \/ module_removes
    BY <1>7, UntouchedRing DEF module_calls, module_removes
  <1> QED BY <1>1, <1>2, <1>3, <1>4, <1>5, <1>6, <1>7 DEF Next

(* The invariant of the ring holds in every reachable state.               *)
THEOREM RingInductive == Spec => []RingInv
  <1>1. Init => RingInv
    BY FreshRing DEF Init
  <1>2. RingInv /\ [Next]_vars => RingInv'
    BY RingStep
  <1> QED BY <1>1, <1>2, PTL DEF Spec

(* Every item that a producer thread numbered was drained by a read,       *)
(* counted in dropped_count or is still in the ring, for any number of     *)
(* producers and readers.                                                  *)
THEOREM ItemsAreAccounted == Spec => []EveryItemAccounted
  <1>1. RingInv => EveryItemAccounted
    BY DEF RingInv
  <1> QED BY <1>1, RingInductive, PTL

(* The ring read from ring_start on, as RingInv places its items.          *)
LEMMA LatestInRing ==
    ASSUME RingInv
    PROVE  RingHoldsLatest
  <1> DEFINE N == RING_SIZE
  <1> SUFFICES ASSUME NEW i \in 0..(ring_count - 1)
               PROVE  ring[(ring_start + i) % N] = next_seq - ring_count + i
    BY DEF RingHoldsLatest
  <1> DEFINE k == next_seq - ring_count + i
  <1>1. /\ N \in Nat \ {0}
        /\ next_seq \in Nat
        /\ ring_count \in 0..N
        /\ ring_head = next_seq % N
    BY KthreadAssumption DEF RingInv, RingTypes, HeadIsNextSlot
  <1>2. ring_head \in 0..(N - 1)
    BY <1>1, Division
  <1> DEFINE b == N - ring_count
             s == next_seq + b
  <1>3. /\ next_seq \in Int /\ b \in Int /\ i \in Int
        /\ s \in Int /\ k \in Int
        /\ s + i = k + N
    BY <1>1
  <1>4. ring_start = s % N
    <2>1. ring_head + N - ring_count = ring_head + b
      BY <1>1, <1>2
    <2>2. ring_start = ((next_seq % N) + b) % N
      BY <1>1, <2>1, Zenon DEF ring_start
    <2> QED BY <1>1, <1>3, <2>2, ModAdd, Zenon
  <1>5. (ring_start + i) % N = (s + i) % N
    <2> HIDE DEF s
    <2> QED BY <1>1, <1>3, <1>4, ModAdd, Zenon
  <1>6. (k + N) % N = k % N
    BY <1>1, <1>3, ModTurn, Zenon
  <1>7. k \in (next_seq - ring_count)..(next_seq - 1)
    BY <1>1
  <1>8. ring[k % N] = k
    BY <1>7 DEF RingInv, ItemsInTheirSlots
  <1> QED BY <1>3, <1>5, <1>6, <1>8, Zenon

(* What read() would find from ring_start on are the latest ring_count     *)
(* items in the order of their numbers, for every RING_SIZE.               *)
THEOREM RingIsInOrder == Spec => []RingHoldsLatest
  <1>1. RingInv => RingHoldsLatest
    BY LatestInRing
  <1> QED BY <1>1, RingInductive, PTL

-----------------------------------------------------------------------------
(* The ring implements the queue that drops its oldest item.               *)

(* The count numbers before n, in order: what the queue holds.             *)
Latest(n, count) == [i \in 1..count |-> n - count + i - 1]

(* The items of the ring are the latest ones.                              *)
ItemsLatest == ring_items = Latest(next_seq, ring_count)

(* This follows from the invariant of the ring.                            *)
LEMMA ItemsAreLatest ==
    ASSUME RingInv
    PROVE  ItemsLatest
  <1>1. /\ RING_SIZE \in Nat \ {0}
        /\ next_seq \in Nat
        /\ ring_count \in 0..RING_SIZE
        /\ ring_head = next_seq % RING_SIZE
    BY KthreadAssumption DEF RingInv, RingTypes, HeadIsNextSlot
  <1>2. ring_start \in Int
    <2>1. ring_head \in 0..(RING_SIZE - 1)
      BY <1>1, Division
    <2>2. (ring_head + RING_SIZE - ring_count) \in Int
      BY <1>1, <2>1
    <2> QED BY <1>1, <2>2, Division DEF ring_start
  <1>3. ASSUME NEW i \in 1..ring_count
        PROVE  ring[(ring_start + i - 1) % RING_SIZE]
                   = next_seq - ring_count + i - 1
    <2>1. i - 1 \in 0..(ring_count - 1)
      BY <1>1
    <2>2. ring[(ring_start + (i - 1)) % RING_SIZE]
              = next_seq - ring_count + (i - 1)
      BY <2>1, LatestInRing, Zenon DEF RingHoldsLatest
    <2>3. /\ ring_start + (i - 1) = ring_start + i - 1
          /\ next_seq - ring_count + (i - 1) = next_seq - ring_count + i - 1
      BY <1>1, <1>2
    <2> QED BY <2>2, <2>3, Zenon
  <1> QED BY <1>3, Zenon DEF ItemsLatest, ring_items, Latest

(* The queue of count items is a sequence of that length.                  *)
LEMMA LatestIsSeq ==
    ASSUME NEW n \in Nat, NEW count \in Nat
    PROVE  /\ Latest(n, count) \in Seq(Int)
           /\ Len(Latest(n, count)) = count
           /\ \A i \in 1..count : Latest(n, count)[i] = n - count + i - 1
  BY DEF Latest

(* Appending the next number to a queue with room.                         *)
LEMMA LatestGrows ==
    ASSUME NEW n \in Nat, NEW count \in Nat
    PROVE  Latest(n + 1, count + 1) = Append(Latest(n, count), n)
  <1> DEFINE old == Latest(n, count)
             new == Latest(n + 1, count + 1)
  <1>1. /\ old \in Seq(Int) /\ Len(old) = count
        /\ \A i \in 1..count : old[i] = n - count + i - 1
    BY LatestIsSeq
  <1>2. /\ new \in Seq(Int) /\ Len(new) = count + 1
        /\ \A i \in 1..(count + 1) : new[i] = n + 1 - (count + 1) + i - 1
    <2>1. n + 1 \in Nat /\ count + 1 \in Nat
      OBVIOUS
    <2> QED BY <2>1, LatestIsSeq
  <1> HIDE DEF old, new
  <1>3. n \in Int
    OBVIOUS
  <1>4. /\ Append(old, n) \in Seq(Int)
        /\ Len(Append(old, n)) = Len(old) + 1
        /\ \A i \in 1..Len(old) : Append(old, n)[i] = old[i]
        /\ Append(old, n)[Len(old) + 1] = n
    BY <1>1, <1>3, AppendProperties
  <1>5. Len(new) = Len(Append(old, n))
    BY <1>1, <1>2, <1>4
  <1>6. ASSUME NEW i \in 1..Len(new) PROVE new[i] = Append(old, n)[i]
    <2>1. i \in 1..(count + 1) /\ new[i] = n + 1 - (count + 1) + i - 1
      BY <1>2, Zenon
    <2>2. CASE i = count + 1
      <3>1. Append(old, n)[i] = n
        BY <1>1, <1>4, <2>2, Zenon
      <3> QED BY <2>1, <2>2, <3>1
    <2>3. CASE i \in 1..count
      <3>1. Append(old, n)[i] = old[i] /\ old[i] = n - count + i - 1
        BY <1>1, <1>4, <2>3, Zenon
      <3> QED BY <2>1, <2>3, <3>1
    <2>4. i = count + 1 \/ i \in 1..count
      BY <2>1
    <2> QED BY <2>2, <2>3, <2>4, Zenon
  <1>7. new = Append(old, n)
    BY <1>2, <1>4, <1>5, <1>6, SeqEqual, Zenon
  <1> QED BY <1>7 DEF old, new

(* Dropping the oldest number of a full queue before appending the next.   *)
LEMMA LatestTurns ==
    ASSUME NEW n \in Nat, NEW count \in Nat \ {0}
    PROVE  Latest(n + 1, count) = Append(Tail(Latest(n, count)), n)
  <1> DEFINE old == Latest(n, count)
             rest == Latest(n, count - 1)
  <1>1. /\ old \in Seq(Int) /\ Len(old) = count
        /\ \A i \in 1..count : old[i] = n - count + i - 1
    BY LatestIsSeq
  <1>2. count - 1 \in Nat /\ (count - 1) + 1 = count
    OBVIOUS
  <1>3. /\ rest \in Seq(Int) /\ Len(rest) = count - 1
        /\ \A i \in 1..(count - 1) : rest[i] = n - (count - 1) + i - 1
    BY <1>2, LatestIsSeq, Zenon
  <1> HIDE DEF old, rest
  <1>4. old # <<>>
    BY <1>1
  <1>5. /\ Tail(old) \in Seq(Int)
        /\ Len(Tail(old)) = Len(old) - 1
        /\ \A i \in 1..Len(Tail(old)) : Tail(old)[i] = old[i + 1]
    BY <1>1, <1>4, HeadTailProperties, Zenon
  <1>6. Len(Tail(old)) = Len(rest)
    BY <1>1, <1>3, <1>5
  <1>7. ASSUME NEW i \in 1..Len(Tail(old)) PROVE Tail(old)[i] = rest[i]
    <2>1. i \in 1..(count - 1) /\ i + 1 \in 1..count
      BY <1>1, <1>5
    <2>2. /\ Tail(old)[i] = old[i + 1]
          /\ old[i + 1] = n - count + (i + 1) - 1
          /\ rest[i] = n - (count - 1) + i - 1
      BY <1>1, <1>3, <1>5, <2>1, Zenon
    <2> QED BY <2>1, <2>2
  <1>8. Tail(old) = rest
    BY <1>3, <1>5, <1>6, <1>7, SeqEqual, Zenon
  <1>9. Latest(n + 1, (count - 1) + 1) = Append(rest, n)
    BY <1>2, LatestGrows, Zenon DEF rest
  <1> QED BY <1>2, <1>8, <1>9, Zenon DEF old

(* A queue of no items is the empty sequence.                              *)
LEMMA LatestOfNone ==
    ASSUME NEW n \in Nat
    PROVE  Latest(n, 0) = <<>>
  <1>1. Latest(n, 0) \in Seq(Int) /\ Len(Latest(n, 0)) = 0
    BY LatestIsSeq
  <1> QED BY <1>1

(* The producer's locked section puts an item, and drops one if it must.   *)
LEMMA ProducePuts ==
    ASSUME RingInv, ItemsLatest, ItemsLatest',
           NEW t \in Threads, producer_produce(t)
    PROVE  Queue!Put
  <1>1. /\ RING_SIZE \in Nat \ {0}
        /\ next_seq \in Nat
        /\ ring_count \in 0..RING_SIZE
        /\ ring_count \in Nat
    BY KthreadAssumption DEF RingInv, RingTypes
  <1>2. /\ next_seq' = next_seq + 1
        /\ \/ ring_count < RING_SIZE /\ ring_count' = ring_count + 1
                                     /\ dropped_count' = dropped_count
           \/ ring_count = RING_SIZE /\ ring_count' = ring_count
                                     /\ dropped_count' = dropped_count + 1
    BY <1>1 DEF producer_produce, overwrite_counted
  <1>3. /\ ring_items = Latest(next_seq, ring_count)
        /\ ring_items' = Latest(next_seq', ring_count')
    BY Zenon DEF ItemsLatest, Latest
  <1>4. Len(ring_items) = ring_count
    BY <1>1, <1>3, LatestIsSeq
  <1>5. CASE ring_count < RING_SIZE
    <2>1. ring_items' = Append(ring_items, next_seq)
      <3>1. ring_count' = ring_count + 1
        BY <1>1, <1>2, <1>5
      <3> QED BY <1>1, <1>2, <1>3, <3>1, LatestGrows, Zenon
    <2> QED BY <1>1, <1>2, <1>4, <1>5, <2>1 DEF Queue!Put
  <1>6. CASE ring_count = RING_SIZE
    <2>1. ring_items' = Append(Tail(ring_items), next_seq)
      <3>1. ring_count \in Nat \ {0} /\ ring_count' = ring_count
        BY <1>1, <1>2, <1>6
      <3> QED BY <1>1, <1>2, <1>3, <3>1, LatestTurns, Zenon
    <2> QED BY <1>1, <1>2, <1>4, <1>6, <2>1 DEF Queue!Put
  <1> QED BY <1>1, <1>5, <1>6

(* A step that leaves the ring's variables alone leaves the queue alone.   *)
LEMMA QueueUntouched ==
    ASSUME UNCHANGED ringVars
    PROVE  UNCHANGED Queue!vars
  BY DEF ringVars, Queue!vars, ring_items, ring_start

(* A step of lab 15 is a step of the queue or leaves it alone.             *)
LEMMA QueueStep ==
    ASSUME RingInv, ItemsLatest, ItemsLatest', [Next]_vars
    PROVE  [Queue!Next]_(Queue!vars)
  <1> DEFINE Goal == Queue!Next \/ UNCHANGED Queue!vars
  <1>1. CASE UNCHANGED vars
    BY <1>1, QueueUntouched DEF vars
  <1>2. ASSUME NEW t \in Threads, producer_thread_fn(t) PROVE Goal
    <2>1. CASE producer_produce(t)
      BY <2>1, ProducePuts DEF Queue!Next
    <2>2. CASE producer_check(t) \/ producer_wakes(t)
      BY <2>2, QueueUntouched DEF producer_check, producer_wakes
    <2> QED BY <1>2, <2>1, <2>2 DEF producer_thread_fn
  <1>3. ASSUME NEW c \in Callers, caller_runs(c) PROVE Goal
    BY <1>3, QueueUntouched
       DEF caller_runs, start_producer, stop_producer, stop_swap, stop_kill,
           stop_join
  <1>4. ASSUME NEW c \in Controllers, control_store(c) PROVE Goal
    BY <1>4, QueueUntouched DEF control_store
  <1>5. ASSUME NEW r \in Readers, reader_user(r) \/ kthread_demo_read(r)
        PROVE  Goal
    <2>1. CASE read_drain(r)
      <3>1. ring_count' = 0 /\ next_seq' = next_seq /\ dropped_count' = dropped_count
        BY <2>1 DEF read_drain
      <3>2. next_seq \in Nat
        BY DEF RingInv, RingTypes
      <3>3. ring_items' = Latest(next_seq, 0)
        BY <3>1, Zenon DEF ItemsLatest, Latest
      <3>4. ring_items' = <<>>
        BY <3>2, <3>3, LatestOfNone
      <3> QED BY <3>1, <3>4 DEF Queue!TakeAll, Queue!Next
    <2>2. CASE reader_user(r) \/ read_clear(r) \/ read_loop(r)
      BY <2>2, QueueUntouched DEF reader_user, read_clear, read_loop
    <2>3. CASE read_line(r) \/ read_copy(r)
      BY <2>3, QueueUntouched DEF read_line, read_copy
    <2> QED BY <1>5, <2>1, <2>2, <2>3 DEF kthread_demo_read
  <1>6. CASE init_register
    <2>1. ring_count' = 0 /\ next_seq' = 0 /\ dropped_count' = 0
      BY <1>6 DEF init_register
    <2>2. ring_items' = Latest(0, 0)
      BY <2>1, Zenon DEF ItemsLatest, Latest
    <2>3. ring_items' = <<>>
      BY <2>2, LatestOfNone
    <2> QED BY <2>1, <2>3 DEF Queue!Reload, Queue!Next
  <1>7. CASE module_calls \/ module_removes
    BY <1>7, QueueUntouched DEF module_calls, module_removes
  <1>8. Goal
    BY <1>1, <1>2, <1>3, <1>4, <1>5, <1>6, <1>7 DEF Next
  <1> QED BY <1>8

(* The ring with its head and count, under any number of producers,        *)
(* callers and readers, implements the queue that drops its oldest item:   *)
(* no item is duplicated, reordered or lost without being counted.         *)
THEOREM RingImplementsQueue == Spec => ImplementsQueue
  <1>1. RingInv => ItemsLatest
    BY ItemsAreLatest
  <1>2. Init => Queue!Init
    <2> SUFFICES ASSUME Init PROVE Queue!Init
      OBVIOUS
    <2>1. ring_count = 0 /\ next_seq = 0 /\ dropped_count = 0
      BY DEF Init
    <2>2. RingInv
      BY FreshRing DEF Init
    <2>3. ring_items = Latest(0, 0)
      BY <2>1, <2>2, ItemsAreLatest DEF ItemsLatest
    <2>4. ring_items = <<>>
      BY <2>3, LatestOfNone
    <2> QED BY <2>1, <2>4 DEF Queue!Init
  <1>3. RingInv /\ ItemsLatest /\ ItemsLatest' /\ [Next]_vars
            => [Queue!Next]_(Queue!vars)
    BY QueueStep
  <1> QED BY <1>1, <1>2, <1>3, RingInductive, PTL
         DEF Spec, ImplementsQueue, Queue!Spec

-----------------------------------------------------------------------------
(* The life of the producer's task.                                        *)

TaskTypes ==
    /\ phase \in Phases
    /\ producer_task \in Threads \cup {NULL}
    /\ thread \in [Threads -> ThreadPCs]
    /\ stopping \subseteq Threads
    /\ caller \in [Callers -> CallerState]

(* Only inside kthread_stop() does a caller hold a task.                   *)
CallersInStep ==
    \A c \in Callers :
        /\ caller[c].task # NULL => caller[c].pc \in {"kill", "join"}
        /\ caller[c].pc = "kill" => caller[c].task # NULL

(* The process in insmod or rmmod calls start_producer() and               *)
(* stop_producer() in their phases only.                                   *)
ModuleInStep ==
    /\ caller[MODULE_TASK].pc = "start" <=> phase = "starting"
    /\ caller[MODULE_TASK].pc \in {"swap", "kill", "join"}
          <=> phase = "stopping"

(* The swap under producer_task_lock gives a task to one caller: a task    *)
(* that producer_task or a caller of kthread_stop() points to exists, and  *)
(* no two of them point to the same one.                                   *)
TasksOwned ==
    /\ producer_task # NULL => thread[producer_task] # "none"
    /\ \A c \in Callers :
          caller[c].task # NULL =>
              /\ thread[caller[c].task] # "none"
              /\ caller[c].task # producer_task
    /\ \A c, d \in Callers :
          caller[c].task # NULL /\ caller[c].task = caller[d].task => c = d

(* A thread leaves its loop only while a kthread_stop() waits for it.      *)
StoppedByOwner ==
    \A t \in Threads :
        thread[t] = "exited" \/ t \in stopping =>
            \E c \in Callers : caller[c].pc = "join" /\ caller[c].task = t

TaskInv ==
    /\ TaskTypes
    /\ CallersInStep
    /\ ModuleInStep
    /\ TasksOwned
    /\ StoppedByOwner

(* A step that leaves the tasks and the phase alone keeps it.              *)
LEMMA UntouchedTasks ==
    ASSUME TaskInv, UNCHANGED <<phase, taskVars>>
    PROVE  TaskInv'
  BY DEF TaskInv, TaskTypes, CallersInStep, ModuleInStep, TasksOwned,
         StoppedByOwner, taskVars

(* A producer thread moves inside its loop, or leaves it when told to.     *)
LEMMA ThreadKeepsTasks ==
    ASSUME TaskInv, NEW t \in Threads, producer_thread_fn(t)
    PROVE  TaskInv'
  <1>1. /\ UNCHANGED <<phase, producer_task, stopping, caller>>
        /\ \E pc \in ThreadPCs \ {"none"} :
              /\ thread' = [thread EXCEPT ![t] = pc]
              /\ pc = "exited" => t \in stopping
        /\ thread[t] # "none"
        /\ thread[t] # "exited"
    BY DEF producer_thread_fn, producer_check, producer_produce,
           producer_wakes, ThreadGoto, kthread_should_stop, ThreadPCs
  <1>2. PICK pc \in ThreadPCs \ {"none"} :
              /\ thread' = [thread EXCEPT ![t] = pc]
              /\ pc = "exited" => t \in stopping
    BY <1>1
  <1>3. TaskTypes'
    BY <1>1, <1>2 DEF TaskInv, TaskTypes
  <1>4. CallersInStep' /\ ModuleInStep'
    BY <1>1 DEF TaskInv, CallersInStep, ModuleInStep
  <1>5. \A u \in Threads : (thread[u] # "none") => (thread'[u] # "none")
    BY <1>2 DEF TaskInv, TaskTypes
  <1>6. TasksOwned'
    BY <1>1, <1>5
       DEF TaskInv, TaskTypes, CallerState, TasksOwned
  <1>7. StoppedByOwner'
    BY <1>1, <1>2 DEF TaskInv, TaskTypes, StoppedByOwner
  <1> QED BY <1>3, <1>4, <1>6, <1>7 DEF TaskInv

(* start_producer() makes a task that nobody holds and publishes it.       *)
LEMMA StartKeepsTasks ==
    ASSUME TaskInv, NEW c \in Callers, start_producer(c)
    PROVE  TaskInv'
  <1>1. /\ caller[c].pc = "start"
        /\ caller[c].task = NULL
        /\ caller' = [caller EXCEPT ![c] = NoCall]
        /\ stopping' = stopping
    BY DEF start_producer, Return, TaskInv, CallersInStep
  <1>2. /\ NoCall \in CallerState
        /\ NoCall.pc = "idle"
        /\ NoCall.task = NULL
    BY DEF NoCall, CallerState
  <1>3. /\ caller' \in [Callers -> CallerState]
        /\ caller'[c] = NoCall
        /\ \A d \in Callers : d # c => caller'[d] = caller[d]
        /\ \A d \in Callers : caller'[d].task = caller[d].task
    BY <1>1, <1>2 DEF TaskInv, TaskTypes
  <1>4. CallersInStep'
    BY <1>2, <1>3 DEF TaskInv, CallersInStep
  <1>5. ModuleInStep' /\ phase' \in Phases
    BY <1>1, <1>2, <1>3
       DEF TaskInv, TaskTypes, ModuleInStep, start_producer, Phases, Callers
  <1>6. CASE UNCHANGED <<producer_task, thread>>
    <2>1. TaskTypes'
      BY <1>1, <1>3, <1>5, <1>6 DEF TaskInv, TaskTypes
    <2>2. TasksOwned'
      BY <1>3, <1>6 DEF TaskInv, TasksOwned
    <2>3. StoppedByOwner'
      BY <1>1, <1>3, <1>6 DEF TaskInv, StoppedByOwner
    <2> QED BY <1>4, <1>5, <2>1, <2>2, <2>3 DEF TaskInv
  <1>7. CASE \E t \in Threads : start_creates(t)
    <2>1. PICK t \in Threads :
             /\ producer_task = NULL
             /\ producer_task' = t
             /\ thread[t] = "none"
             /\ thread' = [thread EXCEPT ![t] = "check"]
      BY <1>7 DEF start_creates, may_start, ThreadGoto
    <2>2. TaskTypes'
      BY <1>1, <1>3, <1>5, <2>1 DEF TaskInv, TaskTypes, ThreadPCs
    <2>3. \A d \in Callers : caller[d].task # t
      BY <2>1, KthreadAssumption DEF TaskInv, TasksOwned
    <2>4. /\ thread'[t] = "check"
          /\ \A u \in Threads : u # t => thread'[u] = thread[u]
      BY <2>1 DEF TaskInv, TaskTypes
    <2>5. TasksOwned'
      BY <1>3, <2>1, <2>3, <2>4, KthreadAssumption
         DEF TaskInv, TaskTypes, CallerState, TasksOwned
    <2>6. StoppedByOwner'
      BY <1>1, <1>3, <2>3, <2>4 DEF TaskInv, StoppedByOwner
    <2> QED BY <1>4, <1>5, <2>2, <2>5, <2>6 DEF TaskInv
  <1> QED BY <1>6, <1>7 DEF start_producer, start_fails

(* stop_producer() takes the published task, or finds none.                *)
LEMMA SwapKeepsTasks ==
    ASSUME TaskInv, NEW c \in Callers, stop_swap(c)
    PROVE  TaskInv'
  <1>1. /\ caller[c].pc = "swap"
        /\ caller[c].task = NULL
        /\ producer_task' = NULL
        /\ UNCHANGED <<phase, thread, stopping>>
    BY DEF stop_swap, TaskInv, CallersInStep
  <1>2. PICK new \in CallerState :
          /\ caller' = [caller EXCEPT ![c] = new]
          /\ new.task = producer_task
          /\ new.task # NULL => new.pc = "kill"
          /\ new.task = NULL => new.pc = IF c = MODULE_TASK THEN "join"
                                                            ELSE "idle"
    <2> DEFINE new == IF producer_task = NULL
          THEN [NoCall EXCEPT !.pc = IF c = MODULE_TASK THEN "join" ELSE "idle"]
          ELSE [pc |-> "kill", task |-> producer_task]
    <2>1. new \in CallerState
      BY DEF TaskInv, TaskTypes, CallerState, NoCall
    <2>2. caller' = [caller EXCEPT ![c] = new]
      BY DEF stop_swap
    <2>3. /\ new.task = producer_task
          /\ new.task # NULL => new.pc = "kill"
          /\ new.task = NULL => new.pc = IF c = MODULE_TASK THEN "join"
                                                            ELSE "idle"
      BY DEF NoCall
    <2> QED BY <2>1, <2>2, <2>3
  <1>3. /\ caller' \in [Callers -> CallerState]
        /\ caller'[c] = new
        /\ \A d \in Callers : d # c => caller'[d] = caller[d]
    BY <1>2 DEF TaskInv, TaskTypes
  <1>4. TaskTypes'
    BY <1>1, <1>3 DEF TaskInv, TaskTypes
  <1>5. CallersInStep'
    BY <1>2, <1>3 DEF TaskInv, CallersInStep
  <1>6. ModuleInStep'
    BY <1>1, <1>2, <1>3 DEF TaskInv, ModuleInStep, Callers
  <1>7. TasksOwned'
    BY <1>1, <1>2, <1>3 DEF TaskInv, TasksOwned
  <1>8. StoppedByOwner'
    BY <1>1, <1>3 DEF TaskInv, StoppedByOwner
  <1> QED BY <1>4, <1>5, <1>6, <1>7, <1>8 DEF TaskInv

(* kthread_stop() sets the flag of the task that the caller holds.         *)
LEMMA KillKeepsTasks ==
    ASSUME TaskInv, NEW c \in Callers, stop_kill(c)
    PROVE  TaskInv'
  <1> DEFINE task == caller[c].task
  <1>1. /\ caller[c].pc = "kill"
        /\ task \in Threads
        /\ stopping' = stopping \cup {task}
        /\ caller' = [caller EXCEPT ![c].pc = "join"]
        /\ UNCHANGED <<phase, producer_task, thread>>
    BY DEF stop_kill, TaskInv, TaskTypes, CallersInStep, CallerState
  <1>2. /\ caller' \in [Callers -> CallerState]
        /\ caller'[c].pc = "join"
        /\ caller'[c].task = task
        /\ \A d \in Callers : d # c => caller'[d] = caller[d]
        /\ \A d \in Callers : caller'[d].task = caller[d].task
    BY <1>1 DEF TaskInv, TaskTypes, CallerState
  <1> HIDE DEF task
  <1>3. TaskTypes'
    BY <1>1, <1>2 DEF TaskInv, TaskTypes
  <1>4. CallersInStep'
    BY <1>2 DEF TaskInv, CallersInStep
  <1>5. ModuleInStep'
    BY <1>1, <1>2 DEF TaskInv, ModuleInStep, Callers
  <1>6. TasksOwned'
    BY <1>1, <1>2 DEF TaskInv, TasksOwned
  <1>7. StoppedByOwner'
    BY <1>1, <1>2 DEF TaskInv, StoppedByOwner
  <1> QED BY <1>3, <1>4, <1>5, <1>6, <1>7 DEF TaskInv

(* The wait of kthread_stop() ends: the task is gone and nobody holds it.  *)
LEMMA JoinKeepsTasks ==
    ASSUME TaskInv, NEW c \in Callers, stop_join(c)
    PROVE  TaskInv'
  <1> DEFINE task == caller[c].task
  <1>1. /\ caller[c].pc = "join"
        /\ task \in Threads \cup {NULL}
        /\ thread' = [t \in Threads |-> IF t = task THEN "none" ELSE thread[t]]
        /\ stopping' = stopping \ {task}
        /\ phase' = IF c = MODULE_TASK THEN "stopped" ELSE phase
        /\ caller' = [caller EXCEPT ![c] = NoCall]
        /\ UNCHANGED producer_task
    BY DEF stop_join, Return, TaskInv, TaskTypes, CallerState
  <1>2. /\ NoCall \in CallerState
        /\ NoCall.pc = "idle"
        /\ NoCall.task = NULL
    BY DEF NoCall, CallerState
  <1>3. /\ caller' \in [Callers -> CallerState]
        /\ caller'[c] = NoCall
        /\ \A d \in Callers : d # c => caller'[d] = caller[d]
    BY <1>1, <1>2 DEF TaskInv, TaskTypes
  <1> HIDE DEF task
  <1>4. TaskTypes'
    BY <1>1, <1>3 DEF TaskInv, TaskTypes, ThreadPCs, Phases
  <1>5. CallersInStep'
    BY <1>2, <1>3 DEF TaskInv, CallersInStep
  <1>6. ModuleInStep'
    BY <1>1, <1>2, <1>3 DEF TaskInv, ModuleInStep, Callers
  <1>7. \A d \in Callers : (d # c /\ caller[d].task # NULL) => (caller[d].task # task)
    BY DEF TaskInv, TasksOwned, task
  <1>8. TasksOwned'
    <2>1. ASSUME producer_task # NULL PROVE thread'[producer_task] # "none"
      BY <1>1, <2>1 DEF TaskInv, TaskTypes, TasksOwned, task
    <2>2. ASSUME NEW d \in Callers, caller'[d].task # NULL
          PROVE  /\ d # c
                 /\ caller'[d].task = caller[d].task
                 /\ thread'[caller'[d].task] # "none"
                 /\ caller'[d].task # producer_task
      <3>1. d # c /\ caller'[d] = caller[d]
        BY <1>2, <1>3, <2>2
      <3>2. caller[d].task \in Threads /\ caller[d].task # task
        BY <1>7, <2>2, <3>1 DEF TaskInv, TaskTypes, CallerState
      <3> QED BY <1>1, <2>2, <3>1, <3>2 DEF TaskInv, TasksOwned
    <2> QED BY <1>1, <2>1, <2>2 DEF TaskInv, TasksOwned
  <1>9. StoppedByOwner'
    <2> SUFFICES ASSUME NEW t \in Threads, thread'[t] = "exited" \/ t \in stopping'
                 PROVE  \E d \in Callers : caller'[d].pc = "join" /\ caller'[d].task = t
      BY DEF StoppedByOwner
    <2>1. t # task /\ (thread[t] = "exited" \/ t \in stopping)
      BY <1>1
    <2>2. PICK d \in Callers : caller[d].pc = "join" /\ caller[d].task = t
      BY <2>1 DEF TaskInv, StoppedByOwner
    <2>3. d # c
      BY <2>1, <2>2 DEF task
    <2> QED BY <1>3, <2>2, <2>3
  <1> QED BY <1>4, <1>5, <1>6, <1>8, <1>9 DEF TaskInv

(* A call that begins holds no task yet.                                   *)
LEMMA CallKeepsTasks ==
    ASSUME TaskInv, NEW c \in Callers, caller[c].pc = "idle",
           NEW pc \in {"start", "swap"},
           caller' = [caller EXCEPT ![c].pc = pc],
           phase' \in Phases,
           ModuleInStep',
           UNCHANGED <<producer_task, thread, stopping>>
    PROVE  TaskInv'
  <1>1. caller[c].task = NULL
    BY DEF TaskInv, CallersInStep
  <1>2. /\ caller' \in [Callers -> CallerState]
        /\ caller'[c].pc = pc
        /\ \A d \in Callers : d # c => caller'[d] = caller[d]
        /\ \A d \in Callers : caller'[d].task = caller[d].task
    BY DEF TaskInv, TaskTypes, CallerState
  <1>3. TaskTypes'
    BY <1>2 DEF TaskInv, TaskTypes
  <1>4. CallersInStep'
    BY <1>1, <1>2 DEF TaskInv, CallersInStep
  <1>5. TasksOwned'
    BY <1>2 DEF TaskInv, TasksOwned
  <1>6. StoppedByOwner'
    BY <1>2 DEF TaskInv, StoppedByOwner
  <1> QED BY <1>3, <1>4, <1>5, <1>6 DEF TaskInv

(* insmod and rmmod outside start_producer() and stop_producer().          *)
LEMMA ModuleKeepsTasks ==
    ASSUME TaskInv, init_register \/ module_calls \/ module_removes
    PROVE  TaskInv'
  <1>1. MODULE_TASK \in Callers /\ caller[MODULE_TASK] \in CallerState
    BY DEF Callers, TaskInv, TaskTypes
  <1>2. CASE init_register
    <2>1. /\ phase = "unloaded" /\ phase' = "registered"
          /\ producer_task' = NULL
          /\ UNCHANGED <<thread, stopping, caller>>
      BY <1>2 DEF init_register, Advance
    <2>2. TaskTypes'
      BY <2>1 DEF TaskInv, TaskTypes, Phases
    <2>3. CallersInStep' /\ ModuleInStep' /\ StoppedByOwner'
      BY <2>1 DEF TaskInv, CallersInStep, ModuleInStep, StoppedByOwner
    <2>4. TasksOwned'
      BY <2>1 DEF TaskInv, TasksOwned
    <2> QED BY <2>2, <2>3, <2>4 DEF TaskInv
  <1>3. CASE module_calls
    <2>1. PICK pc \in {"start", "swap"} :
             /\ caller' = [caller EXCEPT ![MODULE_TASK].pc = pc]
             /\ pc = "start" => phase = "registered" /\ phase' = "starting"
             /\ pc = "swap" => phase = "live" /\ phase' = "stopping"
             /\ UNCHANGED <<producer_task, thread, stopping>>
      BY <1>3 DEF module_calls, Advance
    <2>2. caller[MODULE_TASK].pc = "idle"
      BY <1>1, <2>1 DEF TaskInv, ModuleInStep, CallerState
    <2>3. caller'[MODULE_TASK].pc = pc
      BY <1>1, <2>1 DEF TaskInv, TaskTypes, CallerState
    <2>4. ModuleInStep'
      BY <2>1, <2>3 DEF ModuleInStep
    <2>5. phase' \in Phases
      BY <2>1 DEF Phases
    <2> QED BY <1>1, <2>1, <2>2, <2>4, <2>5, CallKeepsTasks
  <1>4. CASE module_removes
    <2>1. /\ phase \in {"unwinding", "stopped", "nosysfs"}
          /\ phase' \in {"unloaded", "nosysfs"}
          /\ UNCHANGED <<producer_task, thread, stopping, caller>>
      BY <1>4 DEF module_removes, Advance, taskVars
    <2>2. TaskTypes'
      BY <2>1 DEF TaskInv, TaskTypes, Phases
    <2>3. CallersInStep' /\ ModuleInStep' /\ StoppedByOwner'
      BY <2>1 DEF TaskInv, CallersInStep, ModuleInStep, StoppedByOwner
    <2>4. TasksOwned'
      BY <2>1 DEF TaskInv, TasksOwned
    <2> QED BY <2>2, <2>3, <2>4 DEF TaskInv
  <1> QED BY <1>2, <1>3, <1>4

(* No step breaks the invariant of the tasks.                              *)
LEMMA TaskStep ==
    ASSUME TaskInv, [Next]_vars
    PROVE  TaskInv'
  <1>1. CASE UNCHANGED vars
    BY <1>1, UntouchedTasks DEF vars
  <1>2. ASSUME NEW t \in Threads, producer_thread_fn(t) PROVE TaskInv'
    BY <1>2, ThreadKeepsTasks
  <1>3. ASSUME NEW c \in Callers, caller_runs(c) PROVE TaskInv'
    BY <1>3, StartKeepsTasks, SwapKeepsTasks, KillKeepsTasks, JoinKeepsTasks
       DEF caller_runs, stop_producer
  <1>4. ASSUME NEW c \in Controllers, control_store(c) PROVE TaskInv'
    <2>1. c \in Callers /\ c # MODULE_TASK /\ MODULE_TASK \in Callers
      BY KthreadAssumption DEF Callers
    <2>2. PICK pc \in {"start", "swap"} : caller' = [caller EXCEPT ![c].pc = pc]
      BY <1>4 DEF control_store
    <2>3. /\ caller[c].pc = "idle"
          /\ UNCHANGED <<phase, producer_task, thread, stopping>>
      BY <1>4 DEF control_store
    <2>4. caller'[MODULE_TASK] = caller[MODULE_TASK]
      BY <2>1, <2>2 DEF TaskInv, TaskTypes
    <2>5. ModuleInStep' /\ phase' \in Phases
      BY <2>3, <2>4 DEF TaskInv, TaskTypes, ModuleInStep
    <2> QED BY <2>1, <2>2, <2>3, <2>5, CallKeepsTasks
  <1>5. ASSUME NEW r \in Readers, reader_user(r) \/ kthread_demo_read(r)
        PROVE  TaskInv'
    BY <1>5, UntouchedTasks
       DEF reader_user, kthread_demo_read, read_drain, read_clear, read_loop,
           read_line, read_copy
  <1>6. CASE init_register \/ module_calls \/ module_removes
    BY <1>6, ModuleKeepsTasks
  <1> QED BY <1>1, <1>2, <1>3, <1>4, <1>5, <1>6 DEF Next

(* Before the module is loaded there is no task.                           *)
LEMMA NoTasksAtFirst ==
    ASSUME Init
    PROVE  TaskInv
  <1>1. /\ phase = "unloaded"
        /\ producer_task = NULL
        /\ thread = [t \in Threads |-> "none"]
        /\ stopping = {}
        /\ caller = [c \in Callers |-> NoCall]
    BY DEF Init
  <1>2. /\ NoCall \in CallerState
        /\ NoCall.pc = "idle"
        /\ NoCall.task = NULL
    BY DEF NoCall, CallerState
  <1>3. MODULE_TASK \in Callers
    BY DEF Callers
  <1> QED BY <1>1, <1>2, <1>3
         DEF TaskInv, TaskTypes, CallersInStep, ModuleInStep, TasksOwned,
             StoppedByOwner, Phases, ThreadPCs

(* Whatever writers of "control", insmod and rmmod do at the same time, a  *)
(* task in the hands of kthread_stop() exists and belongs to one caller:   *)
(* none is stopped twice, none after it is gone, and none leaves its loop  *)
(* while producer_task still points to it.                                 *)
THEOREM TasksAreOwned == Spec => [](TasksOwned /\ StoppedByOwner)
  <1>1. Init => TaskInv
    BY NoTasksAtFirst
  <1>2. TaskInv /\ [Next]_vars => TaskInv'
    BY TaskStep
  <1>3. TaskInv => TasksOwned /\ StoppedByOwner
    BY DEF TaskInv
  <1> QED BY <1>1, <1>2, <1>3, PTL DEF Spec

(* How many steps a thread takes at most before it looks at its flag and   *)
(* leaves its loop.                                                        *)
StepsLeft(pc) ==
    CASE pc = "produce" -> 3
      [] pc = "sleep"   -> 2
      [] pc = "check"   -> 1
      [] OTHER          -> 0

(* A thread that has been told to stop only gets nearer to its end; it is  *)
(* told so until it has left its loop, and then gone.                      *)
StoppedWindDown ==
    \A t \in Threads :
        t \in stopping =>
            \/ /\ t \in stopping'
               /\ \/ thread'[t] = thread[t]
                  \/ StepsLeft(thread'[t]) < StepsLeft(thread[t])
            \/ /\ t \notin stopping'
               /\ thread[t] = "exited"
               /\ thread'[t] = "none"

(* While a kthread_stop() waits, its thread ends the round it is in, with  *)
(* at most one more item, and begins no other, whatever other threads,     *)
(* writers of "control" and readers do: of the wait in stop_producer()     *)
(* this is all that is not up to the scheduler.                            *)
THEOREM StoppedThreadsWindDown == Spec => [][StoppedWindDown]_vars
  <1>1. ASSUME TaskInv, [Next]_vars PROVE StoppedWindDown
    <2> SUFFICES ASSUME NEW t \in Threads, t \in stopping
                 PROVE  \/ /\ t \in stopping'
                           /\ \/ thread'[t] = thread[t]
                              \/ StepsLeft(thread'[t]) < StepsLeft(thread[t])
                        \/ /\ t \notin stopping'
                           /\ thread[t] = "exited"
                           /\ thread'[t] = "none"
      BY DEF StoppedWindDown
    <2>1. thread \in [Threads -> ThreadPCs]
      BY <1>1 DEF TaskInv, TaskTypes
    <2>2. PICK c \in Callers : caller[c].pc = "join" /\ caller[c].task = t
      BY <1>1 DEF TaskInv, StoppedByOwner
    <2>3. t # NULL /\ thread[t] # "none"
      BY <1>1, <2>2, KthreadAssumption DEF TaskInv, TasksOwned
    <2>4. ASSUME NEW u \in Threads, producer_thread_fn(u)
          PROVE  /\ t \in stopping'
                 /\ \/ thread'[t] = thread[t]
                    \/ StepsLeft(thread'[t]) < StepsLeft(thread[t])
      <3>1. UNCHANGED stopping
        BY <2>4 DEF producer_thread_fn, producer_check, producer_produce,
                    producer_wakes
      <3>2. CASE u = t
        BY <2>1, <2>4, <3>1, <3>2
           DEF producer_thread_fn, producer_check, producer_produce,
               producer_wakes, kthread_should_stop, ThreadGoto, StepsLeft
      <3>3. CASE u # t
        BY <2>1, <2>4, <3>1, <3>3
           DEF producer_thread_fn, producer_check, producer_produce,
               producer_wakes, ThreadGoto
      <3> QED BY <3>2, <3>3
    <2>5. ASSUME NEW d \in Callers, start_producer(d)
          PROVE  t \in stopping' /\ thread'[t] = thread[t]
      BY <2>1, <2>3, <2>5
         DEF start_producer, start_creates, start_fails, ThreadGoto
    <2>6. ASSUME NEW d \in Callers, stop_swap(d) \/ stop_kill(d)
          PROVE  t \in stopping' /\ thread'[t] = thread[t]
      BY <2>6 DEF stop_swap, stop_kill
    <2>7. ASSUME NEW d \in Callers, stop_join(d)
          PROVE  \/ t \in stopping' /\ thread'[t] = thread[t]
                 \/ /\ t \notin stopping'
                    /\ thread[t] = "exited"
                    /\ thread'[t] = "none"
      BY <2>3, <2>7 DEF stop_join
    <2>8. CASE \/ \E d \in Controllers : control_store(d)
               \/ \E r \in Readers : reader_user(r) \/ kthread_demo_read(r)
               \/ init_register \/ module_calls \/ module_removes
               \/ UNCHANGED vars
      <3>1. UNCHANGED <<thread, stopping>>
        BY <2>8
           DEF control_store, reader_user, kthread_demo_read, read_drain,
               read_clear, read_loop, read_line, read_copy, init_register,
               module_calls, module_removes, taskVars, vars
      <3> QED BY <3>1
    <2> QED BY <1>1, <2>4, <2>5, <2>6, <2>7, <2>8
           DEF Next, caller_runs, stop_producer
  <1>2. TaskInv /\ [Next]_vars => StoppedWindDown
    BY <1>1
  <1>3. Init => TaskInv
    BY NoTasksAtFirst
  <1>4. TaskInv /\ [Next]_vars => TaskInv'
    BY TaskStep
  <1> QED BY <1>2, <1>3, <1>4, PTL DEF Spec

-----------------------------------------------------------------------------
(* One producer, and none after rmmod, when "control" is written only      *)
(* between the end of kthreads_init() and the start of kthreads_exit().    *)

ControlOnlyLive == ~EarlyUse /\ ~ExitControl

(* Outside "live" only insmod or rmmod can touch the task: then            *)
(* producer_task is set only until rmmod has swapped it out.               *)
UnloadInv ==
    /\ OneProducer
    /\ phase # "live" => control_idle
    /\ phase \notin {"live", "stopping"} => producer_task = NULL
    /\ caller[MODULE_TASK].pc \in {"kill", "join"} => producer_task = NULL

(* What the invariants say about a module that is neither live nor about   *)
(* to stop its thread: no task exists.                                     *)
LEMMA QuietWhenDown ==
    ASSUME TaskInv, UnloadInv, phase \notin {"live", "stopping"}
    PROVE  \A t \in Threads : thread[t] = "none"
  <1>1. \A c \in Controllers : c \in Callers /\ caller[c].pc = "idle"
    BY DEF UnloadInv, control_idle, Callers
  <1>2. caller[MODULE_TASK].pc \notin {"swap", "kill", "join"}
    BY DEF TaskInv, ModuleInStep
  <1>3. \A c \in Callers : caller[c].task = NULL
    BY <1>1, <1>2 DEF TaskInv, CallersInStep, Callers
  <1> QED BY <1>3, KthreadAssumption DEF UnloadInv, OneProducer

(* A caller that starts or stops the producer.                             *)
LEMMA CallerKeepsUnload ==
    ASSUME ControlOnlyLive, TaskInv, TaskInv', UnloadInv,
           NEW c \in Callers, caller_runs(c)
    PROVE  UnloadInv'
  <1>1. /\ caller \in [Callers -> CallerState]
        /\ thread \in [Threads -> ThreadPCs]
        /\ producer_task \in Threads \cup {NULL}
        /\ MODULE_TASK \in Callers
        /\ NULL \notin Threads
    BY KthreadAssumption DEF TaskInv, TaskTypes, Callers
  <1>2. NoCall.pc = "idle" /\ NoCall.task = NULL
    BY DEF NoCall
  <1>3. phase = "live" \/ c = MODULE_TASK
    <2>1. caller[c].pc # "idle"
      BY DEF caller_runs, start_producer, stop_producer, stop_swap,
             stop_kill, stop_join
    <2> QED BY <2>1 DEF UnloadInv, control_idle, Callers
  <1>4. \A d \in Callers : d # c => caller'[d] = caller[d]
    BY <1>1 DEF caller_runs, start_producer, stop_producer, stop_swap,
                stop_kill, stop_join, Return
  <1>5. phase # "live" => control_idle'
    BY <1>3, <1>4, KthreadAssumption DEF UnloadInv, control_idle, Callers
  <1>6. phase' # "live" => control_idle'
    <2>1. c # MODULE_TASK => phase' = phase
      BY DEF caller_runs, start_producer, stop_producer, stop_swap,
             stop_kill, stop_join
    <2>2. c = MODULE_TASK => phase # "live"
      BY DEF TaskInv, ModuleInStep, caller_runs, start_producer,
             stop_producer, stop_swap, stop_kill, stop_join
    <2> QED BY <1>5, <2>1, <2>2
  <1>7. CASE start_producer(c)
    <2>1. caller'[c] = NoCall /\ caller[c].task = NULL /\ caller[c].pc = "start"
      BY <1>1, <1>7 DEF start_producer, Return, TaskInv, CallersInStep
    <2>2. \A d \in Callers : caller'[d].task = caller[d].task
      BY <1>2, <1>4, <2>1
    <2>3. OneProducer'
      <3>1. CASE UNCHANGED <<producer_task, thread>>
        BY <2>2, <3>1 DEF UnloadInv, OneProducer
      <3>2. CASE \E t \in Threads : start_creates(t)
        BY <1>1, <2>2, <3>2
           DEF UnloadInv, OneProducer, start_creates, may_start, ThreadGoto
      <3> QED BY <1>7, <3>1, <3>2 DEF start_producer, start_fails
    <2>4. phase' \notin {"live", "stopping"} => producer_task' = NULL
      <3>1. CASE c = MODULE_TASK
        <4>1. phase = "starting" /\ producer_task = NULL
          BY <2>1, <3>1 DEF TaskInv, ModuleInStep, UnloadInv
        <4> QED BY <1>7, <3>1, <4>1 DEF start_producer, start_fails
      <3>2. CASE c # MODULE_TASK
        BY <1>3, <1>7, <3>2 DEF start_producer
      <3> QED BY <3>1, <3>2
    <2>5. caller'[MODULE_TASK].pc \in {"kill", "join"} => producer_task' = NULL
      <3>1. CASE c = MODULE_TASK
        BY <1>2, <2>1, <3>1
      <3>2. CASE c # MODULE_TASK
        <4>1. phase = "live" /\ caller'[MODULE_TASK] = caller[MODULE_TASK]
          BY <1>1, <1>3, <1>4, <3>2
        <4> QED BY <4>1 DEF TaskInv, ModuleInStep
      <3> QED BY <3>1, <3>2
    <2> QED BY <1>6, <2>3, <2>4, <2>5 DEF UnloadInv
  <1>8. CASE stop_swap(c)
    <2>1. producer_task' = NULL /\ thread' = thread /\ phase' = phase
      BY <1>8 DEF stop_swap
    <2>2. caller'[c].task = producer_task /\ caller[c].task = NULL
      BY <1>1, <1>8 DEF stop_swap, NoCall, TaskInv, CallersInStep
    <2>3. OneProducer'
      BY <1>1, <1>4, <2>1, <2>2 DEF UnloadInv, OneProducer
    <2> QED BY <1>6, <2>1, <2>3 DEF UnloadInv
  <1>9. CASE stop_kill(c)
    <2>1. /\ UNCHANGED <<phase, producer_task, thread>>
          /\ caller[c].pc = "kill"
          /\ caller'[c].task = caller[c].task
      BY <1>1, <1>9 DEF stop_kill
    <2>2. OneProducer'
      BY <1>4, <2>1 DEF UnloadInv, OneProducer
    <2> QED BY <1>1, <1>4, <1>6, <2>1, <2>2 DEF UnloadInv
  <1>10. CASE stop_join(c)
    <2>1. /\ producer_task' = producer_task
          /\ caller'[c] = NoCall
          /\ caller[c].pc = "join"
          /\ thread' = [t \in Threads |->
                           IF t = caller[c].task THEN "none" ELSE thread[t]]
          /\ phase' = IF c = MODULE_TASK THEN "stopped" ELSE phase
      BY <1>1, <1>10 DEF stop_join, Return
    <2>2. OneProducer'
      BY <1>1, <1>4, <2>1 DEF UnloadInv, OneProducer
    <2> QED BY <1>1, <1>2, <1>3, <1>4, <1>6, <2>1, <2>2 DEF UnloadInv
  <1> QED BY <1>7, <1>8, <1>9, <1>10 DEF caller_runs, stop_producer

(* No step breaks it.                                                      *)
LEMMA UnloadStep ==
    ASSUME ControlOnlyLive, TaskInv, TaskInv', UnloadInv, [Next]_vars
    PROVE  UnloadInv'
  <1>1. ASSUME UNCHANGED <<phase, taskVars>> PROVE UnloadInv'
    BY <1>1 DEF UnloadInv, OneProducer, control_idle, taskVars
  <1>2. ASSUME NEW t \in Threads, producer_thread_fn(t) PROVE UnloadInv'
    <2>1. /\ UNCHANGED <<phase, producer_task, caller>>
          /\ thread[t] # "none"
          /\ \A u \in Threads : u # t => thread'[u] = thread[u]
      BY <1>2 DEF producer_thread_fn, producer_check, producer_produce,
                  producer_wakes, ThreadGoto, TaskInv, TaskTypes
    <2> QED BY <2>1 DEF UnloadInv, OneProducer, control_idle
  <1>3. ASSUME NEW c \in Callers, caller_runs(c) PROVE UnloadInv'
    BY <1>3, CallerKeepsUnload
  <1>4. ASSUME NEW c \in Controllers, control_store(c) PROVE UnloadInv'
    <2>1. c \in Callers /\ c # MODULE_TASK /\ MODULE_TASK \in Callers
      BY KthreadAssumption DEF Callers
    <2>2. phase = "live"
      BY <1>4 DEF control_store, SysfsWritable, FilesUsable, ControlOnlyLive
    <2>3. /\ UNCHANGED <<phase, producer_task, thread>>
          /\ \A d \in Callers : caller'[d].task = caller[d].task
          /\ caller'[MODULE_TASK] = caller[MODULE_TASK]
      BY <1>4, <2>1 DEF control_store, TaskInv, TaskTypes, CallerState
    <2>4. OneProducer'
      BY <2>3 DEF UnloadInv, OneProducer
    <2> QED BY <2>2, <2>3, <2>4 DEF UnloadInv
  <1>5. ASSUME NEW r \in Readers, reader_user(r) \/ kthread_demo_read(r)
        PROVE  UnloadInv'
    BY <1>1, <1>5
       DEF reader_user, kthread_demo_read, read_drain, read_clear, read_loop,
           read_line, read_copy
  <1>6. CASE init_register
    <2>1. /\ phase = "unloaded" /\ phase' = "registered"
          /\ producer_task' = NULL
          /\ UNCHANGED <<thread, caller>>
      BY <1>6 DEF init_register, Advance
    <2>2. \A t \in Threads : thread[t] = "none"
      BY <2>1, QuietWhenDown
    <2> QED BY <2>1, <2>2 DEF UnloadInv, OneProducer, control_idle
  <1>7. CASE module_calls
    <2>1. /\ MODULE_TASK \in Callers
          /\ \A d \in Controllers : d \in Callers /\ d # MODULE_TASK
      BY KthreadAssumption DEF Callers
    <2>2. /\ UNCHANGED <<producer_task, thread>>
          /\ \A d \in Callers : caller'[d].task = caller[d].task
          /\ \A d \in Controllers : caller'[d] = caller[d]
          /\ caller'[MODULE_TASK].pc \in {"start", "swap"}
      BY <1>7, <2>1 DEF module_calls, TaskInv, TaskTypes, CallerState
    <2>3. OneProducer'
      BY <2>2 DEF UnloadInv, OneProducer
    <2>4. control_idle'
      BY <1>7, <2>2
         DEF module_calls, Advance, control_idle, UnloadInv, ControlOnlyLive
    <2>5. phase' \notin {"live", "stopping"} => producer_task' = NULL
      BY <1>7, <2>2 DEF module_calls, Advance, UnloadInv
    <2> QED BY <2>2, <2>3, <2>4, <2>5 DEF UnloadInv
  <1>8. CASE module_removes
    <2>1. /\ phase \in {"unwinding", "stopped", "nosysfs"}
          /\ phase' \in {"unloaded", "nosysfs"}
          /\ UNCHANGED <<producer_task, thread, stopping, caller>>
      BY <1>8 DEF module_removes, Advance, taskVars
    <2> QED BY <2>1 DEF UnloadInv, OneProducer, control_idle
  <1> QED BY <1>1, <1>2, <1>3, <1>4, <1>5, <1>6, <1>7, <1>8 DEF Next, vars

(* With writes of "control" confined to the live module, both invariants   *)
(* hold in every reachable state.                                          *)
LEMMA UnloadInductive ==
    ASSUME ControlOnlyLive
    PROVE  Spec => [](TaskInv /\ UnloadInv)
  <1>1. Init => TaskInv /\ UnloadInv
    <2>1. NoCall.pc = "idle" /\ NoCall.task = NULL
      BY DEF NoCall
    <2> QED BY <2>1, NoTasksAtFirst
           DEF Init, UnloadInv, OneProducer, control_idle, Callers
  <1>2. TaskInv /\ UnloadInv /\ [Next]_vars => (TaskInv /\ UnloadInv)'
    BY TaskStep, UnloadStep
  <1> QED BY <1>1, <1>2, PTL DEF Spec

(* producer_task, its lock and kthread_stop() keep one producer at a time: *)
(* a second thread exists only while a stop_producer() waits for it, for   *)
(* any number of writers of "control".                                     *)
THEOREM ThereIsOneProducer ==
    ASSUME ControlOnlyLive
    PROVE  Spec => []OneProducer
  <1>1. UnloadInv => OneProducer
    BY DEF UnloadInv
  <1> QED BY <1>1, UnloadInductive, PTL

(* rmmod waits for the thread: none runs the module's code once it is      *)
(* unloaded, and a failed insmod leaves none behind.                       *)
THEOREM NoThreadIsLeft ==
    ASSUME ControlOnlyLive
    PROVE  Spec => []NoThreadAfterUnload
  <1>1. TaskInv /\ UnloadInv => NoThreadAfterUnload
    BY QuietWhenDown DEF NoThreadAfterUnload
  <1> QED BY <1>1, UnloadInductive, PTL

-----------------------------------------------------------------------------
(* The buffer that all readers share.                                      *)

ReaderPCs == {"closed", "open", "drain", "clear", "loop", "line", "copy"}

ReaderState ==
    [pc : ReaderPCs, items : Seq(Nat), i : Nat, at : Nat, pos : Nat]

(* A line is formatted at a place inside snapshot_buf and from an item of  *)
(* the reader's own copy, although snapshot_len may have been changed by   *)
(* another reader after it was loaded.                                     *)
WritesInBounds ==
    \A r \in Readers :
        reader[r].pc = "line" =>
            /\ reader[r].at \in Lines
            /\ reader[r].i < Len(reader[r].items)

SnapshotInv ==
    /\ snapshot_buf \in [Lines -> Nat]
    /\ snapshot_len \in 0..SnapshotLines
    /\ reader \in [Readers -> ReaderState]
    /\ WritesInBounds

(* What a read drains from the ring is a sequence of item numbers.         *)
LEMMA ItemsAreSeq ==
    ASSUME RingInv
    PROVE  ring_items \in Seq(Nat) /\ Len(ring_items) = ring_count
  <1>1. /\ RING_SIZE \in Nat \ {0}
        /\ ring \in [Slots -> Nat]
        /\ ring_count \in 0..RING_SIZE
        /\ next_seq \in Nat
        /\ ring_head = next_seq % RING_SIZE
    BY KthreadAssumption DEF RingInv, RingTypes, HeadIsNextSlot
  <1>2. ring_start \in Int
    <2>1. ring_head \in 0..(RING_SIZE - 1)
      BY <1>1, Division
    <2>2. (ring_head + RING_SIZE - ring_count) \in Int
      BY <1>1, <2>1
    <2> QED BY <1>1, <2>2, Division DEF ring_start
  <1>3. ASSUME NEW i \in 1..ring_count
        PROVE  ring[(ring_start + i - 1) % RING_SIZE] \in Nat
    <2>1. (ring_start + i - 1) \in Int
      BY <1>1, <1>2
    <2>2. ((ring_start + i - 1) % RING_SIZE) \in Slots
      BY <1>1, <2>1, Division DEF Slots
    <2> QED BY <1>1, <2>2
  <1>4. ring_items \in [1..ring_count -> Nat]
    BY <1>3 DEF ring_items
  <1> QED BY <1>1, <1>4

(* A reader that moves on with a record of the right type.                 *)
LEMMA ReaderMoves ==
    ASSUME SnapshotInv, NEW r \in Readers, NEW new \in ReaderState,
           ReaderSet(r, new),
           new.pc = "line" => new.at \in Lines /\ new.i < Len(new.items)
    PROVE  reader' \in [Readers -> ReaderState] /\ WritesInBounds'
  <1>1. /\ reader' \in [Readers -> ReaderState]
        /\ reader'[r] = new
        /\ \A q \in Readers : q # r => reader'[q] = reader[q]
    BY DEF SnapshotInv, ReaderSet
  <1> QED BY <1>1 DEF SnapshotInv, WritesInBounds

(* One step of a reader.                                                   *)
LEMMA ReadKeepsSnapshot ==
    ASSUME RingInv, SnapshotInv, NEW r \in Readers,
           reader_user(r) \/ kthread_demo_read(r)
    PROVE  SnapshotInv'
  <1> DEFINE me == reader[r]
  <1>1. /\ me \in ReaderState
        /\ SnapshotLines \in Nat \ {0}
        /\ snapshot_len \in 0..SnapshotLines
        /\ snapshot_buf \in [Lines -> Nat]
    BY KthreadAssumption DEF SnapshotInv
  <1>2. NoFile \in ReaderState /\ NoFile.pc = "closed"
    BY DEF NoFile, ReaderState, ReaderPCs
  <1>3. /\ "open" \in ReaderPCs /\ "drain" \in ReaderPCs
        /\ "clear" \in ReaderPCs /\ "loop" \in ReaderPCs
        /\ "line" \in ReaderPCs /\ "copy" \in ReaderPCs
    BY DEF ReaderPCs
  <1> HIDE DEF me
  <1>4. CASE reader_user(r)
    <2>1. PICK new \in ReaderState : ReaderSet(r, new) /\ new.pc # "line"
      <3>1. CASE ReaderSet(r, [NoFile EXCEPT !.pc = "open"])
        <4>1. PICK new : new = [NoFile EXCEPT !.pc = "open"]
          OBVIOUS
        <4>2. new \in ReaderState /\ new.pc = "open"
          BY <1>2, <1>3, <4>1 DEF ReaderState
        <4> QED BY <3>1, <4>1, <4>2
      <3>2. CASE ReaderSet(r, NoFile)
        BY <1>2, <3>2
      <3>3. CASE \E p \in {"drain", "copy"} : ReaderSet(r, [me EXCEPT !.pc = p])
        <4>1. PICK p \in {"drain", "copy"} : ReaderSet(r, [me EXCEPT !.pc = p])
          BY <3>3
        <4>2. PICK new : new = [me EXCEPT !.pc = p]
          OBVIOUS
        <4>3. new \in ReaderState /\ new.pc = p
          BY <1>1, <1>3, <4>2 DEF ReaderState
        <4> QED BY <4>1, <4>2, <4>3
      <3> QED BY <1>4, <3>1, <3>2, <3>3 DEF reader_user, me
    <2>2. UNCHANGED <<snapshot_buf, snapshot_len>>
      BY <1>4 DEF reader_user, snapshotVars
    <2> QED BY <2>1, <2>2, ReaderMoves DEF SnapshotInv
  <1>5. CASE read_drain(r)
    <2>1. PICK new : new = [NoFile EXCEPT !.pc = "clear", !.items = ring_items]
      OBVIOUS
    <2>2. new \in ReaderState /\ new.pc = "clear"
      BY <1>2, <1>3, <2>1, ItemsAreSeq DEF ReaderState
    <2>3. ReaderSet(r, new) /\ UNCHANGED <<snapshot_buf, snapshot_len>>
      BY <1>5, <2>1 DEF read_drain, snapshotVars
    <2> QED BY <2>2, <2>3, ReaderMoves DEF SnapshotInv
  <1>6. CASE read_clear(r)
    <2>1. PICK new : new = [me EXCEPT !.pc = "loop"]
      OBVIOUS
    <2>2. new \in ReaderState /\ new.pc = "loop"
      BY <1>1, <1>3, <2>1 DEF ReaderState
    <2>3. /\ ReaderSet(r, new)
          /\ snapshot_len' = 0
          /\ snapshot_buf' = snapshot_buf
      BY <1>6, <2>1 DEF read_clear, snapshot_empty, me
    <2> QED BY <1>1, <2>2, <2>3, ReaderMoves DEF SnapshotInv
  <1>7. CASE read_loop(r)
    <2>1. UNCHANGED <<snapshot_buf, snapshot_len>>
      BY <1>7 DEF read_loop, snapshotVars
    <2>2. CASE me.i < Len(me.items) /\ snapshot_len < SnapshotLines
      <3>1. PICK new : new = [me EXCEPT !.pc = "line", !.at = snapshot_len]
        OBVIOUS
      <3>2. snapshot_len \in Nat /\ snapshot_len \in Lines
        BY <1>1, <2>2 DEF Lines
      <3>3. /\ new \in ReaderState
            /\ new.at = snapshot_len
            /\ new.i = me.i
            /\ new.items = me.items
        BY <1>1, <1>3, <3>1, <3>2 DEF ReaderState
      <3>4. ReaderSet(r, new)
        BY <1>7, <2>2, <3>1 DEF read_loop, me
      <3> QED BY <2>1, <2>2, <3>2, <3>3, <3>4, ReaderMoves DEF SnapshotInv
    <2>3. CASE ~(me.i < Len(me.items) /\ snapshot_len < SnapshotLines)
      <3>1. PICK new : new = [me EXCEPT !.pc = "copy"]
        OBVIOUS
      <3>2. new \in ReaderState /\ new.pc = "copy"
        BY <1>1, <1>3, <3>1 DEF ReaderState
      <3>3. ReaderSet(r, new)
        BY <1>7, <2>3, <3>1 DEF read_loop, me
      <3> QED BY <2>1, <3>2, <3>3, ReaderMoves DEF SnapshotInv
    <2> QED BY <2>2, <2>3
  <1>8. CASE read_line(r)
    <2>1. PICK new : new = [me EXCEPT !.pc = "loop", !.i = me.i + 1]
      OBVIOUS
    <2>2. /\ ReaderSet(r, new)
          /\ snapshot_buf' = [snapshot_buf EXCEPT ![me.at] = me.items[me.i + 1]]
          /\ snapshot_len' = me.at + 1
          /\ me.pc = "line"
      BY <1>8, <2>1 DEF read_line, me
    <2>3. /\ me.at \in Lines
          /\ me.i \in Nat /\ me.items \in Seq(Nat) /\ me.i < Len(me.items)
      BY <1>1, <2>2 DEF SnapshotInv, WritesInBounds, ReaderState, me
    <2>4. new \in ReaderState /\ new.pc = "loop"
      <3>1. me.i + 1 \in Nat
        BY <2>3
      <3> QED BY <1>1, <1>3, <2>1, <3>1 DEF ReaderState
    <2>5. me.items[me.i + 1] \in Nat
      BY <2>3
    <2>6. snapshot_buf' \in [Lines -> Nat]
      BY <1>1, <2>2, <2>3, <2>5
    <2>7. snapshot_len' \in 0..SnapshotLines
      <3>1. \A at \in Lines : at + 1 \in 0..SnapshotLines
        BY KthreadAssumption DEF Lines
      <3> QED BY <2>2, <2>3, <3>1, Zenon
    <2> QED BY <2>2, <2>4, <2>6, <2>7, ReaderMoves DEF SnapshotInv
  <1>9. CASE read_copy(r)
    <2>1. PICK pos \in {me.pos} \cup me.pos..snapshot_len :
             ReaderSet(r, [NoFile EXCEPT !.pc = "open", !.pos = pos])
      BY <1>9 DEF read_copy, me
    <2>2. PICK new : new = [NoFile EXCEPT !.pc = "open", !.pos = pos]
      OBVIOUS
    <2>3. new \in ReaderState /\ new.pc = "open"
      <3>1. pos \in Nat
        BY <1>1 DEF ReaderState
      <3> QED BY <1>2, <1>3, <2>2, <3>1 DEF ReaderState
    <2>4. ReaderSet(r, new) /\ UNCHANGED <<snapshot_buf, snapshot_len>>
      BY <1>9, <2>2, <2>1 DEF read_copy, snapshotVars
    <2> QED BY <2>3, <2>4, ReaderMoves DEF SnapshotInv
  <1> QED BY <1>4, <1>5, <1>6, <1>7, <1>8, <1>9 DEF kthread_demo_read

(* No step breaks it.                                                      *)
LEMMA SnapshotStep ==
    ASSUME RingInv, SnapshotInv, [Next]_vars
    PROVE  SnapshotInv'
  <1>1. ASSUME UNCHANGED readVars PROVE SnapshotInv'
    BY <1>1 DEF SnapshotInv, WritesInBounds, readVars, snapshotVars
  <1>2. ASSUME NEW t \in Threads, producer_thread_fn(t) PROVE SnapshotInv'
    BY <1>1, <1>2
       DEF producer_thread_fn, producer_check, producer_produce, producer_wakes
  <1>3. ASSUME NEW c \in Callers, caller_runs(c) PROVE SnapshotInv'
    BY <1>1, <1>3
       DEF caller_runs, start_producer, stop_producer, stop_swap, stop_kill,
           stop_join
  <1>4. ASSUME NEW c \in Controllers, control_store(c) PROVE SnapshotInv'
    BY <1>1, <1>4 DEF control_store
  <1>5. ASSUME NEW r \in Readers, reader_user(r) \/ kthread_demo_read(r)
        PROVE  SnapshotInv'
    BY <1>5, ReadKeepsSnapshot
  <1>6. CASE init_register
    <2>1. /\ snapshot_buf' = [i \in Lines |-> 0]
          /\ snapshot_len' = 0
          /\ reader' = reader
      BY <1>6 DEF init_register
    <2> QED BY <2>1, KthreadAssumption DEF SnapshotInv, WritesInBounds
  <1>7. CASE module_calls \/ module_removes
    BY <1>1, <1>7 DEF module_calls, module_removes
  <1> QED BY <1>1, <1>2, <1>3, <1>4, <1>5, <1>6, <1>7 DEF Next, vars

(* kthread_demo_read() is not serialised, and still no interleaving of     *)
(* readers, producers and callers writes outside snapshot_buf or the ring, *)
(* reads an item that was not drained, or gives a variable a value outside *)
(* its type.                                                               *)
THEOREM RacingReadersInBounds == Spec => [](TypeOK /\ WritesInBounds)
  <1>1. Init => RingInv /\ TaskInv /\ SnapshotInv
    <2>1. Init => SnapshotInv
      <3>1. NoFile \in ReaderState /\ NoFile.pc = "closed"
        BY DEF NoFile, ReaderState, ReaderPCs
      <3> QED BY <3>1, KthreadAssumption DEF Init, SnapshotInv, WritesInBounds
    <2> QED BY <2>1, FreshRing, NoTasksAtFirst DEF Init
  <1>2. RingInv /\ TaskInv /\ SnapshotInv /\ [Next]_vars
            => (RingInv /\ TaskInv /\ SnapshotInv)'
    BY RingStep, TaskStep, SnapshotStep
  <1>3. RingInv /\ TaskInv /\ SnapshotInv => TypeOK /\ WritesInBounds
    <2> SUFFICES ASSUME RingInv, TaskInv, SnapshotInv PROVE TypeOK
      BY DEF SnapshotInv
    <2>1. ring_head \in Slots
      BY KthreadAssumption, Division
         DEF RingInv, RingTypes, HeadIsNextSlot, Slots
    <2> QED BY <2>1 DEF TypeOK, RingInv, RingTypes, TaskInv, TaskTypes, SnapshotInv
  <1> QED BY <1>1, <1>2, <1>3, PTL DEF Spec

-----------------------------------------------------------------------------
(* One reader at a time gets what it has drained.                          *)

(* One process reads, after kthreads_init() has returned, and the buffer   *)
(* holds a full ring: the 640 bytes of SNAPSHOT_BUF_SIZE are enough for 16 *)
(* lines while the two numbers of an item have at most 30 digits together. *)
LoneReader ==
    /\ ~EarlyUse
    /\ \A q, r \in Readers : q = r
    /\ RING_SIZE <= SnapshotLines

(* The first me.i lines of the buffer are the reader's own.                *)
Formatted(me, buf, len) ==
    /\ len = me.i
    /\ me.i <= Len(me.items)
    /\ \A j \in 1..me.i : buf[j - 1] = me.items[j]

ReadOK(me, buf, len) ==
    /\ Len(me.items) <= RING_SIZE
    /\ me.pc \in {"open", "drain", "clear"} => me.i = 0
    /\ me.pc \in {"loop", "line"} => Formatted(me, buf, len)
    /\ me.pc = "line" => me.at = me.i
    /\ me.pc = "copy" /\ me.pos = 0 =>
           Formatted(me, buf, len) /\ me.i = Len(me.items)

ReadersOnlyLive ==
    phase # "live" => \A r \in Readers : reader[r].pc = "closed"

ReadInv ==
    /\ ReadersOnlyLive
    /\ \A r \in Readers : ReadOK(reader[r], snapshot_buf, snapshot_len)

(* A step of the only reader keeps the invariant if its new record fits.   *)
LEMMA LoneReaderMoves ==
    ASSUME LoneReader, SnapshotInv, ReadInv, NEW r \in Readers, NEW new,
           ReaderSet(r, new),
           phase' = phase,
           phase = "live",
           ReadOK(new, snapshot_buf', snapshot_len')
    PROVE  ReadInv'
  <1>1. reader'[r] = new
    BY DEF SnapshotInv, ReaderSet
  <1>2. ReadersOnlyLive'
    BY DEF ReadersOnlyLive
  <1>3. \A q \in Readers : q = r
    BY DEF LoneReader
  <1>4. \A q \in Readers : ReadOK(reader'[q], snapshot_buf', snapshot_len')
    BY <1>1, <1>3
  <1> QED BY <1>2, <1>4 DEF ReadInv, ReadOK, Formatted

(* One step of the only reader.                                            *)
LEMMA LoneReadStep ==
    ASSUME LoneReader, RingInv, SnapshotInv, ReadInv, NEW r \in Readers,
           reader_user(r) \/ kthread_demo_read(r)
    PROVE  ReadInv'
  <1> DEFINE me == reader[r]
  <1>1. /\ me \in ReaderState
        /\ SnapshotLines \in Nat \ {0}
        /\ RING_SIZE \in Nat \ {0}
        /\ RING_SIZE <= SnapshotLines
        /\ snapshot_len \in 0..SnapshotLines
        /\ snapshot_buf \in [Lines -> Nat]
        /\ me.i \in Nat
        /\ me.items \in Seq(Nat)
        /\ Len(me.items) \in Nat
    BY KthreadAssumption DEF SnapshotInv, LoneReader, ReaderState
  <1>2. ReadOK(me, snapshot_buf, snapshot_len)
    BY DEF ReadInv
  <1>3. /\ Len(NoFile.items) = 0
        /\ NoFile.i = 0
        /\ NoFile.pc = "closed"
        /\ NoFile \in ReaderState
    BY DEF NoFile, ReaderState, ReaderPCs
  <1>4. phase = "live" /\ phase' = phase
    <2>1. me.pc = "closed" => FilesUsable
      BY DEF reader_user, kthread_demo_read, read_drain, read_clear,
             read_loop, read_line, read_copy
    <2>2. phase = "live"
      BY <2>1 DEF ReadInv, ReadersOnlyLive, FilesUsable, LoneReader
    <2> QED BY <2>2 DEF reader_user, kthread_demo_read, read_drain,
               read_clear, read_loop, read_line, read_copy
  <1> HIDE DEF me
  <1>5. CASE reader_user(r)
    <2>1. UNCHANGED <<snapshot_buf, snapshot_len>>
      BY <1>5 DEF reader_user, snapshotVars
    <2>2. CASE ReaderSet(r, [NoFile EXCEPT !.pc = "open"])
      <3>1. PICK new : new = [NoFile EXCEPT !.pc = "open"]
        OBVIOUS
      <3>2. new.pc = "open" /\ Len(new.items) = 0 /\ new.i = 0
        BY <1>3, <3>1 DEF ReaderState
      <3>3. ReadOK(new, snapshot_buf', snapshot_len')
        BY <1>1, <3>2 DEF ReadOK
      <3> QED BY <1>4, <2>2, <3>1, <3>3, LoneReaderMoves
    <2>3. CASE ReaderSet(r, NoFile)
      <3>1. ReadOK(NoFile, snapshot_buf', snapshot_len')
        BY <1>1, <1>3 DEF ReadOK
      <3> QED BY <1>4, <2>3, <3>1, LoneReaderMoves
    <2>4. CASE /\ me.pc = "open"
               /\ ReaderSet(r, [me EXCEPT !.pc =
                                   IF me.pos = 0 THEN "drain" ELSE "copy"])
      <3>1. PICK new : new = [me EXCEPT !.pc =
                                 IF me.pos = 0 THEN "drain" ELSE "copy"]
        OBVIOUS
      <3>2. /\ new.pc = IF me.pos = 0 THEN "drain" ELSE "copy"
            /\ new.pos = me.pos /\ new.items = me.items /\ new.i = me.i
        BY <1>1, <3>1 DEF ReaderState
      <3>3. ReadOK(new, snapshot_buf', snapshot_len')
        BY <1>1, <1>2, <2>4, <3>2 DEF ReadOK
      <3> QED BY <1>4, <2>4, <3>1, <3>3, LoneReaderMoves
    <2> QED BY <1>5, <2>2, <2>3, <2>4 DEF reader_user, me
  <1>6. CASE read_drain(r)
    <2>1. PICK new : new = [NoFile EXCEPT !.pc = "clear", !.items = ring_items]
      OBVIOUS
    <2>2. ring_items \in Seq(Nat) /\ Len(ring_items) = ring_count
      BY ItemsAreSeq
    <2>3. new.pc = "clear" /\ new.items = ring_items /\ new.i = 0
      BY <1>3, <2>1 DEF ReaderState
    <2>4. ReadOK(new, snapshot_buf', snapshot_len')
      BY <1>1, <2>2, <2>3 DEF ReadOK, RingInv, RingTypes
    <2>5. ReaderSet(r, new)
      BY <1>6, <2>1 DEF read_drain
    <2> QED BY <1>4, <2>4, <2>5, LoneReaderMoves
  <1>7. CASE read_clear(r)
    <2>1. PICK new : new = [me EXCEPT !.pc = "loop"]
      OBVIOUS
    <2>2. new.pc = "loop" /\ new.items = me.items /\ new.i = me.i
      BY <1>1, <2>1 DEF ReaderState
    <2>3. /\ me.pc = "clear"
          /\ ReaderSet(r, new)
          /\ snapshot_len' = 0
      BY <1>7, <2>1 DEF read_clear, snapshot_empty, me
    <2>4. ReadOK(new, snapshot_buf', snapshot_len')
      BY <1>1, <1>2, <2>2, <2>3 DEF ReadOK, Formatted
    <2> QED BY <1>4, <2>3, <2>4, LoneReaderMoves
  <1>8. CASE read_loop(r)
    <2>1. UNCHANGED <<snapshot_buf, snapshot_len>> /\ me.pc = "loop"
      BY <1>8 DEF read_loop, snapshotVars, me
    <2>2. Formatted(me, snapshot_buf, snapshot_len) /\ Len(me.items) <= RING_SIZE
      BY <1>2, <2>1 DEF ReadOK
    <2>3. CASE me.i < Len(me.items) /\ snapshot_len < SnapshotLines
      <3>1. PICK new : new = [me EXCEPT !.pc = "line", !.at = snapshot_len]
        OBVIOUS
      <3>2. /\ new.pc = "line" /\ new.at = snapshot_len
            /\ new.items = me.items /\ new.i = me.i
        BY <1>1, <3>1 DEF ReaderState
      <3>3. ReadOK(new, snapshot_buf', snapshot_len')
        BY <1>1, <2>1, <2>2, <3>2 DEF ReadOK, Formatted
      <3>4. ReaderSet(r, new)
        BY <1>8, <2>3, <3>1 DEF read_loop, me
      <3> QED BY <1>4, <3>3, <3>4, LoneReaderMoves
    <2>4. CASE ~(me.i < Len(me.items) /\ snapshot_len < SnapshotLines)
      <3>1. PICK new : new = [me EXCEPT !.pc = "copy"]
        OBVIOUS
      <3>2. new.pc = "copy" /\ new.items = me.items /\ new.i = me.i
        BY <1>1, <3>1 DEF ReaderState
      <3>3. me.i = Len(me.items)
        BY <1>1, <2>2, <2>4 DEF Formatted
      <3>4. ReadOK(new, snapshot_buf', snapshot_len')
        BY <1>1, <2>1, <2>2, <3>2, <3>3 DEF ReadOK, Formatted
      <3>5. ReaderSet(r, new)
        BY <1>8, <2>4, <3>1 DEF read_loop, me
      <3> QED BY <1>4, <3>4, <3>5, LoneReaderMoves
    <2> QED BY <2>3, <2>4
  <1>9. CASE read_line(r)
    <2>1. PICK new : new = [me EXCEPT !.pc = "loop", !.i = me.i + 1]
      OBVIOUS
    <2>2. new.pc = "loop" /\ new.items = me.items /\ new.i = me.i + 1
      BY <1>1, <2>1 DEF ReaderState
    <2>3. /\ me.pc = "line"
          /\ ReaderSet(r, new)
          /\ snapshot_buf' = [snapshot_buf EXCEPT ![me.at] = me.items[me.i + 1]]
          /\ snapshot_len' = me.at + 1
      BY <1>9, <2>1 DEF read_line, me
    <2>4. me.at \in Lines /\ me.i < Len(me.items)
      BY <2>3 DEF SnapshotInv, WritesInBounds, me
    <2>5. /\ Formatted(me, snapshot_buf, snapshot_len)
          /\ me.at = me.i
          /\ Len(me.items) <= RING_SIZE
      BY <1>2, <2>3 DEF ReadOK
    <2>6. ASSUME NEW j \in 1..(me.i + 1)
          PROVE  snapshot_buf'[j - 1] = me.items[j]
      <3>1. CASE j = me.i + 1
        BY <1>1, <2>3, <2>4, <2>5, <3>1
      <3>2. CASE j \in 1..me.i
        <4>1. snapshot_buf[j - 1] = me.items[j]
          BY <2>5, <3>2 DEF Formatted
        <4>2. j - 1 # me.at
          BY <1>1, <2>5, <3>2
        <4>3. snapshot_buf'[j - 1] = snapshot_buf[j - 1]
          BY <1>1, <2>3, <2>4, <2>5, <3>2, <4>2 DEF Lines
        <4> QED BY <4>1, <4>3
      <3> QED BY <1>1, <3>1, <3>2
    <2>7. Formatted(new, snapshot_buf', snapshot_len')
      BY <1>1, <2>2, <2>3, <2>4, <2>5, <2>6 DEF Formatted
    <2>8. ReadOK(new, snapshot_buf', snapshot_len')
      BY <2>2, <2>5, <2>7 DEF ReadOK
    <2> QED BY <1>4, <2>3, <2>8, LoneReaderMoves
  <1>10. CASE read_copy(r)
    <2>1. PICK pos : ReaderSet(r, [NoFile EXCEPT !.pc = "open", !.pos = pos])
      BY <1>10 DEF read_copy
    <2>2. PICK new : new = [NoFile EXCEPT !.pc = "open", !.pos = pos]
      OBVIOUS
    <2>3. new.pc = "open" /\ Len(new.items) = 0 /\ new.i = 0
      BY <1>3, <2>2 DEF ReaderState
    <2>4. ReadOK(new, snapshot_buf', snapshot_len')
      BY <1>1, <2>3 DEF ReadOK
    <2> QED BY <1>4, <2>1, <2>2, <2>4, LoneReaderMoves
  <1> QED BY <1>5, <1>6, <1>7, <1>8, <1>9, <1>10 DEF kthread_demo_read

(* No step breaks it.                                                      *)
LEMMA ReadStep ==
    ASSUME LoneReader, RingInv, TaskInv, SnapshotInv, ReadInv, [Next]_vars
    PROVE  ReadInv'
  <1>1. ASSUME UNCHANGED readVars, phase' # "live" => ReadersOnlyLive'
        PROVE  ReadInv'
    BY <1>1 DEF ReadInv, ReadersOnlyLive, ReadOK, Formatted, readVars,
                snapshotVars
  <1>2. ASSUME UNCHANGED <<phase, readVars>> PROVE ReadInv'
    BY <1>1, <1>2 DEF ReadInv, ReadersOnlyLive, readVars
  <1>3. ASSUME NEW t \in Threads, producer_thread_fn(t) PROVE ReadInv'
    BY <1>2, <1>3
       DEF producer_thread_fn, producer_check, producer_produce, producer_wakes
  <1>4. ASSUME NEW c \in Callers, caller_runs(c) PROVE ReadInv'
    <2>1. UNCHANGED readVars
      BY <1>4 DEF caller_runs, start_producer, stop_producer, stop_swap,
                  stop_kill, stop_join
    <2>2. phase' = phase \/ phase # "live"
      BY <1>4 DEF caller_runs, start_producer, stop_producer, stop_swap,
                  stop_kill, stop_join, TaskInv, ModuleInStep
    <2> QED BY <1>1, <2>1, <2>2 DEF ReadInv, ReadersOnlyLive, readVars
  <1>5. ASSUME NEW c \in Controllers, control_store(c) PROVE ReadInv'
    BY <1>2, <1>5 DEF control_store
  <1>6. ASSUME NEW r \in Readers, reader_user(r) \/ kthread_demo_read(r)
        PROVE  ReadInv'
    BY <1>6, LoneReadStep
  <1>7. CASE init_register
    <2>1. /\ phase = "unloaded" /\ phase' = "registered"
          /\ reader' = reader
      BY <1>7 DEF init_register, Advance
    <2>2. \A r \in Readers : reader'[r].pc = "closed"
      BY <2>1 DEF ReadInv, ReadersOnlyLive
    <2> QED BY <2>1, <2>2 DEF ReadInv, ReadersOnlyLive, ReadOK
  <1>8. CASE module_calls
    <2>1. UNCHANGED readVars
      BY <1>8 DEF module_calls
    <2>2. \A r \in Readers : reader[r].pc = "closed"
      BY <1>8 DEF module_calls, Advance, ReadInv, ReadersOnlyLive
    <2> QED BY <1>1, <2>1, <2>2 DEF ReadersOnlyLive, readVars
  <1>9. CASE module_removes
    <2>1. UNCHANGED readVars /\ phase # "live"
      BY <1>9 DEF module_removes, Advance
    <2> QED BY <1>1, <2>1 DEF ReadInv, ReadersOnlyLive, readVars
  <1> QED BY <1>2, <1>3, <1>4, <1>5, <1>6, <1>7, <1>8, <1>9 DEF Next, vars

(* A lone reader gets exactly the items that its read has drained, in      *)
(* order, although the producer goes on filling the ring meanwhile.        *)
THEOREM LoneReaderGetsItems ==
    ASSUME LoneReader
    PROVE  Spec => []ReadReturnsDrained
  <1> DEFINE Inv == RingInv /\ TaskInv /\ SnapshotInv /\ ReadInv
  <1>1. Init => Inv
    <2> SUFFICES ASSUME Init PROVE Inv
      OBVIOUS
    <2>1. /\ Len(NoFile.items) = 0
          /\ NoFile.pc = "closed"
          /\ NoFile \in ReaderState
      BY DEF NoFile, ReaderState, ReaderPCs
    <2>2. SnapshotInv
      BY <2>1, KthreadAssumption DEF Init, SnapshotInv, WritesInBounds
    <2>3. \A r \in Readers : reader[r] = NoFile
      BY DEF Init
    <2>4. ReadInv
      BY <2>1, <2>3, KthreadAssumption DEF ReadInv, ReadersOnlyLive, ReadOK
    <2> QED BY <2>2, <2>4, FreshRing, NoTasksAtFirst DEF Init
  <1>2. Inv /\ [Next]_vars => Inv'
    BY RingStep, TaskStep, SnapshotStep, ReadStep
  <1>3. Inv => ReadReturnsDrained
    <2> SUFFICES ASSUME SnapshotInv, ReadInv, NEW r \in Readers,
                        reader[r].pc = "copy", reader[r].pos = 0
                 PROVE  [i \in 1..snapshot_len |-> snapshot_buf[i - 1]]
                            = reader[r].items
      BY DEF ReadReturnsDrained
    <2> DEFINE items == reader[r].items
    <2>1. items \in Seq(Nat)
      BY DEF SnapshotInv, ReaderState
    <2>2. /\ snapshot_len = Len(items)
          /\ \A j \in 1..Len(items) : snapshot_buf[j - 1] = items[j]
      BY DEF ReadInv, ReadOK, Formatted
    <2> HIDE DEF items
    <2>3. items = [i \in 1..Len(items) |-> items[i]]
      BY <2>1
    <2>4. [i \in 1..snapshot_len |-> snapshot_buf[i - 1]]
              = [i \in 1..Len(items) |-> items[i]]
      BY <2>2, Zenon
    <2> QED BY <2>3, <2>4 DEF items
  <1> QED BY <1>1, <1>2, <1>3, PTL DEF Spec
=============================================================================
