------------------------ MODULE BlockingDemo_proofs ------------------------
(***************************************************************************)
(* Proofs about lab 12, for every number of readers, pollers and writers   *)
(* of "trigger".                                                           *)
(***************************************************************************)
EXTENDS BlockingDemo, FiniteSetTheorems, TLAPS

ReaderPCs == InRead \cup {"closed", "open", "load", "copy"}

Types ==
    /\ phase \in Phases
    /\ producer_timer \subseteq TimerFlags
    /\ data_ready \in {0, 1}
    /\ event_wq \subseteq Readers \cup Pollers
    /\ producer \in [Producers -> {"idle", "inc", "set", "wake", "rearm"}]
    /\ reader \in [Readers -> ReaderState]
    /\ poller \in [Pollers -> PollerState]

(* A poisoned timer is not armed again by the callback that still runs.    *)
TimerLife ==
    /\ producer[TIMER] # "idle" <=> "running" \in producer_timer
    /\ phase = "going" =>
          "shut" \in producer_timer /\ "armed" \notin producer_timer
    /\ phase \notin {"live", "going"} => timer_quiesced(producer_timer)

StoresLife ==
    phase \in {"unloaded", "loading", "misc", "nosysfs"} => sysfs_drained

(* An open file keeps rmmod away.                                          *)
ExitUnused ==
    phase \in {"going", "quiesced", "flagged", "woken", "nosysfs"} =>
        ModuleUnused

(* Where an actor whose entry is on the queue can be.                      *)
QueueExact ==
    /\ \A r \in Readers :
          r \in event_wq =>
              /\ reader[r].pc \in {"prepare", "recheck", "sleep"}
              /\ reader[r].pc = "recheck" => ~reader[r].wait_ret
    /\ \A q \in Pollers :
          q \in event_wq <=> poller[q].pc \in {"check", "sleep", "last"}

BlockingInv ==
    /\ Types
    /\ TimerLife
    /\ StoresLife
    /\ ExitUnused
    /\ QueueExact
    /\ NoLostWakeup

-----------------------------------------------------------------------------
(* What a step of a reader can do.                                         *)

(* A reader whose record changes in one or two fields.                     *)
LEMMA ReaderGoes ==
    ASSUME Types, NEW r \in Readers, NEW to \in ReaderPCs,
           reader' = [reader EXCEPT ![r].pc = to]
    PROVE  /\ reader' \in [Readers -> ReaderState]
           /\ \A s \in Readers : s # r => reader'[s] = reader[s]
           /\ reader'[r].pc = to
           /\ reader'[r].wait_ret = reader[r].wait_ret
  BY DEF Types, ReaderState, ReaderPCs

(* A reader that goes back to user space.                                  *)
LEMMA ReaderReturns ==
    ASSUME Types, NEW r \in Readers, NEW pos \in 0..LineLen, Return(r, pos)
    PROVE  /\ reader' \in [Readers -> ReaderState]
           /\ \A s \in Readers : s # r => reader'[s] = reader[s]
           /\ reader'[r].pc = "open"
  <1>1. reader[r] \in ReaderState
    BY DEF Types
  <1>2. reader[r].nonblock \in BOOLEAN
    BY <1>1 DEF ReaderState
  <1>3. PICK new : new = [NoFile EXCEPT !.pc = "open",
                             !.nonblock = reader[r].nonblock, !.ppos = pos]
    OBVIOUS
  <1>4. NoFile \in ReaderState
    BY BlockingAssumption DEF NoFile, ReaderState
  <1>5. new \in ReaderState /\ new.pc = "open"
    BY <1>2, <1>3, <1>4 DEF ReaderState
  <1>6. reader' = [reader EXCEPT ![r] = new]
    BY <1>3 DEF Return
  <1> QED BY <1>5, <1>6 DEF Types

(* A reader that goes on in the macro with the result of a step.           *)
LEMMA ReaderGoesWith ==
    ASSUME Types, NEW r \in Readers, NEW to \in ReaderPCs,
           NEW ret \in BOOLEAN,
           reader' = [reader EXCEPT ![r].pc = to, ![r].wait_ret = ret]
    PROVE  /\ reader' \in [Readers -> ReaderState]
           /\ \A s \in Readers : s # r => reader'[s] = reader[s]
           /\ reader'[r].pc = to
           /\ reader'[r].wait_ret = ret
  <1>1. reader[r] \in ReaderState /\ reader \in [Readers -> ReaderState]
    BY DEF Types
  <1>2. PICK new : new = [reader[r] EXCEPT !.pc = to, !.wait_ret = ret]
    OBVIOUS
  <1>3. new \in ReaderState /\ new.pc = to /\ new.wait_ret = ret
    BY <1>1, <1>2 DEF ReaderState, ReaderPCs
  <1>4. reader' = [reader EXCEPT ![r] = new]
    BY <1>1, <1>2
  <1> QED BY <1>1, <1>3, <1>4

(* How a step of reader r leaves the variables that the invariants relate. *)
ReaderEffect(r) ==
    /\ reader' \in [Readers -> ReaderState]
    /\ \A s \in Readers : s # r => reader'[s] = reader[s]
    /\ data_ready' \in {0, data_ready}
    /\ event_wq' \in {event_wq, event_wq \cup {r}, event_wq \ {r}}
    /\ r \in event_wq' =>
          /\ reader'[r].pc \in {"prepare", "recheck", "sleep"}
          /\ reader'[r].pc = "recheck" => ~reader'[r].wait_ret
    /\ reader'[r].pc = "sleep" =>
          data_ready = 0 \/ (reader[r].pc = "sleep" /\ event_wq' = event_wq)
    /\ reader[r].pc = "closed" => DeviceOpenable
    /\ \/ /\ waiter_count' = waiter_count + 1
          /\ reader[r].pc \notin Waiting /\ reader'[r].pc \in Waiting
       \/ /\ waiter_count' = waiter_count - 1
          /\ reader[r].pc \in Waiting /\ reader'[r].pc \notin Waiting
       \/ /\ waiter_count' = waiter_count
          /\ reader[r].pc \in Waiting <=> reader'[r].pc \in Waiting
    /\ UNCHANGED <<life, event_id, producer, poller>>

(* What the process does outside bq_read().                                *)
LEMMA ReaderUserActs ==
    ASSUME Types, QueueExact, NEW r \in Readers, reader_user(r)
    PROVE  ReaderEffect(r)
  <1>1. /\ reader[r] \in ReaderState
        /\ reader \in [Readers -> ReaderState]
    BY DEF Types
  <1>2. UNCHANGED <<life, data_ready, event_id, waiter_count, event_wq,
                    producer, poller>>
    BY DEF reader_user
  <1>3. NoFile \in ReaderState /\ NoFile.pc = "closed"
    BY BlockingAssumption DEF NoFile, ReaderState
  <1>4. r \in event_wq => reader[r].pc \in {"prepare", "recheck", "sleep"}
    BY DEF QueueExact
  <1>5. CASE /\ DeviceOpenable
             /\ reader[r].pc = "closed"
             /\ \E b \in BOOLEAN :
                   reader' = [reader EXCEPT ![r].pc = "open", ![r].nonblock = b]
    <2>1. PICK b \in BOOLEAN :
             reader' = [reader EXCEPT ![r].pc = "open", ![r].nonblock = b]
      BY <1>5
    <2>2. /\ reader' \in [Readers -> ReaderState]
          /\ \A s \in Readers : s # r => reader'[s] = reader[s]
          /\ reader'[r].pc = "open"
      BY <1>1, <2>1 DEF ReaderState
    <2> QED BY <1>2, <1>4, <1>5, <2>2 DEF ReaderEffect, Waiting
  <1>6. CASE reader[r].pc = "open" /\ reader' = [reader EXCEPT ![r] = NoFile]
    <2>1. /\ reader' \in [Readers -> ReaderState]
          /\ \A s \in Readers : s # r => reader'[s] = reader[s]
          /\ reader'[r].pc = "closed"
      BY <1>1, <1>3, <1>6
    <2> QED BY <1>2, <1>4, <1>6, <2>1 DEF ReaderEffect, Waiting
  <1>7. CASE Reading(r, "open", "xchg")
    <2>1. "xchg" \in ReaderPCs
      BY DEF ReaderPCs, InRead
    <2>2. reader[r].pc = "open" /\ reader' = [reader EXCEPT ![r].pc = "xchg"]
      BY <1>7 DEF Reading
    <2>3. /\ reader' \in [Readers -> ReaderState]
          /\ \A s \in Readers : s # r => reader'[s] = reader[s]
          /\ reader'[r].pc = "xchg"
      BY <2>1, <2>2, ReaderGoes
    <2> QED BY <1>2, <1>4, <2>2, <2>3 DEF ReaderEffect, Waiting
  <1>8. CASE /\ reader[r].pc \in Waiting
             /\ reader' = [reader EXCEPT ![r].signal = TRUE]
    <2>1. /\ reader' \in [Readers -> ReaderState]
          /\ \A s \in Readers : s # r => reader'[s] = reader[s]
          /\ reader'[r].pc = reader[r].pc
          /\ reader'[r].wait_ret = reader[r].wait_ret
      BY <1>1, <1>8 DEF ReaderState
    <2> QED BY <1>2, <1>8, <2>1 DEF ReaderEffect, QueueExact, Waiting
  <1> QED BY <1>5, <1>6, <1>7, <1>8 DEF reader_user

(* bq_read() outside the wait.                                             *)
LEMMA ReadActs ==
    ASSUME Types, QueueExact, NEW r \in Readers, bq_read(r),
           ~wait_event_interruptible(r)
    PROVE  ReaderEffect(r)
  <1>1. UNCHANGED <<life, event_id, producer, poller>>
    BY DEF bq_read
  <1>2. r \in event_wq => reader[r].pc \in {"prepare", "recheck", "sleep"}
    BY DEF QueueExact
  <1>3. {"xchg", "inc", "check", "load", "copy"} \subseteq ReaderPCs
    BY DEF ReaderPCs, InRead, Waiting
  <1>4. reader[r].ppos \in 0..LineLen
    BY DEF Types, ReaderState
  <1>5. CASE xchg_takes(r)
    <2>1. /\ reader[r].pc = "xchg" /\ reader' = [reader EXCEPT ![r].pc = "load"]
          /\ data_ready' = 0
          /\ UNCHANGED <<waiter_count, event_wq>>
      BY <1>5 DEF xchg_takes, Reading, after_xchg
    <2>2. /\ reader' \in [Readers -> ReaderState]
          /\ \A s \in Readers : s # r => reader'[s] = reader[s]
          /\ reader'[r].pc = "load"
      BY <1>3, <2>1, ReaderGoes
    <2> QED BY <1>1, <1>2, <2>1, <2>2 DEF ReaderEffect, Waiting
  <1>6. CASE xchg_fails(r)
    <2>1. /\ reader[r].pc = "xchg"
          /\ UNCHANGED <<data_ready, waiter_count, event_wq>>
          /\ Return(r, reader[r].ppos) \/ reader' = [reader EXCEPT ![r].pc = "inc"]
      BY <1>6 DEF xchg_fails, Reading
    <2>2. /\ reader' \in [Readers -> ReaderState]
          /\ \A s \in Readers : s # r => reader'[s] = reader[s]
          /\ reader'[r].pc \in {"open", "inc"}
      BY <1>3, <1>4, <2>1, ReaderGoes, ReaderReturns
    <2> QED BY <1>1, <1>2, <2>1, <2>2 DEF ReaderEffect, Waiting
  <1>7. CASE read_inc(r)
    <2>1. /\ reader[r].pc = "inc" /\ reader' = [reader EXCEPT ![r].pc = "check"]
          /\ waiter_count' = waiter_count + 1
          /\ UNCHANGED <<data_ready, event_wq>>
      BY <1>7 DEF read_inc, Reading, inc_waiters
    <2>2. /\ reader' \in [Readers -> ReaderState]
          /\ \A s \in Readers : s # r => reader'[s] = reader[s]
          /\ reader'[r].pc = "check"
      BY <1>3, <2>1, ReaderGoes
    <2> QED BY <1>1, <1>2, <2>1, <2>2 DEF ReaderEffect, Waiting
  <1>8. CASE read_dec(r)
    <2>1. /\ reader[r].pc = "dec"
          /\ waiter_count' = waiter_count - 1
          /\ UNCHANGED <<data_ready, event_wq>>
          /\ Return(r, reader[r].ppos) \/ reader' = [reader EXCEPT ![r].pc = "xchg"]
      BY <1>8 DEF read_dec, Reading, dec_waiters
    <2>2. /\ reader' \in [Readers -> ReaderState]
          /\ \A s \in Readers : s # r => reader'[s] = reader[s]
          /\ reader'[r].pc \in {"open", "xchg"}
      BY <1>3, <1>4, <2>1, ReaderGoes, ReaderReturns
    <2> QED BY <1>1, <1>2, <2>1, <2>2 DEF ReaderEffect, Waiting
  <1>9. CASE read_load(r)
    <2>1. /\ reader[r].pc = "load" /\ reader' = [reader EXCEPT ![r].pc = "copy"]
          /\ UNCHANGED <<data_ready, waiter_count, event_wq>>
      BY <1>9 DEF read_load, Reading
    <2>2. /\ reader' \in [Readers -> ReaderState]
          /\ \A s \in Readers : s # r => reader'[s] = reader[s]
          /\ reader'[r].pc = "copy"
      BY <1>3, <2>1, ReaderGoes
    <2> QED BY <1>1, <1>2, <2>1, <2>2 DEF ReaderEffect, Waiting
  <1>10. CASE read_copy(r)
    <2>1. /\ reader[r].pc = "copy"
          /\ UNCHANGED <<data_ready, waiter_count, event_wq>>
      BY <1>10 DEF read_copy
    <2>2. PICK pos \in reader[r].ppos..LineLen : Return(r, pos)
      BY <1>10 DEF read_copy
    <2>3. pos \in 0..LineLen
      BY <1>4, BlockingAssumption
    <2>4. /\ reader' \in [Readers -> ReaderState]
          /\ \A s \in Readers : s # r => reader'[s] = reader[s]
          /\ reader'[r].pc = "open"
      BY <2>2, <2>3, ReaderReturns
    <2> QED BY <1>1, <1>2, <2>1, <2>4 DEF ReaderEffect, Waiting
  <1> QED BY <1>5, <1>6, <1>7, <1>8, <1>9, <1>10 DEF bq_read

(* The steps of wait_event_interruptible().                                *)
LEMMA WaitActs ==
    ASSUME Types, QueueExact, NEW r \in Readers, bq_read(r),
           wait_event_interruptible(r)
    PROVE  ReaderEffect(r)
  <1>1. UNCHANGED <<life, event_id, producer, poller>>
    BY DEF bq_read
  <1>2. r \in event_wq => reader[r].pc \in {"prepare", "recheck", "sleep"}
    BY DEF QueueExact
  <1>3. {"prepare", "recheck", "sleep", "dec"} \subseteq ReaderPCs
    BY DEF ReaderPCs, InRead, Waiting
  <1>4. CASE wait_check(r)
    <2>1. /\ reader[r].pc = "check"
          /\ reader' = [reader EXCEPT ![r].pc =
                           IF data_ready = 1 THEN "dec" ELSE "prepare"]
          /\ UNCHANGED <<data_ready, waiter_count, event_wq>>
      BY <1>4 DEF wait_check, Reading
    <2>2. /\ reader' \in [Readers -> ReaderState]
          /\ \A s \in Readers : s # r => reader'[s] = reader[s]
          /\ reader'[r].pc \in {"dec", "prepare"}
      BY <1>3, <2>1, ReaderGoes
    <2> QED BY <1>1, <1>2, <2>1, <2>2 DEF ReaderEffect, Waiting
  <1>5. CASE wait_prepare(r)
    <2>1. /\ reader[r].pc = "prepare"
          /\ event_wq' = IF reader[r].signal THEN event_wq \ {r}
                                             ELSE event_wq \cup {r}
          /\ reader' = [reader EXCEPT ![r].pc = "recheck",
                                      ![r].wait_ret = reader[r].signal]
          /\ UNCHANGED <<data_ready, waiter_count>>
      BY <1>5 DEF wait_prepare
    <2>2. /\ reader' \in [Readers -> ReaderState]
          /\ \A s \in Readers : s # r => reader'[s] = reader[s]
          /\ reader'[r].pc = "recheck"
          /\ reader'[r].wait_ret = reader[r].signal
      <3>1. reader[r].signal \in BOOLEAN /\ "recheck" \in ReaderPCs
        BY <1>3 DEF Types, ReaderState
      <3> QED BY <2>1, <3>1, ReaderGoesWith, Zenon
    <2> QED BY <1>1, <2>1, <2>2 DEF ReaderEffect, Waiting
  <1>6. CASE wait_recheck(r)
    <2>1. reader[r].pc = "recheck" /\ UNCHANGED <<data_ready, waiter_count>>
      BY <1>6 DEF wait_recheck
    <2>2. CASE data_ready = 1
      <3>1. /\ event_wq' = event_wq \ {r}
            /\ reader' = [reader EXCEPT ![r].pc = "dec", ![r].wait_ret = FALSE]
        BY <1>6, <2>2 DEF wait_recheck, condition
      <3>2. /\ reader' \in [Readers -> ReaderState]
            /\ \A s \in Readers : s # r => reader'[s] = reader[s]
            /\ reader'[r].pc = "dec"
        <4>1. "dec" \in ReaderPCs /\ FALSE \in BOOLEAN
          BY <1>3
        <4> QED BY <3>1, <4>1, ReaderGoesWith, Zenon
      <3> QED BY <1>1, <2>1, <3>1, <3>2 DEF ReaderEffect, Waiting
    <2>3. CASE data_ready # 1
      <3>1. PICK to \in {"dec", "sleep"} :
               /\ event_wq' = event_wq
               /\ reader' = [reader EXCEPT ![r].pc = to]
               /\ to = "dec" => reader[r].wait_ret
        BY <1>6, <2>3 DEF wait_recheck, condition, Reading
      <3>2. /\ reader' \in [Readers -> ReaderState]
            /\ \A s \in Readers : s # r => reader'[s] = reader[s]
            /\ reader'[r].pc = to
        BY <1>3, <3>1, ReaderGoes
      <3>3. data_ready = 0
        BY <2>3 DEF Types
      <3>4. r \in event_wq => ~reader[r].wait_ret
        BY <2>1 DEF QueueExact
      <3> QED BY <1>1, <2>1, <3>1, <3>2, <3>3, <3>4 DEF ReaderEffect, Waiting
    <2> QED BY <2>2, <2>3
  <1>7. CASE wait_wakes(r)
    <2>1. /\ reader[r].pc = "sleep"
          /\ reader' = [reader EXCEPT ![r].pc = "prepare"]
          /\ UNCHANGED <<data_ready, waiter_count, event_wq>>
      BY <1>7 DEF wait_wakes, Reading
    <2>2. /\ reader' \in [Readers -> ReaderState]
          /\ \A s \in Readers : s # r => reader'[s] = reader[s]
          /\ reader'[r].pc = "prepare"
      BY <1>3, <2>1, ReaderGoes
    <2> QED BY <1>1, <1>2, <2>1, <2>2 DEF ReaderEffect, Waiting
  <1> QED BY <1>4, <1>5, <1>6, <1>7 DEF wait_event_interruptible

(* A step of a reader, with or without a signal, keeps the invariant.      *)
LEMMA ReaderKeeps ==
    ASSUME BlockingInv, NEW r \in Readers, reader_user(r) \/ bq_read(r)
    PROVE  BlockingInv' /\ ReaderEffect(r)
  <1>1. ReaderEffect(r)
    BY ReaderUserActs, ReadActs, WaitActs DEF BlockingInv
  <1>2. /\ reader' \in [Readers -> ReaderState]
        /\ \A s \in Readers : s # r => reader'[s] = reader[s]
        /\ data_ready' \in {0, data_ready}
        /\ event_wq' \in {event_wq, event_wq \cup {r}, event_wq \ {r}}
        /\ UNCHANGED <<phase, producer_timer, producer, poller>>
    BY <1>1 DEF ReaderEffect, life
  <1>3. Types'
    BY <1>2 DEF BlockingInv, Types
  <1>4. TimerLife' /\ StoresLife'
    BY <1>2 DEF BlockingInv, TimerLife, StoresLife, sysfs_drained
  <1>5. ExitUnused'
    <2>1. reader[r].pc = "closed" => DeviceOpenable
      BY <1>1 DEF ReaderEffect
    <2>2. phase \notin {"going", "quiesced", "flagged", "woken", "nosysfs"}
      BY <2>1 DEF BlockingInv, ExitUnused, ModuleUnused, DeviceOpenable
    <2> QED BY <1>2, <2>2 DEF ExitUnused
  <1>6. QueueExact'
    <2>1. r \in event_wq' =>
             /\ reader'[r].pc \in {"prepare", "recheck", "sleep"}
             /\ reader'[r].pc = "recheck" => ~reader'[r].wait_ret
      BY <1>1 DEF ReaderEffect
    <2>2. \A x : x # r => (x \in event_wq' <=> x \in event_wq)
      BY <1>2
    <2>3. \A q \in Pollers : q # r
      BY BlockingAssumption
    <2>4. ASSUME NEW s \in Readers, s \in event_wq'
          PROVE  /\ reader'[s].pc \in {"prepare", "recheck", "sleep"}
                 /\ reader'[s].pc = "recheck" => ~reader'[s].wait_ret
      <3>1. CASE s = r
        BY <2>1, <2>4, <3>1
      <3>2. CASE s # r
        BY <1>2, <2>2, <2>4, <3>2 DEF BlockingInv, QueueExact
      <3> QED BY <3>1, <3>2
    <2>5. ASSUME NEW q \in Pollers
          PROVE  q \in event_wq' <=> poller'[q].pc \in {"check", "sleep", "last"}
      BY <1>2, <2>2, <2>3 DEF BlockingInv, QueueExact
    <2> QED BY <2>4, <2>5 DEF QueueExact
  <1>7. NoLostWakeup'
    <2> SUFFICES ASSUME data_ready' = 1,
                        \/ \E s \in Readers : reader'[s].pc = "sleep" /\ s \in event_wq'
                        \/ \E q \in Pollers : poller'[q].pc = "sleep" /\ ~poller'[q].triggered
                 PROVE  \E p \in Producers : producer'[p] = "wake"
      BY DEF NoLostWakeup
    <2>1. data_ready = 1
      BY <1>2
    <2>2. \/ \E s \in Readers : reader[s].pc = "sleep" /\ s \in event_wq
          \/ \E q \in Pollers : poller[q].pc = "sleep" /\ ~poller[q].triggered
      <3>1. ASSUME NEW s \in Readers, reader'[s].pc = "sleep", s \in event_wq'
            PROVE  reader[s].pc = "sleep" /\ s \in event_wq
        <4>1. CASE s = r
          BY <1>1, <2>1, <3>1, <4>1 DEF ReaderEffect
        <4>2. CASE s # r
          BY <1>2, <3>1, <4>2
        <4> QED BY <4>1, <4>2
      <3> QED BY <1>2, <3>1
    <2> QED BY <1>2, <2>1, <2>2 DEF BlockingInv, NoLostWakeup
  <1> QED BY <1>1, <1>3, <1>4, <1>5, <1>6, <1>7 DEF BlockingInv

-----------------------------------------------------------------------------
(* What a step of a poller can do.                                         *)

PollerEffect(q) ==
    /\ poller' \in [Pollers -> PollerState]
    /\ \A s \in Pollers : s # q => poller'[s] = poller[s]
    /\ event_wq' \in {event_wq, event_wq \cup {q}, event_wq \ {q}}
    /\ q \in event_wq' <=> poller'[q].pc \in {"check", "sleep", "last"}
    /\ poller'[q].pc = "sleep" => data_ready = 0
    /\ poller[q].pc = "closed" => DeviceOpenable
    /\ UNCHANGED <<life, data_ready, event_id, waiter_count, producer, reader>>

(* poll() and what the process does around it.                             *)
LEMMA PollActs ==
    ASSUME Types, QueueExact, NEW q \in Pollers, poll_user(q) \/ bq_poll(q)
    PROVE  PollerEffect(q)
  <1>1. /\ poller \in [Pollers -> PollerState]
        /\ poller[q] \in PollerState
        /\ q \in event_wq <=> poller[q].pc \in {"check", "sleep", "last"}
        /\ UNCHANGED <<life, data_ready, event_id, waiter_count, producer, reader>>
    BY DEF Types, QueueExact, poll_user, bq_poll
  <1>2. ASSUME NEW from, NEW to \in {"closed", "open", "register", "check",
                                     "sleep", "last"},
               Polling(q, from, to)
        PROVE  /\ poller[q].pc = from
               /\ poller' \in [Pollers -> PollerState]
               /\ \A s \in Pollers : s # q => poller'[s] = poller[s]
               /\ poller'[q].pc = to
    BY <1>1, <1>2 DEF Polling, PollerState
  <1>3. CASE poll_user(q)
    <2>1. UNCHANGED event_wq
      BY <1>3 DEF poll_user
    <2>2. CASE DeviceOpenable /\ Polling(q, "closed", "open")
      BY <1>1, <1>2, <2>1, <2>2 DEF PollerEffect
    <2>3. CASE Polling(q, "open", "closed")
      BY <1>1, <1>2, <2>1, <2>3 DEF PollerEffect
    <2>4. CASE Polling(q, "open", "register")
      BY <1>1, <1>2, <2>1, <2>4 DEF PollerEffect
    <2>5. CASE Polling(q, "sleep", "last")
      BY <1>1, <1>2, <2>1, <2>5 DEF PollerEffect
    <2> QED BY <1>3, <2>2, <2>3, <2>4, <2>5 DEF poll_user
  <1>4. CASE poll_register(q)
    <2>1. Polling(q, "register", "check") /\ event_wq' = event_wq \cup {q}
      BY <1>4 DEF poll_register
    <2> QED BY <1>1, <1>2, <2>1 DEF PollerEffect
  <1>5. CASE poll_check(q)
    <2>1. poller[q].pc \in {"check", "last"}
      BY <1>5 DEF poll_check
    <2>2. CASE data_ready = 1 \/ poller[q].pc = "last"
      <3>1. /\ event_wq' = event_wq \ {q}
            /\ poller' = [poller EXCEPT ![q].pc = "open",
                                        ![q].triggered = FALSE]
        BY <1>5, <2>2 DEF poll_check
      <3>2. /\ poller' \in [Pollers -> PollerState]
            /\ \A s \in Pollers : s # q => poller'[s] = poller[s]
            /\ poller'[q].pc = "open"
        BY <1>1, <3>1 DEF PollerState
      <3> QED BY <1>1, <2>1, <3>1, <3>2 DEF PollerEffect
    <2>3. CASE ~(data_ready = 1 \/ poller[q].pc = "last")
      <3>1. /\ event_wq' = event_wq
            /\ poller' = [poller EXCEPT ![q].pc = "sleep"]
        BY <1>5, <2>3 DEF poll_check
      <3>2. /\ poller' \in [Pollers -> PollerState]
            /\ \A s \in Pollers : s # q => poller'[s] = poller[s]
            /\ poller'[q].pc = "sleep"
        BY <1>1, <3>1 DEF PollerState
      <3>3. data_ready = 0
        BY <2>3 DEF Types
      <3> QED BY <1>1, <2>1, <3>1, <3>2, <3>3 DEF PollerEffect
    <2> QED BY <2>2, <2>3
  <1>6. CASE poll_wakes(q)
    <2>1. /\ event_wq' = event_wq
          /\ poller[q].pc = "sleep"
          /\ poller' = [poller EXCEPT ![q].pc = "check", ![q].triggered = FALSE]
      BY <1>6 DEF poll_wakes
    <2>2. /\ poller' \in [Pollers -> PollerState]
          /\ \A s \in Pollers : s # q => poller'[s] = poller[s]
          /\ poller'[q].pc = "check"
      BY <1>1, <2>1 DEF PollerState
    <2> QED BY <1>1, <2>1, <2>2 DEF PollerEffect
  <1> QED BY <1>3, <1>4, <1>5, <1>6 DEF bq_poll

(* A step of a poller keeps the invariant.                                 *)
LEMMA PollerKeeps ==
    ASSUME BlockingInv, NEW q \in Pollers, poll_user(q) \/ bq_poll(q)
    PROVE  BlockingInv' /\ PollerEffect(q)
  <1>1. PollerEffect(q)
    BY PollActs DEF BlockingInv
  <1>2. /\ poller' \in [Pollers -> PollerState]
        /\ \A s \in Pollers : s # q => poller'[s] = poller[s]
        /\ event_wq' \in {event_wq, event_wq \cup {q}, event_wq \ {q}}
        /\ UNCHANGED <<phase, producer_timer, data_ready, producer, reader>>
    BY <1>1 DEF PollerEffect, life
  <1>3. Types'
    BY <1>2 DEF BlockingInv, Types
  <1>4. TimerLife' /\ StoresLife'
    BY <1>2 DEF BlockingInv, TimerLife, StoresLife, sysfs_drained
  <1>5. ExitUnused'
    <2>1. poller[q].pc = "closed" => DeviceOpenable
      BY <1>1 DEF PollerEffect
    <2>2. phase \notin {"going", "quiesced", "flagged", "woken", "nosysfs"}
      BY <2>1 DEF BlockingInv, ExitUnused, ModuleUnused, DeviceOpenable
    <2> QED BY <1>2, <2>2 DEF ExitUnused
  <1>6. \A x : x # q => (x \in event_wq' <=> x \in event_wq)
    BY <1>2
  <1>7. \A r \in Readers : r # q
    BY BlockingAssumption
  <1>8. QueueExact'
    <2>1. ASSUME NEW s \in Pollers
          PROVE  s \in event_wq' <=> poller'[s].pc \in {"check", "sleep", "last"}
      <3>1. CASE s = q
        BY <1>1, <3>1 DEF PollerEffect
      <3>2. CASE s # q
        BY <1>2, <1>6, <3>2 DEF BlockingInv, QueueExact
      <3> QED BY <3>1, <3>2
    <2> QED BY <1>2, <1>6, <1>7, <2>1 DEF BlockingInv, QueueExact
  <1>9. NoLostWakeup'
    <2> SUFFICES ASSUME data_ready = 1,
                        \/ \E s \in Readers : reader[s].pc = "sleep" /\ s \in event_wq'
                        \/ \E s \in Pollers : poller'[s].pc = "sleep" /\ ~poller'[s].triggered
                 PROVE  \E p \in Producers : producer[p] = "wake"
      BY <1>2 DEF NoLostWakeup
    <2>1. poller'[q].pc # "sleep"
      BY <1>1 DEF PollerEffect
    <2>2. \/ \E s \in Readers : reader[s].pc = "sleep" /\ s \in event_wq
          \/ \E s \in Pollers : poller[s].pc = "sleep" /\ ~poller[s].triggered
      BY <1>2, <1>6, <1>7, <2>1
    <2> QED BY <2>2 DEF BlockingInv, NoLostWakeup
  <1> QED BY <1>1, <1>3, <1>4, <1>5, <1>8, <1>9 DEF BlockingInv

-----------------------------------------------------------------------------
(* Producers.                                                              *)

(* A wake-up takes every reader off the queue and triggers every poller's  *)
(* entry: nobody is left asleep, whatever data_ready is.                   *)
LEMMA WakeUpWakesAll ==
    ASSUME Types, QueueExact, wake_up, reader' = reader
    PROVE  /\ event_wq' \subseteq Readers \cup Pollers
           /\ poller' \in [Pollers -> PollerState]
           /\ \A q \in Pollers : poller'[q].pc = poller[q].pc
           /\ QueueExact'
           /\ NoLostWakeup'
  <1>1. /\ event_wq' = event_wq \ Readers
        /\ poller' = [q \in Pollers |->
              [poller[q] EXCEPT !.triggered = @ \/ q \in event_wq]]
    BY DEF wake_up
  <1>2. ASSUME NEW q \in Pollers
        PROVE  /\ poller'[q] \in PollerState
               /\ poller'[q].pc = poller[q].pc
               /\ q \in event_wq => poller'[q].triggered
    <2>1. poller[q] \in PollerState
      BY DEF Types
    <2>2. poller'[q] = [poller[q] EXCEPT
                           !.triggered = poller[q].triggered \/ q \in event_wq]
      BY <1>1
    <2>3. (poller[q].triggered \/ q \in event_wq) \in BOOLEAN
      OBVIOUS
    <2> QED BY <2>1, <2>2, <2>3 DEF PollerState
  <1>3. poller' \in [Pollers -> PollerState]
    BY <1>1, <1>2
  <1>4. QueueExact'
    <2>1. \A r \in Readers : r \notin event_wq'
      BY <1>1
    <2>2. \A q \in Pollers : q \in event_wq' <=> q \in event_wq
      BY <1>1, BlockingAssumption
    <2> QED BY <1>2, <2>1, <2>2 DEF QueueExact
  <1>5. NoLostWakeup'
    <2>1. \A r \in Readers : r \notin event_wq'
      BY <1>1
    <2>2. \A q \in Pollers : poller'[q].pc = "sleep" => poller'[q].triggered
      BY <1>2 DEF QueueExact
    <2> QED BY <2>1, <2>2 DEF NoLostWakeup
  <1> QED BY <1>1, <1>2, <1>3, <1>4, <1>5 DEF Types

(* The three statements that post an event, by the timer or by a store.    *)
LEMMA PostKeeps ==
    ASSUME BlockingInv, NEW p \in Producers, post_event(p),
           UNCHANGED <<phase, reader>>
    PROVE  BlockingInv'
  <1>1. producer \in [Producers -> {"idle", "inc", "set", "wake", "rearm"}]
    BY DEF BlockingInv, Types
  <1>2. producer_timer' = producer_timer
    BY DEF post_event, post_inc, post_set, post_wake
  <1>3. /\ producer' \in [Producers -> {"idle", "inc", "set", "wake", "rearm"}]
        /\ \A x \in Producers : x # p => producer'[x] = producer[x]
        /\ producer[p] # "idle"
        /\ p = TIMER => producer'[p] # "idle"
    BY <1>1 DEF post_event, post_inc, post_set, post_wake, Producing
  <1>4. TimerLife'
    <2>1. TIMER \in Producers
      BY DEF Producers
    <2> QED BY <1>2, <1>3, <2>1 DEF BlockingInv, TimerLife
  <1>5. StoresLife'
    <2>1. \A t \in Triggers : t \in Producers /\ t # TIMER
      BY BlockingAssumption DEF Producers
    <2>2. p = TIMER =>
             phase \notin {"unloaded", "loading", "misc", "nosysfs"}
      BY <1>3 DEF BlockingInv, TimerLife, timer_quiesced
    <2>3. p \in Triggers =>
             phase \notin {"unloaded", "loading", "misc", "nosysfs"}
      BY <1>3 DEF BlockingInv, StoresLife, sysfs_drained
    <2> QED BY <2>2, <2>3 DEF StoresLife, Producers
  <1>6. CASE post_inc(p)
    <2>1. UNCHANGED <<data_ready, event_wq, poller>>
      BY <1>6 DEF post_inc
    <2>2. \A x \in Producers : (producer[x] = "wake") => (producer'[x] = "wake")
      BY <1>3, <1>6 DEF post_inc, Producing
    <2>3. Types'
      BY <1>2, <1>3, <2>1 DEF BlockingInv, Types
    <2>4. ExitUnused' /\ QueueExact'
      BY <2>1 DEF BlockingInv, ExitUnused, ModuleUnused, QueueExact
    <2>5. NoLostWakeup'
      BY <2>1, <2>2 DEF BlockingInv, NoLostWakeup
    <2> QED BY <1>4, <1>5, <2>3, <2>4, <2>5 DEF BlockingInv
  <1>7. CASE post_set(p)
    <2>1. data_ready' = 1 /\ UNCHANGED <<event_wq, poller>>
      BY <1>7 DEF post_set
    <2>2. producer'[p] = "wake"
      BY <1>1, <1>7 DEF post_set, Producing
    <2>3. Types'
      BY <1>2, <1>3, <2>1 DEF BlockingInv, Types
    <2>4. ExitUnused' /\ QueueExact'
      BY <2>1 DEF BlockingInv, ExitUnused, ModuleUnused, QueueExact
    <2>5. NoLostWakeup'
      BY <2>2 DEF NoLostWakeup
    <2> QED BY <1>4, <1>5, <2>3, <2>4, <2>5 DEF BlockingInv
  <1>8. CASE post_wake(p)
    <2>1. wake_up /\ UNCHANGED data_ready
      BY <1>8 DEF post_wake
    <2>2. /\ event_wq' \subseteq Readers \cup Pollers
          /\ poller' \in [Pollers -> PollerState]
          /\ \A q \in Pollers : poller'[q].pc = poller[q].pc
          /\ QueueExact'
          /\ NoLostWakeup'
      BY <2>1, WakeUpWakesAll DEF BlockingInv
    <2>3. Types'
      BY <1>2, <1>3, <2>1, <2>2 DEF BlockingInv, Types
    <2>4. ExitUnused'
      BY <2>2 DEF BlockingInv, ExitUnused, ModuleUnused
    <2> QED BY <1>4, <1>5, <2>2, <2>3, <2>4 DEF BlockingInv
  <1> QED BY <1>6, <1>7, <1>8 DEF post_event

(* The timer's expiry and its re-arming, and the beginning of a store.     *)
LEMMA ProducerKeeps ==
    ASSUME BlockingInv,
           producer_fn \/ \E t \in Triggers : trigger_begin(t) \/ trigger_store(t)
    PROVE  BlockingInv'
  <1>1. /\ producer \in [Producers -> {"idle", "inc", "set", "wake", "rearm"}]
        /\ TIMER \in Producers
        /\ \A t \in Triggers : t \in Producers /\ t # TIMER
    BY BlockingAssumption DEF BlockingInv, Types, Producers
  <1>2. ASSUME NEW p \in Producers, NEW from \in {"idle", "rearm"},
               NEW to \in {"inc", "idle"}, Producing(p, from, to),
               producer_timer' \subseteq TimerFlags,
               UNCHANGED <<phase, data_ready, event_wq, reader, poller>>
        PROVE  Types' /\ ExitUnused' /\ QueueExact' /\ NoLostWakeup'
    <2>1. /\ producer' \in [Producers -> {"idle", "inc", "set", "wake", "rearm"}]
          /\ \A x \in Producers : (producer[x] = "wake") => (producer'[x] = "wake")
      BY <1>1, <1>2 DEF Producing
    <2>2. Types'
      BY <1>2, <2>1 DEF BlockingInv, Types
    <2>3. ExitUnused' /\ QueueExact'
      BY <1>2 DEF BlockingInv, ExitUnused, ModuleUnused, QueueExact
    <2>4. NoLostWakeup'
      BY <1>2, <2>1 DEF BlockingInv, NoLostWakeup
    <2> QED BY <2>2, <2>3, <2>4
  <1>3. CASE producer_fn /\ producer_expire
    <2>1. /\ Producing(TIMER, "idle", "inc")
          /\ producer_timer' = (producer_timer \ {"armed"}) \cup {"running"}
          /\ "armed" \in producer_timer
          /\ UNCHANGED <<phase, data_ready, event_wq, reader, poller>>
      BY <1>3 DEF producer_fn, producer_expire, timer_can_expire, timer_expire
    <2>2. producer_timer' \subseteq TimerFlags
      BY <2>1 DEF BlockingInv, Types, TimerFlags
    <2>3. phase = "live"
      BY <2>1 DEF BlockingInv, TimerLife, timer_quiesced
    <2>4. producer'[TIMER] # "idle"
      BY <1>1, <2>1 DEF Producing
    <2>5. TimerLife' /\ StoresLife'
      BY <2>1, <2>3, <2>4 DEF TimerLife, StoresLife
    <2> QED BY <1>1, <1>2, <2>1, <2>2, <2>5 DEF BlockingInv
  <1>4. CASE producer_fn /\ producer_rearm
    <2>1. /\ Producing(TIMER, "rearm", "idle")
          /\ producer_timer' = mod_timer(producer_timer) \ {"running"}
          /\ UNCHANGED <<phase, data_ready, event_wq, reader, poller>>
      BY <1>4 DEF producer_fn, producer_rearm, timer_return
    <2>2. mod_timer(producer_timer) =
             IF "shut" \in producer_timer THEN producer_timer
                                          ELSE producer_timer \cup {"armed"}
      BY DEF mod_timer
    <2>3. producer_timer' \subseteq TimerFlags
      BY <2>1, <2>2 DEF BlockingInv, Types, TimerFlags
    <2>4. producer'[TIMER] = "idle" /\ producer[TIMER] # "idle"
      BY <1>1, <2>1 DEF Producing
    <2>5. phase \in {"live", "going"}
      BY <2>4 DEF BlockingInv, TimerLife, timer_quiesced
    <2>6. TimerLife' /\ StoresLife'
      BY <2>1, <2>2, <2>4, <2>5 DEF BlockingInv, TimerLife, StoresLife
    <2> QED BY <1>1, <1>2, <2>1, <2>3, <2>6 DEF BlockingInv
  <1>5. CASE producer_fn /\ post_event(TIMER)
    BY <1>1, <1>5, PostKeeps DEF producer_fn
  <1>6. ASSUME NEW t \in Triggers, trigger_store(t) PROVE BlockingInv'
    BY <1>1, <1>6, PostKeeps DEF trigger_store
  <1>7. ASSUME NEW t \in Triggers, trigger_begin(t) PROVE BlockingInv'
    <2>1. /\ Producing(t, "idle", "inc")
          /\ UNCHANGED <<phase, producer_timer, data_ready, event_wq, reader, poller>>
          /\ SysfsWritable
      BY <1>7 DEF trigger_begin, life
    <2>2. producer'[TIMER] = producer[TIMER]
      BY <1>1, <2>1 DEF Producing
    <2>3. TimerLife' /\ StoresLife'
      BY <2>1, <2>2 DEF BlockingInv, TimerLife, StoresLife, SysfsWritable
    <2>4. producer_timer' \subseteq TimerFlags
      BY <2>1 DEF BlockingInv, Types
    <2> QED BY <1>1, <1>2, <2>1, <2>3, <2>4 DEF BlockingInv
  <1> QED BY <1>3, <1>4, <1>5, <1>6, <1>7 DEF producer_fn

-----------------------------------------------------------------------------
(* Loading and unloading keep the invariant.                               *)
LEMMA ModuleKeeps ==
    ASSUME BlockingInv,
           insmod \/ wait_queues_blocking_init \/ wait_queues_blocking_exit
    PROVE  BlockingInv'
  <1>1. UNCHANGED <<producer, reader>>
    BY DEF insmod, wait_queues_blocking_init, wait_queues_blocking_exit
  <1>2. CASE insmod
    <2>1. /\ phase = "unloaded" /\ phase' = "loading"
          /\ producer_timer' = {"shut"}
          /\ data_ready' = 0
          /\ UNCHANGED <<event_wq, poller>>
      BY <1>2 DEF insmod, Advance, timer_static
    <2>2. Types'
      BY <1>1, <2>1 DEF BlockingInv, Types, Phases, TimerFlags
    <2>3. producer[TIMER] = "idle"
      BY <2>1 DEF BlockingInv, TimerLife, timer_quiesced
    <2>4. TimerLife'
      BY <1>1, <2>1, <2>3 DEF TimerLife, timer_quiesced
    <2>5. StoresLife' /\ ExitUnused' /\ QueueExact' /\ NoLostWakeup'
      BY <1>1, <2>1 DEF BlockingInv, StoresLife, sysfs_drained, ExitUnused,
                        QueueExact, NoLostWakeup
    <2> QED BY <2>2, <2>4, <2>5 DEF BlockingInv
  <1>3. ASSUME UNCHANGED <<data_ready, event_wq, poller>>
        PROVE  QueueExact' /\ NoLostWakeup'
    BY <1>1, <1>3 DEF BlockingInv, QueueExact, NoLostWakeup
  <1>4. CASE wait_queues_blocking_init
    <2>1. /\ UNCHANGED <<data_ready, event_wq, poller>>
          /\ phase \in {"loading", "misc"}
          /\ phase' \in {"misc", "live", "unloaded"}
          /\ \/ UNCHANGED producer_timer /\ phase' # "live"
             \/ producer_timer' = {"armed"} /\ phase' = "live"
      BY <1>4 DEF wait_queues_blocking_init, init_misc, init_sysfs, Advance,
                  mod_timer, timer_setup
    <2>2. Types'
      BY <1>1, <2>1 DEF BlockingInv, Types, Phases, TimerFlags
    <2>3. producer[TIMER] = "idle" /\ timer_quiesced(producer_timer)
      BY <2>1 DEF BlockingInv, TimerLife, timer_quiesced
    <2>4. TimerLife'
      BY <1>1, <2>1, <2>3 DEF TimerLife, timer_quiesced
    <2>5. StoresLife' /\ ExitUnused'
      BY <1>1, <2>1 DEF BlockingInv, StoresLife, sysfs_drained, ExitUnused
    <2> QED BY <1>3, <2>1, <2>2, <2>4, <2>5 DEF BlockingInv
  <1>5. CASE wait_queues_blocking_exit /\ exit_shutdown_timer
    <2>1. /\ UNCHANGED <<data_ready, event_wq, poller>>
          /\ phase = "live" /\ phase' = "going"
          /\ ModuleUnused
          /\ producer_timer' = (producer_timer \ {"armed"}) \cup {"shut"}
      BY <1>5 DEF exit_shutdown_timer, Advance, timer_shutdown
    <2>2. Types'
      BY <1>1, <2>1 DEF BlockingInv, Types, Phases, TimerFlags
    <2>3. TimerLife'
      BY <1>1, <2>1 DEF BlockingInv, TimerLife, timer_quiesced
    <2>4. StoresLife' /\ ExitUnused'
      BY <1>1, <2>1 DEF StoresLife, ExitUnused, ModuleUnused
    <2> QED BY <1>3, <2>1, <2>2, <2>3, <2>4 DEF BlockingInv
  <1>6. CASE wait_queues_blocking_exit /\ exit_set_ready
    <2>1. /\ UNCHANGED <<producer_timer, event_wq, poller>>
          /\ phase = "quiesced" /\ phase' = "flagged"
          /\ data_ready' = 1
      BY <1>6 DEF exit_set_ready, Advance
    <2>2. ModuleUnused
      BY <2>1 DEF BlockingInv, ExitUnused
    <2>3. Types'
      BY <1>1, <2>1 DEF BlockingInv, Types, Phases
    <2>4. TimerLife' /\ StoresLife' /\ QueueExact'
      BY <1>1, <2>1 DEF BlockingInv, TimerLife, StoresLife, QueueExact
    <2>5. ExitUnused' /\ NoLostWakeup'
      BY <1>1, <2>1, <2>2 DEF ExitUnused, ModuleUnused, NoLostWakeup
    <2> QED BY <2>3, <2>4, <2>5 DEF BlockingInv
  <1>7. CASE wait_queues_blocking_exit /\ exit_wake_all
    <2>1. /\ UNCHANGED <<producer_timer, data_ready>>
          /\ wake_up
          /\ phase = "flagged" /\ phase' = "woken"
      BY <1>7 DEF exit_wake_all, Advance
    <2>2. /\ event_wq' \subseteq Readers \cup Pollers
          /\ poller' \in [Pollers -> PollerState]
          /\ \A q \in Pollers : poller'[q].pc = poller[q].pc
          /\ QueueExact'
          /\ NoLostWakeup'
      BY <1>1, <2>1, WakeUpWakesAll DEF BlockingInv
    <2>3. Types'
      BY <1>1, <2>1, <2>2 DEF BlockingInv, Types, Phases
    <2>4. TimerLife' /\ StoresLife' /\ ExitUnused'
      BY <1>1, <2>1, <2>2
         DEF BlockingInv, TimerLife, StoresLife, ExitUnused, ModuleUnused
    <2> QED BY <2>2, <2>3, <2>4 DEF BlockingInv
  <1>8. CASE wait_queues_blocking_exit /\ exit_wait
    <2>1. /\ UNCHANGED <<producer_timer, data_ready, event_wq, poller>>
          /\ \/ /\ "running" \notin producer_timer
                /\ phase = "going" /\ phase' = "quiesced"
             \/ sysfs_drained /\ phase = "woken" /\ phase' = "nosysfs"
             \/ phase = "nosysfs" /\ phase' = "unloaded"
      BY <1>8 DEF exit_wait, Advance, timer_sync_done
    <2>2. Types'
      BY <1>1, <2>1 DEF BlockingInv, Types, Phases
    <2>3. TimerLife'
      BY <1>1, <2>1 DEF BlockingInv, TimerLife, timer_quiesced
    <2>4. StoresLife' /\ ExitUnused'
      BY <1>1, <2>1
         DEF BlockingInv, StoresLife, sysfs_drained, ExitUnused, ModuleUnused
    <2> QED BY <1>3, <2>1, <2>2, <2>3, <2>4 DEF BlockingInv
  <1> QED BY <1>2, <1>4, <1>5, <1>6, <1>7, <1>8 DEF wait_queues_blocking_exit

-----------------------------------------------------------------------------
(* The first states satisfy the invariant, and no step leaves it.          *)
LEMMA BlockingInit ==
    ASSUME Init
    PROVE  BlockingInv
  <1>1. NoFile \in ReaderState /\ NoFile.pc = "closed"
    BY BlockingAssumption DEF NoFile, ReaderState
  <1>2. TIMER \in Producers /\ Triggers \subseteq Producers
    BY DEF Producers
  <1>3. Types
    <2>1. [pc |-> "closed", triggered |-> FALSE] \in PollerState
      BY DEF PollerState
    <2> QED BY <1>1, <2>1 DEF Init, Types, Phases, timer_static, TimerFlags
  <1>4. TimerLife /\ StoresLife
    BY <1>2 DEF Init, TimerLife, StoresLife, sysfs_drained, timer_static,
                timer_quiesced
  <1>5. ExitUnused /\ QueueExact /\ NoLostWakeup
    BY DEF Init, ExitUnused, QueueExact, NoLostWakeup
  <1> QED BY <1>3, <1>4, <1>5 DEF BlockingInv

(* Every step is one of a reader, a poller, a producer or the module.      *)
LEMMA BlockingStep ==
    ASSUME BlockingInv, [Next]_vars
    PROVE  BlockingInv'
  <1>1. CASE UNCHANGED vars
    BY <1>1 DEF vars, life, BlockingInv, Types, TimerLife, StoresLife,
                sysfs_drained, ExitUnused, ModuleUnused, QueueExact,
                NoLostWakeup
  <1> QED BY <1>1, ReaderKeeps, PollerKeeps, ProducerKeeps, ModuleKeeps
         DEF Next

(* The wake-up protocol of bq_read(), poll(), producer_fn() and            *)
(* trigger_store() loses no wake-up, without a lock and for any number of  *)
(* processes: nobody sleeps on event_wq while an event is ready, unless a  *)
(* wake-up is on its way.                                                  *)
THEOREM NoWakeupIsLost == Spec => []NoLostWakeup
  <1>1. Init => BlockingInv
    BY BlockingInit
  <1>2. BlockingInv /\ [Next]_vars => BlockingInv'
    BY BlockingStep
  <1>3. BlockingInv => NoLostWakeup
    BY DEF BlockingInv
  <1> QED BY <1>1, <1>2, <1>3, PTL DEF Spec

-----------------------------------------------------------------------------
(* Unloading, and the count of waiters that it resets.                     *)

(* No file is opened before an init that then fails: the device is not     *)
(* opened early, or the registration after misc_register() succeeds.       *)
NoOpenOfFailedInit == ~EarlyOpen \/ "sysfs" \notin InitFaults

(* Before init has registered the device nobody has it open.               *)
DownUnused ==
    phase \in {"unloaded", "loading"} \/ (phase = "misc" /\ ~EarlyOpen) =>
        ModuleUnused

(* A file is opened only while the device is openable, and the phases that *)
(* lead back to "unloaded" keep files closed.                              *)
LEMMA DownStep ==
    ASSUME NoOpenOfFailedInit, BlockingInv, DownUnused, [Next]_vars
    PROVE  DownUnused'
  <1>1. ASSUME NEW r \in Readers, reader_user(r) \/ bq_read(r)
        PROVE  DownUnused'
    <2>1. ReaderEffect(r)
      BY <1>1, ReaderKeeps
    <2>2. phase' = phase /\ (reader[r].pc = "closed" => DeviceOpenable)
      BY <2>1 DEF ReaderEffect, life
    <2> QED BY <2>2 DEF DownUnused, ModuleUnused, DeviceOpenable
  <1>2. ASSUME NEW q \in Pollers, poll_user(q) \/ bq_poll(q)
        PROVE  DownUnused'
    <2>1. PollerEffect(q)
      BY <1>2, PollerKeeps
    <2>2. phase' = phase /\ (poller[q].pc = "closed" => DeviceOpenable)
      BY <2>1 DEF PollerEffect, life
    <2> QED BY <2>2 DEF DownUnused, ModuleUnused, DeviceOpenable
  <1>3. ASSUME NEW p \in Producers, post_event(p), UNCHANGED <<phase, reader>>
        PROVE  DownUnused'
    <2>1. CASE UNCHANGED poller
      BY <1>3, <2>1 DEF DownUnused, ModuleUnused
    <2>2. CASE wake_up
      BY <1>3, <2>2, WakeUpWakesAll DEF BlockingInv, DownUnused, ModuleUnused
    <2> QED BY <1>3, <2>1, <2>2 DEF post_event, post_inc, post_set, post_wake
  <1>4. ASSUME UNCHANGED <<phase, reader, poller>> PROVE DownUnused'
    BY <1>4 DEF DownUnused, ModuleUnused
  <1>5. CASE producer_fn
    <2>1. TIMER \in Producers
      BY DEF Producers
    <2> QED BY <1>3, <1>4, <1>5, <2>1
           DEF producer_fn, producer_expire, producer_rearm
  <1>6. ASSUME NEW t \in Triggers, trigger_begin(t) \/ trigger_store(t)
        PROVE  DownUnused'
    <2>1. t \in Producers
      BY DEF Producers
    <2> QED BY <1>3, <1>4, <1>6, <2>1 DEF trigger_begin, trigger_store, life
  <1>7. CASE insmod
    BY <1>7 DEF insmod, Advance, DownUnused, ModuleUnused
  <1>8. CASE wait_queues_blocking_init
    BY <1>8 DEF wait_queues_blocking_init, init_misc, init_sysfs, Advance,
                DownUnused, ModuleUnused, NoOpenOfFailedInit
  <1>9. CASE wait_queues_blocking_exit
    <2>1. phase' \in {"unloaded", "loading", "misc"} =>
             UNCHANGED <<reader, poller>> /\ phase = "nosysfs"
      BY <1>9 DEF wait_queues_blocking_exit, exit_shutdown_timer,
                  exit_set_ready, exit_wake_all, exit_wait, Advance
    <2> QED BY <2>1 DEF BlockingInv, ExitUnused, DownUnused, ModuleUnused
  <1>10. CASE UNCHANGED vars
    BY <1>4, <1>10 DEF vars, life
  <1> QED BY <1>1, <1>2, <1>5, <1>6, <1>7, <1>8, <1>9, <1>10 DEF Next

(* Together the two are inductive.                                         *)
LEMMA DownInductive ==
    ASSUME NoOpenOfFailedInit
    PROVE  Spec => [](BlockingInv /\ DownUnused)
  <1>1. Init => BlockingInv /\ DownUnused
    <2>1. Init => ModuleUnused
      BY DEF Init, ModuleUnused, NoFile
    <2> QED BY <2>1, BlockingInit DEF DownUnused
  <1>2. BlockingInv /\ DownUnused /\ [Next]_vars => (BlockingInv /\ DownUnused)'
    BY BlockingStep, DownStep
  <1> QED BY <1>1, <1>2, PTL DEF Spec

(* wait_queues_blocking_exit() and the error paths of the init leave       *)
(* nothing behind: no callback, no store, no process in the device's code  *)
(* and no entry on event_wq.                                               *)
THEOREM UnloadLeavesNothing ==
    ASSUME NoOpenOfFailedInit
    PROVE  Spec => []UnloadQuiescent
  <1>1. BlockingInv /\ DownUnused => UnloadQuiescent
    <2> SUFFICES ASSUME BlockingInv, DownUnused, phase = "unloaded"
                 PROVE  /\ timer_quiesced(producer_timer)
                        /\ \A p \in Producers : producer[p] = "idle"
                        /\ ModuleUnused
                        /\ event_wq = {}
      BY DEF UnloadQuiescent
    <2>1. timer_quiesced(producer_timer)
      BY DEF BlockingInv, TimerLife
    <2>2. \A p \in Producers : producer[p] = "idle"
      BY <2>1 DEF BlockingInv, TimerLife, timer_quiesced, StoresLife,
                  sysfs_drained, Producers
    <2>3. ModuleUnused
      BY DEF DownUnused
    <2>4. event_wq = {}
      <3>1. \A x \in event_wq : x \in Readers \/ x \in Pollers
        BY DEF BlockingInv, Types
      <3> QED BY <2>3, <3>1 DEF BlockingInv, QueueExact, ModuleUnused
    <2> QED BY <2>1, <2>2, <2>3, <2>4
  <1> QED BY <1>1, DownInductive, PTL

(* A step of one reader moves the count with the set of those who wait.    *)
LEMMA CountFollowsReader ==
    ASSUME WaiterCountExact, NEW r \in Readers, ReaderEffect(r)
    PROVE  WaiterCountExact'
  <1> DEFINE W == {s \in Readers : reader[s].pc \in Waiting}
             V == {s \in Readers : reader'[s].pc \in Waiting}
  <1>1. IsFiniteSet(W) /\ IsFiniteSet(V)
    BY BlockingAssumption, FS_Subset
  <1>2. \A s \in Readers : s # r => reader'[s] = reader[s]
    BY DEF ReaderEffect
  <1>3. Cardinality(W) \in Nat /\ waiter_count = Cardinality(W)
    BY <1>1, FS_CardinalityType DEF WaiterCountExact
  <1>4. waiter_count' = Cardinality(V)
    <2>1. CASE /\ waiter_count' = waiter_count + 1
               /\ reader[r].pc \notin Waiting /\ reader'[r].pc \in Waiting
      <3>1. V = W \cup {r} /\ r \notin W
        BY <1>2, <2>1
      <3> QED BY <1>1, <1>3, <2>1, <3>1, FS_AddElement
    <2>2. CASE /\ waiter_count' = waiter_count - 1
               /\ reader[r].pc \in Waiting /\ reader'[r].pc \notin Waiting
      <3>1. V = W \ {r} /\ r \in W
        BY <1>2, <2>2
      <3> QED BY <1>1, <1>3, <2>2, <3>1, FS_RemoveElement
    <2>3. CASE /\ waiter_count' = waiter_count
               /\ reader[r].pc \in Waiting <=> reader'[r].pc \in Waiting
      <3>1. V = W
        BY <1>2, <2>3
      <3> QED BY <1>3, <2>3, <3>1
    <2> QED BY <2>1, <2>2, <2>3 DEF ReaderEffect
  <1> QED BY <1>4 DEF WaiterCountExact

(* "waiters" shows exactly the processes inside the wait of bq_read(), for *)
(* any number of readers, signals and lost races for an event.             *)
THEOREM WaitersAreCounted ==
    ASSUME NoOpenOfFailedInit
    PROVE  Spec => []WaiterCountExact
  <1>1. Init => WaiterCountExact
    <2> SUFFICES ASSUME Init PROVE WaiterCountExact
      OBVIOUS
    <2>1. {r \in Readers : reader[r].pc \in Waiting} = {}
      BY DEF Init, NoFile, Waiting
    <2> QED BY <2>1, FS_EmptySet DEF Init, WaiterCountExact
  <1>2. BlockingInv /\ DownUnused /\ WaiterCountExact /\ [Next]_vars
            => WaiterCountExact'
    <2> SUFFICES ASSUME BlockingInv, DownUnused, WaiterCountExact, [Next]_vars
                 PROVE  WaiterCountExact'
      OBVIOUS
    <2>1. ASSUME UNCHANGED <<waiter_count, reader>> PROVE WaiterCountExact'
      BY <2>1 DEF WaiterCountExact
    <2>2. ASSUME NEW r \in Readers, reader_user(r) \/ bq_read(r)
          PROVE  WaiterCountExact'
      BY <2>2, ReaderKeeps, CountFollowsReader
    <2>3. CASE insmod
      <3>1. ModuleUnused
        BY <2>3 DEF insmod, Advance, DownUnused
      <3>2. waiter_count' = 0 /\ reader' = reader
        BY <2>3 DEF insmod
      <3>3. {r \in Readers : reader'[r].pc \in Waiting} = {}
        BY <3>1, <3>2 DEF ModuleUnused, Waiting
      <3> QED BY <3>2, <3>3, FS_EmptySet DEF WaiterCountExact
    <2>4. CASE \/ wait_queues_blocking_init
               \/ wait_queues_blocking_exit
               \/ producer_fn
      BY <2>1, <2>4
         DEF wait_queues_blocking_init, wait_queues_blocking_exit, producer_fn
    <2>5. ASSUME NEW t \in Triggers, trigger_begin(t) \/ trigger_store(t)
          PROVE  WaiterCountExact'
      BY <2>1, <2>5 DEF trigger_begin, trigger_store
    <2>6. ASSUME NEW q \in Pollers, poll_user(q) \/ bq_poll(q)
          PROVE  WaiterCountExact'
      BY <2>1, <2>6 DEF poll_user, bq_poll
    <2>7. CASE UNCHANGED vars
      BY <2>1, <2>7 DEF vars
    <2> QED BY <2>2, <2>3, <2>4, <2>5, <2>6, <2>7 DEF Next
  <1> QED BY <1>1, <1>2, DownInductive, PTL DEF Spec

-----------------------------------------------------------------------------
(* How many events reads return                                            *)

Posting(place) == {p \in Producers : producer[p] = place}

(* data_ready = 1 can be what exit stored into it, when nobody has the     *)
(* device open any more.                                                   *)
FlagOfExit ==
    phase \in {"flagged", "woken", "nosysfs", "unloaded"} /\ ModuleUnused

(* An event that was counted is still to be announced, announced, or       *)
(* consumed, or another one has taken its place.                           *)
PostsInv ==
    /\ event_id \in Nat /\ consumed \in Nat
    /\ IsFiniteSet(Posting("inc")) /\ IsFiniteSet(Posting("set"))
    /\ event_id + Cardinality(Posting("inc")) <= MaxEvents
    /\ consumed + Cardinality(Posting("set")) <= event_id
    /\ \/ FlagOfExit
       \/ consumed + data_ready + Cardinality(Posting("set")) <= event_id
    /\ phase \in {"unloaded", "loading", "misc"} => FlagOfExit \/ event_id = 0
    /\ \A r \in Readers :
          reader[r].pc = "load" => consumed # 0 /\ phase # "unloaded"

(* One pair for each read that has loaded an event's id, and the readers   *)
(* that have consumed an event and not yet loaded its id.                  *)
Returned == {d \in (0..MaxEvents) \X Nat : d[2] < deliveries[d[1]]}

Loading == {r \in Readers : reader[r].pc = "load"}

ReturnsInv ==
    /\ deliveries \in [0..MaxEvents -> Nat] /\ deliveries[0] = 0
    /\ IsFiniteSet(Returned)
    /\ Cardinality(Returned) + Cardinality(Loading) = consumed

(* What happens to the numbers when a producer moves on.                   *)
LEMMA ProducerMoves ==
    ASSUME BlockingInv, PostsInv, NEW p \in Producers,
           NEW from \in {"idle", "inc", "set", "wake", "rearm"},
           NEW to \in {"idle", "inc", "set", "wake", "rearm"},
           from # to, Producing(p, from, to), NEW place \in {"inc", "set"}
    PROVE  LET old == Cardinality(Posting(place))
               new == Cardinality(Posting(place)')
           IN  /\ IsFiniteSet(Posting(place)') /\ old \in Nat
               /\ from # place /\ to # place => new = old
               /\ from = place => new = old - 1
               /\ to = place => new = old + 1
  <1>1. /\ producer[p] = from /\ producer'[p] = to
        /\ \A q \in Producers : q # p => producer'[q] = producer[q]
    BY DEF BlockingInv, Types, Producing
  <1>2. IsFiniteSet(Posting(place)) /\ Cardinality(Posting(place)) \in Nat
    BY FS_CardinalityType DEF PostsInv
  <1>3. CASE from # place /\ to # place
    <2>1. Posting(place)' = Posting(place)
      BY <1>1, <1>3 DEF Posting
    <2> QED BY <1>2, <1>3, <2>1
  <1>4. CASE from = place
    <2>1. Posting(place)' = Posting(place) \ {p} /\ p \in Posting(place)
      BY <1>1, <1>4 DEF Posting
    <2>2. /\ IsFiniteSet(Posting(place)')
          /\ Cardinality(Posting(place)') = Cardinality(Posting(place)) - 1
      BY <1>2, <2>1, FS_RemoveElement
    <2> QED BY <1>2, <1>4, <2>2
  <1>5. CASE to = place
    <2>1. Posting(place)' = Posting(place) \cup {p} /\ p \notin Posting(place)
      BY <1>1, <1>5 DEF Posting
    <2>2. /\ IsFiniteSet(Posting(place)')
          /\ Cardinality(Posting(place)') = Cardinality(Posting(place)) + 1
      BY <1>2, <2>1, FS_AddElement
    <2> QED BY <1>2, <1>5, <2>2
  <1> QED BY <1>3, <1>4, <1>5

(* What a producer does next follows from its place; before init is over   *)
(* and after exit all are idle.                                            *)
LEMMA IdleProducers ==
    ASSUME BlockingInv, phase \in {"unloaded", "loading", "misc"},
           NEW p \in Producers
    PROVE  producer[p] = "idle"
  BY DEF BlockingInv, TimerLife, timer_quiesced, StoresLife, sysfs_drained,
         Producers

(* A post leaves who is in the device alone.                               *)
LEMMA PostKeepsUse ==
    ASSUME BlockingInv, UNCHANGED <<phase, reader>>,
           UNCHANGED poller \/ wake_up
    PROVE  FlagOfExit' <=> FlagOfExit
  <1>1. CASE UNCHANGED poller
    BY <1>1 DEF FlagOfExit, ModuleUnused
  <1>2. CASE wake_up
    BY <1>2, WakeUpWakesAll DEF BlockingInv, FlagOfExit, ModuleUnused
  <1> QED BY <1>1, <1>2

(* A producer counts an event before it announces it.                      *)
LEMMA PostsFollowProducer ==
    ASSUME BlockingInv, PostsInv, NEW p \in Producers,
           \/ post_event(p)
           \/ /\ Producing(p, "idle", "inc") /\ MayPost
              /\ UNCHANGED <<data_ready, event_id, poller>>
           \/ /\ Producing(p, "rearm", "idle")
              /\ UNCHANGED <<data_ready, event_id, poller>>,
           UNCHANGED <<phase, reader, consumed>>
    PROVE  PostsInv'
  <1> DEFINE inc == Cardinality(Posting("inc"))
             set == Cardinality(Posting("set"))
  <1>1. /\ inc \in Nat /\ set \in Nat /\ data_ready \in {0, 1}
        /\ event_id \in Nat /\ consumed \in Nat /\ MaxEvents \in Nat
        /\ event_id + inc <= MaxEvents /\ consumed + set <= event_id
        /\ FlagOfExit \/ consumed + data_ready + set <= event_id
    BY FS_CardinalityType, BlockingAssumption
       DEF PostsInv, BlockingInv, Types
  <1>2. FlagOfExit' <=> FlagOfExit
    <2>1. UNCHANGED poller \/ wake_up
      BY DEF post_event, post_inc, post_set, post_wake
    <2> QED BY <2>1, PostKeepsUse
  <1>3. \A r \in Readers :
           reader'[r].pc = "load" => consumed' # 0 /\ phase' # "unloaded"
    BY DEF PostsInv
  <1>4. phase' \in {"unloaded", "loading", "misc"} =>
           FlagOfExit \/ event_id = 0
    BY DEF PostsInv
  <1>5. CASE post_inc(p)
    <2>1. /\ Producing(p, "inc", "set") /\ event_id' = event_id + 1
          /\ UNCHANGED data_ready /\ producer[p] # "idle"
      BY <1>5 DEF post_inc, Producing
    <2>2. /\ IsFiniteSet(Posting("inc")') /\ IsFiniteSet(Posting("set")')
          /\ Cardinality(Posting("inc")') = inc - 1
          /\ Cardinality(Posting("set")') = set + 1
      BY <2>1, ProducerMoves
    <2>3. phase \notin {"unloaded", "loading", "misc"}
      BY <2>1, IdleProducers
    <2> HIDE DEF inc, set
    <2> QED BY <1>1, <1>2, <1>3, <2>1, <2>2, <2>3 DEF PostsInv
  <1>6. CASE post_set(p)
    <2>1. /\ Producing(p, "set", "wake") /\ event_id' = event_id
          /\ data_ready' = 1
      BY <1>6 DEF post_set
    <2>2. /\ IsFiniteSet(Posting("inc")') /\ IsFiniteSet(Posting("set")')
          /\ Cardinality(Posting("inc")') = inc
          /\ Cardinality(Posting("set")') = set - 1
      BY <2>1, ProducerMoves
    <2> HIDE DEF inc, set
    <2> QED BY <1>1, <1>2, <1>3, <1>4, <2>1, <2>2 DEF PostsInv
  <1>7. CASE Producing(p, "idle", "inc") /\ MayPost
             /\ UNCHANGED <<data_ready, event_id>>
    <2>1. event_id + inc < MaxEvents
      BY <1>7 DEF MayPost, Posting
    <2>2. /\ IsFiniteSet(Posting("inc")') /\ IsFiniteSet(Posting("set")')
          /\ Cardinality(Posting("inc")') = inc + 1
          /\ Cardinality(Posting("set")') = set
      BY <1>7, ProducerMoves
    <2> HIDE DEF inc, set
    <2> QED BY <1>1, <1>2, <1>3, <1>4, <1>7, <2>1, <2>2 DEF PostsInv
  <1>8. CASE /\ post_wake(p) \/ Producing(p, "rearm", "idle")
             /\ UNCHANGED <<data_ready, event_id>>
    <2>1. PICK from \in {"wake", "rearm"}, to \in {"rearm", "idle"} :
             from # to /\ Producing(p, from, to)
      BY <1>8 DEF post_wake
    <2>2. /\ IsFiniteSet(Posting("inc")') /\ IsFiniteSet(Posting("set")')
          /\ Cardinality(Posting("inc")') = inc
          /\ Cardinality(Posting("set")') = set
      BY <2>1, ProducerMoves
    <2> HIDE DEF inc, set
    <2> QED BY <1>1, <1>2, <1>3, <1>4, <1>8, <2>2 DEF PostsInv
  <1> QED BY <1>5, <1>6, <1>7, <1>8 DEF post_event, post_wake

(* A reader consumes an event, then loads its id; its other steps have to  *)
(* do with neither.                                                        *)
ReadEffect(r) ==
    \/ /\ reader[r].pc = "xchg" /\ reader'[r].pc = "load"
       /\ data_ready = 1 /\ data_ready' = 0 /\ consumed' = consumed + 1
       /\ UNCHANGED deliveries
    \/ /\ reader[r].pc = "load" /\ reader'[r].pc = "copy"
       /\ deliveries' = [deliveries EXCEPT ![event_id] = @ + 1]
       /\ UNCHANGED <<data_ready, consumed>>
    \/ /\ reader[r].pc # "load" /\ reader'[r].pc # "load"
       /\ UNCHANGED <<data_ready, consumed, deliveries>>

LEMMA ReaderReads ==
    ASSUME BlockingInv, NEW r \in Readers, reader_user(r) \/ bq_read(r)
    PROVE  ReadEffect(r)
  <1>1. /\ reader \in [Readers -> ReaderState] /\ reader[r] \in ReaderState
        /\ Types
    BY DEF BlockingInv, Types
  <1>2. {"xchg", "inc", "check", "prepare", "recheck", "sleep", "dec", "load",
         "copy"} \subseteq ReaderPCs
    BY DEF ReaderPCs, InRead, Waiting
  <1>3. ASSUME NEW from, NEW to \in ReaderPCs, Reading(r, from, to)
        PROVE  reader[r].pc = from /\ reader'[r].pc = to
    BY <1>1, <1>3, ReaderGoes DEF Reading
  <1>4. ASSUME NEW pos \in 0..LineLen, Return(r, pos)
        PROVE  reader'[r].pc = "open"
    BY <1>1, <1>4, ReaderReturns
  <1>5. reader[r].ppos \in 0..LineLen /\ LineLen \in Nat
    BY <1>1, BlockingAssumption DEF ReaderState
  <1>6. CASE reader_user(r)
    <2>1. UNCHANGED <<data_ready, consumed, deliveries>>
      BY <1>6 DEF reader_user, ghosts
    <2>2. reader[r].pc # "load" /\ reader'[r].pc # "load"
      BY <1>1, <1>6
         DEF reader_user, Reading, NoFile, Waiting, ReaderState
    <2> QED BY <2>1, <2>2 DEF ReadEffect
  <1>7. CASE xchg_takes(r)
    BY <1>2, <1>3, <1>7 DEF xchg_takes, after_xchg, ReadEffect
  <1>8. CASE read_load(r)
    BY <1>2, <1>3, <1>8 DEF read_load, ReadEffect
  <1>9. CASE xchg_fails(r) \/ read_dec(r)
    <2>1. /\ UNCHANGED <<data_ready, consumed, deliveries>>
          /\ reader[r].pc \in {"xchg", "dec"}
      BY <1>9 DEF xchg_fails, read_dec, ghosts
    <2>2. reader'[r].pc \in {"open", "inc", "xchg"}
      BY <1>2, <1>3, <1>4, <1>5, <1>9 DEF xchg_fails, read_dec
    <2> QED BY <2>1, <2>2 DEF ReadEffect
  <1>10. CASE read_copy(r)
    <2>1. PICK pos \in reader[r].ppos..LineLen : Return(r, pos)
      BY <1>10 DEF read_copy
    <2>2. pos \in 0..LineLen
      BY <1>5
    <2>3. reader'[r].pc = "open"
      BY <1>4, <2>1, <2>2
    <2> QED BY <1>10, <2>3 DEF read_copy, ghosts, ReadEffect
  <1>11. CASE read_inc(r) \/ wait_check(r) \/ wait_wakes(r)
    <2>1. UNCHANGED <<data_ready, consumed, deliveries>>
      BY <1>11 DEF read_inc, wait_check, wait_wakes, ghosts
    <2>2. PICK from, to \in ReaderPCs : Reading(r, from, to) /\
             from # "load" /\ to # "load"
      BY <1>2, <1>11 DEF read_inc, wait_check, wait_wakes
    <2> QED BY <1>3, <2>1, <2>2 DEF ReadEffect
  <1>12. CASE wait_prepare(r) \/ wait_recheck(r)
    <2>1. /\ UNCHANGED <<data_ready, consumed, deliveries>>
          /\ reader[r].pc \in {"prepare", "recheck"}
      BY <1>12 DEF wait_prepare, wait_recheck, Reading, ghosts
    <2>2. reader'[r].pc \in {"recheck", "dec", "sleep"}
      BY <1>1, <1>12 DEF wait_prepare, wait_recheck, Reading, ReaderState
    <2> QED BY <2>1, <2>2 DEF ReadEffect
  <1> QED BY <1>6, <1>7, <1>8, <1>9, <1>10, <1>11, <1>12
         DEF bq_read, wait_event_interruptible

(* What a reader consumes has been announced, and the id it loads is that  *)
(* of an event.                                                            *)
LEMMA PostsFollowReader ==
    ASSUME BlockingInv, PostsInv, NEW r \in Readers,
           reader_user(r) \/ bq_read(r)
    PROVE  PostsInv'
  <1> DEFINE set == Cardinality(Posting("set"))
  <1>1. /\ ReadEffect(r)
        /\ \A s \in Readers : s # r => reader'[s] = reader[s]
        /\ reader[r].pc = "closed" => DeviceOpenable
        /\ UNCHANGED <<phase, event_id, producer>>
    BY ReaderReads, ReaderKeeps DEF ReaderEffect, life
  <1>2. /\ Posting("inc")' = Posting("inc") /\ Posting("set")' = Posting("set")
        /\ set \in Nat /\ data_ready \in {0, 1}
        /\ event_id \in Nat /\ consumed \in Nat
    BY <1>1, FS_CardinalityType DEF Posting, PostsInv, BlockingInv, Types
  <1>3. ~FlagOfExit
    BY <1>1 DEF FlagOfExit, ModuleUnused, DeviceOpenable
  <1>4. consumed + data_ready + set <= event_id
    BY <1>3 DEF PostsInv
  <1> HIDE DEF set
  <1>5. /\ consumed' \in Nat /\ consumed' + data_ready' + set <= event_id
        /\ consumed' + set <= event_id
        /\ consumed # 0 => consumed' # 0
    BY <1>1, <1>2, <1>4 DEF ReadEffect
  <1>6. reader'[r].pc = "load" => consumed' # 0 /\ phase # "unloaded"
    <2>1. SUFFICES ASSUME reader'[r].pc = "load"
                   PROVE  consumed' # 0 /\ phase # "unloaded"
      OBVIOUS
    <2>2. consumed' = consumed + 1 /\ data_ready = 1
      BY <1>1, <2>1 DEF ReadEffect
    <2>3. event_id # 0
      BY <1>2, <1>4, <2>2
    <2>4. phase # "unloaded"
      BY <1>3, <2>3 DEF PostsInv
    <2> QED BY <1>2, <2>2, <2>4
  <1>7. phase \in {"unloaded", "loading", "misc"} => event_id = 0
    BY <1>3 DEF PostsInv
  <1> QED BY <1>1, <1>2, <1>5, <1>6, <1>7 DEF PostsInv, set

(* insmod starts from zero; exit sets the flag when nobody can read it.    *)
LEMMA PostsFollowModule ==
    ASSUME BlockingInv, PostsInv, BlockingInv',
           insmod \/ wait_queues_blocking_init \/ wait_queues_blocking_exit
    PROVE  PostsInv'
  <1> DEFINE set == Cardinality(Posting("set"))
  <1>1. /\ Posting("inc")' = Posting("inc") /\ Posting("set")' = Posting("set")
        /\ UNCHANGED <<reader, producer>>
    BY DEF insmod, wait_queues_blocking_init, wait_queues_blocking_exit,
           Posting
  <1>2. /\ set \in Nat /\ data_ready \in {0, 1} /\ event_id \in Nat
        /\ consumed \in Nat /\ consumed + set <= event_id
        /\ FlagOfExit \/ consumed + data_ready + set <= event_id
    BY FS_CardinalityType DEF PostsInv, BlockingInv, Types
  <1>3. CASE insmod
    <2>1. phase = "unloaded" /\ phase' = "loading"
      BY <1>3 DEF insmod, Advance
    <2>2. Posting("inc") = {} /\ Posting("set") = {}
      BY <2>1, IdleProducers DEF Posting
    <2>3. event_id' = 0 /\ consumed' = 0 /\ data_ready' = 0
      BY <1>3 DEF insmod
    <2>4. \A r \in Readers : reader[r].pc # "load"
      BY <2>1 DEF PostsInv
    <2>5. Cardinality({}) = 0 /\ IsFiniteSet({}) /\ MaxEvents \in Nat
      BY FS_EmptySet, BlockingAssumption
    <2> QED BY <1>1, <2>1, <2>2, <2>3, <2>4, <2>5 DEF PostsInv
  <1>4. CASE wait_queues_blocking_init
    <2>1. /\ UNCHANGED <<data_ready, event_id, consumed>>
          /\ phase \in {"loading", "misc"}
      BY <1>4 DEF wait_queues_blocking_init, init_misc, init_sysfs, Advance,
                  ghosts
    <2>2. event_id = 0 /\ ~FlagOfExit
      BY <2>1 DEF PostsInv, FlagOfExit
    <2>3. consumed = 0
      BY <1>2, <2>2
    <2>4. consumed + data_ready + set <= event_id
      BY <1>2, <2>2
    <2> QED BY <1>1, <2>1, <2>2, <2>3, <2>4 DEF PostsInv
  <1>5. CASE wait_queues_blocking_exit
    <2>1. /\ UNCHANGED <<event_id, consumed>>
          /\ phase' \notin {"loading", "misc"} /\ phase # "unloaded"
          /\ phase' = "unloaded" => phase = "nosysfs" /\ UNCHANGED poller
          /\ \/ phase' \in {"flagged", "woken", "nosysfs", "unloaded"}
             \/ UNCHANGED data_ready /\ ~FlagOfExit
      BY <1>5 DEF wait_queues_blocking_exit, exit_shutdown_timer,
                  exit_set_ready, exit_wake_all, exit_wait, Advance, ghosts,
                  FlagOfExit
    <2>2. phase' \in {"flagged", "woken", "nosysfs", "unloaded"} =>
             FlagOfExit'
      BY <1>1, <2>1 DEF BlockingInv, ExitUnused, ModuleUnused, FlagOfExit
    <2>3. FlagOfExit' \/ consumed' + data_ready' + set <= event_id'
      BY <1>2, <2>1, <2>2
    <2>4. phase' = "unloaded" => \A r \in Readers : reader[r].pc # "load"
      BY <2>1 DEF BlockingInv, ExitUnused, ModuleUnused
    <2>5. \A r \in Readers : reader[r].pc = "load" => consumed # 0
      BY DEF PostsInv
    <2> QED BY <1>1, <1>2, <2>1, <2>2, <2>3, <2>4, <2>5 DEF PostsInv
  <1> QED BY <1>3, <1>4, <1>5

LEMMA PostsStep ==
    ASSUME BlockingInv, PostsInv, [Next]_vars
    PROVE  PostsInv'
  <1>1. ASSUME UNCHANGED <<phase, event_id, producer, reader, data_ready,
                           consumed>>,
               UNCHANGED poller \/ ~FlagOfExit
        PROVE  PostsInv'
    <2>1. Posting("inc")' = Posting("inc") /\ Posting("set")' = Posting("set")
      BY <1>1 DEF Posting
    <2>2. FlagOfExit => FlagOfExit'
      BY <1>1 DEF FlagOfExit, ModuleUnused
    <2> QED BY <1>1, <2>1, <2>2 DEF PostsInv
  <1>2. ASSUME NEW q \in Pollers, poll_user(q) \/ bq_poll(q)
        PROVE  PostsInv'
    <2>1. PollerEffect(q)
      BY <1>2, PollerKeeps
    <2>2. ~FlagOfExit
      BY <2>1 DEF PollerEffect, FlagOfExit, ModuleUnused, DeviceOpenable
    <2> QED BY <1>1, <1>2, <2>1, <2>2
           DEF PollerEffect, life, poll_user, bq_poll, ghosts
  <1>3. CASE producer_fn
    <2>1. TIMER \in Producers
      BY DEF Producers
    <2> QED BY <1>3, <2>1, PostsFollowProducer
           DEF producer_fn, producer_expire, producer_rearm, ghosts
  <1>4. ASSUME NEW t \in Triggers, trigger_begin(t) \/ trigger_store(t)
        PROVE  PostsInv'
    <2>1. t \in Producers
      BY DEF Producers
    <2> QED BY <1>4, <2>1, PostsFollowProducer
           DEF trigger_begin, trigger_store, life, ghosts
  <1>5. CASE UNCHANGED vars
    BY <1>1, <1>5 DEF vars, life, ghosts
  <1>6. BlockingInv'
    BY BlockingStep
  <1> QED BY <1>2, <1>3, <1>4, <1>5, <1>6, PostsFollowReader,
             PostsFollowModule DEF Next

(* A reader that loads an id has consumed an event before.                 *)
LEMMA ReturnsFollowReader ==
    ASSUME BlockingInv, PostsInv, ReturnsInv, NEW r \in Readers,
           reader_user(r) \/ bq_read(r)
    PROVE  ReturnsInv'
  <1>1. /\ ReadEffect(r) /\ \A s \in Readers : s # r => reader'[s] = reader[s]
    BY ReaderReads, ReaderKeeps DEF ReaderEffect
  <1>2. /\ IsFiniteSet(Loading) /\ IsFiniteSet(Loading')
        /\ IsFiniteSet(Returned)
        /\ Cardinality(Loading) \in Nat /\ Cardinality(Returned) \in Nat
        /\ consumed = Cardinality(Returned) + Cardinality(Loading)
        /\ deliveries \in [0..MaxEvents -> Nat] /\ deliveries[0] = 0
    BY FS_Subset, FS_CardinalityType, BlockingAssumption
       DEF Loading, ReturnsInv
  <1>3. CASE reader[r].pc # "load" /\ UNCHANGED deliveries
    <2>1. Returned' = Returned
      BY <1>3 DEF Returned
    <2>2. CASE reader'[r].pc = "load" /\ consumed' = consumed + 1
      <3>1. Loading' = Loading \cup {r} /\ r \notin Loading
        BY <1>1, <1>3, <2>2 DEF Loading
      <3>2. Cardinality(Loading') = Cardinality(Loading) + 1
        BY <1>2, <3>1, FS_AddElement
      <3> QED BY <1>2, <1>3, <2>1, <2>2, <3>2 DEF ReturnsInv
    <2>3. CASE reader'[r].pc # "load" /\ consumed' = consumed
      <3>1. Loading' = Loading
        BY <1>1, <1>3, <2>3 DEF Loading
      <3> QED BY <1>2, <1>3, <2>1, <2>3, <3>1 DEF ReturnsInv
    <2> QED BY <1>1, <1>3, <2>2, <2>3 DEF ReadEffect
  <1>4. CASE /\ reader[r].pc = "load" /\ reader'[r].pc = "copy"
             /\ deliveries' = [deliveries EXCEPT ![event_id] = @ + 1]
             /\ consumed' = consumed
    <2>1. event_id \in 0..MaxEvents /\ event_id # 0
      <3>1. /\ event_id \in Nat /\ consumed \in Nat /\ consumed # 0
            /\ Cardinality(Posting("inc")) \in Nat
            /\ Cardinality(Posting("set")) \in Nat
            /\ event_id + Cardinality(Posting("inc")) <= MaxEvents
            /\ consumed + Cardinality(Posting("set")) <= event_id
            /\ MaxEvents \in Nat
        BY <1>4, FS_CardinalityType, BlockingAssumption DEF PostsInv
      <3> QED BY <3>1
    <2>2. PICK n \in Nat : n = deliveries[event_id]
      BY <1>2, <2>1
    <2>3. /\ deliveries' \in [0..MaxEvents -> Nat] /\ deliveries'[0] = 0
          /\ deliveries'[event_id] = n + 1
          /\ \A e \in 0..MaxEvents :
                e # event_id => deliveries'[e] = deliveries[e]
      BY <1>2, <1>4, <2>1, <2>2
    <2>4. Returned' = Returned \cup {<<event_id, n>>}
      <3>1. ASSUME NEW e \in 0..MaxEvents, NEW m \in Nat
            PROVE  m < deliveries'[e] <=>
                      m < deliveries[e] \/ (e = event_id /\ m = n)
        BY <2>2, <2>3
      <3> QED BY <2>1, <3>1 DEF Returned
    <2>5. <<event_id, n>> \notin Returned
      BY <2>2 DEF Returned
    <2>6. /\ IsFiniteSet(Returned')
          /\ Cardinality(Returned') = Cardinality(Returned) + 1
      BY <1>2, <2>4, <2>5, FS_AddElement
    <2>7. Loading' = Loading \ {r} /\ r \in Loading
      BY <1>1, <1>4 DEF Loading
    <2>8. Cardinality(Loading') = Cardinality(Loading) - 1
      BY <1>2, <2>7, FS_RemoveElement
    <2> QED BY <1>2, <1>4, <2>3, <2>6, <2>8 DEF ReturnsInv
  <1> QED BY <1>1, <1>3, <1>4 DEF ReadEffect

LEMMA ReturnsStep ==
    ASSUME BlockingInv, PostsInv, ReturnsInv, [Next]_vars
    PROVE  ReturnsInv'
  <1>1. ASSUME UNCHANGED <<reader, consumed, deliveries>> PROVE ReturnsInv'
    BY <1>1 DEF ReturnsInv, Returned, Loading
  <1>2. CASE insmod
    <2>1. /\ consumed' = 0 /\ deliveries' = [e \in 0..MaxEvents |-> 0]
          /\ UNCHANGED reader /\ phase = "unloaded"
      BY <1>2 DEF insmod, Advance
    <2>2. Loading' = {}
      BY <2>1 DEF Loading, PostsInv
    <2>3. Returned' = {}
      BY <2>1 DEF Returned
    <2>4. 0 \in 0..MaxEvents
      BY BlockingAssumption
    <2> QED BY <2>1, <2>2, <2>3, <2>4, FS_EmptySet DEF ReturnsInv
  <1>3. CASE wait_queues_blocking_init \/ wait_queues_blocking_exit
             \/ producer_fn
    BY <1>1, <1>3 DEF wait_queues_blocking_init, wait_queues_blocking_exit,
                      producer_fn, ghosts
  <1>4. CASE \E t \in Triggers : trigger_begin(t) \/ trigger_store(t)
    BY <1>1, <1>4 DEF trigger_begin, trigger_store, ghosts
  <1>5. CASE \E q \in Pollers : poll_user(q) \/ bq_poll(q)
    BY <1>1, <1>5 DEF poll_user, bq_poll, ghosts
  <1>6. CASE UNCHANGED vars
    BY <1>1, <1>6 DEF vars, ghosts
  <1> QED BY <1>2, <1>3, <1>4, <1>5, <1>6, ReturnsFollowReader DEF Next

LEMMA EventsInductive == Spec => [](BlockingInv /\ PostsInv /\ ReturnsInv)
  <1>1. ASSUME Init PROVE BlockingInv /\ PostsInv /\ ReturnsInv
    <2>1. /\ phase = "unloaded" /\ data_ready = 0 /\ event_id = 0
          /\ consumed = 0 /\ deliveries = [e \in 0..MaxEvents |-> 0]
          /\ \A p \in Producers : producer[p] = "idle"
          /\ \A r \in Readers : reader[r].pc = "closed"
          /\ MaxEvents \in Nat
      BY <1>1, BlockingAssumption DEF Init, NoFile
    <2>2. Posting("inc") = {} /\ Posting("set") = {}
      BY <2>1 DEF Posting
    <2>3. Returned = {} /\ Loading = {}
      BY <2>1 DEF Returned, Loading
    <2>4. 0 \in 0..MaxEvents
      BY <2>1
    <2>5. IsFiniteSet({}) /\ Cardinality({}) = 0
      BY FS_EmptySet
    <2>6. PostsInv
      <3>1. /\ IsFiniteSet(Posting("inc")) /\ IsFiniteSet(Posting("set"))
            /\ Cardinality(Posting("inc")) = 0
            /\ Cardinality(Posting("set")) = 0
        BY <2>2, <2>5, Zenon
      <3>2. 0 \in Nat /\ 0 + 0 <= MaxEvents /\ 0 + 0 <= 0 /\ 0 + 0 + 0 <= 0
        BY <2>1
      <3> QED BY <2>1, <3>1, <3>2 DEF PostsInv
    <2>7. ReturnsInv
      BY <2>1, <2>3, <2>4, <2>5 DEF ReturnsInv
    <2> QED BY <1>1, <2>6, <2>7, BlockingInit
  <1>2. BlockingInv /\ PostsInv /\ ReturnsInv /\ [Next]_vars
            => (BlockingInv /\ PostsInv /\ ReturnsInv)'
    BY BlockingStep, PostsStep, ReturnsStep
  <1> QED BY <1>1, <1>2, PTL DEF Spec

(* Reads return no event that was not posted, nor more events than were    *)
(* posted.                                                                 *)
EventsSuffice ==
    Cardinality(Returned) <= event_id /\ deliveries[0] = 0

(* Two reads of wait_queues_blocking.c may return the same id, since flag  *)
(* and id are read apart; another event is then returned by nobody.  The   *)
(* atomic_xchg() still gives every event that is announced to at most one  *)
(* read.                                                                   *)
THEOREM ReadsAreCovered == Spec => []EventsSuffice
  <1>1. PostsInv /\ ReturnsInv => EventsSuffice
    <2> SUFFICES ASSUME PostsInv, ReturnsInv PROVE EventsSuffice
      OBVIOUS
    <2>1. /\ Cardinality(Returned) \in Nat
          /\ Cardinality(Posting("set")) \in Nat
          /\ event_id \in Nat
          /\ consumed + Cardinality(Posting("set")) <= event_id
          /\ Cardinality(Returned) + Cardinality(Loading) = consumed
          /\ deliveries[0] = 0
      BY FS_CardinalityType DEF PostsInv, ReturnsInv
    <2>2. Cardinality(Loading) \in Nat
      BY FS_Subset, FS_CardinalityType, BlockingAssumption DEF Loading
    <2> QED BY <2>1, <2>2 DEF EventsSuffice
  <1> QED BY <1>1, EventsInductive, PTL

(* Every variable has its type, the bound on events included.  A reader    *)
(* that waits in a file of an init that failed would see insmod reset      *)
(* waiter_count and then take it below 0.                                  *)
THEOREM BlockingTypes ==
    ASSUME NoOpenOfFailedInit
    PROVE  Spec => []TypeOK
  <1>1. BlockingInv /\ PostsInv /\ ReturnsInv /\ WaiterCountExact => TypeOK
    <2> SUFFICES ASSUME BlockingInv, PostsInv, ReturnsInv, WaiterCountExact
                 PROVE  TypeOK
      OBVIOUS
    <2>1. event_id \in 0..MaxEvents
      <3>1. /\ event_id \in Nat /\ Cardinality(Posting("inc")) \in Nat
            /\ event_id + Cardinality(Posting("inc")) <= MaxEvents
            /\ MaxEvents \in Nat
        BY FS_CardinalityType, BlockingAssumption DEF PostsInv
      <3> QED BY <3>1
    <2>2. waiter_count \in Nat
      BY FS_Subset, FS_CardinalityType, BlockingAssumption
         DEF WaiterCountExact
    <2> QED BY <2>1, <2>2
           DEF BlockingInv, Types, PostsInv, ReturnsInv, TypeOK
  <1> QED BY <1>1, EventsInductive, WaitersAreCounted, PTL

-----------------------------------------------------------------------------
(* While the module is loaded the timer is armed or its callback runs, and *)
(* mod_timer() will not be refused.                                        *)
ProducerKept ==
    phase = "live" =>
        /\ "shut" \notin producer_timer
        /\ producer_timer \cap {"armed", "running"} # {}

(* producer_fn() arms its timer in every run, so events go on being posted *)
(* until exit shuts the timer down.                                        *)
THEOREM ProducerIsKept == Spec => []ProducerKept
  <1>1. Init => ProducerKept
    BY DEF Init, ProducerKept
  <1>2. ASSUME ProducerKept, [Next]_vars PROVE ProducerKept'
    <2>1. ASSUME UNCHANGED <<phase, producer_timer>> PROVE ProducerKept'
      BY <1>2, <2>1 DEF ProducerKept
    <2>2. CASE producer_fn
      <3>1. CASE producer_expire
        BY <1>2, <2>2, <3>1
           DEF producer_fn, producer_expire, timer_expire, ProducerKept
      <3>2. CASE producer_rearm
        BY <1>2, <2>2, <3>2
           DEF producer_fn, producer_rearm, timer_return, mod_timer,
               ProducerKept
      <3>3. CASE post_event(TIMER)
        BY <2>1, <2>2, <3>3
           DEF producer_fn, post_event, post_inc, post_set, post_wake
      <3> QED BY <2>2, <3>1, <3>2, <3>3 DEF producer_fn
    <2>3. CASE wait_queues_blocking_init
      BY <2>3 DEF wait_queues_blocking_init, init_misc, init_sysfs, Advance,
                  mod_timer, timer_setup, ProducerKept
    <2>4. CASE insmod \/ wait_queues_blocking_exit
      BY <2>4 DEF insmod, wait_queues_blocking_exit, exit_shutdown_timer,
                  exit_set_ready, exit_wake_all, exit_wait, Advance,
                  ProducerKept
    <2>5. ASSUME NEW t \in Triggers, trigger_begin(t) \/ trigger_store(t)
          PROVE  ProducerKept'
      BY <2>1, <2>5 DEF trigger_begin, trigger_store, post_event, post_inc,
                        post_set, post_wake, life
    <2>6. ASSUME NEW r \in Readers, reader_user(r) \/ bq_read(r)
          PROVE  ProducerKept'
      BY <2>1, <2>6 DEF reader_user, bq_read, life
    <2>7. ASSUME NEW q \in Pollers, poll_user(q) \/ bq_poll(q)
          PROVE  ProducerKept'
      BY <2>1, <2>7 DEF poll_user, bq_poll, life
    <2>8. CASE UNCHANGED vars
      BY <2>1, <2>8 DEF vars, life
    <2> QED BY <1>2, <2>2, <2>3, <2>4, <2>5, <2>6, <2>7, <2>8 DEF Next
  <1> QED BY <1>1, <1>2, PTL DEF Spec
=============================================================================
