-------------------------- MODULE RaceDemo_proofs --------------------------
(***************************************************************************)
(* Proofs about lab 11, for every number of writers, resetters, bytes,     *)
(* writes, resets and switches of the mode.                                *)
(***************************************************************************)
EXTENDS LockLabs_proofs

RaceWriterState ==
    [pc : {"idle", "loop", "load", "spin_lock", "mutex_lock", "inc", "store"},
     n : Nat, i : Nat, tmp : Nat]

ResetterState == [pc : {"idle", "plain", "atomic", "load", "count"}, tmp : Nat]

RaceTypes ==
    /\ race_loaded \in BOOLEAN
    /\ mode \in Race!Modes
    /\ counter_plain \in Nat /\ counter_atomic \in Nat /\ reset_count \in Nat
    /\ race_writer \in [Writers -> RaceWriterState]
    /\ resetter \in [Resetters -> ResetterState]
    /\ calls \in [write : Nat, reset : Nat, mode : Nat]
    /\ trial \in [written : Nat, fair : BOOLEAN]

(* The increments that writers have accepted and not yet made, one element *)
(* for each.  Its cardinality is the sum of n - i over the writers.        *)
Owes(me, k) == me.i < k /\ k <= me.n

Owed == {x \in Writers \X Nat : Owes(race_writer[x[1]], x[2])}

owed == Cardinality(Owed)

(* A writer that is in increment_once() has one to make.                   *)
PlaceOK(me) ==
    /\ me.pc = "idle" => me.n = 0 /\ me.i = 0
    /\ me.i <= me.n
    /\ me.pc \notin {"idle", "loop"} => me.i < me.n

(* Without a reset since the module was loaded, counters and loads are     *)
(* bounded by the increments made so far.                                  *)
NeverMadeUp ==
    calls.reset = 0 =>
        /\ counter_plain + counter_atomic + owed <= trial.written
        /\ \A w \in Writers : race_writer[w].pc = "store" =>
              race_writer[w].tmp + counter_atomic + owed <= trial.written

(* In a fair trial whoever increments is where the mode sends it, and      *)
(* holds the lock of the mode.                                             *)
ModeOK(w) ==
    \/ mode = "none"
    \/ race_writer[w].pc \in {"idle", "loop"}
    \/ /\ mode = "spinlock"
       /\ \/ race_writer[w].pc = "spin_lock"
          \/ race_writer[w].pc \in {"load", "store"} /\ counter_spinlock = w
    \/ /\ mode = "mutex"
       /\ \/ race_writer[w].pc = "mutex_lock"
          \/ race_writer[w].pc \in {"load", "store"} /\ counter_mutex = w
    \/ mode = "atomic" /\ race_writer[w].pc = "inc"

LoadOK(w) ==
    race_writer[w].pc = "store" /\ mode # "none" =>
        race_writer[w].tmp = counter_plain

(* In a fair trial a reset under way is alone.                             *)
ResetOK(r) ==
    resetter[r].pc # "idle" =>
        /\ trial.written = 0
        /\ Race!WritersIdle
        /\ \A s \in Resetters : s # r => resetter[s].pc = "idle"
        /\ resetter[r].pc # "plain" => counter_plain = 0
        /\ resetter[r].pc \in {"load", "count"} => counter_atomic = 0

(* In a fair trial the counter that is shown has all that is not owed.     *)
CountExact ==
    Race!ResettersIdle =>
        /\ trial.written = 0 => counter_plain = 0 /\ counter_atomic = 0
        /\ mode # "none" => Race!current_counter_value + owed = trial.written

FairTrial ==
    trial.fair =>
        /\ owed <= trial.written
        /\ \A w \in Writers : ModeOK(w) /\ LoadOK(w)
        /\ \A r \in Resetters : ResetOK(r)
        /\ CountExact

RaceLife == ~race_loaded => Race!WritersIdle /\ Race!ResettersIdle

RaceInv ==
    /\ RaceTypes
    /\ IsFiniteSet(Owed)
    /\ \A w \in Writers : PlaceOK(race_writer[w])
    /\ NeverMadeUp
    /\ FairTrial
    /\ RaceLife

(* Writer w has the record new; the others keep theirs.                    *)
RaceWriterBecomes(w, new) ==
    /\ race_writer' \in [Writers -> RaceWriterState]
    /\ race_writer'[w] = new
    /\ \A v \in Writers : v # w => race_writer'[v] = race_writer[v]

(* WriterSet() with a record of the right type does that.                  *)
LEMMA RaceSetBecomes ==
    ASSUME RaceTypes, NEW w \in Writers, NEW new \in RaceWriterState,
           Race!WriterSet(w, new)
    PROVE  RaceWriterBecomes(w, new)
  BY DEF RaceTypes, Race!WriterSet, RaceWriterBecomes

(* The record of a writer that is not in race_write().                     *)
LEMMA IdleRaceWriter ==
    /\ Race!IdleWriter \in RaceWriterState
    /\ Race!IdleWriter.pc = "idle"
    /\ Race!IdleWriter.n = 0 /\ Race!IdleWriter.i = 0
  BY DEF Race!IdleWriter, RaceWriterState

(* What is owed is a number, and nothing when all writers are idle.        *)
LEMMA OwedNumber ==
    ASSUME RaceInv
    PROVE  /\ owed \in Nat
           /\ Race!WritersIdle => owed = 0
           /\ owed = 0 => \A w \in Writers :
                 race_writer[w].pc \in {"idle", "loop"}
  <1>1. owed \in Nat
    BY FS_CardinalityType DEF RaceInv, owed
  <1>2. ASSUME Race!WritersIdle PROVE owed = 0
    <2>1. Owed = {}
      BY <1>2 DEF RaceInv, PlaceOK, Owed, Owes, Race!WritersIdle
    <2> QED BY <2>1, FS_EmptySet DEF owed
  <1>3. ASSUME owed = 0, NEW w \in Writers
        PROVE  race_writer[w].pc \in {"idle", "loop"}
    <2>1. Owed = {}
      BY <1>3, FS_EmptySet DEF RaceInv, owed
    <2>2. PICK me : me = race_writer[w]
      OBVIOUS
    <2>3. me \in RaceWriterState /\ PlaceOK(me)
      BY <2>2 DEF RaceInv, RaceTypes
    <2>4. me.pc \notin {"idle", "loop"} => me.i + 1 \in Nat /\ Owes(me, me.i + 1)
      BY <2>3 DEF RaceWriterState, PlaceOK, Owes
    <2>5. me.pc \notin {"idle", "loop"} => <<w, me.i + 1>> \in Owed
      BY <2>2, <2>4 DEF Owed
    <2> QED BY <2>1, <2>2, <2>5
  <1> QED BY <1>1, <1>2, <1>3

(* A step of writer w that makes no increment and accepts none changes     *)
(* nothing that is owed.                                                   *)
LEMMA OwedSame ==
    ASSUME NEW w \in Writers, NEW new, RaceWriterBecomes(w, new),
           \A k \in Nat : Owes(new, k) <=> Owes(race_writer[w], k)
    PROVE  Owed' = Owed /\ owed' = owed
  <1>1. Owed' = {x \in Writers \X Nat : Owes(race_writer'[x[1]], x[2])}
    BY DEF Owed, Owes
  <1>2. \A x \in Writers \X Nat :
           Owes(race_writer'[x[1]], x[2]) <=> Owes(race_writer[x[1]], x[2])
    BY DEF RaceWriterBecomes
  <1>3. Owed' = Owed
    BY <1>1, <1>2 DEF Owed
  <1> QED BY <1>3 DEF owed

(* An increment pays one.                                                  *)
LEMMA OwedPaid ==
    ASSUME RaceInv, NEW w \in Writers, NEW new, RaceWriterBecomes(w, new),
           race_writer[w].i < race_writer[w].n,
           new.i = race_writer[w].i + 1, new.n = race_writer[w].n
    PROVE  IsFiniteSet(Owed)' /\ owed >= 1 /\ owed' = owed - 1
  <1>1. PICK me : me = race_writer[w]
    OBVIOUS
  <1>2. me.i \in Nat /\ me.n \in Nat
    BY <1>1 DEF RaceInv, RaceTypes, RaceWriterState
  <1>3. PICK k \in Nat : k = me.i + 1
    BY <1>2
  <1>4. \A m \in Nat : Owes(new, m) <=> Owes(me, m) /\ m # k
    BY <1>1, <1>2, <1>3 DEF Owes
  <1>5. Owes(me, k)
    BY <1>1, <1>2, <1>3 DEF Owes
  <1>6. <<w, k>> \in Owed
    BY <1>1, <1>5 DEF Owed
  <1>7. Owed' = {x \in Writers \X Nat : Owes(race_writer'[x[1]], x[2])}
    BY DEF Owed, Owes
  <1>8. \A x \in Writers \X Nat :
           Owes(race_writer'[x[1]], x[2]) <=>
              Owes(race_writer[x[1]], x[2]) /\ x # <<w, k>>
    <2> SUFFICES ASSUME NEW v \in Writers, NEW m \in Nat
                 PROVE  Owes(race_writer'[v], m) <=>
                           Owes(race_writer[v], m) /\ <<v, m>> # <<w, k>>
      OBVIOUS
    <2>1. CASE v = w
      BY <1>1, <1>4, <2>1 DEF RaceWriterBecomes
    <2>2. CASE v # w
      BY <2>2 DEF RaceWriterBecomes
    <2> QED BY <2>1, <2>2
  <1>9. Owed' = Owed \ {<<w, k>>}
    BY <1>7, <1>8 DEF Owed
  <1>10. IsFiniteSet(Owed) /\ owed \in Nat /\ owed # 0
    BY <1>6, FS_EmptySet, FS_CardinalityType DEF RaceInv, owed
  <1>11. IsFiniteSet(Owed') /\ Cardinality(Owed') = Cardinality(Owed) - 1
    BY <1>6, <1>9, <1>10, FS_RemoveElement
  <1> QED BY <1>10, <1>11 DEF owed, IsFiniteSet

(* race_write() owes what it accepts.                                      *)
LEMMA OwedTaken ==
    ASSUME RaceInv, NEW w \in Writers, NEW new, RaceWriterBecomes(w, new),
           race_writer[w].pc = "idle", NEW n \in Nat, new.i = 0, new.n = n
    PROVE  IsFiniteSet(Owed)' /\ owed' = owed + n
  <1>1. \A k \in Nat : /\ ~Owes(race_writer[w], k)
                       /\ Owes(new, k) <=> k \in 1..n
    BY DEF RaceInv, PlaceOK, Owes
  <1>2. PICK Taken : Taken = {w} \X (1..n)
    OBVIOUS
  <1>3. Owed' = {x \in Writers \X Nat : Owes(race_writer'[x[1]], x[2])}
    BY DEF Owed, Owes
  <1>4. \A x \in Writers \X Nat :
           Owes(race_writer'[x[1]], x[2]) <=>
              Owes(race_writer[x[1]], x[2]) \/ x \in Taken
    <2> SUFFICES ASSUME NEW v \in Writers, NEW m \in Nat
                 PROVE  Owes(race_writer'[v], m) <=>
                           Owes(race_writer[v], m) \/ <<v, m>> \in Taken
      OBVIOUS
    <2>1. CASE v = w
      BY <1>1, <1>2, <2>1 DEF RaceWriterBecomes
    <2>2. CASE v # w
      BY <1>2, <2>2 DEF RaceWriterBecomes
    <2> QED BY <2>1, <2>2
  <1>5. Taken \subseteq Writers \X Nat
    BY <1>2
  <1>6. Owed' = Owed \cup Taken
    BY <1>3, <1>4, <1>5 DEF Owed
  <1>7. Owed \cap Taken = {}
    <2> SUFFICES ASSUME NEW x \in Owed, x \in Taken PROVE FALSE
      OBVIOUS
    <2>1. /\ x[1] = w /\ x[2] \in Nat
          /\ Owes(race_writer[x[1]], x[2])
      BY <1>2 DEF Owed
    <2> QED BY <1>1, <2>1
  <1>8. IsFiniteSet(1..n) /\ Cardinality(1..n) = n
    BY FS_Interval
  <1>9. IsFiniteSet({w}) /\ Cardinality({w}) = 1
    BY FS_Singleton
  <1>10. IsFiniteSet(Taken) /\ Cardinality(Taken) = n
    <2>1. /\ IsFiniteSet({w} \X (1..n))
          /\ Cardinality({w} \X (1..n)) = Cardinality({w}) * Cardinality(1..n)
      BY <1>8, <1>9, FS_Product, Zenon
    <2>2. Cardinality({w}) * Cardinality(1..n) = n
      BY <1>8, <1>9
    <2> QED BY <1>2, <2>1, <2>2
  <1>11. IsFiniteSet(Owed) /\ Cardinality(Owed) \in Nat
    BY FS_CardinalityType DEF RaceInv
  <1>12. /\ IsFiniteSet(Owed')
         /\ Cardinality(Owed') = Cardinality(Owed) + n - Cardinality({})
    BY <1>6, <1>7, <1>10, <1>11, FS_Union
  <1>13. Cardinality(Owed') = Cardinality(Owed) + n
    BY <1>11, <1>12, FS_EmptySet
  <1> QED BY <1>12, <1>13 DEF owed, IsFiniteSet

(* A reset under way excludes writers from a fair trial.                   *)
LEMMA FairWriter ==
    ASSUME RaceInv, trial.fair, NEW w \in Writers,
           race_writer[w].pc # "idle"
    PROVE  Race!ResettersIdle
  BY DEF RaceInv, FairTrial, ResetOK, Race!WritersIdle, Race!ResettersIdle

(* A step of a writer in race_write() that makes no increment.             *)
LEMMA WriterMoves ==
    ASSUME RaceInv, NEW w \in Writers, NEW new \in RaceWriterState,
           RaceWriterBecomes(w, new),
           race_writer[w].pc # "idle", PlaceOK(new),
           \A k \in Nat : Owes(new, k) <=> Owes(race_writer[w], k),
           new.pc = "store" => new.tmp = counter_plain,
           UNCHANGED <<race_loaded, mode, counter_plain, counter_atomic,
                       reset_count, resetter, calls, trial>>,
           trial.fair => \A v \in Writers : ModeOK(v)'
    PROVE  RaceInv'
  <1>1. RaceTypes'
    BY DEF RaceInv, RaceTypes, RaceWriterBecomes
  <1>2. Owed' = Owed /\ owed' = owed
    BY OwedSame
  <1>3. IsFiniteSet(Owed)'
    BY <1>2 DEF RaceInv, IsFiniteSet
  <1>4. \A v \in Writers : PlaceOK(race_writer'[v])
    BY DEF RaceInv, RaceWriterBecomes
  <1>5. NeverMadeUp'
    BY <1>2 DEF RaceInv, NeverMadeUp, RaceWriterBecomes
  <1>6. FairTrial'
    <2> SUFFICES ASSUME trial.fair
                 PROVE  /\ owed' <= trial.written
                        /\ \A v \in Writers : ModeOK(v)' /\ LoadOK(v)'
                        /\ \A r \in Resetters : ResetOK(r)'
                        /\ CountExact'
      BY DEF FairTrial
    <2>1. \A v \in Writers : LoadOK(v)'
      BY DEF RaceInv, FairTrial, LoadOK, RaceWriterBecomes
    <2>2. Race!ResettersIdle
      BY FairWriter
    <2>3. \A r \in Resetters : ResetOK(r)'
      BY <2>2 DEF ResetOK, Race!ResettersIdle
    <2>4. CountExact'
      BY <1>2 DEF RaceInv, FairTrial, CountExact, Race!ResettersIdle,
                  Race!current_counter_value
    <2> QED BY <1>2, <2>1, <2>3, <2>4 DEF RaceInv, FairTrial
  <1>7. RaceLife'
    BY DEF RaceInv, RaceLife, Race!WritersIdle, Race!ResettersIdle
  <1> QED BY <1>1, <1>3, <1>4, <1>5, <1>6, <1>7 DEF RaceInv, PlaceOK

(* increment_once() reads the mode.                                        *)
LEMMA IncrementBeginKeeps ==
    ASSUME RaceInv, NEW w \in Writers, Race!increment_begin(w)
    PROVE  RaceInv'
  <1>1. PICK to : to = CASE mode = "none"     -> "load"
                         [] mode = "spinlock" -> "spin_lock"
                         [] mode = "mutex"    -> "mutex_lock"
                         [] mode = "atomic"   -> "inc"
    OBVIOUS
  <1>2. PICK me : me = race_writer[w]
    OBVIOUS
  <1>3. PICK new : new = [me EXCEPT !.pc = to]
    OBVIOUS
  <1>4. /\ me \in RaceWriterState /\ PlaceOK(me) /\ mode \in Race!Modes
        /\ RaceTypes
    BY <1>2 DEF RaceInv, RaceTypes
  <1>5. /\ to \in {"load", "spin_lock", "mutex_lock", "inc"}
        /\ mode = "spinlock" => to = "spin_lock"
        /\ mode = "mutex" => to = "mutex_lock"
        /\ mode = "atomic" => to = "inc"
    BY <1>1, <1>4 DEF Race!Modes
  <1>6. /\ new \in RaceWriterState
        /\ new.pc = to /\ new.n = me.n /\ new.i = me.i
    BY <1>3, <1>4, <1>5 DEF RaceWriterState
  <1>7. /\ me.pc = "loop" /\ me.i < me.n
        /\ Race!WriterSet(w, new)
        /\ UNCHANGED <<race_loaded, mode, counter_plain, counter_atomic,
                       reset_count, counter_spinlock, counter_mutex, resetter,
                       calls, trial>>
    BY <1>1, <1>2, <1>3 DEF Race!increment_begin, Race!WriterGoto, Race!more,
       Race!counters, Race!locks
  <1>8. RaceWriterBecomes(w, new)
    BY <1>4, <1>6, <1>7, RaceSetBecomes
  <1>9. /\ PlaceOK(new) /\ new.pc # "store"
        /\ \A k \in Nat : Owes(new, k) <=> Owes(me, k)
    BY <1>4, <1>5, <1>6, <1>7 DEF PlaceOK, Owes
  <1>10. ModeOK(w)'
    BY <1>4, <1>5, <1>6, <1>7, <1>8
       DEF ModeOK, RaceWriterBecomes, Race!Modes
  <1>11. trial.fair => \A v \in Writers : ModeOK(v)'
    BY <1>7, <1>8, <1>10 DEF RaceInv, FairTrial, ModeOK, RaceWriterBecomes
  <1> QED BY <1>2, <1>6, <1>7, <1>8, <1>9, <1>11, WriterMoves

(* It takes the lock that the mode asks for.                               *)
LEMMA IncrementLockKeeps ==
    ASSUME RaceInv, NEW w \in Writers, Race!increment_lock(w)
    PROVE  RaceInv'
  <1>1. PICK me : me = race_writer[w]
    OBVIOUS
  <1>2. PICK new : new = [me EXCEPT !.pc = "load"]
    OBVIOUS
  <1>3. /\ me \in RaceWriterState /\ PlaceOK(me)
        /\ RaceTypes
    BY <1>1 DEF RaceInv, RaceTypes
  <1>4. /\ new \in RaceWriterState
        /\ new.pc = "load" /\ new.n = me.n /\ new.i = me.i
    BY <1>2, <1>3 DEF RaceWriterState
  <1>5. /\ \/ /\ me.pc = "spin_lock" /\ counter_spinlock = FREE
              /\ counter_spinlock' = w /\ UNCHANGED counter_mutex
           \/ /\ me.pc = "mutex_lock" /\ counter_mutex = FREE
              /\ counter_mutex' = w /\ UNCHANGED counter_spinlock
        /\ Race!WriterSet(w, new)
        /\ UNCHANGED <<race_loaded, mode, counter_plain, counter_atomic,
                       reset_count, resetter, calls, trial>>
    BY <1>1, <1>2 DEF Race!increment_lock, Race!WriterGoto, Race!lock_free,
       Race!counters
  <1>6. RaceWriterBecomes(w, new)
    BY <1>3, <1>4, <1>5, RaceSetBecomes
  <1>7. /\ PlaceOK(new) /\ new.pc # "store"
        /\ \A k \in Nat : Owes(new, k) <=> Owes(me, k)
    BY <1>3, <1>4, <1>5 DEF PlaceOK, Owes
  <1>8. ASSUME trial.fair, NEW v \in Writers PROVE ModeOK(v)'
    <2>1. ModeOK(v) /\ v # FREE
      BY <1>8, LockLabsAssumption DEF RaceInv, FairTrial
    <2>2. CASE v = w
      BY <1>1, <1>4, <1>5, <1>6, <2>1, <2>2 DEF ModeOK, RaceWriterBecomes
    <2>3. CASE v # w
      BY <1>5, <1>6, <1>8, <2>1, <2>3 DEF ModeOK, RaceWriterBecomes
    <2> QED BY <2>2, <2>3
  <1> QED BY <1>1, <1>4, <1>5, <1>6, <1>7, <1>8, WriterMoves

(* It loads counter_plain.                                                 *)
LEMMA IncrementLoadKeeps ==
    ASSUME RaceInv, NEW w \in Writers, Race!increment_load(w)
    PROVE  RaceInv'
  <1>1. PICK me : me = race_writer[w]
    OBVIOUS
  <1>2. PICK new : new = [me EXCEPT !.pc = "store", !.tmp = counter_plain]
    OBVIOUS
  <1>3. /\ me \in RaceWriterState /\ PlaceOK(me)
        /\ RaceTypes
    BY <1>1 DEF RaceInv, RaceTypes
  <1>4. /\ new \in RaceWriterState
        /\ new.pc = "store" /\ new.tmp = counter_plain
        /\ new.n = me.n /\ new.i = me.i
    BY <1>2, <1>3 DEF RaceWriterState, RaceTypes
  <1>5. /\ me.pc = "load"
        /\ Race!WriterSet(w, new)
        /\ UNCHANGED <<race_loaded, mode, counter_plain, counter_atomic,
                       reset_count, counter_spinlock, counter_mutex, resetter,
                       calls, trial>>
    BY <1>1, <1>2 DEF Race!increment_load, Race!counters, Race!locks
  <1>6. RaceWriterBecomes(w, new)
    BY <1>3, <1>4, <1>5, RaceSetBecomes
  <1>7. /\ PlaceOK(new)
        /\ \A k \in Nat : Owes(new, k) <=> Owes(me, k)
    BY <1>3, <1>4, <1>5 DEF PlaceOK, Owes
  <1>8. trial.fair => \A v \in Writers : ModeOK(v)'
    BY <1>1, <1>4, <1>5, <1>6 DEF RaceInv, FairTrial, ModeOK,
       RaceWriterBecomes
  <1> QED BY <1>1, <1>4, <1>5, <1>6, <1>7, <1>8, WriterMoves

(* race_write() returns.                                                   *)
LEMMA WriteReturnKeeps ==
    ASSUME RaceInv, NEW w \in Writers, Race!race_write_return(w)
    PROVE  RaceInv'
  <1>1. PICK me : me = race_writer[w]
    OBVIOUS
  <1>2. /\ me \in RaceWriterState /\ PlaceOK(me)
        /\ RaceTypes
    BY <1>1 DEF RaceInv, RaceTypes
  <1>3. /\ me.pc = "loop" /\ ~(me.i < me.n)
        /\ Race!WriterSet(w, Race!IdleWriter)
        /\ UNCHANGED <<race_loaded, mode, counter_plain, counter_atomic,
                       reset_count, counter_spinlock, counter_mutex, resetter,
                       calls, trial>>
    BY <1>1 DEF Race!race_write_return, Race!more, Race!counters, Race!locks
  <1>4. RaceWriterBecomes(w, Race!IdleWriter)
    BY <1>2, <1>3, IdleRaceWriter, RaceSetBecomes
  <1>5. /\ PlaceOK(Race!IdleWriter)
        /\ \A k \in Nat : Owes(Race!IdleWriter, k) <=> Owes(me, k)
    BY <1>2, <1>3, IdleRaceWriter DEF PlaceOK, Owes, RaceWriterState
  <1>6. trial.fair => \A v \in Writers : ModeOK(v)'
    BY <1>1, <1>3, <1>4, IdleRaceWriter DEF RaceInv, FairTrial, ModeOK,
       RaceWriterBecomes
  <1> QED BY <1>1, <1>3, <1>4, <1>5, <1>6, IdleRaceWriter, WriterMoves

(* An increment is made: in a fair trial the counter that is shown gains   *)
(* one, and one less is owed.                                              *)
LEMMA IncrementMade ==
    ASSUME RaceInv, NEW w \in Writers, Race!increment_done(w),
           race_writer[w].pc \in {"store", "inc"},
           UNCHANGED <<race_loaded, mode, reset_count, resetter, calls, trial>>,
           counter_plain' \in Nat, counter_atomic' \in Nat,
           calls.reset = 0 =>
              /\ counter_plain' + counter_atomic' <=
                    trial.written - owed + 1
              /\ \A v \in Writers : v # w /\ race_writer[v].pc = "store" =>
                    race_writer[v].tmp + counter_atomic' <=
                       trial.written - owed + 1,
           trial.fair =>
              /\ mode # "none" =>
                    Race!current_counter_value' = Race!current_counter_value + 1
              /\ \A v \in Writers : v # w => ModeOK(v)' /\ LoadOK(v)'
    PROVE  RaceInv'
  <1>1. PICK me : me = race_writer[w]
    OBVIOUS
  <1>2. PICK new : new = [me EXCEPT !.pc = "loop", !.i = me.i + 1, !.tmp = 0]
    OBVIOUS
  <1>3. /\ me \in RaceWriterState /\ PlaceOK(me) /\ me.i < me.n
        /\ RaceTypes
    BY <1>1 DEF RaceInv, RaceTypes, PlaceOK
  <1>4. /\ new \in RaceWriterState
        /\ new.pc = "loop" /\ new.n = me.n /\ new.i = me.i + 1
    <2>1. me \in RaceWriterState /\ me.i + 1 \in Nat
      BY <1>3 DEF RaceWriterState
    <2> QED BY <1>2, <2>1 DEF RaceWriterState
  <1>5. RaceWriterBecomes(w, new)
    BY <1>1, <1>2, <1>3, <1>4, RaceSetBecomes DEF Race!increment_done
  <1>6. IsFiniteSet(Owed)' /\ owed >= 1 /\ owed' = owed - 1 /\ owed \in Nat
    BY <1>1, <1>3, <1>4, <1>5, OwedPaid, OwedNumber
  <1>7. RaceTypes'
    BY <1>3, <1>5 DEF RaceTypes, RaceWriterBecomes
  <1>8. PlaceOK(new)
    BY <1>3, <1>4 DEF PlaceOK, RaceWriterState
  <1>9. \A v \in Writers : PlaceOK(race_writer'[v])
    BY <1>5, <1>8 DEF RaceInv, RaceWriterBecomes
  <1>10. NeverMadeUp'
    <2> SUFFICES ASSUME calls.reset = 0
                 PROVE  /\ counter_plain' + counter_atomic' + owed' <=
                              trial.written
                        /\ \A v \in Writers : race_writer'[v].pc = "store" =>
                              race_writer'[v].tmp + counter_atomic' + owed' <=
                                 trial.written
      BY DEF NeverMadeUp
    <2>1. trial.written \in Nat
      BY <1>3 DEF RaceTypes
    <2>2. counter_plain' + counter_atomic' + owed' <= trial.written
      BY <1>6, <2>1
    <2>3. ASSUME NEW v \in Writers, race_writer'[v].pc = "store"
          PROVE  race_writer'[v].tmp + counter_atomic' + owed' <= trial.written
      <3>1. v # w /\ race_writer'[v] = race_writer[v]
        BY <1>4, <1>5, <2>3 DEF RaceWriterBecomes
      <3>2. race_writer[v].tmp \in Nat
        BY <1>3 DEF RaceTypes, RaceWriterState
      <3>3. race_writer[v].tmp + counter_atomic' <= trial.written - owed + 1
        BY <2>3, <3>1
      <3> QED BY <1>6, <2>1, <3>1, <3>2, <3>3
    <2> QED BY <2>2, <2>3
  <1>11. FairTrial'
    <2> SUFFICES ASSUME trial.fair
                 PROVE  /\ owed' <= trial.written
                        /\ \A v \in Writers : ModeOK(v)' /\ LoadOK(v)'
                        /\ \A r \in Resetters : ResetOK(r)'
                        /\ CountExact'
      BY DEF FairTrial
    <2>1. Race!ResettersIdle
      BY FairWriter
    <2>2. \A r \in Resetters : ResetOK(r)'
      BY <2>1 DEF ResetOK, Race!ResettersIdle
    <2>3. ModeOK(w)' /\ LoadOK(w)'
      BY <1>4, <1>5 DEF ModeOK, LoadOK, RaceWriterBecomes
    <2>4. trial.written \in Nat /\ owed <= trial.written
      BY <1>3 DEF RaceTypes, RaceInv, FairTrial
    <2>5. mode # "none" =>
             /\ Race!current_counter_value \in Nat
             /\ Race!current_counter_value + owed = trial.written
      BY <1>3, <2>1 DEF RaceTypes, RaceInv, FairTrial, CountExact,
         Race!current_counter_value
    <2>6. CountExact'
      BY <1>6, <2>4, <2>5 DEF CountExact
    <2> QED BY <1>6, <2>2, <2>3, <2>4, <2>6
  <1>12. RaceLife'
    BY DEF RaceInv, RaceLife, Race!WritersIdle, Race!ResettersIdle
  <1> QED BY <1>6, <1>7, <1>9, <1>10, <1>11, <1>12 DEF RaceInv

(* increment_once() stores counter_plain and unlocks: the lock of the mode *)
(* makes what it has loaded current.                                       *)
LEMMA IncrementStoreKeeps ==
    ASSUME RaceInv, NEW w \in Writers, Race!increment_store(w)
    PROVE  RaceInv'
  <1>1. /\ race_writer[w].pc = "store"
        /\ counter_plain' = race_writer[w].tmp + 1
        /\ counter_spinlock' = Race!Unlock(counter_spinlock, w)
        /\ counter_mutex' = Race!Unlock(counter_mutex, w)
        /\ Race!increment_done(w)
        /\ UNCHANGED <<race_loaded, mode, counter_atomic, reset_count,
                       resetter, calls, trial>>
    BY DEF Race!increment_store
  <1>2. /\ RaceTypes
        /\ \A v \in Writers : race_writer[v].tmp \in Nat
        /\ counter_plain' \in Nat /\ counter_atomic' \in Nat
    BY <1>1 DEF RaceInv, RaceTypes, RaceWriterState
  <1>3. owed \in Nat /\ trial.written \in Nat /\ counter_atomic \in Nat
    BY <1>2, OwedNumber DEF RaceTypes
  <1>4. calls.reset = 0 =>
           /\ counter_plain' + counter_atomic' <= trial.written - owed + 1
           /\ \A v \in Writers : v # w /\ race_writer[v].pc = "store" =>
                 race_writer[v].tmp + counter_atomic' <=
                    trial.written - owed + 1
    <2> SUFFICES ASSUME calls.reset = 0, NEW v \in Writers,
                        race_writer[v].pc = "store"
                 PROVE  race_writer[v].tmp + counter_atomic <=
                           trial.written - owed
      BY <1>1, <1>2, <1>3
    <2>1. race_writer[v].tmp + counter_atomic + owed <= trial.written
      BY DEF RaceInv, NeverMadeUp
    <2> QED BY <1>2, <1>3, <2>1
  <1>5. ASSUME trial.fair
        PROVE  /\ mode # "none" =>
                     Race!current_counter_value' =
                        Race!current_counter_value + 1
               /\ \A v \in Writers : v # w => ModeOK(v)' /\ LoadOK(v)'
    <2>1. \A v \in Writers : ModeOK(v) /\ LoadOK(v)
      BY <1>5 DEF RaceInv, FairTrial
    <2>2. mode # "none" => mode # "atomic" /\ race_writer[w].tmp = counter_plain
      BY <1>1, <2>1 DEF ModeOK, LoadOK
    <2>3. mode # "none" =>
             Race!current_counter_value' = Race!current_counter_value + 1
      BY <1>1, <2>2 DEF Race!current_counter_value
    <2>4. ASSUME NEW v \in Writers, v # w PROVE ModeOK(v)' /\ LoadOK(v)'
      <3>1. race_writer'[v] = race_writer[v]
        BY <1>1, <1>2, <2>4 DEF Race!increment_done, Race!WriterSet, RaceTypes
      <3>2. mode # "none" => race_writer[v].pc \notin {"load", "store"}
        BY <1>1, <2>1, <2>4 DEF ModeOK
      <3> QED BY <1>1, <2>1, <3>1, <3>2 DEF ModeOK, LoadOK
    <2> QED BY <2>3, <2>4
  <1> QED BY <1>1, <1>2, <1>4, <1>5, IncrementMade

(* increment_once() in mode "atomic".                                      *)
LEMMA AtomicIncKeeps ==
    ASSUME RaceInv, NEW w \in Writers, Race!atomic64_inc(w)
    PROVE  RaceInv'
  <1>1. /\ race_writer[w].pc = "inc"
        /\ counter_atomic' = counter_atomic + 1
        /\ Race!increment_done(w)
        /\ UNCHANGED <<race_loaded, mode, counter_plain, reset_count,
                       counter_spinlock, counter_mutex, resetter, calls,
                       trial>>
    BY DEF Race!atomic64_inc, Race!locks
  <1>2. /\ RaceTypes
        /\ \A v \in Writers : race_writer[v].tmp \in Nat
        /\ counter_plain' \in Nat /\ counter_atomic' \in Nat
    BY <1>1 DEF RaceInv, RaceTypes, RaceWriterState
  <1>3. /\ owed \in Nat /\ trial.written \in Nat /\ counter_atomic \in Nat
        /\ counter_plain \in Nat
    BY <1>2, OwedNumber DEF RaceTypes
  <1>4. calls.reset = 0 =>
           /\ counter_plain' + counter_atomic' <= trial.written - owed + 1
           /\ \A v \in Writers : v # w /\ race_writer[v].pc = "store" =>
                 race_writer[v].tmp + counter_atomic' <=
                    trial.written - owed + 1
    <2> SUFFICES ASSUME calls.reset = 0
                 PROVE  /\ counter_plain + counter_atomic + owed <=
                              trial.written
                        /\ \A v \in Writers : race_writer[v].pc = "store" =>
                              race_writer[v].tmp + counter_atomic + owed <=
                                 trial.written
      BY <1>1, <1>2, <1>3
    <2> QED BY DEF RaceInv, NeverMadeUp
  <1>5. ASSUME trial.fair
        PROVE  /\ mode # "none" =>
                     Race!current_counter_value' =
                        Race!current_counter_value + 1
               /\ \A v \in Writers : v # w => ModeOK(v)' /\ LoadOK(v)'
    <2>1. \A v \in Writers : ModeOK(v) /\ LoadOK(v)
      BY <1>5 DEF RaceInv, FairTrial
    <2>2. mode # "none" => mode = "atomic"
      BY <1>1, <2>1 DEF ModeOK
    <2>3. mode # "none" =>
             Race!current_counter_value' = Race!current_counter_value + 1
      BY <1>1, <2>2 DEF Race!current_counter_value
    <2>4. ASSUME NEW v \in Writers, v # w PROVE ModeOK(v)' /\ LoadOK(v)'
      <3>1. race_writer'[v] = race_writer[v]
        BY <1>1, <1>2, <2>4 DEF Race!increment_done, Race!WriterSet, RaceTypes
      <3> QED BY <1>1, <2>1, <3>1 DEF ModeOK, LoadOK
    <2> QED BY <2>3, <2>4
  <1> QED BY <1>1, <1>2, <1>4, <1>5, IncrementMade

(* race_write() accepts some bytes.                                        *)
LEMMA WriteBeginKeeps ==
    ASSUME RaceInv, NEW w \in Writers, Race!race_write_begin(w)
    PROVE  RaceInv'
  <1>1. PICK count \in Counts :
           /\ Race!WriterSet(w, [Race!IdleWriter EXCEPT !.pc = "loop",
                                      !.n = Race!accepted(count)])
           /\ trial' = [written |-> trial.written + Race!accepted(count),
                        fair    |-> trial.fair /\ Race!ResettersIdle]
    BY DEF Race!race_write_begin
  <1>2. /\ race_loaded /\ race_writer[w].pc = "idle"
        /\ calls' = [calls EXCEPT !.write = @ + 1]
        /\ UNCHANGED <<race_loaded, mode, counter_plain, counter_atomic,
                       reset_count, counter_spinlock, counter_mutex, resetter>>
    BY DEF Race!race_write_begin, Race!counters, Race!locks
  <1>3. PICK n \in Nat : n = Race!accepted(count)
    BY LockLabsAssumption DEF Race!accepted
  <1>4. PICK new : new = [Race!IdleWriter EXCEPT !.pc = "loop", !.n = n]
    OBVIOUS
  <1>5. /\ new \in RaceWriterState
        /\ new.pc = "loop" /\ new.n = n /\ new.i = 0
    BY <1>4, IdleRaceWriter DEF RaceWriterState
  <1>6. RaceTypes /\ RaceWriterBecomes(w, new)
    BY <1>1, <1>3, <1>4, <1>5, RaceSetBecomes DEF RaceInv
  <1>7. /\ trial.written \in Nat /\ trial.fair \in BOOLEAN
        /\ Race!ResettersIdle \in BOOLEAN
    BY <1>6 DEF RaceTypes, Race!ResettersIdle
  <1>8. /\ trial' \in [written : Nat, fair : BOOLEAN]
        /\ trial'.written = trial.written + n
        /\ trial'.fair = (trial.fair /\ Race!ResettersIdle)
    BY <1>1, <1>3, <1>7
  <1>9. /\ calls' \in [write : Nat, reset : Nat, mode : Nat]
        /\ calls'.reset = calls.reset
    BY <1>2, <1>6 DEF RaceTypes
  <1>10. IsFiniteSet(Owed)' /\ owed' = owed + n /\ owed \in Nat
    BY <1>2, <1>5, <1>6, OwedTaken, OwedNumber
  <1>11. RaceTypes'
    BY <1>2, <1>6, <1>8, <1>9 DEF RaceTypes, RaceWriterBecomes
  <1>12. PlaceOK(new)
    BY <1>5 DEF PlaceOK
  <1>13. \A v \in Writers : PlaceOK(race_writer'[v])
    BY <1>6, <1>12 DEF RaceInv, RaceWriterBecomes
  <1>14. NeverMadeUp'
    <2> SUFFICES ASSUME calls.reset = 0
                 PROVE  /\ counter_plain + counter_atomic + owed' <=
                              trial'.written
                        /\ \A v \in Writers : race_writer'[v].pc = "store" =>
                              race_writer'[v].tmp + counter_atomic + owed' <=
                                 trial'.written
      BY <1>2, <1>9 DEF NeverMadeUp
    <2>1. counter_plain \in Nat /\ counter_atomic \in Nat
      BY <1>6 DEF RaceTypes
    <2>2. counter_plain + counter_atomic + owed <= trial.written
      BY DEF RaceInv, NeverMadeUp
    <2>3. ASSUME NEW v \in Writers, race_writer'[v].pc = "store"
          PROVE  race_writer'[v].tmp + counter_atomic + owed' <= trial'.written
      <3>1. v # w /\ race_writer'[v] = race_writer[v]
        BY <1>5, <1>6, <2>3 DEF RaceWriterBecomes
      <3>2. race_writer[v].tmp \in Nat
        BY <1>6 DEF RaceTypes, RaceWriterState
      <3>3. race_writer[v].tmp + counter_atomic + owed <= trial.written
        BY <2>3, <3>1 DEF RaceInv, NeverMadeUp
      <3> QED BY <1>7, <1>8, <1>10, <2>1, <3>1, <3>2, <3>3
    <2> QED BY <1>7, <1>8, <1>10, <2>1, <2>2, <2>3
  <1>15. FairTrial'
    <2> SUFFICES ASSUME trial.fair, Race!ResettersIdle
                 PROVE  /\ owed' <= trial'.written
                        /\ \A v \in Writers : ModeOK(v)' /\ LoadOK(v)'
                        /\ \A r \in Resetters : ResetOK(r)'
                        /\ CountExact'
      BY <1>8 DEF FairTrial
    <2>1. \A v \in Writers : ModeOK(v)' /\ LoadOK(v)'
      BY <1>2, <1>5, <1>6 DEF RaceInv, FairTrial, ModeOK, LoadOK,
         RaceWriterBecomes
    <2>2. \A r \in Resetters : ResetOK(r)'
      BY <1>2 DEF ResetOK, Race!ResettersIdle
    <2>3. Race!current_counter_value' = Race!current_counter_value
      BY <1>2 DEF Race!current_counter_value
    <2>4. Race!current_counter_value \in Nat
      BY <1>6 DEF Race!current_counter_value, RaceTypes
    <2>5. CountExact'
      BY <1>2, <1>7, <1>8, <1>10, <2>3, <2>4
         DEF RaceInv, FairTrial, CountExact
    <2> QED BY <1>7, <1>8, <1>10, <2>1, <2>2, <2>5 DEF RaceInv, FairTrial
  <1>16. RaceLife'
    BY <1>2 DEF RaceLife
  <1> QED BY <1>10, <1>11, <1>13, <1>14, <1>15, <1>16 DEF RaceInv

(* Resetter r has the record new; the others keep theirs.                  *)
ResetterBecomes(r, new) ==
    /\ resetter' \in [Resetters -> ResetterState]
    /\ resetter'[r] = new
    /\ \A s \in Resetters : s # r => resetter'[s] = resetter[s]

(* A step of resetter r to another place.                                  *)
LEMMA ResetterMoves ==
    ASSUME RaceTypes, NEW r \in Resetters, NEW from, NEW to,
           to \in {"idle", "plain", "atomic", "load", "count"},
           Race!ResetterGoto(r, from, to)
    PROVE  \E new \in ResetterState :
              new.pc = to /\ ResetterBecomes(r, new)
  <1>1. PICK me : me = resetter[r]
    OBVIOUS
  <1>2. me \in ResetterState
    BY <1>1 DEF RaceTypes
  <1>3. PICK new : new = [me EXCEPT !.pc = to]
    OBVIOUS
  <1>4. new \in ResetterState /\ new.pc = to
    BY <1>2, <1>3 DEF ResetterState
  <1>5. resetter' = [resetter EXCEPT ![r] = new]
    BY <1>1, <1>3 DEF Race!ResetterGoto
  <1>6. ResetterBecomes(r, new)
    BY <1>4, <1>5 DEF ResetterBecomes, RaceTypes
  <1> QED BY <1>4, <1>6

(* A step that leaves the writers alone leaves what they owe.              *)
LEMMA OwedUnchanged ==
    ASSUME UNCHANGED race_writer
    PROVE  /\ Owed' = Owed /\ owed' = owed
           /\ IsFiniteSet(Owed)' <=> IsFiniteSet(Owed)
           /\ Race!WritersIdle' <=> Race!WritersIdle
  BY DEF Owed, Owes, owed, IsFiniteSet, Race!WritersIdle

(* A reset begins a trial.                                                 *)
LEMMA ResetBeginKeeps ==
    ASSUME RaceInv, NEW r \in Resetters, Race!reset_begin(r)
    PROVE  RaceInv'
  <1>1. /\ race_loaded /\ resetter[r].pc = "idle"
        /\ Race!ResetterGoto(r, "idle", "plain")
        /\ calls' = [calls EXCEPT !.reset = @ + 1]
        /\ trial' = [written |-> 0,
                     fair |-> Race!WritersIdle /\ Race!ResettersIdle]
        /\ UNCHANGED <<race_loaded, mode, counter_plain, counter_atomic,
                       reset_count, counter_spinlock, counter_mutex,
                       race_writer>>
    BY DEF Race!reset_begin, Race!ResetterGoto, Race!counters, Race!locks
  <1>2. RaceTypes
    BY DEF RaceInv
  <1>3. PICK new \in ResetterState : new.pc = "plain" /\ ResetterBecomes(r, new)
    BY <1>1, <1>2, ResetterMoves
  <1>4. /\ calls' \in [write : Nat, reset : Nat, mode : Nat]
        /\ calls'.reset = calls.reset + 1 /\ calls.reset \in Nat
    BY <1>1, <1>2 DEF RaceTypes
  <1>5. /\ trial' \in [written : Nat, fair : BOOLEAN]
        /\ trial'.written = 0
        /\ trial'.fair = (Race!WritersIdle /\ Race!ResettersIdle)
    <2>1. Race!WritersIdle \in BOOLEAN /\ Race!ResettersIdle \in BOOLEAN
      BY DEF Race!WritersIdle, Race!ResettersIdle
    <2> QED BY <1>1, <2>1
  <1>6. RaceTypes'
    BY <1>1, <1>2, <1>3, <1>4, <1>5 DEF RaceTypes, ResetterBecomes
  <1>7. /\ owed' = owed /\ owed \in Nat /\ IsFiniteSet(Owed)'
        /\ Race!WritersIdle => owed = 0
        /\ Race!WritersIdle' <=> Race!WritersIdle
    BY <1>1, OwedUnchanged, OwedNumber DEF RaceInv
  <1>8. NeverMadeUp'
    BY <1>4 DEF NeverMadeUp
  <1>9. FairTrial'
    <2> SUFFICES ASSUME Race!WritersIdle, Race!ResettersIdle
                 PROVE  /\ owed' <= trial'.written
                        /\ \A v \in Writers : ModeOK(v)' /\ LoadOK(v)'
                        /\ \A s \in Resetters : ResetOK(s)'
                        /\ CountExact'
      BY <1>5 DEF FairTrial
    <2>1. \A v \in Writers : race_writer'[v].pc = "idle"
      BY <1>1 DEF Race!WritersIdle
    <2>2. \A v \in Writers : ModeOK(v)' /\ LoadOK(v)'
      BY <2>1 DEF ModeOK, LoadOK
    <2>3. \A s \in Resetters : ResetOK(s)'
      BY <1>3, <1>5, <1>7 DEF ResetOK, Race!ResettersIdle, ResetterBecomes
    <2>4. CountExact'
      BY <1>3 DEF CountExact, Race!ResettersIdle, ResetterBecomes
    <2> QED BY <1>5, <1>7, <2>2, <2>3, <2>4
  <1>10. RaceLife' /\ \A w \in Writers : PlaceOK(race_writer'[w])
    BY <1>1 DEF RaceInv, RaceLife
  <1> QED BY <1>6, <1>7, <1>8, <1>9, <1>10 DEF RaceInv

(* A step of reset_counters(), which leaves writers, mode and trial alone. *)
LEMMA ResetStep ==
    ASSUME RaceInv, NEW r \in Resetters, NEW new \in ResetterState,
           ResetterBecomes(r, new), resetter[r].pc # "idle",
           UNCHANGED <<race_loaded, mode, counter_spinlock, counter_mutex,
                       race_writer, calls, trial>>,
           counter_plain' \in {0, counter_plain},
           counter_atomic' \in {0, counter_atomic},
           reset_count' \in Nat,
           trial.fair =>
              /\ new.pc # "plain" => counter_plain' = 0
              /\ new.pc \in {"load", "count", "idle"} => counter_atomic' = 0
    PROVE  RaceInv'
  <1>1. RaceTypes'
    BY DEF RaceInv, RaceTypes, ResetterBecomes
  <1>2. /\ owed' = owed /\ owed \in Nat /\ IsFiniteSet(Owed)'
        /\ Race!WritersIdle => owed = 0
        /\ Race!WritersIdle' <=> Race!WritersIdle
    BY OwedUnchanged, OwedNumber DEF RaceInv
  <1>3. NeverMadeUp'
    <2>1. /\ counter_plain \in Nat /\ counter_atomic \in Nat
          /\ trial.written \in Nat
          /\ \A w \in Writers : race_writer[w].tmp \in Nat
      BY DEF RaceInv, RaceTypes, RaceWriterState
    <2> QED BY <1>2, <2>1 DEF RaceInv, NeverMadeUp
  <1>4. FairTrial'
    <2> SUFFICES ASSUME trial.fair
                 PROVE  /\ owed' <= trial.written
                        /\ \A v \in Writers : ModeOK(v)' /\ LoadOK(v)'
                        /\ \A s \in Resetters : ResetOK(s)'
                        /\ CountExact'
      BY DEF FairTrial
    <2>1. /\ trial.written = 0 /\ Race!WritersIdle
          /\ \A s \in Resetters : s # r => resetter[s].pc = "idle"
      BY DEF RaceInv, FairTrial, ResetOK
    <2>2. \A v \in Writers : ModeOK(v)' /\ LoadOK(v)'
      BY <2>1 DEF ModeOK, LoadOK, Race!WritersIdle
    <2>3. \A s \in Resetters : ResetOK(s)'
      BY <1>2, <2>1 DEF ResetOK, ResetterBecomes
    <2>4. Race!ResettersIdle' => counter_plain' = 0 /\ counter_atomic' = 0
      BY DEF Race!ResettersIdle, ResetterBecomes
    <2>5. CountExact'
      BY <1>2, <2>1, <2>4 DEF CountExact, Race!current_counter_value
    <2> QED BY <1>2, <2>1, <2>2, <2>3, <2>5
  <1>5. RaceLife'
    BY <1>2 DEF RaceInv, RaceLife, Race!ResettersIdle
  <1> QED BY <1>1, <1>2, <1>3, <1>4, <1>5 DEF RaceInv

(* reset_counters() zeroes one counter, then the other, then counts.       *)
LEMMA ResetCountersKeeps ==
    ASSUME RaceInv, NEW r \in Resetters, Race!reset_counters(r)
    PROVE  RaceInv'
  <1>1. RaceTypes
    BY DEF RaceInv
  <1>2. ASSUME trial.fair
        PROVE  /\ resetter[r].pc \in {"atomic", "load", "count"} =>
                     counter_plain = 0
               /\ resetter[r].pc \in {"load", "count"} => counter_atomic = 0
    BY <1>2 DEF RaceInv, FairTrial, ResetOK
  <1>3. CASE Race!reset_plain(r)
    <2>1. /\ resetter[r].pc = "plain" /\ counter_plain' = 0
          /\ Race!ResetterGoto(r, "plain", "atomic")
          /\ UNCHANGED <<race_loaded, mode, counter_atomic, reset_count,
                         counter_spinlock, counter_mutex, race_writer, calls,
                         trial>>
      BY <1>3 DEF Race!reset_plain, Race!ResetterGoto, Race!locks
    <2>2. PICK new \in ResetterState :
             new.pc = "atomic" /\ ResetterBecomes(r, new)
      BY <1>1, <2>1, ResetterMoves
    <2>3. reset_count' \in Nat
      BY <1>1, <2>1 DEF RaceTypes
    <2> QED BY <2>1, <2>2, <2>3, ResetStep
  <1>4. CASE Race!reset_atomic(r)
    <2>1. /\ resetter[r].pc = "atomic" /\ counter_atomic' = 0
          /\ Race!ResetterGoto(r, "atomic", "load")
          /\ UNCHANGED <<race_loaded, mode, counter_plain, reset_count,
                         counter_spinlock, counter_mutex, race_writer, calls,
                         trial>>
      BY <1>4 DEF Race!reset_atomic, Race!ResetterGoto, Race!locks
    <2>2. PICK new \in ResetterState :
             new.pc = "load" /\ ResetterBecomes(r, new)
      BY <1>1, <2>1, ResetterMoves
    <2>3. reset_count' \in Nat
      BY <1>1, <2>1 DEF RaceTypes
    <2> QED BY <1>2, <2>1, <2>2, <2>3, ResetStep
  <1>5. CASE Race!reset_load(r)
    <2>1. PICK new : new = [pc |-> "count", tmp |-> reset_count]
      OBVIOUS
    <2>2. new \in ResetterState /\ new.pc = "count" /\ reset_count \in Nat
      BY <1>1, <2>1 DEF RaceTypes, ResetterState
    <2>3. /\ resetter[r].pc = "load"
          /\ resetter' = [resetter EXCEPT ![r] = new]
          /\ UNCHANGED <<race_loaded, mode, counter_plain, counter_atomic,
                         reset_count, counter_spinlock, counter_mutex,
                         race_writer, calls, trial>>
      BY <1>5, <2>1 DEF Race!reset_load, Race!counters, Race!locks
    <2>4. ResetterBecomes(r, new)
      BY <1>1, <2>2, <2>3 DEF ResetterBecomes, RaceTypes
    <2> QED BY <1>2, <2>2, <2>3, <2>4, ResetStep
  <1>6. CASE Race!reset_counted(r)
    <2>1. Race!IdleResetter \in ResetterState /\ Race!IdleResetter.pc = "idle"
      BY DEF Race!IdleResetter, ResetterState
    <2>2. /\ resetter[r].pc = "count"
          /\ reset_count' = resetter[r].tmp + 1
          /\ resetter' = [resetter EXCEPT ![r] = Race!IdleResetter]
          /\ UNCHANGED <<race_loaded, mode, counter_plain, counter_atomic,
                         counter_spinlock, counter_mutex, race_writer, calls,
                         trial>>
      BY <1>6 DEF Race!reset_counted, Race!counters, Race!locks
    <2>3. ResetterBecomes(r, Race!IdleResetter)
      BY <1>1, <2>1, <2>2 DEF ResetterBecomes, RaceTypes
    <2>4. reset_count' \in Nat
      BY <1>1, <2>2 DEF RaceTypes, ResetterState
    <2> QED BY <1>2, <2>1, <2>2, <2>3, <2>4, ResetStep
  <1> QED BY <1>3, <1>4, <1>5, <1>6 DEF Race!reset_counters

(* mode_store() ends the fairness of a trial that has begun, and finds no  *)
(* increment under way in one that has not.                                *)
LEMMA ModeStoreKeeps ==
    ASSUME RaceInv, Race!mode_store
    PROVE  RaceInv'
  <1>1. /\ mode' \in Race!Modes
        /\ calls' = [calls EXCEPT !.mode = @ + 1]
        /\ trial' = [trial EXCEPT !.fair =
                        @ /\ (mode' = mode \/ trial.written = 0)]
        /\ UNCHANGED <<race_loaded, counter_plain, counter_atomic, reset_count,
                       counter_spinlock, counter_mutex, race_writer, resetter>>
    BY DEF Race!mode_store, Race!counters, Race!locks
  <1>2. RaceTypes
    BY DEF RaceInv
  <1>3. PICK fair : fair = (trial.fair /\ (mode' = mode \/ trial.written = 0))
    OBVIOUS
  <1>4. /\ fair \in BOOLEAN
        /\ trial' = [trial EXCEPT !.fair = fair]
    BY <1>1, <1>2, <1>3 DEF RaceTypes
  <1>5. /\ trial' \in [written : Nat, fair : BOOLEAN]
        /\ trial'.written = trial.written /\ trial.written \in Nat
        /\ trial'.fair = fair
    BY <1>2, <1>4 DEF RaceTypes
  <1>6. /\ calls' \in [write : Nat, reset : Nat, mode : Nat]
        /\ calls'.reset = calls.reset
    BY <1>1, <1>2 DEF RaceTypes
  <1>7. RaceTypes'
    BY <1>1, <1>2, <1>5, <1>6 DEF RaceTypes
  <1>8. /\ owed' = owed /\ owed \in Nat /\ IsFiniteSet(Owed)'
        /\ owed = 0 => \A w \in Writers : race_writer[w].pc \in {"idle", "loop"}
        /\ Race!WritersIdle' <=> Race!WritersIdle
    BY <1>1, OwedUnchanged, OwedNumber DEF RaceInv
  <1>9. NeverMadeUp'
    BY <1>1, <1>5, <1>6, <1>8 DEF RaceInv, NeverMadeUp
  <1>10. FairTrial'
    <2> SUFFICES ASSUME trial.fair, mode' = mode \/ trial.written = 0
                 PROVE  /\ owed <= trial.written
                        /\ \A v \in Writers : ModeOK(v)' /\ LoadOK(v)'
                        /\ \A s \in Resetters : ResetOK(s)'
                        /\ CountExact'
      BY <1>3, <1>5, <1>8 DEF FairTrial
    <2>1. owed <= trial.written
      BY DEF RaceInv, FairTrial
    <2>2. \A s \in Resetters : ResetOK(s)'
      BY <1>1, <1>5, <1>8 DEF RaceInv, FairTrial, ResetOK
    <2>3. CASE mode' = mode
      <3>1. \A v \in Writers : ModeOK(v)' /\ LoadOK(v)'
        BY <1>1, <2>3 DEF RaceInv, FairTrial, ModeOK, LoadOK
      <3>2. CountExact'
        BY <1>1, <1>5, <1>8, <2>3 DEF RaceInv, FairTrial, CountExact,
           Race!ResettersIdle, Race!current_counter_value
      <3> QED BY <2>1, <2>2, <3>1, <3>2
    <2>4. CASE trial.written = 0
      <3>1. owed = 0
        BY <1>8, <2>1, <2>4
      <3>2. \A v \in Writers : ModeOK(v)' /\ LoadOK(v)'
        BY <1>1, <1>8, <3>1 DEF ModeOK, LoadOK
      <3>3. CountExact'
        BY <1>1, <1>5, <1>8, <2>4, <3>1 DEF RaceInv, FairTrial, CountExact,
           Race!ResettersIdle, Race!current_counter_value
      <3> QED BY <2>1, <2>2, <3>2, <3>3
    <2> QED BY <2>3, <2>4
  <1>11. RaceLife' /\ \A w \in Writers : PlaceOK(race_writer'[w])
    BY <1>1, <1>8 DEF RaceInv, RaceLife, Race!ResettersIdle
  <1> QED BY <1>7, <1>8, <1>9, <1>10, <1>11 DEF RaceInv

(* insmod and rmmod.                                                       *)
LEMMA RaceLoadKeeps ==
    ASSUME RaceInv,
           Race!concurrency_locking_init \/ Race!concurrency_locking_exit
    PROVE  RaceInv'
  <1>1. UNCHANGED <<counter_spinlock, counter_mutex, race_writer, resetter>>
    BY DEF Race!concurrency_locking_init, Race!concurrency_locking_exit,
           Race!locks
  <1>2. /\ owed' = owed /\ owed \in Nat /\ IsFiniteSet(Owed)'
        /\ Race!WritersIdle => owed = 0
        /\ Race!WritersIdle' <=> Race!WritersIdle
        /\ Race!ResettersIdle' <=> Race!ResettersIdle
        /\ \A w \in Writers : PlaceOK(race_writer'[w])
    BY <1>1, OwedUnchanged, OwedNumber DEF RaceInv, Race!ResettersIdle
  <1>3. CASE Race!concurrency_locking_init
    <2>1. /\ ~race_loaded /\ race_loaded' = TRUE /\ mode' = "none"
          /\ counter_plain' = 0 /\ counter_atomic' = 0 /\ reset_count' = 0
          /\ calls' = [write |-> 0, reset |-> 0, mode |-> 0]
          /\ trial' = Race!NoTrial
      BY <1>3 DEF Race!concurrency_locking_init
    <2>2. /\ trial' \in [written : Nat, fair : BOOLEAN]
          /\ trial'.written = 0 /\ ~trial'.fair
          /\ calls' \in [write : Nat, reset : Nat, mode : Nat]
      BY <2>1 DEF Race!NoTrial
    <2>3. Race!WritersIdle
      BY <2>1 DEF RaceInv, RaceLife
    <2>4. RaceTypes'
      BY <1>1, <2>1, <2>2 DEF RaceInv, RaceTypes, Race!Modes
    <2>5. NeverMadeUp'
      BY <1>1, <1>2, <2>1, <2>2, <2>3 DEF NeverMadeUp, Race!WritersIdle
    <2>6. FairTrial' /\ RaceLife'
      BY <2>1, <2>2 DEF FairTrial, RaceLife
    <2> QED BY <1>2, <2>4, <2>5, <2>6 DEF RaceInv
  <1>4. CASE Race!concurrency_locking_exit
    <2>1. /\ Race!WritersIdle /\ Race!ResettersIdle /\ race_loaded' = FALSE
          /\ UNCHANGED <<mode, counter_plain, counter_atomic, reset_count,
                         calls, trial>>
      BY <1>4 DEF Race!concurrency_locking_exit, Race!counters
    <2>2. RaceTypes' /\ RaceLife'
      BY <1>1, <1>2, <2>1 DEF RaceInv, RaceTypes, RaceLife
    <2>3. NeverMadeUp'
      BY <1>1, <1>2, <2>1 DEF RaceInv, NeverMadeUp
    <2>4. FairTrial'
      BY <1>1, <1>2, <2>1 DEF RaceInv, FairTrial, ModeOK, LoadOK, ResetOK,
         CountExact, Race!current_counter_value
    <2> QED BY <1>2, <2>2, <2>3, <2>4 DEF RaceInv
  <1> QED BY <1>3, <1>4

(* The inductive invariant of lab 11 in every behaviour of the three labs. *)
LEMMA RaceInductive == Spec => []RaceInv
  <1>1. ASSUME Init PROVE RaceInv
    <2>1. Race!Init
      BY <1>1 DEF Init
    <2>2. /\ \A w \in Writers : race_writer[w] = Race!IdleWriter
          /\ \A r \in Resetters : resetter[r].pc = "idle"
      BY <2>1 DEF Race!Init, Race!IdleResetter
    <2>3. /\ calls \in [write : Nat, reset : Nat, mode : Nat]
          /\ trial \in [written : Nat, fair : BOOLEAN]
          /\ trial.written = 0 /\ ~trial.fair
      BY <2>1 DEF Race!Init, Race!NoTrial
    <2>4. Race!IdleResetter \in ResetterState
      BY DEF Race!IdleResetter, ResetterState
    <2>5. RaceTypes
      BY <2>1, <2>3, <2>4, IdleRaceWriter
         DEF Race!Init, RaceTypes, Race!Modes
    <2>6. \A w \in Writers : PlaceOK(race_writer[w])
      <3>1. PlaceOK(Race!IdleWriter)
        BY IdleRaceWriter DEF PlaceOK
      <3> QED BY <2>2, <3>1
    <2>7. Owed = {}
      BY <2>2, IdleRaceWriter DEF Owed, Owes
    <2>8. IsFiniteSet(Owed) /\ owed = 0
      BY <2>7, FS_EmptySet DEF owed
    <2>9. NeverMadeUp
      BY <2>1, <2>2, <2>3, <2>8, IdleRaceWriter DEF Race!Init, NeverMadeUp
    <2>10. FairTrial /\ RaceLife
      BY <2>2, <2>3, IdleRaceWriter
         DEF FairTrial, RaceLife, Race!WritersIdle, Race!ResettersIdle
    <2> QED BY <2>5, <2>6, <2>8, <2>9, <2>10 DEF RaceInv
  <1>2. ASSUME RaceInv, [Next]_vars PROVE RaceInv'
    <2>1. CASE Race!Next
      <3>1. ASSUME NEW w \in Writers, Race!race_write(w) PROVE RaceInv'
        BY <1>2, <3>1, WriteBeginKeeps, IncrementBeginKeeps,
           IncrementLockKeeps, IncrementLoadKeeps, IncrementStoreKeeps,
           AtomicIncKeeps, WriteReturnKeeps
           DEF Race!race_write, Race!increment_once
      <3> QED BY <1>2, <2>1, <3>1, ResetBeginKeeps, ResetCountersKeeps,
             ModeStoreKeeps, RaceLoadKeeps DEF Race!Next
    <2>2. CASE UNCHANGED raceVars
      <3>1. UNCHANGED <<race_loaded, mode, counter_plain, counter_atomic,
                        reset_count, counter_spinlock, counter_mutex,
                        race_writer, resetter, calls, trial>>
        BY <2>2 DEF raceVars
      <3>2. /\ owed' = owed /\ IsFiniteSet(Owed)'
            /\ Race!WritersIdle' <=> Race!WritersIdle
            /\ Race!ResettersIdle' <=> Race!ResettersIdle
        BY <1>2, <3>1, OwedUnchanged DEF RaceInv, Race!ResettersIdle
      <3>3. RaceTypes' /\ RaceLife' /\ NeverMadeUp'
        BY <1>2, <3>1, <3>2 DEF RaceInv, RaceTypes, RaceLife, NeverMadeUp
      <3>4. FairTrial'
        BY <1>2, <3>1, <3>2 DEF RaceInv, FairTrial, ModeOK, LoadOK, ResetOK,
           CountExact, Race!current_counter_value
      <3> QED BY <1>2, <3>1, <3>2, <3>3, <3>4 DEF RaceInv
    <2> QED BY <1>2, <2>1, <2>2 DEF Next, vars
  <1> QED BY <1>1, <1>2, PTL DEF Spec

(* Labs 11 and 16: no increment is lost in a fair trial in a locking mode, *)
(* whichever of the three it is; none is ever made up, however "mode" is   *)
(* switched; and increment_store() counts exactly across the wrap of the   *)
(* u32.                                                                    *)
THEOREM EveryIncrementIsAccounted == Spec => []IncrementsAccounted
  <1>1. ASSUME RaceInv PROVE Race!NoLostUpdate /\ Race!UpdatesNeverMadeUp
    <2>1. /\ owed \in Nat
          /\ Race!WritersIdle => owed = 0
          /\ counter_plain \in Nat /\ counter_atomic \in Nat
          /\ trial.written \in Nat
      BY <1>1, OwedNumber DEF RaceInv, RaceTypes
    <2>2. Race!current_counter_value \in Nat
      BY <2>1 DEF Race!current_counter_value
    <2>3. Race!NoLostUpdate
      BY <1>1, <2>1, <2>2 DEF RaceInv, FairTrial, CountExact, Race!NoLostUpdate
    <2>4. Race!UpdatesNeverMadeUp
      BY <1>1, <2>1 DEF RaceInv, NeverMadeUp, Race!UpdatesNeverMadeUp
    <2> QED BY <2>3, <2>4
  <1>2. ASSUME RaceInv, Debugfs!IncrementsCounted PROVE IncrementsAccounted
    BY <1>1, <1>2 DEF IncrementsAccounted
  <1> QED BY <1>2, RaceInductive, IncrementsAreCounted, PTL
=============================================================================
