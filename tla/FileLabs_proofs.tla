-------------------------- MODULE FileLabs_proofs --------------------------
(***************************************************************************)
(* Proofs about labs 04, 05, 06, 08, 09 and 10, for every number of files, *)
(* processes and threads and for buffers of every size.                    *)
(***************************************************************************)
EXTENDS MCFileLabs, Sequences, FiniteSetTheorems, FunctionTheorems,
        WellFoundedInduction, TLAPS

(* Lab 04 *)

ParamsReader ==
    [pc : {"idle", "reps", "render", "copy"}, reps : Nat,
     len : 0..(MAX_OUTPUT - 1), pos : 0..(MAX_OUTPUT - 1)]

(* The types say it all: what is rendered and its NUL fit into kbuf.       *)
ParamsInv ==
    /\ repeat_count \in Nat
    /\ reader \in [Readers -> ParamsReader]

(* scnprintf() never says that it wrote more than there was room for.      *)
LEMMA ScnprintfFits ==
    ASSUME NEW len \in 0..(MAX_OUTPUT - 1), NEW text \in Nat
    PROVE  Params!scnprintf(len, text) \in 0..(MAX_OUTPUT - 1)
  BY FileLabsAssumption DEF Params!scnprintf, Params!min

(* A reader in any of its steps keeps within kbuf.                         *)
LEMMA ParamsReaderKeeps ==
    ASSUME ParamsInv, NEW r \in Readers,
           Params!reader_opens(r) \/ Params!module_params_read(r)
    PROVE  ParamsInv'
  <1>1. repeat_count' \in Nat
    BY DEF ParamsInv, Params!reader_opens, Params!module_params_read,
       Params!read_reps, Params!read_greets, Params!read_renders,
       Params!read_copy
  <1>2. PICK me : me = reader[r]
    OBVIOUS
  <1>3. me \in ParamsReader
    BY <1>2 DEF ParamsInv
  <1>4. /\ Params!Idle \in ParamsReader
        /\ MAX_OUTPUT \in Nat /\ GreetingLine \in Nat /\ Diagnostics \in Nat
    BY FileLabsAssumption DEF Params!Idle, ParamsReader
  <1>5. ASSUME NEW new \in ParamsReader, Params!ReaderSet(r, new)
        PROVE  ParamsInv'
    BY <1>1, <1>5 DEF ParamsInv, Params!ReaderSet
  <1>6. CASE Params!reader_opens(r)
    <2>1. [Params!Idle EXCEPT !.pc = "reps"] \in ParamsReader
      BY <1>4 DEF ParamsReader
    <2> QED BY <1>5, <1>6, <2>1 DEF Params!reader_opens
  <1>7. CASE Params!read_reps(r)
    <2>1. PICK n \in Nat : n = Params!clamped(repeat_count)
      BY FileLabsAssumption DEF ParamsInv, Params!clamped
    <2>2. [me EXCEPT !.pc = "render", !.reps = n] \in ParamsReader
      BY <1>3 DEF ParamsReader
    <2> QED BY <1>2, <1>5, <1>7, <2>1, <2>2 DEF Params!read_reps
  <1>8. CASE Params!read_greets(r)
    <2>1. PICK n : n = Params!scnprintf(me.len, GreetingLine)
      OBVIOUS
    <2>2. /\ me.reps > 0 /\ me.reps \in Nat
          /\ n \in 0..(MAX_OUTPUT - 1)
      BY <1>2, <1>3, <1>4, <1>8, <2>1, ScnprintfFits
         DEF Params!read_greets, Params!rounds_left, ParamsReader
    <2>3. PICK m \in Nat : m = me.reps - 1
      BY <2>2
    <2>4. [me EXCEPT !.reps = m, !.len = n] \in ParamsReader
      BY <1>3, <2>2 DEF ParamsReader
    <2>5. Params!ReaderSet(r, [me EXCEPT !.reps = m, !.len = n])
      BY <1>2, <1>8, <2>1, <2>3 DEF Params!read_greets
    <2> QED BY <1>5, <2>4, <2>5
  <1>9. CASE Params!read_renders(r)
    <2>1. PICK n : n = IF verbose THEN Params!scnprintf(me.len, Diagnostics)
                       ELSE me.len
      OBVIOUS
    <2>2. n \in 0..(MAX_OUTPUT - 1)
      BY <1>3, <1>4, <2>1, ScnprintfFits DEF ParamsReader
    <2>3. [me EXCEPT !.pc = "copy", !.len = n] \in ParamsReader
      BY <1>3, <2>2 DEF ParamsReader
    <2>4. Params!ReaderSet(r, [me EXCEPT !.pc = "copy", !.len = n])
      BY <1>2, <1>9, <2>1 DEF Params!read_renders
    <2> QED BY <1>5, <2>3, <2>4
  <1>10. CASE Params!read_copy(r)
    <2>1. CASE Params!ReaderSet(r, Params!Idle)
      BY <1>4, <1>5, <2>1
    <2>2. ASSUME me.pos < me.len, NEW n \in 1..(me.len - me.pos),
                 Params!ReaderSet(r, [Params!Idle EXCEPT !.pc = "reps",
                     !.pos = Params!position_advanced(me.pos, n)])
          PROVE  ParamsInv'
      <3>1. PICK p : p = Params!position_advanced(me.pos, n)
        OBVIOUS
      <3>2. p \in 0..(MAX_OUTPUT - 1)
        BY <1>3, <1>4, <2>2, <3>1 DEF ParamsReader, Params!position_advanced
      <3>3. [Params!Idle EXCEPT !.pc = "reps", !.pos = p] \in ParamsReader
        BY <1>4, <3>2 DEF ParamsReader
      <3> QED BY <1>5, <2>2, <3>1, <3>3
    <2> QED BY <1>2, <1>10, <2>1, <2>2 DEF Params!read_copy
  <1> QED BY <1>6, <1>7, <1>8, <1>9, <1>10 DEF Params!module_params_read

(* Lab 04: the invariant in every behaviour of the six labs.               *)
LEMMA ParamsInductive == FairSpec => []ParamsInv
  <1>1. ASSUME Init PROVE ParamsInv
    <2>1. Params!Init
      BY <1>1 DEF Init
    <2>2. Params!Idle \in ParamsReader
      BY FileLabsAssumption DEF Params!Idle, ParamsReader
    <2> QED BY <2>1, <2>2 DEF Params!Init, ParamsInv
  <1>2. ASSUME ParamsInv, [Next]_vars PROVE ParamsInv'
    <2>1. CASE Params!Next
      <3>1. CASE Params!param_write
        BY <1>2, <3>1, FileLabsAssumption DEF Params!param_write, ParamsInv
      <3>2. CASE Params!module_params_init \/ Params!module_params_exit
        BY <1>2, <3>2, FileLabsAssumption DEF Params!module_params_init,
           Params!module_params_exit, ParamsInv
      <3> QED BY <1>2, <2>1, <3>1, <3>2, ParamsReaderKeeps DEF Params!Next
    <2>2. CASE UNCHANGED paramsVars
      BY <1>2, <2>2 DEF paramsVars, ParamsInv
    <2> QED BY <1>2, <2>1, <2>2 DEF Next, vars
  <1> QED BY <1>1, <1>2, PTL DEF FairSpec

(* Lab 04: what module_params_read() renders fits into kbuf.               *)
LEMMA ParamsFit ==
    ASSUME ParamsInv
    PROVE  Params!OutputFits
  BY FileLabsAssumption DEF ParamsInv, ParamsReader, Params!OutputFits

(* Lab 09 *)

RwThread ==
    [pc : {"idle", "lock", "copy", "return"}, op : {"none", "read", "write"},
     file : RwFiles, pos : 0..BUF_SIZE, n : 0..(BUF_SIZE + 1),
     byte : Bytes \cup {0}]

RwTypes ==
    /\ buffer \in [Rw!Slots -> Bytes \cup {0}]
    /\ data_len \in 0..BUF_SIZE
    /\ rw_file \in [RwFiles -> [open : BOOLEAN, pos : 0..BUF_SIZE]]
    /\ thread \in [Threads -> RwThread]
    /\ account \in [RwFiles -> [due : Nat, alone : BOOLEAN]]

Uses(t, f) == thread[t].pc # "idle" /\ thread[t].file = f

(* A thread in a call holds its file open, and an open file the module.    *)
RwLife ==
    /\ \A f \in RwFiles : rw_file[f].open => rw_phase = "live"
    /\ \A t \in Threads : \A f \in RwFiles : Uses(t, f) => rw_file[f].open

(* A copy has buf_lock; a read stays in the data, a write in the buffer    *)
(* and in what is on record as written.                                    *)
CopyOK(t) ==
    /\ thread[t].pc = "copy" <=> buf_lock = t
    /\ thread[t].pc \in {"lock", "copy"} => thread[t].op # "none"
    /\ thread[t].pc = "copy" =>
          /\ thread[t].op = "read" =>
                thread[t].pos + thread[t].n <= data_len
          /\ thread[t].op = "write" =>
                /\ thread[t].pos + thread[t].n <= BUF_SIZE
                /\ Rw!Span(t) \subseteq addressed

Holes == \A i \in Rw!Slots : i \notin addressed => buffer[i] = 0

(* Whose file nobody else uses has, in the middle of its call too, the     *)
(* position that is due.                                                   *)
AccountOK(f) ==
    rw_file[f].open /\ account[f].alone =>
        /\ \A t, u \in Threads : Uses(t, f) /\ Uses(u, f) => t = u
        /\ (\A t \in Threads : ~Uses(t, f)) => rw_file[f].pos = account[f].due
        /\ \A t \in Threads : Uses(t, f) =>
              /\ thread[t].pos = account[f].due
              /\ thread[t].pc # "return" => rw_file[f].pos = account[f].due

RwInv ==
    /\ RwTypes
    /\ RwLife
    /\ buf_lock \in Threads \cup {FREE}
    /\ \A t \in Threads : CopyOK(t)
    /\ Holes
    /\ \A f \in RwFiles : AccountOK(f)

(* Thread t has the record new; the others keep theirs.                    *)
ThreadBecomes(t, new) ==
    /\ thread' \in [Threads -> RwThread]
    /\ thread'[t] = new
    /\ \A u \in Threads : u # t => thread'[u] = thread[u]

(* ThreadSet() with a record of the right type does that.                  *)
LEMMA ThreadSetBecomes ==
    ASSUME RwTypes, NEW t \in Threads, NEW new \in RwThread,
           Rw!ThreadSet(t, new)
    PROVE  ThreadBecomes(t, new)
  BY DEF RwTypes, Rw!ThreadSet, ThreadBecomes

(* The record of a thread that is in no call.                              *)
LEMMA IdleThread == Rw!Idle \in RwThread /\ Rw!Idle.pc = "idle"
  <1>1. (CHOOSE f \in RwFiles : TRUE) \in RwFiles
    BY FileLabsAssumption
  <1> QED BY <1>1, FileLabsAssumption DEF Rw!Idle, RwThread

(* UsedBy() are those that use.                                            *)
LEMMA UsedByUses ==
    ASSUME NEW f \in RwFiles
    PROVE  Rw!UsedBy(f) = {} <=> \A t \in Threads : ~Uses(t, f)
  BY DEF Rw!UsedBy, Uses

(* A step of open, close or lseek on file f: the other files, the threads  *)
(* and the buffer stay.                                                    *)
LEMMA FileStep ==
    ASSUME RwInv, NEW f \in RwFiles,
           NEW now \in [open : BOOLEAN, pos : 0..BUF_SIZE],
           NEW acc \in [due : Nat, alone : BOOLEAN],
           rw_file' = [rw_file EXCEPT ![f] = now],
           account' = [account EXCEPT ![f] = acc],
           UNCHANGED <<rw_phase, buffer, data_len, buf_lock, thread,
                       addressed>>,
           now.open => rw_phase = "live",
           now.open \/ \A t \in Threads : ~Uses(t, f),
           acc.alone => acc.due = now.pos /\ \A t \in Threads : ~Uses(t, f)
    PROVE  RwInv'
  <1>1. /\ RwTypes
        /\ rw_file'[f] = now /\ account'[f] = acc
        /\ \A g \in RwFiles :
              g # f => rw_file'[g] = rw_file[g] /\ account'[g] = account[g]
    BY DEF RwInv, RwTypes
  <1>2. RwTypes'
    BY <1>1 DEF RwTypes
  <1>3. \A t \in Threads : \A g \in RwFiles : Uses(t, g)' <=> Uses(t, g)
    BY DEF Uses
  <1>4. RwLife'
    BY <1>1, <1>3 DEF RwInv, RwLife
  <1>5. \A t \in Threads : CopyOK(t)'
    BY DEF RwInv, CopyOK, Rw!Span
  <1>6. Holes'
    BY DEF RwInv, Holes, Rw!Slots
  <1>7. ASSUME NEW g \in RwFiles PROVE AccountOK(g)'
    <2>1. CASE g = f
      BY <1>1, <1>3, <2>1 DEF AccountOK
    <2>2. CASE g # f
      BY <1>1, <1>3, <2>2 DEF RwInv, AccountOK
    <2> QED BY <2>1, <2>2
  <1> QED BY <1>2, <1>4, <1>5, <1>6, <1>7 DEF RwInv

(* open, close and lseek.                                                  *)
LEMMA FileStepsKeep ==
    ASSUME RwInv, NEW f \in RwFiles,
           Rw!file_opens(f) \/ Rw!file_closes(f) \/ Rw!rw_llseek(f)
    PROVE  RwInv'
  <1>1. /\ UNCHANGED <<rw_phase, buffer, data_len, buf_lock, thread, addressed>>
        /\ rw_file[f] \in [open : BOOLEAN, pos : 0..BUF_SIZE]
        /\ BUF_SIZE \in Nat /\ RwTypes
    BY FileLabsAssumption DEF Rw!file_opens, Rw!file_closes, Rw!rw_llseek,
       Rw!setupVars, Rw!bufVars, RwInv, RwTypes
  <1>2. /\ Rw!NewAccount \in [due : Nat, alone : BOOLEAN]
        /\ Rw!NewAccount.due = 0
        /\ Rw!Closed \in [open : BOOLEAN, pos : 0..BUF_SIZE]
        /\ ~Rw!Closed.open /\ Rw!Closed.pos = 0
    BY <1>1 DEF Rw!NewAccount, Rw!Closed
  <1>3. CASE Rw!file_opens(f)
    <2>1. PICK now : now = [open |-> TRUE, pos |-> 0]
      OBVIOUS
    <2>2. /\ now \in [open : BOOLEAN, pos : 0..BUF_SIZE]
          /\ now.open /\ now.pos = 0
      BY <1>1, <2>1
    <2>3. /\ rw_phase = "live" /\ ~rw_file[f].open
          /\ rw_file' = [rw_file EXCEPT ![f] = now]
          /\ account' = [account EXCEPT ![f] = Rw!NewAccount]
      BY <1>3, <2>1 DEF Rw!file_opens
    <2>4. \A t \in Threads : ~Uses(t, f)
      BY <2>3 DEF RwInv, RwLife
    <2> QED BY <1>1, <1>2, <2>2, <2>3, <2>4, FileStep
  <1>4. CASE Rw!file_closes(f)
    <2>1. \A t \in Threads : ~Uses(t, f)
      BY <1>4, UsedByUses DEF Rw!file_closes
    <2> QED BY <1>1, <1>2, <1>4, <2>1, FileStep DEF Rw!file_closes
  <1>5. CASE Rw!rw_llseek(f)
    <2>1. PICK pos \in 0..BUF_SIZE :
             /\ rw_file' = [rw_file EXCEPT ![f].pos = pos]
             /\ account' = [account EXCEPT ![f] =
                   IF Rw!UsedBy(f) = {} THEN [Rw!NewAccount EXCEPT !.due = pos]
                                        ELSE Rw!Overlapped]
      BY <1>5 DEF Rw!rw_llseek, Rw!seekable
    <2>2. PICK was : was = rw_file[f]
      OBVIOUS
    <2>3. PICK now : now = [was EXCEPT !.pos = pos]
      OBVIOUS
    <2>4. PICK acc : acc = IF Rw!UsedBy(f) = {}
                           THEN [Rw!NewAccount EXCEPT !.due = pos]
                           ELSE Rw!Overlapped
      OBVIOUS
    <2>5. /\ now \in [open : BOOLEAN, pos : 0..BUF_SIZE]
          /\ now.open = was.open /\ now.pos = pos
      BY <1>1, <2>2, <2>3
    <2>6. /\ acc \in [due : Nat, alone : BOOLEAN]
          /\ acc.alone => acc.due = pos /\ Rw!UsedBy(f) = {}
      <3>1. CASE Rw!UsedBy(f) = {}
        <4>1. acc = [Rw!NewAccount EXCEPT !.due = pos] /\ pos \in Nat
          BY <1>1, <2>4, <3>1
        <4> QED BY <1>2, <3>1, <4>1
      <3>2. CASE Rw!UsedBy(f) # {}
        BY <2>4, <3>2 DEF Rw!Overlapped
      <3> QED BY <3>1, <3>2
    <2>7. rw_file' = [rw_file EXCEPT ![f] = now]
      BY <2>1, <2>2, <2>3
    <2>8. account' = [account EXCEPT ![f] = acc]
      BY <2>1, <2>4
    <2>9. was.open /\ rw_phase = "live"
      BY <1>5, <2>2 DEF Rw!rw_llseek, RwInv, RwLife
    <2>10. acc.alone => acc.due = now.pos /\ \A t \in Threads : ~Uses(t, f)
      BY <2>5, <2>6, UsedByUses
    <2> QED BY <1>1, <2>5, <2>6, <2>7, <2>8, <2>9, <2>10, FileStep
  <1> QED BY <1>3, <1>4, <1>5

(* A thread without buf_lock does not mind what the others do with the     *)
(* buffer; one that has it finds it alone.                                 *)
LEMMA OtherCopies ==
    ASSUME RwInv, NEW t \in Threads, NEW new, ThreadBecomes(t, new),
           \/ /\ buf_lock \in {t, FREE} /\ buf_lock' \in {t, FREE}
           \/ UNCHANGED <<buf_lock, data_len, addressed>>
    PROVE  \A u \in Threads : u # t => CopyOK(u)'
  <1> SUFFICES ASSUME NEW u \in Threads, u # t PROVE CopyOK(u)'
    OBVIOUS
  <1>1. CopyOK(u) /\ thread'[u] = thread[u] /\ u # FREE
    BY FileLabsAssumption DEF RwInv, ThreadBecomes
  <1>2. CASE buf_lock \in {t, FREE} /\ buf_lock' \in {t, FREE}
    BY <1>1, <1>2 DEF CopyOK
  <1>3. CASE UNCHANGED <<buf_lock, data_len, addressed>>
    BY <1>1, <1>3 DEF CopyOK, Rw!Span
  <1> QED BY <1>2, <1>3

(* Users of file f after a step of thread t.                               *)
LEMMA UsesAfter ==
    ASSUME NEW t \in Threads, NEW new, ThreadBecomes(t, new)
    PROVE  /\ \A u \in Threads : \A f \in RwFiles :
                 u # t => (Uses(u, f)' <=> Uses(u, f))
           /\ \A f \in RwFiles :
                 Uses(t, f)' <=> new.pc # "idle" /\ new.file = f
  BY DEF Uses, ThreadBecomes

(* read() or write() begins.                                               *)
LEMMA CallBeginsKeeps ==
    ASSUME RwInv, NEW t \in Threads, Rw!call_begins(t)
    PROVE  RwInv'
  <1>1. PICK f \in RwFiles, op \in {"read", "write"}, n \in 0..(BUF_SIZE + 1),
             byte \in Bytes :
           /\ rw_file[f].open
           /\ Rw!ThreadSet(t, [pc |-> "lock", op |-> op, file |-> f,
                               pos |-> rw_file[f].pos, n |-> n, byte |-> byte])
           /\ account' = [account EXCEPT ![f] =
                 IF Rw!UsedBy(f) = {} THEN @ ELSE Rw!Overlapped]
    BY DEF Rw!call_begins
  <1>2. /\ thread[t].pc = "idle" /\ RwTypes
        /\ UNCHANGED <<rw_phase, buffer, data_len, buf_lock, rw_file,
                       addressed>>
    BY DEF Rw!call_begins, Rw!setupVars, Rw!bufVars, RwInv
  <1>3. PICK new : new = [pc |-> "lock", op |-> op, file |-> f,
                          pos |-> rw_file[f].pos, n |-> n, byte |-> byte]
    OBVIOUS
  <1>4. /\ new \in RwThread
        /\ new.pc = "lock" /\ new.op # "none" /\ new.file = f
        /\ new.pos = rw_file[f].pos
    BY <1>2, <1>3 DEF RwThread, RwTypes
  <1>5. ThreadBecomes(t, new)
    BY <1>1, <1>2, <1>3, <1>4, ThreadSetBecomes
  <1>6. PICK acc : acc = IF Rw!UsedBy(f) = {} THEN account[f] ELSE Rw!Overlapped
    OBVIOUS
  <1>7. /\ acc \in [due : Nat, alone : BOOLEAN]
        /\ acc.alone => acc = account[f] /\ \A u \in Threads : ~Uses(u, f)
    BY <1>2, <1>6, UsedByUses DEF RwTypes, Rw!Overlapped
  <1>8. account' = [account EXCEPT ![f] = acc]
    BY <1>1, <1>6
  <1>9. /\ account' \in [RwFiles -> [due : Nat, alone : BOOLEAN]]
        /\ account'[f] = acc
        /\ \A g \in RwFiles : g # f => account'[g] = account[g]
    BY <1>2, <1>7, <1>8 DEF RwTypes
  <1>10. RwTypes'
    BY <1>2, <1>5, <1>9 DEF RwTypes, ThreadBecomes
  <1>11. RwLife'
    BY <1>1, <1>2, <1>4, <1>5, UsesAfter DEF RwInv, RwLife
  <1>12. CopyOK(t)'
    BY <1>2, <1>4, <1>5 DEF RwInv, CopyOK, ThreadBecomes
  <1>13. \A u \in Threads : CopyOK(u)'
    BY <1>2, <1>5, <1>12, OtherCopies
  <1>14. Holes'
    BY <1>2 DEF RwInv, Holes, Rw!Slots
  <1>15. ASSUME NEW g \in RwFiles PROVE AccountOK(g)'
    <2>1. CASE g = f
      <3> SUFFICES ASSUME acc.alone
                   PROVE  AccountOK(f)'
        BY <1>9, <2>1 DEF AccountOK
      <3>1. /\ account'[f] = account[f] /\ \A u \in Threads : ~Uses(u, f)
            /\ rw_file[f].open /\ account[f].alone
        BY <1>1, <1>7, <1>9
      <3>2. rw_file[f].pos = account[f].due
        BY <3>1 DEF RwInv, AccountOK
      <3>3. \A u \in Threads : Uses(u, f)' <=> u = t
        BY <1>4, <1>5, <3>1, UsesAfter
      <3>4. thread'[t] = new
        BY <1>5 DEF ThreadBecomes
      <3> QED BY <1>2, <1>4, <3>1, <3>2, <3>3, <3>4 DEF AccountOK
    <2>2. CASE g # f
      <3>1. ~Uses(t, g) /\ ~Uses(t, g)'
        BY <1>2, <1>4, <1>5, <2>2, UsesAfter DEF Uses
      <3>2. \A u \in Threads : Uses(u, g)' <=> Uses(u, g)
        BY <1>5, <3>1, UsesAfter
      <3>3. \A u \in Threads : Uses(u, g) => thread'[u] = thread[u]
        BY <1>5, <3>1 DEF ThreadBecomes
      <3>4. AccountOK(g)
        BY DEF RwInv
      <3> QED BY <1>2, <1>9, <2>2, <3>2, <3>3, <3>4 DEF AccountOK
    <2> QED BY <2>1, <2>2
  <1> QED BY <1>2, <1>10, <1>11, <1>13, <1>14, <1>15 DEF RwInv

(* A step of a thread in a call on file f that leaves the other files and  *)
(* accounts alone: what remains to be shown of the account is about f.     *)
LEMMA OtherAccounts ==
    ASSUME RwInv, NEW t \in Threads, NEW new, ThreadBecomes(t, new),
           NEW f \in RwFiles, Uses(t, f), new.pc = "idle" \/ new.file = f,
           \A g \in RwFiles : g # f =>
              rw_file'[g] = rw_file[g] /\ account'[g] = account[g]
    PROVE  \A g \in RwFiles : g # f => AccountOK(g)'
  <1> SUFFICES ASSUME NEW g \in RwFiles, g # f PROVE AccountOK(g)'
    OBVIOUS
  <1>1. ~Uses(t, g) /\ ~Uses(t, g)'
    BY UsesAfter DEF Uses
  <1>2. \A u \in Threads : Uses(u, g)' <=> Uses(u, g)
    BY <1>1, UsesAfter
  <1>3. \A u \in Threads : Uses(u, g) => thread'[u] = thread[u]
    BY <1>1 DEF ThreadBecomes
  <1>4. AccountOK(g)
    BY DEF RwInv
  <1> QED BY <1>2, <1>3, <1>4 DEF AccountOK

(* What is known of thread t in a call on file f whose account is alone.   *)
LEMMA AloneInCall ==
    ASSUME RwInv, NEW t \in Threads, NEW new, ThreadBecomes(t, new),
           NEW f \in RwFiles, Uses(t, f), new.pc = "idle" \/ new.file = f,
           account[f].alone
    PROVE  /\ rw_file[f].open
           /\ thread[t].pos = account[f].due
           /\ thread[t].pc # "return" => rw_file[f].pos = account[f].due
           /\ \A u \in Threads : Uses(u, f)' <=> u = t /\ new.pc # "idle"
  <1>1. rw_file[f].open
    BY DEF RwInv, RwLife
  <1>2. AccountOK(f)
    BY DEF RwInv
  <1>3. \A u \in Threads : u # t => ~Uses(u, f)
    BY <1>1, <1>2 DEF AccountOK
  <1> QED BY <1>1, <1>2, <1>3, UsesAfter DEF AccountOK

(* A call returns: the position is stored.                                 *)
LEMMA CallReturnsKeeps ==
    ASSUME RwInv, NEW t \in Threads, Rw!call_returns(t)
    PROVE  RwInv'
  <1>1. PICK me : me = thread[t]
    OBVIOUS
  <1>2. PICK f : f = me.file
    OBVIOUS
  <1>3. me \in RwThread /\ f \in RwFiles /\ RwTypes
    BY <1>1, <1>2 DEF RwInv, RwTypes, RwThread
  <1>4. /\ me.pc = "return"
        /\ rw_file' = [rw_file EXCEPT ![f].pos = me.pos]
        /\ Rw!ThreadSet(t, Rw!Idle)
        /\ UNCHANGED <<rw_phase, buffer, data_len, buf_lock, addressed, account>>
    BY <1>1, <1>2 DEF Rw!call_returns, Rw!setupVars, Rw!bufVars
  <1>5. ThreadBecomes(t, Rw!Idle) /\ Uses(t, f)
    BY <1>1, <1>2, <1>3, <1>4, IdleThread, ThreadSetBecomes DEF Uses
  <1>6. PICK was : was = rw_file[f]
    OBVIOUS
  <1>7. PICK now : now = [was EXCEPT !.pos = me.pos]
    OBVIOUS
  <1>8. /\ now \in [open : BOOLEAN, pos : 0..BUF_SIZE]
        /\ now.open = was.open /\ now.pos = me.pos
    BY <1>3, <1>6, <1>7 DEF RwTypes, RwThread
  <1>9. rw_file' = [rw_file EXCEPT ![f] = now]
    BY <1>4, <1>6, <1>7
  <1>10. /\ rw_file' \in [RwFiles -> [open : BOOLEAN, pos : 0..BUF_SIZE]]
         /\ rw_file'[f] = now
         /\ \A g \in RwFiles : g # f => rw_file'[g] = rw_file[g]
    BY <1>3, <1>8, <1>9 DEF RwTypes
  <1>11. RwTypes'
    BY <1>3, <1>4, <1>5, <1>10 DEF RwTypes, ThreadBecomes
  <1>12. \A g \in RwFiles : rw_file'[g].open <=> rw_file[g].open
    BY <1>6, <1>8, <1>10
  <1>13. RwLife'
    BY <1>4, <1>5, <1>12, IdleThread, UsesAfter DEF RwInv, RwLife
  <1>14. CopyOK(t)'
    BY <1>1, <1>4, <1>5, IdleThread DEF RwInv, CopyOK, ThreadBecomes
  <1>15. \A u \in Threads : CopyOK(u)'
    BY <1>4, <1>5, <1>14, OtherCopies
  <1>16. Holes'
    BY <1>4 DEF RwInv, Holes, Rw!Slots
  <1>17. AccountOK(f)'
    <2> SUFFICES ASSUME account[f].alone PROVE AccountOK(f)'
      BY <1>4 DEF AccountOK
    <2>1. /\ me.pos = account[f].due
          /\ \A u \in Threads : ~Uses(u, f)'
      BY <1>1, <1>3, <1>5, IdleThread, AloneInCall
    <2> QED BY <1>4, <1>8, <1>10, <2>1 DEF AccountOK
  <1>18. \A g \in RwFiles : AccountOK(g)'
    BY <1>3, <1>4, <1>5, <1>10, <1>17, IdleThread, OtherAccounts
  <1> QED BY <1>4, <1>11, <1>13, <1>15, <1>16, <1>18 DEF RwInv

(* A thread leaves its call without having moved: -ENOSPC or -EFAULT.  The *)
(* bytes that a fault left behind were on record.                          *)
LEMMA CallFails ==
    ASSUME RwInv, NEW t \in Threads, thread[t].pc \in {"lock", "copy"},
           Rw!ThreadSet(t, Rw!Idle),
           buffer' \in [Rw!Slots -> Bytes \cup {0}], Holes',
           UNCHANGED <<rw_phase, data_len, addressed, rw_file, account>>,
           \/ thread[t].pc = "lock" /\ UNCHANGED buf_lock
           \/ thread[t].pc = "copy" /\ buf_lock' = FREE
    PROVE  RwInv'
  <1>1. PICK f : f = thread[t].file
    OBVIOUS
  <1>2. /\ f \in RwFiles /\ RwTypes /\ ThreadBecomes(t, Rw!Idle)
        /\ Uses(t, f)
    BY <1>1, IdleThread, ThreadSetBecomes DEF RwInv, RwTypes, RwThread, Uses
  <1>3. RwTypes'
    BY <1>2 DEF RwTypes, ThreadBecomes
  <1>4. RwLife'
    BY <1>2, IdleThread, UsesAfter DEF RwInv, RwLife
  <1>5. t # FREE /\ CopyOK(t)
    BY FileLabsAssumption DEF RwInv
  <1>6. CopyOK(t)'
    BY <1>2, <1>5, IdleThread DEF CopyOK, ThreadBecomes
  <1>7. buf_lock' \in Threads \cup {FREE} /\ \A u \in Threads : CopyOK(u)'
    BY <1>2, <1>5, <1>6, OtherCopies DEF RwInv, CopyOK
  <1>8. AccountOK(f)'
    <2> SUFFICES ASSUME account[f].alone PROVE AccountOK(f)'
      BY DEF AccountOK
    <2>1. /\ rw_file[f].pos = account[f].due
          /\ \A u \in Threads : ~Uses(u, f)'
      BY <1>2, IdleThread, AloneInCall
    <2> QED BY <2>1 DEF AccountOK
  <1>9. \A g \in RwFiles : AccountOK(g)'
    BY <1>2, <1>8, IdleThread, OtherAccounts
  <1> QED BY <1>3, <1>4, <1>7, <1>9 DEF RwInv

(* rw_read() and rw_write() up to the copy.                                *)
LEMMA EntersKeeps ==
    ASSUME RwInv, NEW t \in Threads, Rw!rw_enters(t)
    PROVE  RwInv'
  <1>1. PICK me : me = thread[t]
    OBVIOUS
  <1>2. PICK f : f = me.file
    OBVIOUS
  <1>3. /\ me \in RwThread /\ f \in RwFiles /\ RwTypes /\ BUF_SIZE \in Nat
        /\ data_len \in 0..BUF_SIZE /\ t # FREE
    BY <1>1, <1>2, FileLabsAssumption DEF RwInv, RwTypes, RwThread
  <1>4. /\ me.pc = "lock" /\ buf_lock = FREE
        /\ UNCHANGED <<rw_phase, buffer, data_len, rw_file, account>>
    BY <1>1 DEF Rw!rw_enters, Rw!lock_free, Rw!setupVars, Rw!bufVars
  <1>5. Uses(t, f) /\ CopyOK(t) /\ me.op \in {"read", "write"}
    BY <1>1, <1>2, <1>3, <1>4 DEF Uses, RwInv, CopyOK, RwThread
  <1>6. ASSUME NEW new \in RwThread, Rw!ThreadSet(t, new),
               new.pc \in {"copy", "return"}, new.file = f, new.pos = me.pos,
               addressed \subseteq addressed', CopyOK(t)',
               buf_lock' \in {t, FREE}
        PROVE  RwInv'
    <2>1. ThreadBecomes(t, new)
      BY <1>3, <1>6, ThreadSetBecomes
    <2>2. RwTypes'
      BY <1>3, <1>4, <2>1 DEF RwTypes, ThreadBecomes
    <2>3. RwLife'
      BY <1>4, <1>5, <1>6, <2>1, UsesAfter DEF RwInv, RwLife
    <2>4. \A u \in Threads : CopyOK(u)'
      BY <1>4, <1>6, <2>1, OtherCopies
    <2>5. Holes'
      BY <1>4, <1>6 DEF RwInv, Holes, Rw!Slots
    <2>6. AccountOK(f)'
      <3> SUFFICES ASSUME account[f].alone PROVE AccountOK(f)'
        BY <1>4 DEF AccountOK
      <3>1. /\ me.pos = account[f].due
            /\ rw_file[f].pos = account[f].due
            /\ \A u \in Threads : Uses(u, f)' <=> u = t
        BY <1>1, <1>3, <1>4, <1>5, <1>6, <2>1, AloneInCall
      <3>2. thread'[t].pos = me.pos
        BY <1>6, <2>1 DEF ThreadBecomes
      <3> QED BY <1>4, <3>1, <3>2 DEF AccountOK
    <2>7. \A g \in RwFiles : AccountOK(g)'
      BY <1>3, <1>4, <1>5, <1>6, <2>1, <2>6, OtherAccounts
    <2> QED BY <1>6, <2>2, <2>3, <2>4, <2>5, <2>7 DEF RwInv
  <1>7. CASE me.pos >= Rw!limit(me.op) /\ me.op = "read"
    <2>1. /\ Rw!ThreadSet(t, [me EXCEPT !.pc = "return"])
          /\ UNCHANGED <<buf_lock, addressed>>
      BY <1>1, <1>7 DEF Rw!rw_enters
    <2>2. PICK new : new = [me EXCEPT !.pc = "return"]
      OBVIOUS
    <2>3. /\ new \in RwThread /\ new.pc = "return" /\ new.file = f
          /\ new.pos = me.pos
      BY <1>2, <1>3, <2>2 DEF RwThread
    <2>4. thread'[t] = new
      BY <1>3, <2>1, <2>2, <2>3, ThreadSetBecomes DEF ThreadBecomes
    <2>5. CopyOK(t)'
      BY <1>3, <1>4, <2>1, <2>3, <2>4 DEF CopyOK
    <2> QED BY <1>4, <1>6, <2>1, <2>2, <2>3, <2>5
  <1>8. CASE me.pos >= Rw!limit(me.op) /\ me.op # "read"
    <2>1. Rw!ThreadSet(t, Rw!Idle) /\ UNCHANGED <<buf_lock, addressed>>
      BY <1>1, <1>8 DEF Rw!rw_enters
    <2>2. Holes'
      BY <1>4, <2>1 DEF RwInv, Holes, Rw!Slots
    <2>3. buffer' \in [Rw!Slots -> Bytes \cup {0}]
      BY <1>4 DEF RwInv, RwTypes
    <2> QED BY <1>1, <1>4, <2>1, <2>2, <2>3, CallFails
  <1>9. CASE ~(me.pos >= Rw!limit(me.op))
    <2>1. PICK room : room = Rw!limit(me.op) - me.pos
      OBVIOUS
    <2>2. PICK n : n = Rw!min(me.n, room)
      OBVIOUS
    <2>3. /\ me.pos \in 0..BUF_SIZE /\ me.n \in 0..(BUF_SIZE + 1)
          /\ Rw!limit(me.op) \in 0..BUF_SIZE
      BY <1>3 DEF RwThread, Rw!limit, Rw!read_limit
    <2>4. /\ n \in 0..(BUF_SIZE + 1) /\ n <= me.n
          /\ me.pos + n <= Rw!limit(me.op)
      BY <1>3, <1>9, <2>1, <2>2, <2>3 DEF Rw!min
    <2>5. PICK new : new = [me EXCEPT !.pc = "copy", !.n = n]
      OBVIOUS
    <2>6. /\ new \in RwThread /\ new.pc = "copy" /\ new.file = f
          /\ new.pos = me.pos /\ new.n = n /\ new.op = me.op
      BY <1>2, <1>3, <2>4, <2>5 DEF RwThread
    <2>7. /\ buf_lock' = t
          /\ Rw!ThreadSet(t, new)
          /\ addressed' = addressed \cup
                (IF me.op = "write" THEN Rw!Span(t) \cap Rw!Slots ELSE {})
      BY <1>1, <1>9, <2>1, <2>2, <2>5 DEF Rw!rw_enters
    <2>8. thread'[t] = new
      BY <1>3, <2>6, <2>7, ThreadSetBecomes DEF ThreadBecomes
    <2>9. ASSUME me.op = "write"
          PROVE  me.pos + n <= BUF_SIZE /\ Rw!Span(t)' \subseteq addressed'
      <3>1. me.pos + n <= BUF_SIZE
        BY <2>4, <2>9 DEF Rw!limit
      <3>2. Rw!Span(t)' = me.pos..(me.pos + n - 1)
        BY <2>6, <2>8 DEF Rw!Span
      <3>3. Rw!Span(t) = me.pos..(me.pos + me.n - 1)
        BY <1>1 DEF Rw!Span
      <3>4. /\ me.pos \in Nat /\ me.n \in Nat /\ n \in Nat /\ n <= me.n
            /\ BUF_SIZE \in Nat
        BY <2>3, <2>4, FileLabsAssumption
      <3>5. ASSUME NEW i \in me.pos..(me.pos + n - 1)
            PROVE  i \in me.pos..(me.pos + me.n - 1) /\ i \in 0..(BUF_SIZE - 1)
        BY <3>1, <3>4
      <3>6. Rw!Span(t)' \subseteq Rw!Span(t) \cap Rw!Slots
        BY <3>2, <3>3, <3>5 DEF Rw!Slots
      <3> QED BY <2>7, <2>9, <3>1, <3>6
    <2>10. me.op = "read" => me.pos + n <= data_len
      BY <2>4 DEF Rw!limit, Rw!read_limit
    <2>11. CopyOK(t)'
      BY <1>4, <1>5, <2>6, <2>7, <2>8, <2>9, <2>10 DEF CopyOK
    <2> QED BY <1>6, <2>6, <2>7, <2>11
  <1> QED BY <1>7, <1>8, <1>9

(* The copy of rw_read() and rw_write() succeeds.                          *)
LEMMA CopiesKeeps ==
    ASSUME RwInv, NEW t \in Threads, Rw!rw_copies(t)
    PROVE  RwInv'
  <1>1. PICK me : me = thread[t]
    OBVIOUS
  <1>2. PICK f : f = me.file
    OBVIOUS
  <1>3. PICK end : end = me.pos + me.n
    OBVIOUS
  <1>4. /\ me \in RwThread /\ f \in RwFiles /\ RwTypes /\ BUF_SIZE \in Nat
        /\ data_len \in 0..BUF_SIZE /\ t # FREE /\ CopyOK(t)
    BY <1>1, <1>2, FileLabsAssumption DEF RwInv, RwTypes, RwThread
  <1>5. /\ me.pos \in 0..BUF_SIZE /\ me.n \in 0..(BUF_SIZE + 1)
        /\ me.op \in {"none", "read", "write"} /\ me.byte \in Bytes \cup {0}
    BY <1>4 DEF RwThread
  <1>6. /\ me.pc = "copy" /\ buf_lock' = FREE
        /\ Rw!ThreadSet(t, [me EXCEPT !.pc = "return", !.pos = end])
        /\ account' = [account EXCEPT ![f] =
              IF @.alone THEN [due |-> @.due + me.n, alone |-> TRUE] ELSE @]
        /\ UNCHANGED <<rw_phase, rw_file, addressed>>
    BY <1>1, <1>2, <1>3 DEF Rw!rw_copies, Rw!ppos_advanced, Rw!setupVars
  <1>7. /\ buf_lock = t /\ Uses(t, f) /\ end \in 0..BUF_SIZE
        /\ me.op = "write" => Rw!Span(t) \subseteq addressed
    BY <1>1, <1>2, <1>3, <1>4, <1>5, <1>6 DEF CopyOK, Uses
  <1>8. /\ buffer' \in [Rw!Slots -> Bytes \cup {0}]
        /\ data_len' \in 0..BUF_SIZE
        /\ Holes'
    <2>1. CASE me.op = "write"
      <3>1. /\ buffer' = [i \in Rw!Slots |-> IF i \in Rw!Span(t) THEN me.byte
                                             ELSE buffer[i]]
            /\ data_len' = IF end > data_len THEN end ELSE data_len
        BY <1>1, <1>3, <2>1 DEF Rw!rw_copies, Rw!ppos_advanced
      <3>2. buffer' \in [Rw!Slots -> Bytes \cup {0}]
        BY <1>4, <1>5, <3>1 DEF RwTypes
      <3>3. Holes'
        BY <1>6, <1>7, <2>1, <3>1 DEF RwInv, Holes, Rw!Slots
      <3> QED BY <1>4, <1>7, <3>1, <3>2, <3>3
    <2>2. CASE me.op # "write"
      <3>1. UNCHANGED <<buffer, data_len>>
        BY <1>1, <2>2 DEF Rw!rw_copies, Rw!bufVars
      <3> QED BY <1>4, <1>6, <3>1 DEF RwInv, RwTypes, Holes, Rw!Slots
    <2> QED BY <2>1, <2>2
  <1>9. PICK new : new = [me EXCEPT !.pc = "return", !.pos = end]
    OBVIOUS
  <1>10. /\ new \in RwThread /\ new.pc = "return" /\ new.file = f
         /\ new.pos = end
    BY <1>2, <1>4, <1>7, <1>9 DEF RwThread
  <1>11. ThreadBecomes(t, new) /\ thread'[t] = new
    BY <1>4, <1>6, <1>9, <1>10, ThreadSetBecomes DEF ThreadBecomes
  <1>12. PICK was : was = account[f]
    OBVIOUS
  <1>13. was \in [due : Nat, alone : BOOLEAN] /\ me.n \in Nat
    BY <1>4, <1>5, <1>12 DEF RwTypes
  <1>14. PICK sum \in Nat : sum = was.due + me.n
    BY <1>13
  <1>15. PICK acc : acc = IF was.alone
                          THEN [due |-> was.due + me.n, alone |-> TRUE] ELSE was
    OBVIOUS
  <1>16. /\ acc \in [due : Nat, alone : BOOLEAN]
         /\ acc.alone => was.alone /\ acc.due = sum
    BY <1>13, <1>14, <1>15
  <1>17. account' = [account EXCEPT ![f] = acc]
    BY <1>6, <1>12, <1>15
  <1>18. /\ account' \in [RwFiles -> [due : Nat, alone : BOOLEAN]]
         /\ account'[f] = acc
         /\ \A g \in RwFiles : g # f => account'[g] = account[g]
    BY <1>4, <1>16, <1>17 DEF RwTypes
  <1>19. RwTypes'
    BY <1>4, <1>6, <1>8, <1>11, <1>18 DEF RwTypes, ThreadBecomes
  <1>20. RwLife'
    BY <1>6, <1>7, <1>10, <1>11, UsesAfter DEF RwInv, RwLife
  <1>21. CopyOK(t)'
    BY <1>4, <1>6, <1>10, <1>11 DEF CopyOK
  <1>22. \A u \in Threads : CopyOK(u)'
    BY <1>6, <1>7, <1>11, <1>21, OtherCopies
  <1>23. AccountOK(f)'
    <2> SUFFICES ASSUME acc.alone PROVE AccountOK(f)'
      BY <1>18 DEF AccountOK
    <2>1. /\ me.pos = was.due
          /\ \A u \in Threads : Uses(u, f)' <=> u = t
      BY <1>1, <1>4, <1>7, <1>10, <1>11, <1>12, <1>16, AloneInCall
    <2>2. new.pos = acc.due
      BY <1>3, <1>10, <1>14, <1>16, <2>1
    <2> QED BY <1>10, <1>11, <1>18, <2>1, <2>2 DEF AccountOK
  <1>24. \A g \in RwFiles : AccountOK(g)'
    BY <1>4, <1>6, <1>7, <1>10, <1>11, <1>18, <1>23, OtherAccounts
  <1> QED BY <1>6, <1>8, <1>19, <1>20, <1>22, <1>24 DEF RwInv

(* The copy faults, perhaps after some of the bytes.                       *)
LEMMA FaultsKeeps ==
    ASSUME RwInv, NEW t \in Threads, Rw!rw_faults(t)
    PROVE  RwInv'
  <1>1. /\ thread[t].pc = "copy" /\ buf_lock' = FREE
        /\ Rw!ThreadSet(t, Rw!Idle)
        /\ UNCHANGED <<rw_phase, data_len, addressed, rw_file, account>>
    BY DEF Rw!rw_faults, Rw!setupVars
  <1>2. /\ CopyOK(t) /\ RwTypes /\ BUF_SIZE \in Nat
        /\ thread[t].pos \in 0..BUF_SIZE /\ thread[t].n \in 0..(BUF_SIZE + 1)
        /\ thread[t].byte \in Bytes \cup {0}
    BY FileLabsAssumption DEF RwInv, RwTypes, RwThread
  <1>3. buffer' \in [Rw!Slots -> Bytes \cup {0}] /\ Holes'
    <2>1. PICK k \in 0..(thread[t].n - 1) :
             buffer' = [i \in Rw!Slots |->
                          IF thread[t].op = "read" \/ i \notin Rw!Span(t)
                          THEN buffer[i]
                          ELSE IF i < thread[t].pos + k THEN thread[t].byte
                                                        ELSE 0]
      BY DEF Rw!rw_faults
    <2>2. buffer' \in [Rw!Slots -> Bytes \cup {0}]
      BY <1>2, <2>1 DEF RwTypes
    <2>3. thread[t].op # "read" => Rw!Span(t) \subseteq addressed
      BY <1>1, <1>2 DEF CopyOK, RwTypes, RwThread
    <2>4. \A i \in Rw!Slots : i \notin addressed => buffer'[i] = buffer[i]
      BY <2>1, <2>3
    <2> QED BY <1>1, <2>2, <2>4 DEF RwInv, Holes
  <1> QED BY <1>1, <1>3, CallFails

(* Nothing of the module is in use before it is live.                      *)
LEMMA NotLiveIsQuiet ==
    ASSUME RwInv, rw_phase # "live" \/ \A f \in RwFiles : ~rw_file[f].open
    PROVE  /\ \A f \in RwFiles : ~rw_file[f].open
           /\ \A t \in Threads : thread[t].pc = "idle"
  <1>1. \A f \in RwFiles : ~rw_file[f].open
    BY DEF RwInv, RwLife
  <1>2. \A t \in Threads : thread[t].file \in RwFiles
    BY DEF RwInv, RwTypes, RwThread
  <1> QED BY <1>1, <1>2 DEF RwInv, RwLife, Uses

(* read_write_cdev_init() and read_write_cdev_exit().                      *)
LEMMA RwModuleKeeps ==
    ASSUME RwInv, Rw!module_loads \/ Rw!module_steps
    PROVE  RwInv'
  <1>1. CASE Rw!module_loads
    <2>1. /\ rw_phase = "unloaded"
          /\ buffer' = [i \in Rw!Slots |-> 0] /\ data_len' = 0
          /\ addressed' = {}
          /\ UNCHANGED <<buf_lock, rw_file, thread, account>>
      BY <1>1 DEF Rw!module_loads, Rw!Setup!init_begin, Rw!fresh_zeroed
    <2>2. /\ \A f \in RwFiles : ~rw_file[f].open
          /\ \A t \in Threads : thread[t].pc = "idle"
      BY <2>1, NotLiveIsQuiet
    <2>3. RwTypes'
      BY <2>1, FileLabsAssumption DEF RwInv, RwTypes, Rw!Slots
    <2>4. Holes'
      BY <2>1 DEF Holes, Rw!Slots
    <2>5. \A t \in Threads : CopyOK(t)'
      BY <2>1, <2>2 DEF RwInv, CopyOK
    <2>6. RwLife' /\ \A f \in RwFiles : AccountOK(f)'
      BY <2>1, <2>2 DEF RwLife, AccountOK, Uses
    <2> QED BY <2>1, <2>3, <2>4, <2>5, <2>6 DEF RwInv
  <1>2. CASE Rw!module_steps
    <2>1. /\ UNCHANGED <<buffer, data_len, buf_lock, rw_file, thread,
                         addressed, account>>
          /\ rw_phase # "live" \/ \A f \in RwFiles : ~rw_file[f].open
      BY <1>2 DEF Rw!module_steps, Rw!bufVars, Rw!Setup!init_continues,
         Rw!Setup!init_acquire, Rw!Setup!init_goto, Rw!Setup!undo_continues,
         Rw!Setup!undo_next, Rw!Setup!undo_done
    <2>2. /\ \A f \in RwFiles : ~rw_file[f].open
          /\ \A t \in Threads : thread[t].pc = "idle"
      BY <2>1, NotLiveIsQuiet
    <2>3. RwTypes' /\ Holes' /\ \A t \in Threads : CopyOK(t)'
      BY <2>1, <2>2 DEF RwInv, RwTypes, Holes, CopyOK, Rw!Slots
    <2>4. RwLife' /\ \A f \in RwFiles : AccountOK(f)'
      BY <2>1, <2>2 DEF RwLife, AccountOK, Uses
    <2> QED BY <2>1, <2>3, <2>4 DEF RwInv
  <1> QED BY <1>1, <1>2

(* Lab 09: the invariant in every behaviour of the six labs.               *)
LEMMA RwInductive == FairSpec => []RwInv
  <1>1. ASSUME Init PROVE RwInv
    <2>1. Rw!Init
      BY <1>1 DEF Init
    <2>2. /\ buffer = [i \in Rw!Slots |-> 0] /\ data_len = 0 /\ addressed = {}
          /\ buf_lock = FREE
          /\ \A f \in RwFiles : ~rw_file[f].open
          /\ \A t \in Threads : thread[t].pc = "idle"
      BY <2>1, IdleThread DEF Rw!Init, Rw!Closed
    <2>3. RwTypes
      <3>1. thread \in [Threads -> RwThread]
        BY <2>1, IdleThread DEF Rw!Init
      <3>2. /\ Rw!Closed \in [open : BOOLEAN, pos : 0..BUF_SIZE]
            /\ Rw!NewAccount \in [due : Nat, alone : BOOLEAN]
        BY FileLabsAssumption DEF Rw!Closed, Rw!NewAccount
      <3>3. /\ rw_file \in [RwFiles -> [open : BOOLEAN, pos : 0..BUF_SIZE]]
            /\ account \in [RwFiles -> [due : Nat, alone : BOOLEAN]]
        BY <2>1, <3>2 DEF Rw!Init
      <3> QED BY <2>2, <3>1, <3>3, FileLabsAssumption DEF RwTypes
    <2>4. Holes /\ \A t \in Threads : CopyOK(t)
      BY <2>2, FileLabsAssumption DEF Holes, CopyOK
    <2>5. RwLife /\ \A f \in RwFiles : AccountOK(f)
      BY <2>2 DEF RwLife, AccountOK, Uses
    <2> QED BY <2>2, <2>3, <2>4, <2>5 DEF RwInv
  <1>2. ASSUME RwInv, [Next]_vars PROVE RwInv'
    <2>1. CASE Rw!Next
      BY <1>2, <2>1, FileStepsKeep, CallBeginsKeeps, CallReturnsKeeps,
         EntersKeeps, CopiesKeeps, FaultsKeeps, RwModuleKeeps DEF Rw!Next
    <2>2. CASE UNCHANGED rwVars
      BY <1>2, <2>2 DEF rwVars, RwInv, RwTypes, RwLife, Uses, CopyOK, Holes,
         AccountOK, Rw!Slots, Rw!Span
    <2> QED BY <1>2, <2>1, <2>2 DEF Next, vars
  <1> QED BY <1>1, <1>2, PTL DEF FairSpec

(* Labs 04 and 09, for every size of buffer and any number of threads that *)
(* read, write and seek: no handler leaves its buffer, and no copy         *)
(* overlaps another.                                                       *)
THEOREM BuffersAreRespected == FairSpec => []BuffersRespected
  <1>1. ASSUME RwInv PROVE Rw!CopiesInBounds /\ Rw!CopiesExclusive
    BY <1>1 DEF RwInv, CopyOK, Rw!CopiesInBounds, Rw!CopiesExclusive
  <1>2. ParamsInv /\ RwInv => BuffersRespected
    BY <1>1, ParamsFit DEF BuffersRespected
  <1> QED BY <1>2, ParamsInductive, RwInductive, PTL

(* Lab 09: what no rw_write() was about reads as zeros, after seeks past   *)
(* the data and after faults too.                                          *)
THEOREM HolesAreZero == FairSpec => []HolesReadZero
  <1>1. RwInv => HolesReadZero
    BY DEF RwInv, Holes, HolesReadZero, Rw!HolesReadZero
  <1> QED BY <1>1, RwInductive, PTL

(* Lab 04 *)

(* How many steps are left of a read() at most, from the place and the     *)
(* rounds of me.                                                           *)
StepsOfRead(me) ==
    CASE me.pc = "reps"   -> MAX_REPEAT + 3
      [] me.pc = "render" -> me.reps + 2
      [] OTHER            -> 1

(* A step of a process that reads takes it to the end of the output, or    *)
(* its position on, or, at the same position, nearer to the end of read(). *)
ReadersGetOn ==
    \A r \in Readers :
        reader[r].pc # "idle" =>
            \/ reader'[r] = reader[r]
            \/ reader'[r].pc = "idle"
            \/ reader'[r].pos > reader[r].pos
            \/ /\ reader'[r].pos = reader[r].pos
               /\ StepsOfRead(reader'[r]) < StepsOfRead(reader[r])

RoundsClamped == \A r \in Readers : reader[r].reps <= MAX_REPEAT

(* What a reader's step gives it, in one of its places.                    *)
LEMMA ReaderGetsOn ==
    ASSUME ParamsInv, RoundsClamped, NEW r \in Readers,
           Params!module_params_read(r)
    PROVE  /\ reader'[r].reps <= MAX_REPEAT
           /\ \A q \in Readers : q # r => reader'[q] = reader[q]
           /\ \/ reader'[r].pc = "idle"
              \/ reader'[r].pos > reader[r].pos
              \/ /\ reader'[r].pos = reader[r].pos
                 /\ StepsOfRead(reader'[r]) < StepsOfRead(reader[r])
  <1>1. PICK me : me = reader[r]
    OBVIOUS
  <1>2. /\ me \in ParamsReader /\ me.reps <= MAX_REPEAT
        /\ MAX_REPEAT \in Nat /\ repeat_count \in Nat
    BY <1>1, FileLabsAssumption DEF ParamsInv, RoundsClamped
  <1>3. ASSUME NEW new, Params!ReaderSet(r, new)
        PROVE  /\ reader'[r] = new
               /\ \A q \in Readers : q # r => reader'[q] = reader[q]
    BY <1>3 DEF ParamsInv, Params!ReaderSet
  <1>4. CASE Params!read_reps(r)
    <2>1. PICK n : n = Params!clamped(repeat_count)
      OBVIOUS
    <2>2. n \in Nat /\ n <= MAX_REPEAT
      BY <1>2, <2>1 DEF Params!clamped
    <2>3. PICK new : new = [me EXCEPT !.pc = "render", !.reps = n]
      OBVIOUS
    <2>4. /\ new.pc = "render" /\ new.reps = n /\ new.pos = me.pos
          /\ me.pc = "reps"
      BY <1>1, <1>2, <1>4, <2>3 DEF ParamsReader, Params!read_reps
    <2>5. Params!ReaderSet(r, new)
      BY <1>1, <1>4, <2>1, <2>3 DEF Params!read_reps
    <2>6. StepsOfRead(new) < StepsOfRead(me)
      BY <1>2, <2>2, <2>4 DEF StepsOfRead
    <2> QED BY <1>1, <1>3, <2>2, <2>4, <2>5, <2>6
  <1>5. CASE Params!read_greets(r)
    <2>1. PICK new : new = [me EXCEPT !.reps = @ - 1,
                               !.len = Params!scnprintf(@, GreetingLine)]
      OBVIOUS
    <2>2. /\ new.pc = "render" /\ new.reps = me.reps - 1
          /\ new.pos = me.pos /\ me.pc = "render" /\ me.reps \in Nat
      BY <1>1, <1>2, <1>5, <2>1 DEF ParamsReader, Params!read_greets
    <2>3. Params!ReaderSet(r, new)
      BY <1>1, <1>5, <2>1 DEF Params!read_greets
    <2>4. /\ StepsOfRead(new) < StepsOfRead(me)
          /\ new.reps <= MAX_REPEAT
      BY <1>2, <2>2 DEF StepsOfRead
    <2> QED BY <1>1, <1>3, <2>2, <2>3, <2>4
  <1>6. CASE Params!read_renders(r)
    <2>1. PICK new : new = [me EXCEPT !.pc = "copy",
              !.len = IF verbose THEN Params!scnprintf(@, Diagnostics) ELSE @]
      OBVIOUS
    <2>2. /\ new.pc = "copy" /\ new.reps = me.reps
          /\ new.pos = me.pos /\ me.pc = "render" /\ me.reps \in Nat
      BY <1>1, <1>2, <1>6, <2>1 DEF ParamsReader, Params!read_renders
    <2>3. Params!ReaderSet(r, new)
      BY <1>1, <1>6, <2>1 DEF Params!read_renders
    <2>4. StepsOfRead(new) < StepsOfRead(me)
      BY <1>2, <2>2 DEF StepsOfRead
    <2> QED BY <1>1, <1>2, <1>3, <2>2, <2>3, <2>4
  <1>7. CASE Params!read_copy(r)
    <2>1. Params!Idle.pc = "idle" /\ Params!Idle.reps = 0
      BY DEF Params!Idle
    <2>2. CASE Params!ReaderSet(r, Params!Idle)
      BY <1>2, <1>3, <2>1, <2>2
    <2>3. ASSUME NEW n \in 1..(me.len - me.pos),
                 Params!ReaderSet(r, [Params!Idle EXCEPT !.pc = "reps",
                     !.pos = Params!position_advanced(me.pos, n)])
          PROVE  /\ reader'[r].reps = 0
                 /\ reader'[r].pos > reader[r].pos
                 /\ \A q \in Readers : q # r => reader'[q] = reader[q]
      <3>1. PICK new : new = [Params!Idle EXCEPT !.pc = "reps",
                                 !.pos = Params!position_advanced(me.pos, n)]
        OBVIOUS
      <3>2. new.reps = 0 /\ new.pos = me.pos + n
        BY <3>1 DEF Params!Idle, Params!position_advanced
      <3>3. me.pos \in Nat /\ me.len \in Nat
        BY <1>2, FileLabsAssumption DEF ParamsReader
      <3>4. new.pos > me.pos
        BY <2>3, <3>2, <3>3
      <3>5. Params!ReaderSet(r, new)
        BY <2>3, <3>1
      <3>6. /\ reader'[r] = new
            /\ \A q \in Readers : q # r => reader'[q] = reader[q]
        BY <1>3, <3>5
      <3> QED BY <1>1, <3>2, <3>4, <3>6
    <2>4. \/ Params!ReaderSet(r, Params!Idle)
          \/ \E n \in 1..(me.len - me.pos) :
                Params!ReaderSet(r, [Params!Idle EXCEPT !.pc = "reps",
                    !.pos = Params!position_advanced(me.pos, n)])
      BY <1>1, <1>7 DEF Params!read_copy
    <2>5. CASE \E n \in 1..(me.len - me.pos) :
                  Params!ReaderSet(r, [Params!Idle EXCEPT !.pc = "reps",
                      !.pos = Params!position_advanced(me.pos, n)])
      <3>1. /\ reader'[r].reps = 0
            /\ reader'[r].pos > reader[r].pos
            /\ \A q \in Readers : q # r => reader'[q] = reader[q]
        BY <2>3, <2>5
      <3> QED BY <1>2, <3>1
    <2> QED BY <2>2, <2>4, <2>5
  <1> QED BY <1>4, <1>5, <1>6, <1>7 DEF Params!module_params_read

(* module_params_read() renders its output anew in every call, from what   *)
(* the parameters are then; still a process that reads gets on with every  *)
(* step, and by BuffersAreRespected its position stays below MAX_OUTPUT.   *)
(* It reaches the end if it goes on at all.                                *)
THEOREM ReadersAlwaysGetOn == FairSpec => [][ReadersGetOn]_vars
  <1>1. Init => RoundsClamped
    BY FileLabsAssumption
       DEF Init, Params!Init, Params!Idle, RoundsClamped
  <1>2. ASSUME ParamsInv, RoundsClamped, [Next]_vars
        PROVE  RoundsClamped' /\ ReadersGetOn
    <2>1. CASE UNCHANGED reader
      BY <1>2, <2>1 DEF RoundsClamped, ReadersGetOn
    <2>2. ASSUME NEW r \in Readers, Params!reader_opens(r)
          PROVE  RoundsClamped' /\ ReadersGetOn
      <3>1. PICK new : new = [Params!Idle EXCEPT !.pc = "reps"]
        OBVIOUS
      <3>2. reader[r].pc = "idle" /\ reader' = [reader EXCEPT ![r] = new]
        BY <2>2, <3>1 DEF Params!reader_opens, Params!ReaderSet
      <3>3. new.reps = 0
        BY <3>1 DEF Params!Idle
      <3> QED BY <1>2, <3>2, <3>3, FileLabsAssumption
             DEF ParamsInv, RoundsClamped, ReadersGetOn
    <2>3. ASSUME NEW r \in Readers, Params!module_params_read(r)
          PROVE  RoundsClamped' /\ ReadersGetOn
      BY <1>2, <2>3, ReaderGetsOn DEF RoundsClamped, ReadersGetOn
    <2>4. CASE Params!Next
      BY <2>1, <2>2, <2>3, <2>4
         DEF Params!Next, Params!param_write, Params!module_params_init,
             Params!module_params_exit
    <2> QED BY <1>2, <2>1, <2>4 DEF Next, vars, paramsVars
  <1> QED BY <1>1, <1>2, ParamsInductive, PTL DEF FairSpec

(* Lab 05 *)

CatRecord ==
    [pc : {"idle", "read", "copy", "store", "eof", "done", "failed"},
     file : Files, pos : Nat]

RegisterTypes ==
    /\ register_loaded \in BOOLEAN
    /\ register_file \in [Files -> [users : SUBSET Cats, pos : Nat]]
    /\ cat \in [Cats -> CatRecord]
    /\ got \in [Cats -> Nat]
    /\ alone \in [Cats -> BOOLEAN]

(* A process that reads is a user of its file and of no other; a file      *)
(* without users is back at its start.                                     *)
UsersOK ==
    /\ \A f \in Files : \A p \in Cats :
          p \in register_file[f].users <=>
             cat[p].pc # "idle" /\ cat[p].file = f
    /\ \A f \in Files :
          /\ register_file[f].users = {} => register_file[f].pos = 0
          /\ register_file[f].users # {} => register_loaded

(* Who has the file to itself has read as far as the file's position, or   *)
(* its own copy of it, says.                                               *)
CatOK(p) ==
    cat[p].pc # "idle" /\ alone[p] =>
        /\ register_file[cat[p].file].users = {p}
        /\ got[p] <= MCMessageLength[p]
        /\ cat[p].pc \in {"read", "copy"} =>
              register_file[cat[p].file].pos = got[p]
        /\ cat[p].pc \in {"copy", "store", "eof"} => cat[p].pos = got[p]
        /\ cat[p].pc \in {"eof", "done"} => got[p] = MCMessageLength[p]

RegisterOpen == {f \in Files : register_file[f].users # {}}

RegisterInv ==
    /\ RegisterTypes
    /\ UsersOK
    /\ register_loaded => open_count = Cardinality(RegisterOpen)
    /\ \A p \in Cats : CatOK(p)

(* Process p has the record new; the others keep theirs.                   *)
CatBecomes(p, new) ==
    /\ cat' \in [Cats -> CatRecord]
    /\ cat'[p] = new
    /\ \A q \in Cats : q # p => cat'[q] = cat[q]

(* A message has a length.                                                 *)
LEMMA MessageLength == \A p \in Cats : MCMessageLength[p] \in Nat
  BY DEF MCMessageLength

(* The record of a process that does not read.                             *)
LEMMA IdleCat == Register!Idle \in CatRecord /\ Register!Idle.pc = "idle"
  <1>1. (CHOOSE f \in Files : TRUE) \in Files
    BY FileLabsAssumption
  <1> QED BY <1>1 DEF Register!Idle, CatRecord

(* The instance counts as this module does.                                *)
LEMMA RegisterCardinality == \A S : Register!Cardinality(S) = Cardinality(S)
  BY DEF Register!Cardinality, Cardinality, Register!IsFiniteSet, IsFiniteSet

(* A step of register_cdev_read(): of the files it touches the position of *)
(* its own only.                                                           *)
LEMMA CatReads ==
    ASSUME RegisterInv, NEW p \in Cats, NEW new \in CatRecord,
           CatBecomes(p, new), cat[p].pc # "idle", new.pc # "idle",
           new.file = cat[p].file,
           UNCHANGED <<register_loaded, open_count, alone>>,
           register_file' \in [Files -> [users : SUBSET Cats, pos : Nat]],
           \A f \in Files :
              /\ register_file'[f].users = register_file[f].users
              /\ f # cat[p].file => register_file'[f] = register_file[f],
           got' \in [Cats -> Nat],
           \A q \in Cats : q # p => got'[q] = got[q],
           CatOK(p)'
    PROVE  RegisterInv'
  <1>1. RegisterTypes'
    BY DEF RegisterInv, RegisterTypes, CatBecomes
  <1>2. cat[p].file \in Files /\ cat \in [Cats -> CatRecord]
    BY DEF RegisterInv, RegisterTypes, CatRecord
  <1>3. UsersOK
    BY DEF RegisterInv
  <1>4. p \in register_file[cat[p].file].users
    BY <1>2, <1>3 DEF UsersOK
  <1>5. \A f \in Files : \A q \in Cats :
           q \in register_file'[f].users <=>
              cat'[q].pc # "idle" /\ cat'[q].file = f
    BY <1>2, <1>3 DEF UsersOK, CatBecomes
  <1>6. UsersOK'
    BY <1>2, <1>3, <1>4, <1>5 DEF UsersOK
  <1>7. RegisterOpen' = RegisterOpen
    BY DEF RegisterOpen
  <1>8. ASSUME NEW q \in Cats, q # p PROVE CatOK(q)'
    <2>1. /\ cat'[q] = cat[q] /\ got'[q] = got[q] /\ alone' = alone
          /\ CatOK(q) /\ cat[q].file \in Files
      BY <1>8 DEF CatBecomes, RegisterInv, RegisterTypes, CatRecord
    <2>2. CASE cat[q].pc # "idle" /\ alone[q]
      <3>1. register_file[cat[q].file].users = {q}
        BY <2>1, <2>2 DEF CatOK
      <3>2. cat[q].file # cat[p].file
        BY <1>4, <1>8, <3>1
      <3>3. register_file'[cat[q].file] = register_file[cat[q].file]
        BY <2>1, <3>2
      <3> QED BY <2>1, <3>3 DEF CatOK
    <2>3. CASE ~(cat[q].pc # "idle" /\ alone[q])
      BY <2>1, <2>3 DEF CatOK
    <2> QED BY <2>2, <2>3
  <1> QED BY <1>1, <1>6, <1>7, <1>8 DEF RegisterInv

(* register_cdev_read().                                                   *)
LEMMA ReadKeeps ==
    ASSUME RegisterInv, NEW p \in Cats, Register!register_cdev_read(p)
    PROVE  RegisterInv'
  <1>1. PICK me : me = cat[p]
    OBVIOUS
  <1>2. PICK f : f = me.file
    OBVIOUS
  <1>3. /\ me \in CatRecord /\ f \in Files /\ RegisterTypes /\ CatOK(p)
        /\ me.pos \in Nat /\ got[p] \in Nat
        /\ register_file[f] \in [users : SUBSET Cats, pos : Nat]
        /\ MCMessageLength[p] \in Nat /\ alone[p] \in BOOLEAN
    BY <1>1, <1>2, MessageLength DEF RegisterInv, RegisterTypes, CatRecord
  <1>4. /\ UNCHANGED <<register_loaded, open_count, alone>>
        /\ me.pc # "idle"
    BY <1>1 DEF Register!register_cdev_read, Register!read_begins,
       Register!read_copies, Register!read_faults, Register!read_returns
  <1>5. ASSUME NEW new \in CatRecord, cat' = [cat EXCEPT ![p] = new]
        PROVE  CatBecomes(p, new)
    BY <1>3, <1>5 DEF RegisterTypes, CatBecomes
  <1>6. CASE Register!read_begins(p)
    <2>1. PICK at : at = register_file[f].pos
      OBVIOUS
    <2>2. PICK new : new = [me EXCEPT !.pc = "copy", !.pos = at]
      OBVIOUS
    <2>3. /\ new \in CatRecord /\ new.pc = "copy" /\ new.pos = at
          /\ new.file = f
      BY <1>2, <1>3, <2>1, <2>2 DEF CatRecord
    <2>4. /\ cat' = [cat EXCEPT ![p] = [me EXCEPT !.pc = "copy", !.pos = at]]
          /\ me.pc = "read" /\ UNCHANGED <<register_file, got>>
      BY <1>1, <1>2, <1>6, <2>1 DEF Register!read_begins
    <2>5. CatBecomes(p, new)
      BY <1>5, <2>2, <2>3, <2>4
    <2>6. CatOK(p)'
      BY <1>1, <1>2, <1>3, <1>4, <2>1, <2>3, <2>4, <2>5 DEF CatOK, CatBecomes
    <2> QED BY <1>1, <1>2, <1>3, <1>4, <2>3, <2>4, <2>5, <2>6, CatReads
            DEF RegisterTypes
  <1>7. CASE Register!read_copies(p) /\ Register!at_end(p)
    <2>1. PICK new : new = [me EXCEPT !.pc = "eof"]
      OBVIOUS
    <2>2. /\ new \in CatRecord /\ new.pc = "eof" /\ new.pos = me.pos
          /\ new.file = f
      BY <1>2, <1>3, <2>1 DEF CatRecord
    <2>3. /\ cat' = [cat EXCEPT ![p] = [me EXCEPT !.pc = "eof"]]
          /\ me.pc = "copy" /\ UNCHANGED <<register_file, got>>
      BY <1>1, <1>7 DEF Register!read_copies
    <2>4. CatBecomes(p, new)
      BY <1>5, <2>1, <2>2, <2>3
    <2>5. me.pos >= MCMessageLength[p]
      BY <1>1, <1>7 DEF Register!at_end
    <2>6. CatOK(p)'
      BY <1>1, <1>2, <1>3, <1>4, <2>2, <2>3, <2>4, <2>5 DEF CatOK, CatBecomes
    <2> QED BY <1>1, <1>2, <1>3, <1>4, <2>2, <2>3, <2>4, <2>6, CatReads
            DEF RegisterTypes
  <1>8. CASE Register!read_copies(p) /\ ~Register!at_end(p)
    <2>1. me.pos < MCMessageLength[p]
      BY <1>1, <1>3, <1>8 DEF Register!at_end
    <2>2. PICK n \in 1..(MCMessageLength[p] - me.pos) :
             /\ cat' = [cat EXCEPT ![p].pc = "store",
                                   ![p].pos = Register!offset_advanced(@, n)]
             /\ got' = [got EXCEPT ![p] = @ + (IF alone[p] THEN n ELSE 0)]
      BY <1>1, <1>8 DEF Register!read_copies
    <2>3. PICK end : end = me.pos + n
      OBVIOUS
    <2>4. n \in Nat /\ end \in Nat /\ end <= MCMessageLength[p]
      BY <1>3, <2>1, <2>2, <2>3
    <2>5. PICK new : new = [me EXCEPT !.pc = "store", !.pos = end]
      OBVIOUS
    <2>6. /\ new \in CatRecord /\ new.pc = "store" /\ new.pos = end
          /\ new.file = f
      BY <1>2, <1>3, <2>4, <2>5 DEF CatRecord
    <2>7. cat' = [cat EXCEPT ![p] = [me EXCEPT !.pc = "store", !.pos = end]]
      <3>1. cat' = [cat EXCEPT ![p] = [cat[p] EXCEPT !.pc = "store",
                       !.pos = cat[p].pos + n]]
        BY <2>2 DEF Register!offset_advanced
      <3> QED BY <1>1, <2>3, <3>1
    <2>8. CatBecomes(p, new)
      BY <1>5, <2>5, <2>6, <2>7
    <2>9. PICK now : now = got[p] + (IF alone[p] THEN n ELSE 0)
      OBVIOUS
    <2>10. now \in Nat /\ (alone[p] => now = got[p] + n)
      BY <1>3, <2>4, <2>9
    <2>11. got' = [got EXCEPT ![p] = now]
      BY <2>2, <2>9
    <2>12. /\ got' \in [Cats -> Nat] /\ got'[p] = now
           /\ \A q \in Cats : q # p => got'[q] = got[q]
      BY <1>3, <2>10, <2>11 DEF RegisterTypes
    <2>13. me.pc = "copy" /\ UNCHANGED register_file
      BY <1>1, <1>8 DEF Register!read_copies
    <2>14. alone[p] => now = end
      BY <1>1, <1>3, <1>4, <2>3, <2>10, <2>13 DEF CatOK
    <2>15. CatOK(p)'
      BY <1>1, <1>2, <1>3, <1>4, <2>4, <2>6, <2>8, <2>12, <2>13, <2>14
         DEF CatOK, CatBecomes
    <2> QED BY <1>1, <1>2, <1>3, <1>4, <2>6, <2>8, <2>12, <2>13, <2>15,
               CatReads DEF RegisterTypes
  <1>9. CASE Register!read_faults(p)
    <2>1. PICK new : new = [me EXCEPT !.pc = "failed"]
      OBVIOUS
    <2>2. /\ new \in CatRecord /\ new.pc = "failed" /\ new.file = f
      BY <1>2, <1>3, <2>1 DEF CatRecord
    <2>3. /\ cat' = [cat EXCEPT ![p] = [me EXCEPT !.pc = "failed"]]
          /\ UNCHANGED <<register_file, got>>
      BY <1>1, <1>9 DEF Register!read_faults
    <2>4. CatBecomes(p, new)
      BY <1>5, <2>1, <2>2, <2>3
    <2>5. CatOK(p)'
      BY <1>1, <1>2, <1>3, <1>4, <2>2, <2>3, <2>4 DEF CatOK, CatBecomes
    <2> QED BY <1>1, <1>2, <1>3, <1>4, <2>2, <2>3, <2>4, <2>5, CatReads
            DEF RegisterTypes
  <1>10. CASE Register!read_returns(p)
    <2>1. PICK to : to = IF me.pc = "store" THEN "read" ELSE "done"
      OBVIOUS
    <2>2. PICK new : new = [me EXCEPT !.pc = to]
      OBVIOUS
    <2>3. /\ new \in CatRecord /\ new.pc = to /\ new.pos = me.pos
          /\ new.file = f /\ to \in {"read", "done"}
      BY <1>2, <1>3, <2>1, <2>2 DEF CatRecord
    <2>4. /\ cat' = [cat EXCEPT ![p] = [me EXCEPT !.pc = to]]
          /\ me.pc \in {"store", "eof"} /\ UNCHANGED got
      BY <1>1, <1>10, <2>1 DEF Register!read_returns
    <2>5. CatBecomes(p, new)
      BY <1>5, <2>2, <2>3, <2>4
    <2>6. PICK was : was = register_file[f]
      OBVIOUS
    <2>7. PICK now : now = [was EXCEPT !.pos = me.pos]
      OBVIOUS
    <2>8. /\ now \in [users : SUBSET Cats, pos : Nat]
          /\ now.users = was.users /\ now.pos = me.pos
      BY <1>3, <2>6, <2>7
    <2>9. register_file' = [register_file EXCEPT ![f] = now]
      BY <1>1, <1>2, <1>10, <2>6, <2>7 DEF Register!read_returns
    <2>10. /\ register_file' \in [Files -> [users : SUBSET Cats, pos : Nat]]
           /\ register_file'[f] = now
           /\ \A g \in Files : g # f => register_file'[g] = register_file[g]
      BY <1>3, <2>8, <2>9 DEF RegisterTypes
    <2>11. \A g \in Files : register_file'[g].users = register_file[g].users
      BY <2>6, <2>8, <2>10
    <2>12. CatOK(p)'
      BY <1>1, <1>2, <1>3, <1>4, <2>1, <2>3, <2>4, <2>5, <2>6, <2>8, <2>10
         DEF CatOK, CatBecomes
    <2> QED BY <1>1, <1>2, <1>3, <1>4, <2>3, <2>4, <2>5, <2>10, <2>11, <2>12,
               CatReads DEF RegisterTypes
  <1> QED BY <1>6, <1>7, <1>8, <1>9, <1>10 DEF Register!register_cdev_read

(* A process opens a file, or gets one that others have open.              *)
LEMMA StartsKeeps ==
    ASSUME RegisterInv, NEW p \in Cats, Register!cat_starts(p)
    PROVE  RegisterInv'
  <1>1. PICK f \in Files :
           /\ cat' = [cat EXCEPT ![p] = [pc |-> "read", file |-> f, pos |-> 0]]
           /\ register_file' = [register_file EXCEPT ![f].users = @ \cup {p}]
           /\ open_count' = open_count +
                 (IF register_file[f].users = {} THEN 1 ELSE 0)
           /\ alone' = [q \in Cats |->
                           IF q = p THEN register_file[f].users = {}
                           ELSE alone[q] /\ q \notin register_file[f].users]
    BY DEF Register!cat_starts
  <1>2. /\ register_loaded /\ UNCHANGED register_loaded
        /\ cat[p].pc = "idle"
        /\ got' = [got EXCEPT ![p] = 0]
    BY DEF Register!cat_starts
  <1>3. /\ RegisterTypes /\ UsersOK /\ \A q \in Cats : CatOK(q)
        /\ open_count = Cardinality(RegisterOpen)
        /\ register_file[f] \in [users : SUBSET Cats, pos : Nat]
    BY <1>1, <1>2 DEF RegisterInv, RegisterTypes
  <1>4. PICK new : new = [pc |-> "read", file |-> f, pos |-> 0]
    OBVIOUS
  <1>5. new \in CatRecord /\ new.pc = "read" /\ new.file = f
    BY <1>1, <1>4 DEF CatRecord
  <1>6. CatBecomes(p, new)
    BY <1>1, <1>3, <1>4, <1>5 DEF RegisterTypes, CatBecomes
  <1>7. PICK was : was = register_file[f]
    OBVIOUS
  <1>8. PICK now : now = [was EXCEPT !.users = was.users \cup {p}]
    OBVIOUS
  <1>9. /\ now \in [users : SUBSET Cats, pos : Nat]
        /\ now.users = was.users \cup {p} /\ now.pos = was.pos
    BY <1>3, <1>7, <1>8
  <1>10. register_file' = [register_file EXCEPT ![f] = now]
    BY <1>1, <1>7, <1>8
  <1>11. /\ register_file' \in [Files -> [users : SUBSET Cats, pos : Nat]]
         /\ register_file'[f] = now
         /\ \A g \in Files : g # f => register_file'[g] = register_file[g]
    BY <1>3, <1>9, <1>10 DEF RegisterTypes
  <1>12. /\ got' \in [Cats -> Nat] /\ got'[p] = 0
         /\ \A q \in Cats : q # p => got'[q] = got[q]
    BY <1>2, <1>3 DEF RegisterTypes
  <1>13. /\ alone' \in [Cats -> BOOLEAN]
         /\ alone'[p] <=> was.users = {}
         /\ \A q \in Cats :
               q # p /\ alone'[q] => alone[q] /\ q \notin was.users
    <2>1. \A q \in Cats : alone[q] \in BOOLEAN
      BY <1>3 DEF RegisterTypes
    <2> QED BY <1>1, <1>7, <2>1
  <1>14. RegisterTypes'
    BY <1>2, <1>3, <1>6, <1>11, <1>12, <1>13 DEF RegisterTypes, CatBecomes
  <1>15. ASSUME NEW g \in Files, NEW q \in Cats
         PROVE  q \in register_file'[g].users <=>
                   cat'[q].pc # "idle" /\ cat'[q].file = g
    <2>1. q \in register_file[g].users <=> cat[q].pc # "idle" /\ cat[q].file = g
      BY <1>3 DEF UsersOK
    <2>2. CASE q = p
      <3>1. cat'[q] = new
        BY <1>6, <2>2 DEF CatBecomes
      <3> QED BY <1>2, <1>5, <1>9, <1>11, <2>1, <2>2, <3>1
    <2>3. CASE q # p
      <3>1. cat'[q] = cat[q]
        BY <1>6, <2>3 DEF CatBecomes
      <3> QED BY <1>7, <1>9, <1>11, <2>1, <2>3, <3>1
    <2> QED BY <2>2, <2>3
  <1>16. UsersOK'
    <2>1. ASSUME NEW g \in Files, register_file'[g].users = {}
          PROVE  register_file'[g].pos = 0
      BY <1>3, <1>9, <1>11, <2>1 DEF UsersOK
    <2> QED BY <1>2, <1>15, <2>1 DEF UsersOK
  <1>17. RegisterOpen' = RegisterOpen \cup {f}
    BY <1>7, <1>9, <1>11 DEF RegisterOpen
  <1>18. IsFiniteSet(RegisterOpen)
    BY FileLabsAssumption, FS_Subset DEF RegisterOpen
  <1>19. open_count' = Cardinality(RegisterOpen')
    <2>1. CASE was.users = {}
      <3>1. f \notin RegisterOpen /\ open_count' = open_count + 1
        BY <1>1, <1>7, <2>1 DEF RegisterOpen
      <3> QED BY <1>3, <1>17, <1>18, <3>1, FS_AddElement
    <2>2. CASE was.users # {}
      <3>1. f \in RegisterOpen /\ open_count' = open_count + 0
        BY <1>1, <1>7, <2>2 DEF RegisterOpen
      <3>2. RegisterOpen' = RegisterOpen /\ Cardinality(RegisterOpen) \in Nat
        BY <1>17, <1>18, <3>1, FS_CardinalityType
      <3> QED BY <1>3, <3>1, <3>2
    <2> QED BY <2>1, <2>2
  <1>20. ASSUME NEW q \in Cats PROVE CatOK(q)'
    <2>1. CASE q = p
      <3>1. cat'[p] = new
        BY <1>6 DEF CatBecomes
      <3>2. was.users = {} => now.pos = 0 /\ now.users = {p}
        BY <1>3, <1>7, <1>9 DEF UsersOK
      <3>3. 0 <= MCMessageLength[p]
        BY MessageLength
      <3> QED BY <1>5, <1>11, <1>12, <1>13, <2>1, <3>1, <3>2, <3>3 DEF CatOK
    <2>2. CASE q # p
      <3>1. cat'[q] = cat[q] /\ CatOK(q) /\ cat[q].file \in Files
        BY <1>3, <1>6, <2>2 DEF CatBecomes, RegisterTypes, CatRecord
      <3>2. CASE cat[q].pc # "idle" /\ alone'[q]
        <4>1. cat[q].file # f
          BY <1>3, <1>7, <1>13, <2>2, <3>1, <3>2 DEF UsersOK
        <4>2. register_file'[cat[q].file] = register_file[cat[q].file]
          BY <1>11, <3>1, <4>1
        <4> QED BY <1>12, <1>13, <2>2, <3>1, <3>2, <4>2 DEF CatOK
      <3>3. CASE ~(cat[q].pc # "idle" /\ alone'[q])
        BY <3>1, <3>3 DEF CatOK
      <3> QED BY <3>2, <3>3
    <2> QED BY <2>1, <2>2
  <1> QED BY <1>14, <1>16, <1>19, <1>20 DEF RegisterInv

(* A process closes its file: the last user's close releases it.           *)
LEMMA EndsKeeps ==
    ASSUME RegisterInv, NEW p \in Cats, Register!cat_ends(p)
    PROVE  RegisterInv'
  <1>1. PICK f : f = cat[p].file
    OBVIOUS
  <1>2. /\ RegisterTypes /\ UsersOK /\ \A q \in Cats : CatOK(q)
        /\ f \in Files /\ register_file[f] \in [users : SUBSET Cats, pos : Nat]
    BY <1>1 DEF RegisterInv, RegisterTypes, CatRecord
  <1>3. /\ cat[p].pc \in {"done", "failed"}
        /\ cat' = [cat EXCEPT ![p] = Register!Idle]
        /\ UNCHANGED <<register_loaded, got, alone>>
    BY DEF Register!cat_ends
  <1>4. CatBecomes(p, Register!Idle)
    BY <1>2, <1>3, IdleCat DEF RegisterTypes, CatBecomes
  <1>5. PICK was : was = register_file[f]
    OBVIOUS
  <1>6. p \in was.users /\ register_loaded /\ f \in RegisterOpen
    BY <1>1, <1>2, <1>3, <1>5 DEF UsersOK, RegisterOpen
  <1>7. PICK now : now = IF was.users = {p} THEN Register!Closed
                         ELSE [was EXCEPT !.users = was.users \ {p}]
    OBVIOUS
  <1>8. /\ now \in [users : SUBSET Cats, pos : Nat]
        /\ now.users = was.users \ {p}
        /\ now.users = {} => now.pos = 0
    <2>1. CASE was.users = {p}
      BY <1>7, <2>1 DEF Register!Closed
    <2>2. CASE was.users # {p}
      <3>1. now = [was EXCEPT !.users = was.users \ {p}]
        BY <1>7, <2>2
      <3>2. was \in [users : SUBSET Cats, pos : Nat]
        BY <1>2, <1>5
      <3> QED BY <1>6, <2>2, <3>1, <3>2
    <2> QED BY <2>1, <2>2
  <1>9. register_file' = [register_file EXCEPT ![f] = now]
    BY <1>1, <1>5, <1>7 DEF Register!cat_ends
  <1>10. /\ register_file' \in [Files -> [users : SUBSET Cats, pos : Nat]]
         /\ register_file'[f] = now
         /\ \A g \in Files : g # f => register_file'[g] = register_file[g]
    BY <1>2, <1>8, <1>9 DEF RegisterTypes
  <1>11. RegisterTypes'
    BY <1>2, <1>3, <1>4, <1>10 DEF RegisterTypes, CatBecomes
  <1>12. ASSUME NEW g \in Files, NEW q \in Cats
         PROVE  q \in register_file'[g].users <=>
                   cat'[q].pc # "idle" /\ cat'[q].file = g
    <2>1. q \in register_file[g].users <=> cat[q].pc # "idle" /\ cat[q].file = g
      BY <1>2 DEF UsersOK
    <2>2. CASE q = p
      <3>1. cat'[q].pc = "idle"
        BY <1>4, <2>2, IdleCat DEF CatBecomes
      <3> QED BY <1>1, <1>8, <1>10, <2>1, <2>2, <3>1
    <2>3. CASE q # p
      <3>1. cat'[q] = cat[q]
        BY <1>4, <2>3 DEF CatBecomes
      <3> QED BY <1>5, <1>8, <1>10, <2>1, <2>3, <3>1
    <2> QED BY <2>2, <2>3
  <1>13. UsersOK'
    BY <1>2, <1>3, <1>6, <1>8, <1>10, <1>12 DEF UsersOK
  <1>14. open_count' = Cardinality(RegisterOpen')
    <2>1. IsFiniteSet(RegisterOpen) /\ open_count = Cardinality(RegisterOpen)
      BY <1>6, FileLabsAssumption, FS_Subset DEF RegisterOpen, RegisterInv
    <2>2. CASE was.users = {p}
      <3>1. open_count' = open_count - 1
        BY <1>1, <1>5, <2>2 DEF Register!cat_ends, Register!release_counted
      <3>2. RegisterOpen' = RegisterOpen \ {f}
        BY <1>8, <1>10, <2>2 DEF RegisterOpen
      <3> QED BY <1>6, <2>1, <3>1, <3>2, FS_RemoveElement
    <2>3. CASE was.users # {p}
      <3>1. open_count' = open_count
        BY <1>1, <1>5, <2>3 DEF Register!cat_ends
      <3>2. RegisterOpen' = RegisterOpen
        BY <1>5, <1>6, <1>8, <1>10, <2>3 DEF RegisterOpen
      <3> QED BY <2>1, <3>1, <3>2
    <2> QED BY <2>2, <2>3
  <1>15. ASSUME NEW q \in Cats PROVE CatOK(q)'
    <2>1. CASE q = p
      BY <1>4, <2>1, IdleCat DEF CatOK, CatBecomes
    <2>2. CASE q # p
      <3>1. cat'[q] = cat[q] /\ CatOK(q) /\ cat[q].file \in Files
        BY <1>2, <1>4, <2>2 DEF CatBecomes, RegisterTypes, CatRecord
      <3>2. CASE cat[q].pc # "idle" /\ alone[q]
        <4>1. cat[q].file # f
          BY <1>5, <1>6, <2>2, <3>1, <3>2 DEF CatOK
        <4>2. register_file'[cat[q].file] = register_file[cat[q].file]
          BY <1>10, <3>1, <4>1
        <4> QED BY <1>3, <3>1, <4>2 DEF CatOK
      <3>3. CASE ~(cat[q].pc # "idle" /\ alone[q])
        BY <1>3, <3>1, <3>3 DEF CatOK
      <3> QED BY <3>2, <3>3
    <2> QED BY <2>1, <2>2
  <1> QED BY <1>11, <1>13, <1>14, <1>15 DEF RegisterInv

(* Lab 05: the invariant in every behaviour of the six labs.               *)
LEMMA RegisterInductive == FairSpec => []RegisterInv
  <1>1. ASSUME Init PROVE RegisterInv
    <2>1. Register!Init
      BY <1>1 DEF Init
    <2>2. RegisterTypes
      <3>1. Register!Closed \in [users : SUBSET Cats, pos : Nat]
        BY DEF Register!Closed
      <3> QED BY <2>1, <3>1, IdleCat DEF Register!Init, RegisterTypes
    <2>3. UsersOK /\ \A p \in Cats : CatOK(p)
      <3>1. /\ \A p \in Cats : cat[p].pc = "idle"
            /\ \A f \in Files :
                  register_file[f].users = {} /\ register_file[f].pos = 0
        BY <2>1, IdleCat DEF Register!Init, Register!Closed
      <3> QED BY <3>1 DEF UsersOK, CatOK
    <2> QED BY <2>1, <2>2, <2>3 DEF Register!Init, RegisterInv
  <1>2. ASSUME RegisterInv, [Next]_vars PROVE RegisterInv'
    <2>1. CASE Register!Next
      <3>1. CASE Register!register_cdev_init
        <4>1. /\ ~register_loaded /\ register_loaded' /\ open_count' = 0
              /\ register_loaded' \in BOOLEAN
              /\ UNCHANGED <<register_file, cat, got, alone>>
          BY <3>1 DEF Register!register_cdev_init
        <4>2. RegisterTypes' /\ UsersOK' /\ \A p \in Cats : CatOK(p)'
          BY <1>2, <4>1 DEF RegisterInv, RegisterTypes, UsersOK, CatOK
        <4>3. RegisterOpen' = {}
          BY <1>2, <4>1 DEF RegisterInv, UsersOK, RegisterOpen
        <4> QED BY <4>1, <4>2, <4>3, FS_EmptySet DEF RegisterInv
      <3>2. CASE Register!register_cdev_exit
        <4>1. /\ ~register_loaded' /\ register_loaded' \in BOOLEAN
              /\ \A f \in Files : register_file[f].users = {}
              /\ UNCHANGED <<register_file, cat, got, alone>>
          BY <3>2 DEF Register!register_cdev_exit
        <4>2. RegisterTypes' /\ UsersOK' /\ \A p \in Cats : CatOK(p)'
          BY <1>2, <4>1 DEF RegisterInv, RegisterTypes, UsersOK, CatOK
        <4> QED BY <4>1, <4>2 DEF RegisterInv
      <3> QED BY <1>2, <2>1, <3>1, <3>2, StartsKeeps, ReadKeeps, EndsKeeps
              DEF Register!Next
    <2>2. CASE UNCHANGED registerVars
      BY <1>2, <2>2 DEF registerVars, RegisterInv, RegisterTypes, UsersOK,
         CatOK, RegisterOpen
    <2> QED BY <1>2, <2>1, <2>2 DEF Next, vars
  <1> QED BY <1>1, <1>2, PTL DEF FairSpec

(* Labs 05 and 09, for every number of files, processes and threads: a     *)
(* file's position accounts for what its calls have returned, and cat gets *)
(* the whole message.                                                      *)
THEOREM PositionsAreKept == FairSpec => []PositionsAccount
  <1>1. RegisterInv => Register!CatGetsMessage
    BY DEF RegisterInv, CatOK, Register!CatGetsMessage
  <1>2. RwInv => Rw!PositionAccounts
    BY UsedByUses DEF RwInv, AccountOK, Rw!PositionAccounts
  <1>3. RegisterInv /\ RwInv => PositionsAccount
    BY <1>1, <1>2 DEF PositionsAccount
  <1> QED BY <1>3, RegisterInductive, RwInductive, PTL

(* Lab 08 *)

OpenRecord ==
    [pc : {"closed", "opening", "open", "release", "free"}, refs : Nat,
     private_data : Contexts \cup {NULL}]

OpenTypes ==
    /\ open_loaded \in BOOLEAN
    /\ open_file \in [Files -> OpenRecord]
    /\ id \in [Contexts -> Nat]
    /\ next_open_id \in Nat

(* A file that is not closed has a context and keeps the module loaded;    *)
(* until its release it has descriptors.                                   *)
OpenFileOK(f) ==
    /\ open_file[f].pc = "closed" <=> open_file[f].private_data = NULL
    /\ open_file[f].pc # "closed" => open_loaded
    /\ open_file[f].refs > 0 <=> open_file[f].pc \in {"opening", "open"}

Owns(f, c) == open_file[f].private_data = c

(* A context is in memory as long as a file owns it, and one file does;    *)
(* ids are given out in order.                                             *)
ContextOK(c) ==
    /\ id[c] # 0 <=> \E f \in Files : Owns(f, c)
    /\ \A f, g \in Files : Owns(f, c) /\ Owns(g, c) => f = g
    /\ id[c] <= next_open_id
    /\ \A d \in Contexts : id[c] # 0 /\ id[c] = id[d] => c = d

CountedOpens == {f \in Files : open_file[f].pc \in {"open", "release"}}

OpenInv ==
    /\ OpenTypes
    /\ \A f \in Files : OpenFileOK(f)
    /\ \A c \in Contexts : ContextOK(c)
    /\ active_opens = Cardinality(CountedOpens)

(* The instance counts as this module does.                                *)
LEMMA OpenCardinality == \A S : Open!Cardinality(S) = Cardinality(S)
  BY DEF Open!Cardinality, Cardinality, Open!IsFiniteSet, IsFiniteSet

(* The files that are counted are finite in number.                        *)
LEMMA CountedFinite ==
    IsFiniteSet(CountedOpens) /\ Cardinality(CountedOpens) \in Nat
  <1>1. IsFiniteSet(CountedOpens)
    BY FileLabsAssumption, FS_Subset DEF CountedOpens
  <1> QED BY <1>1, FS_CardinalityType

(* File f has the record new; the others keep theirs.                      *)
OpenBecomes(f, new) ==
    /\ open_file' \in [Files -> OpenRecord]
    /\ open_file'[f] = new
    /\ \A g \in Files : g # f => open_file'[g] = open_file[g]

(* A step of file f that neither makes nor frees a context.                *)
LEMMA OpenMoves ==
    ASSUME OpenInv, NEW f \in Files, NEW new \in OpenRecord,
           OpenBecomes(f, new),
           new.private_data = open_file[f].private_data,
           open_file[f].pc # "closed", new.pc # "closed",
           new.refs > 0 <=> new.pc \in {"opening", "open"},
           UNCHANGED <<open_loaded, id, next_open_id>>,
           active_opens' = Cardinality(CountedOpens')
    PROVE  OpenInv'
  <1>1. OpenTypes'
    BY DEF OpenInv, OpenTypes, OpenBecomes
  <1>2. ASSUME NEW g \in Files PROVE OpenFileOK(g)'
    <2>1. OpenFileOK(g) /\ OpenFileOK(f)
      BY DEF OpenInv
    <2>2. CASE g = f
      BY <2>1, <2>2 DEF OpenFileOK, OpenBecomes
    <2>3. CASE g # f
      <3>1. open_file'[g] = open_file[g]
        BY <2>3 DEF OpenBecomes
      <3> QED BY <2>1, <3>1 DEF OpenFileOK
    <2> QED BY <2>2, <2>3
  <1>3. \A g \in Files : \A c : Owns(g, c)' <=> Owns(g, c)
    BY DEF Owns, OpenBecomes
  <1>4. \A c \in Contexts : ContextOK(c)'
    BY <1>3 DEF OpenInv, ContextOK
  <1> QED BY <1>1, <1>2, <1>4 DEF OpenInv

(* my_open() makes a context.                                              *)
LEMMA OpenContextKeeps ==
    ASSUME OpenInv, NEW f \in Files, Open!open_context(f)
    PROVE  OpenInv'
  <1>1. PICK c \in Contexts :
           /\ id[c] = 0
           /\ id' = [id EXCEPT ![c] = next_open_id + 1]
           /\ open_file' = [open_file EXCEPT ![f] =
                 [pc |-> "opening", refs |-> 1, private_data |-> c]]
    BY DEF Open!open_context, Open!new_id, Open!FileSet
  <1>2. /\ open_loaded /\ open_file[f].pc = "closed"
        /\ next_open_id' = next_open_id + 1
        /\ UNCHANGED <<open_loaded, active_opens>>
    BY DEF Open!open_context
  <1>3. /\ OpenTypes /\ OpenFileOK(f) /\ next_open_id \in Nat
        /\ c # NULL
    BY FileLabsAssumption DEF OpenInv, OpenTypes
  <1>4. PICK new : new = [pc |-> "opening", refs |-> 1, private_data |-> c]
    OBVIOUS
  <1>5. /\ new \in OpenRecord /\ new.pc = "opening" /\ new.refs = 1
        /\ new.private_data = c
    BY <1>4 DEF OpenRecord
  <1>6. OpenBecomes(f, new)
    BY <1>1, <1>3, <1>4, <1>5 DEF OpenTypes, OpenBecomes
  <1>7. /\ id' \in [Contexts -> Nat] /\ id'[c] = next_open_id + 1
        /\ \A d \in Contexts : d # c => id'[d] = id[d]
    BY <1>1, <1>3 DEF OpenTypes
  <1>8. OpenTypes'
    BY <1>2, <1>3, <1>6, <1>7 DEF OpenTypes, OpenBecomes
  <1>9. ASSUME NEW g \in Files PROVE OpenFileOK(g)'
    <2>1. OpenFileOK(g)
      BY DEF OpenInv
    <2>2. CASE g = f
      BY <1>2, <1>3, <1>5, <1>6, <2>2 DEF OpenFileOK, OpenBecomes
    <2>3. CASE g # f
      <3>1. open_file'[g] = open_file[g]
        BY <1>6, <2>3 DEF OpenBecomes
      <3> QED BY <1>2, <2>1, <3>1 DEF OpenFileOK
    <2> QED BY <2>2, <2>3
  <1>10. \A d \in Contexts : ContextOK(d) /\ id[d] \in Nat
    BY <1>3 DEF OpenInv, OpenTypes
  <1>11. open_file[f].private_data = NULL
    BY <1>2, <1>3 DEF OpenFileOK
  <1>12. ASSUME NEW g \in Files, NEW d \in Contexts
         PROVE  Owns(g, d)' <=> IF d = c THEN g = f ELSE Owns(g, d)
    <2>1. ~Owns(g, c) /\ d # NULL
      BY <1>1, <1>10, FileLabsAssumption DEF ContextOK
    <2> QED BY <1>5, <1>6, <1>11, <2>1 DEF Owns, OpenBecomes
  <1>13. ASSUME NEW d \in Contexts PROVE ContextOK(d)'
    <2>1. id'[d] # 0 <=> \E g \in Files : Owns(g, d)'
      BY <1>3, <1>7, <1>10, <1>12 DEF ContextOK
    <2>2. \A g, h \in Files : Owns(g, d)' /\ Owns(h, d)' => g = h
      BY <1>10, <1>12 DEF ContextOK
    <2>3. id'[d] <= next_open_id'
      BY <1>2, <1>3, <1>7, <1>10 DEF ContextOK
    <2>4. \A e \in Contexts : id'[d] # 0 /\ id'[d] = id'[e] => d = e
      BY <1>3, <1>7, <1>10 DEF ContextOK
    <2> QED BY <2>1, <2>2, <2>3, <2>4 DEF ContextOK
  <1>14. CountedOpens' = CountedOpens
    BY <1>2, <1>5, <1>6 DEF CountedOpens, OpenBecomes
  <1> QED BY <1>2, <1>8, <1>9, <1>13, <1>14 DEF OpenInv

(* my_release() frees it.                                                  *)
LEMMA ReleaseFreeKeeps ==
    ASSUME OpenInv, NEW f \in Files, Open!release_free(f)
    PROVE  OpenInv'
  <1>1. PICK c : c = open_file[f].private_data
    OBVIOUS
  <1>2. /\ open_file[f].pc = "free"
        /\ id' = [id EXCEPT ![c] = 0]
        /\ open_file' = [open_file EXCEPT ![f] =
              [Open!Closed EXCEPT !.refs = open_file[f].refs]]
        /\ UNCHANGED <<open_loaded, active_opens, next_open_id>>
    BY <1>1 DEF Open!release_free, Open!FileSet, Open!counters
  <1>3. /\ OpenTypes /\ OpenFileOK(f) /\ open_file[f] \in OpenRecord
        /\ open_file[f].refs \in Nat
        /\ \A d \in Contexts : ContextOK(d) /\ id[d] \in Nat /\ d # NULL
    BY FileLabsAssumption DEF OpenInv, OpenTypes, OpenRecord
  <1>4. c \in Contexts /\ Owns(f, c) /\ open_file[f].refs = 0
    BY <1>1, <1>2, <1>3 DEF OpenFileOK, OpenRecord, Owns
  <1>5. PICK new : new = [Open!Closed EXCEPT !.refs = open_file[f].refs]
    OBVIOUS
  <1>6. /\ new \in OpenRecord /\ new.pc = "closed" /\ new.refs = 0
        /\ new.private_data = NULL
    <2>1. /\ Open!Closed \in OpenRecord /\ Open!Closed.pc = "closed"
          /\ Open!Closed.private_data = NULL
      BY DEF Open!Closed, OpenRecord
    <2> QED BY <1>4, <1>5, <2>1 DEF OpenRecord
  <1>7. OpenBecomes(f, new)
    BY <1>2, <1>3, <1>5, <1>6 DEF OpenTypes, OpenBecomes
  <1>8. /\ id' \in [Contexts -> Nat] /\ id'[c] = 0
        /\ \A d \in Contexts : d # c => id'[d] = id[d]
    BY <1>2, <1>3, <1>4 DEF OpenTypes
  <1>9. OpenTypes'
    BY <1>2, <1>3, <1>7, <1>8 DEF OpenTypes, OpenBecomes
  <1>10. ASSUME NEW g \in Files PROVE OpenFileOK(g)'
    <2>1. OpenFileOK(g)
      BY DEF OpenInv
    <2>2. CASE g = f
      BY <1>6, <1>7, <2>2 DEF OpenFileOK, OpenBecomes
    <2>3. CASE g # f
      <3>1. open_file'[g] = open_file[g]
        BY <1>7, <2>3 DEF OpenBecomes
      <3> QED BY <1>2, <2>1, <3>1 DEF OpenFileOK
    <2> QED BY <2>2, <2>3
  <1>11. ASSUME NEW g \in Files, NEW d \in Contexts
         PROVE  Owns(g, d)' <=> g # f /\ Owns(g, d)
    BY <1>3, <1>6, <1>7 DEF Owns, OpenBecomes
  <1>12. \A g \in Files : Owns(g, c) => g = f
    BY <1>3, <1>4 DEF ContextOK
  <1>13. \A d \in Contexts : d # c => ~Owns(f, d)
    BY <1>4 DEF Owns
  <1>14. ASSUME NEW d \in Contexts PROVE ContextOK(d)'
    <2>1. id'[d] # 0 <=> \E g \in Files : Owns(g, d)'
      BY <1>3, <1>8, <1>11, <1>12, <1>13 DEF ContextOK
    <2>2. \A g, h \in Files : Owns(g, d)' /\ Owns(h, d)' => g = h
      BY <1>3, <1>11 DEF ContextOK
    <2>3. id'[d] <= next_open_id'
      BY <1>2, <1>3, <1>8 DEF ContextOK, OpenTypes
    <2>4. \A e \in Contexts : id'[d] # 0 /\ id'[d] = id'[e] => d = e
      BY <1>3, <1>8 DEF ContextOK
    <2> QED BY <2>1, <2>2, <2>3, <2>4 DEF ContextOK
  <1>15. CountedOpens' = CountedOpens
    BY <1>2, <1>6, <1>7 DEF CountedOpens, OpenBecomes
  <1> QED BY <1>2, <1>9, <1>10, <1>14, <1>15 DEF OpenInv

(* The other steps of a file: open() and release() count, dup() and        *)
(* close() move the number of descriptors.                                 *)
LEMMA OpenCountsKeeps ==
    ASSUME OpenInv, NEW f \in Files,
           \/ Open!open_counted(f) \/ Open!release_counted(f)
           \/ Open!file_dup(f) \/ Open!file_close(f)
    PROVE  OpenInv'
  <1>1. PICK me : me = open_file[f]
    OBVIOUS
  <1>2. /\ me \in OpenRecord /\ OpenTypes /\ OpenFileOK(f) /\ me.refs \in Nat
        /\ active_opens = Cardinality(CountedOpens)
    BY <1>1 DEF OpenInv, OpenTypes, OpenRecord
  <1>3. ASSUME NEW new \in OpenRecord, open_file' = [open_file EXCEPT ![f] = new]
        PROVE  OpenBecomes(f, new)
    BY <1>2, <1>3 DEF OpenTypes, OpenBecomes
  <1>4. CASE Open!open_counted(f)
    <2>1. /\ me.pc = "opening" /\ active_opens' = active_opens + 1
          /\ open_file' = [open_file EXCEPT ![f] = [me EXCEPT !.pc = "open"]]
          /\ UNCHANGED <<open_loaded, id, next_open_id>>
      BY <1>1, <1>4 DEF Open!open_counted, Open!FileGoto
    <2>2. PICK new : new = [me EXCEPT !.pc = "open"]
      OBVIOUS
    <2>3. /\ new \in OpenRecord /\ new.pc = "open" /\ new.refs = me.refs
          /\ new.private_data = me.private_data
      BY <1>2, <2>2 DEF OpenRecord
    <2>4. OpenBecomes(f, new)
      BY <1>3, <2>1, <2>2, <2>3
    <2>5. CountedOpens' = CountedOpens \cup {f} /\ f \notin CountedOpens
      BY <1>1, <2>1, <2>3, <2>4 DEF CountedOpens, OpenBecomes
    <2>6. active_opens' = Cardinality(CountedOpens')
      BY <1>2, <2>1, <2>5, CountedFinite, FS_AddElement
    <2>7. me.refs > 0
      BY <1>1, <1>2, <2>1 DEF OpenFileOK
    <2> QED BY <1>1, <2>1, <2>3, <2>4, <2>6, <2>7, OpenMoves
  <1>5. CASE Open!release_counted(f)
    <2>1. /\ me.pc = "release" /\ active_opens' = active_opens - 1
          /\ open_file' = [open_file EXCEPT ![f] = [me EXCEPT !.pc = "free"]]
          /\ UNCHANGED <<open_loaded, id, next_open_id>>
      BY <1>1, <1>5 DEF Open!release_counted, Open!FileGoto, Open!discounted
    <2>2. PICK new : new = [me EXCEPT !.pc = "free"]
      OBVIOUS
    <2>3. /\ new \in OpenRecord /\ new.pc = "free" /\ new.refs = me.refs
          /\ new.private_data = me.private_data
      BY <1>2, <2>2 DEF OpenRecord
    <2>4. OpenBecomes(f, new)
      BY <1>3, <2>1, <2>2, <2>3
    <2>5. CountedOpens' = CountedOpens \ {f} /\ f \in CountedOpens
      BY <1>1, <2>1, <2>3, <2>4 DEF CountedOpens, OpenBecomes
    <2>6. active_opens' = Cardinality(CountedOpens')
      BY <1>2, <2>1, <2>5, CountedFinite, FS_RemoveElement
    <2>7. ~(me.refs > 0)
      BY <1>1, <1>2, <2>1 DEF OpenFileOK
    <2> QED BY <1>1, <2>1, <2>3, <2>4, <2>6, <2>7, OpenMoves
  <1>6. CASE Open!file_dup(f)
    <2>1. /\ me.pc = "open"
          /\ open_file' = [open_file EXCEPT ![f] =
                [me EXCEPT !.refs = me.refs + 1]]
          /\ UNCHANGED <<open_loaded, id, next_open_id, active_opens>>
      BY <1>1, <1>6 DEF Open!file_dup, Open!FileSet, Open!counters
    <2>2. PICK n \in Nat : n = me.refs + 1
      BY <1>2
    <2>3. PICK new : new = [me EXCEPT !.refs = n]
      OBVIOUS
    <2>4. /\ new \in OpenRecord /\ new.pc = me.pc /\ new.refs = n
          /\ new.private_data = me.private_data
      BY <1>2, <2>3 DEF OpenRecord
    <2>5. OpenBecomes(f, new)
      BY <1>3, <2>1, <2>2, <2>3, <2>4
    <2>6. CountedOpens' = CountedOpens /\ n > 0
      BY <1>1, <1>2, <2>2, <2>4, <2>5 DEF CountedOpens, OpenBecomes
    <2> QED BY <1>1, <1>2, <2>1, <2>4, <2>5, <2>6, OpenMoves
  <1>7. CASE Open!file_close(f)
    <2>1. PICK to : to = IF me.refs = 1 THEN "release" ELSE "open"
      OBVIOUS
    <2>2. /\ me.pc = "open" /\ me.refs > 0
          /\ open_file' = [open_file EXCEPT ![f] =
                [me EXCEPT !.refs = me.refs - 1, !.pc = to]]
          /\ UNCHANGED <<open_loaded, id, next_open_id, active_opens>>
      BY <1>1, <1>7, <2>1 DEF Open!file_close, Open!FileSet, Open!counters,
         Open!last_reference
    <2>3. PICK n \in Nat : n = me.refs - 1
      BY <1>2, <2>2
    <2>4. PICK new : new = [me EXCEPT !.refs = n, !.pc = to]
      OBVIOUS
    <2>5. /\ new \in OpenRecord /\ new.pc = to /\ new.refs = n
          /\ new.private_data = me.private_data
          /\ to \in {"open", "release"}
          /\ n > 0 <=> to = "open"
      <3>1. /\ to \in {"open", "release"}
            /\ n > 0 <=> to = "open"
        BY <1>2, <2>1, <2>2, <2>3
      <3> QED BY <1>2, <2>4, <3>1 DEF OpenRecord
    <2>6. OpenBecomes(f, new)
      BY <1>3, <2>2, <2>3, <2>4, <2>5
    <2>7. CountedOpens' = CountedOpens
      BY <1>1, <2>2, <2>5, <2>6 DEF CountedOpens, OpenBecomes
    <2> QED BY <1>1, <1>2, <2>2, <2>5, <2>6, <2>7, OpenMoves
  <1> QED BY <1>4, <1>5, <1>6, <1>7

(* open_release_cdev_init() and open_release_cdev_exit(): no file is open. *)
LEMMA OpenModuleKeeps ==
    ASSUME OpenInv, Open!open_release_cdev_init \/ Open!open_release_cdev_exit
    PROVE  OpenInv'
  <1>1. /\ open_loaded' \in BOOLEAN /\ next_open_id' \in Nat
        /\ UNCHANGED <<open_file, id>>
        /\ active_opens' \in {0, active_opens}
    <2>1. CASE Open!open_release_cdev_init
      BY <2>1 DEF Open!open_release_cdev_init
    <2>2. CASE Open!open_release_cdev_exit
      <3>1. next_open_id \in Nat
        BY DEF OpenInv, OpenTypes
      <3> QED BY <2>2, <3>1 DEF Open!open_release_cdev_exit, Open!counters
    <2> QED BY <2>1, <2>2
  <1>2. \A f \in Files : open_file[f].pc = "closed"
    BY DEF Open!open_release_cdev_init, Open!open_release_cdev_exit, OpenInv,
       OpenFileOK
  <1>3. OpenTypes' /\ \A f \in Files : OpenFileOK(f)'
    BY <1>1, <1>2 DEF OpenInv, OpenTypes, OpenFileOK
  <1>4. \A f \in Files : open_file[f].private_data = NULL
    BY <1>2 DEF OpenInv, OpenFileOK
  <1>5. \A c \in Contexts : id[c] = 0
    BY <1>4, FileLabsAssumption DEF OpenInv, ContextOK, Owns
  <1>6. \A c \in Contexts : ContextOK(c)'
    BY <1>1, <1>4, <1>5, FileLabsAssumption DEF ContextOK, Owns
  <1>7. CountedOpens = {} /\ CountedOpens' = {}
    BY <1>1, <1>2 DEF CountedOpens
  <1>8. active_opens' = Cardinality(CountedOpens')
    BY <1>1, <1>7, FS_EmptySet DEF OpenInv
  <1> QED BY <1>3, <1>6, <1>8 DEF OpenInv

(* Lab 08: the invariant in every behaviour of the six labs.               *)
LEMMA OpenInductive == FairSpec => []OpenInv
  <1>1. ASSUME Init PROVE OpenInv
    <2>1. Open!Init
      BY <1>1 DEF Init
    <2>2. /\ \A f \in Files : /\ open_file[f].pc = "closed"
                              /\ open_file[f].private_data = NULL
                              /\ open_file[f].refs = 0
          /\ \A c \in Contexts : id[c] = 0
          /\ next_open_id = 0 /\ active_opens = 0
      BY <2>1 DEF Open!Init, Open!Closed
    <2>3. OpenTypes
      <3>1. Open!Closed \in OpenRecord
        BY DEF Open!Closed, OpenRecord
      <3> QED BY <2>1, <3>1 DEF Open!Init, OpenTypes
    <2>4. \A f \in Files : OpenFileOK(f)
      BY <2>2 DEF OpenFileOK
    <2>5. \A c \in Contexts : ContextOK(c)
      BY <2>2, FileLabsAssumption DEF ContextOK, Owns
    <2>6. CountedOpens = {}
      BY <2>2 DEF CountedOpens
    <2> QED BY <2>2, <2>3, <2>4, <2>5, <2>6, FS_EmptySet DEF OpenInv
  <1>2. ASSUME OpenInv, [Next]_vars PROVE OpenInv'
    <2>1. CASE Open!Next
      BY <1>2, <2>1, OpenContextKeeps, ReleaseFreeKeeps, OpenCountsKeeps,
         OpenModuleKeeps DEF Open!Next, Open!my_open, Open!my_release
    <2>2. CASE UNCHANGED openVars
      BY <1>2, <2>2 DEF openVars, OpenInv, OpenTypes, OpenFileOK, ContextOK,
         Owns, CountedOpens
    <2> QED BY <1>2, <2>1, <2>2 DEF Next, vars
  <1> QED BY <1>1, <1>2, PTL DEF FairSpec

(* Labs 05 and 08, for every number of files, processes, contexts and      *)
(* descriptors: open and release keep exact accounts.                      *)
THEOREM OpensAreAccounted == FairSpec => []OpensAccounted
  <1>1. ASSUME OpenInv PROVE Open!ContextsOwned
    <2>1. /\ \A f \in Files : /\ OpenFileOK(f)
                              /\ open_file[f].private_data \in Contexts \cup {NULL}
                              /\ open_file[f].refs \in Nat
          /\ \A c \in Contexts : ContextOK(c)
      BY <1>1 DEF OpenInv, OpenTypes, OpenRecord
    <2>2. {c \in Contexts : id[c] # 0} =
             {open_file[f].private_data : f \in Files} \ {NULL}
      BY <2>1, FileLabsAssumption DEF ContextOK, Owns
    <2>3. \A f, g \in Files :
             open_file[f].private_data = open_file[g].private_data =>
                f = g \/ open_file[f].private_data = NULL
      BY <2>1 DEF ContextOK, Owns
    <2>4. \A f \in Files :
             open_file[f].refs > 0 => open_file[f].private_data # NULL
      BY <2>1 DEF OpenFileOK
    <2> QED BY <2>2, <2>3, <2>4 DEF Open!ContextsOwned
  <1>2. OpenInv => Open!IdsUnique
    BY DEF OpenInv, ContextOK, Open!IdsUnique
  <1>3. OpenInv => Open!ActiveOpensExact
    BY OpenCardinality DEF OpenInv, CountedOpens, Open!ActiveOpensExact
  <1>4. RegisterInv => Register!OpenCountExact
    BY RegisterCardinality DEF RegisterInv, RegisterOpen,
       Register!OpenCountExact
  <1>5. OpenInv /\ RegisterInv => OpensAccounted
    BY <1>1, <1>2, <1>3, <1>4 DEF OpensAccounted
  <1> QED BY <1>5, OpenInductive, RegisterInductive, PTL

(* Lab 06 *)

ProcfsTypes ==
    /\ procfs_loaded \in BOOLEAN
    /\ events \in [0..(MAX_EVENTS - 1) -> Nat]
    /\ event_count \in 0..MAX_EVENTS
    /\ total_opens \in Nat
    /\ cleared \in 0..total_opens
    /\ events_lock \in Files \cup {FREE}
    /\ procfs_file \in
          [Files -> [pc : {"closed", "open", "element", "none"}, pos : Nat]]
    /\ listing \in [Files -> Seq(Nat)]

(* What a file was shown: as many events as its position says, none later  *)
(* than the one before that position, in the log as it is now.  That a     *)
(* clear does not let the numbers start again makes it hold on.            *)
ShownOK(f) ==
    /\ procfs_file[f].pos = Len(listing[f])
    /\ \A i \in 1..Len(listing[f]) :
          /\ listing[f][i] <= total_opens
          /\ listing[f][i] <= cleared + procfs_file[f].pos
    /\ \A i \in 1..(Len(listing[f]) - 1) : listing[f][i] < listing[f][i + 1]
    /\ f \in whole => \A i \in 1..Len(listing[f]) : listing[f][i] = cleared + i

(* A file in read() has events_lock, so the element that start() or next() *)
(* has returned is still there when it is shown.                           *)
SeqFileOK(f) ==
    /\ procfs_file[f].pc = "closed" => listing[f] = <<>>
    /\ procfs_file[f].pc # "closed" => procfs_loaded
    /\ procfs_file[f].pc \in {"element", "none"} <=> events_lock = f
    /\ procfs_file[f].pc = "element" => procfs_file[f].pos < event_count

ProcfsInv ==
    /\ ProcfsTypes
    /\ Procfs!LogHoldsFirst
    /\ \A f \in Files : ShownOK(f) /\ SeqFileOK(f)

(* File f has the record new; the others keep theirs.                      *)
SeqFileBecomes(f, new) ==
    /\ procfs_file' \in
          [Files -> [pc : {"closed", "open", "element", "none"}, pos : Nat]]
    /\ procfs_file'[f] = new
    /\ \A g \in Files : g # f => procfs_file'[g] = procfs_file[g]

(* A file of the right type becomes what it is set to.                     *)
LEMMA SeqFileSet ==
    ASSUME ProcfsTypes, NEW f \in Files,
           NEW new \in [pc : {"closed", "open", "element", "none"}, pos : Nat],
           procfs_file' = [procfs_file EXCEPT ![f] = new]
    PROVE  SeqFileBecomes(f, new)
  BY DEF ProcfsTypes, SeqFileBecomes

(* record_event() keeps the log, whether it has room or not.               *)
LEMMA RecordKeepsLog ==
    ASSUME ProcfsTypes, Procfs!LogHoldsFirst, Procfs!record_event
    PROVE  /\ events' \in [0..(MAX_EVENTS - 1) -> Nat]
           /\ event_count' \in 0..MAX_EVENTS
           /\ total_opens' = total_opens + 1
           /\ UNCHANGED <<events_lock, cleared>>
           /\ events_lock = FREE
           /\ Procfs!LogHoldsFirst'
  <1>1. /\ total_opens' = total_opens + 1
        /\ UNCHANGED <<events_lock, cleared>>
        /\ events_lock = FREE
    BY DEF Procfs!record_event, Procfs!lock_free
  <1>2. /\ MAX_EVENTS \in Nat /\ total_opens \in Nat /\ cleared \in 0..total_opens
        /\ event_count \in 0..MAX_EVENTS
        /\ events \in [0..(MAX_EVENTS - 1) -> Nat]
    BY FileLabsAssumption DEF ProcfsTypes
  <1>3. /\ event_count = (IF total_opens - cleared < MAX_EVENTS
                          THEN total_opens - cleared ELSE MAX_EVENTS)
        /\ \A i \in 0..(event_count - 1) : events[i] = cleared + i + 1
    BY DEF Procfs!LogHoldsFirst
  <1>4. CASE event_count < MAX_EVENTS
    <2>1. /\ events' = [events EXCEPT ![event_count] = total_opens + 1]
          /\ event_count' = event_count + 1
      BY <1>1, <1>4 DEF Procfs!record_event, Procfs!has_room
    <2>2. total_opens = cleared + event_count
      BY <1>2, <1>3, <1>4
    <2>3. events' \in [0..(MAX_EVENTS - 1) -> Nat]
      <3>1. PICK v \in Nat : v = total_opens + 1
        BY <1>2
      <3>2. events' = [events EXCEPT ![event_count] = v]
        BY <2>1, <3>1
      <3> QED BY <1>2, <3>2
    <2>4. event_count' = (IF total_opens' - cleared' < MAX_EVENTS
                          THEN total_opens' - cleared' ELSE MAX_EVENTS)
      BY <1>1, <1>2, <1>4, <2>1, <2>2
    <2>5. \A i \in 0..(event_count' - 1) : events'[i] = cleared' + i + 1
      BY <1>1, <1>2, <1>3, <1>4, <2>1, <2>2
    <2>6. event_count' \in 0..MAX_EVENTS
      BY <1>2, <1>4, <2>1
    <2> QED BY <1>1, <2>3, <2>4, <2>5, <2>6 DEF Procfs!LogHoldsFirst
  <1>5. CASE ~(event_count < MAX_EVENTS)
    <2>1. UNCHANGED <<events, event_count>>
      BY <1>5 DEF Procfs!record_event, Procfs!has_room
    <2>2. event_count' = (IF total_opens' - cleared' < MAX_EVENTS
                          THEN total_opens' - cleared' ELSE MAX_EVENTS)
      BY <1>1, <1>2, <1>3, <1>5, <2>1
    <2>3. \A i \in 0..(event_count' - 1) : events'[i] = cleared' + i + 1
      BY <1>1, <1>3, <2>1
    <2> QED BY <1>1, <1>2, <2>1, <2>2, <2>3 DEF Procfs!LogHoldsFirst
  <1> QED BY <1>4, <1>5

(* events_open().                                                          *)
LEMMA EventsOpenKeeps ==
    ASSUME ProcfsInv, NEW f \in Files, Procfs!events_open(f)
    PROVE  ProcfsInv'
  <1>1. /\ procfs_loaded /\ UNCHANGED <<procfs_loaded, listing>>
        /\ Procfs!record_event /\ procfs_file[f].pc = "closed"
        /\ \/ /\ procfs_file' = [procfs_file EXCEPT ![f].pc = "open"]
              /\ whole' = whole \cup {f}
           \/ UNCHANGED <<procfs_file, whole>>
    BY DEF Procfs!events_open, Procfs!FileGoto
  <1>2. /\ ProcfsTypes /\ Procfs!LogHoldsFirst
        /\ \A g \in Files : ShownOK(g) /\ SeqFileOK(g)
    BY DEF ProcfsInv
  <1>3. /\ events' \in [0..(MAX_EVENTS - 1) -> Nat]
        /\ event_count' \in 0..MAX_EVENTS
        /\ total_opens' = total_opens + 1
        /\ UNCHANGED <<events_lock, cleared>>
        /\ events_lock = FREE
        /\ Procfs!LogHoldsFirst'
    BY <1>1, <1>2, RecordKeepsLog
  <1>4. PICK was : was = procfs_file[f]
    OBVIOUS
  <1>5. PICK new : new = [was EXCEPT !.pc = "open"]
    OBVIOUS
  <1>6. /\ was \in [pc : {"closed", "open", "element", "none"}, pos : Nat]
        /\ new \in [pc : {"closed", "open", "element", "none"}, pos : Nat]
        /\ new.pc = "open" /\ new.pos = was.pos
    BY <1>2, <1>4, <1>5 DEF ProcfsTypes
  <1>7. SeqFileBecomes(f, new) \/ SeqFileBecomes(f, was)
    <2>1. CASE procfs_file' = [procfs_file EXCEPT ![f].pc = "open"]
      BY <1>2, <1>4, <1>5, <1>6, <2>1, SeqFileSet
    <2>2. CASE procfs_file' = procfs_file
      BY <1>2, <1>4, <2>2 DEF ProcfsTypes, SeqFileBecomes
    <2> QED BY <1>1, <2>1, <2>2
  <1>8. /\ \A g \in Files : procfs_file'[g].pos = procfs_file[g].pos
        /\ \A g \in Files : g # f => procfs_file'[g] = procfs_file[g]
        /\ procfs_file'[f].pc \in {"closed", "open"}
        /\ procfs_file' \in
              [Files -> [pc : {"closed", "open", "element", "none"}, pos : Nat]]
    BY <1>1, <1>4, <1>6, <1>7 DEF SeqFileBecomes
  <1>9. listing[f] = <<>>
    BY <1>1, <1>2 DEF SeqFileOK
  <1>10. ProcfsTypes'
    BY <1>1, <1>2, <1>3, <1>8 DEF ProcfsTypes
  <1>11. ASSUME NEW g \in Files PROVE ShownOK(g)'
    <2>1. ShownOK(g) /\ listing[g] \in Seq(Nat) /\ total_opens \in Nat
      BY <1>2 DEF ProcfsTypes
    <2>2. \A i \in 1..Len(listing[g]) : listing[g][i] \in Nat
      BY <2>1
    <2>3. \A i \in 1..Len(listing[g]) : listing[g][i] <= total_opens + 1
      <3> SUFFICES ASSUME NEW i \in 1..Len(listing[g])
                   PROVE  listing[g][i] <= total_opens + 1
        OBVIOUS
      <3>1. listing[g][i] <= total_opens /\ listing[g][i] \in Nat
        BY <2>1, <2>2 DEF ShownOK
      <3> QED BY <2>1, <3>1
    <2>4. g \in whole' => g \in whole \/ g = f
      BY <1>1
    <2>5. g \in whole' =>
             \A i \in 1..Len(listing[g]) : listing[g][i] = cleared + i
      BY <1>9, <2>1, <2>4 DEF ShownOK
    <2> QED BY <1>1, <1>3, <1>8, <2>1, <2>3, <2>5 DEF ShownOK
  <1>12. ASSUME NEW g \in Files PROVE SeqFileOK(g)'
    <2>1. SeqFileOK(g) /\ g # FREE
      BY <1>2, FileLabsAssumption
    <2>2. CASE g = f
      BY <1>1, <1>3, <1>8, <1>9, <2>1, <2>2 DEF SeqFileOK
    <2>3. CASE g # f
      BY <1>1, <1>3, <1>8, <2>1, <2>3 DEF SeqFileOK
    <2> QED BY <2>2, <2>3
  <1> QED BY <1>3, <1>10, <1>11, <1>12 DEF ProcfsInv

(* A file goes back to the start or is released.                           *)
LEMMA EventsRewindKeeps ==
    ASSUME ProcfsInv, NEW f \in Files, Procfs!events_rewind(f)
    PROVE  ProcfsInv'
  <1>1. PICK pc \in {"open", "closed"} :
           procfs_file' = [procfs_file EXCEPT ![f] = [pc |-> pc, pos |-> 0]]
    BY DEF Procfs!events_rewind
  <1>2. /\ procfs_file[f].pc = "open"
        /\ listing' = [listing EXCEPT ![f] = <<>>]
        /\ whole' = whole \cup {f}
        /\ UNCHANGED <<procfs_loaded, events, event_count, total_opens, cleared,
                       events_lock>>
    BY DEF Procfs!events_rewind, Procfs!logVars
  <1>3. /\ ProcfsTypes /\ Procfs!LogHoldsFirst
        /\ \A g \in Files : ShownOK(g) /\ SeqFileOK(g)
    BY DEF ProcfsInv
  <1>4. PICK new : new = [pc |-> pc, pos |-> 0]
    OBVIOUS
  <1>5. /\ new \in [pc : {"closed", "open", "element", "none"}, pos : Nat]
        /\ new.pc = pc /\ new.pos = 0
    BY <1>4
  <1>6. SeqFileBecomes(f, new)
    BY <1>1, <1>3, <1>4, <1>5, SeqFileSet
  <1>7. /\ listing' \in [Files -> Seq(Nat)] /\ listing'[f] = <<>>
        /\ \A g \in Files : g # f => listing'[g] = listing[g]
    BY <1>2, <1>3 DEF ProcfsTypes
  <1>8. ProcfsTypes'
    BY <1>2, <1>3, <1>6, <1>7 DEF ProcfsTypes, SeqFileBecomes
  <1>9. Procfs!LogHoldsFirst'
    BY <1>2, <1>3 DEF Procfs!LogHoldsFirst
  <1>10. ASSUME NEW g \in Files PROVE ShownOK(g)' /\ SeqFileOK(g)'
    <2>1. CASE g = f
      <3>1. procfs_file'[g] = new /\ Len(listing'[g]) = 0
        BY <1>6, <1>7, <2>1 DEF SeqFileBecomes
      <3>2. ShownOK(g)'
        BY <1>5, <3>1 DEF ShownOK
      <3>3. SeqFileOK(f)
        BY <1>3
      <3> QED BY <1>2, <1>5, <1>7, <2>1, <3>1, <3>2, <3>3 DEF SeqFileOK
    <2>2. CASE g # f
      <3>1. /\ procfs_file'[g] = procfs_file[g] /\ listing'[g] = listing[g]
            /\ ShownOK(g) /\ SeqFileOK(g) /\ (g \in whole' <=> g \in whole)
        BY <1>2, <1>3, <1>6, <1>7, <2>2 DEF SeqFileBecomes
      <3> QED BY <1>2, <3>1 DEF ShownOK, SeqFileOK
    <2> QED BY <2>1, <2>2
  <1> QED BY <1>8, <1>9, <1>10 DEF ProcfsInv

(* "clear".                                                                *)
LEMMA EventsWriteKeeps ==
    ASSUME ProcfsInv, NEW f \in Files, Procfs!events_write(f)
    PROVE  ProcfsInv'
  <1>1. /\ events_lock = FREE
        /\ event_count' = 0 /\ cleared' = total_opens
        /\ whole' = {g \in whole : listing[g] = <<>>}
        /\ UNCHANGED <<procfs_loaded, events, total_opens, events_lock,
                       procfs_file, listing>>
    BY DEF Procfs!events_write, Procfs!lock_free
  <1>2. /\ ProcfsTypes /\ MAX_EVENTS \in Nat /\ total_opens \in Nat
        /\ \A g \in Files : ShownOK(g) /\ SeqFileOK(g)
    BY FileLabsAssumption DEF ProcfsInv, ProcfsTypes
  <1>3. ProcfsTypes'
    BY <1>1, <1>2 DEF ProcfsTypes
  <1>4. Procfs!LogHoldsFirst'
    BY <1>1, <1>2 DEF Procfs!LogHoldsFirst
  <1>5. ASSUME NEW g \in Files PROVE ShownOK(g)'
    <2>1. ShownOK(g) /\ listing[g] \in Seq(Nat) /\ procfs_file[g].pos \in Nat
      BY <1>2 DEF ProcfsTypes
    <2>2. \A i \in 1..Len(listing[g]) : listing[g][i] \in Nat
      BY <2>1
    <2>3. \A i \in 1..Len(listing[g]) :
             listing[g][i] <= total_opens + procfs_file[g].pos
      BY <1>2, <2>1, <2>2 DEF ShownOK
    <2>4. g \in whole' => Len(listing[g]) = 0
      BY <1>1
    <2> QED BY <1>1, <2>1, <2>3, <2>4 DEF ShownOK
  <1>6. \A g \in Files : SeqFileOK(g)'
    BY <1>1, <1>2, FileLabsAssumption DEF SeqFileOK
  <1> QED BY <1>3, <1>4, <1>5, <1>6 DEF ProcfsInv

(* A step of f that shows nothing and leaves the log alone.                *)
LEMMA SeqMoves ==
    ASSUME ProcfsInv, NEW f \in Files,
           NEW new \in [pc : {"open", "element", "none"}, pos : Nat],
           procfs_file[f].pc # "closed",
           procfs_file' = [procfs_file EXCEPT ![f] = new],
           new.pos = procfs_file[f].pos,
           new.pc \in {"element", "none"} <=> events_lock' = f,
           new.pc = "element" => new.pos < event_count,
           events_lock \in {f, FREE}, events_lock' \in {f, FREE},
           UNCHANGED <<procfs_loaded, events, event_count, total_opens,
                       cleared, listing, whole>>
    PROVE  ProcfsInv'
  <1>1. /\ ProcfsTypes /\ Procfs!LogHoldsFirst
        /\ \A g \in Files : ShownOK(g) /\ SeqFileOK(g)
    BY DEF ProcfsInv
  <1>2. /\ new \in [pc : {"closed", "open", "element", "none"}, pos : Nat]
        /\ new.pc # "closed"
    OBVIOUS
  <1>3. SeqFileBecomes(f, new)
    BY <1>1, <1>2, SeqFileSet
  <1>4. ProcfsTypes' /\ Procfs!LogHoldsFirst'
    BY <1>1, <1>3 DEF ProcfsTypes, SeqFileBecomes, Procfs!LogHoldsFirst
  <1>5. \A g \in Files : procfs_file'[g].pos = procfs_file[g].pos
    BY <1>3 DEF SeqFileBecomes
  <1>6. \A g \in Files : ShownOK(g)'
    BY <1>1, <1>5 DEF ShownOK
  <1>7. ASSUME NEW g \in Files PROVE SeqFileOK(g)'
    <2>1. SeqFileOK(g) /\ SeqFileOK(f) /\ g # FREE
      BY <1>1, FileLabsAssumption
    <2>2. CASE g = f
      BY <1>2, <1>3, <2>1, <2>2 DEF SeqFileOK, SeqFileBecomes
    <2>3. CASE g # f
      <3>1. procfs_file'[g] = procfs_file[g]
        BY <1>3, <2>3 DEF SeqFileBecomes
      <3> QED BY <2>1, <2>3, <3>1 DEF SeqFileOK
    <2> QED BY <2>2, <2>3
  <1> QED BY <1>4, <1>6, <1>7 DEF ProcfsInv

(* events_seq_start().                                                     *)
LEMMA SeqStartKeeps ==
    ASSUME ProcfsInv, NEW f \in Files, Procfs!events_seq_start(f)
    PROVE  ProcfsInv'
  <1>1. PICK was : was = procfs_file[f]
    OBVIOUS
  <1>2. PICK to : to = IF was.pos < event_count THEN "element" ELSE "none"
    OBVIOUS
  <1>3. /\ was.pc = "open" /\ events_lock = FREE /\ events_lock' = f
        /\ procfs_file' = [procfs_file EXCEPT ![f].pc = to]
        /\ UNCHANGED <<procfs_loaded, events, event_count, total_opens,
                       cleared, listing, whole>>
    BY <1>1, <1>2 DEF Procfs!events_seq_start, Procfs!FileGoto, Procfs!place,
       Procfs!element_at, Procfs!lock_free, Procfs!logVars
  <1>4. PICK new : new = [was EXCEPT !.pc = to]
    OBVIOUS
  <1>5. was \in [pc : {"closed", "open", "element", "none"}, pos : Nat]
    BY <1>1 DEF ProcfsInv, ProcfsTypes
  <1>6. to \in {"element", "none"}
    BY <1>2
  <1>7. /\ new \in [pc : {"open", "element", "none"}, pos : Nat]
        /\ new.pc = to /\ new.pos = was.pos
    BY <1>4, <1>5, <1>6
  <1>8. procfs_file' = [procfs_file EXCEPT ![f] = new]
    BY <1>1, <1>3, <1>4
  <1>9. new.pc = "element" => new.pos < event_count
    BY <1>2, <1>7
  <1> QED BY <1>1, <1>3, <1>6, <1>7, <1>8, <1>9, SeqMoves

(* events_seq_stop().                                                      *)
LEMMA SeqStopKeeps ==
    ASSUME ProcfsInv, NEW f \in Files, Procfs!events_seq_stop(f)
    PROVE  ProcfsInv'
  <1>1. PICK was : was = procfs_file[f]
    OBVIOUS
  <1>2. /\ was.pc \in {"element", "none"} /\ events_lock' = FREE
        /\ procfs_file' = [procfs_file EXCEPT ![f].pc = "open"]
        /\ UNCHANGED <<procfs_loaded, events, event_count, total_opens,
                       cleared, listing, whole>>
    BY <1>1 DEF Procfs!events_seq_stop, Procfs!Reading, Procfs!logVars
  <1>3. PICK new : new = [was EXCEPT !.pc = "open"]
    OBVIOUS
  <1>4. was \in [pc : {"closed", "open", "element", "none"}, pos : Nat]
    BY <1>1 DEF ProcfsInv, ProcfsTypes
  <1>5. /\ new \in [pc : {"open", "element", "none"}, pos : Nat]
        /\ new.pc = "open" /\ new.pos = was.pos
    BY <1>3, <1>4
  <1>6. procfs_file' = [procfs_file EXCEPT ![f] = new]
    BY <1>1, <1>2, <1>3
  <1>7. events_lock = f /\ f # FREE
    BY <1>1, <1>2, FileLabsAssumption DEF ProcfsInv, SeqFileOK
  <1> QED BY <1>1, <1>2, <1>5, <1>6, <1>7, SeqMoves

(* What events_seq_show() adds to a listing: the event after the position. *)
LEMMA ShownEvent ==
    ASSUME ProcfsInv, NEW f \in Files, Procfs!events_seq_show(f)
    PROVE  /\ procfs_file[f].pos < event_count
           /\ events_lock = f
           /\ events[procfs_file[f].pos] = cleared + procfs_file[f].pos + 1
           /\ cleared + procfs_file[f].pos + 1 <= total_opens
  <1>1. /\ procfs_file[f].pc = "element" /\ SeqFileOK(f)
        /\ procfs_file[f].pos \in Nat
    BY DEF Procfs!events_seq_show, ProcfsInv, ProcfsTypes
  <1>2. procfs_file[f].pos < event_count /\ events_lock = f
    BY <1>1 DEF SeqFileOK
  <1>3. /\ event_count \in Nat /\ cleared \in Nat /\ total_opens \in Nat
        /\ cleared <= total_opens /\ MAX_EVENTS \in Nat
    BY FileLabsAssumption DEF ProcfsInv, ProcfsTypes
  <1>4. /\ event_count = (IF total_opens - cleared < MAX_EVENTS
                          THEN total_opens - cleared ELSE MAX_EVENTS)
        /\ \A i \in 0..(event_count - 1) : events[i] = cleared + i + 1
    BY DEF ProcfsInv, Procfs!LogHoldsFirst
  <1>5. event_count <= total_opens - cleared
    BY <1>3, <1>4
  <1>6. cleared + procfs_file[f].pos + 1 <= total_opens
    BY <1>1, <1>2, <1>3, <1>5
  <1>7. events[procfs_file[f].pos] = cleared + procfs_file[f].pos + 1
    BY <1>1, <1>2, <1>3, <1>4
  <1> QED BY <1>2, <1>6, <1>7

(* events_seq_show().                                                      *)
LEMMA SeqShowKeeps ==
    ASSUME ProcfsInv, NEW f \in Files, Procfs!events_seq_show(f)
    PROVE  ProcfsInv'
  <1>1. PICK pos : pos = procfs_file[f].pos
    OBVIOUS
  <1>2. PICK to : to = IF pos + 1 < event_count THEN "element" ELSE "none"
    OBVIOUS
  <1>3. PICK new : new = [pc |-> to, pos |-> pos + 1]
    OBVIOUS
  <1>4. /\ procfs_file[f].pc = "element"
        /\ listing' = [listing EXCEPT ![f] = Append(listing[f], events[pos])]
        /\ procfs_file' = [procfs_file EXCEPT ![f] = new]
        /\ UNCHANGED <<procfs_loaded, events, event_count, total_opens,
                       cleared, events_lock, whole>>
    BY <1>1, <1>2, <1>3 DEF Procfs!events_seq_show, Procfs!place,
       Procfs!element_at, Procfs!logVars
  <1>5. /\ ProcfsTypes /\ Procfs!LogHoldsFirst
        /\ \A g \in Files : ShownOK(g) /\ SeqFileOK(g)
        /\ pos \in Nat /\ listing[f] \in Seq(Nat)
        /\ cleared \in Nat /\ total_opens \in Nat /\ event_count \in Nat
    <2>1. /\ ProcfsTypes /\ Procfs!LogHoldsFirst
          /\ \A g \in Files : ShownOK(g) /\ SeqFileOK(g)
      BY DEF ProcfsInv
    <2>2. pos \in Nat /\ listing[f] \in Seq(Nat)
      BY <1>1, <2>1 DEF ProcfsTypes
    <2>3. cleared \in Nat /\ total_opens \in Nat /\ event_count \in Nat
      BY <2>1, FileLabsAssumption DEF ProcfsTypes
    <2> QED BY <2>1, <2>2, <2>3
  <1>6. /\ pos < event_count /\ events_lock = f
        /\ events[pos] = cleared + pos + 1 /\ cleared + pos + 1 <= total_opens
    BY <1>1, ShownEvent
  <1>7. /\ to \in {"element", "none"}
        /\ to = "element" => pos + 1 < event_count
    BY <1>2
  <1>8. /\ new \in [pc : {"closed", "open", "element", "none"}, pos : Nat]
        /\ new.pc = to /\ new.pos = pos + 1
    BY <1>3, <1>5, <1>7
  <1>9. SeqFileBecomes(f, new)
    BY <1>4, <1>5, <1>8, SeqFileSet
  <1>10. PICK e \in Nat : e = cleared + pos + 1
    BY <1>5
  <1>11. PICK more : more = Append(listing[f], e)
    OBVIOUS
  <1>12. /\ more \in Seq(Nat) /\ Len(more) = pos + 1
         /\ \A i \in 1..pos : more[i] = listing[f][i]
         /\ more[pos + 1] = e /\ Len(listing[f]) = pos
         /\ \A i \in 1..pos : listing[f][i] \in Nat
    <2>1. PICK before : before = listing[f]
      OBVIOUS
    <2>2. before \in Seq(Nat) /\ Len(before) = pos
      BY <1>1, <1>5, <2>1 DEF ShownOK
    <2>3. more = Append(before, e)
      BY <1>11, <2>1
    <2>4. \A i \in 1..pos : before[i] \in Nat
      BY <2>2
    <2> QED BY <1>10, <2>1, <2>2, <2>3, <2>4
  <1>13. /\ listing' \in [Files -> Seq(Nat)] /\ listing'[f] = more
         /\ \A g \in Files : g # f => listing'[g] = listing[g]
    BY <1>4, <1>5, <1>6, <1>10, <1>11, <1>12 DEF ProcfsTypes
  <1>14. ProcfsTypes' /\ Procfs!LogHoldsFirst'
    BY <1>4, <1>5, <1>9, <1>13
       DEF ProcfsTypes, SeqFileBecomes, Procfs!LogHoldsFirst
  <1>15. ShownOK(f)'
    <2>1. /\ \A i \in 1..pos :
                /\ listing[f][i] <= total_opens
                /\ listing[f][i] <= cleared + pos
                /\ listing[f][i] \in Nat
          /\ \A i \in 1..(pos - 1) : listing[f][i] < listing[f][i + 1]
          /\ f \in whole => \A i \in 1..pos : listing[f][i] = cleared + i
      <3>1. ShownOK(f) /\ Len(listing[f]) = pos /\ procfs_file[f].pos = pos
        BY <1>1, <1>5, <1>12
      <3>2. \A i \in 1..pos : listing[f][i] \in Nat
        BY <1>5, <1>12
      <3> QED BY <3>1, <3>2 DEF ShownOK
    <2>2. ASSUME NEW i \in 1..(pos + 1)
          PROVE  more[i] <= total_opens /\ more[i] <= cleared + (pos + 1)
      <3>1. CASE i = pos + 1
        BY <1>5, <1>6, <1>10, <1>12, <3>1
      <3>2. CASE i \in 1..pos
        <4>1. /\ more[i] = listing[f][i] /\ listing[f][i] <= total_opens
              /\ listing[f][i] <= cleared + pos /\ listing[f][i] \in Nat
          BY <1>12, <2>1, <3>2
        <4> QED BY <1>5, <4>1
      <3> QED BY <1>5, <3>1, <3>2
    <2>3. ASSUME NEW i \in 1..pos
          PROVE  more[i] < more[i + 1]
      <3>1. CASE i = pos
        <4>1. /\ more[i] = listing[f][i] /\ listing[f][i] <= cleared + pos
              /\ listing[f][i] \in Nat
          BY <1>12, <2>1
        <4> QED BY <1>5, <1>10, <1>12, <3>1, <4>1
      <3>2. CASE i \in 1..(pos - 1)
        <4>1. i \in 1..pos /\ i + 1 \in 1..pos
          BY <1>5, <3>2
        <4> QED BY <1>12, <2>1, <3>2, <4>1
      <3> QED BY <1>5, <3>1, <3>2
    <2>4. ASSUME f \in whole, NEW i \in 1..(pos + 1)
          PROVE  more[i] = cleared + i
      <3>1. CASE i = pos + 1
        BY <1>5, <1>10, <1>12, <3>1
      <3>2. CASE i \in 1..pos
        BY <1>12, <2>1, <2>4, <3>2
      <3> QED BY <1>5, <3>1, <3>2
    <2>5. /\ procfs_file'[f] = new /\ listing'[f] = more
          /\ Len(more) = pos + 1 /\ (pos + 1) - 1 = pos
      BY <1>5, <1>9, <1>12, <1>13 DEF SeqFileBecomes
    <2> QED BY <1>4, <1>8, <2>2, <2>3, <2>4, <2>5 DEF ShownOK
  <1>16. SeqFileOK(f)'
    <2>1. procfs_file'[f] = new /\ procfs_loaded
      BY <1>4, <1>5, <1>9 DEF SeqFileBecomes, SeqFileOK
    <2> QED BY <1>4, <1>6, <1>7, <1>8, <2>1 DEF SeqFileOK
  <1>17. ASSUME NEW g \in Files, g # f PROVE ShownOK(g)' /\ SeqFileOK(g)'
    <2>1. /\ procfs_file'[g] = procfs_file[g] /\ listing'[g] = listing[g]
          /\ ShownOK(g) /\ SeqFileOK(g)
      BY <1>5, <1>9, <1>13, <1>17 DEF SeqFileBecomes
    <2> QED BY <1>4, <2>1 DEF ShownOK, SeqFileOK
  <1> QED BY <1>14, <1>15, <1>16, <1>17 DEF ProcfsInv

(* procfs_seqfile_init() and procfs_seqfile_exit().                        *)
LEMMA ProcfsModuleKeeps ==
    ASSUME ProcfsInv,
           Procfs!procfs_seqfile_init \/ Procfs!procfs_seqfile_exit
    PROVE  ProcfsInv'
  <1>1. /\ ProcfsTypes /\ Procfs!LogHoldsFirst /\ MAX_EVENTS \in Nat
        /\ \A g \in Files : ShownOK(g) /\ SeqFileOK(g) /\ g # FREE
    BY FileLabsAssumption DEF ProcfsInv
  <1>2. CASE Procfs!procfs_seqfile_init
    <2>1. /\ ~procfs_loaded /\ procfs_loaded'
          /\ procfs_loaded' \in BOOLEAN
          /\ events' = [i \in 0..(MAX_EVENTS - 1) |-> 0]
          /\ event_count' = 0 /\ total_opens' = 0 /\ cleared' = 0
          /\ UNCHANGED <<events_lock, procfs_file, listing, whole>>
      BY <1>2 DEF Procfs!procfs_seqfile_init, Procfs!EmptyLog, Procfs!fileVars
    <2>2. \A g \in Files : procfs_file[g].pc = "closed" /\ listing[g] = <<>>
      BY <1>1, <2>1 DEF SeqFileOK
    <2>3. ProcfsTypes' /\ Procfs!LogHoldsFirst'
      BY <1>1, <2>1 DEF ProcfsTypes, Procfs!LogHoldsFirst
    <2>4. ASSUME NEW g \in Files PROVE ShownOK(g)' /\ SeqFileOK(g)'
      <3>1. Len(listing[g]) = 0 /\ procfs_file[g].pos = Len(listing[g])
        BY <1>1, <2>2 DEF ShownOK
      <3> QED BY <1>1, <2>1, <2>2, <3>1 DEF ShownOK, SeqFileOK
    <2> QED BY <2>3, <2>4 DEF ProcfsInv
  <1>3. CASE Procfs!procfs_seqfile_exit
    <2>1. /\ \A g \in Files : ~(procfs_file[g].pc \in {"element", "none"})
          /\ procfs_loaded' = FALSE
          /\ procfs_file' = [g \in Files |-> Procfs!Closed]
          /\ listing' = [g \in Files |-> <<>>] /\ whole' = {}
          /\ UNCHANGED <<events, event_count, total_opens, cleared,
                         events_lock>>
      BY <1>3 DEF Procfs!procfs_seqfile_exit, Procfs!Reading, Procfs!logVars
    <2>2. \A g \in Files : /\ procfs_file'[g].pc = "closed"
                           /\ procfs_file'[g].pos = 0
                           /\ listing'[g] = <<>> /\ Len(listing'[g]) = 0
      BY <2>1 DEF Procfs!Closed
    <2>3. ProcfsTypes'
      <3>1. /\ procfs_file' \in [Files ->
                  [pc : {"closed", "open", "element", "none"}, pos : Nat]]
            /\ listing' \in [Files -> Seq(Nat)]
        BY <2>1 DEF Procfs!Closed
      <3> QED BY <1>1, <2>1, <3>1 DEF ProcfsTypes
    <2>4. Procfs!LogHoldsFirst'
      BY <1>1, <2>1 DEF Procfs!LogHoldsFirst
    <2>5. \A g \in Files : ShownOK(g)'
      BY <2>2 DEF ShownOK
    <2>6. \A g \in Files : SeqFileOK(g)'
      BY <1>1, <2>1, <2>2 DEF SeqFileOK
    <2> QED BY <2>3, <2>4, <2>5, <2>6 DEF ProcfsInv
  <1> QED BY <1>2, <1>3

(* Lab 06: the invariant in every behaviour of the six labs.               *)
LEMMA ProcfsInductive == FairSpec => []ProcfsInv
  <1>1. ASSUME Init PROVE ProcfsInv
    <2>1. Procfs!Init
      BY <1>1 DEF Init
    <2>2. \A g \in Files : /\ procfs_file[g].pc = "closed"
                           /\ procfs_file[g].pos = 0
                           /\ listing[g] = <<>> /\ Len(listing[g]) = 0
                           /\ g # FREE
      BY <2>1, FileLabsAssumption DEF Procfs!Init, Procfs!Closed
    <2>3. ProcfsTypes
      <3>1. /\ procfs_file \in [Files ->
                  [pc : {"closed", "open", "element", "none"}, pos : Nat]]
            /\ listing \in [Files -> Seq(Nat)]
        BY <2>1 DEF Procfs!Init, Procfs!Closed
      <3>2. /\ events \in [0..(MAX_EVENTS - 1) -> Nat]
            /\ event_count \in 0..MAX_EVENTS
            /\ cleared \in 0..total_opens
        BY <2>1, FileLabsAssumption DEF Procfs!Init, Procfs!EmptyLog
      <3> QED BY <2>1, <3>1, <3>2 DEF ProcfsTypes, Procfs!Init
    <2>4. Procfs!LogHoldsFirst
      BY <2>1, FileLabsAssumption DEF Procfs!Init, Procfs!LogHoldsFirst
    <2>5. \A g \in Files : ShownOK(g) /\ SeqFileOK(g)
      BY <2>1, <2>2 DEF Procfs!Init, ShownOK, SeqFileOK
    <2> QED BY <2>3, <2>4, <2>5 DEF ProcfsInv
  <1>2. ASSUME ProcfsInv, [Next]_vars PROVE ProcfsInv'
    <2>1. CASE Procfs!Next
      BY <1>2, <2>1, EventsOpenKeeps, EventsRewindKeeps, EventsWriteKeeps,
         SeqStartKeeps, SeqShowKeeps, SeqStopKeeps, ProcfsModuleKeeps
         DEF Procfs!Next, Procfs!events_read
    <2>2. CASE UNCHANGED procfsVars
      BY <1>2, <2>2 DEF procfsVars, ProcfsInv, ProcfsTypes, ShownOK,
         SeqFileOK, Procfs!LogHoldsFirst
    <2> QED BY <1>2, <2>1, <2>2 DEF Next, vars
  <1> QED BY <1>1, <1>2, PTL DEF FairSpec

(* Lab 06, for every number of files and every MAX_EVENTS: the log holds   *)
(* the first opens since a clear, and a listing is in order and, without a *)
(* clear, whole.                                                           *)
THEOREM ListingsAreInOrder == FairSpec => []ListingInOrder
  <1>1. ProcfsInv => ListingInOrder
    BY DEF ProcfsInv, ShownOK, ListingInOrder, Procfs!ListingInOrder
  <1> QED BY <1>1, ProcfsInductive, PTL

(* Lab 06: no step shows an event that was cleared before, though its slot *)
(* still holds it.                                                         *)
THEOREM NothingClearedIsShown == FairSpec => NothingClearedShown
  <1> DEFINE A == \A f \in Files :
                     Len(listing'[f]) > Len(listing[f]) =>
                        listing'[f][Len(listing'[f])] > cleared
  <1>1. ASSUME ProcfsInv, [Next]_vars PROVE [A]_(Procfs!vars)
    <2>1. \A f \in Files : listing[f] \in Seq(Nat) /\ Len(listing[f]) \in Nat
      BY <1>1 DEF ProcfsInv, ProcfsTypes
    <2>2. ASSUME NEW f \in Files, Procfs!events_seq_show(f) PROVE A
      <3>1. PICK pos : pos = procfs_file[f].pos
        OBVIOUS
      <3>2. /\ listing' = [listing EXCEPT ![f] = Append(listing[f], events[pos])]
            /\ pos \in Nat /\ cleared \in Nat /\ listing \in [Files -> Seq(Nat)]
        BY <1>1, <2>2, <3>1
           DEF Procfs!events_seq_show, ProcfsInv, ProcfsTypes
      <3>3. PICK e \in Nat : e = cleared + pos + 1
        BY <3>2
      <3>4. events[pos] = e /\ e > cleared
        BY <1>1, <2>2, <3>1, <3>2, <3>3, ShownEvent
      <3>5. PICK more : more = Append(listing[f], e)
        OBVIOUS
      <3>6. more[Len(more)] = e
        BY <3>2, <3>3, <3>5
      <3>7. /\ listing'[f] = more
            /\ \A g \in Files : g # f => listing'[g] = listing[g]
        BY <3>2, <3>4, <3>5
      <3> QED BY <2>1, <3>4, <3>6, <3>7
    <2>3. ASSUME \A f \in Files : listing'[f] = listing[f] \/ listing'[f] = <<>>
          PROVE  A
      <3>1. \A f \in Files : ~(Len(listing'[f]) > Len(listing[f]))
        BY <2>1, <2>3
      <3> QED BY <3>1
    <2>4. CASE Procfs!Next
      <3>1. ASSUME NEW f \in Files,
                   Procfs!events_open(f) \/ Procfs!events_rewind(f)
                      \/ Procfs!events_write(f) \/ Procfs!events_seq_start(f)
                      \/ Procfs!events_seq_stop(f)
            PROVE  \A g \in Files :
                      listing'[g] = listing[g] \/ listing'[g] = <<>>
        <4>1. listing \in [Files -> Seq(Nat)]
          BY <1>1 DEF ProcfsInv, ProcfsTypes
        <4> QED BY <3>1, <4>1 DEF Procfs!events_open, Procfs!events_rewind,
           Procfs!events_write, Procfs!events_seq_start, Procfs!events_seq_stop
      <3>2. ASSUME Procfs!procfs_seqfile_init \/ Procfs!procfs_seqfile_exit
            PROVE  \A g \in Files :
                      listing'[g] = listing[g] \/ listing'[g] = <<>>
        BY <3>2 DEF Procfs!procfs_seqfile_init, Procfs!procfs_seqfile_exit,
           Procfs!fileVars
      <3> QED BY <2>2, <2>3, <2>4, <3>1, <3>2
              DEF Procfs!Next, Procfs!events_read
    <2>5. CASE UNCHANGED procfsVars
      BY <2>5 DEF procfsVars, Procfs!vars, Procfs!logVars, Procfs!fileVars
    <2> QED BY <1>1, <2>4, <2>5 DEF Next, vars
  <1> QED BY <1>1, ProcfsInductive, PTL
          DEF FairSpec, NothingClearedShown, Procfs!NothingClearedShown

(* Labs 09 and 10: init and exit *)

(* What the two labs set up.                                               *)
Resources == {"buffer", "region", "cdev", "class", "device"}

(* The first k of the resources s.                                         *)
Held(s, k) == {s[i] : i \in 1..k}

(* u names the first k of the resources s, the last of them first.         *)
Reverses(u, s, k) ==
    /\ u \in Seq(Resources) /\ Len(u) = k
    /\ \A i \in 1..k : u[i] = s[k + 1 - i]

(* The resources are got in the order s, each label undoes those before    *)
(* its own, and exit all of them.                                          *)
LabelsFit(s, labels, exit) ==
    /\ s \in Seq(Resources) /\ Len(s) > 0
    /\ \A i, j \in 1..Len(s) : s[i] = s[j] => i = j
    /\ \A k \in 0..(Len(s) - 1) : Reverses(labels[s[k + 1]], s, k)
    /\ Reverses(exit, s, Len(s))

(* What is held are the first few of the resources, and while they are     *)
(* given back just these are left to be given back.                        *)
SetupOK(s, ph, acq, u) ==
    /\ ph \in {"unloaded", "loading", "live", "undoing"}
    /\ \E k \in 0..Len(s) :
          /\ acq = Held(s, k)
          /\ ph = "unloaded" => k = 0
          /\ ph = "loading" => k < Len(s)
          /\ ph = "live" => k = Len(s)
          /\ ph = "undoing" => Reverses(u, s, k)

(* A step of init or exit, as in CdevSetup.                                *)
SetupStep(s, labels, exit, ph, acq, u, ph2, acq2, u2) ==
    \/ ph = "unloaded" /\ ph2 = "loading" /\ acq2 = acq
    \/ /\ ph = "loading"
       /\ acq2 = acq \cup {s[Cardinality(acq) + 1]}
       /\ ph2 = IF acq2 = Held(s, Len(s)) THEN "live" ELSE "loading"
    \/ /\ ph = "loading" /\ ph2 = "undoing" /\ acq2 = acq
       /\ u2 = labels[s[Cardinality(acq) + 1]]
    \/ ph = "live" /\ ph2 = "undoing" /\ acq2 = acq /\ u2 = exit
    \/ /\ ph = "undoing" /\ ph2 = ph /\ u # <<>>
       /\ acq2 = acq \ {Head(u)} /\ u2 = Tail(u)
    \/ ph = "undoing" /\ u = <<>> /\ ph2 = "unloaded" /\ acq2 = acq

(* k different resources are k.                                            *)
LEMMA HeldCardinality ==
    ASSUME NEW s \in Seq(Resources), NEW k \in 0..Len(s),
           \A i, j \in 1..Len(s) : s[i] = s[j] => i = j
    PROVE  Cardinality(Held(s, k)) = k
  <1> DEFINE b == [i \in 1..k |-> s[i]]
  <1>1. /\ b \in [1..k -> Held(s, k)]
        /\ \A x, y \in 1..k : b[x] = b[y] => x = y
        /\ \A t \in Held(s, k) : \E i \in 1..k : b[i] = t
    BY DEF Held
  <1>2. b \in Bijection(1..k, Held(s, k))
    BY <1>1, Fun_IsBij
  <1>3. k \in Nat /\ ExistsBijection(1..k, Held(s, k))
    BY <1>2 DEF ExistsBijection
  <1> QED BY <1>3, FS_CountingElements

(* A step of init or exit keeps what is held in step with what is left.    *)
LEMMA SetupStepKeeps ==
    ASSUME NEW s, NEW labels, NEW exit, LabelsFit(s, labels, exit),
           NEW ph, NEW acq, NEW u, SetupOK(s, ph, acq, u),
           NEW ph2, NEW acq2, NEW u2,
           SetupStep(s, labels, exit, ph, acq, u, ph2, acq2, u2)
    PROVE  SetupOK(s, ph2, acq2, u2)
  <1>1. /\ s \in Seq(Resources) /\ Len(s) \in Nat /\ Len(s) > 0
        /\ \A i, j \in 1..Len(s) : s[i] = s[j] => i = j
    BY DEF LabelsFit
  <1>2. PICK k \in 0..Len(s) :
           /\ acq = Held(s, k)
           /\ ph = "unloaded" => k = 0
           /\ ph = "loading" => k < Len(s)
           /\ ph = "live" => k = Len(s)
           /\ ph = "undoing" => Reverses(u, s, k)
    BY DEF SetupOK
  <1>3. Cardinality(acq) = k
    BY <1>1, <1>2, HeldCardinality
  <1>4. ASSUME NEW m \in 0..Len(s), acq2 = Held(s, m),
               ph2 \in {"unloaded", "loading", "live", "undoing"},
               ph2 = "unloaded" => m = 0,
               ph2 = "loading" => m < Len(s),
               ph2 = "live" => m = Len(s),
               ph2 = "undoing" => Reverses(u2, s, m)
        PROVE  SetupOK(s, ph2, acq2, u2)
    BY <1>4 DEF SetupOK
  <1>5. CASE ph = "unloaded" /\ ph2 = "loading" /\ acq2 = acq
    BY <1>1, <1>2, <1>4, <1>5
  <1>6. CASE /\ ph = "loading"
             /\ acq2 = acq \cup {s[Cardinality(acq) + 1]}
             /\ ph2 = IF acq2 = Held(s, Len(s)) THEN "live" ELSE "loading"
    <2>1. k + 1 \in 0..Len(s) /\ acq2 = Held(s, k + 1)
      BY <1>1, <1>2, <1>3, <1>6 DEF Held
    <2>2. CASE k + 1 = Len(s)
      BY <1>4, <1>6, <2>1, <2>2
    <2>3. CASE k + 1 # Len(s)
      <3>1. /\ Cardinality(acq2) = k + 1
            /\ Cardinality(Held(s, Len(s))) = Len(s)
        BY <1>1, <2>1, HeldCardinality
      <3>2. acq2 # Held(s, Len(s)) /\ k + 1 < Len(s)
        BY <1>1, <2>1, <2>3, <3>1
      <3>3. ph2 = "loading"
        BY <1>6, <3>2
      <3> QED BY <1>4, <2>1, <3>2, <3>3
    <2> QED BY <2>2, <2>3
  <1>7. CASE /\ ph = "loading" /\ ph2 = "undoing" /\ acq2 = acq
             /\ u2 = labels[s[Cardinality(acq) + 1]]
    <2>1. k \in 0..(Len(s) - 1)
      BY <1>1, <1>2, <1>7
    <2>2. Reverses(u2, s, k)
      BY <1>3, <1>7, <2>1 DEF LabelsFit
    <2> QED BY <1>2, <1>4, <1>7, <2>2
  <1>8. CASE ph = "live" /\ ph2 = "undoing" /\ acq2 = acq /\ u2 = exit
    BY <1>2, <1>4, <1>8 DEF LabelsFit
  <1>9. CASE /\ ph = "undoing" /\ ph2 = ph /\ u # <<>>
             /\ acq2 = acq \ {Head(u)} /\ u2 = Tail(u)
    <2>1. /\ u \in Seq(Resources) /\ Len(u) = k
          /\ \A i \in 1..k : u[i] = s[k + 1 - i]
      BY <1>2, <1>9 DEF Reverses
    <2>2. k > 0
      BY <1>9, <2>1
    <2>3. PICK m \in 0..Len(s) : k = m + 1
      BY <1>1, <2>2
    <2>4. /\ u2 \in Seq(Resources) /\ Len(u2) = m
          /\ \A i \in 1..m : u2[i] = u[i + 1]
      BY <1>9, <2>1, <2>2, <2>3
    <2>5. Reverses(u2, s, m)
      <3>1. ASSUME NEW i \in 1..m PROVE u2[i] = s[m + 1 - i]
        <4>1. i + 1 \in 1..k /\ k + 1 - (i + 1) = m + 1 - i
          BY <2>3
        <4> QED BY <2>1, <2>4, <4>1
      <3> QED BY <2>4, <3>1 DEF Reverses
    <2>6. Head(u) = s[k]
      <3>1. Head(u) = u[1] /\ 1 \in 1..k /\ k + 1 - 1 = k
        BY <1>9, <2>1, <2>2
      <3> QED BY <2>1, <3>1
    <2>7. acq2 = Held(s, m)
      <3>1. k \in 1..Len(s) /\ k \notin 1..m /\ 1..k = (1..m) \cup {k}
        BY <1>1, <2>3
      <3>2. Held(s, k) = Held(s, m) \cup {s[k]}
        BY <3>1, Zenon DEF Held
      <3>3. s[k] \notin Held(s, m)
        <4>1. 1..m \subseteq 1..Len(s)
          BY <1>1, <2>3
        <4>2. ASSUME NEW i \in 1..m PROVE s[i] # s[k]
          BY <1>1, <3>1, <4>1, <4>2, Zenon
        <4> QED BY <4>2, Zenon DEF Held
      <3> QED BY <1>2, <1>9, <2>6, <3>2, <3>3, Zenon
    <2> QED BY <1>4, <1>9, <2>5, <2>7
  <1>10. CASE ph = "undoing" /\ u = <<>> /\ ph2 = "unloaded" /\ acq2 = acq
    <2>1. k = 0
      BY <1>2, <1>10 DEF Reverses
    <2> QED BY <1>2, <1>4, <1>10, <2>1
  <1> QED BY <1>5, <1>6, <1>7, <1>8, <1>9, <1>10 DEF SetupStep

(* What the properties of the two labs say follows.                        *)
LEMMA SetupOrdered ==
    ASSUME NEW s \in Seq(Resources), NEW ph, NEW acq, NEW u,
           \A i, j \in 1..Len(s) : s[i] = s[j] => i = j,
           SetupOK(s, ph, acq, u)
    PROVE  /\ ph = "unloaded" => acq = {}
           /\ \A i, j \in 1..Len(s) : i < j /\ s[j] \in acq => s[i] \in acq
  <1>1. PICK k \in 0..Len(s) : acq = Held(s, k) /\ (ph = "unloaded" => k = 0)
    BY DEF SetupOK
  <1>2. ph = "unloaded" => acq = {}
    BY <1>1 DEF Held
  <1>3. ASSUME NEW i \in 1..Len(s), NEW j \in 1..Len(s), i < j, s[j] \in acq
        PROVE  s[i] \in acq
    <2>1. PICK m \in 1..k : s[j] = s[m]
      BY <1>1, <1>3 DEF Held
    <2>2. j = m
      BY <1>1, <2>1
    <2> QED BY <1>1, <1>3, <2>1, <2>2 DEF Held
  <1> QED BY <1>2, <1>3

(* Lab 09: its orders and labels fit.                                      *)
LEMMA RwLabelsFit ==
    LabelsFit(Rw!rw_init_order, Rw!rw_init_labels, Rw!rw_exit_order)
  <1> DEFINE s == Rw!rw_init_order
  <1>1. /\ s \in Seq(Resources) /\ Len(s) = 5
        /\ s[1] = "buffer" /\ s[2] = "region" /\ s[3] = "cdev"
        /\ s[4] = "class" /\ s[5] = "device"
    <2>1. s \in Seq(Resources)
      BY DEF Rw!rw_init_order, Resources
    <2>2. Len(s) = 5
      BY DEF Rw!rw_init_order
    <2>3. /\ s[1] = "buffer" /\ s[2] = "region" /\ s[3] = "cdev"
          /\ s[4] = "class" /\ s[5] = "device"
      BY DEF Rw!rw_init_order
    <2> QED BY <2>1, <2>2, <2>3
  <1>2. \A i, j \in 1..Len(s) : s[i] = s[j] => i = j
    BY <1>1
  <1>3. Reverses(Rw!rw_exit_order, s, 5)
    <2>1. Rw!rw_exit_order \in Seq(Resources)
      BY DEF Rw!rw_exit_order, Resources
    <2>2. Len(Rw!rw_exit_order) = 5
      BY DEF Rw!rw_exit_order
    <2>3. \A i \in 1..5 : Rw!rw_exit_order[i] = s[5 + 1 - i]
      BY <1>1 DEF Rw!rw_exit_order
    <2> QED BY <2>1, <2>2, <2>3 DEF Reverses
  <1>4. /\ Reverses(Rw!rw_init_labels["buffer"], s, 0)
        /\ Reverses(Rw!rw_init_labels["region"], s, 1)
        /\ Reverses(Rw!rw_init_labels["cdev"], s, 2)
        /\ Reverses(Rw!rw_init_labels["class"], s, 3)
        /\ Reverses(Rw!rw_init_labels["device"], s, 4)
    BY <1>1 DEF Reverses, Rw!rw_init_labels
  <1>5. \A k \in 0..(Len(s) - 1) : Reverses(Rw!rw_init_labels[s[k + 1]], s, k)
    BY <1>1, <1>4
  <1> QED BY <1>1, <1>2, <1>3, <1>5 DEF LabelsFit

(* Lab 10: its orders and labels fit.                                      *)
LEMMA IoctlLabelsFit ==
    LabelsFit(Ioctl!ioctl_init_order, Ioctl!ioctl_init_labels,
              Ioctl!ioctl_exit_order)
  <1> DEFINE s == Ioctl!ioctl_init_order
  <1>1. /\ s \in Seq(Resources) /\ Len(s) = 4
        /\ s[1] = "region" /\ s[2] = "cdev"
        /\ s[3] = "class" /\ s[4] = "device"
    <2>1. s \in Seq(Resources)
      BY DEF Ioctl!ioctl_init_order, Resources
    <2>2. Len(s) = 4
      BY DEF Ioctl!ioctl_init_order
    <2>3. /\ s[1] = "region" /\ s[2] = "cdev"
          /\ s[3] = "class" /\ s[4] = "device"
      BY DEF Ioctl!ioctl_init_order
    <2> QED BY <2>1, <2>2, <2>3
  <1>2. \A i, j \in 1..Len(s) : s[i] = s[j] => i = j
    BY <1>1
  <1>3. Reverses(Ioctl!ioctl_exit_order, s, 4)
    BY <1>1 DEF Reverses, Ioctl!ioctl_exit_order
  <1>4. /\ Reverses(Ioctl!ioctl_init_labels["region"], s, 0)
        /\ Reverses(Ioctl!ioctl_init_labels["cdev"], s, 1)
        /\ Reverses(Ioctl!ioctl_init_labels["class"], s, 2)
        /\ Reverses(Ioctl!ioctl_init_labels["device"], s, 3)
    <2>1. /\ Reverses(Ioctl!ioctl_init_labels["region"], s, 0)
          /\ Reverses(Ioctl!ioctl_init_labels["cdev"], s, 1)
      BY <1>1, SMTT(30) DEF Reverses, Ioctl!ioctl_init_labels
    <2>2. Reverses(Ioctl!ioctl_init_labels["class"], s, 2)
      BY <1>1, SMTT(30) DEF Reverses, Ioctl!ioctl_init_labels
    <2>3. Reverses(Ioctl!ioctl_init_labels["device"], s, 3)
      BY <1>1, SMTT(30) DEF Reverses, Ioctl!ioctl_init_labels
    <2> QED BY <2>1, <2>2, <2>3
  <1>5. \A k \in 0..(Len(s) - 1) :
           Reverses(Ioctl!ioctl_init_labels[s[k + 1]], s, k)
    BY <1>1, <1>4
  <1> QED BY <1>1, <1>2, <1>3, <1>5 DEF LabelsFit

(* The instances count as this module does.                                *)
LEMMA SetupCardinality ==
    \A S : /\ Rw!Setup!Cardinality(S) = Cardinality(S)
           /\ Ioctl!Setup!Cardinality(S) = Cardinality(S)
  <1>1. \A S : Rw!Setup!Cardinality(S) = Cardinality(S)
    BY DEF Rw!Setup!Cardinality, Cardinality, Rw!Setup!IsFiniteSet, IsFiniteSet
  <1>2. \A S : Ioctl!Setup!Cardinality(S) = Cardinality(S)
    BY DEF Ioctl!Setup!Cardinality, Cardinality, Ioctl!Setup!IsFiniteSet,
       IsFiniteSet
  <1> QED BY <1>1, <1>2

(* Lab 09: what its init and exit hold.                                    *)
RwSetupOK == SetupOK(Rw!rw_init_order, rw_phase, rw_acquired, rw_undo)

(* Lab 10: what its init and exit hold.                                    *)
IoctlSetupOK ==
    SetupOK(Ioctl!ioctl_init_order, ioctl_phase, ioctl_acquired, ioctl_undo)

(* Before a module is loaded nothing is held.                              *)
LEMMA SetupBegins ==
    ASSUME NEW s \in Seq(Resources), NEW u
    PROVE  SetupOK(s, "unloaded", {}, u)
  <1>1. 0 \in 0..Len(s) /\ {} = Held(s, 0)
    BY DEF Held
  <1> QED BY <1>1 DEF SetupOK

(* The resources of the instances.                                         *)
LEMMA SetupResources ==
    /\ Rw!Setup!Resources = Held(Rw!rw_init_order, Len(Rw!rw_init_order))
    /\ DOMAIN Rw!rw_init_order = 1..Len(Rw!rw_init_order)
    /\ Ioctl!Setup!Resources =
          Held(Ioctl!ioctl_init_order, Len(Ioctl!ioctl_init_order))
    /\ DOMAIN Ioctl!ioctl_init_order = 1..Len(Ioctl!ioctl_init_order)
  <1>1. /\ DOMAIN Rw!rw_init_order = 1..Len(Rw!rw_init_order)
        /\ DOMAIN Ioctl!ioctl_init_order = 1..Len(Ioctl!ioctl_init_order)
    BY RwLabelsFit, IoctlLabelsFit DEF LabelsFit
  <1> QED BY <1>1 DEF Rw!Setup!Resources, Ioctl!Setup!Resources, Held

(* Lab 09: the invariant in every behaviour of the six labs.               *)
LEMMA RwSetupInductive == FairSpec => []RwSetupOK
  <1>1. ASSUME Init PROVE RwSetupOK
    <2>1. rw_phase = "unloaded" /\ rw_acquired = {}
      BY <1>1 DEF Init, Rw!Init, Rw!Setup!SetupInit
    <2> QED BY <2>1, RwLabelsFit, SetupBegins DEF LabelsFit, RwSetupOK
  <1>2. ASSUME RwSetupOK, [Next]_vars PROVE RwSetupOK'
    <2>1. CASE UNCHANGED <<rw_phase, rw_acquired, rw_undo>>
      <3>1. Rw!rw_init_order' = Rw!rw_init_order
        BY DEF Rw!rw_init_order
      <3> QED BY <1>2, <2>1, <3>1 DEF RwSetupOK
    <2>2. ASSUME SetupStep(Rw!rw_init_order, Rw!rw_init_labels,
                    Rw!rw_exit_order, rw_phase, rw_acquired, rw_undo,
                    rw_phase', rw_acquired', rw_undo')
          PROVE  RwSetupOK'
      <3>1. Rw!rw_init_order' = Rw!rw_init_order
        BY DEF Rw!rw_init_order
      <3> QED BY <1>2, <2>2, <3>1, RwLabelsFit, SetupStepKeeps DEF RwSetupOK
    <2>3. ASSUME \/ Rw!Setup!init_begin \/ Rw!Setup!init_acquire
                 \/ Rw!Setup!init_goto \/ Rw!Setup!exit_begin
                 \/ Rw!Setup!undo_next \/ Rw!Setup!undo_done
          PROVE  SetupStep(Rw!rw_init_order, Rw!rw_init_labels,
                    Rw!rw_exit_order, rw_phase, rw_acquired, rw_undo,
                    rw_phase', rw_acquired', rw_undo')
      <3>1. Rw!Setup!wanted = Rw!rw_init_order[Cardinality(rw_acquired) + 1]
        BY SetupCardinality DEF Rw!Setup!wanted
      <3>2. CASE Rw!Setup!init_begin
        BY <3>2 DEF Rw!Setup!init_begin, SetupStep
      <3>3. CASE Rw!Setup!init_acquire
        BY <3>1, <3>3, SetupResources DEF Rw!Setup!init_acquire, SetupStep
      <3>4. CASE Rw!Setup!init_goto
        BY <3>1, <3>4 DEF Rw!Setup!init_goto, SetupStep
      <3>5. CASE Rw!Setup!exit_begin
        BY <3>5 DEF Rw!Setup!exit_begin, SetupStep
      <3>6. CASE Rw!Setup!undo_next
        BY <3>6 DEF Rw!Setup!undo_next, SetupStep
      <3>7. CASE Rw!Setup!undo_done
        BY <3>7 DEF Rw!Setup!undo_done, SetupStep
      <3> QED BY <2>3, <3>2, <3>3, <3>4, <3>5, <3>6, <3>7
    <2>4. CASE Rw!Next
      <3>1. CASE Rw!module_loads
        BY <2>2, <2>3, <3>1 DEF Rw!module_loads
      <3>2. CASE Rw!module_steps
        BY <2>2, <2>3, <3>2 DEF Rw!module_steps, Rw!Setup!init_continues,
           Rw!Setup!undo_continues
      <3>3. ASSUME NEW f \in RwFiles,
                   Rw!file_opens(f) \/ Rw!file_closes(f) \/ Rw!rw_llseek(f)
            PROVE  RwSetupOK'
        BY <2>1, <3>3 DEF Rw!file_opens, Rw!file_closes, Rw!rw_llseek,
           Rw!setupVars
      <3>4. ASSUME NEW t \in Threads,
                   \/ Rw!call_begins(t) \/ Rw!call_returns(t)
                   \/ Rw!rw_enters(t) \/ Rw!rw_copies(t) \/ Rw!rw_faults(t)
            PROVE  RwSetupOK'
        BY <2>1, <3>4 DEF Rw!call_begins, Rw!call_returns, Rw!rw_enters,
           Rw!rw_copies, Rw!rw_faults, Rw!setupVars
      <3> QED BY <2>4, <3>1, <3>2, <3>3, <3>4 DEF Rw!Next
    <2>5. CASE UNCHANGED rwVars
      BY <2>1, <2>5 DEF rwVars
    <2> QED BY <1>2, <2>4, <2>5 DEF Next, vars
  <1> QED BY <1>1, <1>2, PTL DEF FairSpec

(* Lab 10: the invariant in every behaviour of the six labs.               *)
LEMMA IoctlSetupInductive == FairSpec => []IoctlSetupOK
  <1>1. ASSUME Init PROVE IoctlSetupOK
    <2>1. ioctl_phase = "unloaded" /\ ioctl_acquired = {}
      BY <1>1 DEF Init, Ioctl!Init, Ioctl!Setup!SetupInit
    <2> QED BY <2>1, IoctlLabelsFit, SetupBegins DEF LabelsFit, IoctlSetupOK
  <1>2. ASSUME IoctlSetupOK, [Next]_vars PROVE IoctlSetupOK'
    <2>1. CASE UNCHANGED <<ioctl_phase, ioctl_acquired, ioctl_undo>>
      <3>1. Ioctl!ioctl_init_order' = Ioctl!ioctl_init_order
        BY DEF Ioctl!ioctl_init_order
      <3> QED BY <1>2, <2>1, <3>1 DEF IoctlSetupOK
    <2>2. ASSUME SetupStep(Ioctl!ioctl_init_order, Ioctl!ioctl_init_labels,
                    Ioctl!ioctl_exit_order, ioctl_phase, ioctl_acquired,
                    ioctl_undo, ioctl_phase', ioctl_acquired', ioctl_undo')
          PROVE  IoctlSetupOK'
      <3>1. Ioctl!ioctl_init_order' = Ioctl!ioctl_init_order
        BY DEF Ioctl!ioctl_init_order
      <3> QED BY <1>2, <2>2, <3>1, IoctlLabelsFit, SetupStepKeeps
              DEF IoctlSetupOK
    <2>3. ASSUME \/ Ioctl!Setup!init_begin \/ Ioctl!Setup!init_acquire
                 \/ Ioctl!Setup!init_goto \/ Ioctl!Setup!exit_begin
                 \/ Ioctl!Setup!undo_next \/ Ioctl!Setup!undo_done
          PROVE  SetupStep(Ioctl!ioctl_init_order, Ioctl!ioctl_init_labels,
                    Ioctl!ioctl_exit_order, ioctl_phase, ioctl_acquired,
                    ioctl_undo, ioctl_phase', ioctl_acquired', ioctl_undo')
      <3>1. Ioctl!Setup!wanted =
               Ioctl!ioctl_init_order[Cardinality(ioctl_acquired) + 1]
        BY SetupCardinality DEF Ioctl!Setup!wanted
      <3>2. CASE Ioctl!Setup!init_begin
        BY <3>2 DEF Ioctl!Setup!init_begin, SetupStep
      <3>3. CASE Ioctl!Setup!init_acquire
        BY <3>1, <3>3, SetupResources DEF Ioctl!Setup!init_acquire, SetupStep
      <3>4. CASE Ioctl!Setup!init_goto
        BY <3>1, <3>4 DEF Ioctl!Setup!init_goto, SetupStep
      <3>5. CASE Ioctl!Setup!exit_begin
        BY <3>5 DEF Ioctl!Setup!exit_begin, SetupStep
      <3>6. CASE Ioctl!Setup!undo_next
        BY <3>6 DEF Ioctl!Setup!undo_next, SetupStep
      <3>7. CASE Ioctl!Setup!undo_done
        BY <3>7 DEF Ioctl!Setup!undo_done, SetupStep
      <3> QED BY <2>3, <3>2, <3>3, <3>4, <3>5, <3>6, <3>7
    <2>4. CASE Ioctl!Next
      <3>1. CASE Ioctl!module_loads
        BY <2>2, <2>3, <3>1 DEF Ioctl!module_loads
      <3>2. CASE Ioctl!module_steps
        BY <2>2, <2>3, <3>2 DEF Ioctl!module_steps,
           Ioctl!Setup!init_continues, Ioctl!Setup!undo_continues
      <3>3. CASE \/ Ioctl!ioctl_reset \/ Ioctl!ioctl_get_stats
                 \/ Ioctl!ioctl_set_mode
                 \/ \E e \in Echoers : Ioctl!ioctl_echo(e)
        BY <2>1, <3>3 DEF Ioctl!ioctl_reset, Ioctl!ioctl_get_stats,
           Ioctl!ioctl_set_mode, Ioctl!ioctl_echo, Ioctl!echo_begin,
           Ioctl!echo_locked, Ioctl!echo_reply, Ioctl!setupVars
      <3> QED BY <2>4, <3>1, <3>2, <3>3 DEF Ioctl!Next
    <2>5. CASE UNCHANGED ioctlVars
      BY <2>1, <2>5 DEF ioctlVars
    <2> QED BY <1>2, <2>4, <2>5 DEF Next, vars
  <1> QED BY <1>1, <1>2, PTL DEF FairSpec

(* Labs 09 and 10: wherever init fails, and when exit runs, what was taken *)
(* is given back, in order and to the last.                                *)
THEOREM SetupIsUndone == FairSpec => []SetupUndone
  <1>1. ASSUME RwSetupOK PROVE Rw!RwUndone
    <2>1. /\ Rw!rw_init_order \in Seq(Resources)
          /\ \A i, j \in 1..Len(Rw!rw_init_order) :
                Rw!rw_init_order[i] = Rw!rw_init_order[j] => i = j
      BY RwLabelsFit DEF LabelsFit
    <2>2. /\ rw_phase = "unloaded" => rw_acquired = {}
          /\ \A i, j \in 1..Len(Rw!rw_init_order) :
                i < j /\ Rw!rw_init_order[j] \in rw_acquired =>
                   Rw!rw_init_order[i] \in rw_acquired
      BY <1>1, <2>1, SetupOrdered DEF RwSetupOK
    <2> QED BY <2>2, SetupResources DEF Rw!RwUndone, Rw!Setup!UndoneInOrder
  <1>2. ASSUME IoctlSetupOK PROVE Ioctl!IoctlUndone
    <2>1. /\ Ioctl!ioctl_init_order \in Seq(Resources)
          /\ \A i, j \in 1..Len(Ioctl!ioctl_init_order) :
                Ioctl!ioctl_init_order[i] = Ioctl!ioctl_init_order[j] => i = j
      BY IoctlLabelsFit DEF LabelsFit
    <2>2. /\ ioctl_phase = "unloaded" => ioctl_acquired = {}
          /\ \A i, j \in 1..Len(Ioctl!ioctl_init_order) :
                i < j /\ Ioctl!ioctl_init_order[j] \in ioctl_acquired =>
                   Ioctl!ioctl_init_order[i] \in ioctl_acquired
      BY <1>2, <2>1, SetupOrdered DEF IoctlSetupOK
    <2> QED BY <2>2, SetupResources
            DEF Ioctl!IoctlUndone, Ioctl!Setup!UndoneInOrder
  <1>3. RwSetupOK /\ IoctlSetupOK => SetupUndone
    BY <1>1, <1>2 DEF SetupUndone
  <1> QED BY <1>3, RwSetupInductive, IoctlSetupInductive, PTL

(* Lab 10: what ECHO computes                                              *)

CharBuffers == [Ioctl!Indices -> Nat]

(* A set of numbers that is not empty has a least one.                     *)
LEMMA LeastNumber ==
    ASSUME NEW T, T \subseteq Nat, T # {}
    PROVE  \E n \in T : \A m \in T : n <= m
  <1> DEFINE R == OpToRel(<, Nat)
  <1>1. IsWellFoundedOn(R, Nat)
    BY NatLessThanWellFounded, Zenon
  <1> HIDE DEF R
  <1>2. PICK n \in T : \A m \in T : ~(<<m, n>> \in R)
    BY <1>1, WFMin
  <1> USE DEF R
  <1>3. \A m \in T : ~(m < n)
    BY <1>2 DEF OpToRel
  <1> QED BY <1>3

(* The place of the first NUL is the length.                               *)
LEMMA StrlenIsFirst ==
    ASSUME NEW buf, NEW n \in Ioctl!Indices, buf[n] = 0,
           \A i \in Ioctl!Indices : i < n => buf[i] # 0
    PROVE  Ioctl!strlen(buf) = n
  <1> DEFINE First(m) ==
                 buf[m] = 0 /\ \A i \in Ioctl!Indices : i < m => buf[i] # 0
  <1>1. Ioctl!Indices \subseteq Int
    BY EchoAssumption DEF Ioctl!Indices
  <1>2. ASSUME NEW m \in Ioctl!Indices, First(m) PROVE m = n
    <2>1. ~(m < n) /\ ~(n < m)
      BY <1>2
    <2> QED BY <1>1, <2>1
  <1>3. First(n)
    OBVIOUS
  <1> HIDE DEF First
  <1>4. (CHOOSE m \in Ioctl!Indices : First(m)) = n
    BY <1>2, <1>3, Zenon
  <1> QED BY <1>4 DEF Ioctl!strlen, First

(* A buffer that holds a NUL has a length.                                 *)
LEMMA StrlenExists ==
    ASSUME NEW buf, NEW z \in Ioctl!Indices, buf[z] = 0
    PROVE  /\ Ioctl!strlen(buf) \in Ioctl!Indices
           /\ buf[Ioctl!strlen(buf)] = 0
           /\ \A i \in Ioctl!Indices : i < Ioctl!strlen(buf) => buf[i] # 0
  <1> DEFINE T == {i \in Ioctl!Indices : buf[i] = 0}
  <1>1. Ioctl!Indices \subseteq Nat
    BY EchoAssumption DEF Ioctl!Indices
  <1>2. T \subseteq Nat /\ z \in T
    BY <1>1
  <1>3. PICK n \in T : \A m \in T : n <= m
    BY <1>2, LeastNumber
  <1>4. n \in Ioctl!Indices /\ buf[n] = 0
    OBVIOUS
  <1>5. \A i \in Ioctl!Indices : i < n => buf[i] # 0
    <2>1. SUFFICES ASSUME NEW i \in Ioctl!Indices, i < n, buf[i] = 0
                   PROVE  FALSE
      OBVIOUS
    <2>2. n <= i
      BY <1>3, <2>1
    <2> QED BY <1>1, <1>4, <2>1, <2>2
  <1>6. Ioctl!strlen(buf) = n
    BY <1>4, <1>5, StrlenIsFirst
  <1> QED BY <1>4, <1>5, <1>6

(* The text of buf with its first n and last n characters exchanged.       *)
Turned(buf, len, n) ==
    [k \in Ioctl!Indices |->
        IF k < len /\ (k < n \/ len - 1 - k < n)
        THEN buf[len - 1 - k] ELSE buf[k]]

(* The equation of the loop's rounds.                                      *)
Rounds(after, buf, len) ==
    after = [n \in 0..(len \div 2) |->
                IF n = 0 THEN buf
                ELSE Ioctl!swapped(after[n - 1], n - 1, len - n)]

(* Half of a length, rounded down.                                         *)
LEMMA Half ==
    ASSUME NEW len \in Nat
    PROVE  /\ len \div 2 \in Nat
           /\ 2 * (len \div 2) <= len
           /\ len <= 2 * (len \div 2) + 1
  OBVIOUS

(* One round exchanges the next two characters.                            *)
LEMMA RoundTurns ==
    ASSUME NEW buf \in CharBuffers, NEW len \in Ioctl!Indices,
           NEW n \in 1..(len \div 2)
    PROVE  Ioctl!swapped(Turned(buf, len, n - 1), n - 1, len - n)
              = Turned(buf, len, n)
  <1>1. /\ len \in Nat /\ len < BufLen /\ BufLen \in Nat
        /\ Ioctl!Indices = 0..(BufLen - 1)
    BY EchoAssumption DEF Ioctl!Indices
  <1>2. n \in Nat /\ n > 0 /\ 2 * n <= len
    BY <1>1, Half
  <1>3. PICK before : before = Turned(buf, len, n - 1)
    OBVIOUS
  <1>4. PICK i, j : i = n - 1 /\ j = len - n
    OBVIOUS
  <1>5. i \in Ioctl!Indices /\ j \in Ioctl!Indices /\ i < j
    BY <1>1, <1>2, <1>4
  <1>6. /\ DOMAIN before = Ioctl!Indices
        /\ \A k \in Ioctl!Indices :
              before[k] = IF k < len /\ (k < n - 1 \/ len - 1 - k < n - 1)
                          THEN buf[len - 1 - k] ELSE buf[k]
        /\ before = [k \in Ioctl!Indices |-> before[k]]
    BY <1>3 DEF Turned
  <1>7. before[i] = buf[i] /\ before[j] = buf[j]
    <2>1. ~(i < n - 1 \/ len - 1 - i < n - 1)
      BY <1>1, <1>2, <1>4
    <2>2. ~(j < n - 1 \/ len - 1 - j < n - 1)
      BY <1>1, <1>2, <1>4
    <2> QED BY <1>5, <1>6, <2>1, <2>2, Zenon
  <1>8. Ioctl!swapped(before, i, j) =
           [k \in Ioctl!Indices |-> IF k = j THEN buf[i] ELSE
                                    IF k = i THEN buf[j] ELSE before[k]]
    <2>1. PICK new : new = [before EXCEPT ![i] = before[j], ![j] = before[i]]
      OBVIOUS
    <2>2. DOMAIN new = Ioctl!Indices /\ new = [k \in Ioctl!Indices |-> new[k]]
      BY <1>6, <2>1
    <2>3. ASSUME NEW k \in Ioctl!Indices
          PROVE  new[k] = IF k = j THEN buf[i] ELSE
                          IF k = i THEN buf[j] ELSE before[k]
      BY <1>5, <1>6, <1>7, <2>1
    <2> QED BY <2>1, <2>2, <2>3 DEF Ioctl!swapped
  <1>9. ASSUME NEW k \in Ioctl!Indices
        PROVE  (IF k = j THEN buf[i] ELSE
                IF k = i THEN buf[j] ELSE before[k])
                 = IF k < len /\ (k < n \/ len - 1 - k < n)
                   THEN buf[len - 1 - k] ELSE buf[k]
    <2>1. k \in Nat /\ k < BufLen
      BY <1>1
    <2>2. CASE k = j
      <3>1. len - 1 - k = i /\ k < len /\ len - 1 - k < n
        BY <1>1, <1>2, <1>4, <2>2
      <3> QED BY <2>2, <3>1
    <2>3. CASE k = i
      <3>1. len - 1 - k = j /\ k < len /\ k < n /\ k # j
        BY <1>1, <1>2, <1>4, <2>3
      <3> QED BY <2>3, <3>1
    <2>4. CASE k # i /\ k # j
      <3>1. k < n - 1 <=> k < n
        BY <1>2, <1>4, <2>1, <2>4
      <3>2. len - 1 - k < n - 1 <=> len - 1 - k < n
        BY <1>1, <1>2, <1>4, <2>1, <2>4
      <3> QED BY <1>6, <2>4, <3>1, <3>2
    <2> QED BY <2>2, <2>3, <2>4
  <1> QED BY <1>3, <1>4, <1>8, <1>9 DEF Turned

(* The rounds are determined by their equation.                            *)
LEMMA RoundsUnique ==
    ASSUME NEW buf, NEW len \in Nat, NEW f, NEW g,
           Rounds(f, buf, len), Rounds(g, buf, len)
    PROVE  f[len \div 2] = g[len \div 2]
  <1> DEFINE T == {n \in 0..(len \div 2) : f[n] # g[n]}
  <1>1. len \div 2 \in Nat
    BY Half
  <1>2. SUFFICES ASSUME T # {} PROVE FALSE
    BY <1>1
  <1>3. T \subseteq Nat
    BY <1>1
  <1>4. PICK n \in T : \A m \in T : n <= m
    BY <1>2, <1>3, LeastNumber
  <1>5. n \in 0..(len \div 2) /\ f[n] # g[n]
    OBVIOUS
  <1>6. /\ f[n] = IF n = 0 THEN buf
                  ELSE Ioctl!swapped(f[n - 1], n - 1, len - n)
        /\ g[n] = IF n = 0 THEN buf
                  ELSE Ioctl!swapped(g[n - 1], n - 1, len - n)
    BY <1>5 DEF Rounds
  <1>7. n # 0 /\ f[n - 1] # g[n - 1]
    BY <1>5, <1>6
  <1>8. n - 1 \in 0..(len \div 2) /\ ~(n <= n - 1)
    BY <1>1, <1>5, <1>7
  <1>9. n - 1 \in T
    BY <1>7, <1>8
  <1> QED BY <1>4, <1>8, <1>9

(* After all rounds of the loop the text is reversed, and what is behind   *)
(* it is as before.                                                        *)
LEMMA ReversedInPlace ==
    ASSUME NEW buf \in CharBuffers, NEW len \in Ioctl!Indices
    PROVE  Ioctl!reversed_in_place(buf, len) =
              [k \in Ioctl!Indices |-> IF k < len THEN buf[len - 1 - k]
                                                  ELSE buf[k]]
  <1>1. /\ len \in Nat /\ len < BufLen /\ BufLen \in Nat
        /\ Ioctl!Indices = 0..(BufLen - 1)
    BY EchoAssumption DEF Ioctl!Indices
  <1> DEFINE half == len \div 2
             g == [n \in 0..half |-> Turned(buf, len, n)]
             f == CHOOSE after : Rounds(after, buf, len)
  <1>2. half \in Nat /\ 2 * half <= len /\ len <= 2 * half + 1
    BY <1>1, Half
  <1>3. Rounds(g, buf, len)
    <2>1. Turned(buf, len, 0) = buf
      <3>1. \A k \in Ioctl!Indices :
               ~(k < len /\ (k < 0 \/ len - 1 - k < 0))
        BY <1>1
      <3>2. buf = [k \in Ioctl!Indices |-> buf[k]]
        BY DEF CharBuffers
      <3> QED BY <3>1, <3>2 DEF Turned
    <2>2. ASSUME NEW n \in 0..half, n # 0
          PROVE  g[n] = Ioctl!swapped(g[n - 1], n - 1, len - n)
      <3>1. n - 1 \in 0..half /\ n \in 1..half
        BY <1>2, <2>2
      <3>2. g[n - 1] = Turned(buf, len, n - 1) /\ g[n] = Turned(buf, len, n)
        BY <3>1
      <3> QED BY <3>1, <3>2, RoundTurns
    <2>3. \A n \in 0..half :
             g[n] = IF n = 0 THEN buf
                    ELSE Ioctl!swapped(g[n - 1], n - 1, len - n)
      BY <2>1, <2>2
    <2> HIDE DEF g
    <2>4. g = [n \in 0..half |-> g[n]]
      BY DEF g
    <2>5. g = [n \in 0..half |->
                IF n = 0 THEN buf
                ELSE Ioctl!swapped(g[n - 1], n - 1, len - n)]
      BY <2>3, <2>4
    <2> QED BY <2>5 DEF Rounds
  <1>4. Rounds(f, buf, len)
    BY <1>3, Zenon
  <1>5. Ioctl!reversed_in_place(buf, len) = f[half]
    BY DEF Ioctl!reversed_in_place, Rounds
  <1>6. f[half] = g[half]
    BY <1>1, <1>3, <1>4, RoundsUnique, Zenon
  <1>7. g[half] = Turned(buf, len, half)
    BY <1>2
  <1>8. ASSUME NEW k \in Ioctl!Indices
        PROVE  (IF k < len /\ (k < half \/ len - 1 - k < half)
                THEN buf[len - 1 - k] ELSE buf[k])
                 = IF k < len THEN buf[len - 1 - k] ELSE buf[k]
    <2>1. CASE k < len /\ ~(k < half \/ len - 1 - k < half)
      <3>1. len - 1 - k = k
        BY <1>1, <1>2, <2>1
      <3> QED BY <2>1, <3>1
    <2> QED BY <2>1
  <1>9. Turned(buf, len, half) =
           [k \in Ioctl!Indices |-> IF k < len THEN buf[len - 1 - k]
                                               ELSE buf[k]]
    BY <1>8 DEF Turned
  <1> HIDE DEF f, g, half
  <1> QED BY <1>5, <1>6, <1>7, <1>9

(* A buffer that ends its text where another one does.                     *)
SameEnd(out, buf) ==
    /\ Ioctl!strlen(out) = Ioctl!strlen(buf)
    /\ Ioctl!Behind(out) = Ioctl!Behind(buf)

(* A text that is mapped to characters that are not NUL, and nothing       *)
(* behind it changed, keeps its length.                                    *)
LEMMA TextKeepsEnd ==
    ASSUME NEW buf \in CharBuffers, NEW z \in Ioctl!Indices, buf[z] = 0,
           NEW out,
           \A k \in Ioctl!Indices :
              /\ k < Ioctl!strlen(buf) => out[k] # 0
              /\ ~(k < Ioctl!strlen(buf)) => out[k] = buf[k]
    PROVE  SameEnd(out, buf)
  <1>1. PICK len : len = Ioctl!strlen(buf)
    OBVIOUS
  <1>2. len \in Ioctl!Indices /\ buf[len] = 0
    BY <1>1, StrlenExists
  <1>3. BufLen \in Nat /\ Ioctl!Indices = 0..(BufLen - 1)
    BY EchoAssumption DEF Ioctl!Indices
  <1>4. out[len] = 0 /\ \A i \in Ioctl!Indices : i < len => out[i] # 0
    <2>1. ~(len < len)
      BY <1>2, <1>3
    <2> QED BY <1>1, <1>2, <2>1
  <1>5. Ioctl!strlen(out) = len
    BY <1>2, <1>4, StrlenIsFirst
  <1>6. \A i \in len..(BufLen - 1) : i \in Ioctl!Indices /\ ~(i < len)
    BY <1>2, <1>3
  <1>7. \A i \in len..(BufLen - 1) : out[i] = buf[i]
    BY <1>1, <1>6
  <1> QED BY <1>1, <1>5, <1>7 DEF SameEnd, Ioctl!Behind

(* The text of a buffer is a sequence as long as strlen() says.            *)
LEMMA TextIsSeq ==
    ASSUME NEW buf \in CharBuffers, NEW z \in Ioctl!Indices, buf[z] = 0
    PROVE  /\ Ioctl!Text(buf) \in Seq(Nat \ {0})
           /\ Len(Ioctl!Text(buf)) = Ioctl!strlen(buf)
           /\ \A i \in 1..Ioctl!strlen(buf) :
                 /\ i - 1 \in Ioctl!Indices
                 /\ Ioctl!Text(buf)[i] = buf[i - 1]
  <1>1. PICK len : len = Ioctl!strlen(buf)
    OBVIOUS
  <1>2. /\ len \in Ioctl!Indices
        /\ \A i \in Ioctl!Indices : i < len => buf[i] # 0
    BY <1>1, StrlenExists
  <1>3. BufLen \in Nat /\ Ioctl!Indices = 0..(BufLen - 1)
    BY EchoAssumption DEF Ioctl!Indices
  <1>4. \A i \in 1..len : i - 1 \in Ioctl!Indices /\ i - 1 < len
    BY <1>2, <1>3
  <1>5. \A i \in 1..len : buf[i - 1] \in Nat \ {0}
    BY <1>2, <1>4 DEF CharBuffers
  <1>6. PICK t : t = [i \in 1..len |-> buf[i - 1]]
    OBVIOUS
  <1>7. len \in Nat
    BY <1>2, <1>3
  <1>8. t \in Seq(Nat \ {0}) /\ Len(t) = len
    BY <1>5, <1>6, <1>7
  <1> QED BY <1>1, <1>4, <1>6, <1>8 DEF Ioctl!Text

(* toupper() makes no NUL.                                                 *)
LEMMA UpperIsCharacter ==
    ASSUME NEW c \in Nat \ {0}
    PROVE  Ioctl!to_upper(c) \in Nat \ {0}
  BY DEF Ioctl!to_upper

(* What each mode does to a buffer that holds a NUL is what a caller       *)
(* expects of it, and the bytes behind the text stay as they are.          *)
LEMMA TransformIsExpected ==
    ASSUME NEW buf \in CharBuffers, NEW z \in Ioctl!Indices, buf[z] = 0,
           NEW mode \in Ioctl!Modes, NEW out,
           out = Ioctl!apply_mode_transform(buf, mode)
    PROVE  /\ out \in CharBuffers
           /\ Ioctl!Text(out) = Ioctl!Expected(mode, Ioctl!Text(buf))
           /\ Ioctl!Behind(out) = Ioctl!Behind(buf)
  <1>1. PICK len : len = Ioctl!strlen(buf)
    OBVIOUS
  <1>2. PICK t : t = Ioctl!Text(buf)
    OBVIOUS
  <1>3. /\ len \in Ioctl!Indices
        /\ \A i \in Ioctl!Indices : i < len => buf[i] # 0
    BY <1>1, StrlenExists
  <1>4. BufLen \in Nat /\ Ioctl!Indices = 0..(BufLen - 1) /\ len \in Nat
    BY <1>3, EchoAssumption DEF Ioctl!Indices
  <1>5. /\ t \in Seq(Nat \ {0}) /\ Len(t) = len /\ DOMAIN t = 1..len
        /\ \A i \in 1..len : i - 1 \in Ioctl!Indices /\ t[i] = buf[i - 1]
        /\ t = [i \in 1..len |-> t[i]]
    BY <1>1, <1>2, TextIsSeq
  <1>6. ASSUME SameEnd(out, buf)
        PROVE  /\ Ioctl!Text(out) = [i \in 1..len |-> out[i - 1]]
               /\ Ioctl!Behind(out) = Ioctl!Behind(buf)
    BY <1>1, <1>6 DEF SameEnd, Ioctl!Text
  <1>7. CASE mode = Ioctl!UPPER
    <2>1. out = [i \in Ioctl!Indices |->
                    IF i < len THEN Ioctl!to_upper(buf[i]) ELSE buf[i]]
      BY <1>1, <1>7
         DEF Ioctl!apply_mode_transform, Ioctl!UPPER, Ioctl!REVERSE
    <2>2. \A k \in Ioctl!Indices : buf[k] \in Nat
      BY DEF CharBuffers
    <2>3. \A k \in Ioctl!Indices :
             /\ k < len => out[k] # 0
             /\ ~(k < len) => out[k] = buf[k]
      BY <1>3, <2>1, <2>2, UpperIsCharacter
    <2>4. SameEnd(out, buf)
      BY <1>1, <2>3, TextKeepsEnd
    <2>5. \A i \in 1..len : i - 1 \in Ioctl!Indices /\ i - 1 < len
      BY <1>4, <1>5
    <2>6. \A i \in 1..len : out[i - 1] = Ioctl!to_upper(t[i])
      BY <1>5, <2>1, <2>5
    <2>7. [i \in 1..len |-> out[i - 1]]
             = [i \in 1..len |-> Ioctl!to_upper(t[i])]
      BY <2>6
    <2>8. Ioctl!Expected(mode, t) = [i \in 1..len |-> Ioctl!to_upper(t[i])]
      BY <1>5, <1>7
         DEF Ioctl!Expected, Ioctl!IDENTITY, Ioctl!UPPER, Ioctl!REVERSE
    <2>9. out \in CharBuffers
      <3>1. \A k \in Ioctl!Indices :
               (IF k < len THEN Ioctl!to_upper(buf[k]) ELSE buf[k]) \in Nat
        BY <1>3, <2>2, UpperIsCharacter
      <3> QED BY <2>1, <3>1 DEF CharBuffers
    <2> QED BY <1>2, <1>6, <2>4, <2>7, <2>8, <2>9
  <1>8. CASE mode = Ioctl!REVERSE
    <2>1. out = [k \in Ioctl!Indices |-> IF k < len THEN buf[len - 1 - k]
                                                    ELSE buf[k]]
      BY <1>1, <1>3, <1>8, ReversedInPlace
         DEF Ioctl!apply_mode_transform, Ioctl!UPPER, Ioctl!REVERSE
    <2>2. ASSUME NEW k \in Ioctl!Indices, k < len
          PROVE  len - 1 - k \in Ioctl!Indices /\ len - 1 - k < len
      BY <1>3, <1>4, <2>2
    <2>3. \A k \in Ioctl!Indices :
             /\ k < len => out[k] # 0
             /\ ~(k < len) => out[k] = buf[k]
      BY <1>3, <2>1, <2>2
    <2>4. SameEnd(out, buf)
      BY <1>1, <2>3, TextKeepsEnd
    <2>5. ASSUME NEW i \in 1..len
          PROVE  out[i - 1] = t[len - i + 1]
      <3>1. i - 1 \in Ioctl!Indices /\ i - 1 < len
        BY <1>4, <1>5
      <3>2. len - i + 1 \in 1..len /\ (len - i + 1) - 1 = len - 1 - (i - 1)
        BY <1>4
      <3>3. out[i - 1] = buf[len - 1 - (i - 1)]
        BY <2>1, <3>1
      <3>4. t[len - i + 1] = buf[(len - i + 1) - 1]
        BY <1>5, <3>2
      <3> QED BY <3>2, <3>3, <3>4
    <2>6. [i \in 1..len |-> out[i - 1]] = [i \in 1..len |-> t[len - i + 1]]
      BY <2>5
    <2>7. Ioctl!Expected(mode, t) = Ioctl!Reverse(t)
      BY <1>8
         DEF Ioctl!Expected, Ioctl!IDENTITY, Ioctl!UPPER, Ioctl!REVERSE
    <2>8. Ioctl!Reverse(t) = [i \in 1..len |-> t[(len - i) + 1]]
      BY <1>5 DEF Ioctl!Reverse
    <2>9. out \in CharBuffers
      BY <2>1, <2>2 DEF CharBuffers
    <2> QED BY <1>2, <1>6, <2>4, <2>6, <2>7, <2>8, <2>9
  <1>9. CASE mode = Ioctl!IDENTITY
    <2>1. out = buf
      BY <1>9 DEF Ioctl!apply_mode_transform, Ioctl!IDENTITY, Ioctl!UPPER,
                  Ioctl!REVERSE
    <2>2. Ioctl!Expected(mode, t) = t
      BY <1>9 DEF Ioctl!Expected, Ioctl!IDENTITY, Ioctl!UPPER, Ioctl!REVERSE
    <2> QED BY <1>2, <2>1, <2>2
  <1> QED BY <1>7, <1>8, <1>9 DEF Ioctl!Modes

IoctlStats ==
    [reads : Nat, echoes : Nat, resets : Nat, mode : Ioctl!Modes]

EchoRecord ==
    [pc : {"idle", "lock", "reply"}, sent : CharBuffers, buf : CharBuffers]

EchoTypes ==
    /\ stats \in IoctlStats
    /\ echo \in [Echoers -> EchoRecord]
    /\ inforce \in [Echoers -> SUBSET Ioctl!Modes]

(* The answer that the process of record me has ready, if these modes were *)
(* in force during its call.                                               *)
Echoed(me, modes) ==
    LET sent == Ioctl!terminated(me.sent)
    IN  /\ \E mode \in modes :
              Ioctl!Text(me.buf) = Ioctl!Expected(mode, Ioctl!Text(sent))
        /\ Ioctl!Behind(me.buf) = Ioctl!Behind(sent)

(* A process in ECHO keeps the module loaded; before it takes state_lock   *)
(* the mode that it will find is one of those on record.                   *)
EchoOK(me, modes) ==
    /\ me.pc # "idle" => ioctl_phase = "live"
    /\ me.pc = "lock" =>
          stats.mode \in modes /\ me.buf = Ioctl!terminated(me.sent)
    /\ me.pc = "reply" => Echoed(me, modes)

EchoInv == EchoTypes /\ \A e \in Echoers : EchoOK(echo[e], inforce[e])

(* A buffer whose last byte is set to NUL holds one.                       *)
LEMMA TerminatedHoldsNul ==
    ASSUME NEW buf \in CharBuffers
    PROVE  /\ Ioctl!terminated(buf) \in CharBuffers
           /\ BufLen - 1 \in Ioctl!Indices
           /\ Ioctl!terminated(buf)[BufLen - 1] = 0
  <1>1. BufLen - 1 \in Ioctl!Indices
    BY EchoAssumption DEF Ioctl!Indices
  <1> QED BY <1>1 DEF CharBuffers, Ioctl!terminated

(* A step that changes neither a call nor the mode keeps the invariant.    *)
LEMMA OthersKeepEcho ==
    ASSUME EchoInv, UNCHANGED <<ioctl_phase, echo, inforce>>,
           stats' \in IoctlStats, stats'.mode = stats.mode
    PROVE  EchoInv'
  <1>1. EchoTypes'
    BY DEF EchoInv, EchoTypes
  <1>2. \A e \in Echoers : EchoOK(echo[e], inforce[e])'
    BY DEF EchoInv, EchoOK
  <1> QED BY <1>1, <1>2 DEF EchoInv

(* Nor does loading or unloading, which find nobody in a call.             *)
LEMMA LoadingKeepsEcho ==
    ASSUME EchoInv, UNCHANGED <<echo, inforce>>, stats' \in IoctlStats,
           \A e \in Echoers : echo[e].pc = "idle"
    PROVE  EchoInv'
  BY DEF EchoInv, EchoTypes, EchoOK

(* A new mode is put on record for all who are in a call.                  *)
LEMMA NewModeKeepsEcho ==
    ASSUME EchoInv, NEW mode \in Ioctl!Modes, Ioctl!NewMode(mode),
           stats' \in IoctlStats, stats'.mode = mode,
           UNCHANGED <<ioctl_phase, echo>>
    PROVE  EchoInv'
  <1>1. \A e \in Echoers :
           inforce'[e] = IF echo[e].pc = "idle" THEN {}
                         ELSE inforce[e] \cup {mode}
    BY DEF Ioctl!NewMode
  <1>2. EchoTypes'
    BY DEF EchoInv, EchoTypes, Ioctl!NewMode
  <1>3. ASSUME NEW e \in Echoers PROVE EchoOK(echo[e], inforce[e])'
    <2>1. EchoOK(echo[e], inforce[e]) /\ echo'[e] = echo[e]
      BY DEF EchoInv
    <2>2. CASE echo[e].pc = "idle"
      BY <2>1, <2>2 DEF EchoOK
    <2>3. CASE echo[e].pc # "idle"
      <3>1. inforce'[e] = inforce[e] \cup {mode}
        BY <1>1, <2>3
      <3>2. Echoed(echo[e], inforce[e]) => Echoed(echo[e], inforce'[e])
        BY <3>1 DEF Echoed
      <3> QED BY <2>1, <3>1, <3>2 DEF EchoOK
    <2> QED BY <2>2, <2>3
  <1> QED BY <1>2, <1>3 DEF EchoInv

(* A step of one process in its call: the others do not see it.            *)
LEMMA EchoerKeepsEcho ==
    ASSUME EchoInv, NEW e \in Echoers, NEW me \in EchoRecord,
           NEW modes \in SUBSET Ioctl!Modes,
           echo' = [echo EXCEPT ![e] = me],
           inforce' = [inforce EXCEPT ![e] = modes],
           stats' \in IoctlStats, stats'.mode = stats.mode,
           UNCHANGED ioctl_phase, EchoOK(me, modes)
    PROVE  EchoInv'
  <1>1. /\ echo \in [Echoers -> EchoRecord]
        /\ inforce \in [Echoers -> SUBSET Ioctl!Modes]
        /\ \A f \in Echoers : EchoOK(echo[f], inforce[f])
    BY DEF EchoInv, EchoTypes
  <1>2. EchoTypes'
    BY <1>1 DEF EchoTypes
  <1>3. \A f \in Echoers :
           /\ echo'[f] = IF f = e THEN me ELSE echo[f]
           /\ inforce'[f] = IF f = e THEN modes ELSE inforce[f]
    BY <1>1
  <1>4. \A x, m : EchoOK(x, m) =>
           /\ x.pc # "idle" => ioctl_phase' = "live"
           /\ x.pc = "lock" =>
                 stats'.mode \in m /\ x.buf = Ioctl!terminated(x.sent)
           /\ x.pc = "reply" => Echoed(x, m)
    BY DEF EchoOK
  <1>5. \A f \in Echoers : EchoOK(echo'[f], inforce'[f])
    BY <1>1, <1>3
  <1>6. ASSUME NEW f \in Echoers PROVE EchoOK(echo[f], inforce[f])'
    BY <1>4, <1>5 DEF EchoOK
  <1> QED BY <1>2, <1>6 DEF EchoInv

(* IOCTL_BASICS_ECHO from its beginning to its reply.                      *)
LEMMA EchoStep ==
    ASSUME EchoInv, NEW e \in Echoers, Ioctl!ioctl_echo(e)
    PROVE  EchoInv'
  <1>1. PICK me : me = echo[e]
    OBVIOUS
  <1>2. PICK modes : modes = inforce[e]
    OBVIOUS
  <1>3. /\ me \in EchoRecord /\ modes \in SUBSET Ioctl!Modes
        /\ stats \in IoctlStats /\ EchoOK(me, modes)
        /\ inforce = [inforce EXCEPT ![e] = modes]
        /\ echo \in [Echoers -> EchoRecord]
    BY <1>1, <1>2 DEF EchoInv, EchoTypes
  <1>4. UNCHANGED <<ioctl_phase, ioctl_acquired, ioctl_undo>>
    BY DEF Ioctl!ioctl_echo, Ioctl!echo_begin, Ioctl!echo_locked,
           Ioctl!echo_reply, Ioctl!setupVars
  <1>5. CASE Ioctl!echo_begin(e)
    <2>1. PICK buf \in Ioctl!Buffers :
             echo' = [echo EXCEPT ![e] =
                         [pc |-> "lock", sent |-> buf,
                          buf |-> Ioctl!terminated(buf)]]
      BY <1>5 DEF Ioctl!echo_begin
    <2>2. PICK new : new = [pc |-> "lock", sent |-> buf,
                            buf |-> Ioctl!terminated(buf)]
      OBVIOUS
    <2>3. /\ ioctl_phase = "live" /\ UNCHANGED stats
          /\ inforce' = [inforce EXCEPT ![e] = {stats.mode}]
      BY <1>5 DEF Ioctl!echo_begin
    <2>4. buf \in CharBuffers
      BY EchoAssumption DEF CharBuffers, Ioctl!Buffers
    <2>5. new \in EchoRecord
      BY <2>2, <2>4, TerminatedHoldsNul DEF EchoRecord
    <2>6. {stats.mode} \in SUBSET Ioctl!Modes
      BY <1>3 DEF IoctlStats
    <2>7. EchoOK(new, {stats.mode})
      BY <2>2, <2>3 DEF EchoOK
    <2> QED BY <1>3, <1>4, <2>1, <2>2, <2>3, <2>5, <2>6, <2>7, EchoerKeepsEcho
  <1>6. CASE Ioctl!echo_locked(e)
    <2>1. PICK out : out = Ioctl!apply_mode_transform(me.buf, stats.mode)
      OBVIOUS
    <2>2. PICK new : new = [me EXCEPT !.pc = "reply", !.buf = out]
      OBVIOUS
    <2>3. /\ me.pc = "lock" /\ inforce' = inforce
          /\ echo' = [echo EXCEPT ![e] = new]
          /\ stats' = [stats EXCEPT !.echoes = Ioctl!counted(@)]
      BY <1>1, <1>3, <1>6, <2>1, <2>2 DEF Ioctl!echo_locked
    <2>4. stats' \in IoctlStats /\ stats'.mode = stats.mode
      BY <1>3, <2>3 DEF IoctlStats, Ioctl!counted
    <2>5. /\ me.sent \in CharBuffers
          /\ me.buf = Ioctl!terminated(me.sent)
          /\ stats.mode \in modes /\ ioctl_phase = "live"
          /\ stats.mode \in Ioctl!Modes
      BY <1>3, <2>3 DEF EchoOK, EchoRecord, IoctlStats
    <2>6. me.buf \in CharBuffers
      BY <2>5, TerminatedHoldsNul
    <2>7. /\ out \in CharBuffers
          /\ Ioctl!Text(out) = Ioctl!Expected(stats.mode, Ioctl!Text(me.buf))
          /\ Ioctl!Behind(out) = Ioctl!Behind(me.buf)
      BY <2>1, <2>5, <2>6, TerminatedHoldsNul, TransformIsExpected
    <2>8. /\ new \in EchoRecord /\ new.pc = "reply"
          /\ new.sent = me.sent /\ new.buf = out
      BY <1>3, <2>2, <2>7 DEF EchoRecord
    <2>9. EchoOK(new, modes)
      BY <2>5, <2>7, <2>8 DEF EchoOK, Echoed
    <2>10. inforce' = [inforce EXCEPT ![e] = modes]
      BY <1>3, <2>3
    <2> QED BY <1>3, <1>4, <2>3, <2>4, <2>8, <2>9, <2>10, EchoerKeepsEcho
  <1>7. CASE Ioctl!echo_reply(e)
    <2>1. Ioctl!Idle \in EchoRecord /\ Ioctl!Idle.pc = "idle"
      BY DEF Ioctl!Idle, Ioctl!Empty, EchoRecord, CharBuffers
    <2>2. EchoOK(Ioctl!Idle, {})
      BY <2>1 DEF EchoOK
    <2>3. /\ echo' = [echo EXCEPT ![e] = Ioctl!Idle]
          /\ inforce' = [inforce EXCEPT ![e] = {}]
          /\ UNCHANGED stats
      BY <1>7 DEF Ioctl!echo_reply
    <2> QED BY <1>3, <1>4, <2>1, <2>2, <2>3, EchoerKeepsEcho
  <1> QED BY <1>5, <1>6, <1>7 DEF Ioctl!ioctl_echo

(* The inductive invariant of ECHO.                                        *)
LEMMA EchoInductive == FairSpec => []EchoInv
  <1>1. Ioctl!NewStats \in IoctlStats
    BY DEF Ioctl!NewStats, IoctlStats, Ioctl!Modes, Ioctl!IDENTITY
  <1>2. ASSUME Init PROVE EchoInv
    <2>1. /\ stats = Ioctl!NewStats
          /\ echo = [e \in Echoers |-> Ioctl!Idle]
          /\ inforce = [e \in Echoers |-> {}]
      BY <1>2 DEF Init, Ioctl!Init
    <2>2. Ioctl!Idle \in EchoRecord /\ Ioctl!Idle.pc = "idle"
      BY DEF Ioctl!Idle, Ioctl!Empty, EchoRecord, CharBuffers
    <2> QED BY <1>1, <2>1, <2>2 DEF EchoInv, EchoTypes, EchoOK
  <1>3. ASSUME EchoInv, [Next]_vars PROVE EchoInv'
    <2>1. stats \in IoctlStats
      BY <1>3 DEF EchoInv, EchoTypes
    <2>2. ASSUME ioctl_phase # "live"
          PROVE  \A e \in Echoers : echo[e].pc = "idle"
      BY <1>3, <2>2 DEF EchoInv, EchoOK
    <2>3. CASE Ioctl!ioctl_reset
      <3>1. PICK new : new = [Ioctl!NewStats EXCEPT
                                 !.resets = Ioctl!counted(stats.resets)]
        OBVIOUS
      <3>2. new \in IoctlStats /\ new.mode = Ioctl!IDENTITY
        BY <1>1, <2>1, <3>1 DEF IoctlStats, Ioctl!counted, Ioctl!NewStats
      <3>3. Ioctl!IDENTITY \in Ioctl!Modes
        BY DEF Ioctl!Modes
      <3> QED BY <1>3, <2>3, <3>1, <3>2, <3>3, NewModeKeepsEcho
              DEF Ioctl!ioctl_reset, Ioctl!setupVars
    <2>4. CASE Ioctl!ioctl_get_stats
      <3>1. stats' = [stats EXCEPT !.reads = Ioctl!counted(@)]
        BY <2>4 DEF Ioctl!ioctl_get_stats
      <3>2. stats' \in IoctlStats /\ stats'.mode = stats.mode
        BY <2>1, <3>1 DEF IoctlStats, Ioctl!counted
      <3> QED BY <1>3, <2>4, <3>2, OthersKeepEcho
              DEF Ioctl!ioctl_get_stats, Ioctl!setupVars
    <2>5. CASE Ioctl!ioctl_set_mode
      <3>1. PICK mode \in Ioctl!Modes \cup {Ioctl!REVERSE + 1} :
               /\ Ioctl!mode_known(mode)
               /\ stats' = [stats EXCEPT !.mode = mode]
               /\ Ioctl!NewMode(mode)
        BY <2>5 DEF Ioctl!ioctl_set_mode
      <3>2. mode \in Ioctl!Modes
        BY <3>1 DEF Ioctl!mode_known, Ioctl!Modes, Ioctl!REVERSE
      <3>3. stats' \in IoctlStats /\ stats'.mode = mode
        BY <2>1, <3>1, <3>2 DEF IoctlStats
      <3> QED BY <1>3, <2>5, <3>1, <3>2, <3>3, NewModeKeepsEcho
              DEF Ioctl!ioctl_set_mode, Ioctl!setupVars
    <2>6. CASE Ioctl!module_loads
      <3>1. ioctl_phase # "live"
        BY <2>6 DEF Ioctl!module_loads, Ioctl!Setup!init_begin
      <3> QED BY <1>1, <1>3, <2>2, <2>6, <3>1, LoadingKeepsEcho
              DEF Ioctl!module_loads
    <2>7. CASE Ioctl!module_steps
      <3>1. ioctl_phase # "live" \/ \A e \in Echoers : echo[e].pc = "idle"
        BY <2>7 DEF Ioctl!module_steps, Ioctl!Setup!init_continues,
           Ioctl!Setup!undo_continues, Ioctl!Setup!init_acquire,
           Ioctl!Setup!init_goto, Ioctl!Setup!undo_next,
           Ioctl!Setup!undo_done
      <3> QED BY <1>3, <2>1, <2>2, <2>7, <3>1, LoadingKeepsEcho
              DEF Ioctl!module_steps
    <2>8. CASE UNCHANGED ioctlVars
      BY <1>3, <2>1, <2>8, OthersKeepEcho DEF ioctlVars
    <2>9. CASE Ioctl!Next
      BY <1>3, <2>3, <2>4, <2>5, <2>6, <2>7, <2>9, EchoStep DEF Ioctl!Next
    <2> QED BY <1>3, <2>8, <2>9 DEF Next, vars
  <1> QED BY <1>2, <1>3, PTL DEF FairSpec

(* Lab 10, for every size of the buffer and any number of processes: ECHO  *)
(* answers with what it was sent, mapped up to the NUL as the caller       *)
(* expects of one mode that was in force during the call, and with the     *)
(* bytes behind the NUL as they were.                                      *)
THEOREM EchoAppliesOneMode == FairSpec => []EchoIsTransform
  <1>1. EchoInv => EchoIsTransform
    BY DEF EchoInv, EchoOK, Echoed, EchoIsTransform, Ioctl!EchoIsTransform,
           Ioctl!terminated
  <1> QED BY <1>1, EchoInductive, PTL
=============================================================================
