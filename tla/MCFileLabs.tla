----------------------------- MODULE MCFileLabs -----------------------------
(***************************************************************************)
(* The six labs about files: 04 (ModuleParams), 05 (RegisterCdev), 06      *)
(* (ProcfsSeq), 08 (OpenRelease), 09 (RwCdev) and 10 (IoctlBasics).  They  *)
(* are separate kernel modules that share nothing, so a behaviour is one   *)
(* of one of them: "lab" says which, and the others stay unloaded.         *)
(***************************************************************************)
EXTENDS Naturals, FiniteSets

CONSTANTS
    Files, FREE, NULL, MaxOpens,
    MAX_REPEAT, MAX_OUTPUT, GreetingLine, Diagnostics, RepeatCounts, Readers,
    Cats, ShortCat,
    MAX_EVENTS,
    Contexts, MaxRefs,
    RwFiles, Threads, BUF_SIZE, Bytes, MayFault,
    BufLen, Chars, Echoers, MaxCount

ASSUME FileLabsAssumption ==
    /\ IsFiniteSet(Files) /\ FREE \notin Files \cup Threads
    /\ RwFiles # {} /\ Files # {}
    /\ NULL \notin Contexts
    /\ MAX_OUTPUT \in Nat \ {0}
    /\ {MAX_REPEAT, GreetingLine, Diagnostics, MAX_EVENTS, BUF_SIZE}
          \subseteq Nat
    /\ RepeatCounts \subseteq Nat

(* The buffer of ECHO has a byte for the NUL.                              *)
ASSUME EchoAssumption == BufLen \in Nat \ {0} /\ Chars \subseteq Nat

VARIABLES
    lab,
    params_loaded, repeat_count, verbose, reader,
    register_loaded, open_count, register_file, cat, got, alone,
    procfs_loaded, events, event_count, total_opens, events_lock,
    procfs_file, listing, cleared, whole,
    open_loaded, open_file, id, active_opens, next_open_id,
    rw_phase, rw_acquired, rw_undo, buffer, data_len, buf_lock, rw_file,
    thread, addressed, account,
    ioctl_phase, ioctl_acquired, ioctl_undo, stats, echo, inforce

paramsVars == <<params_loaded, repeat_count, verbose, reader>>
registerVars == <<register_loaded, open_count, register_file, cat, got, alone>>
procfsVars ==
    <<procfs_loaded, events, event_count, total_opens, events_lock,
      procfs_file, listing, cleared, whole>>
openVars == <<open_loaded, open_file, id, active_opens, next_open_id>>
rwVars ==
    <<rw_phase, rw_acquired, rw_undo, buffer, data_len, buf_lock, rw_file,
      thread, addressed, account>>
ioctlVars ==
    <<ioctl_phase, ioctl_acquired, ioctl_undo, stats, echo, inforce>>
vars ==
    <<lab, paramsVars, registerVars, procfsVars, openVars, rwVars, ioctlVars>>

Params == INSTANCE ModuleParams WITH loaded <- params_loaded

(* One process has a shorter name than the other.                          *)
MCMessageLength == [p \in Cats |-> IF p = ShortCat THEN 2 ELSE 3]

Register == INSTANCE RegisterCdev WITH
    loaded <- register_loaded, file <- register_file,
    message_length <- MCMessageLength

Procfs == INSTANCE ProcfsSeq WITH loaded <- procfs_loaded, file <- procfs_file

Open == INSTANCE OpenRelease WITH loaded <- open_loaded, file <- open_file

Rw == INSTANCE RwCdev WITH
    phase <- rw_phase, acquired <- rw_acquired, undo <- rw_undo,
    file <- rw_file, Files <- RwFiles

Ioctl == INSTANCE IoctlBasics WITH
    phase <- ioctl_phase, acquired <- ioctl_acquired, undo <- ioctl_undo

Init ==
    /\ lab \in {"params", "register", "procfs", "open", "rw", "ioctl"}
    /\ Params!Init
    /\ Register!Init
    /\ Procfs!Init
    /\ Open!Init
    /\ Rw!Init
    /\ Ioctl!Init

Next ==
    \/ /\ lab = "params" /\ Params!Next
       /\ UNCHANGED <<lab, registerVars, procfsVars, openVars, rwVars, ioctlVars>>
    \/ /\ lab = "register" /\ Register!Next
       /\ UNCHANGED <<lab, paramsVars, procfsVars, openVars, rwVars, ioctlVars>>
    \/ /\ lab = "procfs" /\ Procfs!Next
       /\ UNCHANGED <<lab, paramsVars, registerVars, openVars, rwVars, ioctlVars>>
    \/ /\ lab = "open" /\ Open!Next
       /\ UNCHANGED <<lab, paramsVars, registerVars, procfsVars, rwVars, ioctlVars>>
    \/ /\ lab = "rw" /\ Rw!Next
       /\ UNCHANGED <<lab, paramsVars, registerVars, procfsVars, openVars, ioctlVars>>
    \/ /\ lab = "ioctl" /\ Ioctl!Next
       /\ UNCHANGED <<lab, paramsVars, registerVars, procfsVars, openVars, rwVars>>

FairSpec ==
    /\ Init /\ [][Next]_vars
    /\ Params!Fairness
    /\ Register!Fairness

-----------------------------------------------------------------------------
(* Labs 04 and 09: no handler leaves its buffer.  What                     *)
(* module_params_read() renders fits into kbuf, whatever is written to the *)
(* parameters meanwhile; rw_read() stays in the data, rw_write() in the    *)
(* buffer, and no copy overlaps another.                                   *)
BuffersRespected ==
    /\ Params!OutputFits
    /\ Rw!CopiesInBounds
    /\ Rw!CopiesExclusive

(* Labs 05 and 09: a file's position moves by the bytes that read() and    *)
(* write() return, as long as calls on the file do not overlap; who has    *)
(* the file to itself gets the message of register_cdev_read() once and    *)
(* whole.                                                                  *)
PositionsAccount ==
    /\ Register!CatGetsMessage
    /\ Rw!PositionAccounts

(* Lab 04: a reader reaches the end of an output whose length changes.     *)
ReadEnds == Params!ReadEnds

(* Lab 05: cat ends on a shared file too, unless others keep coming.       *)
CatEnds == Register!CatEnds

(* Labs 05 and 08: open and release keep exact accounts.  Every context of *)
(* lab 08 belongs to one open file, has an id of its own and is freed with *)
(* the last descriptor; open_count and active_opens are the numbers of     *)
(* open files, however opens and releases overlap.                         *)
OpensAccounted ==
    /\ Open!ContextsOwned
    /\ Open!IdsUnique
    /\ Open!ActiveOpensExact
    /\ Register!OpenCountExact

(* Lab 06: record_event() keeps the first MAX_EVENTS opens since a clear,  *)
(* and a listing of them in several reads repeats nothing, and without a   *)
(* clear in between skips nothing.                                         *)
ListingInOrder ==
    /\ Procfs!LogHoldsFirst
    /\ Procfs!ListingInOrder

(* Lab 06: events_seq_show() shows no event that was cleared before.       *)
NothingClearedShown == Procfs!NothingClearedShown

(* Lab 09: what no rw_write() was about reads as zeros.                    *)
HolesReadZero == Rw!HolesReadZero

(* Labs 09 and 10: init, wherever it fails, and exit give back what they   *)
(* have taken, in order.                                                   *)
SetupUndone ==
    /\ Rw!RwUndone
    /\ Ioctl!IoctlUndone

(* Lab 10: IOCTL_BASICS_ECHO applies one mode that was in force.           *)
EchoIsTransform == Ioctl!EchoIsTransform
=============================================================================
