----------------------------- MODULE ProcfsSeq ------------------------------
(***************************************************************************)
(* Lab 06, src/06_procfs_seqfile/procfs_seqfile.c: a log of the opens of   *)
(* /proc/procfs_demo/events, which is listed by reading it and emptied by  *)
(* writing "clear" to it.                                                  *)
(*                                                                         *)
(* An event is the number of its open, total_opens.  A read() shows as     *)
(* many events as fit, under events_lock from start to stop; the next one  *)
(* goes on at the index where it left off, whatever happened in between.   *)
(***************************************************************************)
EXTENDS Naturals, Sequences

CONSTANTS
    MAX_EVENTS,
    Files,          \* open files of "events"
    FREE,           \* nobody holds events_lock
    MaxOpens        \* bound: opens per load

VARIABLES
    loaded,
    events, event_count, total_opens, events_lock,
    file,           \* per file: its place in read() and its position
    listing,        \* per file: the events it was shown, from the first on
    cleared,        \* ghost: total_opens at the last clear
    whole           \* ghost: files with no clear since their first event

logVars == <<events, event_count, total_opens, cleared>>
fileVars == <<file, listing, whole>>
vars == <<loaded, logVars, events_lock, fileVars>>

Closed == [pc |-> "closed", pos |-> 0]

EmptyLog == [i \in 0..(MAX_EVENTS - 1) |-> 0]

Init ==
    /\ loaded = FALSE
    /\ events = EmptyLog
    /\ event_count = 0
    /\ total_opens = 0
    /\ events_lock = FREE
    /\ file = [f \in Files |-> Closed]
    /\ listing = [f \in Files |-> <<>>]
    /\ cleared = 0
    /\ whole = {}

FileGoto(f, from, to) ==
    /\ file[f].pc = from
    /\ file' = [file EXCEPT ![f].pc = to]

-----------------------------------------------------------------------------
(* mutant: the mutex is not taken                                          *)
lock_ignored == TRUE

lock_free == events_lock = FREE

has_room == event_count < MAX_EVENTS

record_event ==
    /\ lock_free
    /\ total_opens < MaxOpens
    /\ total_opens' = total_opens + 1
    /\ IF has_room
       THEN /\ events' = [events EXCEPT ![event_count] = total_opens']
            /\ event_count' = event_count + 1
       ELSE UNCHANGED <<events, event_count>>
    /\ UNCHANGED <<events_lock, cleared>>

(* the open is on record even if seq_open() then fails                     *)
events_open(f) ==
    /\ loaded
    /\ record_event
    /\ \/ FileGoto(f, "closed", "open") /\ whole' = whole \cup {f}
       \/ file[f].pc = "closed" /\ UNCHANGED <<file, whole>>
    /\ UNCHANGED <<loaded, listing>>

(* seq_release(), or seq_lseek() to the start                              *)
events_rewind(f) ==
    /\ file[f].pc = "open"
    /\ \E pc \in {"open", "closed"} :
          file' = [file EXCEPT ![f] = [pc |-> pc, pos |-> 0]]
    /\ listing' = [listing EXCEPT ![f] = <<>>]
    /\ whole' = whole \cup {f}
    /\ UNCHANGED <<loaded, logVars, events_lock>>

(* "clear"; anything else is refused and changes nothing                   *)
events_write(f) ==
    /\ file[f].pc = "open"
    /\ lock_free
    /\ event_count' = 0
    /\ cleared' = total_opens
    /\ whole' = {g \in whole : listing[g] = <<>>}
    /\ UNCHANGED <<loaded, events, total_opens, events_lock, file, listing>>

-----------------------------------------------------------------------------
(* seq_read(): start, show and next as long as there is room, stop         *)

(* mutant: the element behind the last one is shown too                    *)
element_at_or_behind(pos) == pos <= event_count /\ pos < MAX_EVENTS

(* start() and next() return the element at pos, not NULL                  *)
element_at(pos) == pos < event_count

place(pos) == IF element_at(pos) THEN "element" ELSE "none"

Reading(f) == file[f].pc \in {"element", "none"}

events_seq_start(f) ==
    /\ FileGoto(f, "open", place(file[f].pos))
    /\ lock_free
    /\ events_lock' = f
    /\ UNCHANGED <<loaded, logVars, listing, whole>>

(* of the element that start() or next() has returned; then next()         *)
events_seq_show(f) ==
    LET pos == file[f].pos
    IN  /\ file[f].pc = "element"
        /\ listing' = [listing EXCEPT ![f] = Append(@, events[pos])]
        /\ file' = [file EXCEPT ![f] = [pc |-> place(pos + 1), pos |-> pos + 1]]
        /\ UNCHANGED <<loaded, logVars, events_lock, whole>>

(* at the end, or when the element does not fit into the user's buffer     *)
events_seq_stop(f) ==
    /\ Reading(f)
    /\ file' = [file EXCEPT ![f].pc = "open"]
    /\ events_lock' = FREE
    /\ UNCHANGED <<loaded, logVars, listing, whole>>

events_read(f) ==
    events_seq_start(f) \/ events_seq_show(f) \/ events_seq_stop(f)

-----------------------------------------------------------------------------
(* a failed proc_create() is undone: nothing has changed                   *)
procfs_seqfile_init ==
    /\ ~loaded
    /\ loaded' = TRUE
    /\ events' = EmptyLog
    /\ event_count' = 0
    /\ total_opens' = 0
    /\ cleared' = 0
    /\ UNCHANGED <<events_lock, fileVars>>

(* proc_remove() waits for reads and writes, then releases open files      *)
procfs_seqfile_exit ==
    /\ loaded
    /\ \A f \in Files : ~Reading(f)
    /\ loaded' = FALSE
    /\ file' = [f \in Files |-> Closed]
    /\ listing' = [f \in Files |-> <<>>]
    /\ whole' = {}
    /\ UNCHANGED <<logVars, events_lock>>

-----------------------------------------------------------------------------
Next ==
    \/ \E f \in Files :
          \/ events_open(f) \/ events_rewind(f)
          \/ events_write(f) \/ events_read(f)
    \/ procfs_seqfile_init
    \/ procfs_seqfile_exit

Spec == Init /\ [][Next]_vars

-----------------------------------------------------------------------------
(* The log holds the first MAX_EVENTS opens since it was cleared: "further *)
(* opens still increment total_opens but stop being individually recorded" *)
(* (procfs_seqfile.c:30).                                                  *)
LogHoldsFirst ==
    /\ event_count = (IF total_opens - cleared < MAX_EVENTS
                      THEN total_opens - cleared ELSE MAX_EVENTS)
    /\ \A i \in 0..(event_count - 1) : events[i] = cleared + i + 1

(* A listing in several reads never repeats an event and never goes back,  *)
(* even if the log is cleared and grows again between them; without a      *)
(* clear it skips nothing.                                                 *)
ListingInOrder ==
    \A f \in Files :
        /\ \A i \in 1..(Len(listing[f]) - 1) : listing[f][i] < listing[f][i + 1]
        /\ f \in whole =>
              \A i \in 1..Len(listing[f]) : listing[f][i] = cleared + i

(* No read shows an event that was cleared before: the slots behind        *)
(* event_count still hold such events.                                     *)
NothingClearedShown ==
    [][\A f \in Files :
          Len(listing'[f]) > Len(listing[f]) =>
              listing'[f][Len(listing'[f])] > cleared]_vars
=============================================================================
