-------------------------------- MODULE Disk --------------------------------
(***************************************************************************)
(* devices/disk.c: threads read and write sectors of the disks on one ATA  *)
(* channel, by programmed I/O with a completion interrupt.                 *)
(*                                                                         *)
(* The channel's lock is taken for what module Synch shows it to be; the   *)
(* semaphore completion_wait is its value.  Interrupts are on: the disk    *)
(* and its interrupt handler may act between any two steps of a thread.    *)
(* Time is left out: a wait ends when what it waits for happens or, with   *)
(* a quirk of the disk, gives up.                                          *)
(***************************************************************************)
EXTENDS Integers

CONSTANTS Thread, NULL, Data,
          Place,          \* a disk of the channel and a sector of it
          Quirks,         \* what may be wrong: "fail", "spurious"
          MaxUps          \* bound: spurious interrupts stop at this value

\* What the constants have to be.
DiskAssumption ==
  NULL \notin Thread \cup Data /\ Quirks \subseteq {"fail", "spurious"}

VARIABLES holder,               \* of c->lock
          expecting_interrupt,
          completion_wait,
          pc,
          call,                 \* arguments of disk_read() (no data) or disk_write()
          buffer,               \* what disk_read() has fetched
          halted,               \* PANIC
          disk,                 \* the sectors' contents
          phase,                \* "idle", "busy" (BSY), or "data" (DRQ)
          command, place,       \* the command and sector registers
          transfer,             \* the sector being transferred
          intrq,                \* an interrupt is pending
          quirks                \* the disk may "fail", its controller be "spurious"

channel == <<holder, expecting_interrupt, completion_wait>>
thread == <<pc, call, buffer>>
controller == <<phase, command, place, transfer>>
vars == <<channel, thread, halted, disk, controller, intrq, quirks>>

Call == [place : Place, data : Data \cup {NULL}]
NoCall == [place |-> CHOOSE p \in Place : TRUE, data |-> NULL]
Reads(t) == call[t].data = NULL

Init ==
  /\ holder = NULL
  /\ expecting_interrupt = FALSE
  /\ completion_wait = 0
  /\ pc = [t \in Thread |-> "idle"]
  /\ call = [t \in Thread |-> NoCall]
  /\ buffer = [t \in Thread |-> NULL]
  /\ halted = FALSE
  /\ disk \in [Place -> Data]
  /\ phase = "idle" /\ command = "none" /\ place = NoCall.place
  /\ transfer = NULL
  /\ intrq = FALSE
  /\ quirks \in SUBSET Quirks

-----------------------------------------------------------------------------
(* The threads. *)

At(t, p) == pc[t] = p /\ ~ halted
Goto(t, p) == pc' = [pc EXCEPT ![t] = p]

\* A thread calls disk_read() or disk_write().
Enter(t, c) ==
  /\ At(t, "idle")
  /\ call' = [call EXCEPT ![t] = c]
  /\ Goto(t, "lock")
  /\ UNCHANGED <<channel, buffer, halted, disk, controller, intrq>>

\* Mutant: the channel is not locked.
AcquireNoLock(t) ==
  /\ At(t, "lock")
  /\ holder' = t
  /\ Goto(t, "select")
  /\ UNCHANGED <<expecting_interrupt, completion_wait, call, buffer, halted, disk, controller, intrq>>

Acquire(t) ==
  /\ At(t, "lock") /\ holder = NULL
  /\ holder' = t
  /\ Goto(t, "select")
  /\ UNCHANGED <<expecting_interrupt, completion_wait, call, buffer, halted, disk, controller, intrq>>

\* select_sector(): wait_until_idle(), which acknowledges a pending interrupt,
\* and the registers.
SelectSector(t) ==
  /\ At(t, "select") /\ phase = "idle"
  /\ place' = call[t].place
  /\ intrq' = FALSE
  /\ Goto(t, "issue")
  /\ UNCHANGED <<channel, call, buffer, halted, disk, phase, command, transfer>>

\* Mutant: the command is written before the interrupt is expected.
IssueUnexpected(t) ==
  /\ At(t, "issue")
  /\ command' = IF Reads(t) THEN "read" ELSE "write"
  /\ phase' = "busy"
  /\ Goto(t, IF Reads(t) THEN "down" ELSE "poll")
  /\ UNCHANGED <<channel, call, buffer, halted, disk, place, transfer, intrq>>

\* issue_pio_command().
IssuePioCommand(t) ==
  /\ At(t, "issue")
  /\ expecting_interrupt' = TRUE
  /\ command' = IF Reads(t) THEN "read" ELSE "write"
  /\ phase' = "busy"
  /\ Goto(t, IF Reads(t) THEN "down" ELSE "poll")
  /\ UNCHANGED <<holder, completion_wait, call, buffer, halted, disk, place, transfer, intrq>>

\* sema_down() on completion_wait.
CompletionDown(t) ==
  /\ At(t, "down") /\ completion_wait > 0
  /\ completion_wait' = completion_wait - 1
  /\ Goto(t, IF Reads(t) THEN "poll" ELSE "release")
  /\ UNCHANGED <<holder, expecting_interrupt, call, buffer, halted, disk, controller, intrq>>

\* Mutant: disk_read() trusts the interrupt and does not wait for BSY to clear.
InputSectorUnpolled(t) ==
  /\ At(t, "poll") /\ Reads(t)
  /\ buffer' = [buffer EXCEPT ![t] = transfer]
  /\ phase' = "idle"
  /\ Goto(t, "release")
  /\ UNCHANGED <<channel, call, halted, disk, command, place, transfer, intrq>>

\* disk_read(): wait_while_busy() finds DRQ set; input_sector().
InputSector(t) ==
  /\ At(t, "poll") /\ Reads(t) /\ phase = "data"
  /\ buffer' = [buffer EXCEPT ![t] = transfer]
  /\ phase' = "idle"
  /\ Goto(t, "release")
  /\ UNCHANGED <<channel, call, halted, disk, command, place, transfer, intrq>>

\* disk_write(): likewise; output_sector().
OutputSector(t) ==
  /\ At(t, "poll") /\ ~ Reads(t) /\ phase = "data"
  /\ transfer' = call[t].data
  /\ command' = "store"
  /\ phase' = "busy"
  /\ Goto(t, "down")
  /\ UNCHANGED <<channel, call, buffer, halted, disk, place, intrq>>

\* wait_while_busy() finds DRQ clear or gives up: PANIC.
Panic(t) ==
  /\ At(t, "poll")
  /\ phase = "idle" \/ ("fail" \in quirks /\ phase = "busy")
  /\ halted' = TRUE
  /\ UNCHANGED <<channel, thread, disk, controller, intrq>>

\* lock_release(), and the call returns.
Release(t) ==
  /\ At(t, "release")
  /\ holder' = NULL
  /\ call' = [call EXCEPT ![t] = NoCall]
  /\ buffer' = [buffer EXCEPT ![t] = NULL]
  /\ Goto(t, "idle")
  /\ UNCHANGED <<expecting_interrupt, completion_wait, halted, disk, controller, intrq>>

Step(t) ==
  \/ Acquire(t) \/ SelectSector(t) \/ IssuePioCommand(t) \/ CompletionDown(t)
  \/ InputSector(t) \/ OutputSector(t) \/ Release(t)

-----------------------------------------------------------------------------
(* The interrupt handler and the disk. *)

InterruptHandler ==
  /\ intrq /\ ~ halted
  /\ intrq' = FALSE
  /\ completion_wait' = IF expecting_interrupt THEN completion_wait + 1 ELSE completion_wait
  /\ UNCHANGED <<holder, expecting_interrupt, thread, halted, disk, controller>>

\* The disk is done with what keeps it busy.  There is no interrupt before
\* the data of a write has been transferred.
DiskAnswers ==
  /\ phase = "busy" /\ ~ halted
  /\ phase' = IF command = "store" THEN "idle" ELSE "data"
  /\ transfer' = IF command = "read" THEN disk[place] ELSE transfer
  /\ disk' = IF command = "store" THEN [disk EXCEPT ![place] = transfer] ELSE disk
  /\ intrq' = (command # "write" \/ intrq)
  /\ UNCHANGED <<channel, thread, halted, command, place>>

DiskFails ==
  /\ "fail" \in quirks
  /\ phase = "busy" /\ ~ halted
  /\ phase' = "idle"
  /\ intrq' = TRUE
  /\ UNCHANGED <<channel, thread, halted, disk, command, place, transfer>>

\* An interrupt while no command is under way.
SpuriousInterrupt ==
  /\ "spurious" \in quirks /\ ~ halted /\ completion_wait < MaxUps
  /\ holder = NULL
  /\ intrq' = TRUE
  /\ UNCHANGED <<channel, thread, halted, disk, controller>>

Next ==
  /\ \/ \E t \in Thread : Step(t) \/ Panic(t) \/ \E c \in Call : Enter(t, c)
     \/ InterruptHandler \/ DiskAnswers \/ DiskFails \/ SpuriousInterrupt
  /\ UNCHANGED quirks

Spec == Init /\ [][Next]_vars

-----------------------------------------------------------------------------
(* Properties. *)

\* completion_wait counts the interrupts that nobody has waited for yet, and
\* the registers always name a sector.
TypeOK ==
  /\ holder \in Thread \cup {NULL}
  /\ expecting_interrupt \in BOOLEAN /\ completion_wait \in Nat
  /\ pc \in [Thread -> {"idle", "lock", "select", "issue", "down", "poll", "release"}]
  /\ call \in [Thread -> Call]
  /\ buffer \in [Thread -> Data \cup {NULL}]
  /\ halted \in BOOLEAN /\ intrq \in BOOLEAN
  /\ disk \in [Place -> Data]
  /\ phase \in {"idle", "busy", "data"}
  /\ command \in {"none", "read", "write", "store"}
  /\ place \in Place
  /\ transfer \in Data \cup {NULL}
  /\ quirks \subseteq Quirks

\* disk_read() returns what is on the disk, even when a spurious interrupt has
\* come before and ends its sema_down() early: wait_while_busy() still waits for the data.
ReadIsRight ==
  TypeOK /\ \A t \in Thread : pc[t] = "release" /\ Reads(t) => buffer[t] = disk[call[t].place]

\* Each completion interrupt is waited for by the call that caused it: when
\* the channel is free, none is left over for the next call to take for its
\* own.
NoStrayCompletion == quirks = {} /\ holder = NULL => completion_wait = 0 /\ ~ intrq

\* disk_write(): "Returns after the disk has acknowledged receiving the
\* data."
WriteAcknowledged ==
  \A t \in Thread : pc[t] = "release" /\ ~ Reads(t) => phase # "busy"

\* What a call will return, once it has taken effect on the disk.
Answer(t) ==
  CASE pc[t] = "release" /\ Reads(t) -> buffer[t]
    [] pc[t] = "release" /\ ~ Reads(t) -> call[t].data
    [] pc[t] \in {"down", "poll"} /\ Reads(t) /\ phase = "data" -> transfer
    [] pc[t] = "down" /\ ~ Reads(t) /\ phase = "idle" -> call[t].data
    [] OTHER -> NULL

Atomic == INSTANCE AtomicDisk WITH
  contents <- disk,
  call <- [t \in Thread |-> IF pc[t] = "idle" THEN NULL ELSE call[t]],
  answer <- [t \in Thread |-> Answer(t)]

\* disk_read(), disk_write(): "Internally synchronizes accesses to disks, so
\* external per-disk locking is unneeded."  Every call is atomic, if the
\* disk does its part.
IsAtomic == Atomic!Init /\ [][quirks = {} => Atomic!Next]_Atomic!vars

\* The disk answers, its interrupt is delivered, and a thread that can go on
\* does (module Threads).
FairSpec ==
  /\ Spec
  /\ WF_vars(DiskAnswers /\ UNCHANGED quirks) /\ WF_vars(InterruptHandler /\ UNCHANGED quirks)
  /\ \A t \in Thread : WF_vars(Step(t) /\ UNCHANGED quirks)

\* A call that has the channel gives it up again: its interrupt is not missed
\* if it comes before the sema_down(), nor acknowledged by somebody else.
ChannelIsReleased == \A t \in Thread : (quirks = {} /\ holder = t) ~> holder # t
=============================================================================
