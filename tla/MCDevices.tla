----------------------------- MODULE MCDevices ------------------------------
(***************************************************************************)
(* InterruptQueue, Serial and Disk for TLC.  They share no variable, so    *)
(* one of them runs at a time: `system` is chosen in the initial state and *)
(* the variables of the others keep their initial values.  The queue has   *)
(* threads and handlers at both ends, which covers the two uses the kernel *)
(* makes of it (the input buffer: a handler puts, a thread gets; the       *)
(* serial port's txq: a thread puts, a handler gets); the disks are of     *)
(* every kind.                                                             *)
(***************************************************************************)
EXTENDS Integers, Sequences

CONSTANTS NULL, Byte,
          Reader, Writer, HandlerPuts, HandlerGets, BUFSIZE,
          Key, Capacity, MaxBytes,
          Thread, Data, Place, Quirks, MaxUps

VARIABLES system,
          buf, head, tail, not_full, not_empty, lock, at, byte, stopped,
          mode, txq, input, writing, reading, ier, thr, rbr, thre, line, accepted,
          holder, expecting_interrupt, completion_wait, pc, call, buffer, halted,
          disk, phase, command, place, transfer, intrq, quirks

IQ == INSTANCE InterruptQueue WITH pc <- at, halted <- stopped
SP == INSTANCE Serial WITH buffer <- input
DD == INSTANCE Disk

ASSUME IQ!QueueAssumption /\ SP!SerialAssumption /\ DD!DiskAssumption

queueVars == <<buf, head, tail, not_full, not_empty, lock, at, byte, stopped>>
portVars == <<mode, txq, input, writing, reading, ier, thr, rbr, thre, line, accepted>>
diskVars == <<holder, expecting_interrupt, completion_wait, pc, call, buffer, halted,
              disk, phase, command, place, transfer, intrq, quirks>>
vars == <<system, queueVars, portVars, diskVars>>

Init ==
  /\ system \in {"queue", "port", "disk"}
  /\ IQ!Init /\ SP!Init /\ DD!Init
  /\ system # "queue" => /\ buf = [i \in 0 .. BUFSIZE - 1 |-> CHOOSE b \in Byte : TRUE]
                         /\ byte = [t \in Writer |-> CHOOSE b \in Byte : TRUE]
  /\ system # "disk" => disk = [p \in Place |-> CHOOSE x \in Data : TRUE] /\ quirks = {}

Next ==
  /\ \/ system = "queue" /\ IQ!Next /\ UNCHANGED <<portVars, diskVars>>
     \/ system = "port" /\ SP!Next /\ UNCHANGED <<queueVars, diskVars>>
     \/ system = "disk" /\ DD!Next /\ UNCHANGED <<queueVars, portVars>>
  /\ UNCHANGED system

Port(A) == system = "port" /\ A /\ UNCHANGED <<system, queueVars, diskVars>>
Channel(A) == system = "disk" /\ A /\ UNCHANGED <<system, quirks, queueVars, portVars>>

\* The fairness of Serial!FairSpec and Disk!FairSpec.
FairSpec ==
  /\ Init /\ [][Next]_vars
  /\ WF_vars(Port(SP!ThrEmpties)) /\ WF_vars(Port(SP!SerialInterrupt))
  /\ WF_vars(Port(SP!WriterWakes)) /\ WF_vars(Port(SP!ReaderWakes))
  /\ WF_vars(Channel(DD!DiskAnswers)) /\ WF_vars(Channel(DD!InterruptHandler))
  /\ \A t \in Thread : WF_vars(Channel(DD!Step(t)))

\* InterruptQueue: a thread sleeps in wait() exactly while the queue knows it and what it
\* waits for has not come; bytes come out in the order they went in.
WaiterIsKnown == IQ!WaiterIsKnown
IsFifo == IQ!IsFifo

\* Serial: every byte of serial_putc() leaves the port once, in order, and in the end; the
\* transmit and receive interrupts are armed when they have to be; a byte that arrives is
\* fetched and read.
SentInOrder == SP!SentInOrder /\ SP!TransmitArmed /\ SP!ReceiveArmed
AllTransmitted == SP!AllTransmitted
ReceivedIsRead == SP!ReceivedIsRead

\* Disk: a read returns what is on the disk; a completion is waited for by the call that
\* caused it; calls are atomic and give the channel up again.
ReadIsRight == DD!ReadIsRight /\ DD!NoStrayCompletion
IsAtomic == DD!IsAtomic
ChannelIsReleased == DD!ChannelIsReleased
=============================================================================
