------------------------------- MODULE Serial -------------------------------
(***************************************************************************)
(* devices/serial.c and devices/input.c: the serial port's output queue    *)
(* txq, the input buffer it shares with the keyboard, and the interrupt    *)
(* enable register (IER) that has to follow both.                          *)
(*                                                                         *)
(* The two queues are the FIFO queues that module InterruptQueue           *)
(* implements.  A thread that finds txq full or the buffer empty sleeps    *)
(* with interrupts on; everything else happens with interrupts off and is  *)
(* one step.  The console lock lets one thread at a time into              *)
(* serial_putc() with interrupts on.  The UART transmits the byte in THR,  *)
(* holds a received one in RBR, and requests interrupts as IER allows.     *)
(***************************************************************************)
EXTENDS Integers, Sequences

CONSTANTS Byte, Key, NULL,
          Capacity,       \* bytes a queue holds, INTQ_BUFSIZE - 1
          MaxBytes        \* bound on the bytes written

\* What the constants have to be.
SerialAssumption ==
  NULL \notin Byte \cup Key /\ Capacity \in Nat \ {0} /\ MaxBytes \in Nat

VARIABLES mode, txq, buffer,
          writing,        \* byte of the thread asleep in serial_putc(), or NULL
          reading,        \* is a thread asleep in input_getc()?
          ier,            \* the enabled interrupts
          thr, rbr,       \* bytes in the UART, NULL when there is none
          thre,           \* the UART's "THR empty" interrupt is pending
          line,           \* history: what has been transmitted
          accepted        \* history: what serial_putc() has taken over

uart == <<thr, thre, line>>
threads == <<writing, reading>>
vars == <<mode, txq, buffer, threads, ier, uart, rbr, accepted>>

TX == INSTANCE BoundedFifo WITH q <- txq
RX == INSTANCE BoundedFifo WITH q <- buffer, Byte <- Key

TxFull == Len(txq) = Capacity
InputFull == Len(buffer) = Capacity

Init ==
  /\ mode = "UNINIT"
  /\ txq = << >> /\ buffer = << >>
  /\ writing = NULL /\ reading = FALSE
  /\ ier = {}
  /\ thr = NULL /\ rbr = NULL /\ thre = FALSE
  /\ line = << >> /\ accepted = << >>

-----------------------------------------------------------------------------
(* The UART as the driver sees it. *)

InThr == IF thr = NULL THEN << >> ELSE <<thr>>

\* putc_poll() of each byte in turn: every one goes into THR when the one
\* before has left it.
Poll(bytes) ==
  IF bytes = << >> THEN UNCHANGED uart
  ELSE /\ thr' = bytes[Len(bytes)]
       /\ line' = line \o InThr \o SubSeq(bytes, 1, Len(bytes) - 1)
       /\ thre' = FALSE

\* Mutant: write_ier() enables receive interrupts only for an empty buffer.
EnabledLate(tx, in) ==
  (IF tx # << >> THEN {"XMIT"} ELSE {}) \cup (IF in = << >> THEN {"RECV"} ELSE {})

\* What write_ier() writes, for given contents of the queues.
Enabled(tx, in) ==
  (IF tx # << >> THEN {"XMIT"} ELSE {})
    \cup (IF Len(in) < Capacity THEN {"RECV"} ELSE {})

\* Writing IER: a change of XMIT requests or drops the THR empty interrupt.
Requested(enabled, empty, pending) ==
  IF "XMIT" \in ier <=> "XMIT" \in enabled THEN pending
  ELSE "XMIT" \in enabled /\ empty

WriteIer ==
  /\ ier' = Enabled(txq', buffer')
  /\ thre' = Requested(ier', thr = NULL, thre)

\* serial_notify().
Notify ==
  /\ IF mode = "QUEUE" THEN WriteIer ELSE UNCHANGED <<ier, thre>>
  /\ UNCHANGED <<thr, line>>

-----------------------------------------------------------------------------

SerialInitQueue ==
  /\ mode # "QUEUE"
  /\ mode' = "QUEUE"
  /\ UNCHANGED <<txq, buffer>>
  /\ WriteIer
  /\ UNCHANGED <<threads, thr, line, rbr, accepted>>

\* serial_putc() before interrupt-driven I/O is set up.
PutPolled(b) ==
  /\ mode # "QUEUE"
  /\ mode' = "POLL"
  /\ Poll(<<b>>)
  /\ accepted' = Append(accepted, b)
  /\ UNCHANGED <<txq, buffer, threads, ier, rbr>>

\* intq_putc() into a queue with room, and write_ier().
PutQueued(b) ==
  /\ mode = "QUEUE"
  /\ TX!Put(b)
  /\ accepted' = Append(accepted, b)
  /\ UNCHANGED <<mode, buffer, reading, thr, line, rbr>>
  /\ WriteIer

\* serial_putc() by a thread with interrupts on: it sleeps when txq is full.
SerialPutc(b) ==
  /\ writing = NULL /\ Len(accepted) < MaxBytes
  /\ \/ PutPolled(b)
     \/ PutQueued(b) /\ UNCHANGED writing
     \/ /\ mode = "QUEUE" /\ TxFull
        /\ writing' = b
        /\ UNCHANGED <<mode, txq, buffer, reading, ier, uart, rbr, accepted>>

WriterWakes ==
  /\ writing # NULL
  /\ PutQueued(writing)
  /\ writing' = NULL

\* Mutant: the new byte is polled out ahead of the queued ones.
SerialPutcIntrOffJumps(b) ==
  /\ Len(accepted) < MaxBytes
  /\ mode = "QUEUE" /\ TxFull
  /\ Poll(<<b>>)
  /\ accepted' = Append(accepted, b)
  /\ UNCHANGED <<mode, txq, buffer, threads, ier, rbr>>

\* serial_putc() with interrupts off: it makes room by polling out a byte.
SerialPutcIntrOff(b) ==
  /\ Len(accepted) < MaxBytes
  /\ \/ PutPolled(b)
     \/ PutQueued(b) /\ UNCHANGED writing
     \/ /\ mode = "QUEUE" /\ TxFull
        /\ txq' = Append(Tail(txq), b)
        /\ Poll(<<Head(txq)>>)
        /\ ier' = Enabled(txq', buffer)
        /\ accepted' = Append(accepted, b)
        /\ UNCHANGED <<mode, buffer, threads, rbr>>

\* serial_flush(); it leaves IER alone.
SerialFlush ==
  /\ txq' = << >>
  /\ Poll(txq)
  /\ UNCHANGED <<mode, buffer, threads, ier, rbr, accepted>>

\* intq_getc() from a buffer that is not empty, and serial_notify().
Getc ==
  /\ RX!Get
  /\ UNCHANGED <<mode, txq, writing, rbr, accepted>>
  /\ Notify

InputGetc ==
  /\ ~ reading
  /\ \/ Getc /\ UNCHANGED reading
     \/ /\ buffer = << >>
        /\ reading' = TRUE
        /\ UNCHANGED <<mode, txq, buffer, writing, ier, uart, rbr, accepted>>

ReaderWakes == reading /\ Getc /\ reading' = FALSE

\* keyboard_interrupt() adds a key if there is room for it.
KeyboardInterrupt(k) ==
  /\ RX!Put(k)
  /\ UNCHANGED <<mode, txq, threads, rbr, accepted>>
  /\ Notify

Interrupting ==
  \/ "RECV" \in ier /\ rbr # NULL
  \/ "XMIT" \in ier /\ thre

\* Mutant: the handler does not transmit.
SerialInterruptReceiveOnly ==
  /\ mode = "QUEUE" /\ Interrupting
  /\ buffer' = IF rbr # NULL /\ ~ InputFull THEN Append(buffer, rbr) ELSE buffer
  /\ rbr' = IF rbr # NULL /\ ~ InputFull THEN NULL ELSE rbr
  /\ thre' = FALSE
  /\ ier' = Enabled(txq, buffer')
  /\ UNCHANGED <<mode, threads, accepted, txq, thr, line>>

\* serial_interrupt().  Reading IIR acknowledges the THR empty interrupt
\* unless a received byte is reported first.  THR and RBR hold one byte, so
\* each loop runs at most once.
SerialInterrupt ==
  /\ mode = "QUEUE" /\ Interrupting
  /\ LET receives == rbr # NULL /\ ~ InputFull
         sends == txq # << >> /\ thr = NULL
         acknowledged == thre /\ "RECV" \in ier /\ rbr # NULL
     IN /\ buffer' = IF receives THEN Append(buffer, rbr) ELSE buffer
        /\ rbr' = IF receives THEN NULL ELSE rbr
        /\ txq' = IF sends THEN Tail(txq) ELSE txq
        /\ thr' = IF sends THEN Head(txq) ELSE thr
        /\ ier' = Enabled(txq', buffer')
        /\ thre' = Requested(ier', thr' = NULL, acknowledged /\ ~ sends)
  /\ UNCHANGED <<mode, threads, line, accepted>>

\* The UART finishes a byte.
ThrEmpties ==
  /\ thr # NULL
  /\ line' = Append(line, thr)
  /\ thr' = NULL
  /\ thre' = TRUE
  /\ UNCHANGED <<mode, txq, buffer, threads, ier, rbr, accepted>>

\* A byte comes in; one that nobody has fetched is overrun.
ByteArrives(k) ==
  /\ rbr' = k
  /\ UNCHANGED <<mode, txq, buffer, threads, ier, uart, accepted>>

Next ==
  \/ SerialInitQueue
  \/ \E b \in Byte : SerialPutc(b) \/ SerialPutcIntrOff(b)
  \/ WriterWakes
  \/ SerialFlush
  \/ InputGetc \/ ReaderWakes
  \/ SerialInterrupt
  \/ ThrEmpties
  \/ \E k \in Key : KeyboardInterrupt(k) \/ ByteArrives(k)

Spec == Init /\ [][Next]_vars

-----------------------------------------------------------------------------
(* Properties. *)

\* Neither queue overflows, and IER is written only with defined bits.
TypeOK ==
  /\ mode \in {"UNINIT", "POLL", "QUEUE"}
  /\ txq \in Seq(Byte) /\ Len(txq) <= Capacity
  /\ buffer \in Seq(Key) /\ Len(buffer) <= Capacity
  /\ writing \in Byte \cup {NULL} /\ reading \in BOOLEAN
  /\ ier \subseteq {"XMIT", "RECV"}
  /\ thr \in Byte \cup {NULL} /\ rbr \in Key \cup {NULL}
  /\ thre \in BOOLEAN
  /\ line \in Seq(Byte) /\ accepted \in Seq(Byte)

\* Whatever mix of polling, queueing and flushing sends them, the bytes leave
\* the port in the order serial_putc() took them over, each exactly once.
SentInOrder == line \o InThr \o txq = accepted

\* Transmission never stalls: while txq holds a byte, the transmit interrupt
\* is enabled, and it is pending or THR is busy and will raise it.
TransmitArmed ==
  mode = "QUEUE" /\ txq # << >> => "XMIT" \in ier /\ (thr # NULL \/ thre)

\* The receive interrupt is enabled exactly while there is room for a byte:
\* serial_interrupt() is neither deaf nor called again and again in vain, and
\* the buffer never overflows.
ReceiveArmed == TypeOK /\ (mode = "QUEUE" => ("RECV" \in ier <=> ~ InputFull))

\* The UART goes on transmitting, its interrupts are delivered, and a thread
\* asleep in a queue returns when it can (InterruptQueue!WaiterIsKnown).
FairSpec ==
  /\ Spec
  /\ WF_vars(ThrEmpties) /\ WF_vars(SerialInterrupt)
  /\ WF_vars(WriterWakes) /\ WF_vars(ReaderWakes)

\* Every byte that serial_putc() is called with is transmitted in the end.
AllTransmitted ==
  /\ writing # NULL ~> writing = NULL
  /\ \A n \in 1 .. MaxBytes : Len(accepted) >= n ~> Len(line) >= n

\* A byte in the UART is fetched unless the input buffer fills up, and a
\* thread asleep in input_getc() gets it.
ReceivedIsRead ==
  /\ (mode = "QUEUE" /\ rbr # NULL) ~> (rbr = NULL \/ InputFull)
  /\ (mode = "QUEUE" /\ reading /\ rbr # NULL) ~> ~ reading
=============================================================================
