--------------------------- MODULE InterruptQueue ---------------------------
(***************************************************************************)
(* devices/intq.c: a circular buffer shared by kernel threads and          *)
(* interrupt handlers.                                                     *)
(*                                                                         *)
(* Its functions run with interrupts off, so a step is what a thread does  *)
(* from a call or a wakeup up to its return or the next sleep: asleep for  *)
(* the queue's lock (pc "lock") or in wait() (pc "wait", "woken" once      *)
(* signal() has unblocked it).  A failed ASSERT halts the machine.         *)
(***************************************************************************)
EXTENDS Integers, Sequences

CONSTANTS Reader, Writer,         \* the threads that call getc and putc
          HandlerPuts,            \* does an interrupt handler call putc,
          HandlerGets,            \* or getc?
          Byte, NULL,
          BUFSIZE                 \* INTQ_BUFSIZE

\* What the constants have to be.
QueueAssumption ==
  /\ Reader \cap Writer = {} /\ NULL \notin Reader \cup Writer
  /\ HandlerPuts \in BOOLEAN /\ HandlerGets \in BOOLEAN
  /\ BUFSIZE \in Nat /\ BUFSIZE > 1

VARIABLES buf, head, tail,
          not_full, not_empty,    \* the threads waiting for these conditions
          lock,                   \* value of the lock's semaphore
          pc,
          byte,                   \* the argument of a writer's intq_putc()
          halted                  \* an ASSERT of wait() has failed

ring == <<buf, head, tail>>
vars == <<ring, not_full, not_empty, lock, pc, byte, halted>>

QThread == Reader \cup Writer

NextPos(pos) == (pos + 1) % BUFSIZE

Empty == head = tail

\* Mutant: the slot that tells a full queue from an empty one is used too.
FullNever == FALSE

Full == NextPos(head) = tail

Init ==
  /\ buf \in [0 .. BUFSIZE - 1 -> Byte]
  /\ head = 0 /\ tail = 0
  /\ not_full = NULL /\ not_empty = NULL
  /\ lock = 1
  /\ pc = [t \in QThread |-> "idle"]
  /\ byte \in [Writer -> Byte]
  /\ halted = FALSE

-----------------------------------------------------------------------------

\* signal(): the threads' places once the waiter, if there is one, is awake.
Wake(places, waiter) ==
  [t \in QThread |-> IF t = waiter THEN "woken" ELSE places[t]]

\* The end of intq_getc(), the threads' places being as given.
Take(places) ==
  /\ tail' = NextPos(tail)
  /\ pc' = Wake(places, not_full)
  /\ not_full' = NULL
  /\ UNCHANGED <<buf, head, not_empty>>

\* Mutant: intq_putc() does not signal not_empty.
StoreNoSignal(places, b) ==
  /\ buf' = [buf EXCEPT ![head] = b]
  /\ head' = NextPos(head)
  /\ pc' = places
  /\ UNCHANGED <<tail, not_full, not_empty>>

\* The end of intq_putc().
Store(places, b) ==
  /\ buf' = [buf EXCEPT ![head] = b]
  /\ head' = NextPos(head)
  /\ pc' = Wake(places, not_empty)
  /\ not_empty' = NULL
  /\ UNCHANGED <<tail, not_full>>

At(t, p) == pc[t] = p /\ ~ halted
Moved(t, p) == [pc EXCEPT ![t] = p]

\* wait() by the thread that has just taken the lock: its ASSERT, and the
\* sleep in thread_block().
WaitNotEmpty(t) ==
  \/ Empty /\ not_empty' = t /\ pc' = Moved(t, "wait") /\ UNCHANGED <<ring, not_full, halted>>
  \/ ~ Empty /\ halted' = TRUE /\ UNCHANGED <<ring, not_full, not_empty, pc>>

WaitNotFull(t) ==
  \/ Full /\ not_full' = t /\ pc' = Moved(t, "wait") /\ UNCHANGED <<ring, not_empty, halted>>
  \/ ~ Full /\ halted' = TRUE /\ UNCHANGED <<ring, not_full, not_empty, pc>>

\* intq_getc() from the test of its loop on, the lock's value being lk.
GetLoop(t, lk) ==
  \/ /\ ~ Empty
     /\ Take(Moved(t, "idle"))
     /\ lock' = lk
     /\ UNCHANGED halted
  \/ /\ Empty /\ lk > 0
     /\ WaitNotEmpty(t)
     /\ lock' = lk - 1
  \/ /\ Empty /\ lk = 0
     /\ pc' = Moved(t, "lock")
     /\ lock' = lk
     /\ UNCHANGED <<ring, not_full, not_empty, halted>>

PutLoop(t, b, lk) ==
  \/ /\ ~ Full
     /\ Store(Moved(t, "idle"), b)
     /\ lock' = lk
     /\ UNCHANGED halted
  \/ /\ Full /\ lk > 0
     /\ WaitNotFull(t)
     /\ lock' = lk - 1
  \/ /\ Full /\ lk = 0
     /\ pc' = Moved(t, "lock")
     /\ lock' = lk
     /\ UNCHANGED <<ring, not_full, not_empty, halted>>

CallGetc(t) == At(t, "idle") /\ GetLoop(t, lock) /\ UNCHANGED byte

CallPutc(t, b) ==
  /\ At(t, "idle")
  /\ PutLoop(t, b, lock)
  /\ byte' = [byte EXCEPT ![t] = b]

\* After wait(): lock_release(), and the loop again.
WokenGetc(t) == At(t, "woken") /\ GetLoop(t, lock + 1) /\ UNCHANGED byte
WokenPutc(t) == At(t, "woken") /\ PutLoop(t, byte[t], lock + 1) /\ UNCHANGED byte

\* lock_acquire() returns after a sleep.
LockedGetc(t) ==
  /\ At(t, "lock") /\ lock > 0
  /\ WaitNotEmpty(t)
  /\ lock' = lock - 1
  /\ UNCHANGED byte

LockedPutc(t) ==
  /\ At(t, "lock") /\ lock > 0
  /\ WaitNotFull(t)
  /\ lock' = lock - 1
  /\ UNCHANGED byte

\* An interrupt handler gets only from a queue that is not empty and puts
\* only into one that is not full.
HandlerGetc ==
  /\ HandlerGets /\ ~ halted /\ ~ Empty
  /\ Take(pc)
  /\ UNCHANGED <<lock, byte, halted>>

HandlerPutc(b) ==
  /\ HandlerPuts /\ ~ halted /\ ~ Full
  /\ Store(pc, b)
  /\ UNCHANGED <<lock, byte, halted>>

Resume ==
  \/ \E t \in Reader : WokenGetc(t) \/ LockedGetc(t)
  \/ \E t \in Writer : WokenPutc(t) \/ LockedPutc(t)

Next ==
  \/ \E t \in Reader : CallGetc(t)
  \/ \E t \in Writer, b \in Byte : CallPutc(t, b)
  \/ Resume
  \/ HandlerGetc
  \/ \E b \in Byte : HandlerPutc(b)

Spec == Init /\ [][Next]_vars

-----------------------------------------------------------------------------
(* Properties. *)

\* The waiters are of the right kind, the positions in range, and the lock's
\* semaphore is binary.
TypeOK ==
  /\ buf \in [0 .. BUFSIZE - 1 -> Byte]
  /\ head \in 0 .. BUFSIZE - 1 /\ tail \in 0 .. BUFSIZE - 1
  /\ not_full \in Writer \cup {NULL} /\ not_empty \in Reader \cup {NULL}
  /\ lock \in {0, 1}
  /\ pc \in [QThread -> {"idle", "lock", "wait", "woken"}]
  /\ byte \in [Writer -> Byte]
  /\ halted \in BOOLEAN

\* A thread sleeps in wait() exactly while the queue knows it as its waiter,
\* so that signal() can find it, and only as long as what it waits for has
\* not come: no wakeup is missed and none is early.
WaiterIsKnown ==
  /\ TypeOK
  /\ \A t \in Reader : pc[t] = "wait" <=> not_empty = t
  /\ \A t \in Writer : pc[t] = "wait" <=> not_full = t
  /\ not_empty # NULL => Empty
  /\ not_full # NULL => Full

\* wait(): "ASSERT ((waiter == &q->not_empty && intq_empty (q)) || ...)".
WaitAssertHolds == ~ halted

\* The bytes inside, oldest first.
Contents == [i \in 1 .. (head - tail) % BUFSIZE |-> buf[(tail + i - 1) % BUFSIZE]]

\* The ring buffer is a FIFO queue of BUFSIZE - 1 bytes.
Fifo == INSTANCE BoundedFifo WITH q <- Contents, Capacity <- BUFSIZE - 1
IsFifo == Fifo!Spec
=============================================================================
