----------------------------- MODULE KernelTable -----------------------------
(***************************************************************************)
(* The process table of bluekernel and the functions that change it        *)
(* (policy/process.c, policy/messages.c), at the level of its pointers.    *)
(*                                                                         *)
(* A kernel state k is a record: the table k.t, the heads k.q of the three *)
(* scheduling rings, the interrupt table k.int, running_ptr, num_sleepers, *)
(* num_processes and its limit.  Each operator is one C function, as a     *)
(* function from kernel state to kernel state.  A pointer is the slot it   *)
(* points at, an interrupt number where the code casts one to a pointer,   *)
(* or NULL.  Slot 0 is the idle process; any_ptr is the same slot, so its  *)
(* message queue is the queue of those who wait for ANY.                   *)
(*                                                                         *)
(* k.astray is not the kernel's but a record of what has happened to it:   *)
(* the calls that nothing in the code keeps a process from making and      *)
(* after which a queue no longer tells who is on it, or an answer is lost. *)
(* "self": a process waits on its own queue; "neighbour": RemoveMessage    *)
(* takes the head of a queue for a process on it; "reused": an entry is    *)
(* given to a new process while others wait on its queue; "queued",        *)
(* "removed": SetProcess(P_READY) for a process on a message queue, for    *)
(* one that is gone; "running": SetProcess for the process that runs;      *)
(* "unread": SetProcess replaces the answer to a fault before Exception    *)
(* has read it.                                                            *)
(*                                                                         *)
(* Left out: thread ranges of a message (RTHREAD, TTHREAD), the child and  *)
(* sibling lists, memory, statistics and logs.                             *)
(***************************************************************************)
EXTENDS Integers, Sequences, FiniteSetsExt

CONSTANTS
    MaxProcs,       \* the entries of the largest table, see boot_max_processes
    VersionMask,    \* the largest version number of a process identifier
    HwInts          \* the hardware interrupts other than the clock

IDLE == 0
ANY == <<IDLE, 1>>
NoPID == <<IDLE, 0>>
NULL == -1
NoMsg == <<NULL, "data">>
Slots == 0 .. MaxProcs - 1
CLOCK == 100
Lines == HwInts \cup {CLOCK}
NORMAL_PRIORITY == 4
FAST_PRIORITY == 8

\* One assignment to a field of a table entry.
Put(k, p, field, v) == [k EXCEPT !.t[p] = [@ EXCEPT ![field] = v]]

\* An event of k.astray, when it happens.
Note(k, event, happens) == [k EXCEPT !.astray = IF happens THEN @ \cup {event} ELSE @]

ReadyQ(k, p) == IF k.t[p].priority < FAST_PRIORITY THEN "readyQ" ELSE "ready_fastQ"

AddQueue(k, q, p) ==
    LET head == k.q[q]
        tail == k.t[head].prev
        linked == Put(Put(Put(k, tail, "next", p), p, "next", head), p, "prev", tail)
    IN  IF head # NULL
        THEN Put(linked, head, "prev", p)
        ELSE [Put(Put(k, p, "prev", p), p, "next", p) EXCEPT !.q[q] = p]

\* The entry's own next and prev are left as they are.
RemoveQueue(k, q, p) ==
    LET e == k.t[p]
        unlinked == Put(Put(k, e.prev, "next", e.next), e.next, "prev", e.prev)
    IN  IF e.next = p
        THEN [k EXCEPT !.q[q] = NULL]
        ELSE [unlinked EXCEPT !.q[q] = IF @ = p THEN e.prev ELSE @]

SetReason(k, p, v) == Put(k, p, "reason", v)

\* Mutant: the priority is assigned before the ring of the old one is chosen.
SetPriorityInPlace(k, p, v) == Put(k, p, "priority", v)

SetPriority(k, p, v) ==
    LET from == ReadyQ(k, p)
        to == ReadyQ(Put(k, p, "priority", v), p)
        moved == IF from # to /\ k.t[p].status # "BLOCKED"
                 THEN AddQueue(RemoveQueue(k, from, p), to, p)
                 ELSE k
    IN  Put(moved, p, "priority", v)

SetBlocked(k, p, v) ==
    IF k.t[p].status \notin {"READY", "RUNNING"}
    THEN k
    ELSE LET queued == AddQueue(RemoveQueue(k, ReadyQ(k, p), p), "blockedQ", p)
         IN  SetReason(Put(queued, p, "status", "BLOCKED"), p, v)

SetReady(k, p, v) ==
    LET st == k.t[p].status
        out == IF st = "BLOCKED" THEN RemoveQueue(k, "blockedQ", p) ELSE k
        ready == SetReason(Put(AddQueue(out, ReadyQ(k, p), p), p, "status", "READY"), p, v)
        awake == [Put(ready, p, "timer", 0)
                    EXCEPT !.num_sleepers = IF @ > 0 THEN @ - 1 ELSE @]
    IN  IF st = "PENDING" /\ k.t[p].priority = 0 THEN k
        ELSE IF st = "READY" THEN SetReason(k, p, v)
        ELSE IF k.t[p].timer > 0 THEN awake
        ELSE ready

Schedule(k) ==
    LET Pick(q) ==
            LET new == k.t[k.q[q]].next
                old == k.running
                yielded == IF k.t[old].status = "RUNNING" THEN Put(k, old, "status", "READY") ELSE k
                chosen == [yielded EXCEPT !.q[q] = new, !.running = new]
            IN  IF new # old THEN Put(chosen, new, "status", "RUNNING") ELSE chosen
    IN  IF k.q["ready_fastQ"] # NULL THEN Pick("ready_fastQ")
        ELSE IF k.q["readyQ"] # NULL THEN Pick("readyQ")
        ELSE IF k.running # IDLE
             THEN Put([k EXCEPT !.running = IDLE], IDLE, "status", "RUNNING")
             ELSE k

\* The identifier of the process in slot p, and the slot of an identifier.
pID(k, p) == <<p, k.t[p].version>>

pIDtoPtr(k, pid) == IF pid[1] \in Slots /\ pID(k, pid[1]) = pid THEN pid[1] ELSE NULL

-----------------------------------------------------------------------------
(* Message queues.  The head of a queue is a slot or an interrupt line.    *)

own_msgQn(k, x) == IF x \in Lines THEN k.int[x].own_msgQn ELSE k.t[x].own_msgQn
own_msgQp(k, x) == IF x \in Lines THEN k.int[x].own_msgQp ELSE k.t[x].own_msgQp

PutOwn(k, x, field, v) ==
    IF x \in Lines
    THEN [k EXCEPT !.int[x] = [@ EXCEPT ![field] = v]]
    ELSE Put(k, x, field, v)

\* running_ptr joins the end of the queue of x.
AddMessage(k, x) ==
    LET p == k.running
        last == own_msgQp(k, x)
        joined == IF own_msgQn(k, x) = x
                  THEN PutOwn(k, x, "own_msgQn", p)
                  ELSE Put(k, last, "wait_msgQn", p)
        added == PutOwn(Put(Put(joined, p, "wait_msgQp", last), p, "wait_msgQn", x),
                        x, "own_msgQp", p)
    IN  Note(added, "self", x = p)

\* The processes of the queue of x, from its head; at most MaxProcs of them, and
\* none after a NULL, where the code's loop would leave the table.
Waiters(k, x) ==
    LET chain[n \in 0 .. MaxProcs] ==
            IF n = 0 THEN <<>>
            ELSE LET prev == chain[n - 1]
                     m == Len(prev)
                     nxt == IF m = 0 THEN own_msgQn(k, x) ELSE k.t[prev[m]].wait_msgQn
                 IN  IF nxt \in Slots \ {x} THEN Append(prev, nxt) ELSE prev
    IN  chain[MaxProcs]

\* p is at an end of the queue of x and x is at the same end of the queue of p: then x has
\* the pointer that a process next to p on x's queue would have.
Mistaken(k, p) ==
    \E x \in Slots :
        LET w == Waiters(k, x)
        IN  /\ Len(w) > 1
            /\ \/ w[Len(w)] = p /\ k.t[x].wait_msgQp = p
               \/ w[1] = p /\ k.t[x].wait_msgQn = p

\* The neighbour after p that is not p's queue head has p as its wait_msgQp;
\* the code tells the two apart by that pointer alone.
UnlinkNext(k, p) ==
    LET n == k.t[p].wait_msgQn
        q == k.t[p].wait_msgQp
    IN  IF n \in Lines \/ k.t[n].wait_msgQp # p
        THEN PutOwn(k, n, "own_msgQp", q)
        ELSE Put(k, n, "wait_msgQp", q)

UnlinkPrev(k, p) ==
    LET n == k.t[p].wait_msgQn
        q == k.t[p].wait_msgQp
    IN  IF q \in Lines \/ k.t[q].wait_msgQn # p
        THEN PutOwn(k, q, "own_msgQn", n)
        ELSE Put(k, q, "wait_msgQn", n)

RemoveMessage(k, p) ==
    LET n == k.t[p].wait_msgQn
        alone == n = k.t[p].wait_msgQp
        out == IF alone
               THEN PutOwn(PutOwn(k, n, "own_msgQp", n), n, "own_msgQn", n)
               ELSE UnlinkPrev(UnlinkNext(k, p), p)
    IN  IF alone /\ n = NULL
        THEN k
        ELSE Note(Put(Put(out, p, "wait_msgQn", NULL), p, "wait_msgQp", NULL),
                  "neighbour", Mistaken(k, p))

\* The first process of x's queue that waits in the given direction, with the
\* given length, and is the target; the target any_ptr is everyone.
SearchMsgQueue(k, x, target, direction, length) ==
    LET w == Waiters(k, x)
        Fits(p) == /\ k.t[p].reason = direction
                   /\ k.t[p].length = length
                   /\ target \in {p, IDLE}
        hits == {i \in DOMAIN w : Fits(w[i])}
    IN  IF hits = {} THEN NULL ELSE w[Min(hits)]

\* Mutant: the queue of any_ptr is not searched.
SearchMessagesOwn(k, target, direction, length) ==
    SearchMsgQueue(k, k.running, target, direction, length)

SearchMessages(k, target, direction, length) ==
    LET own == SearchMsgQueue(k, k.running, target, direction, length)
    IN  IF own = NULL /\ target # IDLE
        THEN SearchMsgQueue(k, IDLE, target, direction, length)
        ELSE own

\* Mutant: only the running process learns whom it met.
MeetOneSided(k, other) == Put(k, k.running, "target", pID(k, other))

\* The pair that meets remembers each other's identifier.
Meet(k, other) ==
    Put(Put(k, k.running, "target", pID(k, other)), other, "target", pID(k, k.running))

\* Mutant: the waiters are woken, and p stays on the queue it is on.
RemoveProcessMessagesStays(k, p) ==
    LET w == Waiters(k, p)
        woken[i \in 0 .. Len(w)] ==
            IF i = 0 THEN k
            ELSE LET r == SetReady(woken[i - 1], w[i], "MESSAGE_TARGET_REMOVED")
                 IN  Put(Put(r, w[i], "wait_msgQn", NULL), w[i], "wait_msgQp", NULL)
    IN  Put(Put(woken[Len(w)], p, "own_msgQn", p), p, "own_msgQp", p)

\* Everyone on p's queue is woken, and p leaves the queue it is on.
RemoveProcessMessages(k, p) ==
    LET w == Waiters(k, p)
        woken[i \in 0 .. Len(w)] ==
            IF i = 0 THEN k
            ELSE LET r == SetReady(woken[i - 1], w[i], "MESSAGE_TARGET_REMOVED")
                 IN  Put(Put(r, w[i], "wait_msgQn", NULL), w[i], "wait_msgQp", NULL)
        cleared == Put(Put(woken[Len(w)], p, "own_msgQn", p), p, "own_msgQp", p)
    IN  Put(RemoveMessage(cleared, p), p, "msg", NoMsg)

\* One tick of every timer; a wait whose timer ends is over.
UpdateTimers(k) ==
    LET Expire(s, p, why) == RemoveMessage(SetReady(s, p, why), p)
        Tick(s, p) ==
            LET e == s.t[p]
                less == Put(s, p, "timer", e.timer - 1)
                late == [less EXCEPT !.num_sleepers = @ - 1]
            IN  IF e.timer = 0 THEN s
                ELSE IF e.timer > 1 \/ e.status # "BLOCKED" THEN less
                ELSE IF e.reason = "SEND" THEN Expire(late, p, "SEND_TIMEOUT")
                ELSE IF e.reason = "RECEIVE" THEN Expire(late, p, "RECEIVER_TIMEOUT")
                ELSE late
        upto[n \in 0 .. MaxProcs] == IF n = 0 THEN k ELSE Tick(upto[n - 1], n - 1)
    IN  upto[MaxProcs]

RemoveProcessResources(k, p) ==
    [k EXCEPT !.int = [l \in Lines |->
        IF k.int[l].pID = pID(k, p) THEN [k.int[l] EXCEPT !.pID = NoPID] ELSE k.int[l]]]

-----------------------------------------------------------------------------
(* Processes come and go.                                                  *)

\* The end of the thread list that starts at p.
LastThread(k, p) ==
    LET walk[n \in 0 .. MaxProcs] ==
            IF n = 0 THEN p
            ELSE LET at == walk[n - 1]
                 IN  IF k.t[at].next_thread = NULL THEN at ELSE k.t[at].next_thread
    IN  walk[MaxProcs]

\* The entry the search finds, with its next version number.
EmptyEntries(k) == {p \in 0 .. k.boot_max_processes - 1 : k.t[p].status = "EMPTY"}

FreeEntry(k) == Min(EmptyEntries(k))

Claim(k, p) ==
    Put(Put(k, p, "version", (IF k.t[p].version = VersionMask THEN 0 ELSE k.t[p].version) + 1),
        p, "status", "PENDING")

\* A new process, or a new thread of the process parent.  "fails" names the
\* step that fails: AddMemory, AddPage for either stack, or AddProcessMec.
AddProcess(k, priority, thread, parent, fails) ==
    LET p == FreeEntry(k)
        claimed == Claim(k, p)
        given == Put(claimed, p, "status", "EMPTY")
        entry == [claimed.t[p] EXCEPT
                     !.reason = "PENDING", !.priority = priority,
                     !.next = NULL, !.prev = NULL,
                     !.own_msgQn = p, !.own_msgQp = p,
                     !.wait_msgQn = NULL, !.wait_msgQp = NULL,
                     !.next_thread = NULL, !.thread_owner = IF thread THEN parent ELSE p]
        added == Note([claimed EXCEPT !.t[p] = entry, !.num_processes = @ + 1],
                      "reused", k.t[p].own_msgQn \notin {p, NULL})
    IN  CASE fails \in {"AddMemory", "AddProcessMec"} -> given
          [] fails \in {"KernelStack", "UserStack"} -> claimed
          [] fails = "" /\ ~thread -> added
          [] fails = "" /\ thread -> Put(added, LastThread(k, parent), "next_thread", p)

\* A process whose threads still run is kept.
RemoveProcess(k, p) ==
    LET e == k.t[p]
        owner == e.thread_owner = p
        before == CHOOSE x \in Slots : k.t[x].next_thread = p
        list == IF owner THEN k ELSE Put(k, before, "next_thread", e.next_thread)
        alone == Put(Put(list, p, "thread_owner", NULL), p, "next_thread", NULL)
        off == RemoveQueue([alone EXCEPT !.num_processes = @ - 1],
                           IF e.status = "BLOCKED" THEN "blockedQ" ELSE ReadyQ(k, p), p)
        empty == SetReason(Put(off, p, "status", "EMPTY"), p, "REMOVED")
        free == RemoveProcessResources(RemoveProcessMessages(empty, p), p)
        blank == [free EXCEPT !.t[p] =
                     [@ EXCEPT !.priority = 0, !.next = NULL, !.prev = NULL,
                               !.length = 0, !.timer = 0, !.target = NoPID]]
    IN  IF owner /\ e.next_thread # NULL THEN k
        ELSE IF k.running = p THEN Schedule(blank)
        ELSE blank
=============================================================================
