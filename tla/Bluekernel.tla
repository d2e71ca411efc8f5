----------------------------- MODULE Bluekernel ------------------------------
(***************************************************************************)
(* bluekernel: processes that block in Send and Receive, the clock that    *)
(* preempts them and ends their timed waits, hardware interrupts, faults   *)
(* that are sent to the coordinator, and the coordinator of server/, which *)
(* creates, starts, pauses and removes processes.                          *)
(*                                                                         *)
(* A system call runs with interrupts off from LockBus to UnlockBus, so it *)
(* is one step up to the Schedule that gives the processor away; what it   *)
(* does when it is given the processor again is the step Resume.  at[p] is *)
(* the place where process p will go on.  masked holds the processes that  *)
(* are back in their program with interrupts still off.  LockBus never     *)
(* waits: cmpxchg loads lock_var into al when it fails, so that the second *)
(* turn of lock_loop succeeds.                                             *)
(***************************************************************************)
EXTENDS KernelTable

CONSTANTS
    Lengths,        \* message lengths, none of them above MSG_MAX_LENGTH
    Timeouts,       \* timeouts of Send and Receive, 0 is none
    Priorities,     \* priorities of new processes
    MaxWakeups,     \* bound: interrupts counted while no handler waits
    MaxSleepers,    \* bound: num_sleepers when a process is removed
    Scenarios       \* parts of Next that run together, processes at the start

VARIABLES
    parts,          \* the parts of Next that run
    k,              \* the kernel state of KernelTable
    at,             \* where each process goes on
    masked,         \* processes that run with interrupts off
    job,            \* what the coordinator is about to do
    fixed           \* processes whose last fault the coordinator repaired

vars == <<parts, k, at, masked, job, fixed>>

COORD == 1
Users == 2 .. MaxProcs - 1
Self == k.running
Me == k.t[Self]
Live(p) == k.t[p].status # "EMPTY" /\ k.t[p].own_msgQn # NULL

\* The processes in the first slots have been started, the coordinator runs and
\* the rest of the table is empty: what kmain and the coordinator's InitUsers
\* lead to.  Slot 0 is idle, slot 1 the coordinator.
Entry(p, started) ==
    LET used == p < started
    IN  [version |-> IF used THEN 1 ELSE 0,
         status |-> CASE p = IDLE -> "PENDING" [] p = COORD -> "RUNNING"
                      [] p \in 2 .. started - 1 -> "READY" [] OTHER -> "EMPTY",
         reason |-> "NEW", priority |-> IF p = IDLE \/ ~used THEN 0 ELSE NORMAL_PRIORITY,
         next |-> IF p = IDLE \/ ~used THEN NULL ELSE IF p = started - 1 THEN COORD ELSE p + 1,
         prev |-> IF p = IDLE \/ ~used THEN NULL ELSE IF p = COORD THEN started - 1 ELSE p - 1,
         own_msgQn |-> IF used THEN p ELSE NULL, own_msgQp |-> IF used THEN p ELSE NULL,
         wait_msgQn |-> NULL, wait_msgQp |-> NULL, timer |-> 0, target |-> NoPID,
         length |-> 0, msg |-> NoMsg, thread_owner |-> p, next_thread |-> NULL]

Booted(started, limit) ==
    [t |-> [p \in Slots |-> Entry(p, started)],
     q |-> [readyQ |-> COORD, ready_fastQ |-> NULL, blockedQ |-> NULL],
     int |-> [l \in Lines |-> [pID |-> NoPID, own_msgQn |-> l, own_msgQp |-> l, wakeups |-> 0]],
     running |-> COORD, num_sleepers |-> 0, num_processes |-> started,
     boot_max_processes |-> limit, astray |-> {}]

Init ==
    \E s \in Scenarios :
        /\ parts = s.parts
        /\ k = Booted(s.started, s.limit)
        /\ at = [p \in Slots |-> "user"]
        /\ masked = {}
        /\ job = <<>>
        /\ fixed = {}

-----------------------------------------------------------------------------
(* Messages.                                                               *)

\* The running process is in its program and may make a system call; the
\* coordinator first does the job it has taken on.
InProgram == Self # IDLE /\ at[Self] = "user" /\ (Self = COORD => job = <<>>)

\* Targets: ANY and the identifiers that processes have had: those of the caller, of
\* processes that have been removed, and outdated ones whose entry has been given to
\* another process since.
Targets ==
    {ANY} \cup {<<p, v>> \in (Slots \ {IDLE}) \X (1 .. VersionMask) :
                   k.t[p].own_msgQn # NULL /\ v <= k.t[p].version}

Called(target, length) == Put(Put(k, Self, "target", target), Self, "length", length)

\* Mutant: only receivers are counted as sleepers.
WaitCountsReceivers(s, x, timeout, why) ==
    LET timed == [Put(AddMessage(s, x), Self, "timer", timeout)
                    EXCEPT !.num_sleepers = @ + (IF timeout > 0 /\ why = "RECEIVE" THEN 1 ELSE 0)]
    IN  Schedule(SetBlocked(timed, Self, why))

\* running_ptr waits on the queue of x, and another process is scheduled.
Wait(s, x, timeout, why) ==
    LET timed == [Put(AddMessage(s, x), Self, "timer", timeout)
                    EXCEPT !.num_sleepers = @ + (IF timeout > 0 THEN 1 ELSE 0)]
    IN  Schedule(SetBlocked(timed, Self, why))

\* The message goes into the buffer of a receiver that waits for it.
Deliver(s, receiver, payload) ==
    LET woken == SetReady(Meet(Put(s, receiver, "msg", payload), receiver),
                          receiver, "RECEIVE_DONE")
    IN  RemoveMessage(SetReason(woken, Self, "SEND_DONE"), receiver)

\* The message of a waiting sender is taken.
Take(s, sender) ==
    LET woken == SetReady(RemoveMessage(Meet(s, sender), sender), sender, "SEND_DONE")
    IN  SetReason(woken, Self, "RECEIVE_DONE")

\* Send up to its return or its wait.
SendResult(target, length, timeout, payload) ==
    LET s == Called(target, length)
        x == pIDtoPtr(s, target)
        receiver == SearchMessages(s, x, "RECEIVE", length)
    IN  IF x = NULL THEN [k |-> s, how |-> "no target"]
        ELSE IF receiver # NULL THEN [k |-> Deliver(s, receiver, payload), how |-> "returns"]
        ELSE [k |-> Wait(Put(s, Self, "msg", payload), x, timeout, "SEND"), how |-> "waits"]

\* A call that finds no target returns without UnlockBus.
Unlocked(how) == IF how = "no target" THEN masked \cup {Self} ELSE masked \ {Self}

Send(target, length, timeout) ==
    LET r == SendResult(target, length, timeout, <<Self, "data">>)
    IN  /\ InProgram
        /\ k' = r.k
        /\ at' = [at EXCEPT ![Self] = IF r.how = "waits" THEN "send" ELSE "user"]
        /\ masked' = Unlocked(r.how)
        /\ UNCHANGED <<job, fixed>>

\* The coordinator that has read a fault message has to repair the fault.
Repairing(payload) == IF Self = COORD /\ payload[2] = "fault" THEN <<"repair", payload[1]>> ELSE job

Receive(target, length, timeout) ==
    LET s == Called(target, length)
        x == pIDtoPtr(s, target)
        sender == SearchMessages(s, x, "SEND", length)
        how == IF x = NULL THEN "no target" ELSE IF sender # NULL THEN "returns" ELSE "waits"
    IN  /\ InProgram
        /\ k' = CASE how = "no target" -> s
                  [] how = "returns" -> Take(s, sender)
                  [] how = "waits" -> Wait(s, x, timeout, "RECEIVE")
        /\ at' = [at EXCEPT ![Self] = IF how = "waits" THEN "receive" ELSE "user"]
        /\ masked' = Unlocked(how)
        /\ job' = IF how = "returns" THEN Repairing(k.t[sender].msg) ELSE job
        /\ UNCHANGED fixed

\* Mutant: the handler waits without a look at the wakeups counted so far.
ReceiveInterruptNoCount(l, timeout) ==
    LET s == Called(<<l, 0>>, 0)
        handler == l = CLOCK \/ k.int[l].pID = pID(k, Self)
    IN  /\ InProgram
        /\ k' = IF handler THEN Wait(s, l, timeout, "RECEIVE")
                ELSE SetReason(s, Self, "NOT_INTERRUPT_HANDLER")
        /\ at' = [at EXCEPT ![Self] = IF handler THEN "receive" ELSE "user"]
        /\ masked' = masked \ {Self}
        /\ UNCHANGED <<job, fixed>>

\* Receive from an interrupt: the handler takes a wakeup that was counted, or
\* waits for the next; everyone may sleep on the clock.
ReceiveInterrupt(l, timeout) ==
    LET s == Called(<<l, 0>>, 0)
        ready == l # CLOCK /\ k.int[l].wakeups > 0
        handler == l = CLOCK \/ k.int[l].pID = pID(k, Self)
    IN  /\ InProgram
        /\ k' = IF ~handler THEN SetReason(s, Self, "NOT_INTERRUPT_HANDLER")
                ELSE IF ready THEN SetReason([s EXCEPT !.int[l].wakeups = @ - 1], Self, "INTERRUPT_DONE")
                ELSE Wait(s, l, timeout, "RECEIVE")
        /\ at' = [at EXCEPT ![Self] = IF handler /\ ~ready THEN "receive" ELSE "user"]
        /\ masked' = masked \ {Self}
        /\ UNCHANGED <<job, fixed>>

\* A process that has the processor again leaves Send or Receive.
Resume ==
    /\ at[Self] \in {"send", "receive"}
    /\ at' = [at EXCEPT ![Self] = "user"]
    /\ job' = IF at[Self] = "receive" /\ Me.reason = "RECEIVE_DONE" THEN Repairing(Me.msg) ELSE job
    /\ UNCHANGED <<k, masked, fixed>>

-----------------------------------------------------------------------------
(* Faults.  The message of a fault is sent to the coordinator, who answers *)
(* with SetProcess(P_READY, REASON_EXCEPTION_DONE).                        *)

Exception(timeout) ==
    LET r == SendResult(pID(k, COORD), Max(Lengths), timeout, <<Self, "fault">>)
    IN  /\ InProgram
        /\ Self # COORD
        /\ Self \notin masked
        /\ k' = r.k
        /\ at' = [at EXCEPT ![Self] = IF r.how = "waits" THEN "fault send" ELSE "fault check"]
        /\ fixed' = fixed \ {Self}
        /\ UNCHANGED <<masked, job>>

\* The Send of the fault ends; until the next LockBus interrupts are on.
ResumeException ==
    LET done == Me.reason \in {"SEND_DONE", "EXCEPTION_DONE"}
    IN  /\ at[Self] = "fault send"
        /\ at' = [at EXCEPT ![Self] = IF done THEN "fault check" ELSE "fault failed"]
        /\ UNCHANGED <<k, masked, job, fixed>>

\* Mutant: the process blocks without a look at its reason.
CheckExceptionBlocks ==
    /\ at[Self] \in {"fault check", "fault failed"}
    /\ k' = Schedule(SetBlocked(k, Self, "EXCEPTION"))
    /\ at' = [at EXCEPT ![Self] = "fault"]
    /\ UNCHANGED <<masked, job, fixed>>

\* A fault that is not repaired yet blocks the process.
CheckException ==
    LET repaired == at[Self] = "fault check" /\ Me.reason = "EXCEPTION_DONE"
    IN  /\ at[Self] \in {"fault check", "fault failed"}
        /\ k' = IF repaired THEN k ELSE Schedule(SetBlocked(k, Self, "EXCEPTION"))
        /\ at' = [at EXCEPT ![Self] = IF repaired THEN "user" ELSE "fault"]
        /\ UNCHANGED <<masked, job, fixed>>

ReturnFromException ==
    /\ at[Self] = "fault"
    /\ at' = [at EXCEPT ![Self] = "user"]
    /\ UNCHANGED <<k, masked, job, fixed>>

-----------------------------------------------------------------------------
(* Interrupts.                                                             *)

InterruptsOn == at[Self] \in {"user", "fault check", "fault failed"} /\ Self \notin masked

\* A clock tick; the last one of a quantum schedules.
Clock(quantum) ==
    LET ticked == IF k.num_sleepers > 0 THEN UpdateTimers(k) ELSE k
    IN  /\ InterruptsOn
        /\ k' = IF quantum THEN Schedule(ticked) ELSE ticked
        /\ UNCHANGED <<at, masked, job, fixed>>

HwInt(l) ==
    LET handler == k.int[l].own_msgQn
    IN  /\ InterruptsOn
        /\ handler = l => k.int[l].wakeups < MaxWakeups
        /\ k' = IF handler # l
                THEN SetReady(RemoveMessage(k, handler), handler, "INTERRUPT_DONE")
                ELSE [k EXCEPT !.int[l].wakeups = @ + 1]
        /\ UNCHANGED <<at, masked, job, fixed>>

-----------------------------------------------------------------------------
(* Process management.                                                     *)

\* Only the coordinator has COORD_PRIVILEGE, and coord_set is 1.
Check == Self = COORD

\* A call of the running process that returns at once.
Call(s) ==
    /\ InProgram
    /\ k' = s
    /\ masked' = masked \ {Self}

ScheduleCall ==
    /\ Call(Schedule(k))
    /\ UNCHANGED <<at, job, fixed>>

\* The coordinator adds a process, or a thread of one, and starts it next.
AddProcessCall(priority, parent, fails) ==
    LET thread == parent # NULL
        s == AddProcess(k, priority, thread, parent, fails)
        p == FreeEntry(k)
    IN  /\ Check
        /\ k.num_processes < k.boot_max_processes
        /\ EmptyEntries(k) # {}
        /\ thread => fails # "AddMemory" /\ Live(parent) /\ k.t[parent].thread_owner = parent
        /\ Call(s)
        /\ at' = [at EXCEPT ![p] = "user"]
        /\ job' = IF fails = "" THEN <<"start", p>> ELSE job
        /\ fixed' = fixed \ {p}

\* SetProcess(P_READY) for the new process, or for the one whose fault is
\* repaired.  A process with too many faults is blocked, and nothing is done for
\* one whose page cannot be added.
SetProcessCall ==
    LET p == job[2]
    IN  /\ Self = COORD /\ at[COORD] = "user" /\ job # <<>>
        /\ \/ /\ job[1] = "start"
              /\ k' = SetReady(k, p, "NEW")
              /\ UNCHANGED fixed
           \/ /\ job[1] = "repair"
              /\ k' = SetReady(k, p, "EXCEPTION_DONE")
              /\ fixed' = fixed \cup {p}
           \/ /\ job[1] = "repair"
              /\ k' = SetBlocked(k, p, "EXCEPTION")
              /\ UNCHANGED fixed
           \/ /\ job[1] = "repair"
              /\ UNCHANGED <<k, fixed>>
        /\ job' = <<>>
        /\ masked' = masked \ {COORD}
        /\ UNCHANGED at

\* A process removes itself, or is closed by the coordinator.
RemoveProcessCall(p) ==
    /\ p = Self \/ Self = COORD
    /\ k.t[p].status \notin {"EMPTY", "PENDING"}
    /\ k.num_sleepers <= MaxSleepers
    /\ Call(RemoveProcess(k, p))
    /\ fixed' = fixed \ {p}
    /\ UNCHANGED <<at, job>>

\* The coordinator changes a priority, or does what the keyboard's pause and run ask for;
\* the keyboard takes any number, that of the coordinator itself included.
SetPriorityCall(p, priority) ==
    /\ Self = COORD
    /\ k.t[p].status \notin {"EMPTY", "PENDING"}
    /\ Call(SetPriority(k, p, priority))
    /\ UNCHANGED <<at, job, fixed>>

\* A new reason replaces the answer that Exception has yet to read.
Unread(p) == at[p] \in {"fault send", "fault check"} /\ k.t[p].reason = "EXCEPTION_DONE"

Pause(p) ==
    /\ Self = COORD
    /\ k.t[p].version > 0
    /\ Call(SetBlocked(Note(Note(k, "running", p = Self), "unread", Unread(p)), p, "BLOCKED"))
    /\ UNCHANGED <<at, job, fixed>>

\* SetProcess(P_READY) does not ask whether the process has been paused.
Run(p) ==
    LET e == k.t[p]
        queued == Note(k, "queued", e.status = "BLOCKED" /\ e.wait_msgQn # NULL)
        noted == Note(Note(Note(queued, "removed", e.status = "EMPTY"),
                           "running", p = Self),
                      "unread", Unread(p))
    IN  /\ Self = COORD
        /\ e.version > 0
        /\ Call(SetReady(noted, p, "USER_REASON_1"))
        /\ UNCHANGED <<at, job, fixed>>

AddResource(p, l) ==
    /\ Check
    /\ Live(p)
    /\ k.int[l].pID = NoPID
    /\ Call([k EXCEPT !.int[l].pID = pID(k, p)])
    /\ UNCHANGED <<at, job, fixed>>

RemoveResource(l) ==
    /\ k.int[l].pID = pID(k, Self) \/ Check
    /\ Call([k EXCEPT !.int[l].pID = NoPID])
    /\ UNCHANGED <<at, job, fixed>>

-----------------------------------------------------------------------------

\* Without the part, no call has a timeout and every priority is the normal one.
Waits == IF "timeouts" \in parts THEN Timeouts ELSE {0}
Levels == IF "priority" \in parts THEN Priorities ELSE {NORMAL_PRIORITY}

Messages ==
    \E target \in Targets, length \in Lengths, n \in Waits :
        Send(target, length, n) \/ Receive(target, length, n)

Interrupts ==
    \/ \E l \in Lines, n \in Waits : ReceiveInterrupt(l, n)
    \/ \E l \in HwInts : HwInt(l)
    \/ \E p \in Users, l \in HwInts : AddResource(p, l)
    \/ \E l \in HwInts : RemoveResource(l)

Faults ==
    \/ \E n \in Timeouts \ {0} : Exception(n)
    \/ ResumeException
    \/ CheckException
    \/ ReturnFromException

\* The steps of AddProcess that may fail.
Failures == {"AddMemory", "KernelStack", "UserStack", "AddProcessMec"}

Processes ==
    \/ \E priority \in Levels, fails \in Failures \cup {""} :
           AddProcessCall(priority, NULL, fails)
    \/ \E p \in Users : RemoveProcessCall(p)

Threads ==
    \E priority \in Levels, p \in Users, fails \in Failures \cup {""} :
        AddProcessCall(priority, p, fails)

Priority == \E p \in Users, priority \in Levels : SetPriorityCall(p, priority)

Pauses == \E p \in Slots \ {IDLE} : Pause(p) \/ Run(p)

Tick == \E quantum \in BOOLEAN : Clock(quantum)

\* After an event of k.astray the loops over a queue need not end where it ends: the
\* model goes on only in the part "astray".
Followed == k.astray = {} \/ "astray" \in parts

Step ==
    /\ \/ Messages
       \/ Resume
       \/ ScheduleCall
       \/ Tick
       \/ SetProcessCall
       \/ "interrupts" \in parts /\ Interrupts
       \/ "faults" \in parts /\ Faults
       \/ "processes" \in parts /\ Processes
       \/ "threads" \in parts /\ Threads
       \/ "priority" \in parts /\ Priority
       \/ "pauses" \in parts /\ Pauses
    /\ UNCHANGED parts

Next == IF Followed THEN Step ELSE UNCHANGED vars

Spec == Init /\ [][Next]_vars

-----------------------------------------------------------------------------
(* What no step reads any more does not tell states apart.                 *)

Waiting(p) == k.t[p].status = "BLOCKED" /\ k.t[p].reason \in {"SEND", "RECEIVE"}

view ==
    LET Seen(p) ==
            LET e == k.t[p]
                filled == at[p] = "receive" /\ e.reason = "RECEIVE_DONE"
            IN  IF e.status = "EMPTY"
                THEN <<e.version, e.own_msgQn>>
                ELSE [e EXCEPT
                        !.reason = IF at[p] # "user" \/ e.status = "BLOCKED" THEN @ ELSE "",
                        !.target = IF Waiting(p) \/ filled THEN @ ELSE NoPID,
                        !.length = IF Waiting(p) THEN @ ELSE 0,
                        !.msg = IF (Waiting(p) /\ e.reason = "SEND") \/ filled THEN @ ELSE NoMsg]
    IN  <<parts, [k EXCEPT !.t = [p \in Slots |-> Seen(p)]], at, masked, job, fixed>>

-----------------------------------------------------------------------------
(* Properties.                                                             *)

\* The processes a scheduling ring has to hold.
Members(q) ==
    {p \in Slots \ {IDLE} :
        IF q = "blockedQ"
        THEN k.t[p].status = "BLOCKED"
        ELSE k.t[p].status \in {"READY", "RUNNING"} /\ ReadyQ(k, p) = q}

\* What next reaches from p in n steps.
Ring(p, n) ==
    LET walk[i \in 0 .. n] == IF i = 0 THEN p ELSE k.t[walk[i - 1]].next
    IN  [i \in 1 .. n |-> walk[i]]

\* Every ready process is on the ring of its priority and every blocked one on
\* blockedQ, each once and linked both ways, after any sequence of Schedule,
\* SetProcess, AddProcess and RemoveProcess; the ring a process is taken off is
\* chosen by its status and priority at that moment.  Excepted is SetProcess(P_READY)
\* for the process that runs, which puts it on its ring a second time.
RingsAreSound ==
    "running" \notin k.astray =>
    \A q \in DOMAIN k.q :
        LET m == Members(q)
            ring == Ring(k.q[q], Cardinality(m))
        IN  IF m = {} THEN k.q[q] = NULL
            ELSE /\ k.q[q] \in m
                 /\ {ring[i] : i \in DOMAIN ring} = m
                 /\ \A p \in m : k.t[k.t[p].next].prev = p

\* Until one of the events of k.astray, and whoever waits for whom, in a circle or for
\* a process that has been removed: a process blocked in Send or Receive is on the
\* message queue of its target and on no other, once; nobody else is on one.
MessageQueuesAreSound ==
    k.astray = {} =>
    \A x \in Slots \cup Lines :
        LET w == Waiters(k, x)
            in == {w[i] : i \in DOMAIN w}
        IN  /\ in = {p \in Slots : Waiting(p) /\ k.t[p].target[1] = x}
            /\ Len(w) = Cardinality(in)
            /\ w # <<>> => own_msgQp(k, x) = w[Len(w)] /\ k.t[w[Len(w)]].wait_msgQn = x

\* A sender and a receiver that want each other do not both sleep, whichever came first,
\* whoever named ANY, whoever else waits for either of them, and whatever woke or timed
\* out in between, until one of the events of k.astray.  Two that both name ANY do not
\* meet: SearchMessages looks at the queue of any_ptr for a named target only.
NoMissedRendezvous ==
    k.astray = {} =>
    \A p, q \in Slots :
        /\ Waiting(p) /\ k.t[p].reason = "SEND"
        /\ Waiting(q) /\ k.t[q].reason = "RECEIVE"
        /\ k.t[p].length = k.t[q].length
        => ~ \/ k.t[p].target = pID(k, q) /\ k.t[q].target \in {pID(k, p), ANY}
             \/ k.t[p].target = ANY /\ k.t[q].target = pID(k, p)

\* The message in a receiver's buffer is the one of the process that Receive
\* will name as its sender, until one of the events of k.astray.
RightSender ==
    k.astray = {} =>
    \A p \in Slots :
        at[p] = "receive" /\ k.t[p].status # "EMPTY" /\ k.t[p].reason = "RECEIVE_DONE"
        => k.t[p].msg[1] = k.t[p].target[1]

\* Interrupt skips UpdateTimers when num_sleepers is 0, yet every tick counts
\* for every timed wait: num_sleepers never falls below the number of them.
TimersRun ==
    [][Tick => \A p \in Slots :
                  Waiting(p) /\ k.t[p].timer > 0 => k'.t[p].timer < k.t[p].timer]_vars

\* A process whose fault the coordinator has repaired does not stay blocked for
\* it, whether the answer comes before the Send of the fault has returned,
\* before the check of Exception, or after it, until one of the events of k.astray.
RepairedResumes ==
    k.astray = {} =>
    \A p \in fixed : ~(k.t[p].status = "BLOCKED" /\ k.t[p].reason = "EXCEPTION")

\* No handler waits for an interrupt that has been counted as a wakeup.
InterruptNotLost == \A l \in HwInts : k.int[l].wakeups > 0 => k.int[l].own_msgQn = l

\* "Assume this succeeds since we tested num_processes above": while
\* num_processes is below its limit the search of AddProcess finds an entry.
SearchSucceeds ==
    k.num_processes < k.boot_max_processes => EmptyEntries(k) # {}

\* "wake up each process waiting on pID_ptr": when a process has been removed nobody
\* goes on waiting for it.
RemovalWakesWaiters ==
    [][\A x \in Slots :
          k.t[x].status # "EMPTY" /\ k'.t[x].status = "EMPTY"
          => ~ \E p \in Slots : Waiting(p)' /\ k'.t[p].target = pID(k, x)]_vars
=============================================================================
