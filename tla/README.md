# TLA+ models and proofs for c_lang_project

The repository holds several C programs side by side. The largest and the most
concurrent is the **Pintos** teaching kernel (`src/src/bin/OS/pintos/src`,
written `P/` below): threads that are preempted by a timer, semaphores, locks and
condition variables, interrupt-driven devices, a page allocator, `malloc()` and
a file system. Next to it are a second kernel, **bluekernel**
(`src/src/bin/OS/bluekernel`), the programs of a book on **advanced data
structures** (`src/src/bin/books`), small **libraries** (`src/src/libs`),
**protothreads**, and examples of **paradigms** (`src/src/bin/paradigms`).

This directory models both kernels, from the scheduler of Pintos up to its file
system and from the process table of bluekernel up to its messages, and the
sequential programs and containers of the book and of the libraries, each against
the abstract type it implements. `PROJECT.json` lists every part of the repository
with what is modelled of it, the source lines behind each definition, the hazards
of the code, and for every checked property a mutation of the model that violates
it.

Contents: [inventory](#inventory) · [modules](#modules) ·
[runs](#runs-and-bounds) · [fairness](#fairness) · [proofs](#proofs) ·
[disagreements found](#where-the-code-and-its-comments-disagree) ·
[abstractions](#abstractions) · [not modelled](#not-modelled)

## Inventory

### Pintos

| part | state | operations | what is hard |
|---|---|---|---|
| scheduler (`P/threads/thread.c`) | ready list, each thread's status and its one list element, idle thread, ticks of the slice, next tid | create, block, unblock, yield, exit, tick | preemption at any instruction; a dying thread's page is freed by its successor; boot blocks before the idle thread is known |
| semaphores (`P/threads/synch.c`) | value, waiters | down, try-down, up (also from interrupt handlers) | a woken thread can find the value taken again |
| locks, condition variables (`P/threads/synch.c`) | holder, waiters; each waiter's semaphore on its own stack | acquire, try-acquire, release; wait, signal, broadcast | a signal between release and sleep; the life time of the stack element |
| interrupt queues (`P/devices/intq.c`) | ring buffer, one waiter per direction, a lock | getc, putc from threads and handlers | test and sleep against the handlers; wrap-around |
| serial port, input (`P/devices/serial.c`, `input.c`, `kbd.c`) | transmit queue, shared input buffer, interrupt enable register, UART | putc, flush, notify, interrupt handlers | polled and queued output keep one order; the register must follow both queues |
| disk (`P/devices/disk.c`) | per channel: lock, completion semaphore, `expecting_interrupt` | read, write, interrupt handler | the interrupt can come before the caller sleeps, or without a cause |
| page allocator (`P/threads/palloc.c`, `P/lib/kernel/bitmap.c`) | bitmap, lock of a pool | get and free groups of pages | freeing takes no lock |
| `malloc()` (`P/threads/malloc.c`) | descriptors with free lists, arenas | malloc, calloc, realloc, free | counts, page life time, size arithmetic |
| file system (`P/filesys`) | free map and root directory on disk, open inodes, files | create, remove, open, reopen, close, write, deny and allow writes | crash between two writes; removed but open files; failed allocations |
| console (`P/lib/kernel/console.c`) | recursive use of one lock | acquire and release around output | use before locks exist, in handlers, and in a panic |
| processes (`P/userprog`) | page directory, user memory | execute, exit, exceptions | order of steps against the timer interrupt |
| timer (`P/devices/timer.c`) | ticks | tick, sleep, delays | torn reads of a 64-bit counter |
| lists, hash tables, bitmaps, C library (`P/lib`) | their data structures | the usual | pure algorithms |

The parts stand on each other: locks on semaphores, semaphores on the scheduler;
the devices on semaphores, locks and disabled interrupts; `malloc()` on the page
allocator; the file system on the disk and on `malloc()`.

### Bluekernel

A message-passing kernel: a process table with two ready rings and a blocked
ring (`kernel/policy/process.c`), synchronous `Send()` and `Receive()` with
time-outs (`messages.c`), pages (`memory.c`), ownership of interrupts and ports and
the sending of faults to a coordinator (`resources.c`), and the hardware mechanisms
under them (`kernel/mechanism`); a server, drivers and user programs that are
clients of its messages. A process is a table entry that is linked into rings and
queues by its own pointers. What is hard: sender and receiver come in either order
and may time out or be removed in between; an entry is taken off a ring that is
chosen by its present status and priority; a fault may be repaired before its
report has returned; an interrupt may come before its handler waits; a table entry
may be claimed and never given back.

### Data structures and libraries

`books/advanced_data_structures` has stacks and queues (ch. 1), search trees (2,
3), interval, segment and range trees (4), heaps (5), union-find and lowest
common ancestors (6), tries (8) and hash tables (9): 39 programs, each with a
`main()` that reads commands. `libs/data_structs` has stacks, lists, queue, heap,
tree, graph and sparse matrix; `P/lib/kernel` lists and a hash table; `libs/lang`
an arena allocator, atoms, checked memory and exceptions; `ext-libs/protothreads`
stackless coroutines with a semaphore. All are sequential; what can be wrong is
what they compute after a long sequence of calls: order and balance conditions,
counts, forgotten or doubly used nodes.

## Modules

| module | models | state | a step is |
|---|---|---|---|
| `Threads` | `thread.c`, the semaphores of `synch.c`, preemption by `interrupt.c` | `status`, `ready_list`, `cur`, `idle_thread`, `thread_ticks`, semaphores' `value` and `waiters`, `pc`, `tid`, `next_tid` | a stretch with interrupts off, or one access to shared data with interrupts on |
| `Semaphore` | the promise of the semaphores, abstract | `value`, `downing` | one up, one sleep, one down |
| `Synch` | locks and condition variables, on `Semaphore` | `holder`, `waiters`, `popped`, `casting`, `value`, `pc` | one access to holder, list or semaphore |
| `InterruptQueue` | `intq.c` | `buf`, `head`, `tail`, the waiters, the lock, `pc` | from a call or wakeup to return or sleep |
| `BoundedFifo` | the promise of a queue, abstract | `q` | put, get |
| `Serial` | `serial.c`, `input.c`, the keyboard's handler, on `BoundedFifo` | `txq`, `buffer`, `ier`, `mode`, the UART | a call, an interrupt, a step of the UART |
| `Disk` | `disk.c` | `holder`, `expecting_interrupt`, `completion_wait`, `pc`, the controller's registers | one operation of a thread on the channel, an interrupt, a step of the disk |
| `AtomicDisk` | the promise of `disk_read()` and `disk_write()`, abstract | `contents`, `call`, `answer` | invoke, perform, return |
| `Palloc` | `palloc.c`, the searches of `bitmap.c` | `used_map`, `holder`, `groups`, `pc` | one bit |
| `Malloc` | `malloc.c` | `free_list`, `arena`, `used`, `blocks`, `moving` | one call, two for `realloc()` |
| `FileStore` | the promise of the file system, abstract | `named`, `content`, `handle` | one atomic call, or a crash |
| `Filesys` | `filesys.c`, `directory.c`, `inode.c`, `free-map.c`, `file.c` | `disk`, `dir`, `map_file`, `free_map`, `inode`, `file`, `call` | one write to the disk, or a crash |
| `KernelTable` | `kernel/policy/process.c`, `messages.c` of bluekernel | a record: the table with its pointers, the heads of the rings, the interrupt table, counters | (operators: one per C function, from kernel state to kernel state) |
| `Bluekernel` | system calls, clock, interrupts, faults (`resources.c`), the coordinator | that record `k`, `at`, `masked`, `job`, `fixed` | a system call up to its `Schedule()`, what follows when the process runs again, an interrupt |
| `Dictionary`, `Line`, `PriorityQueue`, `UnionFind` | the promises of the containers, abstract | a function, one or two sequences, a bag, a partition; `ans` | one call |
| `LeafTree`, `AvlTree`, `SearchTrees`, `RedBlackTrees`, `ABTree`, `SplaTree`, `SkipList` | ch. 2 and 3 | `tree`, `ans`, `nodes` | one call |
| `ArrayLines`, `LinkedLines` | ch. 1, `ch5/min_queue.c`, `libs/data_structs/array_stack.c` | `store`, `ans`, `nodes` or the pool of nodes | one call |
| `Lists` | `P/lib/kernel/list.c`; `list.c`, `list_stack.c`, `queue.c`, `circ_list.c`, `double_list.c` of `libs/data_structs` | nodes and pointers | one call |
| `Heaps` | ch. 5, `libs/data_structs/heap.c` | `store`, `ans`, `nodes` | one call |
| `IntervalTrees`, `ClassTrees` | ch. 4, ch. 6 | `store`, `ans` | one call |
| `Tries`, `HashTables` | ch. 8, ch. 9; `P/lib/kernel/hash.c`, `libs/data_structs/sparse_matrix.c` | `tree`, `ans`, `nodes` | one call |
| `Structures` | all of these, one at a time | `kind` says which | one call |

Variables and actions keep the code's names (`SemaDown` is `sema_down()`). A
thread's `pc` names the place in the code where it can be interrupted. In the
modules that hold several programs a prefix tells them apart (`LeHMerge` is
`merge()` of `ch5/left_heap.c`, `KL...` and `KH...` are Pintos's list and hash
table). `MC*` modules instantiate the models for TLC; `MCPintos`, `MCSynch` and
`MCDevices` hold systems that share no variable and choose one of them in the
initial state. In every module the operators
with a comment that starts *Mutant* are faulty versions of the definition below
them; nothing uses them but the mutations of `PROJECT.json`.

The layers are joined by the abstract modules. `Threads` is shown to implement
`Semaphore` (`SemaphorePromise`, checked and proved), and `Synch` uses `Semaphore`
and nothing of the scheduler. `InterruptQueue` implements `BoundedFifo`
(`IsFifo`), on which `Serial` is built. `Disk` implements `AtomicDisk`
(`IsAtomic`). `Filesys` implements `FileStore` (`ImplementsFileStore`). Each
structure implements the abstract module of its kind under a refinement mapping of
`Structures` (`dict`, `line` and `part`, `bag`, the classes).

## Runs and bounds

| run | instance | distinct states | shows |
|---|---|---|---|
| `pintos` | threads: 5, 1 client semaphore, slice 2, `MaxValue` 2, `MaxTid` 5; pool: 2 threads, 4 pages, groups up to 3; `malloc()`: 3 pages of 10 bytes, blocks of 2 and 4, 5 blocks at a time; files: 2 names, 2 files, 7 sectors, crashes, failing `malloc()` | 568 002 | the scheduler loses and doubles no thread, no wakeup is lost, tids are unique, semaphores keep their promise; no page is given twice or lost though freeing takes no lock; blocks are apart and big enough, arenas count right; the disk is sound at every moment, sectors are accounted for, calls are atomic |
| `synch` | monitor: 4 threads, 1 lock, 2 conditions; scheduler: 4 threads, `MaxTid` 4 | 67 255 | exclusion, right holder, stack elements outlive their use, no lost signal; signalled threads wake, wanted locks are taken; a ready thread runs; a semaphore does not stay positive with sleepers |
| `devices` | queue: 2 readers, 2 writers, handlers at both ends, ring of 3; serial port: queues of 2, 4 bytes; disk: 2 threads, 2 sectors, sound, failing and spurious hardware | 131 056 | every sleeper is known to the side that must wake it, FIFO; bytes leave once and in order, all is transmitted and read; reads are right, and with a sound disk calls are atomic and release the channel |
| `bluekernel` | 10 scenarios of 3 or 4 processes, 1 hardware interrupt, timeouts 0 and 1, 2 priorities, 2 versions of an identifier | 186 360 | until one of the [events that lead astray](#bluekernels-queues): rings and message queues stay whole; no rendezvous, repair, interrupt or tick is missed; senders are named rightly |
| `structures` | 49 containers, [see below](#the-structures) | 309 699 | each keeps the promise of its kind, its balance and its order, and loses no node |
| `intq_two_readers`, `disk_spurious`, `filesys_short`, `rb_delete`, `intv_tree`, `bluekernel_wait`, `bluekernel_full` | | | disagreements, [see below](#where-the-code-and-its-comments-disagree) |

Why the bounds are enough for the cases that matter:

* Five threads are the initial thread, the idle thread, a second creator and two
  new threads, so two `thread_create()` calls overlap in `allocate_tid()`, and a
  freed page is reused. The pages are numbered and a new thread gets the first free
  one (`FirstFit`), as from `palloc_get_page()`: which page it is matters to nothing
  but the tid the page had. `MaxValue` 2 lets a semaphore have more units than one
  woken thread takes. A slice of 2 distinguishes a tick from the end of a slice.
  The theorems hold for any numbers.
* Four threads in a monitor are a signaller, two waiters and an outsider who
  takes the lock between them.
* A ring of 3 holds 2 bytes: head and tail wrap and the queue is empty, partly
  full and full in every position.
* Four pages and groups of up to three fragment a pool; two threads are one
  that searches and one that frees beside it.
* Ten-byte pages with a two-byte header have arenas of 4 and of 2 blocks; sizes 8
  and 9 need one and two pages with their headers. `Width` 5 makes a `size_t`
  hold three pages.
* Seven sectors leave three to give away: a second file competes with the first
  for sectors, and a removed open file with a new one.
* In bluekernel three processes besides idle are two that wait on a third one's
  queue, or a sender, a receiver and one that is removed meanwhile; two versions
  of an identifier are the present and an outdated one. The parts of the kernel
  (time-outs, faults, creation and removal, threads, interrupts, priorities,
  pauses) run together in ten combinations; all of them at once is more than TLC
  finishes.

Deadlock checking is off where the system may stop: all threads may wait in a
monitor (`synch`), a failed `ASSERT` or a `PANIC` halts the machine (`devices`), a
program ends or a bounded input is used up (`structures`).

Two runs use a `VIEW`. `Bluekernel`'s leaves out the fields of a table entry that
no step and no invariant reads any more: the reason of a process that is in its
program, the target, length and message of one that does not wait. `Structures`'
leaves out the last answer, which no call reads, but for the fact that the program
has ended, and the count of nodes of the splay tree, which grows without end. An
action property is checked on every step TLC generates, those into a state whose
view is known included, so `ans` and `nodes` are judged where they change.

Safety properties worth knowing (the modules state all of them in words):
`ElemOnOneList` (a thread's single list element is on at most one list, the one
its status says), `NoLostWakeup` (while threads sleep on a semaphore, its value is
covered by woken threads on their way), `ElemOutlivesWait` (no signaller holds an
element whose stack frame is gone), `TransmitArmed` (whenever a byte waits for
the UART, an interrupt is pending or will be), `DiskIsSound` (no crash leaves an
entry whose sectors are free or shared), `NoMissedRendezvous` (a sender and a
receiver that want each other do not both sleep), `RepairedResumes` (an answer to
a fault counts whenever it comes), `TimersRun` (a tick reaches every timed wait,
though ticks are skipped when `num_sleepers` is 0).

### Bluekernel's queues

A message queue is a chain through the entries of those who wait, and nothing but
the pointers tells who is on it. Some calls that the code admits leave these
pointers, or an answer, in a state the rest of the code does not reckon with. The
model makes these calls like any other, and records the first of them in
`k.astray`:

| event | call | what it leaves |
|---|---|---|
| `self` | `Send()` or `Receive()` with the caller's own identifier waits (`messages.c:499`) | a queue that looks empty |
| `neighbour` | `RemoveMessage()` of a process at the end of a queue whose head waits on that process's queue (`messages.c:535`, `547`) | the wrong pointer changed |
| `reused` | `AddProcess()` takes an entry on whose queue processes wait that sent to it after its removal (`process.c:302`) | waiters that no queue knows |
| `queued` | `SetProcess(P_READY)`, which the keyboard's *run* can ask for any process number (`keybd.c:355`, `server.c:240`), for one that waits for a message | a ready process on a message queue |
| `removed` | the same, for a process that is gone | an empty entry on a ready ring |
| `running` | the same or *pause*, for the coordinator, who carries it out | an entry twice on a ring, a blocked process that runs |
| `unread` | *run* or *pause* between the answer to a fault and the check of `Exception()` (`resources.c:307`) | a process blocked for a fault that is repaired |

`MessageQueuesAreSound`, `NoMissedRendezvous`, `RightSender` and `RepairedResumes`
say what holds until such an event, `RingsAreSound` what holds until `running`.
They cover everything else: processes that wait for each other in a circle, that
wait for a process that has been removed, whose timers run out, who are paused and
run again. Beyond an event the loops over a queue need not end, so the run
`bluekernel` stops there; in the part `astray` the model goes on, and there
`bluekernel_wait` finds a waiter that is never woken.

### The structures

`Structures` runs one program with one user. A user of a balanced tree or of
Pintos's hash table may first insert the keys of a script, in ascending or
descending order, so that a tree of several levels or a table about to change its
size is met, and then gives any commands with a few keys. 49 programs and their
scripts make 84 initial states. What the bounds are chosen to reach:

| structures | bounds | reached |
|---|---|---|
| search trees, ch. 2 and 3 | scripts of 11 keys, commands with 6 of them | single and double rotations, splits, borrowing from and joining with both neighbours over two levels, deficiency up to the root |
| skip list | 2 levels, every draw of a key's level | lists that are sublists of each other in all ways |
| tries | 4 words over 3 characters that share halves, one a prefix of another | shared paths, branches that vanish, reference counts |
| hash tables, ch. 9 | `MAXP` 5, 3 buckets, 4 keys; perfect hashing of 3 keys modulo 11 | chains in one bucket, rebuilding, every hash function of the family |
| Pintos's hash table | 15 keys, then 8, 16 and 17 | both changes of size at their thresholds, with `malloc()` failing; elements of one bucket that part |
| sparse matrix | 3 x 3 | every order of rows and columns |
| stacks, queues | 3 items, 4 at a time; arrays of 6, blocks of 2; 7 items where an array is copied while it is used | wrap-around, edges of blocks, a copy that is behind |
| lists | 4 items at a time, two lists, items that compare equal | splices of every range, stable sorting, runs of equal items |
| heaps | 3 keys, 5 at a time | merges of trees of unequal rank, empty heaps |
| interval, segment and range trees | 3 intervals or points over 4 or 3 places | nested, overlapping and equal intervals |
| weighted intervals | 3 intervals over 5 places, weights of both signs | rotations of nodes with summands |
| union-find | 9 items, neighbours joined | class trees of height three, compression over two steps |
| common ancestors | 6 nodes | forward pointers of 4 steps |

Where a program breaks its promise the exception has a name in `Structures`, is
as narrow as the code allows, and is listed
[below](#where-the-code-and-its-comments-disagree): `StaleAnswer`, `Killed`,
`Dangles`, `StackLeft`, `Crashed`, `TakesLast`, `HeapException`, `HeapCrashed`,
`JoinedAgain`. They, and the nodes that two `destroy()` functions leave, are all that
is excepted.

## Fairness

Only the Pintos models assume any; the calls of `Structures` and the processes of
`Bluekernel` promise nothing, and their properties are safety properties.

* `Threads`: weak fairness of `Kernel` (a thread inside a kernel function goes on,
  as the CPU executes instructions) and strong fairness of `TimerInterrupt` (the
  interrupt controller latches the timer's interrupt, so it is delivered if
  interrupts are enabled again and again). Clients are not fair: a thread may
  loop for ever, and preemption must still serve the others.
* `Synch`: weak fairness of each thread's steps inside an operation, which
  `ReadyThreadRuns` justifies. Which thread gets a free lock is open in the code (a
  newcomer may be faster than the one woken), so there is no strong fairness and no
  claim that each thread gets the lock; `LockIsTaken` says somebody does.
* `Serial`: the UART goes on transmitting, its interrupts are delivered, sleepers
  that were woken return. `AllTransmitted` is for at most `MaxBytes` bytes: writers
  with interrupts off could go on without end and starve a sleeping one.
* `Disk`: the disk answers, its interrupt is delivered, threads go on.

## Proofs

`tlapm` checks these for every number of threads, semaphores and conditions, and
every time slice, from the assumptions that are named `ASSUME`s of `Threads` and
`Synch`: the special threads and semaphores are distinct members of their sets,
`NULL` is none of them, `Thread` is finite, the slice is positive.

| theorem | module | argument |
|---|---|---|
| `SchedulerInvariant`, `ElemOnOneListHolds`, `NoThreadForgottenHolds`, `IdleNeverQueuedHolds` | `ThreadsProofs` | `IInv` is inductive |
| `SemaphoreRefinement` | `ThreadsProofs` | each step is a step of `Semaphore` or leaves `value` and `downing` alone |
| `NoLostWakeupHolds` | `WakeupProofs` | `AwakeCoverValue` beside `IInv` |
| `TidsUniqueHolds` | `TidProofs` | `TidInv` beside `IInv` |
| `MonitorInvariant`, `MutualExclusionHolds`, `ElemOutlivesWaitHolds`, `NoLostSignalHolds` | `SynchProofs` | `MonitorInv` is inductive |

**`IInv`** = types, `ElemOnOneList`, `NoThreadForgotten`, `PcInv` and `IdleInv`.
The two safety properties are not inductive alone. `PcInv` says what a place in
the code implies: a thread inside `sema_down()` names its semaphore, a thread
inside `thread_create()` names a blocked new thread that no other creator has.
`IdleInv` says that until `idle_thread` is set, the thread that will set it is
ready or running; without it `schedule()` might have nothing to switch to during
boot. `QueueLemmas` has the facts about FIFO queues without duplicates;
`ThreadsLemmas` says what `schedule()`, `thread_block()`, `thread_unblock()` and
one turn of `sema_down()` and `sema_up()` do to the invariant; `ThreadsProofs` has
one step per action.

**`AwakeCoverValue`**: while the waiters of a semaphore are not empty, its value is
at most the number of threads inside `sema_down()` on it that are not on the
list. A wakeup adds one to both sides; a thread that takes a unit removes one from
both; one that queues again does so only at value 0.

**`TidInv`**: the semaphore of `tid_lock` is 0 or 1, and 0 whenever a thread is
inside; at most one is. Every live thread's tid is below `next_tid`, except
between the load and the store of `next_tid++`, where it is equal to it.

**`MonitorInv`** = types, exclusion, right holder, life time of the elements, no
lost signal, and how the lock's semaphore and the signallers' local variables go
with the places in the code. The proof is split into what concerns the lock and
what concerns the conditions.

Only model-checked: liveness (fairness and `ENABLED` are out of this prover's
reach), and everything about queues, devices, memory, files, bluekernel and the
structures. Most of the structures are recursive operators on trees, about which
nothing can be proved here for want of induction; their modules hold no theorems.

## Where the code and its comments disagree

Seven runs expect a violation:

* `intq_two_readers`: `intq_getc()` tests for emptiness before `lock_acquire()`,
  which may sleep, and not again afterwards; with two readers the second one can
  enter `wait()` with bytes in the queue, and `wait()`'s own assertion fails.
* `disk_spurious`: nothing clears `expecting_interrupt`, so that after the first
  command a spurious interrupt counts as a completion, contrary to the flag's
  comment; a later `disk_write()` returns before the disk has acknowledged it.
* `filesys_short`: `lookup()` relies on "`inode_read_at()` will only return a
  short read at end of file"; it also returns one when `malloc()` fails for its
  bounce buffer, and then `dir_add()` adds a name that is already there.
* `rb_delete`: the rebalancing loop of `delete()` in `ch3/rb_tree.c` takes the
  deficient node and, when it is black, also its parent off the path stack. When
  the deficiency moves up, the next turn works on the grandparent, and the paths
  of the tree differ in their number of black nodes from then on. It takes twelve
  keys in ascending order and one deletion.
* `intv_tree`: `main()` of `ch4/intv_tree.c` prints "the following intervals contain
  key" and each interval as `[low,up[`. `find_intervals()` misses an interval whose
  upper end is a node's key when the way to the left ends in a leaf ([1,2[ alone is
  not found for 1), misses those behind one that ends too early, since the right
  lists are in ascending order, and returns intervals that end at the key
  (`IntervalsContainKey`).
* `bluekernel_wait`: a process that waits on its own queue makes it look empty, and
  `RemoveMessage()` tells the next waiter of a queue from the queue's head by a
  pointer that may hold by chance when processes wait on each other. Either way a
  waiter drops out, and `RemoveProcessMessages()`, which is to "wake up each process
  waiting on pID_ptr", leaves it asleep for a process that is gone.
* `bluekernel_full`: when `AddPage()` fails for a stack, `AddProcess()` returns with
  the entry `PENDING` and not counted. After enough failures there is no empty entry
  while `num_processes` is below its limit, and the search of which the comment says
  "Assume this succeeds since we tested num_processes above" runs to the end of the
  table. In the model `AddProcess` takes place only where there is an empty entry.

Others were met while modelling and have no run of their own.

*`malloc()`.* `calloc()` looks for an overflow of `a * b` by comparing the product
with its factors (`P/threads/malloc.c:158`), but a product that wraps need not be
smaller than either: with `Factor = {6, 7}` at `Width = 5`, 6 x 7 wraps to 10,
passes, and `EnoughRoom` does not hold. And `size + sizeof *a` in `malloc()` (line
104) wraps for sizes within a header and a page of the largest `size_t`: with
`Size = {31}` one page is asked for where four are needed. The sizes and factors of
the run `pintos` stay below those.

*Bluekernel.*
* `Send()` and `Receive()` return without `UnlockBus()` when they find no target:
  the caller goes on with interrupts off until its next system call (`masked`).
  `LockBus()` does not wait even so: its `cmpxchg` loads the lock into `al` when it
  fails, so that the second turn of its loop succeeds.
* Two processes of which one sends to `ANY` and the other receives from `ANY` do not
  meet: `SearchMessages()` looks at the queue of `any_ptr` for a named target only
  (`messages.c:420`). No comment says that they should.
* The events of [`k.astray`](#bluekernels-queues). A priority change or removal of a
  `PENDING` process follows a null pointer.
* `num_sleepers` counts a removed process that slept for ever; timers then run
  when none is needed, which `TimersRun` allows.

*Data structures.*
* `ch3/t_rb_tree.c`: `delete()` tests a pointer at line 339 and follows it at 353
  whatever the test said; the program ends there (`Killed`).
* `ch8/ar_n_trie.c`: `delete()` of the last key frees the node the root points to
  (`Dangles`).
* `ch1/shd_stack.c`: `pop()` of the last item while no copy is being made takes
  0 = 0 for a complete copy (line 78); the base is null, and the next `push()`
  follows it (`Crashed`).
* `ch1/ar_queue.c` takes two items less than its size.
* `ch3/a_b_tree.c` and `ch2/triv_tree.c` answer queries of an emptied tree with
  what was there (`StaleAnswer`); `ch3/spla_tree.c` loses the nodes of its stack
  with each search that fails (`StackLeft`).
* `ch3/a_b_tree.c`, `ch3/skip_list.c` and the tables of ch. 9 accept a key twice;
  the user inserts new keys only.
* `ch6/am_u_find.c` and `wc_u_find.c`: a join of two items of one class makes the
  root point to itself, and `same_class()`, which `main()` asks next, does not end
  (`JoinedAgain`).
* The heaps of ch. 5 differ on an empty heap: some end the program (`HeapCrashed`),
  `left_heap.c` answers from it; `tree_heap.c` ignores a key it has (`HeapException`).
* `ch9/perf_hash.c:82` draws a new factor only for buckets it finds marked, and
  marks by the index of the key: it may go round for ever.
* `libs/data_structs`: `CircList_delete()` returns the data of the first node and
  deletes the last (`TakesLast`), `CircList_destroy()` frees one node,
  `Queue_destroy()` of an empty queue leaves its header, `sparse_matrix.c` frees
  the address of a local variable (`Killed`), `Heap_delete()` of another place than
  the first sifts in one direction only (the user deletes the first).
* `libs/lang/arena.c`: a new arena has no space left, and the loop that would get
  some runs only while there is space; `libs/data_structs/graph_adj_list.c`
  requires vertex numbers at or above the number of vertices.

## Abstractions

* One CPU, as in the code. Compilers and memory order are left out: `barrier()`
  and `intr_disable()` keep accesses in order on one CPU.
* `Threads`: priorities are stored and never used by this scheduler, so they are
  left out. Stack overflow and `palloc_get_page()` failing in `thread_create()`
  change nothing but the caller's result. Device handlers do nothing but up a
  semaphore. `MaxTid` and `MaxValue` bound only the clients.
* `Synch` has one lock; locks do not interact but through their callers.
* The UART and the ATA disk are outside the repository and are modelled from how
  the drivers use them. Interrupts of the UART are taken as levels. The loops of the
  serial handler run at most once per interrupt, as the UART holds one byte each
  way. The disk's time limits are left out (`wait_until_idle()` waits 1000 times 10
  microseconds, where its comment says 10 seconds), and so are detection and
  identification of disks at boot.
* The keyboard is an action of `Serial` that puts a key into the buffer; the
  translation of scan codes is left out.
* `Serial` lets one thread at a time into `serial_putc()` with interrupts on, as
  the console's lock does.
* `Palloc` has one pool; the addresses of the two pools are left out.
* `Malloc`: a call is one step, since the descriptor's lock covers it; the page
  allocator takes any fitting place, or fails, as frees run beside its search.
* `Filesys`: one call at a time; formatting is part of the initial state; the
  directory and the free map have one data sector each, so each of their writes is
  atomic; files are written in whole sectors. `lost` records sectors that a crash,
  or a `filesys_create()` whose `dir_add()` fails, leaves marked for ever:
  the code does not free the data sectors then, and `MapIsRight` says that nothing
  else is lost. A call that fails without changing anything is no step.
* `Bluekernel`: a system call runs with interrupts off, so it is one step up to the
  `Schedule()` in it. `CheckCurrent()` lets every call through; the callers in the
  model are those of `server/` (the coordinator creates, starts, pauses,
  prioritises and removes; a process removes itself). Parents of threads own
  their address space. The coordinator does not fault and is not removed. Versions
  of identifiers are 1 or 2; the target of a message is `ANY` or any identifier that
  a process has had. Left out: I/O ports, thread ranges of
  a message, the lists of children, the accounting of memory.
* The containers: keys are numbers, and a key's object is a function of the key, so
  that a wrong object shows. Words are numbers with a spelling; the two halves of a
  character that `ch8/li_n_trie.c` and `al_r_trie.c` use are kept. Random draws are
  nondeterministic choices. Structures whose pointers only ever form a tree are
  values; lists, the pool of nodes and the trie with the dangling root have
  explicit nodes. Products of the hash functions fit an `int` only for keys below
  `MAXP`, and the keys are.

## Not modelled

`PROJECT.json` gives the reason for each part. In short:

* Hardware set-up and pure output: boot code, descriptor tables, screens, the
  formatting and logging of both kernels, build tools. Device detection of the
  disk and the translation of scan codes are left out of parts that are modelled.
* Clients of what is modelled: tests, example programs, the file system's
  command line, the drivers and user library of bluekernel.
* `P/userprog` has a skeleton without system calls. The order of `process_exit()`
  against the timer (it must leave the page directory before it frees it,
  `process.c:112`) would need a model of the page tables.
* The time limits of `P/devices/disk.c`: a wait that gives up (line 482) goes on as
  if the disk were idle. The model's disk answers in time or fails.
* Overlapping opens of one inode (`P/filesys/inode.c:130`): `Filesys` makes one
  call at a time. Neither inodes nor directories have a lock, so overlapping calls
  interleave at every disk access; the state space is beyond a useful bound.
* Operations nobody calls: `delete()` of the trees that ch. 4 and 6 use as
  indexes, `merge()` and `decrease_key()` of `ch5/fibo_heap.c`.
* `libs/data_structs/binary_tree.c` and `graph_adj_list.c`: what a call may do
  depends on nodes that the client holds. `libs/lang`, `libs/algorithms`, the C
  library of Pintos, protothreads: sequential utilities and macros on which no
  modelled part relies.
* `paradigms`: examples of styles. `tiny_c` compiles a toy language; what its
  compiler should do is defined by nothing but the compiler.
