# KOS kernel: TLA+ models and proofs

KOS is a small multiprocessor kernel in C++ and x86-64 assembly (`src/src`).
This directory holds TLA+ models of its parts, configurations that let TLC check
them on small instances, and theorems about them that TLAPS checks for all
instances.  `PROJECT.json` lists components, runs, mutants, the map from
definitions to source lines, findings, hazards and theorems.

Run a check with `tlc -config X.cfg MCmodule` and a proof with `tlapm M.tla`.

## 1. The system

| Part | Source | State | Operations |
| --- | --- | --- | --- |
| Blocking machinery | `runtime/BlockingSync.h`, `Thread.h/.cc` | thread state word, `BlockingQueue`s, `Timeout::queue`, their locks, `UnblockInfo` on the stack of a suspended thread | block, timed block, sleep, resume, `checkExpiry`, cancel |
| Semaphore, Mutex, OwnerLock | `runtime/BlockingSync.h` | counter; owner and recursion counter | P, tryP, V; acquire, tryAcquire, release |
| MessageQueue | `runtime/SyncQueues.h`, `generic/Buffers.h` | ring buffer, two slot counters, two queues | send, recv and the try variants |
| Scheduler | `runtime/Scheduler.cc`, `RuntimeImpl.h` | per processor: ready queues, `readyCount`, running and idle thread | suspend, resume, yield, preempt, terminate, `switchThread`, idle loop, wake and preempt IPIs |
| Process | `kernel/Process.cc`, `runtime/JoinableThread.h` | thread store, join state and result pointer of each thread | createThread, exitThread, joinThread, exit, destroyThread |
| Open files | `runtime/SynchronizedArray.h`, `generic/ManagedArray.h`, `world/Access.*` | handle table, use counts, offsets | open, close, read, write, lseek |
| Memory | `kernel/AddressSpace.h`, `FrameManager.*`, `MemoryManager.h`, `machine/Paging.h` | page table, invalidation list, frame bitmaps, block stores | map, unmap, fault, enter, leave, alloc, release |
| Data structures | `generic/*.h` | bitmaps, region sets, embedded lists | pure operations |
| Processor state | `machine/Processor.h`, the assembly wrappers | lock count, interrupt flag, gs, TSS, registers | lock, unlock, entries to and exits from the kernel |
| Interrupts and start | `machine/Machine.cc`, `boot.S` | `irqMask`, handlers, I/O APIC pins; processors being started | registration, handlers, interrupt thread; initialisation |
| Devices and firmware | `devices/*`, `machine/ACPI.h`, `kernel/Multiboot.cc` | decoder state, screen lines, tables | scan codes to keys, output, walks over tables |
| User library | `ulib`, `include/pthread.h` | Benaphore, pthread objects | pthread calls over system calls |
| Debugger stub | `gdb/Gdb.cc`, `GdbAsm.S` | tickets, state of each core, breakpoints, session | trap, stop, request loop, resume |

How they interact.  Semaphore, Mutex, MessageQueue and JoinableThread keep
their threads on BlockingQueues; a BlockingQueue puts a thread to sleep with
`Scheduler::suspend` and wakes it with `Scheduler::resume`; the RTC interrupt
wakes threads whose timeout has expired, wakes the interrupt thread and sends
preemption IPIs round robin; `Process::exit` cancels threads wherever they are.
`switchThread` destroys finished threads and with the last one the process.
Address spaces are entered in `switchThread` and give back frames when every
core has passed an interrupt or left.

What makes it hard:

* a blocked thread is fought over by wakers, the timer and cancellers, none of
  which holds a common lock; the state word decides (`Thread.h`);
* objects on queues live on the stacks of other threads;
* batons are passed: a token, slot or lock goes to a thread that runs later,
  or times out, or is cancelled;
* two kinds of spin locks nest, in interrupt handlers, too;
* code goes on after a context switch, possibly on another processor, with
  local variables from before;
* a processor may halt just when work arrives;
* translations outlive the page table entries they came from;
* processors start one after another over one stack, told and acknowledged
  through one variable.

## 2. Modules

| Module | Models | Role |
| --- | --- | --- |
| `BlockingSync` | BlockingQueue, Timeout, Thread::block/unblock/cancel | the core; open: clients decide who blocks where |
| `Semaphore`, `SemaphoreSpec` | Semaphore | client of the core; abstract token counter |
| `Mutex` | Mutex and OwnerLock | client of the core |
| `RingBuffer`, `MessageQueue`, `ChannelSpec` | RingBuffer, MessageQueue | client of the core; abstract bounded channel |
| `ManagedArray`, `Process` | ManagedArray, Process, JoinableThread | client of the core |
| `Scheduler` | Scheduler, idle loop, IPIs | detailed context switch |
| `LocalProcessor` | lock count, interrupt flag, gs, TSS | kernel entries and preemption at any instruction |
| `Context` | `isr_wrapper.S`, `Stack.S`, `syscall_wrapper.S`, `GdbAsm.S` | assembly as functions on registers and stacks |
| `AddressSpace` | AddressSpace, PageInvalidation | one space on several cores |
| `Paging` | Paging, cloning and clearing of page tables | the tables and their recursive entry |
| `Frames` | RegionSet, FrameManager | physical memory |
| `Structures` | HierarchicalBitmap, EmbeddedList, block stores | pointer and bit operations against sets and sequences |
| `Interrupts` | IRQ registration, handlers, `asyncIrqLoop`, RTC tick | |
| `Boot` | `initBSP`, `initBSP2`, `initAP`, `boot.S`, `kmain` | order of the steps, start of the processors |
| `Files` | SynchronizedArray, ManagedArray, FileAccess, file system calls | open files of a process |
| `Pthread` | Benaphore, pthread mutex and condition | over kernel semaphores |
| `Keyboard`, `Screen`, `Firmware` | scan code decoder; screen segments; multiboot, MADT, PCI, ACPI mappings | |
| `Gdb` | the stub | tickets, all-stop, request loop |
| `BlockingSyncProofs`, `SemaphoreProofs`, `MutexProofs`, `MessageQueueProofs`, `ProcessProofs`, `SchedulerProofs`, `FilesProofs` | | inductive invariants, lemmas, theorems |
| `MachineProofs` | | the same for `LocalProcessor`, `Boot`, `Gdb` and `Pthread` |
| `MC*` | | instances for TLC |

Definitions that start with the name of another one and an underscore
(`ExpiryVisit_NoCAS`) are mutants: plausible bugs, not part of the system.
Each shows that some property notices the bug.  A property that is a
conjunction over cases (`FirmwareExact`, say) has a mutant for most of them.

### BlockingSync and its clients

`pc` says where each thread (and the timer interrupt, `Timer`) is.  `run` is
client code without locks; `held`, `missed` and `walk` are inside the critical
section of a `bLock`; `spinTimeout` and `held2` are the two stages of a timed
block, which takes `Timeout::lock` inside `bLock`; `cancelTimeout`, `resume`
follow the compare-and-swap of a waker; the `x...` points belong to
`Thread::cancel` and `checkExpiry`; `suspended` and `ready` are states of the
scheduler.  `where`, `timed`, `deadline`, `timedOut` are the fields of the
`UnblockInfo` on the stack of a suspended thread.  `victim[a]` is the thread
whose state word actor `a` has won, `fire` the timer's `fireList`.

Each lock acquisition is a step of its own where another lock is held or more
than one access follows.  `EmbeddedList` is a sequence, `Timeout::queue` (a
multimap) a set of threads with keys in `deadline`, visited in key order.  The
walk of `resume` is one step per entry: other actors change the states of the
entries while it goes on, the queue itself only under the lock it holds.

The clients extend `BlockingSync`, conjoin its actions with updates of their
own variables, and add the call a thread is in.  `Semaphore` implements
`SemaphoreSpec`, whose state is the number of tokens (the counter plus what
has been passed and not yet returned from), the outcome of each call, and the
V operations that have started; P takes a token atomically, a timeout takes
none, a cancelled thread may take one with it.  In `Mutex`, `owner` is written
by the walk itself, as in the code, where `resume` gets a reference to the
field; `Fence` is the list's end.  `MessageQueue` implements `ChannelSpec`
under the mapping `chan <- Contents(ring)`.

`Process` adds the wait condition of each thread as a queue protected by
`threadLock`, the thread store, join states and result pointers.  A thread's
exit value is the thread itself, so that a wrong result shows.  `exit()` goes
through the store one entry per step, with `threadLock` held.  The test in
`postResume` and `destroyThread` are two steps, since the latter spins for the
lock.  Threads also block on a queue `Elsewhere` (a semaphore).

### Scheduler and processor state

In `Scheduler`, `cpc[c]` is the point in `switchThread` where processor `c` is;
`this`, `target`, `prev` are its local variables; `frame[t]` is the `this` of
the call that thread `t` left by `stackSwitch` and returns from later.  `pend`
models that `getScheduler()` is read with interrupts enabled and used
afterwards; `owe` that `enqueue` sends the IPI after it has released the lock.
Blocking is reduced to a thread that suspends and may be woken by anybody once
its `bLock` is released; `Ops` says which operations each thread performs.

`LocalProcessor` takes `lock()` and `unlock()` apart into test, `cli`/`sti` and
count, with interrupts, system calls and faults at every instruction where they
are possible; a thread preempted there goes on on any processor.  `nesting` is
a history variable: the locks that the code of a thread has taken.  `Context`
has no concurrency: each wrapper is a function on a register file and a stack,
evaluated for each of the 256 vectors.

### Memory

`AddressSpace` is one space, the kernel's or a process's, with the range
allocator (`getVmRange`, `putVmRange`), regions that are mapped at once, lazily
or as guard, page faults, and `PageInvalidation` records with the count of cores
that have yet to pass them.  `tlb[c]` is what core `c` has cached.  A page table
is a function from pages to entries.  Two faults on the same lazy page may race
(`contended`), and frames the code does not give back are kept in `leaked`.
`Paging` has the tables themselves: four levels of five entries, reached through
the recursive entry of the top-level table, so that each access is translated by
the tables it changes; pages of two sizes are mapped, found, unmapped and faulted
in, and a space is cloned from the kernel's, cleared and destroyed.  A page that
others may have cached is marked first (`posted`) and retired later; what the
only active core unmaps is never released (`forgotten`, `AddressSpace.h:129`).
A page is mapped where nothing is in use, as `getVmRange` provides; what becomes
of an entry that is present all the same, the code's assertion decides
(`pg.over`).  `Frames` goes on after memory has run out: `lplock` is kept, and
whoever needs it is `stuck`.  `ReadErased` is the read of `it->first` after
`erase(it)`: any value may come back, and then the run is over (`stale`,
`corrupt`).
`Frames` and `Structures` model each operation as the code does it (neighbour
merging, early stops between bitmap levels, links in both directions) and
compare the result with a set or a sequence kept beside it.

### Interrupts and start

`Interrupts` notes device interrupts in `irqMask`; the interrupt thread finds
and clears a bit, then runs the list of handlers node by node, while drivers
register and deregister.  `owed` is a history variable: interrupts that came
since their handlers last began.  `Boot` lists the initialisation steps in the
order of the code, each with what it needs, provides and takes away, and starts
the other processors in between; an AP draws its ticket, waits, uses the boot
stack and overwrites `apIndex`.  The boot processor stands anywhere in the table.
It looks at `apIndex` and the clock only: a Startup IPI may have no effect, and an
AP that is slow is sent further Startup IPIs, which it ignores, and in the end an
INIT, which resets it wherever it is.  `late` notes that this hit an AP that had
drawn a ticket, which is lost with it.

### Files, user library, devices, debugger

`Files` splits `store()` and `release()` where the code works outside the
lock; with `Smp` the update of a check bit, a word shared with other bits, is a
load and a store.  With one processor (`Smp = FALSE`) it is one instruction as
far as other threads can see.  `Pthread` has one step per atomic operation and
per system call.  `Keyboard` is driven by a typist, whose keys reach the driver
as the bytes the device really sends, with acknowledgements in between.
`Firmware` holds one table per initial state and evaluates the walks on it; its
`AcpiOsMapMemory` takes pages from `getVmRange`, where pages that wait for a core
to invalidate them (`awaited`) are not free yet.

`Gdb` follows a core from the exception to its resumption: ticket, turn,
stopping the others, request loop, the `vCont` decision and the hand-over of
the turn.  Tickets are relative to `serving`.  A request for memory is two steps:
between them `gdbFaultHandlerEnabled` is set, and a core that still runs may take
a fault of its own.  The front end is external: it sends one request at a time,
for unmapped addresses, too.

## 3. Runs

Components that share no state are checked in one run: a variable `part`,
chosen initially, says which of them runs while the others rest, so the states
of the run are the sum, not the product, of theirs.  To TLC the next-state
relation of such a run is one action; that each action of each part happens is
seen from its coverage of expressions (`-coverage 1`).  In `core`, `kernel`
and `debug` the only branch that never does is the failed assertion of `vm_range`, in
`machine` assertions of `Files` that hold on one processor, and what the small
instances of `Scheduler` and `AddressSpace` leave to `kernel` and `core`.

| Run | Parts and instance | Result |
| --- | --- | --- |
| `core` | 3 threads, 1 queue, timer, clock 0..1, one thread cancels; as any client or a semaphore. 2 processors, 3 threads, 2 nested locks. An address space of 3 pages and 2 frames on 2 cores, one of which maps | types, one waker, no stale links, blocked threads can be found, no spin-lock cycle, no early timeout, refinement of `SemaphoreSpec`, nobody waits beside a token, exact lock counts, stale translations are harmless, a frame has one owner |
| `mutex` | 3 threads, OwnerLock of depth 2, timeouts, one exits | exact unlocked reads (hence mutual exclusion), nobody waits for a free lock, every wait ends (fairness) |
| `message_queue` | 3 threads, 2 messages, 2 places, timeouts, one exits; symmetric | refinement of `ChannelSpec`, slots conserved and not left beside a waiter |
| `kernel` | scheduler: 2 processors, 3 threads of 2 classes, migration. 256 vectors. 2 large frames of 4. Page tables of 4 levels in a space of their own and a clone. Bitmaps of 3 levels, lists of 4, blocks of 2 sizes. 4 keystrokes, 3 lines in 2 segments. Tables of up to 3 entries, PCI trees on 3 buses | a thread in one place, stacks saved before use, no sleep on work; contexts restored; memory, containers, console and table walks exact |
| `machine` | 2 IRQ lines, 2 processors with swapped APIC ids. 3 processors, the boot processor anywhere, 3 Startup IPIs lost, 2 tickets wasted. 3 threads and 2 files, 2 and 3, 1 and 4. 3 pthreads, one tries. 2 threads on one of 2 processors. Kernel space of 2 pages on 2 cores | order of initialisation, numbers of the APs (and when they are wrong); no use after close, descriptors and reads exact; mutex exclusive; interrupts served, processors start, closes return, locks served, ready threads dispatched, frames of unmapped pages released (fairness) |
| `debug` | process: 3 threads, one exits. Stub: 2 cores, one breakpoint | thread store, joins; one core speaks while the others stand still, the session is consistent, cores that wait for the stub go on (fairness) |
| `scheduler_successor` | scheduler of `kernel`, unpinned threads cancelled | **violated**: `GENASSERT0(target)`, `Scheduler.cc:57` |
| `scheduler_destroy` | same, unpinned threads terminate | **violated**: assertion in `Thread::destroy`, `Thread.cc:40` |
| `process_destroy` | 2 threads | **violated**: the same assertion, by `exit()` |
| `process_exit` | 2 threads | **violated**: "cancel all", `Process.cc:96`; `exit()` spins for ever |
| `files_release` | 2 threads on 2 processors | **violated**: `GENASSERT1(clear(idx), idx)`, `ManagedArray.h:115` |
| `vm_range` | 2 mapping cores | **violated**: `KASSERT1( !P.get(*pe), ...)`, `Paging.h:295` |

Why these bounds.  Three threads are the least with which a walk passes an
entry that is no longer Blocked, a baton is passed while a third thread
competes, and an index is used again.  One clock tick separates "not yet" from
"expired"; only the comparison counts.  A ring of two places wraps around and
distinguishes order.  Three threads on one of two processors exceed the
migration threshold of two.  Depth 2 has an inner and an outer release.  Two
cores are one that unmaps and one that still holds the translation; three pages
have one on each side of a range.  Nine bits in words of four need a third
level, with an incomplete word.  A third thread is refused a
file that a second one closes while a first one reads.  Three lost IPIs exceed a round of two and
force an INIT to be repeated; two wasted tickets are those of an AP reset twice, or
of two APs.  A small page and a large one that contains it meet in one table; a lazy
page and a guard are what entries without a frame there are.  An alignment of 8 is
beyond a large frame of 4.  Tables of three entries have one to skip, one to
find and one after it.

Deadlock checking is off in `machine`, `debug`, `process*`, `files_release` and
`vm_range`: a process ends, an AP idles, a kernel reboots.  In `core` and
`kernel` parts that may come to rest have an explicit stuttering step, so that
it is checked for the others.

Exceptions the properties state, because the code behaves so:

* `NoSleepOnWork` and the exact part of `SlotsConserved` hold as long as no
  thread has ended: a cancelled thread takes a wake-up it owes, or a slot it was
  passed, with it.  `NoOrphanedJoin` holds until somebody calls `exit()`.
* In `kernel` the thread that yields, terminates and is cancelled is pinned; for
  threads that migrate see findings 1 and 2.
* `WaitsEnd` is about behaviours in which nobody exits and nobody takes a lock
  twice.
* `StaleIsHarmless` sets pages apart on which two cores fault at once.  It and
  `FrameHasOneOwner` are checked with one core that maps and unmaps while all
  cores use the space and fault: with two, finding 6 breaks them as well.
* `MutexExclusive` holds until the first `pthread_mutex_trylock` that fails;
  `LocksServed` excepts holders asleep in `pthread_cond_wait`, which keeps the
  mutex, or in an endless broadcast.
* `ClosesReturn` excepts a second close of the same file, since `done()` wakes
  one, and files with a read that never returns (after a seek beyond the end).
* `FilesExact` speaks about reads of files that nobody seeks in.
* `InterruptsServed` excepts an interrupt behind a flood of lower numbers.
* `BootIndexAgrees` says when `KASSERT1(idx == apIndex, idx)` holds: with the boot
  processor first in the table and no AP reset after it has drawn a ticket.  Not
  first, every AP fails it.  `AllProcessorsStart` is about the good case.
* `MemoryExact` excepts `allocContig` for one large frame when there is none, or
  with an alignment beyond a large frame, which the splitting branch does not look
  at; and the assertion `Paging.h:295` where a large page is mapped over the table
  that small pages, all unmapped, have left behind.
* `ConsoleExact` excepts F7, whose code is past the end of `tableATtoXT`.
* `FirmwareExact` is about BARs without flag bits.  With several PCI host
  controllers it states what the code does: "check all possible controllers"
  (`PCI.cc:22`) scans the buses of those that are not there, since the vendor test
  in the next line is the wrong way round.  An unknown header type, or an unknown
  MADT subtable, aborts.
* `SavedIsRestored` leaves out the registers `getGdbCpu` may overwrite and the
  two debugger vectors whose error code stays on the stack.
* `SessionConsistent` excepts a core that is on its way out of the stub when the
  next speaker looks at it: it still counts as stopped and runs on (`slipped`).
  After an access that faulted, the early return of `mem2hex` and `hex2mem` leaves
  `gdbFaultHandlerEnabled` set (`left`), and the next fault of the kernel itself
  goes to the stub.
* `InterruptsServed` takes local APIC ids to be indices of the processor table
  (`InterruptAssumption`): the round robin of the RTC handler sends to them.

### Fairness

* Processors keep executing: weak fairness of the steps of a call that has
  begun, of `switchThread`, of the idle loop, of system calls that may continue
  (`FilesFairness`), of library calls (`PthreadFairness`), of booting
  (`BootFairness`) and of the stub (`GdbFairness`).
* The RTC and its preemption IPIs keep coming and are taken: weak fairness of
  `Tick`, the timer's steps, `IrqHandlerRTC` and `PreemptIPI`, strong fairness
  of `Interrupt` (interrupts are disabled again and again).  The interrupt
  thread has top priority, so its loop is weakly fair.  Every core takes
  interrupts, at which it passes its invalidation records (`SpaceFairness`).
* A processor spinning on a `BinaryLock` gets it if it is free infinitely
  often: strong fairness of the acquiring steps.  The lock keeps no order, so
  this is an assumption about the hardware's arbitration.
* A client does not keep a lock for ever (`mutex`, and strong fairness of
  `MutexUnlock`); the user of the debugger sooner or later resumes the program
  or attaches again.  Nothing makes a client start a call.
* Startup IPIs are lost a bounded number of times, and an AP that is started again
  and again draws a ticket some time (strong fairness of `TakeBootTicket`); that it
  then reports before a round of Startup IPIs is over (`[](~late)`) is a hypothesis
  of `AllProcessorsStart`, about seconds against microseconds.

In the runs with several parts the fairness of a part is the antecedent of its
property, and every fair action has `part = ...` as its first conjunct.

### Findings

1. *A cancelled thread leaves through the wrong Scheduler.*  After
   `stackSwitch` the thread may be on another processor; for a cancelled
   thread `Scheduler.cc:82` calls `switchThread` on the old `this`, takes
   threads from the other processor's queues and at last its idle thread.
2. *A migrated thread is destroyed twice.*  `postSwitch` enqueues the thread
   before `postResume` reads its state.
3. *`exit()` overwrites Finishing.*  A thread that has terminated is set to
   Cancelled: its destruction fails an assertion or never happens.
4. *`exit()` deadlocks with itself* on a thread blocked in join or
   pthread_exit, whose `bLock` is the `threadLock` that `exit()` holds.
5. *A check bit comes back.*  `store()` sets its bit outside the lock, in a
   packed word that a `remove()` on another processor changes at the same time;
   the following `release()` fails its assertion.
6. *A reserved range is handed out twice.*  `putVmRange` takes entries that
   another core has reserved and not mapped yet for free.

Met on the way: a cancelled thread alone on a processor never notices
(`Scheduler.cc:59`); a cancelled waker may be finished between winning a thread
and resuming it (`BlockingSync.h:160`); a cancelled thread that still runs may
create threads that survive `exit()`; `createThread` reads `ut->idx` after
`threadLock` is released (`Process.cc:119`); `allocFrame` returns with its lock
held when memory is used up (`FrameManager.h:95`); `reserveIndex` may replace
the array under an `open()` that has reserved its slot (`ManagedArray.h:86`);
another core may remove a breakpoint between the trap and the test for it
(`Gdb.cc:768`), which fails an assertion; an AP's ticket is compared with its place
in the table, which the boot processor need not head (`Machine.cc:120`); an AP that
is reset after its report takes the processor object of the next one
(`Machine.cc:352`); a request for an unmapped address leaves
`gdbFaultHandlerEnabled` set (`Gdb.cc:127`); `allocFrame` and `release` read
`it->first` after `erase(it)` (`FrameManager.h:70`, `104`); frames that the only active
core of a space unmaps are never released (`AddressSpace.h:129`).

## 4. Proofs

For every value of the constants that satisfies the named assumptions:

| Module | Theorem | Statement | Assumes |
| --- | --- | --- | --- |
| `BlockingSyncProofs` | `TypeCorrect` | `BSSpec => []TypeOK` | `ConstantsAssumption` |
| | `OneWakerHolds` | `BSSpec => []OneWaker` | |
| | `NoStaleLinksHolds` | `BSSpec => []NoStaleLinks` | |
| | `BlockedIsLinkedHolds` | `BSSpec => []BlockedIsLinked` | |
| | `NoEarlyTimeoutHolds` | `BSSpec => []NoEarlyTimeout` | |
| | `NoDeadlyEmbraceHolds` | `BSSpec => []NoDeadlyEmbrace` | no queue's lock is `threadLock` |
| `SemaphoreProofs` | `SemaphoreUsesBlockingSync` | `SemSpec => BSSpec` | and `SemaphoreAssumption` |
| | `NoMissedWakeupHolds` | `SemSpec => []NoMissedWakeup` | |
| | `SemaphoreImplements` | `SemSpec => ImplementsSemaphore` | |
| `MutexProofs` | `MutexUsesBlockingSync` | `MutexSpec => BSSpec` | and `MutexAssumption` |
| | `OwnerReadExactHolds` | `MutexSpec => []OwnerReadExact` | |
| `MessageQueueProofs` | `MQUsesBlockingSync` | `MQSpec => BSSpec` | and `MQAssumption`, `SizeAssumption` |
| | `SlotsConservedHolds` | `MQSpec => []SlotsConserved` | |
| | `ChannelImplements` | `MQSpec => ImplementsChannel` | |
| `ProcessProofs` | `StoreExactHolds` | `PSpec => []StoreExact` | and `ProcessAssumption` |
| | `JoinExactHolds` | `PSpec => []JoinExact` | |
| | `NoOrphanedJoinHolds` | `PSpec => []NoOrphanedJoin` | |
| `SchedulerProofs` | `OnePlaceHolds` | `SSpec => []OnePlace` | `SchedulerAssumption` |
| | `StackIsSavedHolds` | `SSpec => []StackIsSaved` | and `SchedulerIsOwn` |
| | `NoSleepOnWorkHolds` | `SSpec => []NoSleepOnWork` | |
| | `DestroyedOnceHolds` | `SSpec => []DestroyedOnce` | |
| | `SuccessorFoundHolds` | `SSpec => []SuccessorFound` | |
| `MachineProofs` | `LockCountHolds` | `CpuSpec => []LockCountExact` | `ProcessorAssumption` |
| | `UserEntryHolds` | `CpuSpec => []UserEntryReady` | |
| | `BootStackHolds` | `BootSpec => []BootStackExclusive` | `BootAssumption` |
| | `OwnObjectHolds` | `BootSpec => []OwnProcessorObject` | |
| | `BootIndexHolds` | `BootSpec => []BootIndexAgrees` | |
| | `OneSpeakerHolds` | `GdbSpec => []OneSpeaker` | `GdbAssumption` |
| | `SessionHolds` | `GdbSpec => []SessionConsistent` | |
| | `MutexExclusiveHolds` | `PthreadSpec => []MutexExclusive` | `PthreadAssumption` |
| `FilesProofs` | `NoUseAfterDeleteHolds` | `FilesSpec => []NoUseAfterDelete` | `FilesAssumption` and `Smp = FALSE` |
| | `FilesExactHolds` | `FilesSpec => []FilesExact` | |
| | `ReleaseIsClearHolds` | `FilesSpec => []ReleaseIsClear` | |

The named assumptions give the constants their types and keep special values
(`None`, `Fence`, `Blank`, the timer) apart from threads, queues and messages.
Where tokens, slots or places are counted, threads and processors are finite
sets, of any size.  Some theorems have a hypothesis that the code needs:

* `NoDeadlyEmbraceHolds`: finding 4 is what happens when a queue is protected by
  `threadLock`;
* the theorems under `SchedulerIsOwn` (if threads migrate, those that are not
  pinned only suspend): a thread that can be moved neither yields nor terminates
  nor is cancelled, since it would use the Scheduler object of the processor it
  came from.  Findings 1 and 2 are what happens without it.  `DestroyedOnce` and
  `SuccessorFound` are the very assertions that `scheduler_destroy` and
  `scheduler_successor` show to fail, so nothing but these operations of
  migrating threads makes them fail;
* the theorems of `FilesProofs`: with `Smp = FALSE` the threads of the process
  share one processor, so that nothing comes between the load and the store of a
  word of check bits.  Finding 5 is what happens otherwise.

`BootIndexHolds` and `SessionHolds` have none: the cases in which the code goes
wrong are part of the properties (section 3).

**BlockingSync.**  `OneWaker` alone is not inductive: that nobody else claims a
thread when its state word is won follows from where the thread is linked, that
`CancelBlocking` finds it on its queue from what the claiming actor knows, and
that `NoEarlyTimeout` holds from what the timer had read when it filled
`fireList`.  `IInv` is

* `TypeOK`;
* `TimerInv`: who holds `Timeout::lock`; the entries still to visit are in
  `Timeout::queue` and expired;
* `ClaimInv`: at each point of a wake-up sequence, on which queues the thread
  that was won is still linked;
* `FireInv`: the same for threads on the `fireList`;
* `TimedOutInv`: `timedOut` is set only between expiry and return;
* the four properties themselves.

The proof has one lemma per action that touches queues or claims
(`SuspendStep`, `TryUnblockStep`, `CancelStep`, `ExpiryVisitStep`, ...), one
for steps local to a thread, one for steps local to the timer and one that
says which variables matter (`CoreFrame`), after the facts about sequences they
need.  `InductiveStep` splits
`BSNext` and cites them.  For `NoDeadlyEmbrace`, `LockInv` says which lock is
held where: locks are ordered bLock before `Timeout::lock`, and the timer holds
none when it takes a bLock.

**Clients.**  A client's specification implies `BSSpec`: each of its steps is one
that the blocking machinery offers to any client.  So `IInv` and `LockInv` come
for free, and `Bystander` says what a step of one thread, the timer or a
canceller can do to another thread: make it ready, or win it.  Each invariant
adds a `CallInv`: where a thread is tells which call it is in and what that call
has found out under `bLock`.

* *Semaphore.*  In `SemInv`, P saw a zero counter before it blocks, and the
  waiters that a walk of V has passed have been won by others; so V counts a
  token only when nobody is Blocked.  For the refinement, `Tokens` is the counter
  plus the threads that have been won and not returned from P (`Batons`).  Each
  lemma of the refinement says which one of `Tokens`, `Giving`, `Gone` and
  `outcome` a step changes: winning a thread moves a token from V to a baton,
  a timeout or a canceller adds no baton because `timedOut` is set or the thread
  has gone.
* *Mutex.*  `owner` is not the owner while a walk of `release` moves it through
  the queue.  `QueueInv` says what it is: the one thread that holds the lock; its
  heir (won by a walk and not yet back from acquire); the walk's position; or a
  thread that was cancelled as owner.  `WalkedIsFree` says that nobody holds the
  lock or is its heir during a walk, so that the position cannot be taken for a
  claim.
* *MessageQueue.*  A slot is counted, granted to a thread that was won, or owed by
  a thread that has pushed or popped and not yet passed it on.  `Hold` is what one
  thread contributes, and each step moves one slot between counter, granted and
  owed, or changes `ring.count` together with it; only an exiting thread drops
  one.  From this a thread that pushes finds a free place and one that pops an
  element.  `PushAppends` and `PopTails` relate the ring, with its positions
  modulo `Size`, to the sequence `Contents(ring)`, and every step of `send` and
  `recv` to one of `ChannelSpec`.
* *Process.*  `PInv` adds to `IInv` and `LockInv`: `Untimed`, nobody uses
  timeouts here; `StoreInv`, the free stack of `threadStore` lists its holes
  without repetition and every other field holds the live thread that knows this
  index; `CallInv`, which includes at whose wait condition a call blocks;
  `JoinInv`, a thread is joined once, and `result` names the only thread that
  waits at a wait condition, so that the value post() or join() stores reaches
  the right one; and, until somebody calls `exit()`, `EndInv`.  That one is the
  argument for `NoOrphanedJoin`: `exitThread` skips `post()` only if the store
  counts one thread (`LastIsAlone`, by counting the fields that are not on the
  free stack), so nobody else is left that could wait; and if it does not, it
  meets the one thread that joins it, whose removal leaves the queue empty
  (`WonLeavesEmpty`), and no second join gets past the mark.

**Scheduler.**  `SInv` holds for any use of the scheduler.  `PlaceInv` and
`ReadyInv` say that a ready thread runs, is queued or is being preempted, and
nothing of this twice; `PrevInv` and `FrameInv` say which thread a processor is
switching from and that a thread that does not run will return from
`switchThread`.  `OwnInv` adds, under `SchedulerIsOwn`: `HomeInv`, a thread that
stays uses its own processor's Scheduler; `StackInv`, a thread whose stack is not
saved is queued, if at all, on the processor that is leaving the stack;
`CountInv`, `readyCount` is the length of the queues; `WakeInv`, when the idle
thread is past its attempt to yield, a thread in the queues has been announced by
an IPI or somebody is about to send one.  `EndInv` adds that a thread that can be
moved never ends and that an idle thread always runs, is queued or is being
switched to, hence is there to be found.

**LocalProcessor.**  A switch makes another thread current, and a return
continues where an interrupt struck; `CountInv` adds that suspended threads
stopped in `switchThread` with one lock, and that each saved frame fits the
flag and count its return brings back.

**Files.**  `FilesInv`: with one processor, a word of check bits that was loaded is
still the word in memory (`WordInv`); a slot below `index` is valid, free, or
owned by one `open` or `close` in progress (`SlotInv`); an object is in one slot,
and what a call that passed `access()` or a `close` carries is still there
(`DataInv`, `OpenInv`, `UseInv`, `CloseInv`); the closers of an object sleep on its
queue, each once, and its count is the number of calls that use it (`SleepInv`,
`CountInv`), so that the object is taken out of its slot, and deleted, only after
the last of them.  `ReadInv` is the same for the offset of a file: who reads holds
its lock, and unless somebody seeks the offset is what has been delivered.

**Pthread.**  `TokenInv`: the counter of the benaphore is one less the holder and
the threads in line, and unless it is 1 there is exactly one token: with the
holder, with a `V` on its way to the kernel, or in the kernel's semaphore.  A
failed `trylock` takes the counter below that for a moment, which is why the
property, and the invariant, end with it.

**Boot.**  `OneAtATime`, as long as no AP was reset late: `apIndex` is at once the
message to the AP being started and its acknowledgement, so every other AP is off
or past the boot stack.  `Tickets` adds, for `bspIndex = 0`, how the ticket counter
follows the index of the AP being started.  `Blocked`, for any other place, is the
opposite: the boot processor waits for index 0 and every ticket is at least 1, so
that the first AP never gets past the assertion, however often it is started.

**Gdb.**  `TicketInv`: unused tickets are distinct and below the counter, and a
core that speaks holds the one being served.  `SessionInv`: while a `vCont`
action is pending no core reads packets and no thread is chosen with `H`, so
that the next stop reply names the core that sends it; without one, the core
that replied last is still the one that reads; a breakpoint in the text has its
original byte in `bpMap`.  `StopInv` is the argument for all-stop: a core's `state`
agrees with where it is (`StateAgrees`), up to the window in `leave`; the cores
the speaker has visited are neither running nor entering (`SpeakerStops`), because
leaving takes a turn, which the speaker has, or `allstop` off, which only a turn
does; and the fault handler's flag is set only during an access or because one
faulted (`FlagInv`).

Only model-checked:

* liveness (`WaitsEnd`, `InterruptsServed`, `AllProcessorsStart`, `ClosesReturn`,
  `LocksServed`, `ReadyIsDispatched`, `UnmappedReleased`, `StubGoesOn`): fairness
  and ENABLED are outside of the prover;
* `MemoryExact`, `StructuresExact`, `FirmwareExact`: RECURSIVE operators, and
  induction over what they compute;
* `SavedIsRestored`, `ConsoleExact`, `BootOrder`: tables and code sequences of
  the program without a parameter, which TLC evaluates completely;
* `StaleIsHarmless`, `FrameHasOneOwner`: the records that a core is the last to
  pass are retired with a fold over the list, which needs the same induction;
* `CoreTypeOK`: proved for the part of `BlockingSync` (`TypeCorrect`) and, inside
  the invariants, for the semaphore.

`BootStackExclusive`, `OwnProcessorObject` and `UserEntryReady` are proved and
not part of a run.

## 5. Not modelled

* Composition of the blocking machinery with the scheduler: in the clients,
  threads run on as many processors as needed; `Scheduler` covers the
  processors, with blocking simplified.  Both share the interface
  suspend/resume; the product is out of TLC's reach.
* Spin locks: `BinaryLock` and `TicketLock` are one atomic step.
* Weak memory: x86 with locked instructions; the state word's relaxed accesses
  are read-modify-write operations.
* Page tables: permission bits, `mapDirect` of memory the caller provides (the
  segments of a program, whose frames `clearAll` releases with the others), and
  what happens when there is no frame left for a table.  Two cores that are given
  the same range are finding 6, in `AddressSpace`.
* The heap that `FrameManager`'s map allocates from, and physical page 0, which
  ACPICA is not told to map.
* System calls `semCreate`, `semDestroy`, `mmap` as a call, and those that only
  return information; `exec` and ELF loading; signal handlers.
* `QueueBuffer` (a message queue over `std::list`): its capacity is unbounded.
* Affinity masks (`getAffinityMask`): the code that would use them is empty.
* Timeouts that wrap around; allocation failure outside `Frames`.
* Output and formatting, the text of debugger packets, the cursor and `cls`, the
  self test of the keyboard, Serial, PIT, RTC and ISA DMA: sequences of port
  accesses or characters without state of their own.
* Vendored code (lwIP, CDI drivers, ACPICA, dlmalloc, ELFIO) and test programs.
