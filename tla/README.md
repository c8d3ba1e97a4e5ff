# ReadWriteMutexZoo in TLA+

The repository is a zoo of read-write mutexes for Windows: one header per class in
`src/019_urwmutex`, and a benchmark (`main.cpp`) that lets reader and writer threads
hammer one of them for 700 ms. There are no unit tests; the benchmark's only check is
that its threads can be joined. The classes differ in what they spend (a locked
instruction, a kernel call) and in what they promise (starvation, fairness), and all of
them are short: the difficulty is in the interleavings, which is what is modelled here.

This directory holds TLA+ modules for the classes, TLC configurations that check them on
a few threads, and TLAPS proofs for any number of threads.

## 1. Inventory

### The flag-per-reader mutexes

`UltraSpin`, `UltraFast`, `UltraLight` and `FastSlim` (`*_rwmutex.h`).

* State: `m_writeRequested`; per thread, in thread-local storage, `isReading` (and an
  auto-reset `readerDoneEvent`; in FastSlim also `isLocked`); a vector `m_threadStates` of
  all registered threads; a lock `m_cs` (critical section, or SRW lock in FastSlim); in
  UltraSpin and UltraFast a manual-reset `m_writerDoneEvent`.
* Operations: `ReadLock`, `ReadUnlock`, `WriteLock`, `WriteUnlock`, and the registration
  of a thread on its first read lock (`initTlsData`).
* Interaction: a reader raises its flag, then reads `m_writeRequested`; a writer sets
  `m_writeRequested` under `m_cs`, then visits the flags one by one, polling (UltraSpin) or
  sleeping on the event of a busy reader.
* Hard: store-then-load in both parties, with plain volatile accesses; two directions of
  wakeups that can be lost; registration while a writer iterates; a request that outlives
  its writer; what a reader does that met a writer (sleep, queue on `m_cs`, keep `m_cs`
  shared) and how it undoes it.
* Correct if: readers and writers exclude each other, nobody sleeps for ever, new readers
  yield to a writer, the iteration is stable, and FastSlim starves nobody.

### The semaphores

`CsevSemaphore`, `FastStSemaphore`, `Csev2Semaphore`, `UnslowSemaphore`, and the Win32
`Semaphore` they stand in for; `SemaMutex<TSema>` makes a lock of any of them.

* State: a count, one auto-reset event (two in FastSt, with a count of waiting threads; a
  critical section in Csev and Csev2).
* Operations: `P`, `V(delta)`, `V()`, and the constructor, which calls `V(initialCount)`.
* Hard: an auto-reset event remembers one signal, whatever the number of permits; a stale
  signal must not become a permit; a woken thread may find that it was overtaken.
* Correct if: no permit is handed out twice, no thread sleeps beside a permit, `P` returns
  in the end, and, as `main.cpp` claims of each `SemaMutex`, service is perfectly fair.

### The queue mutexes

`FairReadWriteMutex` (two semaphores), `FairCsReadWriteMutex` (two critical sections),
`QtReadWriteMutex` (one permit per reader; a writer collects them all), and two classes that
put a flag per reader in front of such a slow path: `CohortReadWriteMutex` and
`TicketedReadWriteMutex`.

* State: the two locks and `m_readerCount`; in FairCs and Ticketed `isFirstReader` per thread
  and `m_lastLockedReaderEvent`; in Qt the permits and each writer's loop index; in Cohort
  `readerOrder` per thread, `m_cohortCount`, `m_cohortReadySema` and `m_cohortDoneEvent`; in
  Ticketed `m_ticket` and `m_lastReaderTicket`.
* Operations: the four of a mutex and the registration of a reader, in FairCs and Ticketed
  under both locks.
* Interaction: readers and writers line up at the first lock; the first reader of a group takes
  the second for all. In Cohort readers that met a writer gather without a queue: the first,
  the leader, takes `m_csWriter` as a writer would, closes the cohort by exchanging the count
  with 0 and hands a permit to each other member. In Ticketed a writer draws a ticket two higher
  and a queued group one that is one higher; a reader that finds the difference of the last
  ticket and the readers' last ticket to be at most 1 skips the queue.
* Hard: a critical section may be left only by its owner, so the first reader waits, inside
  `ReadUnlock`, for the last; an auto-reset event must not survive from one group of readers to
  the next; two writers must not hold half of the permits each; permits of one cohort can be
  taken by readers of the next; tickets are read one after the other, unlocked, and wrap around.
* Correct if: they are read-write locks, critical sections are left by their owner, the
  head of the queue is served next, nobody starves, and nothing is left behind for
  the next group: no permit, count, signal or flag.

### The single-reader mutexes

`UltraSpinSingleReadWriteMutex` and `UltraSyncSingleReadWriteMutex`: UltraSpin and UltraFast with
one designated reader, whose flag (and event) is a member of the mutex.

* Hard: the event of UltraSync is created set and never reset, so the writer spins.
* Correct if: they are read-write locks for one reader, and writers do not starve.

### The futexes

`WinFutexRec` (a critical section initialized on first use) and `WinFutexRecEv` (a counter
of arrived threads, and an event made on first contention); `...C` adapts them to the tests.

* Hard: the race of the first users; a recursive owner recognised by an unprotected
  `threadId`; a hand-over by counter and event to a thread that may not wait yet; an event
  that cannot be created.
* Correct if: one owner, one initialization, one hand-over at a time, nobody hangs.

### The rest

* `CriticalSection`, `Mutex`, `SlimReadWriteLock`: wrappers of Win32 locks. `ScopedWriteLock`
  and `ScopedReadLock`: unlock what was locked. `common.h`: thread-local storage.
* The harness (`Test` in `main.cpp`): the main thread creates readers and writers, opens their
  gate, sleeps, sets `m_done` and joins them; they lock and unlock until `m_done` and then add
  their counts to shared counters under `m_countCs`. Correct if it ends and counts everyone.
* Statistics, CSV output, results, project files: not modelled.

`PROJECT.json` lists every component with its sources and status, and every hazard at
the line where it bites with the properties that are there to catch it.

## 2. Modules

| module | what it is |
| --- | --- |
| `RWLock` | abstract specification: a read-write lock |
| `ReaderFlags` | memory, Win32 objects and atomic steps of the flag-per-reader classes; harness threads |
| `UltraSpin`, `UltraFast`, `UltraLight`, `FastSlim` | the four operations of each class as disjunctions of those steps |
| `FlagMutexes` | the four classes together: `Init`, `Next`, fairness, properties, inductive invariants, refinement of `RWLock` |
| `FlagMutexesProofs` | theorems that hold on any memory |
| `FlagExclusionProofs` | theorems that hold on a sequentially consistent memory |
| `FlagRefinementProofs` | the classes implement `RWLock` |
| `CountingSemaphore` | abstract specification: a counting semaphore |
| `Semaphores` | the four semaphores, under takers (`SemaMutex`) and givers |
| `TestHarness` | `Test<TMutex>`: gate, time-out, join, counters |
| `QueueLocks` | what the queueing classes share: two locks, reader count, first and last reader, permits |
| `Fair`, `FairCs`, `Qt`, `Cohort`, `Ticketed` | the operations of each class |
| `SingleReader` | the two single-reader classes, by the steps of `UltraSpin` and `UltraFast` |
| `PlainLocks` | `CriticalSection` and `Mutex` as classes under test |
| `QueueMutexes` | these nine classes under the harness; properties, fairness, refinement of `RWLock` |
| `WinFutexes` | WinFutexRec and WinFutexRecEv |
| `SemaphoresProofs`, `WinFutexesProofs` | theorems about the semaphores and the futexes |
| `QueueMutexesProofs` | the nine classes: who owns the two locks, the harness's counters |
| `QueueCountsProofs` | what readers, permits and members of cohorts are counted |
| `QueueRefinementProofs` | flags, scans and tickets; the nine classes implement `RWLock` |
| `MC*` | instances for TLC; one `.cfg` per run |

In each detailed module `TMutex` (or `TSema`) is the class under test, chosen in `Init`
as the template parameter of `Test<TMutex>` is, and `pc[t]` the place thread `t` has
reached: `rl_`, `ru_`, `wl_`, `wu_` for the four operations of a mutex, `p_` and `v_` for
those of a semaphore, `i_`, `l_`, `u_` for lazy initialization, lock and unlock of a futex.
A step is one access to memory another thread can see, one interlocked instruction, or
one call on a Win32 object. A class's operation, such as `UltraFastReadLock(t)`, is the
disjunction of its steps in the order of the code; steps that classes share are operators
with the places before and after as parameters (`StoreFlag(t, TRUE, "rl_raise", "rl_check")`).
Every loop of the code is a cycle of places. Data that only its own thread reads and
writes changes together with the neighbouring step.

The modelled Win32 objects: an auto-reset event is a Boolean that a wait resets; the
manual-reset `m_writerDoneEvent` releases at once every thread that sleeps on it
(`SetWriterDone`); critical sections and SRW locks have an owner and, for SRW, a set of sharers.

Definitions whose comment says "A plausible bug" are never part of a specification: they
are variants of the definition below them, kept to show that each property can fail.

### Memory

`BufferSize = 0` is sequential consistency. With `BufferSize > 0` a store waits in its
thread's FIFO buffer (`Store`), is seen by the thread itself (`WriteRequestedSeenBy`), and
reaches memory when the processor drains it (`Drain`); locked instructions and kernel calls
need an empty buffer (`Fenced`). That is the x86-TSO memory model, the one processor the
readme claims; both settings are the same specification with another constant.

### Abstractions and bounds

* A reader of the harness starts with no TLS data and registers on its first lock. Writers
  never read, as in `main.cpp`.
* `Csev`: a block under `m_cs` that touches nothing but the count is one action. `Csev2`
  keeps `m_cs` while it sleeps, so there the critical section is explicit.
* `MaxGiven` bounds what `Givers` hand out; the count itself is not bounded.
* `MaxDepth` bounds recursion of the futexes. `MaxThreadCount` bounds new locks: only after
  `CreateEventA` has failed can threads come and go without waiting and drive the counter.
* `WinFutexRecC`: a thread that reads `initialized = 1` at line 21 goes on to enter a
  critical section that may not exist yet. If it does not, what follows is undefined; the thread
  goes to the place `undefined` and is not followed (section 7).
* `QueueLocks` takes its semaphores to be `CountingSemaphore`, and `Semaphores` shows which
  classes are. A semaphore with one permit is the lock `m_cs` or `m_csQueue`; the owner then says
  which thread took the permit, which Fair never looks at.
* One variable stands for what has the same role in several classes: `m_csQueue` for
  `m_queueSema` of Fair, `m_csQueue` and Qt's `m_mutex`; `m_cs` for the second lock;
  `m_lastLockedReaderEvent` also for `m_cohortDoneEvent`; `m_sema` for Qt's semaphore and
  `m_cohortReadySema`.
* `QueueMutexes` is sequentially consistent. Cohort, Ticketed and the single-reader classes have
  the store-then-load pair of the flags and fail on x86 for the reason of finding 1.
* `TestHarness` keeps of a count only whose it is and of a counter whose counts it has, so that a
  lost addition is a missing thread. Waiting at the gate, which is never closed again, and the
  test of `m_done` are one guard (`Continues`).
* `Trials` gives each class the crews that tests are made with, as `DoTests` and
  `TestUltraSingleReadWriteMutex` give numbers of readers and writers.
* A ticket has `2 * HalfSpan` values (2^32 in the code). The code uses only differences of
  tickets, so `Ticketed` keeps those: `lag`, of `m_ticket` and `m_lastReaderTicket`, and for
  each reader `age`, the same with the copy it has loaded or drawn. `MaxLag` bounds both: a writer
  starts only if the tickets of all writers under way keep `lag` within it (`MayWrite`), and no ticket
  is drawn that would make a reader's copy older (`MayDraw`). `TicketAssumption` wants
  `MaxLag + 1 < HalfSpan`, and under it everything holds. At `MaxLag = HalfSpan` TLC finds a reader whose
  signed difference is negative: it should queue and overtakes, so `HeadOfQueueIsNext` fails. In the
  code that is 2^30 writes while no reader queues, or while one stands between its two loads.
* `CrowdedTest`: Cohort with four readers has too many states to start from a new test. Runs with a
  crew of `CrowdedTrials` start from a state such a test comes to: `m_done` is set, one
  leader has handed out its permit, later readers are about to count themselves and a writer is
  about to lock. From there every reader and the writer finish what they are in, which
  includes a second cohort whose members can take the first one's permit. (With three readers TLC reaches the
  same state from a new test.)

## 3. Runs

All configurations switch the deadlock check off because the threads of the harness
exit. That no thread is stuck earlier is the liveness property `AllThreadsJoin`.

| run | instance | shows |
| --- | --- | --- |
| `flag_safety` | 4 classes, 2 readers, 2 writers, SC, symmetry | `Exclusion`, `WriterIsWoken`, `NewReadersYield`, `ImplementsRWLock` |
| `flag_x86` | the same with buffers of 2 | `WritersExclude`, `LockedReadersExclude`, `ReaderIsWoken`, `NoRequestLeftBehind`, `IteratorStable` |
| `flag_liveness` | 2 readers, 1 writer, SC, fair | `AllThreadsJoin`, `WritersNotStarved`, `FastSlimReadersNotStarved` |
| `flag_x86_exclusion` | UltraFast, 1 + 1, buffers | violation: reader and writer inside |
| `semaphores` | 4 classes, 3 takers, 1 giver, 1 + 2 permits, fair | `PermitsRespected`, `OneThreadInGate`, `SleeperIsWoken`, `GateIsManned`, `ImplementsSemaphore`, `AllThreadsJoin`, `GatedAreFair` |
| `semaphores_unslow` | Unslow, 3 takers | violation: two owners |
| `semaphores_fair` | Csev, 3 takers, fair | violation: overtaken for ever |
| `win_futexes` | both, 3 threads, depth 2, the event may fail, fair | `Exclusion`, `InitializedOnce`, `OneBaton`, `RecursionNeverWaits`, `EventIsStable`, `EvThreadsJoin` |
| `win_futex_join` | WinFutexRecC, 2 threads, fair | violation: spins for ever |
| `queue_mutexes` | 9 classes, SC, symmetry; 2 + 2 (Ticketed 2 + 1 and 1 + 2, singles up to 1 + 2), and Cohort 4 + 1 from `CrowdedTest`; 2 permits, 16 tickets | `OwnerLeavesCs`, `ReadersHoldWriterLock`, `CohortIsWhole`, `WriterIsWoken`, `RestsAsNew`, `ReportIsExact`, `HeadOfQueueIsNext`, `ImplementsRWLock` |
| `queue_liveness` | 9 classes, SC, fair; 2 + 2 (Cohort 2 + 1, Ticketed and singles 1 + 2) | `AllThreadsJoin`, `NobodyStarves` |
| `fair_assert` | Fair, 2 + 2 | violation: the assertion of `WriteLock` |

Why the bounds are enough to meet the interesting cases:

* Two readers let a writer pass one flag and meet the other, let one reader register while
  a writer scans, and make a first and a last reader differ; two writers queue, hand over
  events to each other and meet each other's leftovers (requests, reset events). The proofs
  take the flag-per-reader classes to any number.
* A reader that never meets a writer is never fenced, so its buffer may hold stores of several
  operations. Two entries hold the end of one lock and the start of the next, the longest
  reordering that two accesses of one operation can see; what is proved on x86 does not depend on
  the depth.
* Three takers are an owner, one at the gate and one behind it; the giver adds deltas of 1
  and 2, so a sleeper is woken with permits to spare and the wakeup must be passed on.
* A cohort needs a leader and a member, and a second leader and member that come before the
  first member has its permit: four readers, and a writer that both meet. With `MaxLag = 6` and
  16 tickets three writers get ahead of the readers, and `lag` returns to 0 many
  times; the difference that decides (1 or 2) is met from both sides.
* In `queue_liveness` Ticketed has one reader, whose group is itself: groups of two take the steps
  of FairCs, which has two readers and two writers there. Its writers start only while
  `MaxLag = 4` allows it; with no reader that queues they stop. That is no loss, since `NobodyStarves`
  speaks of those that ask, and a reader that asks brings the lag down.
* In `queue_liveness` Cohort has two readers, too few for a reader of the next cohort to take a
  permit meant for the previous one: that happens in the crowded start of `queue_mutexes`, where `CohortIsWhole` and `ReadersHoldWriterLock` speak of it.
* `HeadOfQueueIsNext` has its content in Fair, whose writer gets in after it has left the queue, with
  the next thread at its head, and in Ticketed, whose fast path passes by the queue. In FairCs a thread
  gets in by leaving the queue, and it follows almost directly from the order of the two locks.
* `NobodyStarves` also says that a reader gets out of `ReadUnlock`. That needs the writer which
  each crew of `queue_liveness` has: FairCs with three readers and no writer, a crew that `DoTests`
  makes, can keep its first reader in `ReadUnlock` as long as the test lasts, while the two
  others overlap and `m_readerCount` never comes down to 0. TLC finds that behaviour when it is given
  such a crew, and none with three readers and a writer, whose `WriteLock` closes the queue.
* Three futex threads are an owner, the next, and one that arrives meanwhile; all three
  may race for the initialization and two of them for the event.

Symmetry is used only in runs without liveness.

## 4. Fairness

`FlagMutexes`, `Semaphores`, `QueueMutexes`: `SF(Step(t))` for each thread (and
`WF(Drain(t))` for each store buffer). Weak fairness of `Step(t)`, that the scheduler keeps
running every runnable thread, is all that most steps need. Strong fairness matters only at
a step that other threads can enable and disable: acquiring a critical section, an SRW
lock, a semaphore or an auto-reset event. Windows queues the waiters of these objects, and
`readme.md` says "Starvation: never" of CriticalSection, SlimReadWriteLock and SemaMutex.
The flag-per-reader classes check that fairness of `m_cs` is enough: there is none for
the race between a reader's flag and a writer's scan, and none is assumed.

In `QueueMutexes` the main thread has `WF(MainStep)` (open the gate, join) and the end of its sleep,
`Timeout`, has no fairness: a test may last for ever. `NobodyStarves` therefore speaks of tests that
go on as well as of tests that end. Its one exception, when it says that who asks obtains the lock, is the reader of a
single-reader class, which steps back for each writer that comes.

`WinFutexes` has the same for the lock and unlock steps and weak fairness for `Exit`; a
caller is not obliged to lock again. In no module must the test ever stop: liveness
properties are of the form "once `m_done` is set" or "once a thread asks".

## 5. What is proved

Every safety and action property of the passing runs, and all three refinements, for every value of
the constants. Assumptions are the named ones of the modules: `None` is not a thread, `BufferSize`
is a natural number (0 in `QueueMutexes` and where the table says so), readers and writers (takers and
givers) are disjoint, there is a permit, tickets do not run ahead by half their number
(`TicketAssumption`), a single-reader class has one reader; the threads are finitely many wherever
threads are counted (semaphores, queue mutexes). Nothing else is assumed of how many threads there
are, of depths, bounds or crews. The invariants were run through TLC on the instances of section 3
before they were proved.

| module | property: theorem |
| --- | --- |
| `FlagMutexesProofs` (any `BufferSize`) | `TypeOK`: `TypeCorrect`; `WritersExclude`: `WritersExcludeEachOther`; `LockedReadersExclude`: `LockedReadersExcludeWriters`; `ReaderIsWoken`: `SleepersAreWoken`; `IteratorStable`: `IterationIsStable`; `NoRequestLeftBehind`: `RequestsEnd` |
| `FlagExclusionProofs` (`BufferSize = 0`) | `Exclusion`: `MutualExclusion`; `WriterIsWoken`: `NoLostWakeup`; `NewReadersYield`: `WritersHavePrecedence` |
| `FlagRefinementProofs` (`BufferSize = 0`) | `ImplementsRWLock`: `ClassesImplementRWLock` |
| `SemaphoresProofs` | `TypeOK`: `TypeCorrect`; `OneThreadInGate`: `OneThreadPastTheGate`; `GateIsManned`: `GateStaysManned`; `SleeperIsWoken`: `SleepersAreWoken`; `PermitsRespected`: `NoPermitTwice`; `ImplementsSemaphore`: `SemaphoresImplementTheirs`; and `SemaMutexIsExclusive` |
| `WinFutexesProofs` | `TypeOK`: `TypeCorrect`; `InitializedOnce`: `InitializesOnce`; `EventIsStable`: `EventStaysPublished`; `Exclusion`: `MutualExclusion`; `OneBaton`: `BatonIsOne`; `RecursionNeverWaits`: `RecursiveLockDoesNotWait` |
| `QueueMutexesProofs` | `OwnerLeavesCs`: `OwnersLeave`; `ReportIsExact`: `ReportsAreExact` |
| `QueueCountsProofs` | `TypeOK`: `TypeCorrect`; `ReadersHoldWriterLock`: `ReadersKeepWritersOut`; `CohortIsWhole`: `CohortsAreWhole` |
| `QueueRefinementProofs` | `RestsAsNew`: `ComesToRestAsNew`; `WriterIsWoken`: `WritersAreWoken`; `ImplementsRWLock`: `NineClassesImplementRWLock`; `HeadOfQueueIsNext`: `HeadOfQueueComesNext` |

None of these properties is inductive. What makes them so:

### The flag-per-reader mutexes

`StepIsMove` groups the steps of all classes by what they do (raise a flag, lower it, enter,
leave, check, wait, scan, signal...), so that an invariant is proved kept once per kind of step and not
once per class.

* `LockInv` does not mention the flags: `OwnerInv` (the owner of `m_cs` is the thread at one of
  `CsPlaces`), `SharedInv` (who shares `m_cs` and has `isLocked`), `EventInv` (a reset
  `m_writerDoneEvent` has a writer bound to set it), `RegisteredInv` (a thread with a TLS slot is in
  the vector). It holds on x86 as well, and what follows from it does: that is why writers exclude
  writers there while readers do not.
* `RequestInv` is about buffers of any depth: a request is buffered only by a thread that owns `m_cs`,
  and a writer that has cleared it no longer *sees* one (`WriteRequestedSeenBy`: the youngest buffered
  store, or else memory). `DrainSeen` says that draining does not change what a thread sees; so when
  the call that releases `m_cs` has emptied the buffer, memory holds no request.
* `FlagInv`, without buffers, adds `MemoryInv` (memory mirrors the places: `isReading` and
  `m_writeRequested` say where their threads are), `ScanInv` (in the part of the vector a writer has
  passed nobody reads) and `WakeInv`. A new reader cannot get in behind the scan because the request
  is visible before the scan starts (`NoNewReader`), and the end of the scan (`ScanEnds`) has passed
  every registered thread, which by `RegisteredInv` are all readers. `MemoryInv` is what x86 breaks.
* The refinement maps `pc` to the status `RWLock` keeps. `ReadAcquired` and `WriteAcquired` turn the two
  steps that enter into the guards of the abstract ones, and `MoveMaps` says that every other step
  is a request, a release or a stutter.

### The semaphores

* `TypeInv`: each thread is at a place of its class, and `m_waitCount` is the number of threads in line.
* `GateInv`: the gate is owned by one thread. For Csev2 that is the owner of `m_cs`; for FastSt the right
  of way is a thread past the gate or the set `m_waitEvent`, never both; if somebody queues there is one,
  and the event is set, or about to be, only for somebody that queues.
* `SleepInv`: which signals are set or about to be. In the gated classes one thread sleeps at a time and
  has taken the count to -1, and whoever brings it back signals once; in Csev, while threads sleep and
  permits are left, the event is set or a thread that is awake will take a permit and look for more.
* `CountInv`: count, and threads that have been granted a permit, add up to what there ever was.

`AbstractCount` adds the sleepers back to the count, so that a sleeper takes its permit when it wakes: the
step is `ReturnFromP` there, and `SleepInv` provides its guard. `UnslowSemaphore` is in the model and has
no `CountInv`; what it breaks, `SemaMutexExcludes`, is proved of the others.

### The futexes

* `LazyInv`: one thread at most is between finding `initialized = 0` and publishing 2, whatever late
  exchanges put the state back to 1; and the critical section is not used before.
* `EvInv`: as long as no event creation has failed (`Intact`), `threadCount > 0` exactly if there is one
  baton, which is an owner, a thread about to signal or the set event (`BatonInv`), and `threadId` and
  `recursionCount` describe the owner in each of its places (`OwnerInv`). So only the owner finds its
  own id, without which the unprotected read of `threadId` would prove nothing.

### The queue mutexes

Nine classes share one state. `QueueMutexesInv` is inductive, and built in layers that need only
those before them:

* `OwnerInv`: types (counts are integers, no more), where each class can be, who owns `m_csQueue` and
  `m_cs`. The second lock is owned *for a group*, so `OwnsCs` needs what a reader carries out of its
  `ReadLock`: `isFirstReader` (`MarksInv`) and `readerOrder` (`OrderInv`). Fair is left out: its
  semaphore has no owner, and another thread releases it. `HarnessInv` says whose counts are in the counters.
* `CountsInv`: `m_readerCount` counts the readers that came by the queue; while the group is not empty
  the lock is held for it and a first reader exists, inside or waiting for the last (`FirstInv`,
  `FairInv`); permits left, readers inside and permits collected so far make
  `TMaxConcurrentReaders`, or one writer has them all (`QtInv`); threads that wait
  for a permit of their cohort are as many as the permits left, those promised by a leader and the members
  still gathering, although a member may take a permit of another cohort (`CohortInv`). Counts change by one
  thread at a time, so each is a `Cardinality` and a lemma (`OneMember`) about one element.
* `FlagsInv` as `MemoryInv` above. `TicketInv`: in terms of `lag` and `age`, a reader's copy is at least as
  old as the last reader's ticket, and from the draw of a writer until its release `lag` is at least 2:
  together, no reader passes the queue while a writer asks (`AskerKeepsOut`). Without the bound the
  signed difference would not be the difference (`WrapSmall`).
* `RegInv` and `ScanInv` as above, for Cohort and Ticketed.

From it: `ReadGranted` and `WriteGranted` (who enters finds nobody that it excludes, per class), and with
`StatusOfPlaces` the refinement `StepMaps`. `HeadOfQueueComesNext` needs `FairWriterInv` as well, since Fair
does not say who holds its second lock. The theorems include the runs from `CrowdedTest`, for any crew.

## 6. What is only model-checked

* Liveness under fairness: `AllThreadsJoin`, `WritersNotStarved`, `FastSlimReadersNotStarved`, `GatedAreFair`,
  `EvThreadsJoin`, `NobodyStarves`. The proof system has no support for `ENABLED`, hence none for WF and SF.
* The five violations of section 7, which are counterexamples of an instance.
* That the bounds of an instance suffice for liveness: each run exhausts its instance.

## 7. Findings

1. **x86 is not enough for the flags** (`flag_x86_exclusion`). `readme.md` line 349 says the code works
   on x86 "because the memory model is so strong". A load may pass an older store to another
   address, on x86 too; a reader and a writer that both store and then load can both read the old
   value. UltraSpin, UltraLight, FastSlim, Cohort, Ticketed and the single-reader classes have the same
   pair of accesses. So has `readUnlock`, which lowers the flag and then looks for a writer: a
   writer can be left asleep for ever.
2. **UnslowSemaphore hands out a permit too many** (`semaphores_unslow`): line 36 tests the old count
   against 0 where it should be 1.
3. **SemaMutex over CsevSemaphore is not fair** (`semaphores_fair`), though `main.cpp` says "perfectly
   fair": a woken thread competes again. FastSt and Csev2, which serve one thread at a time, are
   (`GatedAreFair`).
4. **WinFutexRec can hang on first use** (`win_futex_join`): the exchange at line 23 can put
   2 back to 1. `WinFutexRecC` is the one test that `DoTests` enables.
5. **The assertion of FairReadWriteMutex is too strong** (`fair_assert`): a reader counts itself before it waits.

Besides, the model of `WinFutexRecC` reaches `undefined`: a thread that reads
`initialized = 1` enters a critical section that may not be initialized yet. What Windows does
then is not specified, so no property speaks of it.

## 8. Not modelled, and the plan

Not modelled:

* Destructors: they run after the join, when no thread uses the object. (That of
  UltraSyncSingle closes one of its two events.) Constructors beyond the initial state; padding.
* The TEB layout behind `InlineTlsGetValue`. Line 22 of `common.h` scales the index of an expansion
  slot by the pointer size and then indexes an array of pointers, which scales it again: above
  index 0x40 a thread would not find its data. The benchmark does not get that far.
* Failing `CreateEvent` and `TlsAlloc` where the code asserts that they succeed.
* Recursion of critical sections and Win32 mutexes, which nothing here uses.
* Statistics and CSV output: floating-point arithmetic on the counts after the join (with no
  reader, or no thread at all, it divides by zero and prints what comes of it).

The plan. Done: the flag-per-reader classes, the semaphores, the futexes, the queue mutexes, Cohort
and Ticketed among them, the single-reader classes, the harness; the proofs of all their safety
properties. Next:

1. What the flags still promise on x86: the places at which a reader and a writer can be inside together,
   as an invariant for any depth of the buffers.
2. The safety part of the liveness properties: from every reachable state in which threads wait, one of
   them is not blocked, as an invariant (a measure that decreases stays with TLC).
