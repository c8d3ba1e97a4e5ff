----------------------------- MODULE QueueLocks -----------------------------
(***************************************************************************)
(* What the queueing mutexes share.  Readers and writers line up at a      *)
(* first lock (m_queueSema, m_csQueue or m_mutex: here m_csQueue) before   *)
(* they try the second (m_writerSema, m_csWriter or m_csWriters: here the  *)
(* m_cs of ReaderFlags).  The first of a group of readers takes the second *)
(* lock for all of them; where it is a critical section, which only its    *)
(* owner may leave, the first reader waits for the last.  A semaphore is   *)
(* the abstract one of CountingSemaphore.                                  *)
(***************************************************************************)
EXTENDS TestHarness

CONSTANT TMaxConcurrentReaders  \* template parameter of QtReadWriteMutex

ASSUME QueueAssumption ==
    /\ TMaxConcurrentReaders \in Nat \ {0}
    /\ IsFiniteSet(Threads)

VARIABLES
    m_csQueue,               \* the thread that owns the first lock, or None
    m_readerCount,
    isFirstReader,           \* per thread
    m_lastLockedReaderEvent, \* auto-reset; m_cohortDoneEvent in Cohort
    m_sema,                  \* permits: m_sema of Qt, m_cohortReadySema
    i                        \* Qt, per thread: permits collected in WriteLock

flags == <<TMutex, m_done, memory, events, locks, registry, iter>>
first == <<isFirstReader, m_lastLockedReaderEvent>>
permits == <<m_sema, i>>
queue == <<m_csQueue, m_readerCount, first, permits>>

QueueInit ==
    /\ m_csQueue = None
    /\ m_readerCount = 0
    /\ isFirstReader = [t \in Threads |-> FALSE]
    /\ m_lastLockedReaderEvent = FALSE
    /\ i = [t \in Threads |-> 0]

-----------------------------------------------------------------------------
\* P or EnterCriticalSection, and V or LeaveCriticalSection, on either lock.
EnterQueue(t, from, to) ==
    /\ m_csQueue = None
    /\ m_csQueue' = t
    /\ Goto(t, from, to)
    /\ UNCHANGED <<flags, m_readerCount, first, permits>>

LeaveQueue(t, from, to) ==
    /\ m_csQueue' = None
    /\ Goto(t, from, to)
    /\ UNCHANGED <<flags, m_readerCount, first, permits>>

EnterWriter(t, from, to) == EnterCs(t, from, to) /\ UNCHANGED queue
LeaveWriter(t, from, to) == LeaveCs(t, from, to) /\ UNCHANGED queue

\* A new thread is pushed on m_threadStates under both critical sections; its
\* ReadLock then starts at the place ready.
InitTlsDataQueued(t, ready) ==
    \/ EnterQueue(t, "tls_queue", "tls_enter")
    \/ EnterWriter(t, "tls_enter", "tls_push")
    \/ PushTlsData(t) /\ UNCHANGED queue
    \/ LeaveWriter(t, "tls_leave", "tls_unqueue")
    \/ LeaveQueue(t, "tls_unqueue", ready)

\* _InterlockedIncrement(&m_readerCount): the first reader goes another way.
CountReader(t, to, other) ==
    /\ m_readerCount' = m_readerCount + 1
    /\ Goto(t, "rl_count", IF m_readerCount = 0 THEN to ELSE other)
    /\ UNCHANGED <<m_csQueue, first, permits>>

\* _InterlockedDecrement(&m_readerCount): so does the last.
UncountReader(t, from, last, other) ==
    /\ m_readerCount' = m_readerCount - 1
    /\ Goto(t, from, IF m_readerCount = 1 THEN last ELSE other)
    /\ UNCHANGED <<m_csQueue, first, permits>>

\* m_csWriter.WriteLock(); isFirstReader = true, which only this thread reads.
EnterWriterFirst(t, from, to) ==
    /\ EnterCs(t, from, to)
    /\ isFirstReader' = [isFirstReader EXCEPT ![t] = TRUE]
    /\ UNCHANGED <<m_csQueue, m_readerCount, m_lastLockedReaderEvent, permits>>

\* (A plausible bug: isFirstReader is not reset.)
LeaveWriterStillFirst(t, from, to) == LeaveWriter(t, from, to)

LeaveWriterFirst(t, from, to) ==
    /\ LeaveCs(t, from, to)
    /\ isFirstReader' = [isFirstReader EXCEPT ![t] = FALSE]
    /\ UNCHANGED <<m_csQueue, m_readerCount, m_lastLockedReaderEvent, permits>>

SignalFirstReader(t, from, to) ==
    /\ m_lastLockedReaderEvent' = TRUE
    /\ Goto(t, from, to)
    /\ UNCHANGED <<flags, m_csQueue, m_readerCount, isFirstReader, permits>>

WaitForLastReader(t, from, to) ==
    /\ m_lastLockedReaderEvent
    /\ m_lastLockedReaderEvent' = FALSE
    /\ Goto(t, from, to)
    /\ UNCHANGED <<flags, m_csQueue, m_readerCount, isFirstReader, permits>>

\* P on a semaphore with several permits.
TakePermit(t, from, to) ==
    /\ m_sema > 0
    /\ m_sema' = m_sema - 1
    /\ Goto(t, from, to)
    /\ UNCHANGED <<flags, m_csQueue, m_readerCount, first, i>>

\* V(delta)
GivePermits(t, delta, from, to) ==
    /\ m_sema' = m_sema + delta
    /\ Goto(t, from, to)
    /\ UNCHANGED <<flags, m_csQueue, m_readerCount, first, i>>
=============================================================================
