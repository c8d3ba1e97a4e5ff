------------------------------- MODULE Cohort -------------------------------
(***************************************************************************)
(* CohortReadWriteMutex<TSema>: a flag per reader while no writer asks.    *)
(* Readers that meet a writer gather: the first of them, the leader, takes *)
(* m_csWriter like a writer would, closes the cohort and hands a permit to *)
(* each other member; it leaves m_csWriter when the whole cohort is out.   *)
(***************************************************************************)
EXTENDS QueueLocks

VARIABLES
    readerOrder,    \* per thread: TlsData::readerOrder
    cohortCount,    \* per thread: local of readLock
    m_cohortCount

cohort == <<readerOrder, cohortCount, m_cohortCount>>

CohortInit == cohortCount = [t \in Threads |-> 0]

\* readerOrder = _InterlockedIncrement(&m_readerCount)
JoinCohort(t) ==
    /\ m_readerCount' = m_readerCount + 1
    /\ readerOrder' = [readerOrder EXCEPT ![t] = m_readerCount + 1]
    /\ Goto(t, "rl_join", IF m_readerCount = 0 THEN "rl_enter" ELSE "rl_permit")
    /\ UNCHANGED <<flags, m_csQueue, first, permits, cohortCount, m_cohortCount>>

\* (A plausible bug: m_readerCount is set to 0 by a store of its own.)
CloseCohortLate(t) ==
    \/ /\ cohortCount' = [cohortCount EXCEPT ![t] = m_readerCount]
       /\ Goto(t, "rl_close", "rl_size")
       /\ UNCHANGED <<m_readerCount, m_cohortCount>>
    \/ /\ m_readerCount' = 0
       /\ m_cohortCount' = cohortCount[t]
       /\ Goto(t, "rl_size", "rl_open")
       /\ UNCHANGED cohortCount

\* cohortCount = _InterlockedExchange(&m_readerCount, 0); then the store of
\* m_cohortCount.
CloseCohort(t) ==
    \/ /\ m_readerCount' = 0
       /\ cohortCount' = [cohortCount EXCEPT ![t] = m_readerCount]
       /\ Goto(t, "rl_close", "rl_size")
       /\ UNCHANGED m_cohortCount
    \/ /\ m_cohortCount' = cohortCount[t]
       /\ Goto(t, "rl_size", "rl_open")
       /\ UNCHANGED <<m_readerCount, cohortCount>>

\* m_cohortReadySema.V(cohortCount - 1): a Win32 semaphore refuses to release
\* 0 permits, which changes nothing.
OpenCohort(t) ==
    /\ GivePermits(t, cohortCount[t] - 1, "rl_open", "rl_reraise")
    /\ cohortCount' = [cohortCount EXCEPT ![t] = 0]
    /\ UNCHANGED <<readerOrder, m_cohortCount>>

CohortReadLock(t) ==
    \/ /\ \/ InitTlsData(t)
          \/ StoreFlag(t, TRUE, "rl_raise", "rl_check")
          \/ CheckRequest(t, "rl_check", "rl_yield", "reading")
          \/ StoreFlag(t, FALSE, "rl_yield", "rl_signal")
          \/ SetReaderDone(t, "rl_signal", "rl_join")
          \/ EnterCs(t, "rl_enter", "rl_close")
          \/ StoreFlag(t, TRUE, "rl_reraise", "reading")
       /\ UNCHANGED <<queue, cohort>>
    \/ JoinCohort(t)
    \/ TakePermit(t, "rl_permit", "rl_reraise") /\ UNCHANGED cohort
    \/ CloseCohort(t) /\ UNCHANGED <<flags, m_csQueue, first, permits, readerOrder>>
    \/ OpenCohort(t)

\* _InterlockedExchangeAdd(&m_cohortCount, -1), and the way on for the last
\* member and for the leader.
LeaveCohort(t) ==
    LET last == m_cohortCount = 1
        leader == readerOrder[t] = 1
    IN  /\ m_cohortCount' = m_cohortCount - 1
        /\ Goto(t, "ru_count", CASE leader /\ last  -> "ru_release"
                                 [] leader /\ ~last -> "ru_wait"
                                 [] ~leader /\ last -> "ru_last"
                                 [] OTHER           -> "ru_check")
        /\ readerOrder' = [readerOrder EXCEPT ![t] = 0]
        /\ UNCHANGED <<flags, queue, cohortCount>>

CohortReadUnlock(t) ==
    \/ /\ \/ StoreFlag(t, FALSE, "reading", IF readerOrder[t] # 0 THEN "ru_count" ELSE "ru_check")
          \/ LeaveCs(t, "ru_release", "ru_check")
          \/ CheckRequest(t, "ru_check", "ru_signal", "loop")
          \/ SetReaderDone(t, "ru_signal", "loop")
       /\ UNCHANGED <<queue, cohort>>
    \/ LeaveCohort(t)
    \/ SignalFirstReader(t, "ru_last", "ru_check") /\ UNCHANGED cohort
    \/ WaitForLastReader(t, "ru_wait", "ru_release") /\ UNCHANGED cohort

CohortWriteLock(t) ==
    /\ \/ EnterCs(t, "wl_enter", "wl_request")
       \/ RequestWrite(t)
       \/ ScanReaders(t, "wl_wait")
       \/ WaitReaderDone(t)
    /\ UNCHANGED <<queue, cohort>>

CohortWriteUnlock(t) ==
    /\ ClearRequest(t, "wu_leave") \/ LeaveCs(t, "wu_leave", "loop")
    /\ UNCHANGED <<queue, cohort>>

CohortStep(t) ==
    /\ TMutex = "Cohort"
    /\ \/ CohortReadLock(t)  \/ CohortReadUnlock(t)
       \/ CohortWriteLock(t) \/ CohortWriteUnlock(t)
=============================================================================
