--------------------------------- MODULE Qt ---------------------------------
(***************************************************************************)
(* QtReadWriteMutex<TMutex, TSemaphore, TMaxConcurrentReaders>: a reader   *)
(* takes one permit, a writer collects them all under m_mutex.             *)
(***************************************************************************)
EXTENDS QueueLocks

\* One turn of the for loop: m_sema.P() for the i-th of n permits.
Collect(t, n) ==
    /\ m_sema > 0
    /\ m_sema' = m_sema - 1
    /\ i' = [i EXCEPT ![t] = (@ + 1) % n]
    /\ Goto(t, "wl_writer", IF i[t] + 1 = n THEN "wl_unqueue" ELSE "wl_writer")
    /\ UNCHANGED <<flags, m_csQueue, m_readerCount, first>>

\* (A plausible bug: the loop ends one permit early.)
CollectPermitOneLess(t) == Collect(t, TMaxConcurrentReaders - 1)

CollectPermit(t) == Collect(t, TMaxConcurrentReaders)

\* (A plausible bug: no m_mutex.)
QtWriteLockNoMutex(t) ==
    \/ Goto(t, "wl_queue", "wl_writer") /\ UNCHANGED <<flags, queue>>
    \/ CollectPermit(t)
    \/ Goto(t, "wl_unqueue", "writing") /\ UNCHANGED <<flags, queue>>

QtWriteLock(t) ==
    \/ EnterQueue(t, "wl_queue", "wl_writer")
    \/ CollectPermit(t)
    \/ LeaveQueue(t, "wl_unqueue", "writing")

QtWriteUnlock(t) == GivePermits(t, TMaxConcurrentReaders, "writing", "loop")

QtReadLock(t) == TakePermit(t, "rl_queue", "reading")

QtReadUnlock(t) == GivePermits(t, 1, "reading", "loop")

QtStep(t) ==
    /\ TMutex = "Qt"
    /\ QtWriteLock(t) \/ QtWriteUnlock(t) \/ QtReadLock(t) \/ QtReadUnlock(t)
=============================================================================
