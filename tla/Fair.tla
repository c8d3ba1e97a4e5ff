-------------------------------- MODULE Fair --------------------------------
(***************************************************************************)
(* FairReadWriteMutex<TSemaphore>: two semaphores.  Any reader may return  *)
(* the permit of m_writerSema, so the last one does.                       *)
(***************************************************************************)
EXTENDS QueueLocks

\* (A plausible bug: writers do not line up with the readers.)
FairWriteLockNoQueue(t) ==
    \/ EnterWriter(t, "wl_queue", "wl_assert")
    \/ Goto(t, "wl_assert", "writing") /\ UNCHANGED <<flags, queue>>

FairWriteLock(t) ==
    \/ EnterQueue(t, "wl_queue", "wl_writer")
    \/ EnterWriter(t, "wl_writer", "wl_unqueue")
    \/ LeaveQueue(t, "wl_unqueue", "wl_assert")
    \/ /\ Goto(t, "wl_assert", "writing")          \* _ASSERT(m_readerCount == 0)
       /\ UNCHANGED <<flags, queue>>

FairWriteUnlock(t) == LeaveWriter(t, "writing", "loop")

\* (A plausible bug: the queue moves on before the second lock is held.)
FairReadLockEarly(t) ==
    \/ EnterQueue(t, "rl_queue", "rl_unqueue")
    \/ LeaveQueue(t, "rl_unqueue", "rl_count")
    \/ CountReader(t, "rl_writer", "reading") /\ UNCHANGED flags
    \/ EnterWriter(t, "rl_writer", "reading")

FairReadLock(t) ==
    \/ EnterQueue(t, "rl_queue", "rl_count")
    \/ CountReader(t, "rl_writer", "rl_unqueue") /\ UNCHANGED flags
    \/ EnterWriter(t, "rl_writer", "rl_unqueue")
    \/ LeaveQueue(t, "rl_unqueue", "reading")

FairReadUnlock(t) ==
    \/ UncountReader(t, "reading", "ru_release", "loop") /\ UNCHANGED flags
    \/ LeaveWriter(t, "ru_release", "loop")

FairStep(t) ==
    /\ TMutex = "Fair"
    /\ FairWriteLock(t) \/ FairWriteUnlock(t) \/ FairReadLock(t) \/ FairReadUnlock(t)
=============================================================================
