------------------------------- MODULE FairCs -------------------------------
(***************************************************************************)
(* FairCsReadWriteMutex: two critical sections, so the first reader leaves *)
(* m_csWriter and waits for the last reader before it does.                *)
(***************************************************************************)
EXTENDS QueueLocks

FairCsWriteLock(t) ==
    \/ EnterQueue(t, "wl_queue", "wl_writer")
    \/ EnterWriter(t, "wl_writer", "wl_unqueue")
    \/ LeaveQueue(t, "wl_unqueue", "writing")

FairCsWriteUnlock(t) == LeaveWriter(t, "writing", "loop")

FairCsReadLock(t) ==
    \/ InitTlsDataQueued(t, "rl_queue")
    \/ EnterQueue(t, "rl_queue", "rl_count")
    \/ CountReader(t, "rl_writer", "rl_unqueue") /\ UNCHANGED flags
    \/ EnterWriterFirst(t, "rl_writer", "rl_unqueue")
    \/ LeaveQueue(t, "rl_unqueue", "reading")

\* (A plausible bug: the last reader leaves m_csWriter, as with semaphores.)
FairCsReadUnlockByLast(t) ==
    \/ UncountReader(t, "reading", "ru_release", "loop") /\ UNCHANGED flags
    \/ LeaveWriterFirst(t, "ru_release", "loop")

\* (A plausible bug: the first reader does not wait for the last.)
FairCsReadUnlockNoWait(t) ==
    \/ /\ IF isFirstReader[t] THEN UncountReader(t, "reading", "ru_release", "ru_release")
                              ELSE UncountReader(t, "reading", "ru_last", "loop")
       /\ UNCHANGED flags
    \/ LeaveWriterFirst(t, "ru_release", "loop")
    \/ SignalFirstReader(t, "ru_last", "loop")

FairCsReadUnlock(t) ==
    \/ /\ IF isFirstReader[t] THEN UncountReader(t, "reading", "ru_release", "ru_wait")
                              ELSE UncountReader(t, "reading", "ru_last", "loop")
       /\ UNCHANGED flags
    \/ LeaveWriterFirst(t, "ru_release", "loop")
    \/ SignalFirstReader(t, "ru_last", "loop")
    \/ WaitForLastReader(t, "ru_wait", "ru_release")

FairCsStep(t) ==
    /\ TMutex = "FairCs"
    /\ \/ FairCsWriteLock(t) \/ FairCsWriteUnlock(t)
       \/ FairCsReadLock(t)  \/ FairCsReadUnlock(t)
=============================================================================
