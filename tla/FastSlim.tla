------------------------------ MODULE FastSlim ------------------------------
(***************************************************************************)
(* FastSlimReadWriteMutex: m_cs is an SRW lock; a reader that meets a      *)
(* writer takes it shared and keeps it, with no second look at             *)
(* m_writeRequested, until readUnlock.                                     *)
(***************************************************************************)
EXTENDS ReaderFlags

\* m_cs.ReadLock(): AcquireSRWLockShared.
ShareCs(t) ==
    /\ m_cs = None
    /\ Fenced(t)
    /\ m_csReaders' = m_csReaders \cup {t}
    /\ Goto(t, "rl_share", "rl_shared")
    /\ UNCHANGED <<TMutex, m_done, memory, events, registry, iter, m_cs, isLocked>>

\* isReading = true; isLocked = true, which only this thread reads.
RaiseFlagLocked(t) ==
    /\ Store(t, "isReading", TRUE)
    /\ Goto(t, "rl_shared", "reading")
    /\ isLocked' = [isLocked EXCEPT ![t] = TRUE]
    /\ UNCHANGED <<TMutex, m_done, events, registry, iter, m_cs, m_csReaders>>

\* (A plausible bug: isLocked is not reset.)
UnshareCsStillLocked(t) ==
    /\ Fenced(t)
    /\ m_csReaders' = m_csReaders \ {t}
    /\ Goto(t, "ru_unshare", "ru_check")
    /\ UNCHANGED <<TMutex, m_done, memory, events, registry, iter, m_cs, isLocked>>

\* isLocked = false; m_cs.ReadUnlock(): ReleaseSRWLockShared.
UnshareCs(t) ==
    /\ Fenced(t)
    /\ m_csReaders' = m_csReaders \ {t}
    /\ isLocked' = [isLocked EXCEPT ![t] = FALSE]
    /\ Goto(t, "ru_unshare", "ru_check")
    /\ UNCHANGED <<TMutex, m_done, memory, events, registry, iter, m_cs>>

\* (A plausible bug: the slow path raises the flag without m_cs.ReadLock().)
FastSlimReadLockUnlocked(t) ==
    \/ StoreFlag(t, TRUE, "rl_raise", "rl_check")
    \/ CheckRequest(t, "rl_check", "rl_yield", "reading")
    \/ StoreFlag(t, FALSE, "rl_yield", "rl_signal")
    \/ SetReaderDone(t, "rl_signal", "rl_shared")
    \/ StoreFlag(t, TRUE, "rl_shared", "reading")

\* (A plausible bug: m_cs is held for the moment only and the flag tried again.)
FastSlimReadLockRetry(t) ==
    \/ StoreFlag(t, TRUE, "rl_raise", "rl_check")
    \/ CheckRequest(t, "rl_check", "rl_yield", "reading")
    \/ StoreFlag(t, FALSE, "rl_yield", "rl_signal")
    \/ SetReaderDone(t, "rl_signal", "rl_share")
    \/ ShareCs(t)
    \/ /\ Goto(t, "rl_shared", "rl_raise")
       /\ m_csReaders' = m_csReaders \ {t}
       /\ UNCHANGED <<TMutex, m_done, memory, events, registry, iter, m_cs, isLocked>>

FastSlimReadLock(t) ==
    \/ StoreFlag(t, TRUE, "rl_raise", "rl_check")
    \/ CheckRequest(t, "rl_check", "rl_yield", "reading")
    \/ StoreFlag(t, FALSE, "rl_yield", "rl_signal")
    \/ SetReaderDone(t, "rl_signal", "rl_share")
    \/ ShareCs(t)
    \/ RaiseFlagLocked(t)

FastSlimReadUnlock(t) ==
    \/ StoreFlag(t, FALSE, "reading", IF isLocked[t] THEN "ru_unshare" ELSE "ru_check")
    \/ UnshareCs(t)
    \/ CheckRequest(t, "ru_check", "ru_signal", "loop")
    \/ SetReaderDone(t, "ru_signal", "loop")

FastSlimWriteLock(t) ==
    \/ EnterCs(t, "wl_enter", "wl_request")
    \/ RequestWrite(t)
    \/ ScanReaders(t, "wl_wait")
    \/ WaitReaderDone(t)

FastSlimWriteUnlock(t) ==
    \/ ClearRequest(t, "wu_leave")
    \/ LeaveCs(t, "wu_leave", "loop")

FastSlimStep(t) ==
    /\ TMutex = "FastSlim"
    /\ \/ FastSlimReadLock(t)  \/ FastSlimReadUnlock(t)
       \/ FastSlimWriteLock(t) \/ FastSlimWriteUnlock(t)
=============================================================================
