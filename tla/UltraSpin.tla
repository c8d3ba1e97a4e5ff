------------------------------ MODULE UltraSpin ------------------------------
(***************************************************************************)
(* UltraSpinReadWriteMutex: a writer polls each raised flag with Sleep(1); *)
(* a reader that meets a writer sleeps on m_writerDoneEvent.               *)
(***************************************************************************)
EXTENDS ReaderFlags

\* (A plausible bug: m_writeRequested is read before the flag is raised.)
UltraSpinReadLockCheckFirst(t) ==
    \/ CheckRequest(t, "rl_raise", "rl_wait", "rl_check")
    \/ StoreFlag(t, TRUE, "rl_check", "reading")
    \/ WaitWriterDone(t)

\* readLock: raise the flag, and take it down again while a writer asks.
UltraSpinReadLock(t) ==
    \/ StoreFlag(t, TRUE, "rl_raise", "rl_check")
    \/ CheckRequest(t, "rl_check", "rl_yield", "reading")
    \/ StoreFlag(t, FALSE, "rl_yield", "rl_wait")
    \/ WaitWriterDone(t)

UltraSpinReadUnlock(t) == StoreFlag(t, FALSE, "reading", "loop")

\* Sleep(1) between two polls of the same flag.
Sleep(t) ==
    /\ Fenced(t)
    /\ Goto(t, "wl_sleep", "wl_scan")
    /\ UNCHANGED <<TMutex, m_done, memory, events, locks, registry, iter>>

UltraSpinWriteLock(t) ==
    \/ EnterCs(t, "wl_enter", "wl_reset")
    \/ ResetWriterDone(t)
    \/ RequestWrite(t)
    \/ ScanReaders(t, "wl_sleep")
    \/ Sleep(t)

\* (A plausible bug: nobody sets m_writerDoneEvent.)
UltraSpinWriteUnlockSilent(t) ==
    \/ ClearRequest(t, "wu_leave")
    \/ LeaveCs(t, "wu_leave", "loop")

UltraSpinWriteUnlock(t) ==
    \/ ClearRequest(t, "wu_signal")
    \/ SetWriterDone(t)
    \/ LeaveCs(t, "wu_leave", "loop")

UltraSpinStep(t) ==
    /\ TMutex = "UltraSpin"
    /\ \/ UltraSpinReadLock(t)  \/ UltraSpinReadUnlock(t)
       \/ UltraSpinWriteLock(t) \/ UltraSpinWriteUnlock(t)
=============================================================================
