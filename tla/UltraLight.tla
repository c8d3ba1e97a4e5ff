----------------------------- MODULE UltraLight -----------------------------
(***************************************************************************)
(* UltraLightReadWriteMutex: no m_writerDoneEvent; a reader that meets a   *)
(* writer queues on m_cs and raises its flag again while it owns m_cs.     *)
(***************************************************************************)
EXTENDS ReaderFlags

UltraLightReadLock(t) ==
    \/ StoreFlag(t, TRUE, "rl_raise", "rl_check")
    \/ CheckRequest(t, "rl_check", "rl_yield", "reading")
    \/ StoreFlag(t, FALSE, "rl_yield", "rl_signal")
    \/ SetReaderDone(t, "rl_signal", "rl_enter")
    \/ EnterCs(t, "rl_enter", "rl_incs")
    \/ StoreFlag(t, TRUE, "rl_incs", "rl_leave")
    \/ LeaveCs(t, "rl_leave", "rl_check")

\* (A plausible bug: UltraSpin's readUnlock, which wakes nobody.)
UltraLightReadUnlockSilent(t) == StoreFlag(t, FALSE, "reading", "loop")

UltraLightReadUnlock(t) ==
    \/ StoreFlag(t, FALSE, "reading", "ru_check")
    \/ CheckRequest(t, "ru_check", "ru_signal", "loop")
    \/ SetReaderDone(t, "ru_signal", "loop")

\* (A plausible bug: no m_cs.WriteLock().)
UltraLightWriteLockUnlocked(t) ==
    \/ /\ Goto(t, "wl_enter", "wl_request")
       /\ UNCHANGED <<TMutex, m_done, memory, events, locks, registry, iter>>
    \/ RequestWrite(t)
    \/ ScanReaders(t, "wl_wait")
    \/ WaitReaderDone(t)

UltraLightWriteLock(t) ==
    \/ EnterCs(t, "wl_enter", "wl_request")
    \/ RequestWrite(t)
    \/ ScanReaders(t, "wl_wait")
    \/ WaitReaderDone(t)

\* (A plausible bug: m_cs is released before the request is taken back.)
UltraLightWriteUnlockEarly(t) ==
    \/ LeaveCs(t, "writing", "wu_leave")
    \/ /\ Store(t, "m_writeRequested", FALSE)
       /\ Goto(t, "wu_leave", "loop")
       /\ UNCHANGED <<TMutex, m_done, events, locks, registry, iter>>

UltraLightWriteUnlock(t) ==
    \/ ClearRequest(t, "wu_leave")
    \/ LeaveCs(t, "wu_leave", "loop")

UltraLightStep(t) ==
    /\ TMutex = "UltraLight"
    /\ \/ UltraLightReadLock(t)  \/ UltraLightReadUnlock(t)
       \/ UltraLightWriteLock(t) \/ UltraLightWriteUnlock(t)
=============================================================================
