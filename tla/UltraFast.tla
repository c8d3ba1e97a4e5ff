------------------------------ MODULE UltraFast ------------------------------
(***************************************************************************)
(* UltraFastReadWriteMutex: UltraSpin with a second event per reader, on   *)
(* which a writer sleeps until the reader has lowered its flag.            *)
(***************************************************************************)
EXTENDS ReaderFlags

\* (A plausible bug: the reader goes to sleep without telling the writer.)
UltraFastReadLockSilent(t) ==
    \/ StoreFlag(t, TRUE, "rl_raise", "rl_check")
    \/ CheckRequest(t, "rl_check", "rl_yield", "reading")
    \/ StoreFlag(t, FALSE, "rl_yield", "rl_wait")
    \/ WaitWriterDone(t)

\* readLock: raise the flag, and take it down again while a writer asks.
UltraFastReadLock(t) ==
    \/ StoreFlag(t, TRUE, "rl_raise", "rl_check")
    \/ CheckRequest(t, "rl_check", "rl_yield", "reading")
    \/ StoreFlag(t, FALSE, "rl_yield", "rl_signal")
    \/ SetReaderDone(t, "rl_signal", "rl_wait")
    \/ WaitWriterDone(t)

\* (A plausible bug: m_writeRequested is read before the flag is lowered.)
UltraFastReadUnlockCheckFirst(t) ==
    \/ CheckRequest(t, "reading", "ru_unshare", "ru_check")
    \/ StoreFlag(t, FALSE, "ru_check", "loop")
    \/ StoreFlag(t, FALSE, "ru_unshare", "ru_signal")
    \/ SetReaderDone(t, "ru_signal", "loop")

\* readUnlock: a writer that asks may be asleep.
UltraFastReadUnlock(t) ==
    \/ StoreFlag(t, FALSE, "reading", "ru_check")
    \/ CheckRequest(t, "ru_check", "ru_signal", "loop")
    \/ SetReaderDone(t, "ru_signal", "loop")

UltraFastWriteLock(t) ==
    \/ EnterCs(t, "wl_enter", "wl_reset")
    \/ ResetWriterDone(t)
    \/ RequestWrite(t)
    \/ ScanReaders(t, "wl_wait")
    \/ WaitReaderDone(t)

UltraFastWriteUnlock(t) ==
    \/ ClearRequest(t, "wu_signal")
    \/ SetWriterDone(t)
    \/ LeaveCs(t, "wu_leave", "loop")

UltraFastStep(t) ==
    /\ TMutex = "UltraFast"
    /\ \/ UltraFastReadLock(t)  \/ UltraFastReadUnlock(t)
       \/ UltraFastWriteLock(t) \/ UltraFastWriteUnlock(t)
=============================================================================
