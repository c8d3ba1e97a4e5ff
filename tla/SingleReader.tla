---------------------------- MODULE SingleReader ----------------------------
(***************************************************************************)
(* UltraSpinSingleReadWriteMutex and UltraSyncSingleReadWriteMutex: one    *)
(* designated reader and any number of writers.  Its flag m_isReading is a *)
(* member, not thread-local data; here it is the isReading of the one      *)
(* reader.  ReadLock, ReadUnlock and WriteUnlock are those of UltraSpin    *)
(* and UltraFast; WriteLock looks at one flag instead of a vector.         *)
(* m_readerDoneEvent of UltraSync is a manual-reset event that is created  *)
(* set and never reset, so the wait for it always returns at once.         *)
(***************************************************************************)
EXTENDS QueueLocks, UltraSpin, UltraFast

SingleClasses == {"UltraSpinSingle", "UltraSyncSingle"}

ASSUME DesignatedReader ==
    \A c \in SingleClasses \cap Classes : \A team \in Trials[c] :
        Cardinality(team \cap Readers) <= 1

m_isReading == \E r \in crew \cap Readers : isReading[r]
m_readerDoneEvent == \A r \in crew \cap Readers : readerDoneEvent[r]

\* One look at m_isReading in the while loop, and the wait for the event.
FindNotReading(t) == ~m_isReading /\ Goto(t, "wl_scan", "writing")
FindReading(t, busy) == m_isReading /\ Goto(t, "wl_scan", busy)
WaitReaderDoneSet(t) == m_readerDoneEvent /\ Goto(t, "wl_wait", "wl_scan")

SingleWriteLock(t, busy) ==
    \/ EnterCs(t, "wl_enter", "wl_reset")
    \/ ResetWriterDone(t)
    \/ RequestWrite(t)
    \/ /\ FindNotReading(t) \/ FindReading(t, busy) \/ WaitReaderDoneSet(t)
       /\ UNCHANGED flags

SpinSingleStep(t) ==
    /\ TMutex = "UltraSpinSingle"
    /\ \/ UltraSpinReadLock(t) \/ UltraSpinReadUnlock(t)
       \/ SingleWriteLock(t, "wl_sleep") \/ Sleep(t)
       \/ UltraSpinWriteUnlock(t)

SyncSingleStep(t) ==
    /\ TMutex = "UltraSyncSingle"
    /\ \/ UltraFastReadLock(t) \/ UltraFastReadUnlock(t)
       \/ SingleWriteLock(t, "wl_wait")
       \/ UltraFastWriteUnlock(t)

SingleStep(t) == (SpinSingleStep(t) \/ SyncSingleStep(t)) /\ UNCHANGED queue
=============================================================================
