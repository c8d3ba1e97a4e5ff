------------------------- MODULE FlagExclusionProofs -------------------------
(***************************************************************************)
(* What is proved of the flag mutexes under sequential consistency         *)
(* (BufferSize = 0), for any set of threads: mutual exclusion, no lost     *)
(* wakeup, the precedence of writers, and that every class implements the  *)
(* abstract read-write lock.  The runs show that the first two fail as     *)
(* soon as stores are buffered.                                            *)
(***************************************************************************)
EXTENDS FlagMutexesProofs

-----------------------------------------------------------------------------
(* Memory without store buffers.                                           *)

LEMMA StoreCommits ==
    ASSUME BufferSize = 0, MemoryInv, NEW t \in Threads, NEW loc, NEW val, Store(t, loc, val)
    PROVE  Commit(t, loc, val) /\ UNCHANGED storeBuffer
<1>1. ~(Len(storeBuffer[t]) < BufferSize)
  BY DEF MemoryInv
<1> QED
  BY <1>1 DEF Store

LEMMA SeenIsMemory ==
    ASSUME MemoryInv, NEW t \in Threads
    PROVE  WriteRequestedSeenBy(t) = m_writeRequested
<1>1. Buffered(t, "m_writeRequested") = {}
  BY DEF MemoryInv, Buffered
<1> QED
  BY <1>1 DEF WriteRequestedSeenBy

\* Most moves do not touch it.
LEMMA MemoryByOthers ==
    ASSUME NEW t \in Threads,
           \/ Harness(t) \/ Enter(t) \/ Leave(t) \/ Signal(t) \/ Check(t) \/ Wait(t)
           \/ Scan(t) \/ Sleep(t) \/ WaitReaderDone(t) \/ Reset(t) \/ SetWriterDone(t)
           \/ ShareCs(t) \/ UnshareCs(t)
    PROVE  UNCHANGED memory
<1>1. Harness(t) \/ Enter(t) \/ Leave(t) \/ Signal(t) => UNCHANGED memory
  BY DEF Harness, StartRead, StartWrite, Exit, PushTlsData, Enter, EnterCs, Leave, LeaveCs,
     Signal, SetReaderDone
<1>2. Check(t) \/ Wait(t) \/ ShareCs(t) \/ UnshareCs(t) \/ Scan(t) \/ Sleep(t) => UNCHANGED memory
  BY DEF Check, CheckRequest, Wait, WaitWriterDone, ShareCs, UnshareCs, Scan, FinishScan,
     PassReader, FindReader, Sleep
<1>3. WaitReaderDone(t) \/ Reset(t) \/ SetWriterDone(t) => UNCHANGED memory
  BY DEF WaitReaderDone, Reset, ResetWriterDone, SetWriterDone
<1> QED
  BY <1>1, <1>2, <1>3

\* What each move does to memory.
LEMMA MoveMemory ==
    ASSUME BufferSize = 0, MemoryInv, NEW t \in Threads, Move(t)
    PROVE  /\ UNCHANGED storeBuffer
           /\ Raise(t) \/ RaiseFlagLocked(t) =>
                isReading' = [isReading EXCEPT ![t] = TRUE] /\ UNCHANGED m_writeRequested
           /\ Lower(t) =>
                isReading' = [isReading EXCEPT ![t] = FALSE] /\ UNCHANGED m_writeRequested
           /\ RequestWrite(t) => m_writeRequested' = TRUE /\ UNCHANGED isReading
           /\ Clear(t) => m_writeRequested' = FALSE /\ UNCHANGED isReading
           /\ \/ Raise(t) \/ RaiseFlagLocked(t) \/ Lower(t) \/ RequestWrite(t) \/ Clear(t)
              \/ UNCHANGED memory
<1>1. Raise(t) => isReading' = [isReading EXCEPT ![t] = TRUE]
                  /\ UNCHANGED <<m_writeRequested, storeBuffer>>
  <2>1. Raise(t) => Store(t, "isReading", TRUE)
    BY Zenon DEF Raise, StoreFlag
  <2> QED
    BY <2>1, StoreCommits DEF Commit
<1>2. RaiseFlagLocked(t) => isReading' = [isReading EXCEPT ![t] = TRUE]
                            /\ UNCHANGED <<m_writeRequested, storeBuffer>>
  <2>1. RaiseFlagLocked(t) => Store(t, "isReading", TRUE)
    BY Zenon DEF RaiseFlagLocked
  <2> QED
    BY <2>1, StoreCommits DEF Commit
<1>3. Lower(t) => isReading' = [isReading EXCEPT ![t] = FALSE]
                  /\ UNCHANGED <<m_writeRequested, storeBuffer>>
  <2>1. Lower(t) => Store(t, "isReading", FALSE)
    BY Zenon DEF Lower, StoreFlag
  <2> QED
    BY <2>1, StoreCommits DEF Commit
<1>4. RequestWrite(t) => m_writeRequested' = TRUE /\ UNCHANGED <<isReading, storeBuffer>>
  <2>1. RequestWrite(t) => Store(t, "m_writeRequested", TRUE)
    BY Zenon DEF RequestWrite
  <2>2. Store(t, "m_writeRequested", TRUE) =>
            Commit(t, "m_writeRequested", TRUE) /\ UNCHANGED storeBuffer
    BY StoreCommits, Zenon
  <2>3. Commit(t, "m_writeRequested", TRUE) => m_writeRequested' = TRUE /\ UNCHANGED isReading
    BY DEF Commit
  <2> QED
    BY <2>1, <2>2, <2>3
<1>5. Clear(t) => m_writeRequested' = FALSE /\ UNCHANGED <<isReading, storeBuffer>>
  <2>1. Clear(t) => Store(t, "m_writeRequested", FALSE)
    BY Zenon DEF Clear, ClearRequest
  <2>2. Store(t, "m_writeRequested", FALSE) =>
            Commit(t, "m_writeRequested", FALSE) /\ UNCHANGED storeBuffer
    BY StoreCommits, Zenon
  <2>3. Commit(t, "m_writeRequested", FALSE) => m_writeRequested' = FALSE /\ UNCHANGED isReading
    BY DEF Commit
  <2> QED
    BY <2>1, <2>2, <2>3
<1>6. UNCHANGED memory => UNCHANGED storeBuffer
  BY DEF memory
<1>7. \/ Raise(t) \/ RaiseFlagLocked(t) \/ Lower(t) \/ RequestWrite(t) \/ Clear(t)
      \/ UNCHANGED memory
  BY MemoryByOthers DEF Move, Share
<1> QED
  BY <1>1, <1>2, <1>3, <1>4, <1>5, <1>6, <1>7

-----------------------------------------------------------------------------
(* Memory mirrors the places of the threads.                               *)

FlagUp == {"rl_check", "rl_yield", "rl_leave", "reading"}
Requested == Scanning \cup {"writing"}

\* Moves that leave memory alone only have to keep both sides in step.
LEMMA MemoryKept ==
    ASSUME MemoryInv, UNCHANGED memory,
           \A u \in Threads : pc'[u] \in FlagUp <=> pc[u] \in FlagUp,
           (m_cs' # None /\ pc'[m_cs'] \in Requested) <=> (m_cs # None /\ pc[m_cs] \in Requested)
    PROVE  MemoryInv'
  BY DEF MemoryInv, memory, FlagUp, Requested

LEMMA MoveMemoryInv ==
    ASSUME BufferSize = 0, TypeOK, LockInv, MemoryInv, NEW t \in Threads, Move(t)
    PROVE  MemoryInv'
<1> USE NoneAssumption DEF Goto, Scanning, CsPlaces
<1>1. UNCHANGED storeBuffer
  BY MoveMemory
<1>2. CASE Raise(t)
  <2>1. isReading' = [isReading EXCEPT ![t] = TRUE] /\ UNCHANGED m_writeRequested
    BY <1>2, MoveMemory, Zenon
  <2>2. GotoOnly(t, "rl_raise", "rl_check") \/ GotoOnly(t, "rl_incs", "rl_leave")
    BY <1>2, StoreFrame, Zenon
  <2> QED
    BY <1>1, <2>1, <2>2 DEF MemoryInv, TypeOK, GotoOnly, locks
<1>3. CASE Lower(t)
  <2>1. isReading' = [isReading EXCEPT ![t] = FALSE] /\ UNCHANGED m_writeRequested
    BY <1>3, MoveMemory, Zenon
  <2>2. \E from \in {"rl_yield", "reading"},
           to \in {"rl_wait", "rl_signal", "loop", "ru_check", "ru_unshare"} :
              GotoOnly(t, from, to)
    BY <1>3, StoreFrame, Zenon
  <2> QED
    BY <1>1, <2>1, <2>2 DEF MemoryInv, TypeOK, GotoOnly, locks
<1>4. CASE RequestWrite(t)
  <2>1. m_writeRequested' = TRUE /\ UNCHANGED isReading
    BY <1>4, MoveMemory, Zenon
  <2>2. GotoOnly(t, "wl_request", "wl_scan")
    BY <1>4, StoreFrame, Zenon
  <2> QED
    BY <1>1, <2>1, <2>2 DEF MemoryInv, TypeOK, GotoOnly, locks, LockInv, OwnerInv
<1>5. CASE Clear(t)
  <2>1. m_writeRequested' = FALSE /\ UNCHANGED isReading
    BY <1>5, MoveMemory, Zenon
  <2>2. GotoOnly(t, "writing", "wu_signal") \/ GotoOnly(t, "writing", "wu_leave")
    BY <1>5, StoreFrame, Zenon
  <2> QED
    BY <1>1, <2>1, <2>2 DEF MemoryInv, TypeOK, GotoOnly, locks, LockInv, OwnerInv
<1>6. CASE Share(t)
  <2>1. CASE RaiseFlagLocked(t)
    <3>1. isReading' = [isReading EXCEPT ![t] = TRUE] /\ UNCHANGED m_writeRequested
      BY <2>1, MoveMemory, Zenon
    <3>2. Goto(t, "rl_shared", "reading") /\ UNCHANGED m_cs
      BY <2>1, Zenon DEF RaiseFlagLocked
    <3> QED
      BY <1>1, <3>1, <3>2 DEF MemoryInv, TypeOK
  <2>2. CASE ShareCs(t)
    BY <2>2 DEF MemoryInv, TypeOK, ShareCs, memory
  <2>3. CASE UnshareCs(t)
    BY <2>3 DEF MemoryInv, TypeOK, UnshareCs, memory
  <2> QED
    BY <1>6, <2>1, <2>2, <2>3 DEF Share
<1>7. CASE \/ Harness(t) \/ Enter(t) \/ Leave(t) \/ Signal(t) \/ Check(t) \/ Wait(t)
           \/ Scan(t) \/ Sleep(t) \/ WaitReaderDone(t) \/ Reset(t) \/ SetWriterDone(t)
  <2> USE DEF TypeOK, LockInv, OwnerInv, FlagUp, Requested, locks
  <2> DEFINE Kept == /\ \A u \in Threads : pc'[u] \in FlagUp <=> pc[u] \in FlagUp
                     /\ (m_cs' # None /\ pc'[m_cs'] \in Requested)
                          <=> (m_cs # None /\ pc[m_cs] \in Requested)
  <2> SUFFICES Kept
    <3>1. UNCHANGED memory
      BY <1>7, MemoryByOthers
    <3> QED
      BY <3>1, MemoryKept
  <2>1. CASE Harness(t)
    BY <2>1 DEF Harness, StartRead, StartWrite, Exit, PushTlsData
  <2>2. CASE Enter(t)
    BY <2>2 DEF Enter, EnterCs
  <2>3. CASE Leave(t)
    BY <2>3 DEF Leave, LeaveCs
  <2>4. CASE Signal(t)
    BY <2>4 DEF Signal, SetReaderDone
  <2>5. CASE Check(t)
    <3>1. WriteRequestedSeenBy(t) = m_writeRequested
      BY SeenIsMemory
    <3> QED
      BY <2>5, <3>1 DEF Check, CheckRequest
  <2>6. CASE Wait(t)
    BY <2>6 DEF Wait, WaitWriterDone
  <2>7. CASE Scan(t)
    BY <2>7 DEF Scan, FinishScan, PassReader, FindReader
  <2>8. CASE Sleep(t)
    BY <2>8 DEF Sleep
  <2>9. CASE WaitReaderDone(t)
    BY <2>9 DEF WaitReaderDone
  <2>10. CASE Reset(t)
    BY <2>10 DEF Reset, ResetWriterDone
  <2>11. CASE SetWriterDone(t)
    BY <2>11 DEF SetWriterDone
  <2> QED
    BY <1>7, <2>1, <2>2, <2>3, <2>4, <2>5, <2>6, <2>7, <2>8, <2>9, <2>10, <2>11
<1> QED
  BY <1>2, <1>3, <1>4, <1>5, <1>6, <1>7 DEF Move

-----------------------------------------------------------------------------
(* A writer leaves no reader behind.                                       *)

\* The moves that begin no read, no scan and no write.
LEMMA ScanKept ==
    ASSUME TypeOK, ScanInv, UNCHANGED <<m_threadStates, iter>>,
           \A u \in Threads : /\ pc'[u] = "reading" => pc[u] = "reading"
                              /\ pc'[u] = "writing" => pc[u] = "writing"
                              /\ pc'[u] \in Scanning => pc[u] \in Scanning
    PROVE  ScanInv'
<1>1. \A i \in 1..Len(m_threadStates) : m_threadStates[i] \in Threads
  BY DEF TypeOK
<1> QED
  BY <1>1 DEF ScanInv

\* No thread obtains a read lock while a writer scans or writes.
LEMMA NoNewReader ==
    ASSUME TypeOK, LockInv, MemoryInv, NEW t \in Threads, Move(t),
           NEW w \in Threads, pc[w] \in Requested
    PROVE  \A r \in Threads : pc'[r] = "reading" => pc[r] = "reading"
<1> USE DEF TypeOK, Goto
<1>1. m_cs = w /\ m_cs # None /\ m_csReaders = {}
  BY NoneAssumption DEF LockInv, OwnerInv, SharedInv, CsPlaces, Requested
<1>2. CASE Raise(t) \/ Lower(t) \/ RequestWrite(t) \/ Clear(t)
  BY <1>2, StoreFrame DEF GotoOnly
<1>3. CASE Harness(t) \/ Enter(t) \/ Leave(t) \/ Signal(t)
  BY <1>3 DEF Harness, StartRead, StartWrite, Exit, PushTlsData, Enter, EnterCs, Leave, LeaveCs,
     Signal, SetReaderDone
<1>4. CASE Check(t)
  <2>1. WriteRequestedSeenBy(t) = m_writeRequested
    BY SeenIsMemory
  <2>2. m_writeRequested
    BY <1>1 DEF MemoryInv, Requested
  <2> QED
    BY <1>4, <2>1, <2>2 DEF Check, CheckRequest
<1>5. CASE Share(t)
  <2>1. ~ RaiseFlagLocked(t)
    BY <1>1 DEF LockInv, SharedInv, RaiseFlagLocked
  <2> QED
    BY <1>5, <2>1 DEF Share, ShareCs, UnshareCs
<1>6. CASE Wait(t) \/ Scan(t) \/ Sleep(t)
  BY <1>6 DEF Wait, WaitWriterDone, Scan, FinishScan, PassReader, FindReader, Sleep
<1>7. CASE WaitReaderDone(t) \/ Reset(t) \/ SetWriterDone(t)
  BY <1>7 DEF WaitReaderDone, Reset, ResetWriterDone, SetWriterDone
<1> QED
  BY <1>2, <1>3, <1>4, <1>5, <1>6, <1>7 DEF Move

\* At the end of the vector no registered thread reads, and every reader is
\* registered.
LEMMA ScanEnds ==
    ASSUME TypeOK, LockInv, ScanInv, NEW t \in Threads, FinishScan(t)
    PROVE  \A r \in Threads : pc[r] # "reading"
<1>1. \A r \in Threads : pc[r] = "reading" => Registered(r)
  BY DEF LockInv, RegisteredInv, ReaderPlaces
<1>2. \A i \in 1..Len(m_threadStates) : pc[m_threadStates[i]] # "reading"
  BY DEF FinishScan, ScanInv, TypeOK, Goto, Scanning
<1> QED
  BY <1>1, <1>2 DEF Registered

LEMMA MoveScan ==
    ASSUME TypeOK, LockInv, MemoryInv, ScanInv, NEW t \in Threads, Move(t)
    PROVE  ScanInv'
<1> USE DEF Goto, Scanning
<1>1. \A i \in 1..Len(m_threadStates) : m_threadStates[i] \in Threads
  BY DEF TypeOK
<1>2. CASE PushTlsData(t)
  \* t owns m_cs, so that nobody scans or writes.
  BY <1>2, NoneAssumption DEF PushTlsData, ScanInv, LockInv, OwnerInv, CsPlaces, TypeOK
<1>3. CASE RequestWrite(t)
  <2>1. iter' = [iter EXCEPT ![t] = 1] /\ UNCHANGED m_threadStates
        /\ Goto(t, "wl_request", "wl_scan")
    BY <1>3, Zenon DEF RequestWrite, registry
  <2> QED
    BY <2>1, <1>1 DEF ScanInv, TypeOK, LockInv, OwnerInv, CsPlaces
<1>4. CASE PassReader(t)
  <2>1. pc[Visited(t)] # "reading"
    BY <1>4, <1>1 DEF PassReader, Visited, MemoryInv, TypeOK
  <2> QED
    BY <1>4, <2>1, <1>1 DEF PassReader, Visited, ScanInv, TypeOK, registry
<1>5. CASE FinishScan(t)
  <2>1. \A r \in Threads : pc[r] # "reading"
    BY <1>5, ScanEnds
  <2>2. \A w \in Threads : pc'[w] \in Scanning => FALSE
    BY <1>5 DEF FinishScan, TypeOK, LockInv, OwnerInv, CsPlaces
  <2> QED
    BY <1>5, <2>1, <2>2 DEF FinishScan, ScanInv, TypeOK
<1>6. CASE Check(t) \/ Share(t)
  <2>1. /\ UNCHANGED <<m_threadStates, iter>>
        /\ \A w \in Threads : pc'[w] \in Requested => pc[w] \in Requested /\ pc'[w] = pc[w]
    BY <1>6 DEF Check, CheckRequest, Share, ShareCs, RaiseFlagLocked, UnshareCs, registry,
       TypeOK, Requested
  <2>2. CASE \A w \in Threads : pc[w] \notin Requested
    BY <2>1, <2>2 DEF ScanInv, Requested
  <2>3. CASE \E w \in Threads : pc[w] \in Requested
    <3>1. \A r \in Threads : pc'[r] = "reading" => pc[r] = "reading"
      BY <2>3, NoNewReader
    <3> QED
      BY <2>1, <3>1, ScanKept DEF Requested
  <2> QED
    BY <2>2, <2>3
<1> DEFINE Kept == /\ UNCHANGED <<m_threadStates, iter>>
                   /\ \A u \in Threads : /\ pc'[u] = "reading" => pc[u] = "reading"
                                         /\ pc'[u] = "writing" => pc[u] = "writing"
                                         /\ pc'[u] \in Scanning => pc[u] \in Scanning
<1>7. CASE Raise(t) \/ Lower(t) \/ Clear(t)
  <2>1. UNCHANGED iter
    BY <1>7, Zenon DEF Raise, Lower, Clear, StoreFlag, ClearRequest
  <2>2. Kept
    BY <1>7, <2>1, StoreFrame DEF GotoOnly, TypeOK
  <2> QED
    BY <2>2, ScanKept
<1>8. CASE StartRead(t) \/ StartWrite(t) \/ Exit(t) \/ Enter(t) \/ Leave(t) \/ Signal(t)
  <2>1. Kept
    BY <1>8 DEF StartRead, StartWrite, Exit, Enter, EnterCs, Leave, LeaveCs, Signal,
       SetReaderDone, TypeOK, registry
  <2> QED
    BY <2>1, ScanKept
<1>9. CASE Wait(t) \/ (\E busy \in {"wl_sleep", "wl_wait"} : FindReader(t, busy)) \/ Sleep(t)
  <2>1. Kept
    BY <1>9 DEF Wait, WaitWriterDone, FindReader, Sleep, TypeOK, registry
  <2> QED
    BY <2>1, ScanKept
<1>10. CASE WaitReaderDone(t) \/ Reset(t) \/ SetWriterDone(t)
  <2>1. Kept
    BY <1>10 DEF WaitReaderDone, Reset, ResetWriterDone, SetWriterDone, TypeOK, registry
  <2> QED
    BY <2>1, ScanKept
<1> QED
  BY <1>2, <1>3, <1>4, <1>5, <1>6, <1>7, <1>8, <1>9, <1>10 DEF Move, Harness, Scan

-----------------------------------------------------------------------------
(* No wakeup of a writer is lost.                                          *)

\* A reader on its way to SetEvent stays on its way, or arrives.
LEMMA StillBoundToSignal ==
    ASSUME TypeOK, LockInv, MemoryInv, TMutex # "UltraSpin", m_writeRequested,
           NEW t \in Threads, Move(t), pc[t] \in BoundToSignal
    PROVE  readerDoneEvent'[t] \/ pc'[t] \in BoundToSignal
<1> USE DEF BoundToSignal, Goto, TypeOK
<1>1. CASE Lower(t)
  BY <1>1, StoreFrame DEF GotoOnly
<1>2. CASE Signal(t)
  BY <1>2 DEF Signal, SetReaderDone
<1>3. CASE Check(t)
  <2>1. WriteRequestedSeenBy(t) = m_writeRequested
    BY SeenIsMemory
  <2> QED
    BY <1>3, <2>1 DEF Check, CheckRequest
<1>4. CASE Share(t)
  BY <1>4 DEF Share, ShareCs, RaiseFlagLocked, UnshareCs
<1>5. ~(Raise(t) \/ RequestWrite(t) \/ Clear(t))
  BY StoreFrame DEF GotoOnly
<1>6. ~(Harness(t) \/ Enter(t) \/ Leave(t) \/ Wait(t) \/ Scan(t) \/ Sleep(t))
  BY DEF Harness, StartRead, StartWrite, Exit, PushTlsData, Enter, EnterCs, Leave, LeaveCs,
     Wait, WaitWriterDone, Scan, FinishScan, PassReader, FindReader, Sleep
<1>7. ~(WaitReaderDone(t) \/ Reset(t) \/ SetWriterDone(t))
  BY DEF WaitReaderDone, Reset, ResetWriterDone, SetWriterDone
<1> QED
  BY <1>1, <1>2, <1>3, <1>4, <1>5, <1>6, <1>7 DEF Move

\* What the moves of one thread leave alone of the others.
LEMMA OthersUndisturbed ==
    ASSUME TypeOK, LockInv, NEW t \in Threads, Move(t),
           NEW w \in Threads, w # t, pc[w] = "wl_wait"
    PROVE  /\ UNCHANGED <<TMutex, m_threadStates>> /\ iter'[w] = iter[w]
           /\ \A u \in Threads \ {t} : pc'[u] = pc[u]
           /\ \A u \in Threads : readerDoneEvent[u] => readerDoneEvent'[u]
<1> USE DEF TypeOK, Goto, registry, events
<1>1. pc[t] \notin CsPlaces
  BY DEF LockInv, OwnerInv, CsPlaces, Scanning
<1>2. CASE Raise(t) \/ Lower(t)
  <2>1. UNCHANGED iter
    BY <1>2, Zenon DEF Raise, Lower, StoreFlag
  <2> QED
    BY <1>2, <2>1, StoreFrame DEF GotoOnly
<1>3. ~(RequestWrite(t) \/ Clear(t))
  BY <1>1, StoreFrame DEF GotoOnly, CsPlaces
<1>4. CASE StartRead(t) \/ StartWrite(t) \/ Exit(t) \/ Enter(t) \/ Signal(t)
  BY <1>4 DEF StartRead, StartWrite, Exit, Enter, EnterCs, Signal, SetReaderDone
<1>5. CASE Check(t) \/ Wait(t) \/ Share(t)
  BY <1>5 DEF Check, CheckRequest, Wait, WaitWriterDone, Share, ShareCs, RaiseFlagLocked,
     UnshareCs
<1>6. ~(PushTlsData(t) \/ Leave(t) \/ Scan(t) \/ Sleep(t))
  BY <1>1 DEF CsPlaces, Scanning, PushTlsData, Leave, LeaveCs, Scan, FinishScan, PassReader,
     FindReader, Sleep
<1>7. ~(WaitReaderDone(t) \/ Reset(t) \/ SetWriterDone(t))
  BY <1>1 DEF CsPlaces, Scanning, WaitReaderDone, Reset, ResetWriterDone, SetWriterDone
<1> QED
  BY <1>2, <1>3, <1>4, <1>5, <1>6, <1>7 DEF Move, Harness

\* Only FindReader makes a thread wait for a reader's event.
LEMMA BeginsToWait ==
    ASSUME TypeOK, NEW t \in Threads, Move(t), NEW w \in Threads,
           pc'[w] = "wl_wait", pc[w] # "wl_wait"
    PROVE  w = t /\ TMutex # "UltraSpin" /\ FindReader(t, "wl_wait")
<1> USE DEF TypeOK, Goto
<1>1. ~(Raise(t) \/ Lower(t) \/ RequestWrite(t) \/ Clear(t))
  BY StoreFrame DEF GotoOnly
<1>2. ~(Harness(t) \/ Enter(t) \/ Leave(t) \/ Signal(t))
  BY DEF Harness, StartRead, StartWrite, Exit, PushTlsData, Enter, EnterCs, Leave, LeaveCs,
     Signal, SetReaderDone
<1>3. ~(Check(t) \/ Wait(t) \/ Share(t) \/ Sleep(t))
  BY DEF Check, CheckRequest, Wait, WaitWriterDone, Share, ShareCs, RaiseFlagLocked, UnshareCs, Sleep
<1>4. ~(WaitReaderDone(t) \/ Reset(t) \/ SetWriterDone(t))
  BY DEF WaitReaderDone, Reset, ResetWriterDone, SetWriterDone
<1>5. ~(FinishScan(t) \/ PassReader(t) \/ FindReader(t, "wl_sleep"))
  BY DEF FinishScan, PassReader, FindReader
<1>6. TMutex # "UltraSpin" /\ FindReader(t, "wl_wait")
  BY <1>1, <1>2, <1>3, <1>4, <1>5 DEF Move, Scan
<1> QED
  BY <1>6 DEF FindReader

LEMMA MoveWake ==
    ASSUME TypeOK, LockInv, MemoryInv, WakeInv, NEW t \in Threads, Move(t)
    PROVE  WakeInv'
<1> SUFFICES ASSUME NEW w \in Threads, pc'[w] = "wl_wait"
             PROVE  /\ TMutex' # "UltraSpin" /\ iter'[w] <= Len(m_threadStates')
                    /\ \/ readerDoneEvent'[Visited(w)']
                       \/ pc'[Visited(w)'] \in BoundToSignal
  BY DEF WakeInv, WriterIsWoken
<1> USE DEF TypeOK
<1>1. CASE pc[w] # "wl_wait"
  <2>1. w = t /\ TMutex # "UltraSpin" /\ FindReader(t, "wl_wait")
    BY <1>1, BeginsToWait
  <2>2. /\ UNCHANGED <<TMutex, iter, m_threadStates, m_cs>> /\ iter[t] <= Len(m_threadStates)
        /\ isReading[Visited(t)] /\ pc[t] = "wl_scan" /\ pc' = [pc EXCEPT ![t] = "wl_wait"]
    BY <2>1 DEF FindReader, Goto, locks, registry
  <2>3. Visited(t) \in Threads /\ Visited(t)' = Visited(t)
    BY <2>2 DEF Visited
  <2>4. m_cs = t
    BY <2>2 DEF LockInv, OwnerInv, CsPlaces, Scanning
  <2>5. pc[Visited(t)] \in {"rl_check", "rl_yield", "reading"}
    BY <2>2, <2>3, <2>4 DEF MemoryInv, LockInv, OwnerInv, CsPlaces
  <2> QED
    BY <2>1, <2>2, <2>3, <2>5 DEF BoundToSignal
<1>2. CASE pc[w] = "wl_wait" /\ w # t
  <2>1. /\ UNCHANGED <<TMutex, m_threadStates>> /\ iter'[w] = iter[w]
        /\ \A u \in Threads \ {t} : pc'[u] = pc[u]
        /\ \A u \in Threads : readerDoneEvent[u] => readerDoneEvent'[u]
    BY <1>2, OthersUndisturbed
  <2>2. TMutex # "UltraSpin" /\ iter[w] <= Len(m_threadStates)
    BY <1>2 DEF WakeInv
  <2>3. Visited(w) \in Threads /\ Visited(w)' = Visited(w)
    BY <2>1, <2>2 DEF Visited
  <2>4. readerDoneEvent[Visited(w)] \/ pc[Visited(w)] \in BoundToSignal
    BY <1>2 DEF WakeInv, WriterIsWoken
  <2>5. m_writeRequested
    BY <1>2, NoneAssumption DEF MemoryInv, LockInv, OwnerInv, CsPlaces, Scanning
  <2>6. readerDoneEvent'[Visited(w)] \/ pc'[Visited(w)] \in BoundToSignal
    BY <2>1, <2>2, <2>3, <2>4, <2>5, StillBoundToSignal
  <2> QED
    BY <2>1, <2>2, <2>3, <2>6
<1>3. CASE pc[w] = "wl_wait" /\ w = t
  \* A waiting writer only moves to look at the flag again.
  <2>1. ~(Raise(t) \/ Lower(t) \/ RequestWrite(t) \/ Clear(t))
    BY <1>3, StoreFrame DEF GotoOnly, Goto
  <2>2. WaitReaderDone(t)
    BY <1>3, <2>1 DEF Move, Harness, StartRead, StartWrite, Exit, PushTlsData, Enter, EnterCs,
       Leave, LeaveCs, Signal, SetReaderDone, Check, CheckRequest, Wait, WaitWriterDone,
       Share, ShareCs, RaiseFlagLocked, UnshareCs, Sleep, Scan, FinishScan, PassReader,
       FindReader, Reset, ResetWriterDone, SetWriterDone, Goto
  <2> QED
    BY <1>3, <2>2 DEF WaitReaderDone, Goto
<1> QED
  BY <1>1, <1>2, <1>3

-----------------------------------------------------------------------------
(* The theorems.                                                           *)

LEMMA FlagStep ==
    ASSUME BufferSize = 0, TypeOK, LockInv, FlagInv, [Next]_vars
    PROVE  FlagInv'
<1>1. ASSUME NEW t \in Threads, Step(t) PROVE FlagInv'
  BY <1>1, StepIsMove, MoveMemoryInv, MoveScan, MoveWake DEF FlagInv
<1>2. CASE UNCHANGED <<TMutex, pc, memory, events, locks, registry, iter>>
  BY <1>2 DEF FlagInv, MemoryInv, ScanInv, WakeInv, WriterIsWoken, Visited,
     memory, events, locks, registry
<1>3. Stop => UNCHANGED <<TMutex, pc, memory, events, locks, registry, iter>>
  BY DEF Stop
<1>4. \A t \in Threads : ~Drain(t)
  BY DEF Drain, FlagInv, MemoryInv
<1>5. UNCHANGED vars => UNCHANGED <<TMutex, pc, memory, events, locks, registry, iter>>
  BY DEF vars
<1> QED
  BY <1>1, <1>2, <1>3, <1>4, <1>5 DEF Next

\* Memory mirrors the threads, scans leave no reader behind and no wakeup is
\* lost, in every reachable state of a sequentially consistent machine.
THEOREM FlagsConsistent == ASSUME BufferSize = 0 PROVE Spec => []FlagInv
<1>1. Init => FlagInv
  BY DEF Init, FlagInv, MemoryInv, ScanInv, WakeInv, WriterIsWoken, Scanning
<1>2. TypeOK /\ LockInv /\ FlagInv /\ [Next]_vars => FlagInv'
  BY FlagStep
<1> QED
  BY <1>1, <1>2, TypeCorrect, LocksConsistent, PTL DEF Spec

\* Mutual exclusion: a write lock excludes every other lock, in each of the
\* four classes and for any number of threads.
THEOREM MutualExclusion == ASSUME BufferSize = 0 PROVE Spec => []Exclusion
<1>1. LockInv /\ FlagInv => Exclusion
  BY NoneAssumption DEF LockInv, OwnerInv, FlagInv, ScanInv, Exclusion, CsPlaces
<1> QED
  BY <1>1, LocksConsistent, FlagsConsistent, PTL

\* A writer that waits for a reader finds its event set, now or later.
THEOREM NoLostWakeup == ASSUME BufferSize = 0 PROVE Spec => []WriterIsWoken
<1>1. FlagInv => WriterIsWoken
  BY DEF FlagInv, WakeInv
<1> QED
  BY <1>1, FlagsConsistent, PTL

\* Writers have precedence: no thread obtains a read lock between a writer's
\* request and the end of its write.
THEOREM WritersHavePrecedence == ASSUME BufferSize = 0 PROVE Spec => NewReadersYield
<1> DEFINE Yield == (\E w \in Threads : pc[w] \in Scanning \cup {"writing"}) =>
                        \A r \in Threads : pc'[r] = "reading" => pc[r] = "reading"
<1>1. TypeOK /\ LockInv /\ FlagInv /\ [Next]_vars => [Yield]_vars
  <2> SUFFICES ASSUME TypeOK, LockInv, FlagInv, Next, NEW w \in Threads, pc[w] \in Requested
               PROVE  \A r \in Threads : pc'[r] = "reading" => pc[r] = "reading"
    BY DEF Requested
  <2>1. ASSUME NEW t \in Threads, Step(t)
        PROVE  \A r \in Threads : pc'[r] = "reading" => pc[r] = "reading"
    BY <2>1, StepIsMove, NoNewReader DEF FlagInv
  <2> QED
    BY <2>1 DEF Next, Stop, Drain
<1> QED
  BY <1>1, TypeCorrect, LocksConsistent, FlagsConsistent, PTL DEF Spec, NewReadersYield
=============================================================================
