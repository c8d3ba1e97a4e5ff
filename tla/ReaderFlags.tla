----------------------------- MODULE ReaderFlags -----------------------------
(***************************************************************************)
(* The shared memory, the Win32 objects and the atomic steps from which    *)
(* the four flag-per-reader mutexes (UltraSpin, UltraFast, UltraLight and  *)
(* FastSlim) are built.  A reader announces itself in a flag of its own,   *)
(* isReading, that lives in thread-local storage; a writer sets            *)
(* m_writeRequested, then visits the flags of all registered threads one   *)
(* by one.  A step below is one access to memory that another thread can   *)
(* see, or one call on a Win32 object; t is the thread that makes it and   *)
(* pc[t] the place it has reached in ReadLock (rl_), ReadUnlock (ru_),     *)
(* WriteLock (wl_), WriteUnlock (wu_) or initTlsData (tls_).               *)
(*                                                                         *)
(* Memory is sequentially consistent when BufferSize = 0, and x86 memory   *)
(* when BufferSize > 0: a store then waits in the thread's own FIFO buffer *)
(* and reaches memory later.  Locked instructions and kernel calls drain   *)
(* the buffer; plain loads and stores of a volatile do not.                *)
(***************************************************************************)
EXTENDS Integers, Sequences, FiniteSets

CONSTANTS
    Classes,     \* the mutex classes that Test<TMutex> may be instantiated with
    Readers,     \* threads that run ReaderThread of main.cpp
    Writers,     \* threads that run WriterThread of main.cpp
    None,        \* no thread
    BufferSize   \* entries of a store buffer, 0 for sequential consistency

Threads == Readers \cup Writers

ASSUME NoneAssumption == None \notin Threads
ASSUME BufferAssumption == BufferSize \in Nat

VARIABLES
    TMutex,            \* the class under test, chosen once
    pc,
    m_done,            \* the test is over (main.cpp)
    m_writeRequested,
    isReading,         \* per thread: TlsData::isReading
    storeBuffer,       \* per thread: stores that are not in memory yet
    readerDoneEvent,   \* per thread: auto-reset event of TlsData
    m_writerDoneEvent, \* manual-reset event
    tlsData,           \* per thread: the TLS slot holds a TlsData
    m_threadStates,    \* the registered threads, in the order of push_back
    iter,              \* per thread: position in m_threadStates in WriteLock
    isLocked,          \* per thread: TlsData::isLocked (FastSlim)
    m_cs,              \* the thread that owns m_cs exclusively, or None
    m_csReaders        \* the threads that share m_cs (an SRW lock only)

memory == <<m_writeRequested, isReading, storeBuffer>>
events == <<readerDoneEvent, m_writerDoneEvent>>
locks  == <<m_cs, m_csReaders, isLocked>>
registry == <<tlsData, m_threadStates>>
vars == <<TMutex, pc, m_done, memory, events, locks, registry, iter>>

-----------------------------------------------------------------------------
(* Memory: x86 store buffers.                                              *)

\* The effect on memory of storing val in the cell loc of thread t.
Commit(t, loc, val) ==
    IF loc = "isReading"
    THEN isReading' = [isReading EXCEPT ![t] = val] /\ UNCHANGED m_writeRequested
    ELSE m_writeRequested' = val /\ UNCHANGED isReading

Store(t, loc, val) ==
    \/ BufferSize = 0 /\ Commit(t, loc, val) /\ UNCHANGED storeBuffer
    \/ /\ Len(storeBuffer[t]) < BufferSize
       /\ storeBuffer' = [storeBuffer EXCEPT ![t] = Append(@, [loc |-> loc, val |-> val])]
       /\ UNCHANGED <<m_writeRequested, isReading>>

\* A thread sees the youngest of its own buffered stores before memory.
Buffered(t, loc) == {i \in 1..Len(storeBuffer[t]) : storeBuffer[t][i].loc = loc}
WriteRequestedSeenBy(t) ==
    IF Buffered(t, "m_writeRequested") = {} THEN m_writeRequested
    ELSE \E i \in Buffered(t, "m_writeRequested") :
            /\ storeBuffer[t][i].val
            /\ \A j \in Buffered(t, "m_writeRequested") : j <= i

\* A locked instruction or a kernel call completes only with an empty buffer.
Fenced(t) == storeBuffer[t] = <<>>

\* The processor drains the oldest store whenever it likes.
Drain(t) ==
    /\ storeBuffer[t] # <<>>
    /\ Commit(t, Head(storeBuffer[t]).loc, Head(storeBuffer[t]).val)
    /\ storeBuffer' = [storeBuffer EXCEPT ![t] = Tail(@)]
    /\ UNCHANGED <<TMutex, pc, m_done, events, locks, registry, iter>>

-----------------------------------------------------------------------------
Goto(t, from, to) == pc[t] = from /\ pc' = [pc EXCEPT ![t] = to]

(* m_cs: a CriticalSection, or the SlimReadWriteLock of FastSlim.          *)
EnterCs(t, from, to) ==
    /\ m_cs = None /\ m_csReaders = {}
    /\ Fenced(t)
    /\ m_cs' = t
    /\ Goto(t, from, to)
    /\ UNCHANGED <<TMutex, m_done, memory, events, registry, iter, m_csReaders, isLocked>>

LeaveCs(t, from, to) ==
    /\ Fenced(t)
    /\ m_cs' = None
    /\ Goto(t, from, to)
    /\ UNCHANGED <<TMutex, m_done, memory, events, registry, iter, m_csReaders, isLocked>>

(* SetEvent(pTlsData->readerDoneEvent) by the reader itself.               *)
SetReaderDone(t, from, to) ==
    /\ Fenced(t)
    /\ readerDoneEvent' = [readerDoneEvent EXCEPT ![t] = TRUE]
    /\ Goto(t, from, to)
    /\ UNCHANGED <<TMutex, m_done, memory, locks, registry, iter, m_writerDoneEvent>>

(* pTlsData->isReading = val                                               *)
StoreFlag(t, val, from, to) ==
    /\ Store(t, "isReading", val)
    /\ Goto(t, from, to)
    /\ UNCHANGED <<TMutex, m_done, events, locks, registry, iter>>

(* if or while (m_writeRequested)                                          *)
CheckRequest(t, from, requested, free) ==
    /\ Goto(t, from, IF WriteRequestedSeenBy(t) THEN requested ELSE free)
    /\ UNCHANGED <<TMutex, m_done, memory, events, locks, registry, iter>>

-----------------------------------------------------------------------------
(* The threads of the test harness and getTlsData.                         *)

StartRead(t) ==
    /\ t \in Readers
    /\ ~m_done
    /\ Goto(t, "loop", IF tlsData[t] THEN "rl_raise" ELSE "tls_enter")
    /\ tlsData' = [tlsData EXCEPT ![t] = TRUE]
    /\ UNCHANGED <<TMutex, m_done, memory, events, locks, m_threadStates, iter>>

StartWrite(t) ==
    /\ t \in Writers
    /\ ~m_done
    /\ Goto(t, "loop", "wl_enter")
    /\ UNCHANGED <<TMutex, m_done, memory, events, locks, registry, iter>>

\* The thread adds its count under m_countCs and returns.
Exit(t) ==
    /\ m_done
    /\ Fenced(t)
    /\ Goto(t, "loop", "exited")
    /\ UNCHANGED <<TMutex, m_done, memory, events, locks, registry, iter>>

Stop ==
    /\ ~m_done
    /\ m_done' = TRUE
    /\ UNCHANGED <<TMutex, pc, memory, events, locks, registry, iter>>

\* initTlsData: the first lock a thread takes registers its TlsData.
PushTlsData(t) ==
    /\ Goto(t, "tls_push", "tls_leave")
    /\ m_threadStates' = Append(m_threadStates, t)
    /\ UNCHANGED <<TMutex, m_done, memory, events, locks, tlsData, iter>>

\* (A plausible bug: push_back without m_cs.)
InitTlsDataUnlocked(t) ==
    /\ Goto(t, "tls_enter", "rl_raise")
    /\ m_threadStates' = Append(m_threadStates, t)
    /\ UNCHANGED <<TMutex, m_done, memory, events, locks, tlsData, iter>>

InitTlsData(t) ==
    \/ EnterCs(t, "tls_enter", "tls_push")
    \/ PushTlsData(t)
    \/ LeaveCs(t, "tls_leave", "rl_raise")

-----------------------------------------------------------------------------
(* Readers.                                                                *)

\* WaitForSingleObject(m_writerDoneEvent): the event is manual-reset, so a
\* SetEvent releases every thread that sleeps on it.
WaitWriterDone(t) ==
    /\ Fenced(t)
    /\ Goto(t, "rl_wait", IF m_writerDoneEvent THEN "rl_raise" ELSE "rl_asleep")
    /\ UNCHANGED <<TMutex, m_done, memory, events, locks, registry, iter>>

-----------------------------------------------------------------------------
(* Writers.                                                                *)

ResetWriterDone(t) ==
    /\ Fenced(t)
    /\ Goto(t, "wl_reset", "wl_request")
    /\ m_writerDoneEvent' = FALSE
    /\ UNCHANGED <<TMutex, m_done, memory, readerDoneEvent, locks, registry, iter>>

\* (A plausible bug: the scan starts one place early.)
RequestWriteFromZero(t) ==
    /\ Store(t, "m_writeRequested", TRUE)
    /\ Goto(t, "wl_request", "wl_scan")
    /\ iter' = [iter EXCEPT ![t] = 0]
    /\ UNCHANGED <<TMutex, m_done, events, locks, registry>>

RequestWrite(t) ==
    /\ Store(t, "m_writeRequested", TRUE)
    /\ Goto(t, "wl_request", "wl_scan")
    /\ iter' = [iter EXCEPT ![t] = 1]
    /\ UNCHANGED <<TMutex, m_done, events, locks, registry>>

\* The thread whose flag the writer t looks at.  (It may be its own, which
\* EnterCs has drained to memory.)
Visited(t) == m_threadStates[iter[t]]

\* One turn of the for loop: the end, a reader that is not reading, or one
\* that is, for which the writer waits at the place busy.
FinishScan(t) ==
    /\ iter[t] > Len(m_threadStates)
    /\ Goto(t, "wl_scan", "writing")
    /\ iter' = [iter EXCEPT ![t] = 1]      \* the iterator goes out of scope
    /\ UNCHANGED <<TMutex, m_done, memory, events, locks, registry>>

PassReader(t) ==
    /\ iter[t] <= Len(m_threadStates)
    /\ ~isReading[Visited(t)]
    /\ pc[t] = "wl_scan"
    /\ iter' = [iter EXCEPT ![t] = @ + 1]
    /\ UNCHANGED <<TMutex, pc, m_done, memory, events, locks, registry>>

FindReader(t, busy) ==
    /\ iter[t] <= Len(m_threadStates)
    /\ isReading[Visited(t)]
    /\ Goto(t, "wl_scan", busy)
    /\ UNCHANGED <<TMutex, m_done, memory, events, locks, registry, iter>>

ScanReaders(t, busy) == FinishScan(t) \/ PassReader(t) \/ FindReader(t, busy)

\* WaitForSingleObject(readerDoneEvent): auto-reset, so waking consumes it.
WaitReaderDone(t) ==
    /\ Fenced(t)
    /\ pc[t] = "wl_wait" /\ readerDoneEvent[Visited(t)]
    /\ Goto(t, "wl_wait", "wl_scan")
    /\ readerDoneEvent' = [readerDoneEvent EXCEPT ![Visited(t)] = FALSE]
    /\ UNCHANGED <<TMutex, m_done, memory, m_writerDoneEvent, locks, registry, iter>>

ClearRequest(t, to) ==
    /\ Store(t, "m_writeRequested", FALSE)
    /\ Goto(t, "writing", to)
    /\ UNCHANGED <<TMutex, m_done, events, locks, registry, iter>>

SetWriterDone(t) ==
    /\ Fenced(t)
    /\ pc[t] = "wu_signal"
    /\ m_writerDoneEvent' = TRUE
    /\ pc' = [u \in Threads |-> IF u = t THEN "wu_leave"
                                ELSE IF pc[u] = "rl_asleep" THEN "rl_raise"
                                ELSE pc[u]]
    /\ UNCHANGED <<TMutex, m_done, memory, readerDoneEvent, locks, registry, iter>>
=============================================================================
