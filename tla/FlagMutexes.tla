---------------------------- MODULE FlagMutexes ----------------------------
(***************************************************************************)
(* The four flag-per-reader mutexes under the test harness of main.cpp:    *)
(* TMutex is the class that Test<TMutex> was instantiated with, Readers    *)
(* and Writers its threads.  Properties of all four classes are here.      *)
(***************************************************************************)
EXTENDS UltraSpin, UltraFast, UltraLight, FastSlim

Init ==
    /\ TMutex \in Classes
    /\ pc = [t \in Threads |-> "loop"]
    /\ m_done = FALSE
    /\ m_writeRequested = FALSE
    /\ isReading = [t \in Threads |-> FALSE]
    /\ storeBuffer = [t \in Threads |-> <<>>]
    /\ readerDoneEvent = [t \in Threads |-> FALSE]
    /\ m_writerDoneEvent = TRUE
    /\ tlsData = [t \in Threads |-> FALSE]
    /\ m_threadStates = <<>>
    /\ iter = [t \in Threads |-> 1]
    /\ isLocked = [t \in Threads |-> FALSE]
    /\ m_cs = None
    /\ m_csReaders = {}

\* ReaderThread and WriterThread: what thread t executes next.
Step(t) ==
    \/ StartRead(t) \/ StartWrite(t) \/ Exit(t) \/ InitTlsData(t)
    \/ UltraSpinStep(t) \/ UltraFastStep(t)
    \/ UltraLightStep(t) \/ FastSlimStep(t)

Next == Stop \/ \E t \in Threads : Step(t) \/ Drain(t)

Spec == Init /\ [][Next]_vars

(***************************************************************************)
(* Every thread keeps running and every buffered store drains.  The only   *)
(* steps that come and go while a thread stands still are the ones that    *)
(* take m_cs: strong fairness says that a critical section or an SRW lock  *)
(* that is free again and again is obtained in the end, as readme.md says  *)
(* of both ("Starvation: never").  Nothing obliges the test to stop.       *)
(***************************************************************************)
Fairness == \A t \in Threads : SF_vars(Step(t)) /\ WF_vars(Drain(t))

FairSpec == Spec /\ Fairness

-----------------------------------------------------------------------------
ReadPlaces ==
    {"tls_enter", "tls_push", "tls_leave", "rl_raise", "rl_check", "rl_yield",
     "rl_signal", "rl_wait", "rl_asleep", "rl_enter", "rl_incs", "rl_leave",
     "rl_share", "rl_shared"}
WritePlaces == {"wl_enter", "wl_reset", "wl_request", "wl_scan", "wl_wait", "wl_sleep"}
UnlockPlaces == {"ru_unshare", "ru_check", "ru_signal", "wu_signal", "wu_leave"}
Places ==
    {"loop", "exited", "reading", "writing"} \cup ReadPlaces \cup WritePlaces \cup UnlockPlaces

StoredValues == [loc : {"isReading", "m_writeRequested"}, val : BOOLEAN]

TypeOK ==
    /\ TMutex \in Classes
    /\ pc \in [Threads -> Places]
    /\ m_done \in BOOLEAN
    /\ m_writeRequested \in BOOLEAN
    /\ isReading \in [Threads -> BOOLEAN]
    /\ storeBuffer \in [Threads -> Seq(StoredValues)]
    /\ readerDoneEvent \in [Threads -> BOOLEAN]
    /\ m_writerDoneEvent \in BOOLEAN
    /\ tlsData \in [Threads -> BOOLEAN]
    /\ m_threadStates \in Seq(Threads)
    /\ iter \in [Threads -> Nat \ {0}]
    /\ isLocked \in [Threads -> BOOLEAN]
    /\ m_cs \in Threads \cup {None}
    /\ m_csReaders \subseteq Threads

-----------------------------------------------------------------------------
(* Safety.                                                                 *)

\* A write lock excludes every other lock: no thread is between WriteLock and
\* WriteUnlock while another is between Lock and Unlock of either kind.
Exclusion ==
    \A w \in Threads : pc[w] = "writing" =>
        \A t \in Threads \ {w} : pc[t] \notin {"reading", "writing"}

\* The part of Exclusion that m_cs alone provides: writers exclude writers.
WritersExclude ==
    \A w, v \in Threads : pc[w] = "writing" /\ pc[v] = "writing" => w = v

\* In FastSlim a reader that came in through m_cs.ReadLock() excludes writers
\* whatever the memory does to its flag.
LockedReadersExclude ==
    \A r \in Threads : pc[r] = "reading" /\ isLocked[r] =>
        \A w \in Threads : pc[w] # "writing"

Scanning == {"wl_scan", "wl_sleep", "wl_wait"}

\* A reader that sleeps on m_writerDoneEvent has not been forgotten: the event
\* is reset, and a writer that has yet to call SetEvent owns m_cs.
ReaderIsWoken ==
    \A r \in Threads : pc[r] = "rl_asleep" =>
        /\ ~m_writerDoneEvent
        /\ m_cs # None
        /\ pc[m_cs] \in Scanning \cup {"wl_request", "writing", "wu_signal"}

\* Places from which a reader that has raised its flag is bound to call
\* SetEvent(readerDoneEvent) as long as m_writeRequested stays set.
BoundToSignal ==
    {"rl_check", "rl_yield", "rl_signal", "reading", "ru_unshare", "ru_check", "ru_signal"}

\* No lost wakeup: when a writer waits for a reader, the reader's event is set
\* already or the reader is on its way to set it.
WriterIsWoken ==
    \A w \in Threads : pc[w] = "wl_wait" =>
        readerDoneEvent[Visited(w)] \/ pc[Visited(w)] \in BoundToSignal

Requesting == Scanning \cup {"writing", "wu_signal", "wu_leave"}

\* A request never outlives the writer that made it (a reader that found one
\* left behind would wait for a writer that is not there), not even in a
\* store buffer.
NoRequestLeftBehind ==
    \A t \in Threads :
        m_writeRequested \/ Buffered(t, "m_writeRequested") # {} =>
            m_cs # None /\ pc[m_cs] \in Requesting

\* The vector that a writer iterates over is not reallocated under it.
IteratorStable ==
    [][(\E w \in Threads : pc[w] \in Scanning) => UNCHANGED m_threadStates]_vars

\* "All new readers yield access to writers" (ultrafast_rwmutex.h): from the
\* request to the end of the write, no thread obtains a read lock.
NewReadersYield ==
    [][(\E w \in Threads : pc[w] \in Scanning \cup {"writing"}) =>
        \A r \in Threads : pc'[r] = "reading" => pc[r] = "reading"]_vars

-----------------------------------------------------------------------------
(* Why the safety properties hold: the inductive invariants of the proofs. *)

CsPlaces ==
    {"tls_push", "tls_leave", "rl_incs", "rl_leave", "wl_reset", "wl_request"}
        \cup Scanning \cup {"writing", "wu_signal", "wu_leave"}

\* m_cs is owned exactly by the thread that is between its Lock and Unlock.
OwnerInv == \A t \in Threads : pc[t] \in CsPlaces <=> m_cs = t

\* m_cs is shared, in FastSlim only, by the readers that came in through it.
SharedInv ==
    /\ m_cs # None => m_csReaders = {}
    /\ \A t \in Threads :
        /\ t \in m_csReaders <=> pc[t] = "rl_shared" \/ isLocked[t]
        /\ isLocked[t] => TMutex = "FastSlim" /\ pc[t] \in {"reading", "ru_unshare"}
        /\ pc[t] = "ru_unshare" => isLocked[t]

\* m_writerDoneEvent is reset only while a writer is bound to set it.
EventInv ==
    /\ ~m_writerDoneEvent =>
        m_cs # None /\ pc[m_cs] \in Scanning \cup {"wl_request", "writing", "wu_signal"}
    /\ TMutex \in {"UltraLight", "FastSlim"} => m_writerDoneEvent
    /\ \A r \in Threads : pc[r] = "rl_asleep" => ~m_writerDoneEvent

\* A thread whose TLS slot is set is registered, initTlsData apart.
ReaderPlaces == ReadPlaces \cup {"reading", "ru_unshare", "ru_check", "ru_signal"}
Registered(t) == \E i \in 1..Len(m_threadStates) : m_threadStates[i] = t
RegisteredInv ==
    \A t \in Threads :
        /\ pc[t] \in ReaderPlaces => tlsData[t]
        /\ tlsData[t] /\ pc[t] \notin {"tls_enter", "tls_push"} => Registered(t)

\* A request is in memory or on its way there only under the writer that made
\* it, and a writer that has cleared it sees no request of its own any more.
BufferInv == \A t \in Threads : Len(storeBuffer[t]) <= BufferSize
RequestInv ==
    /\ \A t \in Threads : Buffered(t, "m_writeRequested") # {} => pc[t] \in Requesting
    /\ m_writeRequested => m_cs # None /\ pc[m_cs] \in Requesting
    /\ \A t \in Threads : pc[t] \in {"wu_signal", "wu_leave"} => ~WriteRequestedSeenBy(t)

\* For every memory model.
LockInv == OwnerInv /\ SharedInv /\ EventInv /\ RegisteredInv

\* Under sequential consistency memory mirrors the places of the threads, and
\* a writer has left no reader behind in the part of the vector it has passed.
MemoryInv ==
    /\ \A t \in Threads : storeBuffer[t] = <<>>
    /\ m_writeRequested <=> m_cs # None /\ pc[m_cs] \in Scanning \cup {"writing"}
    /\ \A t \in Threads : isReading[t] <=> pc[t] \in {"rl_check", "rl_yield", "rl_leave", "reading"}

ScanInv ==
    /\ \A w \in Threads : pc[w] \in Scanning =>
        \A i \in 1..Len(m_threadStates) : i < iter[w] => pc[m_threadStates[i]] # "reading"
    /\ \A w \in Threads : pc[w] = "writing" => \A r \in Threads : pc[r] # "reading"

WakeInv ==
    /\ \A w \in Threads : pc[w] = "wl_wait" =>
        TMutex # "UltraSpin" /\ iter[w] <= Len(m_threadStates)
    /\ WriterIsWoken

FlagInv == MemoryInv /\ ScanInv /\ WakeInv

-----------------------------------------------------------------------------
(* Refinement: the lock each class promises.  A read lock is given up when *)
(* the flag goes down, a write lock when m_writeRequested is cleared.      *)

StatusOf(place) ==
    CASE place \in ReadPlaces  -> "wantRead"
      [] place \in WritePlaces -> "wantWrite"
      [] place \in {"reading", "writing"} -> place
      [] OTHER -> "idle"

Abstract == INSTANCE RWLock WITH status <- [t \in Threads |-> StatusOf(pc[t])]

\* Each of the four classes implements the abstract read-write lock.
ImplementsRWLock == Abstract!Spec

-----------------------------------------------------------------------------
(* Liveness.                                                               *)

\* "Wait for all threads to complete.  If they don't, we probably have a
\* deadlock." (main.cpp): once m_done is set, every thread exits.
AllThreadsJoin == m_done ~> \A t \in Threads : pc[t] = "exited"

\* Readers cannot starve a writer, in any of the classes.
WritersNotStarved == \A w \in Writers : pc[w] = "wl_enter" ~> pc[w] = "writing"

\* Nobody starves in FastSlim, whose readme.md entry says "Starvation: none".
FastSlimReadersNotStarved ==
    \A r \in Readers :
        TMutex = "FastSlim" /\ pc[r] = "rl_raise" ~> pc[r] = "reading"
=============================================================================
