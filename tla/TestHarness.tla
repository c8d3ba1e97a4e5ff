---------------------------- MODULE TestHarness ----------------------------
(***************************************************************************)
(* Test<TMutex> of main.cpp: the main thread creates readers and writers,  *)
(* opens the gate, sleeps, sets m_done and joins them; each thread locks   *)
(* and unlocks until m_done and then adds its count to a shared 64-bit     *)
(* counter.  A count is abstracted to the thread it comes from, a counter  *)
(* to the set of threads whose counts it contains: an addition is a load   *)
(* and a store, and a lost one shows as a missing thread.                  *)
(***************************************************************************)
EXTENDS ReaderFlags

CONSTANT Trials  \* per class: the crews that tests of it are made with

ASSUME KindsAssumption == Readers \cap Writers = {}
ASSUME TrialsAssumption == Trials \in [Classes -> SUBSET (SUBSET Threads)]

VARIABLES
    crew,            \* the threads that the main thread has created
    main,            \* the place of the main thread in Execute
    m_hStartEvent,   \* manual-reset event: the gate
    m_countCs,       \* the thread that owns m_countCs, or None
    lockCount,       \* m_readerLockCount and m_writerLockCount
    loaded           \* per thread: the counter as it loaded it

counters == <<m_countCs, lockCount, loaded>>
harness == <<crew, main, m_hStartEvent, counters>>

CountersInit ==
    /\ m_countCs = None
    /\ lockCount = [kind \in {"reader", "writer"} |-> {}]
    /\ loaded = [t \in Threads |-> {}]

-----------------------------------------------------------------------------
(* Execute.                                                                *)

OpenGate ==
    /\ main = "create"
    /\ main' = "sleep"
    /\ m_hStartEvent' = TRUE
    /\ UNCHANGED <<vars, crew, counters>>

SetDone ==
    /\ main = "sleep"
    /\ main' = "join"
    /\ Stop
    /\ UNCHANGED <<crew, m_hStartEvent, counters>>

\* WaitForSingleObject on every handle, then the report.
Join ==
    /\ main = "join"
    /\ \A t \in crew : pc[t] = "exited"
    /\ main' = "report"
    /\ UNCHANGED <<vars, crew, m_hStartEvent, counters>>

-----------------------------------------------------------------------------
(* ReaderThread and WriterThread, the calls of the mutex apart.            *)

\* A step of thread t that leaves the mutex alone.
Pass(t, from, to) ==
    /\ Goto(t, from, to)
    /\ UNCHANGED <<TMutex, m_done, memory, events, locks, registry, iter>>
    /\ UNCHANGED <<crew, main, m_hStartEvent>>

\* WaitForSingleObject(m_hStartEvent), which is never reset, and while (!m_done).
Continues == m_hStartEvent /\ ~m_done

Kind(t) == IF t \in Readers THEN "reader" ELSE "writer"

\* m_readerLockCount += count, or m_writerLockCount: the load, then the store.
LoadCount(t) == loaded' = [loaded EXCEPT ![t] = lockCount[Kind(t)]] /\ UNCHANGED lockCount
StoreCount(t) ==
    /\ lockCount' = [lockCount EXCEPT ![Kind(t)] = loaded[t] \cup {t}]
    /\ loaded' = [loaded EXCEPT ![t] = {}]

\* (A plausible bug: the counters are added to without m_countCs.)
AddCountUnlocked(t) ==
    \/ m_done /\ Pass(t, "loop", "counting") /\ LoadCount(t) /\ UNCHANGED m_countCs
    \/ Pass(t, "counting", "exited") /\ StoreCount(t) /\ UNCHANGED m_countCs

\* The load goes with the entry of m_countCs and the store with the exit: what
\* m_countCs protects nobody else can see.
AddCount(t) ==
    \/ /\ m_done
       /\ m_countCs = None
       /\ Pass(t, "loop", "counting")
       /\ m_countCs' = t
       /\ LoadCount(t)
    \/ /\ Pass(t, "counting", "exited")
       /\ StoreCount(t)
       /\ m_countCs' = None
=============================================================================
