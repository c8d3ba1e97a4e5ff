----------------------------- MODULE WinFutexes -----------------------------
(***************************************************************************)
(* The two recursive locks that need no constructor: WinFutexRecC makes    *)
(* its CRITICAL_SECTION on first use, WinFutexRecEvC counts the threads    *)
(* that have arrived and makes an event when a second one does.  In both,  *)
(* ReadLock is WriteLock.  A thread of the model locks up to MaxDepth      *)
(* times before it unlocks; the threads of Test<TMutex> lock once.         *)
(***************************************************************************)
EXTENDS Integers, FiniteSets

CONSTANTS
    Classes,         \* the classes TMutex is chosen from
    Threads,
    None,            \* a threadId of 0, a null hEvent, an unowned cs
    Invalid,         \* INVALID_HANDLE_VALUE: CreateEventA has failed
    EventMayFail,    \* whether CreateEventA can fail
    MaxDepth,        \* bound: how often a thread locks recursively (and, once
                     \* CreateEventA has failed, no lock is recursive)
    MaxThreadCount   \* bound: no new lock is begun above this threadCount

ASSUME FutexAssumption ==
    /\ Classes \subseteq {"WinFutexRecC", "WinFutexRecEvC"}
    /\ None \notin Threads /\ Invalid \notin Threads /\ None # Invalid
    /\ EventMayFail \in BOOLEAN
    /\ MaxDepth \in Nat \ {0}
    /\ MaxThreadCount \in Nat

VARIABLES
    TMutex,          \* the class under test, chosen once
    pc,
    m_done,          \* the test is over (main.cpp)
    depth,           \* per thread: locks it holds
    initialized,     \* WinFutexRecData
    csReady,         \* InitializeCriticalSection(&cs) has returned
    csOwner,
    threadCount,     \* WinFutexRecEvData
    threadId,
    recursionCount,
    hEvent,          \* the handle: the thread that made it, Invalid or None
    signaled         \* the handles whose (auto-reset) event is signaled

harness == <<TMutex, m_done>>
recData == <<initialized, csReady, csOwner>>
evData == <<threadCount, threadId, recursionCount, hEvent, signaled>>
vars == <<harness, pc, depth, recData, evData>>

Init ==
    /\ TMutex \in Classes
    /\ pc = [t \in Threads |-> "loop"]
    /\ m_done = FALSE
    /\ depth = [t \in Threads |-> 0]
    /\ initialized = 0
    /\ csReady = FALSE
    /\ csOwner = None
    /\ threadCount = 0
    /\ threadId = None
    /\ recursionCount = 0
    /\ hEvent = None
    /\ signaled = {}

Goto(t, from, to) == pc[t] = from /\ pc' = [pc EXCEPT ![t] = to]

Locked(t) == depth' = [depth EXCEPT ![t] = @ + 1]
Unlocked(t) == depth' = [depth EXCEPT ![t] = @ - 1]

\* A caller locks, perhaps again, then unlocks as often as it has locked.
CallUnlock(t, to) ==
    /\ pc[t] \in {"locked", "releasing"}
    /\ pc' = [pc EXCEPT ![t] = to]

AfterUnlock(t) == IF depth[t] = 1 THEN "loop" ELSE "releasing"

-----------------------------------------------------------------------------
(* WinFutexRec                                                             *)

TestInitialized(t) ==
    /\ Goto(t, "i_test", IF initialized = 0 THEN "i_exchange" ELSE "l_enter")
    /\ UNCHANGED <<harness, depth, recData, evData>>

\* (A plausible bug: a plain store instead of _InterlockedExchange.)
StoreInitialized(t) ==
    /\ Goto(t, "i_exchange", "i_init")
    /\ initialized' = 1
    /\ UNCHANGED <<harness, depth, csReady, csOwner, evData>>

ExchangeInitialized(t) ==
    /\ Goto(t, "i_exchange", IF initialized = 0 THEN "i_init" ELSE "i_spin")
    /\ initialized' = 1
    /\ UNCHANGED <<harness, depth, csReady, csOwner, evData>>

InitializeCs(t) ==
    /\ Goto(t, "i_init", "i_ready")
    /\ csReady' = TRUE
    /\ csOwner' = None
    /\ UNCHANGED <<harness, depth, initialized, evData>>

PublishCs(t) ==
    /\ Goto(t, "i_ready", "l_enter")
    /\ initialized' = 2
    /\ UNCHANGED <<harness, depth, csReady, csOwner, evData>>

\* while (m_data.initialized != 2) Sleep(0);
SpinUntilInitialized(t) ==
    /\ initialized = 2
    /\ Goto(t, "i_spin", "l_enter")
    /\ UNCHANGED <<harness, depth, recData, evData>>

LazyInit(t) ==
    \/ TestInitialized(t) \/ ExchangeInitialized(t)
    \/ InitializeCs(t) \/ PublishCs(t) \/ SpinUntilInitialized(t)

EnterCs(t) ==
    /\ csReady /\ csOwner \in {None, t}
    /\ Goto(t, "l_enter", "locked")
    /\ csOwner' = t
    /\ Locked(t)
    /\ UNCHANGED <<harness, initialized, csReady, evData>>

\* EnterCriticalSection on a CRITICAL_SECTION that nobody has initialized yet
\* is undefined: the model does not follow the thread any further.
EnterUninitializedCs(t) ==
    /\ ~csReady
    /\ Goto(t, "l_enter", "undefined")
    /\ UNCHANGED <<harness, depth, recData, evData>>

LeaveCs(t) ==
    /\ CallUnlock(t, AfterUnlock(t))
    /\ csOwner' = IF depth[t] = 1 THEN None ELSE t
    /\ Unlocked(t)
    /\ UNCHANGED <<harness, initialized, csReady, evData>>

RecWriteLock(t) == LazyInit(t) \/ EnterCs(t) \/ EnterUninitializedCs(t)
RecWriteUnlock(t) == LeaveCs(t)

-----------------------------------------------------------------------------
(* WinFutexRecEv: WriteLock.                                               *)

TestRecursive(t) ==
    /\ Goto(t, "l_count", IF threadCount = 0 THEN "l_arrive" ELSE "l_id")
    /\ UNCHANGED <<harness, depth, recData, evData>>

\* (A plausible bug: a recursive lock is not counted.)
LockAgainUncounted(t) ==
    /\ threadId = t
    /\ Goto(t, "l_id", "locked")
    /\ Locked(t)
    /\ UNCHANGED <<harness, recData, evData>>

\* Only the owner can see its own id, and only the owner uses recursionCount.
LockAgain(t) ==
    /\ threadId = t
    /\ Goto(t, "l_id", "locked")
    /\ recursionCount' = recursionCount + 1
    /\ Locked(t)
    /\ UNCHANGED <<harness, recData, threadCount, threadId, hEvent, signaled>>

NotRecursive(t) ==
    /\ threadId # t
    /\ Goto(t, "l_id", "l_arrive")
    /\ UNCHANGED <<harness, depth, recData, evData>>

\* _InterlockedExchangeAdd(&m_data.threadCount, 1)
Arrive(t) ==
    /\ Goto(t, "l_arrive", IF threadCount = 0 THEN "l_own" ELSE "l_create")
    /\ threadCount' = threadCount + 1
    /\ IF threadCount = 0 THEN Locked(t) ELSE UNCHANGED depth
    /\ UNCHANGED <<harness, recData, threadId, recursionCount, hEvent, signaled>>

\* LazyInitEvent: an event of the thread's own, to be published if no other is.
CreateEvent(t) ==
    /\ \/ hEvent # None /\ Goto(t, "l_create", "l_wait")
       \/ hEvent = None /\ Goto(t, "l_create", "l_publish")
       \/ EventMayFail /\ hEvent = None /\ Goto(t, "l_create", "l_invalid")
    /\ UNCHANGED <<harness, depth, recData, evData>>

\* (A plausible bug: a plain store instead of the compare-exchange.)
StoreEvent(t) ==
    /\ \/ Goto(t, "l_publish", "l_wait") /\ hEvent' = t
       \/ Goto(t, "l_invalid", "l_wait") /\ hEvent' = Invalid
    /\ UNCHANGED <<harness, depth, recData, threadCount, threadId, recursionCount, signaled>>

\* InterlockedCompareExchangePointer(&m_data.hEvent, hEvent, 0); the loser
\* closes its own handle, which no other thread has seen.
PublishEvent(t) ==
    /\ \/ Goto(t, "l_publish", "l_wait") /\ hEvent' = IF hEvent = None THEN t ELSE hEvent
       \/ Goto(t, "l_invalid", "l_wait") /\ hEvent' = IF hEvent = None THEN Invalid ELSE hEvent
    /\ UNCHANGED <<harness, depth, recData, threadCount, threadId, recursionCount, signaled>>

\* (A plausible bug: a manual-reset event.)
WaitOnManualEvent(t) ==
    /\ hEvent \in signaled \cup {Invalid}
    /\ Goto(t, "l_wait", "l_own")
    /\ Locked(t)
    /\ UNCHANGED <<harness, recData, evData>>

\* WaitOnEvent: there is nothing to wait on when CreateEventA has failed.
WaitOnEvent(t) ==
    /\ hEvent \in signaled \cup {Invalid}
    /\ Goto(t, "l_wait", "l_own")
    /\ signaled' = signaled \ {hEvent}
    /\ Locked(t)
    /\ UNCHANGED <<harness, recData, threadCount, threadId, recursionCount, hEvent>>

\* (A plausible bug: threadId is not set.)
TakeOwnershipUnnamed(t) ==
    /\ Goto(t, "l_own", "locked")
    /\ recursionCount' = 1
    /\ UNCHANGED <<harness, depth, recData, threadCount, threadId, hEvent, signaled>>

TakeOwnership(t) ==
    /\ Goto(t, "l_own", "locked")
    /\ recursionCount' = 1
    /\ threadId' = t
    /\ UNCHANGED <<harness, depth, recData, threadCount, hEvent, signaled>>

EvWriteLock(t) ==
    \/ TestRecursive(t) \/ LockAgain(t) \/ NotRecursive(t) \/ Arrive(t)
    \/ CreateEvent(t) \/ PublishEvent(t) \/ WaitOnEvent(t) \/ TakeOwnership(t)

-----------------------------------------------------------------------------
(* WinFutexRecEv: WriteUnlock.                                             *)

DropRecursion(t) ==
    /\ recursionCount' = recursionCount - 1
    /\ IF recursionCount = 1
       THEN CallUnlock(t, "u_id") /\ UNCHANGED depth
       ELSE CallUnlock(t, AfterUnlock(t)) /\ Unlocked(t)
    /\ UNCHANGED <<harness, recData, threadCount, threadId, hEvent, signaled>>

ClearThreadId(t) ==
    /\ Goto(t, "u_id", "u_leave")
    /\ threadId' = None
    /\ UNCHANGED <<harness, depth, recData, threadCount, recursionCount, hEvent, signaled>>

\* (A plausible bug: oldThreadCount > 2.)
LeaveOffByOne(t) ==
    /\ Goto(t, "u_leave", IF threadCount > 2 THEN "u_wait" ELSE AfterUnlock(t))
    /\ threadCount' = threadCount - 1
    /\ Unlocked(t)
    /\ UNCHANGED <<harness, recData, threadId, recursionCount, hEvent, signaled>>

\* _InterlockedExchangeAdd(&m_data.threadCount, -1)
Leave(t) ==
    /\ Goto(t, "u_leave", IF threadCount > 1 THEN "u_wait" ELSE AfterUnlock(t))
    /\ threadCount' = threadCount - 1
    /\ Unlocked(t)
    /\ UNCHANGED <<harness, recData, threadId, recursionCount, hEvent, signaled>>

\* (A plausible bug: the event is signaled whether it has been made or not.)
SignalAtOnce(t) ==
    /\ Goto(t, "u_wait", "u_signal")
    /\ UNCHANGED <<harness, depth, recData, evData>>

\* WaitForEventCreation spins until the thread that waits has made the event.
WaitForEventCreation(t) ==
    /\ hEvent # None
    /\ Goto(t, "u_wait", "u_signal")
    /\ UNCHANGED <<harness, depth, recData, evData>>

SignalEvent(t) ==
    /\ Goto(t, "u_signal", IF depth[t] = 0 THEN "loop" ELSE "releasing")
    /\ signaled' = signaled \cup ({hEvent} \ {Invalid})
    /\ UNCHANGED <<harness, depth, recData, threadCount, threadId, recursionCount, hEvent>>

EvWriteUnlock(t) ==
    \/ DropRecursion(t) \/ ClearThreadId(t) \/ Leave(t)
    \/ WaitForEventCreation(t) \/ SignalEvent(t)

-----------------------------------------------------------------------------
(* The callers.                                                            *)

FirstPlace(class) == IF class = "WinFutexRecC" THEN "i_test" ELSE "l_count"

StartLock(t) ==
    /\ \/ ~m_done /\ threadCount <= MaxThreadCount /\ Goto(t, "loop", FirstPlace(TMutex))
       \/ depth[t] < MaxDepth /\ hEvent # Invalid /\ Goto(t, "locked", FirstPlace(TMutex))
    /\ UNCHANGED <<harness, depth, recData, evData>>

Exit(t) ==
    /\ m_done
    /\ Goto(t, "loop", "exited")
    /\ UNCHANGED <<harness, depth, recData, evData>>

Stop ==
    /\ ~m_done
    /\ m_done' = TRUE
    /\ UNCHANGED <<TMutex, pc, depth, recData, evData>>

Step(t) ==
    \/ TMutex = "WinFutexRecC"   /\ (RecWriteLock(t) \/ RecWriteUnlock(t))
    \/ TMutex = "WinFutexRecEvC" /\ (EvWriteLock(t)  \/ EvWriteUnlock(t))

Next == Stop \/ \E t \in Threads : StartLock(t) \/ Exit(t) \/ Step(t)

Spec == Init /\ [][Next]_vars

\* Every thread keeps running, and a caller unlocks what it has locked.
\* A critical section and an event that come free again and again are obtained.
FairSpec == Spec /\ \A t \in Threads : SF_vars(Step(t)) /\ WF_vars(Exit(t))

-----------------------------------------------------------------------------
InLazyInit == {"i_test", "i_exchange", "i_init", "i_ready", "i_spin"}
InLock == {"l_enter", "l_count", "l_id", "l_arrive", "l_create", "l_publish",
           "l_invalid", "l_wait", "l_own"}
InUnlock == {"u_id", "u_leave", "u_wait", "u_signal"}
Places == {"loop", "locked", "releasing", "undefined", "exited"} \cup InLazyInit \cup InLock \cup InUnlock

TypeOK ==
    /\ TMutex \in Classes
    /\ pc \in [Threads -> Places]
    /\ m_done \in BOOLEAN
    /\ depth \in [Threads -> 0..MaxDepth]
    /\ initialized \in 0..2
    /\ csReady \in BOOLEAN
    /\ csOwner \in Threads \cup {None}
    /\ threadCount \in Int
    /\ threadId \in Threads \cup {None}
    /\ recursionCount \in Int
    /\ hEvent \in Threads \cup {None, Invalid}
    /\ signaled \subseteq Threads

At(places) == {t \in Threads : pc[t] \in places}
Owners == {t \in Threads : depth[t] > 0}

\* At most one thread owns the lock.  (WinFutexRecEv does not say what it does
\* when it has no event: "TODO: fallback plan".)
Exclusion == hEvent # Invalid => Cardinality(Owners) <= 1

\* The CRITICAL_SECTION is initialized by one thread, and never again, which
\* would break the lock of a thread that has entered it.
InitializedOnce ==
    Cardinality(At({"i_init"})) + (IF csReady THEN 1 ELSE 0) <= 1

\* WinFutexRecEv passes a baton: as long as threads have arrived there is one
\* owner, or one thread on its way to signal the event, or one signal pending.
OneBaton ==
    TMutex = "WinFutexRecEvC" /\ hEvent # Invalid =>
        Cardinality(Owners) + Cardinality(At({"u_wait", "u_signal"})) + Cardinality(signaled)
            = IF threadCount > 0 THEN 1 ELSE 0

\* The event, once published, is the event of all threads for ever.
EventIsStable == [][hEvent # None => UNCHANGED hEvent]_hEvent

\* A recursive lock never waits: its thread does not join the queue.
RecursionNeverWaits ==
    hEvent # Invalid => \A t \in Owners : pc[t] \notin {"l_arrive", "l_create", "l_wait"}

-----------------------------------------------------------------------------
\* "Wait for all threads to complete.  If they don't, we probably have a
\* deadlock." (main.cpp)  What is undefined is not held against the code.
AllThreadsJoin == m_done ~> \A t \in Threads : pc[t] \in {"exited", "undefined"}

\* WinFutexRecEv lives up to it, even when no event can be made ("Do this to
\* prevent hanging in WriteUnlock").
EvThreadsJoin ==
    TMutex = "WinFutexRecEvC" /\ m_done ~> \A t \in Threads : pc[t] = "exited"
=============================================================================
