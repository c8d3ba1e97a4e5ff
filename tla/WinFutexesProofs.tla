--------------------------- MODULE WinFutexesProofs ---------------------------
(***************************************************************************)
(* What is proved of WinFutexRecC and WinFutexRecEvC, for any set of       *)
(* threads, any depth of recursion and whether or not CreateEventA fails:  *)
(* typing, one initialization of the critical section, one event for all,  *)
(* one baton, mutual exclusion, and that a recursive lock does not wait.   *)
(***************************************************************************)
EXTENDS WinFutexes, FiniteSetTheorems, TLAPS

-----------------------------------------------------------------------------
(* Typing: depth stays in 0..MaxDepth because of where it can change.      *)

DepthInv ==
    \A t \in Threads :
        /\ pc[t] \in {"locked", "releasing", "l_own", "u_id", "u_leave"} => depth[t] > 0
        /\ pc[t] \in InLazyInit \cup (InLock \ {"l_own"}) => depth[t] < MaxDepth
        /\ pc[t] = "loop" => depth[t] = 0

\* Who is about to signal has seen a handle.
HandleInv == \A t \in Threads : pc[t] = "u_signal" => hEvent # None

TypeInv == TypeOK /\ DepthInv /\ HandleInv

\* WinFutexRecC.
LEMMA RecTyped ==
    ASSUME TypeInv, NEW t \in Threads, RecWriteLock(t) \/ RecWriteUnlock(t)
    PROVE  TypeInv'
<1> USE FutexAssumption DEF TypeInv, TypeOK, DepthInv, HandleInv, Goto, Places, InLazyInit, InLock, InUnlock,
        harness, recData, evData
<1>1. CASE TestInitialized(t)
  BY <1>1 DEF TestInitialized
<1>2. CASE ExchangeInitialized(t)
  BY <1>2 DEF ExchangeInitialized
<1>3. CASE InitializeCs(t)
  BY <1>3 DEF InitializeCs
<1>4. CASE PublishCs(t)
  BY <1>4 DEF PublishCs
<1>5. CASE SpinUntilInitialized(t)
  BY <1>5 DEF SpinUntilInitialized
<1>6. CASE EnterCs(t)
  BY <1>6 DEF EnterCs, Locked
<1>7. CASE EnterUninitializedCs(t)
  BY <1>7 DEF EnterUninitializedCs
<1>8. CASE RecWriteUnlock(t)
  BY <1>8 DEF RecWriteUnlock, LeaveCs, CallUnlock, AfterUnlock, Unlocked
<1> QED
  BY <1>1, <1>2, <1>3, <1>4, <1>5, <1>6, <1>7, <1>8 DEF RecWriteLock, LazyInit

\* WinFutexRecEvC.
LEMMA EvTyped ==
    ASSUME TypeInv, NEW t \in Threads, EvWriteLock(t) \/ EvWriteUnlock(t)
    PROVE  TypeInv'
<1> USE FutexAssumption DEF TypeInv, TypeOK, DepthInv, HandleInv, Goto, Places, InLazyInit, InLock, InUnlock,
        harness, recData, evData
<1>1. CASE TestRecursive(t)
  BY <1>1 DEF TestRecursive
<1>2. CASE LockAgain(t)
  BY <1>2 DEF LockAgain, Locked
<1>3. CASE NotRecursive(t)
  BY <1>3 DEF NotRecursive
<1>4. CASE Arrive(t)
  BY <1>4 DEF Arrive, Locked
<1>5. CASE CreateEvent(t)
  BY <1>5 DEF CreateEvent
<1>6. CASE PublishEvent(t)
  BY <1>6 DEF PublishEvent
<1>7. CASE WaitOnEvent(t)
  BY <1>7 DEF WaitOnEvent, Locked
<1>8. CASE TakeOwnership(t)
  BY <1>8 DEF TakeOwnership
<1>9. CASE DropRecursion(t)
  BY <1>9 DEF DropRecursion, CallUnlock, AfterUnlock, Unlocked
<1>10. CASE ClearThreadId(t)
  BY <1>10 DEF ClearThreadId
<1>11. CASE Leave(t)
  BY <1>11 DEF Leave, AfterUnlock, Unlocked
<1>12. CASE WaitForEventCreation(t)
  BY <1>12 DEF WaitForEventCreation
<1>13. CASE SignalEvent(t)
  BY <1>13 DEF SignalEvent
<1> QED
  BY <1>1, <1>2, <1>3, <1>4, <1>5, <1>6, <1>7, <1>8, <1>9, <1>10, <1>11, <1>12, <1>13
     DEF EvWriteLock, EvWriteUnlock

LEMMA TypeInvStep ==
    ASSUME TypeInv, [Next]_vars
    PROVE  TypeInv'
<1> USE FutexAssumption DEF TypeInv, TypeOK, DepthInv, HandleInv, Goto, Places, InLazyInit, InLock,
        InUnlock, harness, recData, evData
<1>1. CASE Stop
  BY <1>1 DEF Stop
<1>2. ASSUME NEW t \in Threads, StartLock(t)
      PROVE  TypeInv'
  BY <1>2 DEF StartLock, FirstPlace
<1>3. ASSUME NEW t \in Threads, Exit(t)
      PROVE  TypeInv'
  BY <1>3 DEF Exit
<1>4. CASE UNCHANGED vars
  BY <1>4 DEF vars
<1> QED
  <2>1. ASSUME NEW t \in Threads, Step(t)
        PROVE  TypeInv'
    <3> HIDE DEF TypeInv
    <3> QED
      BY <2>1, RecTyped, EvTyped, Zenon DEF Step
  <2> HIDE DEF TypeInv
  <2> QED
    BY <1>1, <1>2, <1>3, <1>4, <2>1, Zenon DEF Next

LEMMA TypeInvInductive == Spec => []TypeInv
<1>1. Init => TypeInv
  <2> SUFFICES ASSUME Init PROVE TypeInv
    OBVIOUS
  <2>1. TypeOK
    <3>1. pc \in [Threads -> Places] /\ depth \in [Threads -> 0..MaxDepth]
      BY FutexAssumption DEF Init, Places
    <3>2. m_done \in BOOLEAN /\ csReady \in BOOLEAN /\ signaled \subseteq Threads
      BY DEF Init
    <3> QED
      BY <3>1, <3>2 DEF Init, TypeOK
  <2>2. DepthInv /\ HandleInv
    BY FutexAssumption DEF Init, DepthInv, HandleInv, InLazyInit, InLock
  <2> QED
    BY <2>1, <2>2 DEF TypeInv
<1>2. TypeInv /\ [Next]_vars => TypeInv'
  BY TypeInvStep
<1> QED
  BY <1>1, <1>2, PTL DEF Spec

\* Every variable keeps its type; depth never leaves 0..MaxDepth.
THEOREM TypeCorrect == Spec => []TypeOK
<1>1. TypeInv => TypeOK
  BY DEF TypeInv
<1> QED
  BY <1>1, TypeInvInductive, PTL

-----------------------------------------------------------------------------
(* WinFutexRecC: who finds initialized = 0 initializes the critical        *)
(* section; everyone after it finds 1 or 2, even if it writes 1 again.     *)

RecPlaces == {"loop", "locked", "releasing", "undefined", "exited", "l_enter"} \cup InLazyInit

InitInv ==
    /\ \A t, u \in Threads :
          pc[t] \in {"i_init", "i_ready"} /\ pc[u] \in {"i_init", "i_ready"} => t = u
    /\ \A t \in Threads : pc[t] \in {"i_init", "i_ready"} => initialized # 0
    /\ \A t \in Threads : pc[t] = "i_init" => ~csReady
    /\ csReady => initialized # 0

\* The owner of the critical section is the thread that holds the lock.
RecInv ==
    TMutex = "WinFutexRecC" =>
        /\ csOwner # None => csReady
        /\ \A t \in Threads : pc[t] \in RecPlaces /\ (depth[t] > 0 <=> csOwner = t)

LazyInv == InitInv /\ RecInv

LEMMA RecLazy ==
    ASSUME TypeInv, LazyInv, NEW t \in Threads, TMutex = "WinFutexRecC",
           RecWriteLock(t) \/ RecWriteUnlock(t)
    PROVE  LazyInv'
<1> USE FutexAssumption DEF TypeInv, TypeOK, DepthInv, LazyInv, InitInv, RecInv, RecPlaces, Goto,
        InLazyInit, harness, recData, evData
<1>1. CASE TestInitialized(t)
  BY <1>1 DEF TestInitialized
<1>2. CASE ExchangeInitialized(t)
  BY <1>2 DEF ExchangeInitialized
<1>3. CASE InitializeCs(t)
  BY <1>3 DEF InitializeCs
<1>4. CASE PublishCs(t)
  BY <1>4 DEF PublishCs
<1>5. CASE SpinUntilInitialized(t)
  BY <1>5 DEF SpinUntilInitialized
<1>6. CASE EnterCs(t)
  BY <1>6 DEF EnterCs, Locked
<1>7. CASE EnterUninitializedCs(t)
  BY <1>7 DEF EnterUninitializedCs
<1>8. CASE RecWriteUnlock(t)
  BY <1>8 DEF RecWriteUnlock, LeaveCs, CallUnlock, AfterUnlock, Unlocked
<1> QED
  BY <1>1, <1>2, <1>3, <1>4, <1>5, <1>6, <1>7, <1>8 DEF RecWriteLock, LazyInit

\* WinFutexRecEvC does not come near the critical section.
LEMMA EvLeavesCsAlone ==
    ASSUME NEW t \in Threads, EvWriteLock(t) \/ EvWriteUnlock(t)
    PROVE  /\ UNCHANGED <<harness, recData>>
           /\ \E to \in Places \ InLazyInit : pc' = [pc EXCEPT ![t] = to]
<1> USE DEF Goto, Places, InLazyInit, InLock, InUnlock, evData
<1>1. CASE TestRecursive(t) \/ LockAgain(t) \/ NotRecursive(t) \/ Arrive(t)
  BY <1>1 DEF TestRecursive, LockAgain, NotRecursive, Arrive
<1>2. CASE CreateEvent(t) \/ PublishEvent(t) \/ WaitOnEvent(t) \/ TakeOwnership(t)
  BY <1>2 DEF CreateEvent, PublishEvent, WaitOnEvent, TakeOwnership
<1>3. CASE DropRecursion(t) \/ ClearThreadId(t) \/ Leave(t)
  BY <1>3 DEF DropRecursion, CallUnlock, AfterUnlock, ClearThreadId, Leave
<1>4. CASE WaitForEventCreation(t) \/ SignalEvent(t)
  BY <1>4 DEF WaitForEventCreation, SignalEvent
<1> QED
  BY <1>1, <1>2, <1>3, <1>4 DEF EvWriteLock, EvWriteUnlock

LEMMA LazyInvStep ==
    ASSUME TypeInv, LazyInv, [Next]_vars
    PROVE  LazyInv'
<1> USE FutexAssumption DEF TypeInv, TypeOK, DepthInv, LazyInv, InitInv, RecInv, RecPlaces, Goto,
        InLazyInit, harness, recData
<1>1. CASE Stop
  BY <1>1 DEF Stop
<1>2. ASSUME NEW t \in Threads, StartLock(t)
      PROVE  LazyInv'
  BY <1>2 DEF StartLock, FirstPlace
<1>3. ASSUME NEW t \in Threads, Exit(t)
      PROVE  LazyInv'
  BY <1>3 DEF Exit
<1>4. ASSUME NEW t \in Threads, TMutex = "WinFutexRecEvC", EvWriteLock(t) \/ EvWriteUnlock(t)
      PROVE  LazyInv'
  <2>1. /\ UNCHANGED <<harness, recData>>
        /\ \E to \in Places \ InLazyInit : pc' = [pc EXCEPT ![t] = to]
    BY <1>4, EvLeavesCsAlone
  <2> QED
    BY <1>4, <2>1
<1>5. CASE UNCHANGED vars
  BY <1>5 DEF vars
<1> HIDE DEF TypeInv, LazyInv
<1> QED
  BY <1>1, <1>2, <1>3, <1>4, <1>5, RecLazy DEF Next, Step

LEMMA LazyInvInductive == Spec => []LazyInv
<1>1. Init => LazyInv
  BY FutexAssumption DEF Init, LazyInv, InitInv, RecInv, RecPlaces
<1>2. TypeInv /\ LazyInv /\ [Next]_vars => LazyInv'
  BY LazyInvStep
<1> QED
  BY <1>1, <1>2, TypeInvInductive, PTL DEF Spec

LEMMA AtMostOne ==
    ASSUME NEW S, \A x, y \in S : x = y
    PROVE  S = {} \/ Cardinality(S) = 1
<1> SUFFICES ASSUME NEW x \in S PROVE Cardinality(S) = 1
  OBVIOUS
<1>1. S = {x}
  OBVIOUS
<1> QED
  BY <1>1, FS_Singleton

\* InitializeCriticalSection is called once: never by two threads, and not by
\* a late one either, under the thread that has entered by then.
THEOREM InitializesOnce == Spec => []InitializedOnce
<1>1. LazyInv => InitializedOnce
  <2> SUFFICES ASSUME LazyInv PROVE InitializedOnce
    OBVIOUS
  <2>1. At({"i_init"}) = {} \/ Cardinality(At({"i_init"})) = 1
    <3>1. \A t, u \in At({"i_init"}) : t = u
      BY DEF LazyInv, InitInv, At
    <3> QED
      BY <3>1, AtMostOne
  <2>2. csReady => At({"i_init"}) = {}
    BY DEF LazyInv, InitInv, At
  <2> QED
    BY <2>1, <2>2, FS_EmptySet DEF InitializedOnce
<1> QED
  BY <1>1, LazyInvInductive, PTL
-----------------------------------------------------------------------------
(* WinFutexRecEvC: the event.                                              *)

LEMMA EventStep ==
    ASSUME [Next]_vars
    PROVE  UNCHANGED TMutex /\ (hEvent # None => UNCHANGED hEvent)
<1> USE DEF evData, harness
<1>1. ASSUME NEW t \in Threads, RecWriteLock(t) \/ RecWriteUnlock(t)
      PROVE  UNCHANGED TMutex /\ (hEvent # None => UNCHANGED hEvent)
  BY <1>1 DEF RecWriteLock, LazyInit, TestInitialized, ExchangeInitialized, InitializeCs, PublishCs,
     SpinUntilInitialized, EnterCs, EnterUninitializedCs, RecWriteUnlock, LeaveCs
<1>2. ASSUME NEW t \in Threads, EvWriteLock(t)
      PROVE  UNCHANGED TMutex /\ (hEvent # None => UNCHANGED hEvent)
  BY <1>2 DEF EvWriteLock, TestRecursive, LockAgain, NotRecursive, Arrive, CreateEvent,
     PublishEvent, WaitOnEvent, TakeOwnership
<1>3. ASSUME NEW t \in Threads, EvWriteUnlock(t)
      PROVE  UNCHANGED TMutex /\ (hEvent # None => UNCHANGED hEvent)
  BY <1>3 DEF EvWriteUnlock, DropRecursion, ClearThreadId, Leave, WaitForEventCreation, SignalEvent
<1>4. ASSUME NEW t \in Threads, StartLock(t) \/ Exit(t)
      PROVE  UNCHANGED TMutex /\ (hEvent # None => UNCHANGED hEvent)
  BY <1>4 DEF StartLock, Exit
<1>5. CASE Stop \/ UNCHANGED vars
  BY <1>5 DEF Stop, vars
<1> QED
  BY <1>1, <1>2, <1>3, <1>4, <1>5 DEF Next, Step

\* Threads that make an event at the same time agree on the one whose handle
\* was published first; a thread that failed to make one agrees to it too.
THEOREM EventStaysPublished == Spec => EventIsStable
<1>1. [Next]_vars => [hEvent # None => UNCHANGED hEvent]_hEvent
  BY EventStep
<1> QED
  BY <1>1, PTL DEF Spec, EventIsStable

-----------------------------------------------------------------------------
(* WinFutexRecEvC: the baton.  It is with an owner, with a thread that has *)
(* left and is to signal, or in the event; and nowhere if threadCount = 0. *)

Intact == TMutex = "WinFutexRecEvC" /\ hEvent # Invalid

Signalers == At({"u_wait", "u_signal"})

BatonFree == Owners = {} /\ Signalers = {} /\ signaled = {}
BatonOwned(t) == Owners = {t} /\ Signalers = {} /\ signaled = {}
BatonPassed(t) == Owners = {} /\ Signalers = {t} /\ signaled = {}
BatonInEvent == Owners = {} /\ Signalers = {} /\ hEvent # None /\ signaled = {hEvent}

BatonInv ==
    Intact =>
        \/ threadCount = 0 /\ BatonFree
        \/ threadCount > 0 /\ (BatonInEvent \/ \E t \in Threads : BatonOwned(t) \/ BatonPassed(t))

\* threadId and recursionCount describe the owner: only it can see its own id.
OwnerInv ==
    Intact =>
        /\ threadId # None => depth[threadId] > 0
        /\ \A t \in Owners :
              \/ /\ pc[t] \in {"l_count", "l_id", "locked", "releasing"}
                 /\ threadId = t /\ recursionCount = depth[t]
              \/ pc[t] \in {"l_own", "u_leave"} /\ threadId = None /\ depth[t] = 1
              \/ pc[t] = "u_id" /\ threadId = t /\ depth[t] = 1

EvInv == BatonInv /\ OwnerInv

LEMMA SignalersStep ==
    ASSUME TypeInv, NEW t \in Threads, NEW to, pc' = [pc EXCEPT ![t] = to]
    PROVE  Signalers' = IF to \in {"u_wait", "u_signal"} THEN Signalers \cup {t}
                                                         ELSE Signalers \ {t}
  BY DEF TypeInv, TypeOK, Signalers, At

LEMMA OwnersStep ==
    ASSUME TypeInv, NEW t \in Threads
    PROVE  /\ Locked(t) => Owners' = Owners \cup {t}
           /\ Unlocked(t) => Owners' = IF depth[t] > 1 THEN Owners ELSE Owners \ {t}
           /\ UNCHANGED depth => Owners' = Owners
  BY DEF TypeInv, TypeOK, Owners, Locked, Unlocked

LEMMA QuietStep ==
    ASSUME BatonInv, Intact, UNCHANGED <<harness, threadCount, signaled>>,
           Owners' = Owners, Signalers' = Signalers, hEvent # None => UNCHANGED hEvent
    PROVE  BatonInv'
  BY DEF BatonInv, Intact, BatonFree, BatonOwned, BatonPassed, BatonInEvent, harness

\* Places between which a thread moves without taking or passing on the baton.
QuietPlaces == Places \ {"u_wait", "u_signal"}

LEMMA QuietMove ==
    ASSUME TypeInv, BatonInv, Intact, NEW t \in Threads, NEW to \in QuietPlaces,
           pc[t] \in QuietPlaces, pc' = [pc EXCEPT ![t] = to], UNCHANGED depth,
           UNCHANGED <<harness, threadCount, signaled>>, hEvent # None => UNCHANGED hEvent
    PROVE  BatonInv'
<1>1. Owners' = Owners
  BY OwnersStep
<1>2. Signalers' = Signalers
  BY SignalersStep DEF QuietPlaces, Signalers, At
<1> QED
  BY <1>1, <1>2, QuietStep

LEMMA LockBaton ==
    ASSUME TypeInv, EvInv, Intact, NEW t \in Threads, EvWriteLock(t)
    PROVE  BatonInv'
<1> USE FutexAssumption DEF EvInv, Goto, evData
<1>1. CASE \/ TestRecursive(t) \/ NotRecursive(t) \/ CreateEvent(t) \/ PublishEvent(t)
           \/ TakeOwnership(t)
  <2>1. \E to \in QuietPlaces :
            /\ pc[t] \in QuietPlaces /\ pc' = [pc EXCEPT ![t] = to] /\ UNCHANGED depth
            /\ UNCHANGED <<harness, threadCount, signaled>>
            /\ hEvent # None => UNCHANGED hEvent
    BY <1>1 DEF TestRecursive, NotRecursive, CreateEvent, PublishEvent, TakeOwnership, QuietPlaces,
       Places, InLazyInit, InLock, InUnlock
  <2> QED
    BY <2>1, QuietMove
<1>2. CASE LockAgain(t)
  <2>1. Owners' = Owners
    BY <1>2, OwnersStep DEF LockAgain, OwnerInv, Owners
  <2>2. Signalers' = Signalers
    BY <1>2, SignalersStep DEF LockAgain, Signalers, At
  <2> QED
    BY <1>2, <2>1, <2>2, QuietStep DEF LockAgain
<1>3. CASE Arrive(t)
  <2>1. Signalers' = Signalers
    BY <1>3, SignalersStep DEF Arrive, Signalers, At
  <2>2. Owners' = IF threadCount = 0 THEN Owners \cup {t} ELSE Owners
    BY <1>3, OwnersStep DEF Arrive
  <2> QED
    BY <1>3, <2>1, <2>2 DEF Arrive, TypeInv, TypeOK, BatonInv, Intact, BatonFree, BatonOwned,
       BatonPassed, BatonInEvent, harness
<1>4. CASE WaitOnEvent(t)
  <2>1. Signalers' = Signalers
    BY <1>4, SignalersStep DEF WaitOnEvent, Signalers, At
  <2>2. Owners' = Owners \cup {t}
    BY <1>4, OwnersStep DEF WaitOnEvent
  <2> QED
    BY <1>4, <2>1, <2>2 DEF WaitOnEvent, BatonInv, Intact, BatonFree, BatonOwned,
       BatonPassed, BatonInEvent, harness
<1> QED
  BY <1>1, <1>2, <1>3, <1>4 DEF EvWriteLock

LEMMA UnlockBaton ==
    ASSUME TypeInv, EvInv, Intact, NEW t \in Threads, EvWriteUnlock(t)
    PROVE  BatonInv'
<1> USE FutexAssumption DEF EvInv, Goto, evData
<1>1. CASE ClearThreadId(t) \/ (DropRecursion(t) /\ UNCHANGED depth)
  <2>1. \E to \in QuietPlaces :
            /\ pc[t] \in QuietPlaces /\ pc' = [pc EXCEPT ![t] = to] /\ UNCHANGED depth
            /\ UNCHANGED <<harness, threadCount, signaled, hEvent>>
    BY <1>1 DEF ClearThreadId, DropRecursion, CallUnlock, AfterUnlock, QuietPlaces,
       Places, InLazyInit, InLock, InUnlock
  <2> QED
    BY <2>1, QuietMove
<1>2. CASE DropRecursion(t) /\ Unlocked(t)
  <2>1. Owners' = Owners /\ Signalers' = Signalers
    <3>1. t \in Owners /\ pc[t] \in {"locked", "releasing"}
      BY <1>2 DEF DropRecursion, CallUnlock, TypeInv, DepthInv, Owners
    <3>2. depth[t] > 1
      BY <1>2, <3>1 DEF DropRecursion, Unlocked, OwnerInv, TypeInv, TypeOK
    <3> QED
      BY <1>2, <3>1, <3>2, OwnersStep, SignalersStep
         DEF DropRecursion, CallUnlock, AfterUnlock, Signalers, At
  <2> QED
    BY <1>2, <2>1, QuietStep DEF DropRecursion
<1>3. CASE Leave(t)
  <2>1. t \in Owners /\ depth[t] = 1
    BY <1>3 DEF Leave, TypeInv, DepthInv, Owners, OwnerInv
  <2>2. Owners' = Owners \ {t}
    BY <1>3, <2>1, OwnersStep DEF Leave
  <2>3. Signalers' = IF threadCount > 1 THEN Signalers \cup {t} ELSE Signalers \ {t}
    BY <1>3, SignalersStep DEF Leave, AfterUnlock
  <2> QED
    BY <1>3, <2>1, <2>2, <2>3 DEF Leave, TypeInv, TypeOK, BatonInv, Intact, BatonFree, BatonOwned,
       BatonPassed, BatonInEvent, harness
<1>4. CASE WaitForEventCreation(t)
  <2>1. Owners' = Owners /\ Signalers' = Signalers
    BY <1>4, OwnersStep, SignalersStep DEF WaitForEventCreation, Signalers, At
  <2> QED
    BY <1>4, <2>1, QuietStep DEF WaitForEventCreation
<1>5. CASE SignalEvent(t)
  <2>1. Owners' = Owners /\ Signalers' = Signalers \ {t} /\ t \in Signalers
    BY <1>5, OwnersStep, SignalersStep DEF SignalEvent, Signalers, At
  <2>2. hEvent # None /\ hEvent # Invalid /\ signaled' = signaled \cup {hEvent}
    BY <1>5 DEF SignalEvent, TypeInv, HandleInv, Intact
  <2> QED
    BY <1>5, <2>1, <2>2 DEF SignalEvent, BatonInv, Intact, BatonFree, BatonOwned, BatonPassed,
       BatonInEvent, harness
<1> QED
  BY <1>1, <1>2, <1>3, <1>4, <1>5 DEF EvWriteUnlock, DropRecursion

LEMMA BatonFacts ==
    ASSUME TypeInv, BatonInv, Intact
    PROVE  /\ \A t, u \in Owners : t = u
           /\ Owners # {} => threadCount > 0 /\ signaled = {}
  BY DEF TypeInv, TypeOK, BatonInv, BatonFree, BatonOwned, BatonPassed, BatonInEvent

LEMMA LockOwner ==
    ASSUME TypeInv, EvInv, Intact, NEW t \in Threads, EvWriteLock(t)
    PROVE  OwnerInv'
<1> USE FutexAssumption DEF TypeInv, TypeOK, DepthInv, Intact, EvInv, OwnerInv, Owners, Goto,
        harness, evData
<1>1. /\ \A u, v \in Owners : u = v
      /\ Owners # {} => threadCount > 0 /\ signaled = {}
  BY BatonFacts
<1>2. CASE TestRecursive(t)
  BY <1>1, <1>2 DEF TestRecursive
<1>3. CASE LockAgain(t)
  BY <1>3 DEF LockAgain, Locked
<1>4. CASE NotRecursive(t)
  BY <1>4 DEF NotRecursive
<1>5. CASE Arrive(t)
  BY <1>1, <1>5 DEF Arrive, Locked
<1>6. CASE CreateEvent(t)
  BY <1>6 DEF CreateEvent
<1>7. CASE PublishEvent(t)
  BY <1>7 DEF PublishEvent
<1>8. CASE WaitOnEvent(t)
  BY <1>1, <1>8 DEF WaitOnEvent, Locked
<1>9. CASE TakeOwnership(t)
  BY <1>1, <1>9 DEF TakeOwnership
<1> QED
  BY <1>2, <1>3, <1>4, <1>5, <1>6, <1>7, <1>8, <1>9 DEF EvWriteLock

LEMMA UnlockOwner ==
    ASSUME TypeInv, EvInv, Intact, NEW t \in Threads, EvWriteUnlock(t)
    PROVE  OwnerInv'
<1> USE FutexAssumption DEF TypeInv, TypeOK, DepthInv, Intact, EvInv, OwnerInv, Owners, Goto,
        harness, evData
<1>1. CASE DropRecursion(t)
  BY <1>1 DEF DropRecursion, CallUnlock, AfterUnlock, Unlocked
<1>2. CASE ClearThreadId(t)
  BY <1>2 DEF ClearThreadId
<1>3. CASE Leave(t)
  BY <1>3 DEF Leave, AfterUnlock, Unlocked
<1>4. CASE WaitForEventCreation(t)
  BY <1>4 DEF WaitForEventCreation
<1>5. CASE SignalEvent(t)
  BY <1>5 DEF SignalEvent
<1> QED
  BY <1>1, <1>2, <1>3, <1>4, <1>5 DEF EvWriteUnlock

LEMMA EvInvStep ==
    ASSUME TypeInv, EvInv, [Next]_vars
    PROVE  EvInv'
<1> SUFFICES ASSUME Intact'
             PROVE  EvInv'
  BY DEF EvInv, BatonInv, OwnerInv
<1>1. UNCHANGED TMutex
  BY EventStep
<1>2. Intact
  BY <1>1, EventStep, FutexAssumption DEF Intact
<1>3. CASE Stop \/ UNCHANGED vars
  BY <1>2, <1>3 DEF Stop, vars, harness, recData, evData, EvInv, BatonInv, OwnerInv, BatonFree,
     BatonOwned, BatonPassed, BatonInEvent, Owners, Signalers, At, Intact
<1>4. ASSUME NEW t \in Threads, StartLock(t) \/ Exit(t)
      PROVE  EvInv'
  <2>1. BatonInv'
    <3>1. \E to \in QuietPlaces :
            /\ pc[t] \in QuietPlaces /\ pc' = [pc EXCEPT ![t] = to] /\ UNCHANGED depth
            /\ UNCHANGED <<harness, threadCount, signaled, hEvent>>
      BY <1>4 DEF StartLock, Exit, FirstPlace, Goto, evData, QuietPlaces, Places, InLazyInit, InLock,
         InUnlock
    <3> QED
      BY <1>2, <3>1, QuietMove DEF EvInv
  <2>2. OwnerInv'
    BY <1>2, <1>4, FutexAssumption DEF StartLock, Exit, FirstPlace, TypeInv, TypeOK, DepthInv, Intact,
       EvInv, OwnerInv, Owners, Goto, evData
  <2> QED
    BY <2>1, <2>2 DEF EvInv
<1>5. ASSUME NEW t \in Threads, Step(t)
      PROVE  EvInv'
  BY <1>2, <1>5, LockBaton, UnlockBaton, LockOwner, UnlockOwner DEF Step, EvInv, Intact
<1> QED
  BY <1>3, <1>4, <1>5 DEF Next

LEMMA EvInvInductive == Spec => []EvInv
<1>1. Init => EvInv
  BY FutexAssumption DEF Init, EvInv, BatonInv, OwnerInv, BatonFree, Owners, Signalers, At
<1>2. TypeInv /\ EvInv /\ [Next]_vars => EvInv'
  BY EvInvStep
<1> QED
  BY <1>1, <1>2, TypeInvInductive, PTL DEF Spec

LEMMA OneOwner ==
    ASSUME TypeInv, LazyInv, EvInv, hEvent # Invalid
    PROVE  \A t, u \in Owners : t = u
<1>1. CASE TMutex = "WinFutexRecC"
  BY <1>1 DEF LazyInv, RecInv, Owners
<1>2. CASE TMutex = "WinFutexRecEvC"
  BY <1>2, BatonFacts DEF EvInv, Intact
<1> QED
  BY <1>1, <1>2, FutexAssumption DEF TypeInv, TypeOK

\* At most one thread owns either lock, for as long as WinFutexRecEvC has not
\* fallen back on an event that could not be made.
THEOREM MutualExclusion == Spec => []Exclusion
<1>1. TypeInv /\ LazyInv /\ EvInv => Exclusion
  BY OneOwner, AtMostOne, FS_EmptySet DEF Exclusion
<1> QED
  BY <1>1, TypeInvInductive, LazyInvInductive, EvInvInductive, PTL

\* WinFutexRecEvC passes one baton: while threads have arrived, exactly one
\* thread owns the lock, or is about to signal the event, or the event is
\* signaled; when none have, the baton is gone.
THEOREM BatonIsOne == Spec => []OneBaton
<1>1. TypeInv /\ EvInv => OneBaton
  <2> SUFFICES ASSUME TypeInv, BatonInv, Intact
               PROVE  Cardinality(Owners) + Cardinality(Signalers) + Cardinality(signaled)
                          = IF threadCount > 0 THEN 1 ELSE 0
    BY Zenon DEF OneBaton, EvInv, Intact, Signalers
  <2>1. Cardinality({}) = 0 /\ \A x : Cardinality({x}) = 1
    BY FS_EmptySet, FS_Singleton
  <2>2. CASE threadCount = 0 /\ BatonFree
    BY <2>1, <2>2 DEF BatonFree
  <2>3. ASSUME threadCount > 0, NEW t \in Threads, BatonOwned(t) \/ BatonPassed(t)
        PROVE  Cardinality(Owners) + Cardinality(Signalers) + Cardinality(signaled) = 1
    BY <2>1, <2>3 DEF BatonOwned, BatonPassed
  <2>4. CASE threadCount > 0 /\ BatonInEvent
    BY <2>1, <2>4 DEF BatonInEvent
  <2> QED
    BY <2>2, <2>3, <2>4 DEF BatonInv
<1> QED
  BY <1>1, TypeInvInductive, EvInvInductive, PTL

\* A thread that locks again what it owns never gets to where threads queue.
THEOREM RecursiveLockDoesNotWait == Spec => []RecursionNeverWaits
<1>1. TypeInv /\ LazyInv /\ EvInv => RecursionNeverWaits
  <2> SUFFICES ASSUME TypeInv, LazyInv, EvInv, hEvent # Invalid, NEW t \in Owners
               PROVE  pc[t] \notin {"l_arrive", "l_create", "l_wait"}
    BY DEF RecursionNeverWaits
  <2>1. CASE TMutex = "WinFutexRecC"
    BY <2>1 DEF LazyInv, RecInv, RecPlaces, InLazyInit, Owners
  <2>2. CASE TMutex = "WinFutexRecEvC"
    BY <2>2 DEF EvInv, OwnerInv, Intact
  <2> QED
    BY <2>1, <2>2, FutexAssumption DEF TypeInv, TypeOK
<1> QED
  BY <1>1, TypeInvInductive, LazyInvInductive, EvInvInductive, PTL
=============================================================================
