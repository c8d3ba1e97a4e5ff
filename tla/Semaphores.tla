----------------------------- MODULE Semaphores -----------------------------
(***************************************************************************)
(* The four semaphores that the repository builds from interlocked counters*)
(* and auto-reset events: CsevSemaphore, FastStSemaphore, Csev2Semaphore   *)
(* and UnslowSemaphore.  Takers are the threads of Test<SemaMutex<TSema>>, *)
(* whose Lock is P and whose Unlock is V(1); Givers call V(delta), as      *)
(* CohortReadWriteMutex does for its readers and each constructor does for *)
(* its initial count.  An action is one interlocked instruction, one call  *)
(* on an event, or one m_cs block that touches nothing but the count.      *)
(***************************************************************************)
EXTENDS Integers, FiniteSets

CONSTANTS
    Classes,       \* the classes TSema is chosen from
    Takers,        \* threads of the test: P, then V(1), until m_done
    Givers,        \* threads that only call V(delta)
    None,          \* no thread
    InitialCount,  \* the constructor's initialCount
    MaxGiven       \* bound: the permits that Givers hand out in all

Threads == Takers \cup Givers

ASSUME SemaphoreAssumption ==
    /\ Classes \subseteq {"Csev", "FastSt", "Csev2", "Unslow"}
    /\ IsFiniteSet(Threads)
    /\ None \notin Threads
    /\ Takers \cap Givers = {}
    /\ InitialCount \in Nat
    /\ MaxGiven \in Nat

VARIABLES
    TSema,       \* the class under test, chosen once
    pc,
    m_done,      \* the test is over (main.cpp)
    given,       \* permits handed out by Givers so far
    m_count,     \* m_count, m_semaCount or m_signalCount
    m_event,     \* m_event or m_semaEvent: auto-reset
    m_waitCount, \* FastStSemaphore: threads inside P
    m_waitEvent, \* FastStSemaphore: auto-reset
    m_cs         \* Csev2Semaphore: the thread inside P

harness == <<TSema, m_done, given>>
gate == <<m_waitCount, m_waitEvent, m_cs>>
vars == <<harness, pc, m_count, m_event, gate>>

Init ==
    /\ TSema \in Classes
    /\ pc = [t \in Threads |-> "loop"]
    /\ m_done = FALSE
    /\ given = 0
    /\ m_count = InitialCount
    /\ m_event = (InitialCount > 0 /\ TSema \in {"Csev", "Unslow"})
    /\ m_waitCount = 0
    /\ m_waitEvent = FALSE
    /\ m_cs = None

-----------------------------------------------------------------------------
(* Steps that the classes share.                                           *)

Goto(t, from, to) == pc[t] = from /\ pc' = [pc EXCEPT ![t] = to]

\* WaitForSingleObject on the auto-reset m_event, which it resets.
WaitEvent(t, to) ==
    /\ m_event
    /\ m_event' = FALSE
    /\ Goto(t, "p_wait", to)
    /\ UNCHANGED <<harness, m_count, gate>>

SignalEvent(t, from, to) ==
    /\ m_event' = TRUE
    /\ Goto(t, from, to)
    /\ UNCHANGED <<harness, m_count, gate>>

\* One permit less; the place reached next depends on the new count.
TakePermit(t, to) ==
    /\ m_count' = m_count - 1
    /\ Goto(t, "p_take", to)
    /\ UNCHANGED <<harness, m_event, gate>>

\* V(delta): the count goes up, and m_event is set if the old count asks for
\* it.  Takers give back one permit, Givers hand out new ones.
AddPermits(t, wakes) ==
    \/ /\ Goto(t, "holding", IF wakes THEN "v_signal" ELSE "loop")
       /\ m_count' = m_count + 1
       /\ UNCHANGED <<harness, m_event, gate>>
    \/ \E delta \in 1..(MaxGiven - given) :
       /\ t \in Givers
       /\ Goto(t, "loop", IF wakes THEN "v_signal" ELSE "loop")
       /\ m_count' = m_count + delta
       /\ given' = given + delta
       /\ UNCHANGED <<TSema, m_done, m_event, gate>>

-----------------------------------------------------------------------------
(* CsevSemaphore: the count under m_cs, and an event to sleep on.          *)

\* (A plausible bug: oldCount >= 0.)
CsevPOffByOne(t) ==
    \/ m_count >= 0 /\ TakePermit(t, IF m_count > 1 THEN "p_chain" ELSE "holding")
    \/ /\ m_count < 0
       /\ Goto(t, "p_take", "p_wait")
       /\ UNCHANGED <<harness, m_count, m_event, gate>>
    \/ WaitEvent(t, "p_take")
    \/ SignalEvent(t, "p_chain", "holding")

\* (A plausible bug: a thread that leaves permits behind wakes nobody.)
CsevPUnchained(t) ==
    \/ m_count > 0 /\ TakePermit(t, "holding")
    \/ /\ m_count <= 0
       /\ Goto(t, "p_take", "p_wait")
       /\ UNCHANGED <<harness, m_count, m_event, gate>>
    \/ WaitEvent(t, "p_take")

CsevP(t) ==
    \/ m_count > 0 /\ TakePermit(t, IF m_count > 1 THEN "p_chain" ELSE "holding")
    \/ /\ m_count <= 0
       /\ Goto(t, "p_take", "p_wait")
       /\ UNCHANGED <<harness, m_count, m_event, gate>>
    \/ WaitEvent(t, "p_take")
    \/ SignalEvent(t, "p_chain", "holding")

CsevV(t) == AddPermits(t, m_count <= 0) \/ SignalEvent(t, "v_signal", "loop")

-----------------------------------------------------------------------------
(* FastStSemaphore: m_waitCount and m_waitEvent let one thread at a time   *)
(* through to the count, which a thread may take to -1 before it sleeps.   *)

\* (A plausible bug: the thread is not counted.)
EnterGateUncounted(t) ==
    /\ Goto(t, "p_enter", IF m_waitCount > 0 THEN "p_queue" ELSE "p_take")
    /\ UNCHANGED <<harness, m_count, m_event, gate>>

\* (A plausible bug: waiterId > 1.)
EnterGateTwo(t) ==
    /\ m_waitCount' = m_waitCount + 1
    /\ Goto(t, "p_enter", IF m_waitCount > 1 THEN "p_queue" ELSE "p_take")
    /\ UNCHANGED <<harness, m_count, m_event, m_waitEvent, m_cs>>

EnterGate(t) ==
    /\ m_waitCount' = m_waitCount + 1
    /\ Goto(t, "p_enter", IF m_waitCount > 0 THEN "p_queue" ELSE "p_take")
    /\ UNCHANGED <<harness, m_count, m_event, m_waitEvent, m_cs>>

\* (A plausible bug: who is woken starts again, in competition with newcomers.)
QueueAtGateAgain(t) ==
    /\ m_waitEvent
    /\ m_waitEvent' = FALSE
    /\ m_waitCount' = m_waitCount - 1
    /\ Goto(t, "p_queue", "p_enter")
    /\ UNCHANGED <<harness, m_count, m_event, m_cs>>

QueueAtGate(t) ==
    /\ m_waitEvent
    /\ m_waitEvent' = FALSE
    /\ Goto(t, "p_queue", "p_take")
    /\ UNCHANGED <<harness, m_count, m_event, m_waitCount, m_cs>>

\* (A plausible bug: newWaitCount > 1.)
LeaveGateOffByOne(t) ==
    /\ m_waitCount' = m_waitCount - 1
    /\ Goto(t, "p_leave", IF m_waitCount > 2 THEN "p_next" ELSE "holding")
    /\ UNCHANGED <<harness, m_count, m_event, m_waitEvent, m_cs>>

LeaveGate(t) ==
    /\ m_waitCount' = m_waitCount - 1
    /\ Goto(t, "p_leave", IF m_waitCount > 1 THEN "p_next" ELSE "holding")
    /\ UNCHANGED <<harness, m_count, m_event, m_waitEvent, m_cs>>

OpenGate(t) ==
    /\ m_waitEvent' = TRUE
    /\ Goto(t, "p_next", "holding")
    /\ UNCHANGED <<harness, m_count, m_event, m_waitCount, m_cs>>

FastStP(t) ==
    \/ EnterGate(t)
    \/ QueueAtGate(t)
    \/ TakePermit(t, IF m_count < 1 THEN "p_wait" ELSE "p_leave")
    \/ WaitEvent(t, "p_leave")
    \/ LeaveGate(t)
    \/ OpenGate(t)

\* (A plausible bug: prevCount <= 0, as in CsevSemaphore.)
FastStVOffByOne(t) == AddPermits(t, m_count <= 0) \/ SignalEvent(t, "v_signal", "loop")

FastStV(t) == AddPermits(t, m_count < 0) \/ SignalEvent(t, "v_signal", "loop")

-----------------------------------------------------------------------------
(* Csev2Semaphore: the same, with m_cs held throughout P as the gate.      *)

EnterCs(t) ==
    /\ m_cs = None
    /\ m_cs' = t
    /\ Goto(t, "p_enter", "p_take")
    /\ UNCHANGED <<harness, m_count, m_event, m_waitCount, m_waitEvent>>

LeaveCs(t) ==
    /\ m_cs' = None
    /\ Goto(t, "p_leave", "holding")
    /\ UNCHANGED <<harness, m_count, m_event, m_waitCount, m_waitEvent>>

Csev2P(t) ==
    \/ EnterCs(t)
    \/ TakePermit(t, IF m_count < 1 THEN "p_wait" ELSE "p_leave")
    \/ WaitEvent(t, "p_leave")
    \/ LeaveCs(t)

\* (A plausible bug: prevCount < -1.)
Csev2VOffByOne(t) == AddPermits(t, m_count < -1) \/ SignalEvent(t, "v_signal", "loop")

Csev2V(t) == AddPermits(t, m_count < 0) \/ SignalEvent(t, "v_signal", "loop")

-----------------------------------------------------------------------------
(* UnslowSemaphore: the event first, the count after it.                   *)

UnslowP(t) ==
    \/ WaitEvent(t, "p_take")
    \/ TakePermit(t, IF m_count # 0 THEN "p_chain" ELSE "holding")
    \/ SignalEvent(t, "p_chain", "holding")

UnslowV(t) == AddPermits(t, m_count = 0) \/ SignalEvent(t, "v_signal", "loop")

-----------------------------------------------------------------------------
(* The test of SemaMutex<TSema>.                                           *)

FirstPlace(sema) ==
    CASE sema = "Csev"   -> "p_take"
      [] sema = "Unslow" -> "p_wait"
      [] OTHER           -> "p_enter"

StartP(t) ==
    /\ t \in Takers
    /\ ~m_done
    /\ Goto(t, "loop", FirstPlace(TSema))
    /\ UNCHANGED <<harness, m_count, m_event, gate>>

Exit(t) ==
    /\ m_done
    /\ Goto(t, "loop", "exited")
    /\ UNCHANGED <<harness, m_count, m_event, gate>>

Stop ==
    /\ ~m_done
    /\ m_done' = TRUE
    /\ UNCHANGED <<TSema, given, pc, m_count, m_event, gate>>

Step(t) ==
    \/ StartP(t) \/ Exit(t)
    \/ TSema = "Csev"   /\ (CsevP(t)   \/ CsevV(t))
    \/ TSema = "FastSt" /\ (FastStP(t) \/ FastStV(t))
    \/ TSema = "Csev2"  /\ (Csev2P(t)  \/ Csev2V(t))
    \/ TSema = "Unslow" /\ (UnslowP(t) \/ UnslowV(t))

Next == Stop \/ \E t \in Threads : Step(t)

Spec == Init /\ [][Next]_vars

\* Every thread keeps running.  A thread that waits for an event, or for m_cs,
\* obtains it if it comes free again and again: Windows queues the waiters of
\* an event, and readme.md says of CriticalSection "Starvation: never".
FairSpec == Spec /\ \A t \in Threads : SF_vars(Step(t))

-----------------------------------------------------------------------------
InGate == {"p_take", "p_wait", "p_leave", "p_next"}
Calling == {"p_enter", "p_queue", "p_take", "p_wait"}
Holding == {"p_leave", "p_next", "p_chain", "holding"}
Places == {"loop", "v_signal", "exited"} \cup Calling \cup Holding

TypeOK ==
    /\ TSema \in Classes
    /\ pc \in [Threads -> Places]
    /\ m_done \in BOOLEAN
    /\ given \in 0..MaxGiven
    /\ m_count \in Int
    /\ m_event \in BOOLEAN
    /\ m_waitCount \in Nat
    /\ m_waitEvent \in BOOLEAN
    /\ m_cs \in Threads \cup {None}

At(places) == {t \in Threads : pc[t] \in places}

\* "Readers get exclusive access" (readme.md, on SemaMutex): of a semaphore with
\* one permit there is one owner.
SemaMutexExcludes == InitialCount + given = 1 => Cardinality(At(Holding)) <= 1

\* UnslowSemaphore breaks that, and what depends on it; what follows is claimed
\* of the other three.
Counts == TSema # "Unslow"

\* No permit is handed out twice.
PermitsRespected == Counts => Cardinality(At(Holding)) <= InitialCount + given

\* One thread at a time is past the gate of FastStSemaphore or Csev2Semaphore;
\* only it can take the count below zero.
OneThreadInGate ==
    TSema \in {"FastSt", "Csev2"} =>
        /\ Cardinality(At(InGate)) <= 1
        /\ m_count >= 0 - Cardinality(At({"p_wait"}))

\* No lost wakeup: a thread sleeps while permits are there only if the event
\* is set, or a thread that is awake is about to set it or to take a permit.
SleeperIsWoken ==
    Counts /\ At({"p_wait"}) # {} /\ (IF TSema = "Csev" THEN m_count > 0 ELSE m_count >= 0) =>
        m_event \/ At({"v_signal", "p_chain", "p_take"}) # {}

\* A thread queues at the gate of FastStSemaphore only while another is past
\* the gate, or on its way through.
GateIsManned ==
    At({"p_queue"}) # {} => m_waitEvent \/ At(InGate) # {}

\* The abstract semaphore: a thread has its permit when it has brought the
\* count down, but if it then sleeps (FastSt and Csev2), not before it wakes up.
\* (Of UnslowSemaphore nothing is claimed: the abstract semaphore stays as it is.)
AbstractCount ==
    CASE TSema = "Csev"   -> m_count
      [] TSema = "Unslow" -> InitialCount
      [] OTHER            -> m_count + Cardinality(At({"p_wait"}))

Abstract == INSTANCE CountingSemaphore WITH
    count <- AbstractCount, waiting <- {t \in At(Calling) : Counts}

ImplementsSemaphore == Abstract!Spec

-----------------------------------------------------------------------------
\* "Wait for all threads to complete.  If they don't, we probably have a
\* deadlock." (main.cpp)  With the three semaphores that count, they do.
AllThreadsJoin == Counts /\ m_done ~> \A t \in Threads : pc[t] = "exited"

\* "Is perfectly fair" (main.cpp, on each SemaMutex): who calls P gets a permit.
PerfectlyFair == \A t \in Takers : pc[t] \in Calling ~> pc[t] \in Holding

\* The two classes that serve one waiting thread at a time live up to it.
GatedAreFair ==
    \A t \in Takers :
        TSema \in {"FastSt", "Csev2"} /\ pc[t] \in Calling ~> pc[t] \in Holding
=============================================================================
