--------------------------- MODULE SemaphoresProofs ---------------------------
(***************************************************************************)
(* What is proved of the semaphores built from counters and events, for    *)
(* any finite set of threads and any initial count: typing, one thread at  *)
(* a time past the gate of FastStSemaphore and Csev2Semaphore, no permit   *)
(* handed out twice, no lost wakeup, no unmanned gate, and that each of    *)
(* the three classes that count implements the abstract semaphore.         *)
(***************************************************************************)
EXTENDS Semaphores, FiniteSetTheorems, TLAPS

-----------------------------------------------------------------------------
(* Counting threads by their places.                                       *)

LEMMA AtFinite ==
    ASSUME NEW S
    PROVE  /\ IsFiniteSet(At(S))
           /\ Cardinality(At(S)) \in Nat
           /\ Cardinality(At(S)) = 0 <=> At(S) = {}
<1>1. IsFiniteSet(At(S))
  BY SemaphoreAssumption, FS_Subset DEF At
<1> QED
  BY <1>1, FS_CardinalityType, FS_EmptySet

\* One thread changes its place: every count of places changes by at most one.
LEMMA CountStep ==
    ASSUME NEW S, NEW t \in Threads, NEW to, pc \in [Threads -> Places],
           pc' = [pc EXCEPT ![t] = to]
    PROVE  /\ At(S)' = IF to \in S THEN At(S) \cup {t} ELSE At(S) \ {t}
           /\ Cardinality(At(S)') = Cardinality(At(S)) + (IF to \in S THEN 1 ELSE 0)
                                                       - (IF pc[t] \in S THEN 1 ELSE 0)
           /\ Cardinality(At(S)') \in Nat
<1>1. At(S)' = IF to \in S THEN At(S) \cup {t} ELSE At(S) \ {t}
  BY DEF At
<1>2. t \in At(S) <=> pc[t] \in S
  BY DEF At
<1>3. Cardinality(At(S) \cup {t}) = IF t \in At(S) THEN Cardinality(At(S)) ELSE Cardinality(At(S)) + 1
  BY AtFinite, FS_AddElement
<1>4. Cardinality(At(S) \ {t}) = IF t \in At(S) THEN Cardinality(At(S)) - 1 ELSE Cardinality(At(S))
  BY AtFinite, FS_RemoveElement
<1>5. Cardinality(At(S)) \in Nat /\ (t \in At(S) => Cardinality(At(S)) > 0)
  BY AtFinite
<1> QED
  BY <1>1, <1>2, <1>3, <1>4, <1>5

LEMMA AtMostOne ==
    ASSUME NEW S, \A x, y \in S : x = y
    PROVE  Cardinality(S) <= 1
<1>1. CASE S = {}
  BY <1>1, FS_EmptySet
<1>2. ASSUME NEW x \in S
      PROVE  Cardinality(S) = 1
  <2>1. S = {x}
    OBVIOUS
  <2> QED
    BY <2>1, FS_Singleton
<1> QED
  BY <1>1, <1>2

-----------------------------------------------------------------------------
(* Typing: m_waitCount stays in Nat because it counts the threads in line. *)

PlacesOf(sema) ==
    {"loop", "p_take", "p_wait", "holding", "v_signal", "exited"} \cup
    CASE sema = "FastSt" -> {"p_enter", "p_queue", "p_leave", "p_next"}
      [] sema = "Csev2"  -> {"p_enter", "p_leave"}
      [] OTHER           -> {"p_chain"}

PlacesInv == \A t \in Threads : pc[t] \in PlacesOf(TSema)

InLine == {"p_queue", "p_take", "p_wait", "p_leave"}

LineInv == TSema = "FastSt" => m_waitCount = Cardinality(At(InLine))

TypeInv == TypeOK /\ PlacesInv /\ LineInv

LEMMA PlacesOfClass ==
    /\ PlacesOf("Csev") = {"loop", "p_take", "p_wait", "holding", "v_signal", "exited", "p_chain"}
    /\ PlacesOf("Unslow") = {"loop", "p_take", "p_wait", "holding", "v_signal", "exited", "p_chain"}
    /\ PlacesOf("Csev2") = {"loop", "p_take", "p_wait", "holding", "v_signal", "exited", "p_enter",
                            "p_leave"}
    /\ PlacesOf("FastSt") = {"loop", "p_take", "p_wait", "holding", "v_signal", "exited", "p_enter",
                             "p_queue", "p_leave", "p_next"}
  BY DEF PlacesOf

\* What a step has to do to m_waitCount.
LEMMA LineStep ==
    ASSUME TypeInv, UNCHANGED TSema, NEW t \in Threads, NEW to, pc' = [pc EXCEPT ![t] = to],
           TSema = "FastSt" => m_waitCount' = m_waitCount + (IF to \in InLine THEN 1 ELSE 0)
                                                          - (IF pc[t] \in InLine THEN 1 ELSE 0),
           TSema # "FastSt" => UNCHANGED m_waitCount
    PROVE  LineInv' /\ m_waitCount' \in Nat
<1>1. pc \in [Threads -> Places] /\ m_waitCount \in Nat
  BY DEF TypeInv, TypeOK
<1>2. /\ Cardinality(At(InLine)') = Cardinality(At(InLine)) + (IF to \in InLine THEN 1 ELSE 0)
                                                            - (IF pc[t] \in InLine THEN 1 ELSE 0)
      /\ Cardinality(At(InLine)') \in Nat
  BY <1>1, CountStep
<1> QED
  BY <1>1, <1>2 DEF TypeInv, LineInv

LEMMA GateLine ==
    ASSUME TypeInv, NEW t \in Threads, TSema = "FastSt", FastStP(t) \/ FastStV(t)
    PROVE  LineInv' /\ m_waitCount' \in Nat
<1> DEFINE In(place) == IF place \in InLine THEN 1 ELSE 0
<1> DEFINE Counted(to) == /\ pc' = [pc EXCEPT ![t] = to]
                          /\ m_waitCount' = m_waitCount + In(to) - In(pc[t])
                          /\ UNCHANGED TSema
<1> SUFFICES \E to \in Places : Counted(to)
  <2> SUFFICES ASSUME NEW to \in Places, Counted(to)
               PROVE  LineInv' /\ m_waitCount' \in Nat
    OBVIOUS
  <2> QED
    BY LineStep
<1> USE DEF Goto, InLine, Places, Calling, Holding, harness, gate, TypeInv, TypeOK
<1>1. CASE EnterGate(t)
  <2>1. PICK to \in {"p_queue", "p_take"} : pc' = [pc EXCEPT ![t] = to]
    BY <1>1 DEF EnterGate
  <2>2. pc[t] = "p_enter" /\ m_waitCount' = m_waitCount + 1 /\ UNCHANGED TSema
    BY <1>1 DEF EnterGate
  <2>3. Counted(to) /\ to \in Places
    BY <2>1, <2>2
  <2> QED
    BY <2>3
<1>2. CASE QueueAtGate(t)
  BY <1>2 DEF QueueAtGate
<1>3. CASE TakePermit(t, IF m_count < 1 THEN "p_wait" ELSE "p_leave")
  <2>1. PICK to \in {"p_wait", "p_leave"} : pc' = [pc EXCEPT ![t] = to]
    BY <1>3 DEF TakePermit
  <2>2. pc[t] = "p_take" /\ UNCHANGED m_waitCount /\ UNCHANGED TSema
    BY <1>3 DEF TakePermit
  <2>3. Counted(to) /\ to \in Places
    BY <2>1, <2>2
  <2> QED
    BY <2>3
<1>4. CASE WaitEvent(t, "p_leave")
  BY <1>4 DEF WaitEvent
<1>5. CASE LeaveGate(t)
  <2>1. PICK to \in {"p_next", "holding"} : pc' = [pc EXCEPT ![t] = to]
    BY <1>5 DEF LeaveGate
  <2>2. pc[t] = "p_leave" /\ m_waitCount' = m_waitCount - 1 /\ UNCHANGED TSema
    BY <1>5 DEF LeaveGate
  <2>3. Counted(to) /\ to \in Places
    BY <2>1, <2>2
  <2> QED
    BY <2>3
<1>6. CASE OpenGate(t)
  BY <1>6 DEF OpenGate
<1>7. CASE AddPermits(t, m_count < 0)
  BY <1>7 DEF AddPermits
<1>8. CASE SignalEvent(t, "v_signal", "loop")
  BY <1>8 DEF SignalEvent
<1> QED
  BY <1>1, <1>2, <1>3, <1>4, <1>5, <1>6, <1>7, <1>8 DEF FastStP, FastStV

\* Every step moves one thread, within the places of its class.
LEMMA StepMoves ==
    ASSUME TypeInv, NEW t \in Threads, Step(t)
    PROVE  UNCHANGED TSema /\ \E to \in PlacesOf(TSema) : pc' = [pc EXCEPT ![t] = to]
<1> USE PlacesOfClass DEF Goto, harness, gate
<1>1. CASE StartP(t) \/ Exit(t)
  <2>1. FirstPlace(TSema) \in PlacesOf(TSema) /\ "exited" \in PlacesOf(TSema)
    BY SemaphoreAssumption DEF FirstPlace, TypeInv, TypeOK
  <2> QED
    BY <1>1, <2>1 DEF StartP, Exit
<1>2. CASE TSema = "Csev" /\ (CsevP(t) \/ CsevV(t))
  BY <1>2 DEF CsevP, CsevV, WaitEvent, SignalEvent, TakePermit, AddPermits
<1>3. CASE TSema = "FastSt" /\ (FastStP(t) \/ FastStV(t))
  BY <1>3 DEF FastStP, FastStV, EnterGate, QueueAtGate, LeaveGate, OpenGate, WaitEvent, SignalEvent,
     TakePermit, AddPermits
<1>4. CASE TSema = "Csev2" /\ (Csev2P(t) \/ Csev2V(t))
  BY <1>4 DEF Csev2P, Csev2V, EnterCs, LeaveCs, WaitEvent, SignalEvent, TakePermit, AddPermits
<1>5. CASE TSema = "Unslow" /\ (UnslowP(t) \/ UnslowV(t))
  BY <1>5 DEF UnslowP, UnslowV, WaitEvent, SignalEvent, TakePermit, AddPermits
<1> QED
  BY <1>1, <1>2, <1>3, <1>4, <1>5 DEF Step

\* Everything but the class, the places and m_waitCount.
DataOK ==
    /\ m_done \in BOOLEAN /\ given \in 0..MaxGiven /\ m_count \in Int /\ m_event \in BOOLEAN
    /\ m_waitEvent \in BOOLEAN /\ m_cs \in Threads \cup {None}

LEMMA StepTyped ==
    ASSUME TypeInv, NEW t \in Threads, Step(t)
    PROVE  DataOK'
<1> USE SemaphoreAssumption DEF TypeInv, TypeOK, DataOK, harness, gate
<1>1. CASE StartP(t) \/ Exit(t)
  BY <1>1 DEF StartP, Exit
<1>2. ASSUME NEW to, WaitEvent(t, to) \/ TakePermit(t, to)
      PROVE  DataOK'
  <2>1. CASE WaitEvent(t, to)
    BY <2>1 DEF WaitEvent
  <2>2. CASE TakePermit(t, to)
    BY <2>2 DEF TakePermit
  <2> QED
    BY <1>2, <2>1, <2>2
<1>3. ASSUME NEW from, NEW to, SignalEvent(t, from, to)
      PROVE  DataOK'
  BY <1>3 DEF SignalEvent
<1>4. ASSUME NEW wakes, AddPermits(t, wakes)
      PROVE  DataOK'
  BY <1>4 DEF AddPermits
<1>5. CASE EnterGate(t) \/ QueueAtGate(t) \/ LeaveGate(t) \/ OpenGate(t) \/ EnterCs(t) \/ LeaveCs(t)
  BY <1>5 DEF EnterGate, QueueAtGate, LeaveGate, OpenGate, EnterCs, LeaveCs
<1>6. UNCHANGED <<harness, m_count, m_event, gate>> => DataOK'
  OBVIOUS
<1> HIDE DEF TypeInv, DataOK, harness, gate
<1>7. CASE CsevP(t) \/ CsevV(t) \/ UnslowP(t) \/ UnslowV(t)
  <2>1. CASE CsevP(t) \/ CsevV(t)
    BY <1>2, <1>3, <1>4, <1>6, <2>1, Zenon DEF CsevP, CsevV
  <2>2. CASE UnslowP(t) \/ UnslowV(t)
    BY <1>2, <1>3, <1>4, <2>2, Zenon DEF UnslowP, UnslowV
  <2> QED
    BY <1>7, <2>1, <2>2
<1>8. CASE FastStP(t) \/ FastStV(t) \/ Csev2P(t) \/ Csev2V(t)
  BY <1>2, <1>3, <1>4, <1>5, <1>8 DEF FastStP, FastStV, Csev2P, Csev2V
<1> QED
  BY <1>1, <1>7, <1>8 DEF Step

LEMMA OtherLine ==
    ASSUME TypeInv, NEW t \in Threads, Step(t), TSema # "FastSt"
    PROVE  UNCHANGED m_waitCount
<1> USE DEF gate
<1>1. CASE StartP(t) \/ Exit(t)
  BY <1>1 DEF StartP, Exit
<1>2. CASE CsevP(t) \/ CsevV(t)
  BY <1>2 DEF CsevP, CsevV, WaitEvent, SignalEvent, TakePermit, AddPermits
<1>3. CASE Csev2P(t) \/ Csev2V(t)
  BY <1>3 DEF Csev2P, Csev2V, EnterCs, LeaveCs, WaitEvent, SignalEvent, TakePermit, AddPermits
<1>4. CASE UnslowP(t) \/ UnslowV(t)
  BY <1>4 DEF UnslowP, UnslowV, WaitEvent, SignalEvent, TakePermit, AddPermits
<1> QED
  BY <1>1, <1>2, <1>3, <1>4 DEF Step

LEMMA TypeInvStep ==
    ASSUME TypeInv, [Next]_vars
    PROVE  TypeInv'
<1>1. ASSUME NEW t \in Threads, Step(t)
      PROVE  TypeInv'
  <2>1. UNCHANGED TSema /\ \E to \in PlacesOf(TSema) : pc' = [pc EXCEPT ![t] = to]
    BY <1>1, StepMoves
  <2>2. PlacesOf(TSema) \subseteq Places
    BY SemaphoreAssumption, PlacesOfClass DEF TypeInv, TypeOK, Places, Calling, Holding
  <2>3. PlacesInv' /\ pc' \in [Threads -> Places]
    BY <2>1, <2>2 DEF TypeInv, TypeOK, PlacesInv
  <2>4. DataOK'
    BY <1>1, StepTyped
  <2>5. LineInv' /\ m_waitCount' \in Nat
    <3>1. CASE TSema # "FastSt"
      BY <1>1, <2>1, <3>1, OtherLine DEF TypeInv, TypeOK, LineInv
    <3>2. CASE TSema = "FastSt" /\ (StartP(t) \/ Exit(t))
      <4>1. PICK to \in Places \ InLine : pc' = [pc EXCEPT ![t] = to]
        BY <3>2 DEF StartP, Exit, Goto, FirstPlace, Places, Calling, Holding, InLine
      <4>2. pc[t] \notin InLine /\ UNCHANGED <<TSema, m_waitCount>>
        BY <3>2 DEF StartP, Exit, Goto, InLine, harness, gate
      <4>3. m_waitCount' = m_waitCount + (IF to \in InLine THEN 1 ELSE 0)
                                       - (IF pc[t] \in InLine THEN 1 ELSE 0)
        BY <4>1, <4>2 DEF TypeInv, TypeOK
      <4> QED
        BY <4>1, <4>2, <4>3, LineStep
    <3>3. CASE TSema = "FastSt" /\ (FastStP(t) \/ FastStV(t))
      BY <3>3, GateLine
    <3> QED
      BY <1>1, <3>1, <3>2, <3>3 DEF Step
  <2> QED
    BY <2>1, <2>3, <2>4, <2>5 DEF TypeInv, TypeOK, DataOK
<1>2. CASE Stop \/ UNCHANGED vars
  BY <1>2 DEF Stop, vars, harness, gate, TypeInv, TypeOK, PlacesInv, LineInv, At
<1> QED
  BY <1>1, <1>2 DEF Next

LEMMA TypeInvInductive == Spec => []TypeInv
<1>1. Init => TypeInv
  <2> SUFFICES ASSUME Init PROVE TypeInv
    OBVIOUS
  <2>1. PlacesInv /\ pc \in [Threads -> Places]
    BY SemaphoreAssumption, PlacesOfClass DEF Init, PlacesInv, Places
  <2>2. LineInv
    BY FS_EmptySet DEF Init, LineInv, At, InLine
  <2>3. m_event \in BOOLEAN /\ m_done \in BOOLEAN /\ m_waitEvent \in BOOLEAN
    BY DEF Init
  <2>4. TSema \in Classes /\ given \in 0..MaxGiven /\ m_count \in Int /\ m_waitCount \in Nat
        /\ m_cs \in Threads \cup {None}
    BY SemaphoreAssumption DEF Init
  <2> QED
    BY <2>1, <2>2, <2>3, <2>4 DEF TypeInv, TypeOK
<1>2. TypeInv /\ [Next]_vars => TypeInv'
  BY TypeInvStep
<1> QED
  BY <1>1, <1>2, PTL DEF Spec

\* Every variable keeps its type; m_waitCount is never negative.
THEOREM TypeCorrect == Spec => []TypeOK
<1>1. TypeInv => TypeOK
  BY DEF TypeInv
<1> QED
  BY <1>1, TypeInvInductive, PTL

-----------------------------------------------------------------------------
(* The gates.  In Csev2Semaphore the thread past the gate owns m_cs.  In   *)
(* FastStSemaphore the right of way goes from the first thread in line to  *)
(* those that queue, by m_waitEvent; with it goes that somebody queues.    *)

Gated == TSema \in {"FastSt", "Csev2"}

Inside == At(InGate)
Queue == At({"p_queue"})
Passing == At({"p_next"})

CsGate == TSema = "Csev2" => \A t \in Threads : m_cs = t <=> t \in Inside

EventGate ==
    TSema = "FastSt" =>
        /\ \A t, u \in Inside : t = u
        /\ m_waitEvent => Inside = {}
        /\ m_waitEvent \/ Passing # {} => Queue # {}
        /\ Queue # {} => m_waitEvent \/ Inside # {}

LEMMA GateSets ==
    ASSUME TypeInv, NEW t \in Threads, NEW to \in Places, pc' = [pc EXCEPT ![t] = to]
    PROVE  /\ Inside'  = IF to \in InGate   THEN Inside \cup {t}  ELSE Inside \ {t}
           /\ Queue'   = IF to = "p_queue"  THEN Queue \cup {t}   ELSE Queue \ {t}
           /\ Passing' = IF to = "p_next"   THEN Passing \cup {t} ELSE Passing \ {t}
  BY DEF TypeInv, TypeOK, Inside, Queue, Passing, At, InGate

\* m_waitCount tells the first thread in line, and the last.
LEMMA LineFacts ==
    ASSUME TypeInv, EventGate, TSema = "FastSt"
    PROVE  /\ m_waitCount = 0 => Inside = {} /\ Queue = {}
           /\ \A t \in Threads : pc[t] = "p_leave" => (m_waitCount > 1 <=> Queue # {})
<1> DEFINE Line == At(InLine)
<1>1. m_waitCount = Cardinality(Line) /\ IsFiniteSet(Line) /\ (Cardinality(Line) = 0 <=> Line = {})
  BY AtFinite DEF TypeInv, LineInv
<1>2. Queue \subseteq Line /\ Inside \subseteq Line \cup Passing /\ Line \subseteq Inside \cup Queue
  BY DEF Inside, Queue, Passing, At, InGate, InLine
<1>3. m_waitCount = 0 => Inside = {} /\ Queue = {}
  BY <1>1, <1>2 DEF EventGate
<1>4. ASSUME NEW t \in Threads, pc[t] = "p_leave"
      PROVE  m_waitCount > 1 <=> Queue # {}
  <2>1. t \in Line /\ t \in Inside /\ t \notin Queue
    BY <1>4 DEF Inside, Queue, At, InGate, InLine
  <2>2. Inside = {t}
    BY <2>1 DEF EventGate
  <2>3. Line = {t} <=> Queue = {}
    BY <1>2, <2>1, <2>2
  <2>4. Cardinality(Line) = 1 <=> Line = {t}
    <3>1. Cardinality(Line) = 1 <=> \E x : Line = {x}
      BY <1>1, FS_Singleton
    <3> QED
      BY <2>1, <3>1
  <2>5. Cardinality(Line) \in Nat /\ Cardinality(Line) # 0
    BY <1>1, <2>1, FS_CardinalityType
  <2> QED
    BY <1>1, <2>3, <2>4, <2>5
<1> QED
  BY <1>3, <1>4

\* The sets after a step, from the place before it and the place after it.
LEMMA GateMove ==
    ASSUME TypeInv, NEW t \in Threads, NEW from, NEW to \in Places, Goto(t, from, to)
    PROVE  /\ from \in InGate => t \in Inside
           /\ from \notin InGate => t \notin Inside
           /\ from = "p_queue" => t \in Queue
           /\ from # "p_queue" => t \notin Queue
           /\ from = "p_next" => t \in Passing
           /\ from # "p_next" => t \notin Passing
           /\ Inside'  = IF to \in InGate   THEN Inside \cup {t}  ELSE Inside \ {t}
           /\ Queue'   = IF to = "p_queue"  THEN Queue \cup {t}   ELSE Queue \ {t}
           /\ Passing' = IF to = "p_next"   THEN Passing \cup {t} ELSE Passing \ {t}
<1>1. pc[t] = from /\ pc' = [pc EXCEPT ![t] = to]
  BY DEF Goto
<1>2. /\ t \in Inside <=> from \in InGate
      /\ t \in Queue <=> from = "p_queue"
      /\ t \in Passing <=> from = "p_next"
  BY <1>1 DEF Inside, Queue, Passing, At
<1> QED
  BY <1>1, <1>2, GateSets

LEMMA EventGateStep ==
    ASSUME TypeInv, EventGate, NEW t \in Threads, TSema = "FastSt", FastStP(t)
    PROVE  EventGate'
<1> USE DEF Places, Calling, Holding, InGate, harness, gate
<1>1. CASE EnterGate(t)
  <2>1. CASE m_waitCount > 0
    <3>1. Goto(t, "p_enter", "p_queue") /\ UNCHANGED <<TSema, m_waitEvent>>
      BY <1>1, <2>1 DEF EnterGate
    <3>2. Inside' = Inside /\ Queue' = Queue \cup {t} /\ Passing' = Passing
      BY <3>1, GateMove
    <3>3. Inside # {} \/ Queue # {}
      BY <2>1, AtFinite DEF TypeInv, LineInv, Inside, Queue, At, InLine
    <3> QED
      BY <3>1, <3>2, <3>3 DEF EventGate
  <2>2. CASE m_waitCount = 0
    <3>1. Goto(t, "p_enter", "p_take") /\ UNCHANGED <<TSema, m_waitEvent>>
      BY <1>1, <2>2 DEF EnterGate
    <3>2. Inside' = Inside \cup {t} /\ Queue' = Queue /\ Passing' = Passing
      BY <3>1, GateMove
    <3>3. Inside = {} /\ Queue = {}
      BY <2>2, LineFacts
    <3> QED
      BY <3>1, <3>2, <3>3 DEF EventGate
  <2> QED
    BY <2>1, <2>2 DEF TypeInv, TypeOK
<1>2. CASE QueueAtGate(t)
  <2>1. Goto(t, "p_queue", "p_take") /\ UNCHANGED TSema /\ m_waitEvent /\ m_waitEvent' = FALSE
    BY <1>2 DEF QueueAtGate
  <2>2. Inside' = Inside \cup {t} /\ Queue' = Queue \ {t} /\ Passing' = Passing
    BY <2>1, GateMove
  <2> QED
    BY <2>1, <2>2 DEF EventGate, Inside, Passing, At
<1>3. CASE \/ TakePermit(t, IF m_count < 1 THEN "p_wait" ELSE "p_leave")
           \/ WaitEvent(t, "p_leave")
  <2>1. /\ \E from \in {"p_take", "p_wait"}, to \in {"p_wait", "p_leave"} : Goto(t, from, to)
        /\ UNCHANGED <<TSema, m_waitEvent>>
    BY <1>3 DEF TakePermit, WaitEvent, Goto
  <2>2. Inside' = Inside /\ Queue' = Queue /\ Passing' = Passing
    BY <2>1, GateMove
  <2> QED
    BY <2>1, <2>2 DEF EventGate
<1>4. CASE LeaveGate(t)
  <2>1. UNCHANGED <<TSema, m_waitEvent>> /\ pc[t] = "p_leave"
    BY <1>4 DEF LeaveGate, Goto
  <2>2. CASE m_waitCount > 1
    <3>1. Goto(t, "p_leave", "p_next")
      BY <1>4, <2>2 DEF LeaveGate
    <3>2. Inside' = Inside /\ Queue' = Queue /\ Passing' = Passing \cup {t} /\ t \in Inside
      BY <3>1, GateMove
    <3>3. Queue # {}
      BY <2>1, <2>2, LineFacts
    <3> QED
      BY <2>1, <3>2, <3>3 DEF EventGate
  <2>3. CASE ~(m_waitCount > 1)
    <3>1. Goto(t, "p_leave", "holding")
      BY <1>4, <2>3 DEF LeaveGate
    <3>2. Inside' = Inside \ {t} /\ Queue' = Queue /\ Passing' = Passing
      BY <3>1, GateMove
    <3>3. Queue = {}
      BY <2>1, <2>3, LineFacts
    <3> QED
      BY <2>1, <3>2, <3>3 DEF EventGate
  <2> QED
    BY <2>2, <2>3
<1>5. CASE OpenGate(t)
  <2>1. Goto(t, "p_next", "holding") /\ UNCHANGED TSema /\ m_waitEvent' = TRUE
    BY <1>5 DEF OpenGate
  <2>2. Inside' = Inside \ {t} /\ Queue' = Queue /\ t \in Passing /\ t \in Inside
    BY <2>1, GateMove
  <2> QED
    BY <2>1, <2>2 DEF EventGate
<1> QED
  BY <1>1, <1>2, <1>3, <1>4, <1>5 DEF FastStP

LEMMA CsGateStep ==
    ASSUME TypeInv, CsGate, NEW t \in Threads, TSema = "Csev2", Csev2P(t)
    PROVE  CsGate'
<1> USE SemaphoreAssumption DEF Places, Calling, Holding, InGate, harness, gate
<1>1. CASE EnterCs(t)
  <2>1. Goto(t, "p_enter", "p_take") /\ m_cs = None /\ m_cs' = t /\ UNCHANGED TSema
    BY <1>1 DEF EnterCs
  <2>2. Inside' = Inside \cup {t}
    BY <2>1, GateMove
  <2> QED
    BY <2>1, <2>2 DEF CsGate
<1>2. CASE \/ TakePermit(t, IF m_count < 1 THEN "p_wait" ELSE "p_leave")
           \/ WaitEvent(t, "p_leave")
  <2>1. /\ \E from \in {"p_take", "p_wait"}, to \in {"p_wait", "p_leave"} : Goto(t, from, to)
        /\ UNCHANGED <<TSema, m_cs>>
    BY <1>2 DEF TakePermit, WaitEvent, Goto
  <2>2. Inside' = Inside
    BY <2>1, GateMove
  <2> QED
    BY <2>1, <2>2 DEF CsGate
<1>3. CASE LeaveCs(t)
  <2>1. Goto(t, "p_leave", "holding") /\ m_cs' = None /\ UNCHANGED TSema
    BY <1>3 DEF LeaveCs
  <2>2. Inside' = Inside \ {t} /\ t \in Inside
    BY <2>1, GateMove
  <2> QED
    BY <2>1, <2>2 DEF CsGate
<1> QED
  BY <1>1, <1>2, <1>3 DEF Csev2P

\* What happens away from the gates.
LEMMA GateUntouched ==
    ASSUME TypeInv, NEW t \in Threads, Gated,
           \/ StartP(t) \/ Exit(t) \/ SignalEvent(t, "v_signal", "loop")
           \/ \E wakes \in BOOLEAN : AddPermits(t, wakes)
    PROVE  /\ UNCHANGED <<TSema, m_waitEvent, m_cs>>
           /\ Inside' = Inside /\ Queue' = Queue /\ Passing' = Passing
<1>1. /\ UNCHANGED <<TSema, m_waitEvent, m_cs>>
      /\ \E from \in {"loop", "holding", "v_signal"}, to \in {"p_enter", "exited", "loop", "v_signal"} :
            Goto(t, from, to)
  BY DEF StartP, FirstPlace, Gated, Exit, SignalEvent, AddPermits, Goto, harness, gate
<1> QED
  BY <1>1, GateMove DEF InGate, Places, Calling, Holding

GateInv == CsGate /\ EventGate

LEMMA GateInvStep ==
    ASSUME TypeInv, GateInv, [Next]_vars
    PROVE  GateInv'
<1>1. ASSUME NEW t \in Threads, Step(t), Gated
      PROVE  GateInv'
  <2>1. CASE \/ StartP(t) \/ Exit(t) \/ SignalEvent(t, "v_signal", "loop")
             \/ \E wakes \in BOOLEAN : AddPermits(t, wakes)
    BY <1>1, <2>1, GateUntouched DEF GateInv, CsGate, EventGate
  <2>2. CASE TSema = "FastSt" /\ FastStP(t)
    <3>1. UNCHANGED TSema
      BY <1>1, StepMoves
    <3> QED
      BY <2>2, <3>1, EventGateStep DEF GateInv, CsGate
  <2>3. CASE TSema = "Csev2" /\ Csev2P(t)
    <3>1. UNCHANGED TSema
      BY <1>1, StepMoves
    <3> QED
      BY <2>3, <3>1, CsGateStep DEF GateInv, EventGate
  <2>4. (m_count < 0) \in BOOLEAN
    OBVIOUS
  <2> QED
    BY <1>1, <2>1, <2>2, <2>3, <2>4 DEF Step, Gated, FastStV, Csev2V
<1>2. ASSUME NEW t \in Threads, Step(t), ~Gated
      PROVE  GateInv'
  BY <1>2, StepMoves DEF GateInv, CsGate, EventGate, Gated
<1>3. CASE Stop \/ UNCHANGED vars
  BY <1>3 DEF Stop, vars, harness, gate, GateInv, CsGate, EventGate, Inside, Queue, Passing, At
<1> QED
  BY <1>1, <1>2, <1>3 DEF Next

LEMMA GateInvInductive == Spec => []GateInv
<1>1. Init => GateInv
  BY SemaphoreAssumption DEF Init, GateInv, CsGate, EventGate, Inside, Queue, Passing, At, InGate
<1>2. TypeInv /\ GateInv /\ [Next]_vars => GateInv'
  BY GateInvStep
<1> QED
  BY <1>1, <1>2, TypeInvInductive, PTL DEF Spec

LEMMA OneInside ==
    ASSUME GateInv, Gated
    PROVE  \A t, u \in Inside : t = u
  BY DEF GateInv, CsGate, EventGate, Gated, Inside, At

\* Nobody queues at the gate of FastStSemaphore with no one to open it.
THEOREM GateStaysManned == Spec => []GateIsManned
<1>1. TypeInv /\ GateInv => GateIsManned
  <2> SUFFICES ASSUME TypeInv, GateInv, Queue # {}
               PROVE  m_waitEvent \/ Inside # {}
    BY DEF GateIsManned, Queue, Inside
  <2>1. TSema = "FastSt"
    BY PlacesOfClass, SemaphoreAssumption DEF TypeInv, TypeOK, PlacesInv, Queue, At
  <2> QED
    BY <2>1 DEF GateInv, EventGate
<1> QED
  BY <1>1, TypeInvInductive, GateInvInductive, PTL

-----------------------------------------------------------------------------
(* Sleepers.  Past a gate one thread at a time sleeps, and it has taken    *)
(* the count to -1.  Whoever brings the count back sets the event, once.   *)
(* In CsevSemaphore any number sleep, and the count stays in Nat.          *)

Asleep == At({"p_wait"})
Signaling == At({"v_signal"})
Awake == At({"v_signal", "p_chain", "p_take"})

Pending == m_event \/ Signaling # {}

GatedSleep ==
    Gated =>
        /\ m_count >= -1
        /\ m_count = -1 => Asleep # {}
        /\ Pending <=> (Asleep # {} /\ m_count >= 0)
        /\ \A t, u \in Signaling : t = u
        /\ Signaling # {} => ~m_event

CsevSleep ==
    TSema = "Csev" =>
        /\ m_count >= 0
        /\ Asleep # {} /\ m_count > 0 => m_event \/ Awake # {}

SleepInv == GatedSleep /\ CsevSleep

LEMMA SleepMove ==
    ASSUME TypeInv, NEW t \in Threads, NEW from, NEW to \in Places, Goto(t, from, to)
    PROVE  /\ from = "p_wait" => t \in Asleep
           /\ from # "p_wait" => t \notin Asleep
           /\ from = "v_signal" => t \in Signaling
           /\ from # "v_signal" => t \notin Signaling
           /\ Asleep'    = IF to = "p_wait"   THEN Asleep \cup {t}    ELSE Asleep \ {t}
           /\ Signaling' = IF to = "v_signal" THEN Signaling \cup {t} ELSE Signaling \ {t}
           /\ Awake' = IF to \in {"v_signal", "p_chain", "p_take"} THEN Awake \cup {t}
                                                                   ELSE Awake \ {t}
<1>1. pc[t] = from /\ pc' = [pc EXCEPT ![t] = to]
  BY DEF Goto
<1>2. /\ t \in Asleep <=> from = "p_wait"
      /\ t \in Signaling <=> from = "v_signal"
  BY <1>1 DEF Asleep, Signaling, At
<1>3. /\ Asleep'    = IF to = "p_wait"   THEN Asleep \cup {t}    ELSE Asleep \ {t}
      /\ Signaling' = IF to = "v_signal" THEN Signaling \cup {t} ELSE Signaling \ {t}
  BY <1>1 DEF TypeInv, TypeOK, Asleep, Signaling, At
<1>4. Awake' = IF to \in {"v_signal", "p_chain", "p_take"} THEN Awake \cup {t} ELSE Awake \ {t}
  BY <1>1 DEF TypeInv, TypeOK, Awake, At
<1> QED
  BY <1>2, <1>3, <1>4

\* V, of all classes: what AddPermits does to the sleepers.
LEMMA AddPermitsSleep ==
    ASSUME TypeInv, NEW t \in Threads, NEW wakes \in BOOLEAN, AddPermits(t, wakes)
    PROVE  /\ UNCHANGED <<TSema, m_event>> /\ m_count' > m_count /\ m_count' \in Int
           /\ Asleep' = Asleep /\ t \notin Signaling
           /\ Signaling' = IF wakes THEN Signaling \cup {t} ELSE Signaling
           /\ wakes => Awake' = Awake \cup {t}
           /\ ~wakes => Awake' = Awake \ {t}
<1>1. UNCHANGED <<TSema, m_event>> /\ m_count' > m_count /\ m_count' \in Int
  BY SemaphoreAssumption DEF AddPermits, TypeInv, TypeOK, harness, gate
<1>2. CASE wakes
  <2>1. \E from \in {"holding", "loop"} : Goto(t, from, "v_signal")
    BY <1>2 DEF AddPermits
  <2> QED
    BY <1>1, <1>2, <2>1, SleepMove DEF Places
<1>3. CASE ~wakes
  <2>1. \E from \in {"holding", "loop"} : Goto(t, from, "loop")
    BY <1>3 DEF AddPermits
  <2> QED
    BY <1>1, <1>3, <2>1, SleepMove DEF Places
<1> QED
  BY <1>2, <1>3

LEMMA GatedSleepStep ==
    ASSUME TypeInv, GateInv, GatedSleep, Gated, UNCHANGED TSema, NEW t \in Threads,
           FastStP(t) \/ FastStV(t) \/ Csev2P(t) \/ Csev2V(t)
    PROVE  GatedSleep'
<1> USE DEF Places, Calling, Holding, harness, gate
<1>1. m_count \in Int /\ m_event \in BOOLEAN
  BY DEF TypeInv, TypeOK
<1>2. CASE TakePermit(t, IF m_count < 1 THEN "p_wait" ELSE "p_leave")
  <2>1. m_count' = m_count - 1 /\ UNCHANGED m_event /\ pc[t] = "p_take"
    BY <1>2 DEF TakePermit, Goto
  <2>2. Asleep = {}
    BY <2>1, OneInside DEF Inside, Asleep, At, InGate
  <2>3. CASE m_count < 1
    <3>1. Goto(t, "p_take", "p_wait")
      BY <1>2, <2>3 DEF TakePermit
    <3>2. Asleep' = Asleep \cup {t} /\ Signaling' = Signaling
      BY <3>1, SleepMove
    <3> QED
      BY <1>1, <2>1, <2>2, <2>3, <3>2 DEF GatedSleep, Pending
  <2>4. CASE ~(m_count < 1)
    <3>1. Goto(t, "p_take", "p_leave")
      BY <1>2, <2>4 DEF TakePermit
    <3>2. Asleep' = Asleep /\ Signaling' = Signaling
      BY <3>1, SleepMove
    <3> QED
      BY <1>1, <2>1, <2>2, <2>4, <3>2 DEF GatedSleep, Pending
  <2> QED
    BY <2>3, <2>4
<1>3. CASE WaitEvent(t, "p_leave")
  <2>1. m_event /\ m_event' = FALSE /\ UNCHANGED m_count /\ Goto(t, "p_wait", "p_leave")
    BY <1>3 DEF WaitEvent
  <2>2. Asleep' = Asleep \ {t} /\ Signaling' = Signaling /\ t \in Asleep
    BY <2>1, SleepMove
  <2>3. \A u \in Asleep : u = t
    BY <2>2, OneInside DEF Inside, Asleep, At, InGate
  <2> QED
    BY <1>1, <2>1, <2>2, <2>3 DEF GatedSleep, Pending
<1>4. CASE AddPermits(t, m_count < 0)
  <2>1. (m_count < 0) \in BOOLEAN
    OBVIOUS
  <2>2. /\ UNCHANGED m_event /\ m_count' > m_count /\ m_count' \in Int
        /\ Asleep' = Asleep /\ t \notin Signaling
        /\ Signaling' = IF m_count < 0 THEN Signaling \cup {t} ELSE Signaling
    BY <1>4, <2>1, AddPermitsSleep
  <2>3. CASE m_count < 0
    <3>1. m_count = -1 /\ Asleep # {} /\ ~Pending /\ Signaling' = {t} /\ m_count' >= 0
      BY <1>1, <2>2, <2>3 DEF GatedSleep, Pending
    <3> QED
      BY <2>2, <3>1 DEF GatedSleep, Pending
  <2>4. CASE ~(m_count < 0)
    BY <1>1, <2>2, <2>4 DEF GatedSleep, Pending
  <2> QED
    BY <2>3, <2>4
<1>5. CASE SignalEvent(t, "v_signal", "loop")
  <2>1. m_event' = TRUE /\ UNCHANGED m_count /\ Goto(t, "v_signal", "loop")
    BY <1>5 DEF SignalEvent
  <2>2. Asleep' = Asleep /\ Signaling' = Signaling \ {t} /\ t \in Signaling
    BY <2>1, SleepMove
  <2> QED
    BY <1>1, <2>1, <2>2 DEF GatedSleep, Pending
<1>6. CASE EnterGate(t) \/ QueueAtGate(t) \/ LeaveGate(t) \/ OpenGate(t) \/ EnterCs(t) \/ LeaveCs(t)
  <2>1. /\ UNCHANGED <<m_count, m_event>>
        /\ \E from \in {"p_enter", "p_queue", "p_leave", "p_next"},
              to \in {"p_queue", "p_take", "p_next", "holding"} : Goto(t, from, to)
    BY <1>6 DEF EnterGate, QueueAtGate, LeaveGate, OpenGate, EnterCs, LeaveCs, Goto
  <2>2. Asleep' = Asleep /\ Signaling' = Signaling
    BY <2>1, SleepMove
  <2> QED
    BY <2>1, <2>2 DEF GatedSleep, Pending, Gated
<1> QED
  BY <1>2, <1>3, <1>4, <1>5, <1>6 DEF FastStP, FastStV, Csev2P, Csev2V

LEMMA CsevSleepStep ==
    ASSUME TypeInv, CsevSleep, TSema = "Csev", UNCHANGED TSema, NEW t \in Threads,
           CsevP(t) \/ CsevV(t)
    PROVE  CsevSleep'
<1> USE DEF Places, Calling, Holding, harness, gate
<1>1. m_count \in Int /\ m_event \in BOOLEAN
  BY DEF TypeInv, TypeOK
<1>2. CASE m_count > 0 /\ TakePermit(t, IF m_count > 1 THEN "p_chain" ELSE "holding")
  <2>1. m_count' = m_count - 1 /\ UNCHANGED m_event
    BY <1>2 DEF TakePermit
  <2>2. CASE m_count > 1
    <3>1. Goto(t, "p_take", "p_chain")
      BY <1>2, <2>2 DEF TakePermit
    <3>2. Awake' = Awake \cup {t}
      BY <3>1, SleepMove
    <3> QED
      BY <1>1, <2>1, <2>2, <3>2 DEF CsevSleep
  <2>3. CASE m_count = 1
    BY <1>1, <2>1, <2>3 DEF CsevSleep
  <2> QED
    BY <1>1, <1>2, <2>2, <2>3
<1>3. CASE m_count <= 0 /\ UNCHANGED m_count
  BY <1>1, <1>3 DEF CsevSleep
<1>4. CASE WaitEvent(t, "p_take")
  <2>1. Goto(t, "p_wait", "p_take") /\ UNCHANGED m_count
    BY <1>4 DEF WaitEvent
  <2>2. Awake' = Awake \cup {t}
    BY <2>1, SleepMove
  <2> QED
    BY <2>1, <2>2 DEF CsevSleep
<1>5. CASE SignalEvent(t, "p_chain", "holding") \/ SignalEvent(t, "v_signal", "loop")
  BY <1>5 DEF SignalEvent, CsevSleep
<1>6. CASE AddPermits(t, m_count <= 0)
  <2>1. (m_count <= 0) \in BOOLEAN
    OBVIOUS
  <2>2. /\ UNCHANGED m_event /\ m_count' > m_count /\ m_count' \in Int
        /\ Asleep' = Asleep
        /\ m_count <= 0 => Awake' = Awake \cup {t}
        /\ ~(m_count <= 0) => Awake' = Awake \ {t}
    BY <1>6, <2>1, AddPermitsSleep
  <2>3. pc[t] \in {"holding", "loop"}
    BY <1>6 DEF AddPermits, Goto
  <2>4. t \notin Awake
    BY <2>3 DEF Awake, At
  <2> QED
    BY <1>1, <2>2, <2>4 DEF CsevSleep
<1> QED
  BY <1>2, <1>3, <1>4, <1>5, <1>6 DEF CsevP, CsevV

LEMMA SleepInvStep ==
    ASSUME TypeInv, GateInv, SleepInv, [Next]_vars
    PROVE  SleepInv'
<1>1. ASSUME NEW t \in Threads, StartP(t) \/ Exit(t)
      PROVE  SleepInv'
  <2>1. UNCHANGED <<TSema, m_count, m_event>>
    BY <1>1 DEF StartP, Exit, harness
  <2>2. CASE TSema \in {"Csev", "FastSt", "Csev2"}
    <3>1. \E to \in {"p_take", "p_enter", "exited"} : Goto(t, "loop", to)
      BY <1>1, <2>2 DEF StartP, Exit, FirstPlace
    <3>2. /\ Asleep' = Asleep /\ Signaling' = Signaling
          /\ Awake' = Awake \/ Awake' = Awake \cup {t}
      <4>1. t \notin Awake
        BY <3>1 DEF Goto, Awake, At
      <4> QED
        BY <3>1, <4>1, SleepMove DEF Places, Calling
    <3> QED
      BY <2>1, <3>2 DEF SleepInv, GatedSleep, CsevSleep, Gated, Pending
  <2>3. CASE TSema = "Unslow"
    BY <2>1, <2>3 DEF SleepInv, GatedSleep, CsevSleep, Gated
  <2> QED
    BY <2>2, <2>3, SemaphoreAssumption DEF TypeInv, TypeOK
<1>2. ASSUME NEW t \in Threads, Step(t), ~(StartP(t) \/ Exit(t))
      PROVE  SleepInv'
  <2>1. UNCHANGED TSema
    BY <1>2, StepMoves
  <2>2. CASE Gated
    <3>1. FastStP(t) \/ FastStV(t) \/ Csev2P(t) \/ Csev2V(t)
      BY <1>2, <2>2 DEF Step, Gated
    <3> QED
      BY <2>1, <2>2, <3>1, GatedSleepStep DEF SleepInv, CsevSleep, Gated
  <2>3. CASE TSema = "Csev"
    BY <1>2, <2>1, <2>3, CsevSleepStep DEF Step, SleepInv, GatedSleep, Gated
  <2>4. CASE TSema = "Unslow"
    BY <2>1, <2>4 DEF SleepInv, GatedSleep, CsevSleep, Gated
  <2> QED
    BY <2>2, <2>3, <2>4, SemaphoreAssumption DEF TypeInv, TypeOK, Gated
<1>3. CASE Stop \/ UNCHANGED vars
  BY <1>3 DEF Stop, vars, harness, gate, SleepInv, GatedSleep, CsevSleep, Gated, Pending, Asleep,
     Signaling, Awake, At
<1> QED
  BY <1>1, <1>2, <1>3 DEF Next

LEMMA SleepInvInductive == Spec => []SleepInv
<1>1. Init => SleepInv
  <2> SUFFICES ASSUME Init PROVE SleepInv
    OBVIOUS
  <2>1. Asleep = {} /\ Signaling = {}
    BY DEF Init, Asleep, Signaling, At
  <2>2. m_count \in Nat /\ (Gated => ~m_event)
    BY SemaphoreAssumption DEF Init, Gated
  <2> QED
    BY <2>1, <2>2 DEF SleepInv, GatedSleep, CsevSleep, Pending
<1>2. TypeInv /\ GateInv /\ SleepInv /\ [Next]_vars => SleepInv'
  BY SleepInvStep
<1> QED
  BY <1>1, <1>2, TypeInvInductive, GateInvInductive, PTL DEF Spec

\* No lost wakeup in the three classes that count: while permits are there, a
\* thread sleeps only if the event is set, or is about to be, or if a thread
\* that is awake is about to take a permit and look for another.
THEOREM SleepersAreWoken == Spec => []SleeperIsWoken
<1>1. TypeInv /\ SleepInv => SleeperIsWoken
  <2> SUFFICES ASSUME TypeInv, SleepInv, Counts, Asleep # {},
                      IF TSema = "Csev" THEN m_count > 0 ELSE m_count >= 0
               PROVE  m_event \/ Awake # {}
    BY DEF SleeperIsWoken, Asleep, Awake
  <2>1. Signaling \subseteq Awake
    BY DEF Signaling, Awake, At
  <2>2. TSema = "Csev" \/ Gated
    BY SemaphoreAssumption DEF TypeInv, TypeOK, Counts, Gated
  <2> QED
    BY <2>1, <2>2 DEF SleepInv, GatedSleep, CsevSleep, Pending, Gated
<1> QED
  BY <1>1, TypeInvInductive, SleepInvInductive, PTL

\* One thread at a time is past the gate, and only a sleeper keeps the count
\* below zero.
THEOREM OneThreadPastTheGate == Spec => []OneThreadInGate
<1>1. TypeInv /\ GateInv /\ SleepInv => OneThreadInGate
  <2> SUFFICES ASSUME TypeInv, GateInv, SleepInv, Gated
               PROVE  Cardinality(Inside) <= 1 /\ m_count >= 0 - Cardinality(Asleep)
    BY DEF OneThreadInGate, Inside, Asleep, Gated
  <2>1. Cardinality(Inside) <= 1
    BY OneInside, AtMostOne
  <2>2. Cardinality(Asleep) \in Nat /\ (Cardinality(Asleep) = 0 <=> Asleep = {})
    BY AtFinite DEF Asleep
  <2>3. m_count >= 0 - Cardinality(Asleep)
    BY <2>2 DEF SleepInv, GatedSleep, TypeInv, TypeOK
  <2> QED
    BY <2>1, <2>3
<1> QED
  BY <1>1, TypeInvInductive, GateInvInductive, SleepInvInductive, PTL

-----------------------------------------------------------------------------
(* Permits: those that are left, and those that threads have or (past a    *)
(* gate) wait for, are the permits there have ever been.                   *)

Permitted(sema) == IF sema = "Csev" THEN Holding ELSE Holding \cup {"p_wait"}

CountInv == Counts => m_count + Cardinality(At(Permitted(TSema))) = InitialCount + given

\* A step that keeps the account of the threads at S.
Has(place, S) == IF place \in S THEN 1 ELSE 0

Balanced(t, S) ==
    \E from, to \in Places :
        Goto(t, from, to) /\ m_count' + Has(to, S) + given = m_count + Has(from, S) + given'

LEMMA BalancedStep ==
    ASSUME TypeInv, NEW S, NEW t \in Threads, Balanced(t, S), m_count' \in Int, given' \in Int,
           m_count + Cardinality(At(S)) = InitialCount + given
    PROVE  m_count' + Cardinality(At(S)') = InitialCount + given'
<1>1. PICK from \in Places, to \in Places :
          Goto(t, from, to) /\ m_count' + Has(to, S) + given = m_count + Has(from, S) + given'
  BY DEF Balanced
<1>2. pc[t] = from /\ pc' = [pc EXCEPT ![t] = to]
  BY <1>1 DEF Goto
<1>3. /\ Cardinality(At(S)') = Cardinality(At(S)) + Has(to, S) - Has(from, S)
      /\ Cardinality(At(S)) \in Nat
  BY <1>2, CountStep, AtFinite DEF TypeInv, TypeOK, Has
<1>4. m_count \in Int /\ given \in Int /\ InitialCount \in Int
  BY SemaphoreAssumption DEF TypeInv, TypeOK
<1>5. CASE to \in S /\ from \in S
  BY <1>1, <1>3, <1>4, <1>5 DEF Has
<1>6. CASE to \in S /\ from \notin S
  BY <1>1, <1>3, <1>4, <1>6 DEF Has
<1>7. CASE to \notin S /\ from \in S
  <2>1. Cardinality(At(S)') = Cardinality(At(S)) - 1
    BY <1>3, <1>7 DEF Has
  <2>2. m_count' + given = m_count + 1 + given'
    BY <1>1, <1>4, <1>7 DEF Has
  <2> QED
    BY <1>3, <1>4, <2>1, <2>2
<1>8. CASE to \notin S /\ from \notin S
  BY <1>1, <1>3, <1>4, <1>8 DEF Has
<1> QED
  BY <1>5, <1>6, <1>7, <1>8

\* Steps that touch neither the count nor who has a permit.
LEMMA BalancedIdle ==
    ASSUME TypeInv, NEW S, NEW t \in Threads, NEW from \in Places, NEW to \in Places,
           Goto(t, from, to), from \in S <=> to \in S, UNCHANGED <<m_count, given>>
    PROVE  Balanced(t, S)
  BY DEF Balanced, Has

LEMMA BalancedV ==
    ASSUME TypeInv, NEW S, NEW t \in Threads, NEW wakes \in BOOLEAN, AddPermits(t, wakes),
           "holding" \in S, "loop" \notin S, "v_signal" \notin S
    PROVE  Balanced(t, S)
<1> USE DEF Places, Calling, Holding, harness
<1> DEFINE to == IF wakes THEN "v_signal" ELSE "loop"
<1>1. m_count \in Int /\ given \in Int /\ to \in Places /\ to \notin S
  BY DEF TypeInv, TypeOK
<1>2. CASE Goto(t, "holding", to) /\ m_count' = m_count + 1 /\ UNCHANGED given
  BY <1>1, <1>2 DEF Balanced, Has
<1>3. ASSUME NEW delta \in Int, Goto(t, "loop", to), m_count' = m_count + delta,
             given' = given + delta
      PROVE  Balanced(t, S)
  BY <1>1, <1>3 DEF Balanced, Has
<1>4. \A delta \in 1..(MaxGiven - given) : delta \in Int
  BY <1>1, SemaphoreAssumption
<1> QED
  BY <1>2, <1>3, <1>4 DEF AddPermits

LEMMA GatedBalanced ==
    ASSUME TypeInv, NEW t \in Threads, FastStP(t) \/ FastStV(t) \/ Csev2P(t) \/ Csev2V(t)
    PROVE  Balanced(t, Holding \cup {"p_wait"})
<1> USE DEF Places, Calling, Holding, harness, gate
<1>1. CASE TakePermit(t, IF m_count < 1 THEN "p_wait" ELSE "p_leave")
  <2>1. \E to \in {"p_wait", "p_leave"} : Goto(t, "p_take", to)
    BY <1>1 DEF TakePermit
  <2>2. m_count' = m_count - 1 /\ UNCHANGED given /\ m_count \in Int /\ given \in Int
    BY <1>1 DEF TakePermit, TypeInv, TypeOK
  <2> QED
    BY <2>1, <2>2 DEF Balanced, Has
<1>2. CASE AddPermits(t, m_count < 0)
  <2>1. (m_count < 0) \in BOOLEAN
    OBVIOUS
  <2> QED
    BY <1>2, <2>1, BalancedV
<1>3. CASE WaitEvent(t, "p_leave") \/ SignalEvent(t, "v_signal", "loop")
  BY <1>3, BalancedIdle DEF WaitEvent, SignalEvent
<1>4. CASE EnterGate(t) \/ QueueAtGate(t) \/ EnterCs(t)
  <2>1. UNCHANGED <<m_count, given>> /\ \E from \in {"p_enter", "p_queue"},
                                           to \in {"p_queue", "p_take"} : Goto(t, from, to)
    BY <1>4 DEF EnterGate, QueueAtGate, EnterCs, Goto
  <2> QED
    BY <2>1, BalancedIdle
<1>5. CASE LeaveGate(t) \/ OpenGate(t) \/ LeaveCs(t)
  <2>1. UNCHANGED <<m_count, given>> /\ \E from \in {"p_leave", "p_next"},
                                           to \in {"p_next", "holding"} : Goto(t, from, to)
    BY <1>5 DEF LeaveGate, OpenGate, LeaveCs, Goto
  <2> QED
    BY <2>1, BalancedIdle
<1> QED
  BY <1>1, <1>2, <1>3, <1>4, <1>5 DEF FastStP, FastStV, Csev2P, Csev2V

LEMMA CsevBalanced ==
    ASSUME TypeInv, NEW t \in Threads, CsevP(t) \/ CsevV(t)
    PROVE  Balanced(t, Holding)
<1> USE DEF Places, Calling, Holding, harness, gate
<1>1. CASE TakePermit(t, IF m_count > 1 THEN "p_chain" ELSE "holding")
  <2>1. \E to \in {"p_chain", "holding"} : Goto(t, "p_take", to)
    BY <1>1 DEF TakePermit
  <2>2. m_count' = m_count - 1 /\ UNCHANGED given /\ m_count \in Int /\ given \in Int
    BY <1>1 DEF TakePermit, TypeInv, TypeOK
  <2> QED
    BY <2>1, <2>2 DEF Balanced, Has
<1>2. CASE Goto(t, "p_take", "p_wait") /\ UNCHANGED <<harness, m_count, m_event, gate>>
  BY <1>2, BalancedIdle
<1>3. CASE \/ WaitEvent(t, "p_take") \/ SignalEvent(t, "p_chain", "holding")
           \/ SignalEvent(t, "v_signal", "loop")
  BY <1>3, BalancedIdle DEF WaitEvent, SignalEvent
<1>4. CASE AddPermits(t, m_count <= 0)
  <2>1. (m_count <= 0) \in BOOLEAN
    OBVIOUS
  <2> QED
    BY <1>4, <2>1, BalancedV
<1> QED
  BY <1>1, <1>2, <1>3, <1>4 DEF CsevP, CsevV

LEMMA CountInvStep ==
    ASSUME TypeInv, CountInv, [Next]_vars
    PROVE  CountInv'
<1> SUFFICES ASSUME Counts'
             PROVE  CountInv'
  BY DEF CountInv
<1>1. ASSUME NEW t \in Threads, Step(t)
      PROVE  CountInv'
  <2> DEFINE S == Permitted(TSema)
  <2>1. UNCHANGED TSema
    BY <1>1, StepMoves
  <2>2. Counts
    BY <2>1 DEF Counts
  <2>3. CASE StartP(t) \/ Exit(t)
    <3>1. /\ \E to \in {"p_take", "p_enter", "exited"} : Goto(t, "loop", to)
          /\ UNCHANGED <<m_count, given>>
      BY <2>2, <2>3, SemaphoreAssumption
         DEF StartP, Exit, FirstPlace, harness, Counts, TypeInv, TypeOK
    <3>2. CASE TSema = "Csev"
      <4>1. Balanced(t, Holding)
        BY <3>1, BalancedIdle DEF Places, Calling, Holding
      <4> QED
        BY <2>1, <2>2, <3>1, <3>2, <4>1, BalancedStep DEF CountInv, Permitted, TypeInv, TypeOK
    <3>3. CASE TSema # "Csev"
      <4>1. Balanced(t, Holding \cup {"p_wait"})
        BY <3>1, BalancedIdle DEF Places, Calling, Holding
      <4> QED
        BY <2>1, <2>2, <3>1, <3>3, <4>1, BalancedStep DEF CountInv, Permitted, TypeInv, TypeOK
    <3> QED
      BY <3>2, <3>3
  <2>4. m_count' \in Int /\ given' \in Int
    BY <1>1, StepTyped DEF DataOK
  <2>5. CASE TSema = "Csev" /\ (CsevP(t) \/ CsevV(t))
    <3>1. m_count' + Cardinality(At(Holding)') = InitialCount + given'
      BY <2>2, <2>4, <2>5, CsevBalanced, BalancedStep DEF CountInv, Permitted
    <3> QED
      BY <2>1, <2>5, <3>1 DEF CountInv, Permitted
  <2>6. CASE Gated /\ (FastStP(t) \/ FastStV(t) \/ Csev2P(t) \/ Csev2V(t))
    <3>1. m_count' + Cardinality(At(Holding \cup {"p_wait"})') = InitialCount + given'
      BY <2>2, <2>4, <2>6, GatedBalanced, BalancedStep DEF CountInv, Permitted, Gated
    <3> QED
      BY <2>1, <2>6, <3>1 DEF CountInv, Permitted, Gated
  <2> QED
    BY <1>1, <2>2, <2>3, <2>5, <2>6 DEF Step, Gated, Counts
<1>2. CASE Stop \/ UNCHANGED vars
  BY <1>2 DEF Stop, vars, harness, gate, CountInv, Counts, Permitted, At
<1> QED
  BY <1>1, <1>2 DEF Next

LEMMA CountInvInductive == Spec => []CountInv
<1>1. Init => CountInv
  <2> SUFFICES ASSUME Init PROVE m_count + Cardinality(At(Permitted(TSema))) = InitialCount + given
    BY DEF CountInv
  <2>1. At(Permitted(TSema)) = {}
    BY DEF Init, Permitted, Holding, At
  <2> QED
    BY <2>1, FS_EmptySet, SemaphoreAssumption DEF Init
<1>2. TypeInv /\ CountInv /\ [Next]_vars => CountInv'
  BY CountInvStep
<1> QED
  BY <1>1, <1>2, TypeInvInductive, PTL DEF Spec

\* No permit is handed out twice: never do more threads have one than there
\* have ever been.
THEOREM NoPermitTwice == Spec => []PermitsRespected
<1>1. TypeInv /\ SleepInv /\ CountInv => PermitsRespected
  <2> SUFFICES ASSUME TypeInv, SleepInv, CountInv, Counts
               PROVE  Cardinality(At(Holding)) <= InitialCount + given
    BY DEF PermitsRespected
  <2> DEFINE Paid == At(Permitted(TSema))
  <2>1. /\ m_count \in Int /\ given \in Int /\ InitialCount \in Int
        /\ Cardinality(Paid) \in Nat /\ IsFiniteSet(Paid) /\ Cardinality(At(Holding)) \in Nat
        /\ m_count + Cardinality(Paid) = InitialCount + given
    BY AtFinite, SemaphoreAssumption DEF TypeInv, TypeOK, CountInv
  <2>2. At(Holding) \subseteq Paid
    BY DEF At, Permitted
  <2>3. CASE m_count >= 0
    <3>1. Cardinality(At(Holding)) <= Cardinality(Paid)
      BY <2>1, <2>2, FS_Subset
    <3> QED
      BY <2>1, <2>3, <3>1
  <2>4. CASE m_count < 0
    <3>1. Gated /\ m_count = -1 /\ Asleep # {}
      BY <2>1, <2>4, SemaphoreAssumption
         DEF SleepInv, GatedSleep, CsevSleep, Gated, Counts, TypeInv, TypeOK
    <3>2. PICK t \in Asleep : TRUE
      BY <3>1
    <3>3. t \in Paid /\ At(Holding) \subseteq Paid \ {t}
      BY <2>2, <3>1, <3>2 DEF Asleep, At, Permitted, Holding, Gated
    <3>4. Cardinality(Paid \ {t}) = Cardinality(Paid) - 1 /\ IsFiniteSet(Paid \ {t})
      BY <2>1, <3>3, FS_RemoveElement
    <3>5. Cardinality(At(Holding)) <= Cardinality(Paid) - 1
      BY <3>3, <3>4, FS_Subset
    <3> QED
      BY <2>1, <3>1, <3>5
  <2> QED
    BY <2>1, <2>3, <2>4
<1> QED
  BY <1>1, TypeInvInductive, SleepInvInductive, CountInvInductive, PTL

\* A SemaMutex over a class that counts is a mutex: of a semaphore with one
\* permit there is one owner.
THEOREM SemaMutexIsExclusive == Spec => [](Counts => SemaMutexExcludes)
<1>1. PermitsRespected => (Counts => SemaMutexExcludes)
  BY DEF PermitsRespected, SemaMutexExcludes
<1> QED
  BY <1>1, NoPermitTwice, PTL

-----------------------------------------------------------------------------
(* CsevSemaphore, FastStSemaphore and Csev2Semaphore implement the abstract *)
(* counting semaphore.  A thread of CsevSemaphore has its permit when it   *)
(* has brought the count down; past a gate one that brings it down to -1   *)
(* has it when the event wakes it.                                         *)

\* The variables that the refinement mapping gives to CountingSemaphore.
Waiting == {t \in At(Calling) : Counts}
Abstraction == <<AbstractCount, Waiting>>

LEMMA CountIs ==
    ASSUME TypeInv
    PROVE  /\ AbstractCount \in Int
           /\ TSema = "Csev" => AbstractCount = m_count
           /\ TSema = "Unslow" => AbstractCount = InitialCount
           /\ Gated => AbstractCount = m_count + Cardinality(Asleep)
  BY AtFinite, SemaphoreAssumption DEF AbstractCount, Asleep, Gated, TypeInv, TypeOK

LEMMA WaitingMove ==
    ASSUME TypeInv, Counts, UNCHANGED TSema, NEW t \in Threads, NEW from, NEW to \in Places,
           Goto(t, from, to)
    PROVE  /\ t \in Waiting <=> from \in Calling
           /\ Waiting' = IF to \in Calling THEN Waiting \cup {t} ELSE Waiting \ {t}
  BY DEF TypeInv, TypeOK, Goto, Waiting, At, Counts

\* What a move does to the abstract count of a class with a gate.
LEMMA GatedCount ==
    ASSUME TypeInv, Gated, UNCHANGED TSema, NEW t \in Threads, NEW from, NEW to,
           Goto(t, from, to), m_count' \in Int
    PROVE  AbstractCount' = AbstractCount + (m_count' - m_count)
                                          + Has(to, {"p_wait"}) - Has(from, {"p_wait"})
<1>1. pc[t] = from /\ pc' = [pc EXCEPT ![t] = to]
  BY DEF Goto
<1>2. /\ Cardinality(At({"p_wait"})') = Cardinality(At({"p_wait"})) + Has(to, {"p_wait"})
                                                                    - Has(from, {"p_wait"})
      /\ Cardinality(At({"p_wait"})) \in Nat
  BY <1>1, CountStep, AtFinite DEF TypeInv, TypeOK, Has
<1>3. AbstractCount = m_count + Cardinality(At({"p_wait"}))
  BY CountIs DEF Asleep
<1>4. AbstractCount' = m_count' + Cardinality(At({"p_wait"})')
  BY DEF AbstractCount, Gated
<1>5. m_count \in Int
  BY DEF TypeInv, TypeOK
<1> QED
  BY <1>2, <1>3, <1>4, <1>5 DEF Has

-----------------------------------------------------------------------------
(* The three steps of the abstract semaphore, and the stutter.             *)

LEMMA Calls ==
    ASSUME NEW t \in Threads, t \notin Waiting, Waiting' = Waiting \cup {t},
           AbstractCount' = AbstractCount
    PROVE  Abstract!Next
  BY DEF Abstract!Next, Abstract!CallP, Waiting

LEMMA Returns ==
    ASSUME NEW t \in Threads, t \in Waiting, Waiting' = Waiting \ {t},
           AbstractCount > 0, AbstractCount' = AbstractCount - 1
    PROVE  Abstract!Next
  BY DEF Abstract!Next, Abstract!ReturnFromP, Waiting

LEMMA Gives ==
    ASSUME Waiting' = Waiting, AbstractCount' > AbstractCount
    PROVE  Abstract!Next
  BY DEF Abstract!Next, Abstract!V, Waiting

\* Within P before the permit is there, and away from P, nobody starts to wait
\* or stops.
LEMMA WaitingStays ==
    ASSUME TypeInv, Counts, UNCHANGED TSema, NEW t \in Threads, NEW from, NEW to \in Places,
           Goto(t, from, to), from \in Calling <=> to \in Calling
    PROVE  Waiting' = Waiting
<1>1. CASE to \in Calling
  BY <1>1, WaitingMove
<1>2. CASE to \notin Calling
  BY <1>2, WaitingMove
<1> QED
  BY <1>1, <1>2

-----------------------------------------------------------------------------
Mapped == Abstract!Next \/ UNCHANGED Abstraction

LEMMA StartMaps ==
    ASSUME TypeInv, Counts, NEW t \in Threads, StartP(t) \/ Exit(t)
    PROVE  Mapped
<1>1. UNCHANGED <<TSema, m_count>>
  BY DEF StartP, Exit, harness
<1>2. PICK to \in {"p_take", "p_enter", "exited"} : Goto(t, "loop", to)
  BY SemaphoreAssumption DEF StartP, Exit, FirstPlace, Counts, TypeInv, TypeOK
<1>3. to \in Places /\ (to \in Calling <=> to # "exited") /\ "loop" \notin Calling
  BY DEF Places, Calling
<1>4. AbstractCount' = AbstractCount
  <2>1. CASE TSema = "Csev"
    BY <1>1, <2>1 DEF AbstractCount
  <2>2. CASE Gated
    BY <1>1, <1>2, <2>2, GatedCount, CountIs DEF Has, TypeInv, TypeOK
  <2> QED
    BY <2>1, <2>2, SemaphoreAssumption DEF TypeInv, TypeOK, Counts, Gated
<1>5. CASE to = "exited"
  <2>1. Waiting' = Waiting
    BY <1>1, <1>2, <1>3, <1>5, WaitingStays
  <2> QED
    BY <1>4, <2>1 DEF Mapped, Abstraction
<1>6. CASE to # "exited"
  <2>1. t \notin Waiting /\ Waiting' = Waiting \cup {t}
    BY <1>1, <1>2, <1>3, <1>6, WaitingMove
  <2> QED
    BY <1>4, <2>1, Calls DEF Mapped
<1> QED
  BY <1>5, <1>6

\* V, of the three classes.
LEMMA AddPermitsMaps ==
    ASSUME TypeInv, Counts, NEW t \in Threads, NEW wakes \in BOOLEAN, AddPermits(t, wakes)
    PROVE  Mapped
<1>1. UNCHANGED TSema /\ m_count' > m_count /\ m_count' \in Int /\ m_count \in Int
  BY AddPermitsSleep DEF TypeInv, TypeOK
<1>2. PICK from \in {"holding", "loop"}, to \in {"v_signal", "loop"} : Goto(t, from, to)
  BY DEF AddPermits
<1>3. Waiting' = Waiting
  BY <1>1, <1>2, WaitingStays DEF Places, Calling
<1>4. AbstractCount' > AbstractCount
  <2>1. CASE TSema = "Csev"
    BY <1>1, <2>1 DEF AbstractCount
  <2>2. CASE Gated
    BY <1>1, <1>2, <2>2, GatedCount, CountIs DEF Has
  <2> QED
    BY <2>1, <2>2, SemaphoreAssumption DEF TypeInv, TypeOK, Counts, Gated
<1> QED
  BY <1>3, <1>4, Gives DEF Mapped

LEMMA CsevMaps ==
    ASSUME TypeInv, TSema = "Csev", NEW t \in Threads, CsevP(t) \/ CsevV(t)
    PROVE  Mapped
<1> USE DEF Places, Calling, Holding, harness
<1>1. Counts /\ m_count \in Int
  BY DEF Counts, TypeInv, TypeOK
<1>2. CASE m_count > 0 /\ TakePermit(t, IF m_count > 1 THEN "p_chain" ELSE "holding")
  <2>1. PICK to \in {"p_chain", "holding"} : Goto(t, "p_take", to)
    BY <1>2 DEF TakePermit
  <2>2. m_count' = m_count - 1 /\ UNCHANGED TSema
    BY <1>2 DEF TakePermit
  <2>3. t \in Waiting /\ Waiting' = Waiting \ {t}
    BY <1>1, <2>1, <2>2, WaitingMove
  <2>4. AbstractCount > 0 /\ AbstractCount' = AbstractCount - 1
    BY <1>1, <1>2, <2>2 DEF AbstractCount
  <2> QED
    BY <2>3, <2>4, Returns DEF Mapped
<1>3. CASE \/ Goto(t, "p_take", "p_wait") /\ UNCHANGED <<harness, m_count, m_event, gate>>
           \/ WaitEvent(t, "p_take")
           \/ SignalEvent(t, "p_chain", "holding") \/ SignalEvent(t, "v_signal", "loop")
  <2>1. /\ UNCHANGED <<TSema, m_count>>
        /\ \/ Goto(t, "p_take", "p_wait") \/ Goto(t, "p_wait", "p_take")
           \/ Goto(t, "p_chain", "holding") \/ Goto(t, "v_signal", "loop")
    BY <1>3 DEF WaitEvent, SignalEvent
  <2>2. Waiting' = Waiting
    BY <1>1, <2>1, WaitingStays
  <2>3. AbstractCount' = AbstractCount
    BY <2>1 DEF AbstractCount
  <2> QED
    BY <2>2, <2>3 DEF Mapped, Abstraction
<1>4. CASE AddPermits(t, m_count <= 0)
  <2>1. (m_count <= 0) \in BOOLEAN
    OBVIOUS
  <2> QED
    BY <1>1, <1>4, <2>1, AddPermitsMaps
<1> QED
  BY <1>2, <1>3, <1>4 DEF CsevP, CsevV

\* The permit a sleeper wakes up to is there: only one sleeps, and the count it
\* took to -1 has been brought back.
LEMMA WokenReturns ==
    ASSUME TypeInv, GateInv, SleepInv, Gated, NEW t \in Threads, WaitEvent(t, "p_leave")
    PROVE  Mapped
<1>1. Counts /\ m_count \in Int
  BY DEF Counts, Gated, TypeInv, TypeOK
<1>2. m_event /\ UNCHANGED <<TSema, m_count>> /\ Goto(t, "p_wait", "p_leave")
  BY DEF WaitEvent, harness
<1>3. t \in Waiting /\ Waiting' = Waiting \ {t}
  BY <1>1, <1>2, WaitingMove DEF Places, Calling, Holding
<1>4. m_count >= 0 /\ Asleep # {}
  BY <1>2 DEF SleepInv, GatedSleep, Pending
<1>5. Cardinality(Asleep) \in Nat /\ Cardinality(Asleep) # 0
  BY <1>4, AtFinite DEF Asleep
<1>6. AbstractCount > 0
  BY <1>1, <1>4, <1>5, CountIs
<1>7. AbstractCount' = AbstractCount - 1
  BY <1>1, <1>2, GatedCount, CountIs DEF Has
<1> QED
  BY <1>3, <1>6, <1>7, Returns DEF Mapped

LEMMA GatedTakeMaps ==
    ASSUME TypeInv, Gated, NEW t \in Threads,
           TakePermit(t, IF m_count < 1 THEN "p_wait" ELSE "p_leave")
    PROVE  Mapped
<1> USE DEF Places, Calling, Holding
<1>1. Counts /\ m_count \in Int /\ AbstractCount \in Int
  BY CountIs DEF Counts, Gated, TypeInv, TypeOK
<1>2. m_count' = m_count - 1 /\ UNCHANGED TSema
  BY DEF TakePermit, harness
<1>3. CASE m_count < 1
  <2>1. Goto(t, "p_take", "p_wait")
    BY <1>3 DEF TakePermit
  <2>2. Waiting' = Waiting
    BY <1>1, <1>2, <2>1, WaitingStays
  <2>3. AbstractCount' = AbstractCount
    BY <1>1, <1>2, <2>1, GatedCount DEF Has
  <2> QED
    BY <2>2, <2>3 DEF Mapped, Abstraction
<1>4. CASE ~(m_count < 1)
  <2>1. Goto(t, "p_take", "p_leave")
    BY <1>4 DEF TakePermit
  <2>2. t \in Waiting /\ Waiting' = Waiting \ {t}
    BY <1>1, <1>2, <2>1, WaitingMove
  <2>3. AbstractCount' = AbstractCount - 1
    BY <1>1, <1>2, <2>1, GatedCount DEF Has
  <2>4. AbstractCount > 0
    BY <1>1, <1>4, CountIs, AtFinite DEF Asleep
  <2> QED
    BY <2>2, <2>3, <2>4, Returns DEF Mapped
<1> QED
  BY <1>3, <1>4

LEMMA GatedMaps ==
    ASSUME TypeInv, GateInv, SleepInv, Gated, NEW t \in Threads,
           FastStP(t) \/ FastStV(t) \/ Csev2P(t) \/ Csev2V(t)
    PROVE  Mapped
<1>1. Counts /\ m_count \in Int /\ AbstractCount \in Int
  BY CountIs DEF Counts, Gated, TypeInv, TypeOK
<1>2. CASE EnterGate(t) \/ QueueAtGate(t) \/ EnterCs(t) \/ LeaveGate(t) \/ OpenGate(t) \/ LeaveCs(t)
           \/ SignalEvent(t, "v_signal", "loop")
  <2>1. UNCHANGED <<TSema, m_count>>
    BY <1>2 DEF EnterGate, QueueAtGate, EnterCs, LeaveGate, OpenGate, LeaveCs, SignalEvent, harness
  <2>2. PICK from \in Places \ {"p_wait"}, to \in Places \ {"p_wait"} :
            Goto(t, from, to) /\ (from \in Calling <=> to \in Calling)
    <3>1. \/ \E from \in {"p_enter", "p_queue"}, to \in {"p_queue", "p_take"} : Goto(t, from, to)
          \/ \E from \in {"p_leave", "p_next", "v_signal"}, to \in {"p_next", "holding", "loop"} :
                Goto(t, from, to)
      BY <1>2 DEF EnterGate, QueueAtGate, EnterCs, LeaveGate, OpenGate, LeaveCs, SignalEvent, Goto
    <3> QED
      BY <3>1 DEF Places, Calling, Holding
  <2>3. Waiting' = Waiting
    BY <1>1, <2>1, <2>2, WaitingStays
  <2>4. AbstractCount' = AbstractCount
    BY <1>1, <2>1, <2>2, GatedCount DEF Has
  <2> QED
    BY <2>3, <2>4 DEF Mapped, Abstraction
<1>3. CASE AddPermits(t, m_count < 0)
  <2>1. (m_count < 0) \in BOOLEAN
    OBVIOUS
  <2> QED
    BY <1>1, <1>3, <2>1, AddPermitsMaps
<1> QED
  BY <1>2, <1>3, WokenReturns, GatedTakeMaps DEF FastStP, FastStV, Csev2P, Csev2V

LEMMA StepMaps ==
    ASSUME TypeInv, GateInv, SleepInv, [Next]_vars
    PROVE  Mapped
<1>1. ASSUME NEW t \in Threads, Step(t), Counts
      PROVE  Mapped
  BY <1>1, StartMaps, CsevMaps, GatedMaps DEF Step, Counts, Gated
<1>2. ASSUME NEW t \in Threads, Step(t), ~Counts
      PROVE  Mapped
  BY <1>2, StepMoves DEF Mapped, Abstraction, AbstractCount, Waiting, Counts
<1>3. CASE Stop \/ UNCHANGED vars
  BY <1>3 DEF Stop, vars, harness, gate, Mapped, Abstraction, AbstractCount, Waiting, At, Counts
<1> QED
  BY <1>1, <1>2, <1>3 DEF Next

\* P and V of the three classes that count do what P and V of the abstract
\* semaphore do: P takes one permit that nobody else has, at one point between
\* its call and its return, and V makes permits available.
THEOREM SemaphoresImplementTheirs == Spec => ImplementsSemaphore
<1>1. Init => Abstract!Init
  <2> SUFFICES ASSUME Init PROVE Abstract!Init
    OBVIOUS
  <2>1. At(Calling) = {} /\ At({"p_wait"}) = {}
    BY DEF Init, At, Calling
  <2>2. AbstractCount = InitialCount
    BY <2>1, FS_EmptySet, SemaphoreAssumption DEF Init, AbstractCount
  <2> QED
    BY <2>1, <2>2 DEF Abstract!Init
<1>2. TypeInv /\ GateInv /\ SleepInv /\ [Next]_vars => [Abstract!Next]_Abstraction
  BY StepMaps DEF Mapped
<1> QED
  BY <1>1, <1>2, TypeInvInductive, GateInvInductive, SleepInvInductive, PTL
     DEF Spec, ImplementsSemaphore, Abstract!Spec, Waiting, Abstraction
=============================================================================
