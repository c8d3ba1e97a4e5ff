--------------------------- MODULE QueueCountsProofs ---------------------------
(***************************************************************************)
(* What the counts of the queueing mutexes count, for any finite set of    *)
(* threads: m_readerCount the readers that came in past the queue, m_sema  *)
(* and m_cohortCount the permits and the members of a cohort; and what     *)
(* follows for the second lock and the signal of the last reader.  It all  *)
(* rests on OwnerInv of QueueMutexesProofs: who owns the two locks.        *)
(***************************************************************************)
EXTENDS QueueMutexesProofs

\* A set of threads that one thread may enter or leave.
LEMMA OneMember ==
    ASSUME NEW S \in SUBSET Threads, NEW R \in SUBSET Threads, NEW t \in Threads,
           \A u \in Threads \ {t} : u \in R <=> u \in S
    PROVE  /\ Cardinality(S) \in Nat /\ Cardinality(R) \in Nat
           /\ Cardinality(R) = Cardinality(S) + (IF t \in R THEN 1 ELSE 0)
                                              - (IF t \in S THEN 1 ELSE 0)
           /\ t \in S => Cardinality(S) >= 1
           /\ Cardinality(S) = 0 <=> S = {}
           /\ Cardinality(S) = 1 /\ t \in S => S = {t}
<1>1. IsFiniteSet(S) /\ IsFiniteSet(R) /\ IsFiniteSet(S \ {t})
  BY QueueAssumption, FS_Subset
<1>2. /\ Cardinality(S) \in Nat /\ Cardinality(R) \in Nat /\ Cardinality(S \ {t}) \in Nat
      /\ Cardinality(S) = 0 <=> S = {}
      /\ Cardinality(S \ {t}) = 0 <=> S \ {t} = {}
  BY <1>1, FS_CardinalityType, FS_EmptySet
<1>3. Cardinality(S \cup {t}) = IF t \in S THEN Cardinality(S) ELSE Cardinality(S) + 1
  BY <1>1, FS_AddElement
<1>4. Cardinality(S \ {t}) = IF t \in S THEN Cardinality(S) - 1 ELSE Cardinality(S)
  BY <1>1, FS_RemoveElement
<1>5. (t \in R => R = S \cup {t}) /\ (t \notin R => R = S \ {t})
  OBVIOUS
<1>6. Cardinality(R) = Cardinality(S) + (IF t \in R THEN 1 ELSE 0) - (IF t \in S THEN 1 ELSE 0)
  <2>1. CASE t \in R
    <3>1. Cardinality(R) = Cardinality(S \cup {t})
      BY <1>5, <2>1
    <3> QED
      BY <1>2, <1>3, <2>1, <3>1
  <2>2. CASE t \notin R
    <3>1. Cardinality(R) = Cardinality(S \ {t})
      BY <1>5, <2>2
    <3> QED
      BY <1>2, <1>4, <2>2, <3>1
  <2> QED
    BY <2>1, <2>2
<1>7. Cardinality(S) = 1 /\ t \in S => S = {t}
  BY <1>2, <1>4
<1>8. t \in S => Cardinality(S) >= 1
  BY <1>2
<1> QED
  BY <1>2, <1>6, <1>7, <1>8

LEMMA Finite ==
    ASSUME NEW S \in SUBSET Threads
    PROVE  IsFiniteSet(S) /\ Cardinality(S) \in Nat /\ (Cardinality(S) = 0 <=> S = {})
<1>1. IsFiniteSet(S)
  BY QueueAssumption, FS_Subset
<1> QED
  BY <1>1, FS_CardinalityType, FS_EmptySet

LEMMA OwnerStep ==
    ASSUME OwnerInv, NEW t \in Threads, Step(t)
    PROVE  /\ OwnerInv' /\ OnlyMoves(t) /\ UNCHANGED TMutex
           /\ TMutex \notin SingleClasses =>
                    Moves(t) /\ \A u \in Threads \ {t} : pc'[u] = pc[u]
           /\ \A u \in Threads \ {t} : /\ isFirstReader'[u] = isFirstReader[u]
                                       /\ isLocked'[u] = isLocked[u] /\ i'[u] = i[u]
                                       /\ readerOrder'[u] = readerOrder[u]
                                       /\ cohortCount'[u] = cohortCount[u]
<1>1. OwnerInv'
  BY NextOwner DEF Next
<1>2. OnlyMoves(t)
  BY StepKeepsTyped DEF OwnerInv
<1> QED
  BY <1>1, <1>2 DEF OnlyMoves, FlagsOfOthers, QueueOfOthers, CohortOfOthers, Roused

-----------------------------------------------------------------------------
(* m_readerCount counts the readers that have come in by way of the queue  *)
(* and not yet left; a reader that waits for the second lock is the only   *)
(* one, since it holds up the queue.                                       *)

GroupClasses == {"Fair"} \cup FirstClasses

Counts(t) == IF TMutex = "Ticketed" THEN isLocked[t]
                                    ELSE pc[t] \in {"rl_writer", "rl_unqueue", "reading"}
Counted == {t \in Threads : Counts(t)}
InGroup(t) == Counts(t) /\ pc[t] # "rl_writer"

CountInv == TMutex \in GroupClasses =>
    /\ m_readerCount = Cardinality(Counted)
    /\ \A t \in Threads : pc[t] = "rl_writer" => Counted = {t}

\* What a step of thread t does to the count.
CountMove(t) ==
    \/ UNCHANGED m_readerCount /\ (Counts(t)' <=> Counts(t)) /\ pc'[t] # "rl_writer"
    \/ /\ m_readerCount' = m_readerCount + 1 /\ pc[t] = "rl_count"
       /\ ~Counts(t) /\ Counts(t)'
       /\ pc'[t] = "rl_writer" => m_readerCount = 0
    \/ /\ m_readerCount' = m_readerCount - 1
       /\ InGroup(t) /\ ~Counts(t)' /\ pc'[t] # "rl_writer"

LEMMA CountsOfOthers ==
    ASSUME OwnerInv, NEW t \in Threads, Step(t), TMutex \in GroupClasses
    PROVE  \A u \in Threads \ {t} : /\ Counts(u)' <=> Counts(u)
                                    /\ InGroup(u)' <=> InGroup(u)
<1>1. TMutex \notin SingleClasses
  BY DEF GroupClasses, FirstClasses, SingleClasses
<1> QED
  BY <1>1, OwnerStep DEF Counts, InGroup

LEMMA CountKept ==
    ASSUME OwnerInv, CountInv, NEW t \in Threads, Step(t),
           TMutex \in GroupClasses => CountMove(t)
    PROVE  CountInv'
<1> SUFFICES ASSUME TMutex \in GroupClasses
             PROVE  CountInv'
  BY OwnerStep DEF CountInv
<1>1. UNCHANGED TMutex /\ \A u \in Threads \ {t} : pc'[u] = pc[u] /\ (Counts(u)' <=> Counts(u))
  BY OwnerStep, CountsOfOthers DEF GroupClasses, FirstClasses, SingleClasses
<1>2. \A u \in Threads : pc[u] = "rl_count" \/ pc[u] = "rl_writer" => m_csQueue = u
  BY QueuePlacesOfClass DEF OwnerInv, QueueInv, GroupClasses, FirstClasses
<1>3. m_readerCount = Cardinality(Counted)
      /\ \A u \in Threads : pc[u] = "rl_writer" => Counted = {u}
  BY DEF CountInv
<1>4. /\ Cardinality(Counted') = Cardinality(Counted) + (IF t \in Counted' THEN 1 ELSE 0)
                                                      - (IF t \in Counted THEN 1 ELSE 0)
      /\ Cardinality(Counted) = 0 <=> Counted = {}
      /\ Cardinality(Counted) \in Nat
  <2>1. Counted \in SUBSET Threads /\ Counted' \in SUBSET Threads
    BY DEF Counted
  <2>2. \A u \in Threads \ {t} : u \in Counted' <=> u \in Counted
    BY <1>1 DEF Counted
  <2> QED
    BY <2>1, <2>2, OneMember
<1>5. (t \in Counted <=> Counts(t)) /\ (t \in Counted' <=> Counts(t)')
  BY DEF Counted
<1>6. m_readerCount' = Cardinality(Counted')
  BY <1>3, <1>4, <1>5 DEF CountMove, InGroup
<1>7. ASSUME NEW u \in Threads, pc'[u] = "rl_writer"
      PROVE  Counted' = {u}
  <2>1. CASE u = t
    BY <1>1, <1>3, <1>4, <1>5, <1>7, <2>1 DEF CountMove, Counted
  <2>2. CASE u # t
    <3>1. Counted = {u} /\ pc[t] # "rl_count" /\ ~Counts(t)
      BY <1>1, <1>2, <1>3, <1>7, <2>2, <1>5
    <3> QED
      BY <1>1, <1>5, <2>2, <3>1 DEF CountMove, InGroup, Counted
  <2> QED
    BY <2>1, <2>2
<1> QED
  BY <1>1, <1>6, <1>7 DEF CountInv

LEMMA CountFacts ==
    ASSUME CountInv, TMutex \in GroupClasses, NEW t \in Threads
    PROVE  /\ m_readerCount = 0 <=> \A u \in Threads : ~Counts(u)
           /\ m_readerCount = 1 /\ Counts(t) => \A u \in Threads \ {t} : ~Counts(u)
           /\ m_readerCount # 1 /\ Counts(t) => \E u \in Threads \ {t} : Counts(u)
           /\ \A u, v \in Threads : pc[u] = "rl_writer" /\ Counts(v) => u = v
<1>1. m_readerCount = Cardinality(Counted) /\ Counted \in SUBSET Threads
      /\ \A u \in Threads : pc[u] = "rl_writer" => Counted = {u}
  BY DEF CountInv, Counted
<1>2. \A u \in Threads : u \in Counted <=> Counts(u)
  BY DEF Counted
<1>3. /\ Cardinality(Counted) = 0 <=> Counted = {}
      /\ Cardinality(Counted) = 1 /\ t \in Counted => Counted = {t}
  BY <1>1, OneMember
<1>4. Cardinality({t}) = 1
  BY FS_Singleton
<1>5. m_readerCount # 1 /\ Counts(t) => Counted # {t}
  BY <1>1, <1>4
<1> HIDE DEF Counted
<1> QED
  BY <1>1, <1>2, <1>3, <1>5

-----------------------------------------------------------------------------
(* FairCs and Ticketed: the first reader of a group owns the second lock   *)
(* until the group is out, and the last one signals it if it waits.        *)

GroupHeld == m_cs # None /\ isFirstReader[m_cs] /\ pc[m_cs] # "ru_release"
Waits == \E t \in Threads : pc[t] = "ru_wait"
Signalled == m_lastLockedReaderEvent \/ \E t \in Threads : pc[t] = "ru_last"

FirstInv == TMutex \in FirstClasses =>
    /\ \A t \in Threads : InGroup(t) => GroupHeld
    /\ Signalled <=> Waits /\ \A t \in Threads : ~InGroup(t)
    /\ m_lastLockedReaderEvent => \A t \in Threads : pc[t] # "ru_last"
    /\ \A t, u \in Threads : pc[t] = "ru_last" /\ pc[u] = "ru_last" => t = u

\* What a step of thread t does to the group.
Turns == {"rl_writer", "ru_wait", "ru_last", "ru_release"}
KeepsGroup(t) == /\ UNCHANGED m_readerCount /\ (Counts(t)' <=> Counts(t))
                 /\ pc'[t] # "rl_writer"
KeepsLock(t) == UNCHANGED m_cs /\ isFirstReader'[t] = isFirstReader[t]

PassesBy(t) ==
    /\ KeepsGroup(t) /\ UNCHANGED m_lastLockedReaderEvent
    /\ pc[t] \notin Turns /\ pc'[t] \notin Turns
    /\ isFirstReader'[t] = isFirstReader[t]
    /\ \/ UNCHANGED m_cs
       \/ m_cs = None
       \/ m_cs = t /\ ~isFirstReader[t]
Joins(t) ==
    /\ UNCHANGED m_lastLockedReaderEvent /\ KeepsLock(t)
    /\ m_readerCount' = m_readerCount + 1
    /\ pc[t] = "rl_count" /\ ~Counts(t) /\ Counts(t)'
    /\ IF m_readerCount = 0 THEN pc'[t] = "rl_writer" ELSE pc'[t] \notin Turns
TakesLock(t) ==
    /\ KeepsGroup(t) /\ UNCHANGED m_lastLockedReaderEvent
    /\ pc[t] = "rl_writer" /\ pc'[t] \notin Turns
    /\ m_cs = None /\ m_cs' = t /\ isFirstReader'[t]
Leaves(t) ==
    /\ UNCHANGED m_lastLockedReaderEvent /\ KeepsLock(t)
    /\ m_readerCount' = m_readerCount - 1
    /\ pc[t] \notin Turns /\ Counts(t) /\ ~Counts(t)'
    /\ \/ isFirstReader[t]  /\ pc'[t] = IF m_readerCount = 1 THEN "ru_release" ELSE "ru_wait"
       \/ ~isFirstReader[t] /\ IF m_readerCount = 1 THEN pc'[t] = "ru_last" ELSE pc'[t] \notin Turns
Signals(t) ==
    /\ KeepsGroup(t) /\ KeepsLock(t) /\ m_lastLockedReaderEvent'
    /\ pc[t] = "ru_last" /\ pc'[t] \notin Turns
IsSignalled(t) ==
    /\ KeepsGroup(t) /\ KeepsLock(t) /\ m_lastLockedReaderEvent /\ ~m_lastLockedReaderEvent'
    /\ pc[t] = "ru_wait" /\ pc'[t] = "ru_release"
DropsLock(t) ==
    /\ KeepsGroup(t) /\ UNCHANGED m_lastLockedReaderEvent
    /\ pc[t] = "ru_release" /\ pc'[t] \notin Turns
    /\ m_cs' = None /\ ~isFirstReader'[t]

FirstMove(t) == \/ PassesBy(t) \/ Joins(t) \/ TakesLock(t) \/ Leaves(t)
                \/ Signals(t) \/ IsSignalled(t) \/ DropsLock(t)

LEMMA FairCsFirstMoves ==
    ASSUME OwnerInv, NEW t \in Threads, FairCsStep(t), Step(t)
    PROVE  FirstMove(t)
<1>1. TMutex = "FairCs" /\ TMutex' = "FairCs"
  BY OwnerStep DEF FairCsStep
<1>2. pc \in [Threads -> Places] /\ isFirstReader \in [Threads -> BOOLEAN]
  BY DEF OwnerInv, Typed, PcTyped, QueueTyped
<1>3. /\ Counts(t) <=> pc[t] \in {"rl_writer", "rl_unqueue", "reading"}
      /\ Counts(t)' <=> pc'[t] \in {"rl_writer", "rl_unqueue", "reading"}
  BY <1>1 DEF Counts
<1>4. pc[t] \in {"tls_leave", "writing"} => m_cs = t /\ ~isFirstReader[t]
  BY <1>1, CsPlacesOfClass DEF OwnerInv, CsInv, OwnsCs, MarksInv, FirstOk
<1> HIDE DEF Counts, OwnerInv
<1> USE <1>2, <1>3, <1>4 DEF KeepsGroup, KeepsLock, Turns, PassesBy, FirstMove, Goto, queue, first,
       flags, locks
<1>5. CASE FairCsWriteLock(t) \/ FairCsWriteUnlock(t)
  BY <1>5 DEF FairCsWriteLock, FairCsWriteUnlock, EnterQueue, LeaveQueue, EnterWriter, LeaveWriter,
     EnterCs, LeaveCs
<1>6. CASE FairCsReadLock(t)
  <2>1. CASE CountReader(t, "rl_writer", "rl_unqueue") /\ UNCHANGED flags
    BY <2>1 DEF CountReader, Joins
  <2>2. CASE EnterWriterFirst(t, "rl_writer", "rl_unqueue")
    BY <2>2 DEF EnterWriterFirst, EnterCs, TakesLock
  <2>3. CASE InitTlsDataQueued(t, "rl_queue")
    BY <2>3 DEF InitTlsDataQueued, PushTlsData, EnterQueue, LeaveQueue, EnterWriter, LeaveWriter,
       EnterCs, LeaveCs
  <2> QED
    BY <1>6, <2>1, <2>2, <2>3 DEF FairCsReadLock, EnterQueue, LeaveQueue
<1>7. CASE FairCsReadUnlock(t)
  <2>1. CASE /\ IF isFirstReader[t] THEN UncountReader(t, "reading", "ru_release", "ru_wait")
                                    ELSE UncountReader(t, "reading", "ru_last", "loop")
             /\ UNCHANGED flags
    BY <2>1 DEF UncountReader, Leaves
  <2>2. CASE LeaveWriterFirst(t, "ru_release", "loop")
    BY <2>2 DEF LeaveWriterFirst, LeaveCs, DropsLock
  <2>3. CASE SignalFirstReader(t, "ru_last", "loop")
    BY <2>3 DEF SignalFirstReader, Signals
  <2>4. CASE WaitForLastReader(t, "ru_wait", "ru_release")
    BY <2>4 DEF WaitForLastReader, IsSignalled
  <2> QED
    BY <1>7, <2>1, <2>2, <2>3, <2>4 DEF FairCsReadUnlock
<1> QED
  BY <1>5, <1>6, <1>7 DEF FairCsStep

LEMMA TicketedFirstMoves ==
    ASSUME OwnerInv, NEW t \in Threads, TicketedStep(t), Step(t)
    PROVE  FirstMove(t)
<1>1. TMutex = "Ticketed" /\ TMutex' = "Ticketed"
  BY OwnerStep DEF TicketedStep
<1>2. /\ pc \in [Threads -> Places] /\ isFirstReader \in [Threads -> BOOLEAN]
      /\ isLocked \in [Threads -> BOOLEAN]
  BY DEF OwnerInv, Typed, PcTyped, QueueTyped, FlagsTyped
<1>3. (Counts(t) <=> isLocked[t]) /\ (Counts(t)' <=> isLocked'[t])
  BY <1>1 DEF Counts
<1>4. pc[t] \in {"tls_leave", "wu_leave"} => m_cs = t /\ ~isFirstReader[t]
  BY <1>1, CsPlacesOfClass DEF OwnerInv, CsInv, OwnsCs, MarksInv, FirstOk
<1>5. (pc[t] = "rl_count" => ~isLocked[t]) /\ (pc[t] = "ru_count" => isLocked[t])
  BY <1>1 DEF OwnerInv, MarksInv, LockedOk
<1> HIDE DEF Counts, OwnerInv
<1> USE <1>2, <1>3, <1>4, <1>5 DEF KeepsGroup, KeepsLock, Turns, FirstMove, Goto, queue, first,
       flags, locks
<1>6. CASE TicketedWriteLock(t) \/ TicketedWriteUnlock(t)
  BY <1>6 DEF TicketedWriteLock, TicketedWriteUnlock, EnterQueue, LeaveQueue, EnterWriter, EnterCs,
     LeaveCs, RequestQueued, ScanReaders, FinishScan, PassReader, FindReader, WaitReaderDone,
     ClearRequest, DrawTicket, PassesBy
<1>7. CASE TicketedReadLock(t)
  <2>1. CASE JoinQueued(t)
    BY <2>1 DEF JoinQueued, CountReader, Joins
  <2>2. CASE EnterWriterFirst(t, "rl_writer", "rl_ticket")
    BY <2>2 DEF EnterWriterFirst, EnterCs, TakesLock
  <2>3. CASE InitTlsDataQueued(t, "rl_raise")
    BY <2>3 DEF InitTlsDataQueued, PushTlsData, EnterQueue, LeaveQueue, EnterWriter, LeaveWriter,
       EnterCs, LeaveCs, PassesBy
  <2>4. CASE LoadLastTicket(t) \/ CheckTicket(t) \/ StoreTicket(t)
             \/ DrawTicket(t, 1, "rl_ticket", "rl_store")
    BY <2>4 DEF LoadLastTicket, CheckTicket, DrawTicket, StoreTicket, PassesBy
  <2>5. CASE EnterQueue(t, "rl_queue", "rl_count") \/ LeaveQueue(t, "rl_unqueue", "reading")
    BY <2>5 DEF EnterQueue, LeaveQueue, PassesBy
  <2>6. ASSUME UNCHANGED queue,
               \/ StoreFlag(t, TRUE, "rl_raise", "rl_last")
               \/ StoreFlag(t, FALSE, "rl_yield", "rl_signal")
               \/ SetReaderDone(t, "rl_signal", "rl_queue")
               \/ StoreFlag(t, TRUE, "rl_reraise", "rl_unqueue")
        PROVE  FirstMove(t)
    BY <2>6 DEF StoreFlag, SetReaderDone, PassesBy
  <2> HIDE DEF FirstMove, queue
  <2> QED
    BY <1>7, <2>1, <2>2, <2>3, <2>4, <2>5, <2>6 DEF TicketedReadLock
<1>8. CASE TicketedReadUnlock(t)
  <2>1. CASE LeaveQueued(t)
    BY <2>1 DEF LeaveQueued, UncountReader, Leaves
  <2>2. CASE LeaveWriterFirst(t, "ru_release", "ru_check")
    BY <2>2 DEF LeaveWriterFirst, LeaveCs, DropsLock
  <2>3. CASE SignalFirstReader(t, "ru_last", "ru_check")
    BY <2>3 DEF SignalFirstReader, Signals
  <2>4. CASE WaitForLastReader(t, "ru_wait", "ru_release")
    BY <2>4 DEF WaitForLastReader, IsSignalled
  <2>5. ASSUME UNCHANGED queue,
               \/ StoreFlag(t, FALSE, "reading", IF isLocked[t] THEN "ru_count" ELSE "ru_check")
               \/ CheckRequest(t, "ru_check", "ru_signal", "loop")
               \/ SetReaderDone(t, "ru_signal", "loop")
        PROVE  FirstMove(t)
    BY <2>5 DEF StoreFlag, CheckRequest, SetReaderDone, PassesBy
  <2> HIDE DEF FirstMove, queue
  <2> QED
    BY <1>8, <2>1, <2>2, <2>3, <2>4, <2>5 DEF TicketedReadUnlock
<1> QED
  BY <1>6, <1>7, <1>8 DEF TicketedStep

\* Where the first reader of a group is, and that it owns the second lock.
LEMMA FirstFacts ==
    ASSUME OwnerInv, TMutex \in FirstClasses, NEW u \in Threads
    PROVE  /\ isFirstReader[u] => m_cs = u
           /\ isFirstReader[u] => InGroup(u) \/ pc[u] \in {"ru_wait", "ru_release"}
           /\ pc[u] \in {"ru_wait", "ru_release"} => isFirstReader[u]
           /\ pc[u] \in {"ru_wait", "ru_last", "ru_release"} => ~Counts(u)
           /\ pc[u] = "rl_writer" => Counts(u)
           /\ u # None
<1>1. isFirstReader[u] => m_cs = u
  BY DEF OwnerInv, CsInv, OwnsCs, FirstClasses
<1>2. FirstOk(u) /\ LockedOk(u) /\ pc[u] \in PlacesOf(TMutex)
  BY DEF OwnerInv, MarksInv, PlacesInv
<1>3. CASE TMutex = "FairCs"
  BY <1>1, <1>2, <1>3, FairCsPlaces, NoneAssumption DEF PlacesOf, FirstOk, InGroup, Counts, FirstClasses
<1>4. CASE TMutex = "Ticketed"
  BY <1>1, <1>2, <1>4, NoneAssumption DEF FirstOk, LockedOk, InGroup, Counts, FirstClasses
<1> QED
  BY <1>3, <1>4 DEF FirstClasses

LEMMA FirstKept ==
    ASSUME OwnerInv, CountInv, FirstInv, TMutex \in FirstClasses, NEW t \in Threads, Step(t),
           FirstMove(t)
    PROVE  CountInv' /\ FirstInv'
<1>1. CountMove(t)
  BY DEF FirstMove, CountMove, PassesBy, Joins, TakesLock, Leaves, Signals, IsSignalled, DropsLock,
     KeepsGroup, KeepsLock, InGroup, Turns
<1>2. CountInv'
  BY <1>1, CountKept
<1>3. OwnerInv' /\ TMutex' \in FirstClasses
  BY OwnerStep
<1> DEFINE Facts(u) == /\ isFirstReader[u] => m_cs = u
                       /\ isFirstReader[u] => InGroup(u) \/ pc[u] \in {"ru_wait", "ru_release"}
                       /\ pc[u] \in {"ru_wait", "ru_release"} => isFirstReader[u]
                       /\ pc[u] \in {"ru_wait", "ru_last", "ru_release"} => ~Counts(u)
                       /\ pc[u] = "rl_writer" => Counts(u)
                       /\ u # None
<1>4. \A u \in Threads : Facts(u)
  BY FirstFacts
<1>5. pc \in [Threads -> Places] /\ pc' \in [Threads -> Places]
  BY <1>3 DEF OwnerInv, Typed, PcTyped
<1>6. /\ \A u \in Threads : InGroup(u) <=> Counts(u) /\ pc[u] # "rl_writer"
      /\ \A u \in Threads : InGroup(u)' <=> Counts(u)' /\ pc'[u] # "rl_writer"
  BY DEF InGroup
<1>7. \A u \in Threads \ {t} : /\ pc'[u] = pc[u] /\ isFirstReader'[u] = isFirstReader[u]
                               /\ (Counts(u)' <=> Counts(u)) /\ (InGroup(u)' <=> InGroup(u))
  <2>1. TMutex \notin SingleClasses /\ TMutex \in GroupClasses
    BY DEF FirstClasses, SingleClasses, GroupClasses
  <2>2. \A u \in Threads \ {t} : pc'[u] = pc[u] /\ isFirstReader'[u] = isFirstReader[u]
    BY <2>1, OwnerStep
  <2>3. \A u \in Threads \ {t} : (Counts(u)' <=> Counts(u)) /\ (InGroup(u)' <=> InGroup(u))
    BY <2>1, CountsOfOthers
  <2> QED
    BY <2>2, <2>3
<1>8. /\ m_cs \in Threads \cup {None} /\ m_lastLockedReaderEvent \in BOOLEAN
      /\ m_cs' \in Threads \cup {None} /\ m_lastLockedReaderEvent' \in BOOLEAN
  BY <1>3 DEF OwnerInv, Typed, FlagsTyped, QueueTyped
<1>9. /\ m_readerCount = 0 <=> \A u \in Threads : ~Counts(u)
      /\ m_readerCount = 1 /\ Counts(t) => \A u \in Threads \ {t} : ~Counts(u)
      /\ m_readerCount # 1 /\ Counts(t) => \E u \in Threads \ {t} : Counts(u)
      /\ \A u, v \in Threads : pc[u] = "rl_writer" /\ Counts(v) => u = v
  BY CountFacts DEF GroupClasses
<1>10. FirstInv
  OBVIOUS
<1> HIDE DEF InGroup, Counts
<1> USE <1>4, <1>5, <1>6, <1>7, <1>8, <1>9 DEF FirstInv, GroupHeld, Waits, Signalled
<1>11. PassesBy(t) => FirstInv'
  BY DEF PassesBy, KeepsGroup, Turns
<1>12. Joins(t) => FirstInv'
  <2>1. pc[t] = "rl_count" => \A u \in Threads : pc[u] # "rl_writer"
    BY QueuePlacesOfClass DEF OwnerInv, QueueInv, FirstClasses
  <2> QED
    BY <2>1 DEF Joins, KeepsLock, Turns
<1>13. TakesLock(t) => FirstInv'
  BY DEF TakesLock, KeepsGroup, Turns
<1>14. Leaves(t) => FirstInv'
  BY DEF Leaves, KeepsLock, Turns
<1>15. Signals(t) => FirstInv'
  BY DEF Signals, KeepsGroup, KeepsLock, Turns
<1>16. IsSignalled(t) => FirstInv'
  BY DEF IsSignalled, KeepsGroup, KeepsLock, Turns
<1>17. DropsLock(t) => FirstInv'
  BY DEF DropsLock, KeepsGroup, KeepsLock, Turns
<1> QED
  BY <1>2, <1>11, <1>12, <1>13, <1>14, <1>15, <1>16, <1>17 DEF FirstMove

-----------------------------------------------------------------------------
(* Fair: the second lock is a semaphore that belongs to the whole group of *)
(* readers, to the reader that returns it for the group, or to a writer.   *)

HoldsAlone(t) == pc[t] \in {"wl_unqueue", "wl_assert", "writing", "ru_release"}

FairInv == TMutex = "Fair" =>
    /\ m_cs = None <=> \A t \in Threads : ~InGroup(t) /\ ~HoldsAlone(t)
    /\ \A t, u \in Threads : ~(InGroup(t) /\ HoldsAlone(u))
    /\ \A t, u \in Threads : HoldsAlone(t) /\ HoldsAlone(u) => t = u

LEMMA FairKept ==
    ASSUME OwnerInv, CountInv, FairInv, NEW t \in Threads, FairStep(t), Step(t)
    PROVE  CountInv' /\ FairInv'
<1>1. TMutex = "Fair" /\ TMutex' = "Fair" /\ TMutex \in GroupClasses
  BY OwnerStep DEF FairStep, GroupClasses
<1>2. pc \in [Threads -> Places] /\ m_cs \in Threads \cup {None} /\ t # None
  BY NoneAssumption DEF OwnerInv, Typed, PcTyped, FlagsTyped
<1>3. /\ \A u \in Threads : Counts(u) <=> pc[u] \in {"rl_writer", "rl_unqueue", "reading"}
      /\ \A u \in Threads : InGroup(u) <=> pc[u] \in {"rl_unqueue", "reading"}
      /\ \A u \in Threads : Counts(u)' <=> pc'[u] \in {"rl_writer", "rl_unqueue", "reading"}
      /\ \A u \in Threads : InGroup(u)' <=> pc'[u] \in {"rl_unqueue", "reading"}
  BY <1>1 DEF Counts, InGroup
<1>4. /\ m_readerCount = 0 <=> \A u \in Threads : ~Counts(u)
      /\ m_readerCount = 1 /\ Counts(t) => \A u \in Threads \ {t} : ~Counts(u)
      /\ m_readerCount # 1 /\ Counts(t) => \E u \in Threads \ {t} : Counts(u)
      /\ \A u, v \in Threads : pc[u] = "rl_writer" /\ Counts(v) => u = v
  BY <1>1, CountFacts
<1>5. pc[t] = "rl_count" => \A u \in Threads : pc[u] # "rl_writer"
  BY <1>1, QueuePlacesOfClass DEF OwnerInv, QueueInv
<1> HIDE DEF OwnerInv, Counts, InGroup
<1> DEFINE Kept == CountMove(t) /\ FairInv'
<1> USE <1>1, <1>2, <1>3, <1>4, <1>5 DEF FairInv, HoldsAlone, CountMove, Goto, queue, flags, locks
<1>6. FairWriteLock(t) \/ FairWriteUnlock(t) => Kept
  BY DEF FairWriteLock, FairWriteUnlock, EnterQueue, LeaveQueue, EnterWriter, LeaveWriter, EnterCs,
     LeaveCs
<1>7. FairReadLock(t) => Kept
  BY DEF FairReadLock, EnterQueue, LeaveQueue, EnterWriter, EnterCs, CountReader
<1>8. UncountReader(t, "reading", "ru_release", "loop") /\ UNCHANGED flags => Kept
  BY DEF UncountReader
<1>9. LeaveWriter(t, "ru_release", "loop") => Kept
  BY DEF LeaveWriter, LeaveCs
<1>10. Kept
  BY <1>6, <1>7, <1>8, <1>9 DEF FairStep, FairReadUnlock
<1> QED
  BY <1>10, CountKept

-----------------------------------------------------------------------------
(* Qt: permits are neither lost nor made.  Each is in the semaphore, with  *)
(* a reader, with the writer that collects them, or with the writer that   *)
(* has collected them all.                                                 *)

ReadersInside == {t \in Threads : pc[t] = "reading"}
HasAll(t) == pc[t] \in {"wl_unqueue", "writing"}
Collected == IF m_csQueue = None THEN 0 ELSE i[m_csQueue]

QtInv == TMutex = "Qt" =>
    /\ m_sema >= 0
    /\ m_sema + Cardinality(ReadersInside) + Collected =
            IF \E t \in Threads : HasAll(t) THEN 0 ELSE TMaxConcurrentReaders
    /\ \A t, u \in Threads : HasAll(t) /\ HasAll(u) => t = u
    /\ \A t \in Threads : i[t] # 0 => pc[t] = "wl_writer"

LEMMA ModSmall ==
    ASSUME NEW N \in Nat \ {0}, NEW n \in 0..N - 1
    PROVE  n % N = n
  OBVIOUS

LEMMA QtKept ==
    ASSUME OwnerInv, QtInv, NEW t \in Threads, QtStep(t), Step(t)
    PROVE  QtInv'
<1>1. TMutex = "Qt" /\ TMutex' = "Qt"
  BY OwnerStep DEF QtStep
<1> DEFINE N == TMaxConcurrentReaders
<1>2. /\ pc \in [Threads -> Places] /\ i \in [Threads -> 0..N - 1] /\ N \in Nat \ {0}
      /\ m_sema \in Int /\ t # None /\ m_csQueue \in Threads \cup {None}
  BY NoneAssumption, QueueAssumption DEF OwnerInv, Typed, PcTyped, QueueTyped
<1>3. /\ Cardinality(ReadersInside) \in Nat
      /\ (\A u \in Threads \ {t} : pc'[u] = pc[u]) =>
            Cardinality(ReadersInside') = Cardinality(ReadersInside)
                + (IF pc'[t] = "reading" THEN 1 ELSE 0) - (IF pc[t] = "reading" THEN 1 ELSE 0)
  <2>1. ReadersInside \in SUBSET Threads /\ ReadersInside' \in SUBSET Threads
    BY DEF ReadersInside
  <2>2. (t \in ReadersInside <=> pc[t] = "reading") /\ (t \in ReadersInside' <=> pc'[t] = "reading")
    BY DEF ReadersInside
  <2>3. (\A u \in Threads \ {t} : pc'[u] = pc[u]) =>
            \A u \in Threads \ {t} : u \in ReadersInside' <=> u \in ReadersInside
    BY <1>2 DEF ReadersInside
  <2>4. Cardinality(ReadersInside) \in Nat
    BY <2>1, Finite
  <2> QED
    BY <2>1, <2>2, <2>3, <2>4, OneMember
<1>4. \A u \in Threads : m_csQueue = u <=> pc[u] \in {"wl_writer", "wl_unqueue"}
  BY <1>1, QueuePlacesOfClass DEF OwnerInv, QueueInv
<1> HIDE DEF OwnerInv, ReadersInside, N
<1>5. /\ m_sema >= 0
      /\ m_sema + Cardinality(ReadersInside) + Collected = IF \E u \in Threads : HasAll(u) THEN 0 ELSE N
      /\ \A u, v \in Threads : HasAll(u) /\ HasAll(v) => u = v
      /\ \A u \in Threads : i[u] # 0 => pc[u] = "wl_writer"
      /\ Collected \in Nat
  BY <1>1, <1>2 DEF QtInv, N, Collected
<1> DEFINE Kept == /\ m_sema' >= 0
                   /\ m_sema' + Cardinality(ReadersInside') + Collected' =
                            IF \E u \in Threads : HasAll(u)' THEN 0 ELSE N
                   /\ \A u, v \in Threads : HasAll(u)' /\ HasAll(v)' => u = v
                   /\ \A u \in Threads : i'[u] # 0 => pc'[u] = "wl_writer"
<1> USE <1>2, <1>3, <1>4, <1>5 DEF Goto, HasAll
<1>6. EnterQueue(t, "wl_queue", "wl_writer") => Kept
  <2> SUFFICES ASSUME EnterQueue(t, "wl_queue", "wl_writer")
               PROVE  Kept
    OBVIOUS
  <2>1. Collected = 0 /\ Collected' = 0
    BY DEF EnterQueue, Collected, permits
  <2>2. /\ pc[t] = "wl_queue" /\ pc'[t] = "wl_writer" /\ m_sema' = m_sema /\ i' = i
        /\ \A u \in Threads \ {t} : pc'[u] = pc[u]
    BY DEF EnterQueue, permits
  <2>3. Cardinality(ReadersInside') = Cardinality(ReadersInside)
    BY <2>2
  <2>4. \A u \in Threads : HasAll(u)' <=> HasAll(u)
    BY <2>2
  <2> HIDE DEF HasAll
  <2> QED
    BY <2>1, <2>2, <2>3, <2>4
<1>7. LeaveQueue(t, "wl_unqueue", "writing") => Kept
  BY DEF LeaveQueue, Collected, permits
<1>8. CollectPermit(t) => Kept
  <2> SUFFICES ASSUME CollectPermit(t)
               PROVE  Kept
    OBVIOUS
  <2>1. /\ m_sema > 0 /\ m_sema' = m_sema - 1 /\ UNCHANGED m_csQueue /\ pc[t] = "wl_writer"
        /\ i' = [i EXCEPT ![t] = (i[t] + 1) % N]
        /\ pc' = [pc EXCEPT ![t] = IF i[t] + 1 = N THEN "wl_unqueue" ELSE "wl_writer"]
    BY DEF CollectPermit, Collect, N
  <2>2. m_csQueue = t /\ Collected = i[t] /\ \A u \in Threads : ~HasAll(u)
    BY <2>1 DEF Collected
  <2>3. Collected' = (i[t] + 1) % N
    BY <2>1, <2>2 DEF Collected
  <2>4. CASE i[t] + 1 = N
    <3>1. (i[t] + 1) % N = 0
      BY <2>4
    <3>2. pc'[t] = "wl_unqueue" /\ i'[t] = 0 /\ \A u \in Threads \ {t} : pc'[u] = pc[u] /\ i'[u] = i[u]
      BY <2>1, <2>4, <3>1
    <3>3. Cardinality(ReadersInside') = Cardinality(ReadersInside)
      BY <2>1, <3>2
    <3>4. m_sema + Cardinality(ReadersInside) + i[t] = N
      BY <2>2
    <3>5. m_sema' = 0 /\ Cardinality(ReadersInside') = 0
      <4>1. i[t] \in Int /\ N \in Int
        OBVIOUS
      <4>2. m_sema + Cardinality(ReadersInside) = 1
        BY <2>4, <3>4, <4>1
      <4>3. m_sema = 1 /\ Cardinality(ReadersInside) = 0
        BY <2>1, <4>2
      <4> QED
        BY <2>1, <3>3, <4>3
    <3>6. HasAll(t)' /\ \A u \in Threads \ {t} : ~HasAll(u)'
      BY <2>2, <3>2
    <3>7. Collected' = 0 /\ \A u \in Threads : i'[u] # 0 => pc'[u] = "wl_writer"
      BY <2>3, <3>1, <3>2
    <3>8. m_sema' + Cardinality(ReadersInside') + Collected' = 0
      BY <3>5, <3>7
    <3>9. \A u, v \in Threads : HasAll(u)' /\ HasAll(v)' => u = v
      BY <3>6
    <3> QED
      BY <3>5, <3>6, <3>7, <3>8, <3>9
  <2>5. CASE i[t] + 1 # N
    <3>1. i[t] + 1 \in 0..N - 1
      BY <2>5
    <3>2. (i[t] + 1) % N = i[t] + 1
      BY <3>1, ModSmall
    <3>3. pc' = pc /\ i'[t] = i[t] + 1 /\ \A u \in Threads \ {t} : i'[u] = i[u]
      BY <2>1, <2>5, <3>2
    <3>4. ReadersInside' = ReadersInside
      BY <3>3 DEF ReadersInside
    <3> QED
      BY <2>1, <2>2, <2>3, <3>2, <3>3, <3>4
  <2> QED
    BY <2>4, <2>5
<1>9. QtWriteUnlock(t) => Kept
  <2> SUFFICES ASSUME QtWriteUnlock(t)
               PROVE  Kept
    OBVIOUS
  <2>1. /\ m_sema' = m_sema + N /\ pc[t] = "writing" /\ pc' = [pc EXCEPT ![t] = "loop"]
        /\ UNCHANGED <<m_csQueue, i>>
    BY DEF QtWriteUnlock, GivePermits, N
  <2>2. Collected' = Collected
    BY <2>1 DEF Collected
  <2>3. pc'[t] = "loop" /\ pc' = [pc EXCEPT ![t] = pc'[t]]
    BY <2>1
  <2>4. HasAll(t) /\ \A u \in Threads : ~HasAll(u)'
    BY <2>1
  <2> QED
    BY <2>1, <2>2, <2>3, <2>4
<1>10. QtReadLock(t) => Kept
  BY DEF QtReadLock, TakePermit, Collected
<1>11. QtReadUnlock(t) => Kept
  BY DEF QtReadUnlock, GivePermits, Collected
<1>12. Kept
  BY <1>6, <1>7, <1>8, <1>9, <1>10, <1>11 DEF QtStep, QtWriteLock
<1> QED
  BY <1>12 DEF QtInv, N

-----------------------------------------------------------------------------
(* Cohort: each reader that waits for a permit is due one, from the        *)
(* semaphore, from the leader that closes the cohort, or from the leader   *)
(* that still gathers; m_cohortCount is the size of the cohort that is in, *)
(* and while it is not 0 the leader owns the second lock.                  *)

Waiting == {t \in Threads : pc[t] = "rl_permit"}
Member(t) == readerOrder[t] # 0 /\ pc[t] \in {"rl_reraise", "reading", "ru_count"}
Admitted == {t \in Threads : Member(t) \/ pc[t] = "rl_open"}
Closes(t) == pc[t] \in {"rl_size", "rl_open"}
Promised == IF \E t \in Threads : Closes(t) THEN cohortCount[m_cs] - 1 ELSE 0
Gathered == IF m_readerCount = 0 THEN 0 ELSE m_readerCount - 1

CohortCounts ==
    /\ m_sema >= 0
    /\ Cardinality(Waiting) = m_sema + Promised + Gathered
    /\ (\A t \in Threads : pc[t] # "rl_size") =>
            m_cohortCount = m_sema + Promised + Cardinality(Admitted)
    /\ (\E t \in Threads : Closes(t)) => m_sema = 0 /\ \A t \in Threads : ~Member(t)
    /\ m_cohortCount # 0 => m_cs # None /\ (pc[m_cs] \in {"rl_open", "ru_wait"} \/ Leads(m_cs))
CohortSignals ==
    /\ Signalled <=> Waits /\ m_cohortCount = 0
    /\ m_lastLockedReaderEvent => \A t \in Threads : pc[t] # "ru_last"
    /\ \A t, u \in Threads : pc[t] = "ru_last" /\ pc[u] = "ru_last" => t = u

CohortInv == TMutex = "Cohort" => CohortCounts /\ CohortSignals

\* A step that has nothing to do with cohorts.
CohortTurns == {"rl_enter", "rl_close", "rl_size", "rl_open", "rl_permit",
                "ru_wait", "ru_last", "ru_release"}
KeepsCohort(t) ==
    /\ UNCHANGED <<m_readerCount, m_sema, cohort, m_lastLockedReaderEvent>>
    /\ pc[t] \notin CohortTurns /\ pc'[t] \notin CohortTurns
    /\ (Member(t)' <=> Member(t)) /\ (Leads(t)' <=> Leads(t))
    /\ \/ UNCHANGED m_cs
       \/ m_cs = None
       \/ m_cs = t /\ ~Leads(t)

\* The steps that have.
CohortTurn(t) ==
    \/ JoinCohort(t)
    \/ EnterCs(t, "rl_enter", "rl_close") /\ UNCHANGED <<queue, cohort>>
    \/ CloseCohort(t) /\ UNCHANGED <<flags, m_csQueue, first, permits, readerOrder>>
    \/ OpenCohort(t)
    \/ TakePermit(t, "rl_permit", "rl_reraise") /\ UNCHANGED cohort
    \/ LeaveCohort(t)
    \/ LeaveCs(t, "ru_release", "ru_check") /\ UNCHANGED <<queue, cohort>>
    \/ SignalFirstReader(t, "ru_last", "ru_check") /\ UNCHANGED cohort
    \/ WaitForLastReader(t, "ru_wait", "ru_release") /\ UNCHANGED cohort

LEMMA CohortCases ==
    ASSUME OwnerInv, NEW t \in Threads, CohortStep(t)
    PROVE  CohortTurn(t) \/ KeepsCohort(t)
<1>1. TMutex = "Cohort" /\ pc \in [Threads -> Places] /\ readerOrder \in [Threads -> Int]
  BY DEF CohortStep, OwnerInv, Typed, PcTyped, CohortTyped
<1>2. pc[t] \in {"tls_leave", "wu_leave"} => m_cs = t
  BY <1>1, CsPlacesOfClass DEF OwnerInv, CsInv, OwnsCs
<1>3. /\ pc[t] = "rl_check" => readerOrder[t] = 0
      /\ pc[t] = "rl_reraise" => readerOrder[t] # 0
  BY <1>1 DEF OwnerInv, OrderInv, OrderOk
<1> HIDE DEF OwnerInv
<1> USE <1>1, <1>2, <1>3 DEF KeepsCohort, CohortTurns, Member, Leads, Goto, queue, first, permits,
       cohort, flags, locks
<1>4. CASE CohortWriteLock(t) \/ CohortWriteUnlock(t)
  BY <1>4 DEF CohortWriteLock, CohortWriteUnlock, EnterCs, LeaveCs, RequestWrite, ScanReaders,
     FinishScan, PassReader, FindReader, WaitReaderDone, ClearRequest
<1>5. CASE CohortReadLock(t)
  <2>1. ASSUME InitTlsData(t), UNCHANGED <<queue, cohort>>
        PROVE  KeepsCohort(t)
    BY <2>1 DEF InitTlsData, PushTlsData, EnterCs, LeaveCs
  <2>2. ASSUME StoreFlag(t, TRUE, "rl_raise", "rl_check") \/ StoreFlag(t, FALSE, "rl_yield", "rl_signal")
               \/ StoreFlag(t, TRUE, "rl_reraise", "reading"), UNCHANGED <<queue, cohort>>
        PROVE  KeepsCohort(t)
    BY <2>2 DEF StoreFlag
  <2>3. ASSUME CheckRequest(t, "rl_check", "rl_yield", "reading") \/ SetReaderDone(t, "rl_signal", "rl_join"),
               UNCHANGED <<queue, cohort>>
        PROVE  KeepsCohort(t)
    BY <2>3 DEF CheckRequest, SetReaderDone
  <2> HIDE DEF KeepsCohort, queue, cohort, flags, permits, first
  <2> QED
    BY <1>5, <2>1, <2>2, <2>3 DEF CohortReadLock, CohortTurn
<1>6. CASE CohortReadUnlock(t)
  <2>1. ASSUME StoreFlag(t, FALSE, "reading", IF readerOrder[t] # 0 THEN "ru_count" ELSE "ru_check"),
               UNCHANGED <<queue, cohort>>
        PROVE  KeepsCohort(t)
    BY <2>1 DEF StoreFlag
  <2>2. ASSUME CheckRequest(t, "ru_check", "ru_signal", "loop") \/ SetReaderDone(t, "ru_signal", "loop"),
               UNCHANGED <<queue, cohort>>
        PROVE  KeepsCohort(t)
    BY <2>2 DEF CheckRequest, SetReaderDone
  <2> HIDE DEF KeepsCohort, queue, cohort, flags, permits, first
  <2> QED
    BY <1>6, <2>1, <2>2 DEF CohortReadUnlock, CohortTurn
<1> QED
  BY <1>4, <1>5, <1>6 DEF CohortStep

LEMMA CohortKept ==
    ASSUME OwnerInv, CohortInv, TMutex = "Cohort", NEW t \in Threads, Step(t),
           CohortTurn(t) \/ KeepsCohort(t)
    PROVE  CohortInv'
<1>1. /\ TMutex = "Cohort" /\ TMutex' = "Cohort" /\ pc \in [Threads -> Places]
      /\ readerOrder \in [Threads -> Int] /\ cohortCount \in [Threads -> Int]
      /\ m_readerCount \in Int /\ m_sema \in Int /\ m_cohortCount \in Int
      /\ m_cs \in Threads \cup {None} /\ m_lastLockedReaderEvent \in BOOLEAN
      /\ \A u \in Threads : u # None
  BY NoneAssumption, OwnerStep DEF OwnerInv, Typed, PcTyped, CohortTyped, QueueTyped, FlagsTyped
<1>2. \A u \in Threads \ {t} : /\ pc'[u] = pc[u] /\ readerOrder'[u] = readerOrder[u]
                               /\ cohortCount'[u] = cohortCount[u]
  BY <1>1, OwnerStep DEF SingleClasses
<1>3. \A u \in Threads :
        Closes(u) \/ pc[u] \in {"rl_close", "ru_wait", "ru_release"} \/ Leads(u) => m_cs = u
  BY <1>1, CsPlacesOfClass DEF OwnerInv, CsInv, OwnsCs, Closes
<1>4. /\ \A u \in Threads : Closes(u) => cohortCount[u] >= 1
      /\ pc[t] \in {"rl_enter", "rl_close", "rl_size", "rl_open"} => readerOrder[t] = 1
      /\ pc[t] = "rl_permit" => readerOrder[t] > 1
      /\ pc[t] = "ru_count" => readerOrder[t] # 0
      /\ pc[t] = "rl_join" => readerOrder[t] = 0
  BY <1>1 DEF OwnerInv, OrderInv, OrderOk, Closes
<1>5. m_readerCount >= 0 /\ (pc[t] = "rl_close" => m_readerCount >= 1)
  BY <1>1 DEF OwnerInv, OrderInv, GatherInv, GatherPlaces
<1> DEFINE W == Cardinality(Waiting)
           A == Cardinality(Admitted)
           Admits(u) == Member(u) \/ pc[u] = "rl_open"
<1>6. /\ W \in Nat /\ A \in Nat /\ W' \in Nat /\ A' \in Nat
      /\ W' = W + (IF pc'[t] = "rl_permit" THEN 1 ELSE 0) - (IF pc[t] = "rl_permit" THEN 1 ELSE 0)
      /\ A' = A + (IF Admits(t)' THEN 1 ELSE 0) - (IF Admits(t) THEN 1 ELSE 0)
      /\ A = 0 => \A u \in Threads : ~Member(u)
      /\ A = 1 /\ Admits(t) => \A u \in Threads \ {t} : ~Admits(u)
  <2>1. /\ Waiting \in SUBSET Threads /\ Waiting' \in SUBSET Threads
        /\ Admitted \in SUBSET Threads /\ Admitted' \in SUBSET Threads
    BY DEF Waiting, Admitted
  <2>2. /\ \A u \in Threads : u \in Waiting <=> pc[u] = "rl_permit"
        /\ \A u \in Threads : u \in Waiting' <=> pc'[u] = "rl_permit"
        /\ \A u \in Threads : u \in Admitted <=> Admits(u)
        /\ \A u \in Threads : u \in Admitted' <=> Admits(u)'
    BY DEF Waiting, Admitted
  <2>3. \A u \in Threads \ {t} : Admits(u)' <=> Admits(u)
    BY <1>2 DEF Member
  <2>4. /\ \A u \in Threads \ {t} : u \in Waiting' <=> u \in Waiting
        /\ \A u \in Threads \ {t} : u \in Admitted' <=> u \in Admitted
    BY <1>2, <2>2, <2>3
  <2>5. /\ W \in Nat /\ W' \in Nat
        /\ W' = W + (IF t \in Waiting' THEN 1 ELSE 0) - (IF t \in Waiting THEN 1 ELSE 0)
    BY <2>1, <2>4, OneMember
  <2>6. /\ A \in Nat /\ A' \in Nat /\ (A = 0 <=> Admitted = {})
        /\ A' = A + (IF t \in Admitted' THEN 1 ELSE 0) - (IF t \in Admitted THEN 1 ELSE 0)
        /\ A = 1 /\ t \in Admitted => Admitted = {t}
    BY <2>1, <2>4, OneMember
  <2> QED
    BY <2>2, <2>5, <2>6
<1>7. (\A u \in Threads : ~Admits(u)) => A = 0
  <2>1. (\A u \in Threads : ~Admits(u)) => Admitted = {}
    BY DEF Admitted
  <2> QED
    BY <2>1, FS_EmptySet
<1>8. CohortCounts /\ CohortSignals
  BY <1>1 DEF CohortInv
<1>9. CohortTurn(t) \/ KeepsCohort(t)
  OBVIOUS
<1> HIDE DEF OwnerInv, Waiting, Admitted, W, A
<1> SUFFICES CohortCounts' /\ CohortSignals'
  BY DEF CohortInv
<1>10. pc[t] = "ru_count" => Member(t) /\ A >= 1 /\ m_cohortCount >= 1
  <2> SUFFICES ASSUME pc[t] = "ru_count"
               PROVE  Member(t) /\ A >= 1 /\ m_cohortCount >= 1
    OBVIOUS
  <2>1. Member(t) /\ \A u \in Threads : ~Closes(u)
    BY <1>4, <1>8 DEF Member, CohortCounts
  <2>2. A >= 1 /\ Promised = 0
    BY <1>6, <2>1 DEF Promised
  <2>3. m_sema >= 0 /\ m_cohortCount = m_sema + Promised + A
    BY <1>8, <2>1 DEF CohortCounts, Closes, A
  <2> QED
    BY <1>1, <1>6, <2>1, <2>2, <2>3
<1>11. CohortSignals'
  <2>1. /\ Signalled <=> Waits /\ m_cohortCount = 0
        /\ m_lastLockedReaderEvent => \A u \in Threads : pc[u] # "ru_last"
        /\ \A u, v \in Threads : pc[u] = "ru_last" /\ pc[v] = "ru_last" => u = v
    BY <1>8 DEF CohortSignals
  <2>2. m_cohortCount # 0 => m_cs # None /\ (pc[m_cs] \in {"rl_open", "ru_wait"} \/ Leads(m_cs))
    BY <1>8 DEF CohortCounts
  <2>3. pc[t] = "rl_size" => m_cs = t /\ m_cohortCount = 0
    BY <1>1, <1>3, <2>2 DEF Closes, Leads
  <2>4. pc[t] = "ru_count" /\ m_cohortCount = 1 /\ readerOrder[t] # 1 =>
            m_cs \in Threads \ {t} /\ pc[m_cs] = "ru_wait"
    <3> SUFFICES ASSUME pc[t] = "ru_count", m_cohortCount = 1, readerOrder[t] # 1
                 PROVE  m_cs \in Threads \ {t} /\ pc[m_cs] = "ru_wait"
      OBVIOUS
    <3>1. Member(t) /\ \A u \in Threads : ~Closes(u)
      BY <1>4, <1>8 DEF Member, CohortCounts
    <3>2. A = 1 /\ m_sema >= 0
      BY <1>1, <1>6, <1>8, <3>1 DEF CohortCounts, Promised, Closes, A
    <3> QED
      BY <1>1, <1>6, <2>2, <3>1, <3>2 DEF Leads, Member, Closes
  <2>5. pc[t] = "ru_count" => m_cohortCount >= 1
    BY <1>10
  <2> USE <1>1, <1>2, <1>3, <1>4, <2>1, <2>2, <2>3, <2>4 DEF CohortSignals, Signalled, Waits, Goto
  <2>6. KeepsCohort(t) => CohortSignals'
    BY DEF KeepsCohort, CohortTurns, cohort
  <2>7. JoinCohort(t) => CohortSignals'
    BY DEF JoinCohort, first
  <2>8. EnterCs(t, "rl_enter", "rl_close") /\ UNCHANGED <<queue, cohort>> => CohortSignals'
    BY DEF EnterCs, queue, first, cohort
  <2>9. CloseCohort(t) /\ UNCHANGED <<flags, m_csQueue, first, permits, readerOrder>> => CohortSignals'
    BY DEF CloseCohort, first
  <2>10. OpenCohort(t) => CohortSignals'
    BY DEF OpenCohort, GivePermits, first
  <2>11. TakePermit(t, "rl_permit", "rl_reraise") /\ UNCHANGED cohort => CohortSignals'
    BY DEF TakePermit, first, cohort
  <2>12. LeaveCohort(t) => CohortSignals'
    <3> SUFFICES ASSUME LeaveCohort(t)
                 PROVE  CohortSignals'
      OBVIOUS
    <3>1. /\ pc[t] = "ru_count" /\ UNCHANGED <<m_cs, m_lastLockedReaderEvent>>
          /\ m_cohortCount' = m_cohortCount - 1
          /\ m_cohortCount = 1 /\ readerOrder[t] = 1 => pc'[t] = "ru_release"
          /\ m_cohortCount # 1 /\ readerOrder[t] = 1 => pc'[t] = "ru_wait"
          /\ m_cohortCount = 1 /\ readerOrder[t] # 1 => pc'[t] = "ru_last"
          /\ m_cohortCount # 1 /\ readerOrder[t] # 1 => pc'[t] = "ru_check"
      BY DEF LeaveCohort, queue, first, flags, locks
    <3>2. ~Signalled /\ m_cohortCount # 0
      BY <2>5, <3>1
    <3>3. readerOrder[t] = 1 => m_cs = t
      BY <3>1 DEF Leads
    <3>4. ~m_lastLockedReaderEvent' /\ \A u \in Threads \ {t} : pc'[u] # "ru_last"
      BY <3>1, <3>2
    <3>5. CASE readerOrder[t] = 1
      BY <3>1, <3>3, <3>4, <3>5
    <3>6. CASE readerOrder[t] # 1
      BY <3>1, <3>2, <3>4, <3>6
    <3> QED
      BY <3>5, <3>6
  <2>13. LeaveCs(t, "ru_release", "ru_check") /\ UNCHANGED <<queue, cohort>> => CohortSignals'
    BY DEF LeaveCs, queue, first, cohort
  <2>14. SignalFirstReader(t, "ru_last", "ru_check") /\ UNCHANGED cohort => CohortSignals'
    BY DEF SignalFirstReader, cohort
  <2>15. WaitForLastReader(t, "ru_wait", "ru_release") /\ UNCHANGED cohort => CohortSignals'
    BY DEF WaitForLastReader, cohort
  <2> QED
    BY <1>9, <2>6, <2>7, <2>8, <2>9, <2>10, <2>11, <2>12, <2>13, <2>14, <2>15 DEF CohortTurn
<1>12. CohortCounts'
  <2> DEFINE P == Promised
             G == Gathered
             closing == \E u \in Threads : Closes(u)
             led == m_cs # None /\ (pc[m_cs] \in {"rl_open", "ru_wait"} \/ Leads(m_cs))
  <2>1. /\ m_sema >= 0 /\ P \in Int /\ P >= 0 /\ G \in Int /\ G >= 0
        /\ W = m_sema + P + G
        /\ (\A u \in Threads : pc[u] # "rl_size") => m_cohortCount = m_sema + P + A
        /\ closing => m_sema = 0 /\ \A u \in Threads : ~Member(u)
        /\ m_cohortCount # 0 => led
        /\ closing => m_cs \in Threads /\ Closes(m_cs)
        /\ ~closing => P = 0
    BY <1>1, <1>3, <1>4, <1>5, <1>8 DEF CohortCounts, Promised, Gathered, W, A
  <2>2. ASSUME UNCHANGED cohortCount, Closes(t)' <=> Closes(t),
               m_cs' = m_cs \/ m_cs = None \/ (m_cs = t /\ ~Closes(t))
        PROVE  P' = P /\ (closing' <=> closing)
    <3>1. \A u \in Threads : Closes(u)' <=> Closes(u)
      BY <1>2, <2>2 DEF Closes
    <3>2. closing => m_cs' = m_cs
      BY <1>1, <2>1, <2>2
    <3> QED
      BY <2>2, <3>1, <3>2 DEF Promised
  <2>3. ASSUME m_readerCount' = m_readerCount
        PROVE  G' = G
    BY <2>3 DEF Gathered
  <2>4. \A u \in Threads \ {t} : /\ (Closes(u)' <=> Closes(u)) /\ (Member(u)' <=> Member(u))
                                 /\ (Leads(u)' <=> Leads(u))
    BY <1>2 DEF Closes, Member, Leads
  <2> HIDE DEF P, G, closing
  <2> DEFINE Kept == /\ m_sema' >= 0 /\ W' = m_sema' + P' + G'
                     /\ (\A u \in Threads : pc'[u] # "rl_size") => m_cohortCount' = m_sema' + P' + A'
                     /\ closing' => m_sema' = 0 /\ \A u \in Threads : ~Member(u)'
                     /\ m_cohortCount' # 0 => led'
  <2> SUFFICES Kept
    BY DEF CohortCounts, W, A, P, G, closing
  <2> USE <1>1, <1>2, <1>3, <1>4, <1>5, <1>6, <2>1, <2>2, <2>3, <2>4 DEF Goto
  <2>5. KeepsCohort(t) => Kept
    <3> SUFFICES ASSUME KeepsCohort(t)
                 PROVE  Kept
      OBVIOUS
    <3>1. /\ UNCHANGED <<m_readerCount, m_sema, m_cohortCount, cohortCount>>
          /\ m_cs' = m_cs \/ m_cs = None \/ (m_cs = t /\ ~Leads(t))
          /\ (Member(t)' <=> Member(t)) /\ (Leads(t)' <=> Leads(t))
          /\ pc[t] \notin CohortTurns /\ pc'[t] \notin CohortTurns
      BY DEF KeepsCohort, cohort
    <3>2. ~Closes(t) /\ ~Closes(t)' /\ P' = P /\ (closing' <=> closing) /\ G' = G
      BY <3>1 DEF CohortTurns, Closes
    <3>3. W' = W /\ A' = A
      BY <3>1 DEF CohortTurns
    <3>4. m_cohortCount' # 0 => led'
      BY <3>1 DEF CohortTurns, Leads
    <3> QED
      BY <3>1, <3>2, <3>3, <3>4 DEF CohortTurns
  <2>6. JoinCohort(t) => Kept
    <3> SUFFICES ASSUME JoinCohort(t)
                 PROVE  Kept
      OBVIOUS
    <3>1. /\ UNCHANGED <<m_cs, m_sema, m_cohortCount, cohortCount>> /\ pc[t] = "rl_join"
          /\ m_readerCount' = m_readerCount + 1
          /\ pc'[t] = IF m_readerCount = 0 THEN "rl_enter" ELSE "rl_permit"
      BY DEF JoinCohort, first, permits, flags, locks
    <3>2. ~Closes(t) /\ ~Closes(t)' /\ ~Member(t) /\ ~Member(t)' /\ ~Leads(t)
      BY <3>1 DEF Closes, Member, Leads
    <3>3. P' = P /\ (closing' <=> closing) /\ G' = IF m_readerCount = 0 THEN 0 ELSE G + 1
      BY <3>1, <3>2 DEF G, Gathered
    <3>4. A' = A /\ W' = IF m_readerCount = 0 THEN W ELSE W + 1
      BY <3>1, <3>2
    <3>5. m_readerCount = 0 => G = 0
      BY DEF G, Gathered
    <3>6. m_cohortCount' # 0 => led'
      BY <3>1, <3>2
    <3> QED
      BY <3>1, <3>2, <3>3, <3>4, <3>5, <3>6
  <2>7. EnterCs(t, "rl_enter", "rl_close") /\ UNCHANGED <<queue, cohort>> => Kept
    <3> SUFFICES ASSUME EnterCs(t, "rl_enter", "rl_close"), UNCHANGED <<queue, cohort>>
                 PROVE  Kept
      OBVIOUS
    <3>1. /\ UNCHANGED <<m_readerCount, m_sema, m_cohortCount, cohortCount>>
          /\ pc[t] = "rl_enter" /\ pc'[t] = "rl_close" /\ m_cs = None
      BY DEF EnterCs, queue, permits, cohort
    <3>2. ~Closes(t) /\ ~Closes(t)' /\ ~Member(t) /\ ~Member(t)'
      BY <3>1 DEF Closes, Member
    <3>3. P' = P /\ (closing' <=> closing) /\ G' = G /\ A' = A /\ W' = W
      BY <3>1, <3>2
    <3> QED
      BY <3>1, <3>2, <3>3
  <2>8. CloseCohort(t) /\ UNCHANGED <<flags, m_csQueue, first, permits, readerOrder>> => Kept
    <3> SUFFICES ASSUME CloseCohort(t), UNCHANGED <<flags, m_csQueue, first, permits, readerOrder>>
                 PROVE  Kept
      OBVIOUS
    <3>1. /\ UNCHANGED <<m_cs, m_sema>> /\ m_cs = t /\ ~Member(t) /\ ~Member(t)' /\ ~Leads(t)
      BY DEF CloseCohort, permits, flags, locks, Closes, Member, Leads
    <3>2. ASSUME pc[t] = "rl_close", pc'[t] = "rl_size", m_readerCount' = 0,
                 cohortCount' = [cohortCount EXCEPT ![t] = m_readerCount], UNCHANGED m_cohortCount
          PROVE  Kept
      <4>1. ~closing /\ m_cohortCount = 0 /\ P = 0
        BY <3>1, <3>2 DEF Closes
      <4>2. m_sema = 0 /\ A = 0 /\ W = G
        BY <3>1, <3>2, <4>1 DEF closing, Closes
      <4>3. closing' /\ Closes(t)'
        BY <3>2 DEF closing, Closes
      <4>4. G = m_readerCount - 1 /\ G' = 0 /\ P' = m_readerCount - 1
        BY <3>1, <3>2, <4>3 DEF G, Gathered, P, Promised
      <4>5. W' = W /\ A' = A
        BY <3>1, <3>2
      <4> QED
        BY <3>1, <3>2, <4>1, <4>2, <4>3, <4>4, <4>5
    <3>3. ASSUME pc[t] = "rl_size", pc'[t] = "rl_open", m_cohortCount' = cohortCount[t],
                 UNCHANGED <<m_readerCount, cohortCount>>
          PROVE  Kept
      <4>1. closing /\ Closes(t) /\ Closes(t)' /\ G' = G
        BY <3>3 DEF closing, Closes
      <4>2. P' = P /\ closing' /\ P = cohortCount[t] - 1
        BY <3>1, <3>3, <4>1 DEF closing, Closes, P, Promised
      <4>3. m_sema = 0 /\ A = 0 /\ A' = 1 /\ W' = W
        <5>1. \A u \in Threads : pc[u] # "rl_open" /\ ~Member(u)
          BY <3>1, <3>3, <4>1 DEF Closes
        <5>2. A = 0
          BY <5>1, <1>7
        <5> QED
          BY <3>1, <3>3, <4>1, <5>2
      <4>4. led'
        BY <3>1, <3>3
      <4>5. \A u \in Threads : ~Member(u)'
        BY <2>1, <2>4, <3>1, <4>1
      <4>6. m_cohortCount' = m_sema' + P' + A'
        BY <3>1, <3>3, <4>2, <4>3
      <4> HIDE DEF led
      <4> QED
        BY <3>1, <4>1, <4>2, <4>3, <4>4, <4>5, <4>6
    <3> QED
      BY <3>2, <3>3 DEF CloseCohort
  <2>9. OpenCohort(t) => Kept
    <3> SUFFICES ASSUME OpenCohort(t)
                 PROVE  Kept
      OBVIOUS
    <3>1. /\ pc[t] = "rl_open" /\ pc'[t] = "rl_reraise" /\ m_cs = t /\ readerOrder'[t] = 1
          /\ UNCHANGED <<m_readerCount, m_cohortCount, m_cs>>
          /\ m_sema' = m_sema + (cohortCount[t] - 1)
      BY DEF OpenCohort, GivePermits, flags, locks, Closes
    <3>2. Closes(t) /\ closing /\ ~closing' /\ P = cohortCount[t] - 1 /\ P' = 0
      BY <3>1 DEF closing, Closes, P, Promised
    <3>3. Leads(t)' /\ Admits(t) /\ Admits(t)' /\ G' = G /\ W' = W
      BY <3>1 DEF Leads, Member
    <3>4. \A u \in Threads : pc[u] # "rl_size" /\ pc'[u] # "rl_size"
      BY <3>1 DEF Closes
    <3> QED
      BY <3>1, <3>2, <3>3, <3>4
  <2>10. TakePermit(t, "rl_permit", "rl_reraise") /\ UNCHANGED cohort => Kept
    <3> SUFFICES ASSUME TakePermit(t, "rl_permit", "rl_reraise"), UNCHANGED cohort
                 PROVE  Kept
      OBVIOUS
    <3>1. /\ UNCHANGED <<m_cs, m_readerCount, m_cohortCount, cohortCount, readerOrder>>
          /\ pc[t] = "rl_permit" /\ pc'[t] = "rl_reraise" /\ m_sema > 0 /\ m_sema' = m_sema - 1
      BY DEF TakePermit, flags, locks, cohort
    <3>2. ~Closes(t) /\ ~Closes(t)' /\ ~Admits(t) /\ Admits(t)' /\ ~Leads(t)
      BY <3>1 DEF Closes, Member, Leads
    <3>3. P' = P /\ (closing' <=> closing) /\ G' = G /\ A' = A + 1 /\ W' = W - 1
      BY <3>1, <3>2
    <3>4. m_cohortCount' # 0 => led'
      BY <3>1, <3>2
    <3> QED
      BY <3>1, <3>3, <3>4
  <2>11. LeaveCohort(t) => Kept
    <3> SUFFICES ASSUME LeaveCohort(t)
                 PROVE  Kept
      OBVIOUS
    <3>1. /\ UNCHANGED <<m_cs, m_readerCount, m_sema, cohortCount>> /\ pc[t] = "ru_count"
          /\ m_cohortCount' = m_cohortCount - 1
          /\ pc'[t] \in {"ru_release", "ru_wait", "ru_last", "ru_check"}
          /\ m_cohortCount # 1 /\ readerOrder[t] = 1 => pc'[t] = "ru_wait"
      BY DEF LeaveCohort, queue, permits, flags, locks
    <3>2. Member(t) /\ ~Closes(t) /\ ~Closes(t)' /\ ~Admits(t)'
      BY <1>10, <3>1 DEF Closes, Member
    <3>3. P' = P /\ (closing' <=> closing) /\ G' = G /\ A' = A - 1 /\ W' = W
      BY <3>1, <3>2
    <3>4. m_cohortCount' # 0 => led'
      BY <3>1, <1>10 DEF Leads
    <3> QED
      BY <3>1, <3>2, <3>3, <3>4 DEF closing, Closes
  <2>12. LeaveCs(t, "ru_release", "ru_check") /\ UNCHANGED <<queue, cohort>> => Kept
    <3> SUFFICES ASSUME LeaveCs(t, "ru_release", "ru_check"), UNCHANGED <<queue, cohort>>
                 PROVE  Kept
      OBVIOUS
    <3>1. /\ UNCHANGED <<m_readerCount, m_sema, m_cohortCount, cohortCount>>
          /\ pc[t] = "ru_release" /\ pc'[t] = "ru_check" /\ m_cs = t
      BY DEF LeaveCs, queue, permits, cohort
    <3>2. ~Closes(t) /\ ~Closes(t)' /\ ~Admits(t) /\ ~Admits(t)' /\ ~Leads(t)
      BY <3>1 DEF Closes, Member, Leads
    <3>3. P' = P /\ (closing' <=> closing) /\ G' = G /\ A' = A /\ W' = W
      BY <3>1, <3>2
    <3>4. m_cohortCount' = 0
      BY <3>1, <3>2
    <3> QED
      BY <3>1, <3>2, <3>3, <3>4
  <2>13. (SignalFirstReader(t, "ru_last", "ru_check") \/ WaitForLastReader(t, "ru_wait", "ru_release"))
         /\ UNCHANGED cohort => Kept
    <3> SUFFICES ASSUME \/ SignalFirstReader(t, "ru_last", "ru_check")
                        \/ WaitForLastReader(t, "ru_wait", "ru_release"),
                        UNCHANGED cohort
                 PROVE  Kept
      OBVIOUS
    <3>1. /\ UNCHANGED <<m_cs, m_readerCount, m_sema, m_cohortCount, cohortCount>>
          /\ \/ pc[t] = "ru_last" /\ pc'[t] = "ru_check"
             \/ pc[t] = "ru_wait" /\ pc'[t] = "ru_release" /\ m_lastLockedReaderEvent
      BY DEF SignalFirstReader, WaitForLastReader, permits, flags, locks, cohort
    <3>2. ~Closes(t) /\ ~Closes(t)' /\ ~Admits(t) /\ ~Admits(t)' /\ ~Leads(t)
      BY <3>1 DEF Closes, Member, Leads
    <3>3. P' = P /\ (closing' <=> closing) /\ G' = G /\ A' = A /\ W' = W
      BY <3>1, <3>2
    <3>4. m_lastLockedReaderEvent => m_cohortCount = 0
      BY <1>8 DEF CohortSignals, Signalled
    <3>5. m_cohortCount' # 0 => led'
      BY <3>1, <3>2, <3>4
    <3> QED
      BY <3>1, <3>2, <3>3, <3>5
  <2> HIDE DEF Kept
  <2> QED
    BY <1>9, <2>5, <2>6, <2>7, <2>8, <2>9, <2>10, <2>11, <2>12, <2>13 DEF CohortTurn
<1> QED
  BY <1>11, <1>12

-----------------------------------------------------------------------------
(* A class that has no use for a count or an event leaves it alone.        *)

UnusedInv ==
    /\ TMutex \notin GroupClasses \cup {"Cohort"} => m_readerCount = 0
    /\ TMutex \notin {"Qt", "Cohort"} => m_sema = 0
    /\ TMutex # "Cohort" => m_cohortCount = 0
    /\ TMutex \notin FirstClasses \cup {"Cohort"} => ~m_lastLockedReaderEvent

LEMMA StepUnused ==
    ASSUME OwnerInv, UnusedInv, NEW t \in Threads, Step(t)
    PROVE  UnusedInv'
<1>1. UNCHANGED TMutex
  BY OwnerStep
<1> USE DEF queue, first, permits, cohort
<1>2. FairStep(t) => UNCHANGED <<m_sema, m_lastLockedReaderEvent>>
  BY DEF FairStep, FairWriteLock, FairWriteUnlock, FairReadLock, FairReadUnlock, EnterQueue,
     LeaveQueue, EnterWriter, LeaveWriter, CountReader, UncountReader
<1>3. FairCsStep(t) => UNCHANGED m_sema
  BY DEF FairCsStep, FairCsWriteLock, FairCsWriteUnlock, FairCsReadLock, FairCsReadUnlock,
     InitTlsDataQueued, EnterQueue, LeaveQueue, EnterWriter, LeaveWriter, EnterWriterFirst,
     LeaveWriterFirst, CountReader, UncountReader, SignalFirstReader, WaitForLastReader
<1>4. QtStep(t) => UNCHANGED <<m_readerCount, m_lastLockedReaderEvent>>
  BY DEF QtStep, QtWriteLock, QtWriteUnlock, QtReadLock, QtReadUnlock, CollectPermit, Collect,
     EnterQueue, LeaveQueue, TakePermit, GivePermits
<1>5. TicketedStep(t) => UNCHANGED m_sema
  BY DEF TicketedStep, TicketedReadLock, TicketedReadUnlock, TicketedWriteLock,
     TicketedWriteUnlock, InitTlsDataQueued, EnterQueue, LeaveQueue, EnterWriter, LeaveWriter,
     EnterWriterFirst, LeaveWriterFirst, JoinQueued, LeaveQueued, CountReader, UncountReader,
     SignalFirstReader, WaitForLastReader, LoadLastTicket, CheckTicket, DrawTicket, StoreTicket
<1>6. SingleStep(t) \/ PlainStep(t) => UNCHANGED queue
  BY DEF SingleStep, PlainStep, PlainWriteLock, PlainWriteUnlock, PlainReadLock, PlainReadUnlock,
     EnterWriter, LeaveWriter
<1>7. Starts(t) => UNCHANGED <<queue, cohort>>
  BY DEF Starts
<1> QED
  BY <1>1, <1>2, <1>3, <1>4, <1>5, <1>6, <1>7, StepCases DEF UnusedInv, GroupClasses, FirstClasses,
     FairStep, FairCsStep, QtStep, CohortStep, TicketedStep, SingleStep, SpinSingleStep,
     SyncSingleStep, PlainStep, PlainClasses

-----------------------------------------------------------------------------
(* All the counts together.                                                *)

CountsInv == /\ OwnerInv /\ UnusedInv
             /\ CountInv /\ FirstInv /\ FairInv /\ QtInv /\ CohortInv

\* A thread that starts or ends counts for nothing.
LEMMA StartKeepsCounts ==
    ASSUME CountsInv, NEW t \in Threads, Starts(t), Step(t)
    PROVE  CountInv' /\ FirstInv' /\ FairInv' /\ QtInv' /\ CohortInv'
<1>1. /\ pc[t] \in {"loop", "counting"} /\ pc'[t] \in StartPlaces
      /\ pc'[t] = "rl_enter" => TMutex \in PlainClasses
      /\ UNCHANGED <<TMutex, m_cs, isFirstReader, isLocked, m_csQueue, m_readerCount, m_sema, i,
                     readerOrder, cohortCount, m_cohortCount, m_lastLockedReaderEvent>>
  BY StartsWhere DEF Outside, locks, queue, first, permits, cohort, CountsInv, OwnerInv
<1>2. \A u \in Threads : u # t => pc'[u] = pc[u]
  BY StartsWhere DEF CountsInv, OwnerInv, Typed, PcTyped, Moves
<1>3. OwnerInv /\ CountInv /\ FirstInv /\ FairInv /\ QtInv /\ CohortInv
  BY DEF CountsInv
<1>4. CASE TMutex \in FirstClasses
  <2>1. PassesBy(t)
    BY <1>1, <1>4 DEF PassesBy, KeepsGroup, Turns, Counts, StartPlaces, FirstClasses
  <2>2. CountInv' /\ FirstInv'
    BY <1>3, <1>4, <2>1, FirstKept DEF FirstMove
  <2> QED
    BY <1>1, <1>4, <2>2 DEF FairInv, QtInv, CohortInv, FirstClasses
<1>5. CASE TMutex = "Fair"
  <2>1. CountMove(t)
    BY <1>1, <1>5 DEF CountMove, Counts, StartPlaces
  <2>2. CountInv'
    BY <1>3, <2>1, CountKept
  <2>3. \A u \in Threads : (HoldsAlone(u)' <=> HoldsAlone(u)) /\ (InGroup(u)' <=> InGroup(u))
    BY <1>1, <1>2, <1>5 DEF HoldsAlone, InGroup, Counts, StartPlaces
  <2>4. FairInv'
    BY <1>1, <1>3, <1>5, <2>3 DEF FairInv
  <2> QED
    BY <1>1, <1>5, <2>2, <2>4 DEF FirstInv, QtInv, CohortInv, FirstClasses
<1>6. CASE TMutex = "Qt"
  <2>1. ReadersInside' = ReadersInside /\ \A u \in Threads : HasAll(u)' <=> HasAll(u)
    BY <1>1, <1>2 DEF ReadersInside, HasAll, StartPlaces
  <2>2. Collected' = Collected /\ i[t] = 0
    BY <1>1, <1>3, <1>6 DEF Collected, QtInv
  <2>3. QtInv'
    <3>1. \A u \in Threads : i'[u] # 0 => pc'[u] = "wl_writer"
      BY <1>1, <1>2, <1>3, <1>6, <2>2 DEF QtInv
    <3>2. /\ m_sema' >= 0
          /\ m_sema' + Cardinality(ReadersInside') + Collected' =
                IF \E u \in Threads : HasAll(u)' THEN 0 ELSE TMaxConcurrentReaders
          /\ \A u, v \in Threads : HasAll(u)' /\ HasAll(v)' => u = v
      BY <1>1, <1>3, <1>6, <2>1, <2>2 DEF QtInv
    <3> QED
      BY <3>1, <3>2 DEF QtInv
  <2> QED
    BY <1>1, <1>6, <2>3 DEF CountInv, FirstInv, FairInv, CohortInv, FirstClasses, GroupClasses
<1>7. CASE TMutex = "Cohort"
  <2>1. KeepsCohort(t)
    BY <1>1, <1>7 DEF KeepsCohort, CohortTurns, Member, Leads, StartPlaces, PlainClasses, cohort
  <2>2. CohortInv'
    BY <1>3, <1>7, <2>1, CohortKept
  <2> QED
    BY <1>1, <1>7, <2>2 DEF CountInv, FirstInv, FairInv, QtInv, FirstClasses, GroupClasses
<1>8. CASE TMutex \notin GroupClasses \cup {"Qt", "Cohort"}
  BY <1>1, <1>8 DEF CountInv, FirstInv, FairInv, QtInv, CohortInv, FirstClasses, GroupClasses
<1> QED
  BY <1>4, <1>5, <1>6, <1>7, <1>8 DEF GroupClasses

LEMMA StepCounts ==
    ASSUME CountsInv, NEW t \in Threads, Step(t)
    PROVE  CountsInv'
<1>1. OwnerInv /\ OwnerInv' /\ UnusedInv /\ UnusedInv' /\ UNCHANGED TMutex
  BY OwnerStep, StepUnused DEF CountsInv
<1>2. CountInv /\ FirstInv /\ FairInv /\ QtInv /\ CohortInv
  BY DEF CountsInv
<1> SUFFICES CountInv' /\ FirstInv' /\ FairInv' /\ QtInv' /\ CohortInv'
  BY <1>1 DEF CountsInv
<1>3. CASE TMutex \in SingleClasses \cup PlainClasses
  BY <1>1, <1>3 DEF SingleClasses, PlainClasses, CountInv, FirstInv, FairInv, QtInv, CohortInv,
     GroupClasses, FirstClasses
<1>4. CASE Starts(t)
  BY <1>4, StartKeepsCounts
<1>5. CASE FairStep(t)
  <2>1. CountInv' /\ FairInv'
    BY <1>1, <1>2, <1>5, FairKept
  <2>2. TMutex' = "Fair"
    BY <1>1, <1>5 DEF FairStep
  <2> QED
    BY <2>1, <2>2 DEF FirstInv, QtInv, CohortInv, FirstClasses
<1>6. CASE FairCsStep(t) \/ TicketedStep(t)
  <2>1. FirstMove(t) /\ TMutex \in FirstClasses
    BY <1>1, <1>6, FairCsFirstMoves, TicketedFirstMoves DEF FairCsStep, TicketedStep, FirstClasses
  <2>2. CountInv' /\ FirstInv'
    BY <1>1, <1>2, <2>1, FirstKept
  <2> QED
    BY <1>1, <2>1, <2>2 DEF FairInv, QtInv, CohortInv, FirstClasses
<1>7. CASE QtStep(t)
  <2>1. QtInv'
    BY <1>1, <1>2, <1>7, QtKept
  <2>2. TMutex' = "Qt"
    BY <1>1, <1>7 DEF QtStep
  <2> QED
    BY <2>1, <2>2 DEF CountInv, FirstInv, FairInv, CohortInv, FirstClasses, GroupClasses
<1>8. CASE CohortStep(t)
  <2>1. TMutex = "Cohort" /\ TMutex' = "Cohort"
    BY <1>1, <1>8 DEF CohortStep
  <2>2. CohortInv'
    BY <1>1, <1>2, <1>8, <2>1, CohortCases, CohortKept
  <2> QED
    BY <2>1, <2>2 DEF CountInv, FirstInv, FairInv, QtInv, FirstClasses, GroupClasses
<1> QED
  BY <1>3, <1>4, <1>5, <1>6, <1>7, <1>8, StepCases DEF SingleStep, SpinSingleStep, SyncSingleStep,
     PlainStep, SingleClasses

LEMMA NextCounts ==
    ASSUME CountsInv, [Next]_allVars
    PROVE  CountsInv'
<1>1. CASE MainStep \/ Timeout \/ UNCHANGED allVars
  <2>1. UNCHANGED <<TMutex, pc, locks, queue, cohort>>
    BY <1>1 DEF MainStep, Timeout, OpenGate, Join, SetDone, Stop, allVars, vars
  <2>2. UNCHANGED <<TMutex, pc, m_cs, isLocked, isFirstReader, m_csQueue, m_readerCount, m_sema, i,
                    m_lastLockedReaderEvent, readerOrder, cohortCount, m_cohortCount>>
    BY <2>1 DEF locks, queue, first, permits, cohort
  <2>3. OwnerInv'
    BY NextOwner DEF CountsInv
  <2>4. UnusedInv' /\ CountInv' /\ FirstInv' /\ FairInv'
    BY <2>2 DEF CountsInv, UnusedInv, CountInv, FirstInv, FairInv, Counted, Counts, InGroup,
       GroupHeld, Waits, Signalled, HoldsAlone
  <2>5. QtInv' /\ CohortInv'
    BY <2>2 DEF CountsInv, QtInv, ReadersInside, HasAll, Collected, CohortInv, CohortCounts,
       CohortSignals, Waiting, Admitted, Member, Closes, Promised, Gathered, Leads, Waits, Signalled
  <2> QED
    BY <2>3, <2>4, <2>5 DEF CountsInv
<1>2. ASSUME NEW t \in Threads, Step(t)
      PROVE  CountsInv'
  BY <1>2, StepCounts
<1> QED
  BY <1>1, <1>2 DEF Next

\* An empty mutex counts nothing.
LEMMA StillCounts ==
    ASSUME UnusedInv, m_readerCount = 0, m_cohortCount = 0, ~m_lastLockedReaderEvent, m_cs = None,
           m_csQueue = None, m_sema = IF TMutex = "Qt" THEN TMaxConcurrentReaders ELSE 0,
           \A t \in Threads : pc[t] = "loop" /\ ~isLocked[t] /\ readerOrder[t] = 0 /\ i[t] = 0
    PROVE  CountInv /\ FirstInv /\ FairInv /\ QtInv /\ CohortInv
<1>1. \A t \in Threads : ~Counts(t) /\ ~InGroup(t)
  BY DEF Counts, InGroup
<1>2. Cardinality({}) = 0
  BY FS_EmptySet
<1>3. CountInv
  <2>1. Counted = {}
    BY <1>1 DEF Counted
  <2> QED
    BY <1>2, <2>1 DEF CountInv
<1>4. FirstInv /\ FairInv
  BY <1>1 DEF FirstInv, FairInv, Signalled, Waits, HoldsAlone
<1>5. QtInv
  <2>1. ReadersInside = {} /\ Collected = 0 /\ \A t \in Threads : ~HasAll(t)
    BY DEF ReadersInside, Collected, HasAll
  <2>2. TMaxConcurrentReaders \in Nat
    BY QueueAssumption
  <2> QED
    BY <1>2, <2>1, <2>2 DEF QtInv
<1>6. CohortInv
  <2>1. Waiting = {} /\ Admitted = {} /\ \A t \in Threads : ~Member(t) /\ ~Closes(t)
    BY DEF Waiting, Admitted, Member, Closes
  <2>2. Promised = 0 /\ Gathered = 0
    BY <2>1 DEF Promised, Gathered
  <2> QED
    BY <1>2, <2>1, <2>2 DEF CohortInv, CohortCounts, CohortSignals, Signalled, Waits
<1> QED
  BY <1>3, <1>4, <1>5, <1>6

LEMMA InitCounts == Init => CountsInv
<1> SUFFICES ASSUME Init
             PROVE  CountsInv
  OBVIOUS
<1>1. OwnerInv
  BY InitOwner
<1>2. CASE NewTest
  <2>1. /\ \A t \in Threads : pc[t] = "loop" /\ readerOrder[t] = 0 /\ ~isLocked[t] /\ i[t] = 0
        /\ m_readerCount = 0 /\ m_cohortCount = 0 /\ ~m_lastLockedReaderEvent
        /\ m_sema = IF TMutex = "Qt" THEN TMaxConcurrentReaders ELSE 0
        /\ m_cs = None /\ m_csQueue = None
    BY <1>2 DEF Init, NewTest, QueueInit
  <2>2. UnusedInv
    BY <2>1 DEF UnusedInv
  <2> QED
    BY <1>1, <2>1, <2>2, StillCounts DEF CountsInv
<1>3. CASE CrowdedTest
  <2> PICK leader \in crew \cap Readers, member \in crew \cap Readers :
        /\ leader # member
        /\ m_cs = leader
        /\ pc = [t \in Threads |-> CASE t = leader -> "rl_reraise"
                                     [] t = member -> "rl_permit"
                                     [] t \in (crew \cap Readers) \ {leader, member} -> "rl_join"
                                     [] t \in crew \cap Writers -> "wl_enter"
                                     [] OTHER -> "loop"]
        /\ readerOrder = [t \in Threads |-> CASE t = leader -> 1 [] t = member -> 2 [] OTHER -> 0]
    BY <1>3, Zenon DEF CrowdedTest
  <2>1. /\ TMutex = "Cohort" /\ m_readerCount = 0 /\ m_cohortCount = 2 /\ m_sema = 1
        /\ ~m_lastLockedReaderEvent
    BY <1>3 DEF Init, CrowdedTest, QueueInit
  <2>2. leader \in Threads /\ member \in Threads
    BY DEF Threads
  <2>3. \A t \in Threads : /\ t = leader => pc[t] = "rl_reraise" /\ readerOrder[t] = 1
                           /\ t = member => pc[t] = "rl_permit" /\ readerOrder[t] = 2
                           /\ t \notin {leader, member} =>
                                pc[t] \in {"rl_join", "wl_enter", "loop"} /\ readerOrder[t] = 0
    <3> SUFFICES ASSUME NEW t \in Threads
                 PROVE  /\ t = leader => pc[t] = "rl_reraise" /\ readerOrder[t] = 1
                        /\ t = member => pc[t] = "rl_permit" /\ readerOrder[t] = 2
                        /\ t \notin {leader, member} =>
                              pc[t] \in {"rl_join", "wl_enter", "loop"} /\ readerOrder[t] = 0
      OBVIOUS
    <3>1. pc[t] = CASE t = leader -> "rl_reraise"
                    [] t = member -> "rl_permit"
                    [] t \in (crew \cap Readers) \ {leader, member} -> "rl_join"
                    [] t \in crew \cap Writers -> "wl_enter"
                    [] OTHER -> "loop"
      OBVIOUS
    <3>2. readerOrder[t] = CASE t = leader -> 1 [] t = member -> 2 [] OTHER -> 0
      OBVIOUS
    <3>3. t \in crew \cap Readers => t \notin crew \cap Writers
      BY KindsAssumption
    <3> QED
      BY <3>1, <3>2, <3>3
  <2>4. Waiting = {member} /\ Admitted = {leader} /\ \A t \in Threads : ~Closes(t)
    BY <2>2, <2>3 DEF Waiting, Admitted, Member, Closes
  <2>5. Cardinality(Waiting) = 1 /\ Cardinality(Admitted) = 1
    BY <2>4, FS_Singleton
  <2>6. Promised = 0 /\ Gathered = 0
    BY <2>1, <2>4 DEF Promised, Gathered
  <2>7. m_cs # None /\ Leads(m_cs)
    BY <2>2, <2>3, NoneAssumption DEF Leads
  <2>8. ~Signalled /\ \A t \in Threads : pc[t] # "ru_last"
    BY <2>1, <2>3 DEF Signalled
  <2>9. CohortInv
    BY <2>1, <2>4, <2>5, <2>6, <2>7, <2>8 DEF CohortInv, CohortCounts, CohortSignals
  <2>10. UnusedInv /\ CountInv /\ FirstInv /\ FairInv /\ QtInv
    BY <2>1 DEF UnusedInv, CountInv, FirstInv, FairInv, QtInv, GroupClasses, FirstClasses
  <2> QED
    BY <1>1, <2>9, <2>10 DEF CountsInv
<1> QED
  BY <1>2, <1>3 DEF Init

LEMMA CountsInvariant == Spec => []CountsInv
  BY InitCounts, NextCounts, PTL DEF Spec

\* In a cohort class a closer is the one thread that owns the second lock.
LEMMA CloserOwns ==
    ASSUME OwnerInv, TMutex = "Cohort", NEW t \in Threads, Closes(t)
    PROVE  m_cs = t /\ cohortCount[t] \in Nat \ {0}
<1>1. OrderOk(t) /\ (m_cs = t <=> OwnsCs(t)) /\ cohortCount \in [Threads -> Int]
  BY DEF OwnerInv, OrderInv, CsInv, Typed, CohortTyped
<1>2. m_cs = t
  BY <1>1, CsPlacesOfClass DEF OwnsCs, Closes
<1> QED
  BY <1>1, <1>2 DEF OrderOk, Closes

\* Every variable of the tests of the nine classes has its type; the counts of
\* readers, of a cohort and of permits never fall below 0.
THEOREM TypeCorrect == Spec => []TypeOK
<1>1. CountsInv => TypeOK
  <2> SUFFICES ASSUME CountsInv
               PROVE  TypeOK
    OBVIOUS
  <2>1. OwnerInv /\ UnusedInv /\ CountInv /\ FirstInv /\ FairInv /\ QtInv /\ CohortInv
    BY DEF CountsInv
  <2>2. Typed /\ \A t \in Threads : OrderOk(t)
    BY <2>1 DEF OwnerInv, OrderInv
  <2>3. m_readerCount \in Nat
    <3>1. m_readerCount \in Int
      BY <2>2 DEF Typed, QueueTyped
    <3>2. CASE TMutex \in GroupClasses
      <4>1. Counted \in SUBSET Threads
        BY DEF Counted
      <4> QED
        BY <2>1, <3>2, <4>1, Finite DEF CountInv
    <3>3. CASE TMutex = "Cohort"
      BY <2>1, <3>1, <3>3 DEF OwnerInv, OrderInv, GatherInv
    <3>4. CASE TMutex \notin GroupClasses \cup {"Cohort"}
      BY <2>1, <3>4 DEF UnusedInv
    <3> QED
      BY <3>2, <3>3, <3>4
  <2>4. m_cohortCount \in Nat
    <3>1. CASE TMutex = "Cohort" /\ \A t \in Threads : pc[t] # "rl_size"
      <4>1. Admitted \in SUBSET Threads
        BY DEF Admitted
      <4>2. Cardinality(Admitted) \in Nat
        BY <4>1, Finite
      <4>3. Promised \in Nat
        BY <2>1, <3>1, CloserOwns DEF Promised
      <4>4. m_sema \in Nat
        BY <2>1, <2>2, <3>1 DEF CohortInv, CohortCounts, Typed, QueueTyped
      <4> QED
        BY <2>1, <3>1, <4>2, <4>3, <4>4 DEF CohortInv, CohortCounts
    <3>2. ASSUME TMutex = "Cohort", NEW t \in Threads, pc[t] = "rl_size"
          PROVE  m_cohortCount = 0
      <4>1. m_cs = t /\ ~Leads(t)
        BY <2>1, <3>2, CloserOwns DEF Closes, Leads
      <4> QED
        BY <2>1, <3>2, <4>1 DEF CohortInv, CohortCounts
    <3> QED
      BY <2>1, <3>1, <3>2 DEF UnusedInv
  <2>5. m_sema \in Nat /\ (TMutex = "Qt" => m_sema <= TMaxConcurrentReaders)
    <3>1. m_sema \in Int
      BY <2>2 DEF Typed, QueueTyped
    <3>2. CASE TMutex = "Cohort"
      BY <2>1, <3>1, <3>2 DEF CohortInv, CohortCounts
    <3>3. CASE TMutex = "Qt"
      <4>1. ReadersInside \in SUBSET Threads
        BY DEF ReadersInside
      <4>2. Cardinality(ReadersInside) \in Nat
        BY <4>1, Finite
      <4>3. Collected \in Nat /\ TMaxConcurrentReaders \in Nat
        BY <2>2, QueueAssumption DEF Collected, Typed, QueueTyped
      <4> QED
        BY <2>1, <3>1, <3>3, <4>2, <4>3 DEF QtInv
    <3> QED
      BY <2>1, <3>2, <3>3 DEF UnusedInv
  <2>6. readerOrder \in [Threads -> Nat] /\ cohortCount \in [Threads -> Nat]
    BY <2>2 DEF OrderOk, Typed, CohortTyped
  <2> QED
    BY <2>2, <2>3, <2>4, <2>5, <2>6
       DEF TypeOK, Typed, PcTyped, FlagsTyped, QueueTyped, CohortTyped, TicketsTyped, HarnessTyped
<1> QED
  BY <1>1, CountsInvariant, PTL

\* While a member of a cohort is in, its leader owns the second lock.
LEMMA MemberHeld ==
    ASSUME OwnerInv, CohortInv, TMutex = "Cohort", NEW r \in Threads, Member(r)
    PROVE  m_cs \in Threads /\ (pc[m_cs] = "ru_wait" \/ Leads(m_cs))
<1>1. \A t \in Threads : ~Closes(t)
  BY DEF CohortInv, CohortCounts
<1>2. m_cohortCount # 0
  <2>1. Admitted \in SUBSET Threads /\ Admitted # {}
    BY DEF Admitted
  <2>2. Cardinality(Admitted) \in Nat \ {0}
    BY <2>1, Finite
  <2>3. Promised = 0
    BY <1>1 DEF Promised
  <2>4. m_sema \in Int /\ m_sema >= 0 /\ m_cohortCount = m_sema + Promised + Cardinality(Admitted)
    BY <1>1 DEF CohortInv, CohortCounts, Closes, OwnerInv, Typed, QueueTyped
  <2> QED
    BY <2>2, <2>3, <2>4
<1>3. m_cs \in Threads /\ (pc[m_cs] \in {"rl_open", "ru_wait"} \/ Leads(m_cs))
  BY <1>2 DEF CohortInv, CohortCounts, OwnerInv, Typed, FlagsTyped
<1> QED
  BY <1>1, <1>3 DEF Closes

\* While a reader that came in past a writer reads, the second lock is not
\* free: a first reader or a leader has it, or permits are out (Qt).
THEOREM ReadersKeepWritersOut == Spec => []ReadersHoldWriterLock
<1>1. CountsInv => ReadersHoldWriterLock
  <2> SUFFICES ASSUME CountsInv, NEW r \in Threads, pc[r] = "reading"
               PROVE  CASE TMutex = "Qt" ->
                              m_sema + Cardinality(At({"reading"})) <= TMaxConcurrentReaders
                        [] TMutex = "Fair" -> m_cs # None
                        [] TMutex = "FairCs" \/ isLocked[r] -> m_cs # None /\ isFirstReader[m_cs]
                        [] readerOrder[r] # 0 ->
                              m_cs # None /\ pc[m_cs] \in {"rl_reraise", "reading", "ru_count", "ru_wait"}
                        [] OTHER -> TRUE
    BY DEF ReadersHoldWriterLock, At
  <2>1. OwnerInv /\ FirstInv /\ FairInv /\ QtInv /\ CohortInv
    BY DEF CountsInv
  <2>2. LockedOk(r) /\ OrderOk(r) /\ Typed
    BY <2>1 DEF OwnerInv, MarksInv, OrderInv
  <2>3. TMutex = "Qt" => m_sema + Cardinality(At({"reading"})) <= TMaxConcurrentReaders
    <3> SUFFICES ASSUME TMutex = "Qt"
                 PROVE  m_sema + Cardinality(At({"reading"})) <= TMaxConcurrentReaders
      OBVIOUS
    <3>1. At({"reading"}) = ReadersInside /\ ReadersInside \in SUBSET Threads
      BY DEF ReadersInside, At
    <3>2. Cardinality(ReadersInside) \in Nat
      BY <3>1, Finite
    <3>3. Collected \in Nat /\ TMaxConcurrentReaders \in Nat /\ m_sema \in Int
      BY <2>2, QueueAssumption DEF Collected, Typed, QueueTyped
    <3>4. m_sema + Cardinality(ReadersInside) <= TMaxConcurrentReaders
      BY <2>1, <3>2, <3>3 DEF QtInv
    <3> QED
      BY <3>1, <3>4
  <2>4. TMutex = "Fair" => m_cs # None
    BY <2>1 DEF FairInv, InGroup, Counts
  <2>5. TMutex = "FairCs" \/ isLocked[r] => m_cs # None /\ isFirstReader[m_cs]
    BY <2>1, <2>2 DEF FirstInv, InGroup, Counts, GroupHeld, LockedOk, FirstClasses
  <2>6. readerOrder[r] # 0 =>
            m_cs # None /\ pc[m_cs] \in {"rl_reraise", "reading", "ru_count", "ru_wait"}
    <3> SUFFICES ASSUME readerOrder[r] # 0
                 PROVE  m_cs # None /\ pc[m_cs] \in {"rl_reraise", "reading", "ru_count", "ru_wait"}
      OBVIOUS
    <3>1. TMutex = "Cohort" /\ Member(r)
      BY <2>2 DEF OrderOk, Member
    <3>2. m_cs \in Threads /\ (pc[m_cs] = "ru_wait" \/ Leads(m_cs))
      BY <2>1, <3>1, MemberHeld
    <3> QED
      BY <3>2, NoneAssumption DEF Leads
  <2> QED
    BY <2>3, <2>4, <2>5, <2>6
<1> QED
  BY <1>1, CountsInvariant, PTL

LEMMA IntervalSize == \A n \in Nat : Cardinality(1..n) = n
<1> SUFFICES ASSUME NEW n \in Nat
             PROVE  Cardinality(1..n) = n
  OBVIOUS
<1> QED
  BY FS_Interval

\* Each reader that waits for a permit is due one, and m_cohortCount is the
\* number of members that the leader waits for: no permit is lost or made.
THEOREM CohortsAreWhole == Spec => []CohortIsWhole
<1>1. CountsInv => CohortIsWhole
  <2> SUFFICES ASSUME CountsInv, TMutex = "Cohort"
               PROVE  CohortIsWhole
    BY DEF CohortIsWhole
  <2>1. OwnerInv /\ CohortInv
    BY DEF CountsInv
  <2> DEFINE promised == UNION {1..cohortCount[t] - 1 : t \in Closing}
             inside == {t \in Threads : readerOrder[t] # 0 /\
                                        pc[t] \in {"rl_reraise", "reading", "ru_count"}}
  <2>2. \A t \in Threads : t \in Closing <=> Closes(t)
    BY DEF Closing, At, Closes
  <2>3. Cardinality(promised) = Promised
    <3>1. CASE \E t \in Threads : Closes(t)
      <4>1. m_cs \in Threads /\ Closes(m_cs) /\ cohortCount[m_cs] \in Nat \ {0}
        BY <2>1, <3>1, CloserOwns
      <4>2. Closing = {m_cs}
        BY <2>1, <2>2, <4>1, CloserOwns DEF Closing, At
      <4>3. promised = 1..cohortCount[m_cs] - 1
        BY <4>2
      <4>4. Promised = cohortCount[m_cs] - 1 /\ cohortCount[m_cs] - 1 \in Nat
        BY <4>1 DEF Promised
      <4> HIDE DEF promised
      <4> QED
        BY <4>3, <4>4, IntervalSize
    <3>2. CASE \A t \in Threads : ~Closes(t)
      <4>1. Closing = {}
        BY <2>2, <3>2 DEF Closing, At
      <4>2. promised = {} /\ Promised = 0
        BY <3>2, <4>1 DEF Promised
      <4> HIDE DEF promised
      <4> QED
        BY <4>2, FS_EmptySet
    <3> QED
      BY <3>1, <3>2
  <2>4. At({"rl_permit"}) = Waiting
    BY DEF At, Waiting
  <2>5. inside \cup At({"rl_open"}) = Admitted
    BY DEF At, Admitted, Member
  <2>6. At({"rl_size"}) = {} <=> \A t \in Threads : pc[t] # "rl_size"
    BY DEF At
  <2>7. /\ Cardinality(Waiting) = m_sema + Promised + Gathered
        /\ At({"rl_size"}) = {} => m_cohortCount = m_sema + Promised + Cardinality(Admitted)
    BY <2>1, <2>6 DEF CohortInv, CohortCounts
  <2> HIDE DEF promised, inside
  <2>8. /\ Cardinality(At({"rl_permit"})) = m_sema + Cardinality(promised) + Gathered
        /\ At({"rl_size"}) = {} => m_cohortCount = m_sema + Cardinality(promised)
                                                   + Cardinality(inside \cup At({"rl_open"}))
    BY <2>3, <2>4, <2>5, <2>7
  <2> USE DEF promised, inside
  <2> QED
    BY <2>8 DEF CohortIsWhole, Gathered
<1> QED
  BY <1>1, CountsInvariant, PTL
=============================================================================
