------------------------- MODULE QueueRefinementProofs -------------------------
(***************************************************************************)
(* That each of the nine classes implements the abstract read-write lock,  *)
(* for any finite set of threads, and what that rests on beside the two    *)
(* locks and the counts: what the flags and the request say, who is        *)
(* registered, how far a writer has scanned, how old a ticket is.          *)
(***************************************************************************)
EXTENDS QueueCountsProofs

-----------------------------------------------------------------------------
(* What the flags, the request and the event of the writer say, in the     *)
(* classes that have them: where their threads are.                        *)

FlagPlaces(mutex) ==
    CASE mutex = "Ticketed" -> {"rl_last", "rl_check", "rl_yield", "rl_unqueue", "reading"}
      [] mutex \in {"Cohort"} \cup SingleClasses -> {"rl_check", "rl_yield", "reading"}
      [] OTHER -> {}
AskPlaces(mutex) ==
    CASE mutex = "Ticketed" -> {"wl_unqueue", "wl_scan", "wl_wait", "writing"}
      [] mutex \in {"Cohort"} \cup SingleClasses -> {"wl_scan", "wl_sleep", "wl_wait", "writing"}
      [] OTHER -> {}
BlockPlaces(mutex) ==
    IF mutex \in SingleClasses
    THEN {"wl_request", "wl_scan", "wl_sleep", "wl_wait", "writing", "wu_signal"}
    ELSE {}

Raised(t) == pc[t] \in FlagPlaces(TMutex)
Asks(t) == pc[t] \in AskPlaces(TMutex)
Blocks(t) == pc[t] \in BlockPlaces(TMutex)

LEMMA FlagPlacesOfClass ==
    /\ FlagPlaces("Ticketed") = {"rl_last", "rl_check", "rl_yield", "rl_unqueue", "reading"}
    /\ AskPlaces("Ticketed") = {"wl_unqueue", "wl_scan", "wl_wait", "writing"}
    /\ \A c \in {"Cohort"} \cup SingleClasses :
        /\ FlagPlaces(c) = {"rl_check", "rl_yield", "reading"}
        /\ AskPlaces(c) = {"wl_scan", "wl_sleep", "wl_wait", "writing"}
    /\ \A c : c \notin {"Ticketed", "Cohort"} \cup SingleClasses =>
        FlagPlaces(c) = {} /\ AskPlaces(c) = {}
  BY DEF FlagPlaces, AskPlaces, SingleClasses

FlagsInv ==
    /\ \A t \in Threads : isReading[t] <=> Raised(t)
    /\ m_writeRequested <=> \E t \in Threads : Asks(t)
    /\ m_writerDoneEvent <=> \A t \in Threads : ~Blocks(t)

\* A writer that asks, or that has reset the event, owns the second lock.
LEMMA OneAsks ==
    ASSUME OwnerInv
    PROVE  \A t \in Threads : Asks(t) \/ Blocks(t) => m_cs = t
<1> SUFFICES ASSUME NEW t \in Threads, Asks(t) \/ Blocks(t)
             PROVE  m_cs = t
  OBVIOUS
<1>1. TMutex \in {"Ticketed", "Cohort"} \cup SingleClasses
  BY FlagPlacesOfClass DEF Asks, Blocks, BlockPlaces
<1>2. m_cs = t <=> OwnsCs(t)
  BY <1>1 DEF OwnerInv, CsInv, SingleClasses
<1>3. pc[t] \in CsPlaces(TMutex)
  <2>1. CASE TMutex = "Ticketed"
    BY <2>1, CsPlacesOfClass, FlagPlacesOfClass DEF Asks, Blocks, BlockPlaces, SingleClasses
  <2>2. CASE TMutex = "Cohort"
    <3>1. pc[t] # "wl_sleep"
      BY <2>2, CohortPlaces DEF OwnerInv, PlacesInv, PlacesOf
    <3> QED
      BY <2>2, <3>1, CsPlacesOfClass, FlagPlacesOfClass DEF Asks, Blocks, BlockPlaces, SingleClasses
  <2>3. CASE TMutex \in SingleClasses
    <3>1. /\ AskPlaces(TMutex) = {"wl_scan", "wl_sleep", "wl_wait", "writing"}
          /\ CsPlaces(TMutex) = {"wl_reset", "wl_request", "wl_scan", "wl_sleep", "wl_wait",
                                 "writing", "wu_signal", "wu_leave"}
      BY <2>3, CsPlacesOfClass, FlagPlacesOfClass
    <3> QED
      BY <2>3, <3>1 DEF Asks, Blocks, BlockPlaces
  <2> QED
    BY <1>1, <2>1, <2>2, <2>3
<1> QED
  BY <1>2, <1>3 DEF OwnsCs

\* What a step of thread t does to them.
FlagsMove(t) ==
    /\ isReading'[t] <=> Raised(t)'
    /\ \/ (m_writeRequested' <=> m_writeRequested) /\ (Asks(t)' <=> Asks(t))
       \/ m_writeRequested' /\ Asks(t)'
       \/ ~m_writeRequested' /\ Asks(t) /\ ~Asks(t)'
    /\ \/ (m_writerDoneEvent' <=> m_writerDoneEvent) /\ (Blocks(t)' <=> Blocks(t))
       \/ ~m_writerDoneEvent' /\ Blocks(t)'
       \/ m_writerDoneEvent' /\ Blocks(t) /\ ~Blocks(t)'

LEMMA FlagsKept ==
    ASSUME OwnerInv, FlagsInv, NEW t \in Threads, Step(t), FlagsMove(t)
    PROVE  FlagsInv'
<1>1. OnlyMoves(t) /\ UNCHANGED TMutex /\ OwnerInv'
  BY OwnerStep
<1>2. \A u \in Threads \ {t} : /\ isReading'[u] = isReading[u]
                               /\ Raised(u)' <=> Raised(u)
                               /\ Asks(u)' <=> Asks(u)
                               /\ Blocks(u)' <=> Blocks(u)
  <2> SUFFICES ASSUME NEW u \in Threads \ {t}
               PROVE  /\ isReading'[u] = isReading[u]
                      /\ Raised(u)' <=> Raised(u)
                      /\ Asks(u)' <=> Asks(u)
                      /\ Blocks(u)' <=> Blocks(u)
    OBVIOUS
  <2>1. isReading'[u] = isReading[u] /\ (pc'[u] = pc[u] \/ Roused(u))
    BY <1>1 DEF OnlyMoves, FlagsOfOthers
  <2>2. CASE pc'[u] = pc[u]
    BY <1>1, <2>1, <2>2 DEF Raised, Asks, Blocks
  <2>3. CASE Roused(u)
    <3>1. \A c : {"rl_asleep", "rl_raise"} \cap (FlagPlaces(c) \cup AskPlaces(c) \cup BlockPlaces(c)) = {}
      BY DEF FlagPlaces, AskPlaces, BlockPlaces
    <3> QED
      BY <1>1, <2>1, <2>3, <3>1 DEF Roused, Raised, Asks, Blocks
  <2> QED
    BY <2>1, <2>2, <2>3
<1>3. \A u, v \in Threads : (Asks(u) /\ Asks(v)) \/ (Blocks(u) /\ Blocks(v)) => u = v
  BY OneAsks
<1>4. /\ \A u \in Threads : isReading[u] <=> Raised(u)
      /\ m_writeRequested <=> \E u \in Threads : Asks(u)
      /\ m_writerDoneEvent <=> \A u \in Threads : ~Blocks(u)
  BY DEF FlagsInv
<1>5. \A u \in Threads : isReading'[u] <=> Raised(u)'
  BY <1>2, <1>4 DEF FlagsMove
<1>6. m_writeRequested' <=> \E u \in Threads : Asks(u)'
  BY <1>2, <1>3, <1>4 DEF FlagsMove
<1>7. m_writerDoneEvent' <=> \A u \in Threads : ~Blocks(u)'
  BY <1>2, <1>3, <1>4 DEF FlagsMove
<1> QED
  BY <1>5, <1>6, <1>7 DEF FlagsInv

\* Without store buffers a store is in memory at once, and a load reads memory.
LEMMA StoreEffect ==
    ASSUME Typed, NEW t \in Threads
    PROVE  /\ \A val : Store(t, "isReading", val) =>
                isReading' = [isReading EXCEPT ![t] = val] /\ UNCHANGED m_writeRequested
           /\ \A val : Store(t, "m_writeRequested", val) =>
                m_writeRequested' = val /\ UNCHANGED isReading
           /\ WriteRequestedSeenBy(t) = m_writeRequested
<1>1. ~(Len(storeBuffer[t]) < BufferSize)
  BY MemoryAssumption DEF Typed, FlagsTyped
<1>2. \A loc, val : Store(t, loc, val) => Commit(t, loc, val)
  BY <1>1 DEF Store
<1>3. Buffered(t, "m_writeRequested") = {}
  BY DEF Buffered, Typed, FlagsTyped
<1> QED
  BY <1>2, <1>3 DEF Commit, WriteRequestedSeenBy

LEMMA FlagEffect ==
    ASSUME Typed, NEW t \in Threads, NEW val \in BOOLEAN, NEW from, NEW to,
           StoreFlag(t, val, from, to)
    PROVE  /\ pc[t] = from /\ pc'[t] = to
           /\ isReading'[t] <=> val
           /\ UNCHANGED <<m_writeRequested, m_writerDoneEvent>>
<1>1. pc \in [Threads -> Places] /\ isReading \in [Threads -> BOOLEAN]
  BY DEF Typed, PcTyped, FlagsTyped
<1>2. Store(t, "isReading", val) /\ Goto(t, from, to) /\ UNCHANGED m_writerDoneEvent
  BY DEF StoreFlag, events
<1>3. isReading' = [isReading EXCEPT ![t] = val] /\ UNCHANGED m_writeRequested
  BY <1>2, StoreEffect
<1>4. isReading'[t] <=> val
  BY <1>1, <1>3, Zenon
<1> QED
  BY <1>1, <1>2, <1>3, <1>4 DEF Goto

LEMMA StepFlagsInv ==
    ASSUME OwnerInv, FlagsInv, NEW t \in Threads, Step(t)
    PROVE  FlagsInv'
<1> SUFFICES FlagsMove(t)
  BY FlagsKept
<1>1. Typed /\ Typed' /\ UNCHANGED TMutex
  BY OwnerStep DEF OwnerInv
<1>2. /\ pc \in [Threads -> Places] /\ isReading \in [Threads -> BOOLEAN]
      /\ m_writeRequested \in BOOLEAN /\ m_writerDoneEvent \in BOOLEAN
      /\ m_writeRequested' \in BOOLEAN /\ m_writerDoneEvent' \in BOOLEAN
  BY <1>1 DEF Typed, PcTyped, FlagsTyped
<1>3. isReading[t] <=> Raised(t)
  BY DEF FlagsInv
<1>4. CASE TMutex \notin {"Ticketed", "Cohort"} \cup SingleClasses
  <2>1. ~Raised(t) /\ ~Raised(t)' /\ ~Asks(t) /\ ~Asks(t)' /\ ~Blocks(t) /\ ~Blocks(t)'
    BY <1>1, <1>4, FlagPlacesOfClass DEF Raised, Asks, Blocks, BlockPlaces
  <2>2. UNCHANGED <<memory, events>>
    <3>1. Starts(t) => UNCHANGED <<memory, events>>
      BY <1>1, StartsWhere DEF Outside
    <3>2. FairStep(t) \/ FairCsStep(t) => UNCHANGED <<memory, events>>
      BY DEF FairStep, FairCsStep, FairWriteLock, FairWriteUnlock, FairReadLock, FairReadUnlock,
         FairCsWriteLock, FairCsWriteUnlock, FairCsReadLock, FairCsReadUnlock, InitTlsDataQueued,
         PushTlsData, EnterQueue, LeaveQueue, EnterWriter, LeaveWriter, EnterCs, LeaveCs,
         EnterWriterFirst, LeaveWriterFirst, CountReader, UncountReader, SignalFirstReader,
         WaitForLastReader, flags
    <3>3. QtStep(t) \/ PlainStep(t) => UNCHANGED <<memory, events>>
      BY DEF QtStep, QtWriteLock, QtWriteUnlock, QtReadLock, QtReadUnlock, CollectPermit, Collect,
         EnterQueue, LeaveQueue, TakePermit, GivePermits, PlainStep, PlainWriteLock,
         PlainWriteUnlock, PlainReadLock, PlainReadUnlock, EnterWriter, LeaveWriter, EnterCs,
         LeaveCs, flags
    <3> QED
      BY <1>4, <3>1, <3>2, <3>3, StepCases DEF CohortStep, TicketedStep, SingleStep,
         SpinSingleStep, SyncSingleStep, SingleClasses
  <2> QED
    BY <1>3, <2>1, <2>2 DEF FlagsMove, memory, events
<1>5. CASE Starts(t)
  <2>1. /\ pc[t] \in {"loop", "counting"} /\ pc'[t] \in StartPlaces /\ UNCHANGED <<memory, events>>
    BY <1>1, <1>5, StartsWhere DEF Outside
  <2>2. \A c : (StartPlaces \cup {"loop", "counting"})
                    \cap (FlagPlaces(c) \cup AskPlaces(c) \cup BlockPlaces(c)) = {}
    BY DEF StartPlaces, FlagPlaces, AskPlaces, BlockPlaces
  <2>3. ~Raised(t) /\ ~Raised(t)' /\ ~Asks(t) /\ ~Asks(t)' /\ ~Blocks(t) /\ ~Blocks(t)'
    BY <1>1, <2>1, <2>2 DEF Raised, Asks, Blocks
  <2> QED
    BY <1>3, <2>1, <2>3 DEF FlagsMove, memory, events
<1>6. ASSUME NEW from, NEW to, StoreFlag(t, TRUE, from, to)
      PROVE  /\ pc[t] = from /\ pc'[t] = to /\ isReading'[t]
             /\ UNCHANGED <<m_writeRequested, m_writerDoneEvent>>
  BY <1>1, <1>6, FlagEffect
<1>7. ASSUME NEW from, NEW to, StoreFlag(t, FALSE, from, to)
      PROVE  /\ pc[t] = from /\ pc'[t] = to /\ ~isReading'[t]
             /\ UNCHANGED <<m_writeRequested, m_writerDoneEvent>>
  BY <1>1, <1>7, FlagEffect
<1>8. /\ Store(t, "m_writeRequested", TRUE) => m_writeRequested' /\ UNCHANGED isReading
      /\ Store(t, "m_writeRequested", FALSE) => ~m_writeRequested' /\ UNCHANGED isReading
  <2>1. \A val : Store(t, "m_writeRequested", val) => m_writeRequested' = val /\ UNCHANGED isReading
    BY <1>1, StoreEffect
  <2>2. Store(t, "m_writeRequested", TRUE) => m_writeRequested' = TRUE /\ UNCHANGED isReading
    BY <2>1
  <2>3. Store(t, "m_writeRequested", FALSE) => m_writeRequested' = FALSE /\ UNCHANGED isReading
    BY <2>1
  <2> QED
    BY <2>2, <2>3
<1> USE <1>1, <1>2, <1>3 DEF FlagsMove, Goto, flags, events, memory
<1>9. CASE CohortStep(t)
  <2>1. TMutex = "Cohort"
    BY <1>9 DEF CohortStep
  <2>2. /\ Raised(t) <=> pc[t] \in {"rl_check", "rl_yield", "reading"}
        /\ Raised(t)' <=> pc'[t] \in {"rl_check", "rl_yield", "reading"}
        /\ Asks(t) <=> pc[t] \in {"wl_scan", "wl_sleep", "wl_wait", "writing"}
        /\ Asks(t)' <=> pc'[t] \in {"wl_scan", "wl_sleep", "wl_wait", "writing"}
        /\ ~Blocks(t) /\ ~Blocks(t)'
    BY <2>1, FlagPlacesOfClass DEF Raised, Asks, Blocks, BlockPlaces, SingleClasses
  <2> USE <2>2
  <2>3. CASE CohortWriteLock(t) \/ CohortWriteUnlock(t)
    BY <2>3, <1>8 DEF CohortWriteLock, CohortWriteUnlock, EnterCs, LeaveCs, RequestWrite, ScanReaders,
       FinishScan, PassReader, FindReader, WaitReaderDone, ClearRequest
  <2>4. CASE CohortReadLock(t)
    <3>1. StoreFlag(t, TRUE, "rl_raise", "rl_check") => FlagsMove(t)
      BY <1>6
    <3>2. ASSUME StoreFlag(t, FALSE, "rl_yield", "rl_signal")
          PROVE  FlagsMove(t)
      <4>1. /\ pc[t] = "rl_yield" /\ pc'[t] = "rl_signal" /\ ~isReading'[t]
            /\ UNCHANGED <<m_writeRequested, m_writerDoneEvent>>
        BY <3>2, <1>7
      <4> QED
        BY <4>1
    <3>3. StoreFlag(t, TRUE, "rl_reraise", "reading") => FlagsMove(t)
      BY <1>6
    <3>4. InitTlsData(t) \/ EnterCs(t, "rl_enter", "rl_close") => FlagsMove(t)
      BY DEF InitTlsData, PushTlsData, EnterCs, LeaveCs
    <3>5. CheckRequest(t, "rl_check", "rl_yield", "reading") => FlagsMove(t)
      BY DEF CheckRequest
    <3>6. SetReaderDone(t, "rl_signal", "rl_join") => FlagsMove(t)
      BY DEF SetReaderDone
    <3>7. JoinCohort(t) \/ OpenCohort(t) \/ TakePermit(t, "rl_permit", "rl_reraise") => FlagsMove(t)
      BY DEF JoinCohort, OpenCohort, GivePermits, TakePermit
    <3>8. CloseCohort(t) /\ UNCHANGED flags => FlagsMove(t)
      BY DEF CloseCohort
    <3> QED
      BY <2>4, <3>1, <3>2, <3>3, <3>4, <3>5, <3>6, <3>7, <3>8 DEF CohortReadLock
  <2>5. CASE CohortReadUnlock(t)
    <3>1. ASSUME StoreFlag(t, FALSE, "reading", IF readerOrder[t] # 0 THEN "ru_count" ELSE "ru_check")
          PROVE  FlagsMove(t)
      <4>1. /\ pc[t] = "reading" /\ pc'[t] = IF readerOrder[t] # 0 THEN "ru_count" ELSE "ru_check"
            /\ ~isReading'[t] /\ UNCHANGED <<m_writeRequested, m_writerDoneEvent>>
        BY <3>1, <1>7
      <4> QED
        BY <4>1
    <3>2. CheckRequest(t, "ru_check", "ru_signal", "loop") => FlagsMove(t)
      BY DEF CheckRequest
    <3>3. LeaveCohort(t) => FlagsMove(t)
      BY DEF LeaveCohort
    <3>4. ASSUME \/ LeaveCs(t, "ru_release", "ru_check") \/ SetReaderDone(t, "ru_signal", "loop")
             \/ SignalFirstReader(t, "ru_last", "ru_check")
             \/ WaitForLastReader(t, "ru_wait", "ru_release")
          PROVE  FlagsMove(t)
      BY <3>4 DEF LeaveCs, SetReaderDone, SignalFirstReader, WaitForLastReader
    <3> QED
      BY <2>5, <3>1, <3>2, <3>3, <3>4 DEF CohortReadUnlock
  <2> QED
    BY <1>9, <2>3, <2>4, <2>5 DEF CohortStep
<1>10. CASE TicketedStep(t)
  <2>1. TMutex = "Ticketed"
    BY <1>10 DEF TicketedStep
  <2>2. /\ Raised(t) <=> pc[t] \in {"rl_last", "rl_check", "rl_yield", "rl_unqueue", "reading"}
        /\ Raised(t)' <=> pc'[t] \in {"rl_last", "rl_check", "rl_yield", "rl_unqueue", "reading"}
        /\ Asks(t) <=> pc[t] \in {"wl_unqueue", "wl_scan", "wl_wait", "writing"}
        /\ Asks(t)' <=> pc'[t] \in {"wl_unqueue", "wl_scan", "wl_wait", "writing"}
        /\ ~Blocks(t) /\ ~Blocks(t)'
    BY <2>1, FlagPlacesOfClass DEF Raised, Asks, Blocks, BlockPlaces, SingleClasses
  <2> USE <2>2
  <2>3. CASE TicketedWriteLock(t) \/ TicketedWriteUnlock(t)
    BY <2>3, <1>8 DEF TicketedWriteLock, TicketedWriteUnlock, EnterQueue, LeaveQueue, EnterWriter,
       EnterCs, LeaveCs, RequestQueued, ScanReaders, FinishScan, PassReader, FindReader,
       WaitReaderDone, ClearRequest, DrawTicket
  <2>4. CASE TicketedReadLock(t)
    <3>1. StoreFlag(t, TRUE, "rl_raise", "rl_last") => FlagsMove(t)
      BY <1>6
    <3>2. ASSUME StoreFlag(t, FALSE, "rl_yield", "rl_signal")
          PROVE  FlagsMove(t)
      <4>1. /\ pc[t] = "rl_yield" /\ pc'[t] = "rl_signal" /\ ~isReading'[t]
            /\ UNCHANGED <<m_writeRequested, m_writerDoneEvent>>
        BY <3>2, <1>7
      <4> QED
        BY <4>1
    <3>3. StoreFlag(t, TRUE, "rl_reraise", "rl_unqueue") => FlagsMove(t)
      BY <1>6
    <3>4. InitTlsDataQueued(t, "rl_raise") => FlagsMove(t)
      BY DEF InitTlsDataQueued, PushTlsData, EnterQueue, LeaveQueue, EnterWriter, LeaveWriter,
         EnterCs, LeaveCs
    <3>5. JoinQueued(t) => FlagsMove(t)
      BY DEF JoinQueued, CountReader
    <3>6. SetReaderDone(t, "rl_signal", "rl_queue") \/ EnterWriterFirst(t, "rl_writer", "rl_ticket")
            => FlagsMove(t)
      BY DEF SetReaderDone, EnterWriterFirst, EnterCs
    <3>7. EnterQueue(t, "rl_queue", "rl_count") \/ LeaveQueue(t, "rl_unqueue", "reading") => FlagsMove(t)
      BY DEF EnterQueue, LeaveQueue
    <3>8. LoadLastTicket(t) \/ CheckTicket(t) => FlagsMove(t)
      BY DEF LoadLastTicket, CheckTicket
    <3>9. DrawTicket(t, 1, "rl_ticket", "rl_store") \/ StoreTicket(t) => FlagsMove(t)
      BY DEF DrawTicket, StoreTicket
    <3> QED
      BY <2>4, <3>1, <3>2, <3>3, <3>4, <3>5, <3>6, <3>7, <3>8, <3>9 DEF TicketedReadLock
  <2>5. CASE TicketedReadUnlock(t)
    <3>1. ASSUME StoreFlag(t, FALSE, "reading", IF isLocked[t] THEN "ru_count" ELSE "ru_check")
          PROVE  FlagsMove(t)
      <4>1. /\ pc[t] = "reading" /\ pc'[t] = IF isLocked[t] THEN "ru_count" ELSE "ru_check"
            /\ ~isReading'[t] /\ UNCHANGED <<m_writeRequested, m_writerDoneEvent>>
        BY <3>1, <1>7
      <4> QED
        BY <4>1
    <3>2. CheckRequest(t, "ru_check", "ru_signal", "loop") => FlagsMove(t)
      BY DEF CheckRequest
    <3>3. LeaveQueued(t) => FlagsMove(t)
      BY DEF LeaveQueued, UncountReader
    <3>4. ASSUME \/ LeaveWriterFirst(t, "ru_release", "ru_check") \/ SetReaderDone(t, "ru_signal", "loop")
             \/ SignalFirstReader(t, "ru_last", "ru_check")
             \/ WaitForLastReader(t, "ru_wait", "ru_release")
          PROVE  FlagsMove(t)
      BY <3>4 DEF LeaveWriterFirst, LeaveCs, SetReaderDone, SignalFirstReader, WaitForLastReader
    <3> QED
      BY <2>5, <3>1, <3>2, <3>3, <3>4 DEF TicketedReadUnlock
  <2> QED
    BY <1>10, <2>3, <2>4, <2>5 DEF TicketedStep
<1>11. CASE SingleStep(t)
  <2>1. TMutex \in SingleClasses
    BY <1>11 DEF SingleStep, SpinSingleStep, SyncSingleStep, SingleClasses
  <2>2. /\ Raised(t) <=> pc[t] \in {"rl_check", "rl_yield", "reading"}
        /\ Raised(t)' <=> pc'[t] \in {"rl_check", "rl_yield", "reading"}
        /\ Asks(t) <=> pc[t] \in {"wl_scan", "wl_sleep", "wl_wait", "writing"}
        /\ Asks(t)' <=> pc'[t] \in {"wl_scan", "wl_sleep", "wl_wait", "writing"}
        /\ Blocks(t) <=> pc[t] \in {"wl_request", "wl_scan", "wl_sleep", "wl_wait", "writing", "wu_signal"}
        /\ Blocks(t)' <=>
                pc'[t] \in {"wl_request", "wl_scan", "wl_sleep", "wl_wait", "writing", "wu_signal"}
    BY <2>1, FlagPlacesOfClass DEF Raised, Asks, Blocks, BlockPlaces, SingleClasses
  <2> USE <2>2
  <2>3. ASSUME NEW busy \in {"wl_sleep", "wl_wait"}, SingleWriteLock(t, busy)
        PROVE  FlagsMove(t)
    BY <2>3, <1>8 DEF SingleWriteLock, EnterCs, ResetWriterDone, RequestWrite, FindNotReading,
       FindReading, WaitReaderDoneSet
  <2>4. ASSUME StoreFlag(t, TRUE, "rl_raise", "rl_check")
        PROVE  FlagsMove(t)
    <3>1. /\ pc[t] = "rl_raise" /\ pc'[t] = "rl_check" /\ isReading'[t]
          /\ UNCHANGED <<m_writeRequested, m_writerDoneEvent>>
      BY <2>4, <1>6
    <3> QED
      BY <3>1
  <2>5. \A to \in {"rl_wait", "rl_signal"} : StoreFlag(t, FALSE, "rl_yield", to) => FlagsMove(t)
    BY <1>7
  <2>6. \A to \in {"loop", "ru_check"} : StoreFlag(t, FALSE, "reading", to) => FlagsMove(t)
    BY <1>7
  <2>7. CheckRequest(t, "rl_check", "rl_yield", "reading") \/ CheckRequest(t, "ru_check", "ru_signal", "loop")
          => FlagsMove(t)
    BY DEF CheckRequest
  <2>8. WaitWriterDone(t) \/ Sleep(t) \/ SetReaderDone(t, "rl_signal", "rl_wait")
        \/ SetReaderDone(t, "ru_signal", "loop")
          => FlagsMove(t)
    BY DEF WaitWriterDone, Sleep, SetReaderDone
  <2>9. UltraSpinReadLock(t) \/ UltraSpinReadUnlock(t) \/ UltraFastReadLock(t)
        \/ UltraFastReadUnlock(t) \/ Sleep(t)
         => FlagsMove(t)
    BY <2>4, <2>5, <2>6, <2>7, <2>8 DEF UltraSpinReadLock, UltraSpinReadUnlock, UltraFastReadLock,
       UltraFastReadUnlock
  <2>10. CASE UltraSpinWriteUnlock(t) \/ UltraFastWriteUnlock(t)
    BY <2>10, <1>8 DEF UltraSpinWriteUnlock, UltraFastWriteUnlock, ClearRequest, SetWriterDone, LeaveCs
  <2> QED
    BY <1>11, <2>3, <2>10, <2>9 DEF SingleStep, SpinSingleStep, SyncSingleStep
<1> HIDE <1>1, <1>2, <1>3
<1> QED
  BY <1>1, <1>4, <1>5, <1>9, <1>10, <1>11, StepCases DEF FairStep, FairCsStep, QtStep, PlainStep, PlainClasses,
     SingleClasses

LEMMA InitFlags == Init => FlagsInv
<1> SUFFICES ASSUME Init
             PROVE  FlagsInv
  OBVIOUS
<1>1. \A t \in Threads : ~isReading[t]
  BY DEF Init
<1>2. ~m_writeRequested /\ m_writerDoneEvent
  BY DEF Init, NewTest, CrowdedTest
<1>3. \A t \in Threads : ~Raised(t) /\ ~Asks(t) /\ ~Blocks(t)
  <2>1. \A t \in Threads : pc[t] \in {"loop", "rl_reraise", "rl_permit", "rl_join", "wl_enter"}
    <3>1. CASE NewTest
      BY <3>1 DEF NewTest
    <3>2. CASE CrowdedTest
      BY <3>2 DEF CrowdedTest
    <3> QED
      BY <3>1, <3>2 DEF Init
  <2>2. \A c : {"loop", "rl_reraise", "rl_permit", "rl_join", "wl_enter"}
                    \cap (FlagPlaces(c) \cup AskPlaces(c) \cup BlockPlaces(c)) = {}
    BY DEF FlagPlaces, AskPlaces, BlockPlaces
  <2> QED
    BY <2>1, <2>2 DEF Raised, Asks, Blocks
<1> QED
  BY <1>1, <1>2, <1>3 DEF FlagsInv

LEMMA NextFlags ==
    ASSUME OwnerInv, FlagsInv, [Next]_allVars
    PROVE  FlagsInv'
<1>1. CASE MainStep \/ Timeout \/ UNCHANGED allVars
  <2>1. UNCHANGED <<TMutex, pc, isReading, m_writeRequested, m_writerDoneEvent>>
    BY <1>1 DEF MainStep, Timeout, OpenGate, Join, SetDone, Stop, allVars, vars, memory, events
  <2> QED
    BY <2>1 DEF FlagsInv, Raised, Asks, Blocks
<1>2. ASSUME NEW t \in Threads, Step(t)
      PROVE  FlagsInv'
  BY <1>2, StepFlagsInv
<1> QED
  BY <1>1, <1>2 DEF Next

LEMMA FlagsInvariant == Spec => []FlagsInv
  BY InitFlags, NextFlags, OwnerInvariant, PTL DEF Spec

\* When no thread is in the middle of an operation, every lock is free, every
\* count is 0, every permit is back, and no flag, request or signal is left:
\* the next operation meets what the first one met.
THEOREM ComesToRestAsNew == Spec => []RestsAsNew
<1>1. CountsInv /\ FlagsInv => RestsAsNew
  <2> SUFFICES ASSUME CountsInv, FlagsInv, \A t \in Threads : pc[t] \in IdlePlaces
               PROVE  /\ m_cs = None /\ m_csQueue = None
                      /\ ~m_writeRequested /\ m_writerDoneEvent
                      /\ ~m_lastLockedReaderEvent
                      /\ m_readerCount = 0 /\ m_cohortCount = 0
                      /\ m_sema = IF TMutex = "Qt" THEN TMaxConcurrentReaders ELSE 0
                      /\ \A t \in Threads : /\ ~isReading[t] /\ ~isLocked[t] /\ ~isFirstReader[t]
                                            /\ readerOrder[t] = 0
    BY DEF RestsAsNew
  <2>1. /\ OwnerInv /\ UnusedInv /\ CountInv /\ FirstInv /\ FairInv /\ QtInv /\ CohortInv
        /\ Typed /\ TMutex \in Classes
    BY DEF CountsInv, OwnerInv, Typed, FlagsTyped
  <2>2. \A t \in Threads : FirstOk(t) /\ LockedOk(t) /\ OrderOk(t)
    BY <2>1 DEF OwnerInv, MarksInv, OrderInv
  <2>3. \A t \in Threads : /\ pc[t] \in {"loop", "counting", "exited"}
                           /\ ~isLocked[t] /\ ~isFirstReader[t] /\ readerOrder[t] = 0
    BY <2>2 DEF FirstOk, LockedOk, OrderOk, IdlePlaces
  <2>4. m_csQueue = None
    <3>1. \A c : QueuePlaces(c) \cap IdlePlaces = {}
      BY DEF QueuePlaces, IdlePlaces
    <3>2. m_csQueue \in Threads \cup {None}
      BY <2>1 DEF Typed, QueueTyped
    <3> QED
      BY <2>1, <3>1, <3>2 DEF OwnerInv, QueueInv
  <2>5. \A t \in Threads : ~Counts(t) /\ ~InGroup(t) /\ ~HoldsAlone(t) /\ ~HasAll(t)
    BY <2>3 DEF Counts, InGroup, HoldsAlone, HasAll
  <2>6. m_cs = None
    <3>1. CASE TMutex = "Fair"
      BY <2>1, <2>5, <3>1 DEF FairInv
    <3>2. CASE TMutex # "Fair"
      <4>1. \A c : CsPlaces(c) \cap IdlePlaces = {}
        BY DEF CsPlaces, IdlePlaces
      <4>2. \A t \in Threads : ~OwnsCs(t)
        BY <2>3, <4>1 DEF OwnsCs, Leads
      <4>3. m_cs \in Threads \cup {None}
        BY <2>1 DEF Typed, FlagsTyped
      <4> QED
        BY <2>1, <3>2, <4>2, <4>3 DEF OwnerInv, CsInv
    <3> QED
      BY <3>1, <3>2
  <2>7. m_cohortCount = 0
    BY <2>1, <2>6 DEF CohortInv, CohortCounts, UnusedInv
  <2>8. m_readerCount = 0
    <3>1. CASE TMutex \in GroupClasses
      <4>1. Counted = {}
        BY <2>5 DEF Counted
      <4> QED
        BY <2>1, <3>1, <4>1, FS_EmptySet DEF CountInv
    <3>2. CASE TMutex = "Cohort"
      BY <2>1, <2>3, <3>2 DEF OwnerInv, OrderInv, GatherInv, GatherPlaces
    <3> QED
      BY <2>1, <3>1, <3>2 DEF UnusedInv
  <2>9. ~m_lastLockedReaderEvent
    <3>1. CASE TMutex \in FirstClasses
      BY <2>1, <2>3, <3>1 DEF FirstInv, Signalled, Waits
    <3>2. CASE TMutex = "Cohort"
      BY <2>1, <2>3, <3>2 DEF CohortInv, CohortSignals, Signalled, Waits
    <3> QED
      BY <2>1, <3>1, <3>2 DEF UnusedInv
  <2>10. m_sema = IF TMutex = "Qt" THEN TMaxConcurrentReaders ELSE 0
    <3>1. m_sema \in Int
      BY <2>1 DEF Typed, QueueTyped
    <3>2. CASE TMutex = "Qt"
      <4>1. ReadersInside = {} /\ Collected = 0
        BY <2>3, <2>4 DEF ReadersInside, Collected
      <4>2. Cardinality(ReadersInside) = 0
        BY <4>1, FS_EmptySet
      <4> QED
        BY <2>1, <2>5, <3>1, <3>2, <4>1, <4>2 DEF QtInv
    <3>3. CASE TMutex = "Cohort"
      <4>1. Waiting = {}
        BY <2>3 DEF Waiting
      <4>2. Cardinality(Waiting) = 0
        BY <4>1, FS_EmptySet
      <4>3. Promised = 0 /\ Gathered = 0
        BY <2>3, <2>8 DEF Promised, Gathered, Closes
      <4> QED
        BY <2>1, <3>1, <3>3, <4>2, <4>3 DEF CohortInv, CohortCounts
    <3> QED
      BY <2>1, <3>2, <3>3 DEF UnusedInv
  <2>11. ~m_writeRequested /\ m_writerDoneEvent /\ \A t \in Threads : ~isReading[t]
    <3>1. \A c : {"loop", "counting", "exited"} \cap (FlagPlaces(c) \cup AskPlaces(c) \cup BlockPlaces(c)) = {}
      BY DEF FlagPlaces, AskPlaces, BlockPlaces
    <3>2. \A t \in Threads : ~Raised(t) /\ ~Asks(t) /\ ~Blocks(t)
      BY <2>3, <3>1 DEF Raised, Asks, Blocks
    <3> QED
      BY <3>2 DEF FlagsInv
  <2> QED
    BY <2>3, <2>4, <2>6, <2>7, <2>8, <2>9, <2>10, <2>11
<1> QED
  BY <1>1, CountsInvariant, FlagsInvariant, PTL

-----------------------------------------------------------------------------
(* How a thread comes from an operation's call to its return.              *)

\* What lets thread t in as a reader, and as a writer.
ReadGrant(t) ==
    \/ TMutex \in {"Fair", "FairCs", "Ticketed"} /\ pc[t] = "rl_unqueue"
    \/ TMutex = "Ticketed" /\ pc[t] = "rl_check" /\ Signed(age[t]) <= 1
    \/ TMutex = "Qt" /\ m_sema > 0
    \/ TMutex \in {"Cohort"} \cup SingleClasses /\ pc[t] = "rl_check" /\ ~m_writeRequested
    \/ TMutex = "Cohort" /\ pc[t] = "rl_reraise"
    \/ TMutex \in PlainClasses /\ m_cs = None
WriteGrant(t) ==
    \/ TMutex = "Fair" /\ pc[t] = "wl_assert"
    \/ TMutex \in {"FairCs", "Qt"} /\ pc[t] = "wl_unqueue"
    \/ TMutex \in {"Cohort", "Ticketed"} /\ pc[t] = "wl_scan" /\ iter[t] > Len(m_threadStates)
    \/ TMutex \in SingleClasses /\ pc[t] = "wl_scan" /\ ~m_isReading
    \/ TMutex \in PlainClasses /\ m_cs = None

RestPlaces == IdlePlaces \cup UnlockPlaces
PlaceMove(t) ==
    \/ pc[t] = "loop" /\ pc'[t] \in ReadPlaces /\ t \in Readers /\ tlsData'[t]
    \/ pc[t] = "loop" /\ pc'[t] \in WritePlaces
    \/ /\ UNCHANGED tlsData
       /\ \/ pc[t] \in ReadPlaces /\ pc'[t] \in ReadPlaces
          \/ pc[t] \in ReadPlaces /\ pc'[t] = "reading" /\ ReadGrant(t)
          \/ pc[t] \in WritePlaces /\ pc'[t] \in WritePlaces
          \/ pc[t] \in WritePlaces /\ pc'[t] = "writing" /\ WriteGrant(t)
          \/ pc[t] \in {"reading", "writing"} \cup RestPlaces /\ pc'[t] \in RestPlaces

LEMMA PlaceFacts ==
    /\ {"reading", "writing"} \cap (ReadPlaces \cup WritePlaces \cup RestPlaces) = {}
    /\ ReadPlaces \cap WritePlaces = {} /\ RestPlaces \cap (ReadPlaces \cup WritePlaces) = {}
    /\ Places = {"reading", "writing"} \cup ReadPlaces \cup WritePlaces \cup RestPlaces
    /\ "loop" \in RestPlaces
  BY DEF Places, ReadPlaces, WritePlaces, RestPlaces, IdlePlaces, UnlockPlaces

LEMMA StartPlaceMove ==
    ASSUME Typed, NEW t \in Threads, Starts(t)
    PROVE  PlaceMove(t)
<1>1. pc \in [Threads -> Places] /\ tlsData \in [Threads -> BOOLEAN]
  BY DEF Typed, PcTyped, FlagsTyped
<1>2. CASE BeginRead(t)
  <2>1. /\ pc[t] = "loop" /\ pc'[t] = IF tlsData[t] THEN ReadLockPlace ELSE TlsPlace
        /\ t \in Readers /\ tlsData' = [tlsData EXCEPT ![t] = TRUE]
    BY <1>1, <1>2 DEF BeginRead, Goto
  <2>2. ReadLockPlace \in ReadPlaces /\ TlsPlace \in ReadPlaces
    BY DEF ReadLockPlace, TlsPlace, ReadPlaces
  <2>3. tlsData'[t]
    BY <1>1, <2>1, Zenon
  <2> QED
    BY <2>1, <2>2, <2>3 DEF PlaceMove
<1>3. CASE BeginWrite(t)
  <2>1. pc[t] = "loop" /\ pc'[t] = WriteLockPlace
    BY <1>1, <1>3 DEF BeginWrite, Goto
  <2>2. WriteLockPlace \in WritePlaces
    BY DEF WriteLockPlace, WritePlaces
  <2> QED
    BY <2>1, <2>2 DEF PlaceMove
<1>4. CASE AddCount(t)
  <2>1. UNCHANGED tlsData /\ pc[t] \in {"loop", "counting"} /\ pc'[t] \in {"counting", "exited"}
    BY <1>1, <1>4 DEF AddCount, Pass, Goto, registry
  <2> QED
    BY <2>1 DEF PlaceMove, RestPlaces, IdlePlaces
<1> QED
  BY <1>2, <1>3, <1>4 DEF Starts

LEMMA QueuePlaceMove ==
    ASSUME Typed, NEW t \in Threads,
           FairStep(t) \/ FairCsStep(t) \/ QtStep(t) \/ PlainStep(t)
    PROVE  PlaceMove(t)
<1>1. pc \in [Threads -> Places]
  BY DEF Typed, PcTyped
<1> USE <1>1 DEF PlaceMove, Goto, ReadPlaces, WritePlaces, RestPlaces, IdlePlaces, UnlockPlaces,
       flags, registry
<1>2. CASE FairStep(t)
  <2>1. FairWriteLock(t) \/ FairWriteUnlock(t) => PlaceMove(t)
    BY <1>2 DEF FairStep, FairWriteLock, FairWriteUnlock, EnterQueue, LeaveQueue, EnterWriter,
       LeaveWriter, EnterCs, LeaveCs, WriteGrant
  <2>2. FairReadLock(t) \/ FairReadUnlock(t) => PlaceMove(t)
    BY <1>2 DEF FairStep, FairReadLock, FairReadUnlock, EnterQueue, LeaveQueue, EnterWriter,
       LeaveWriter, EnterCs, LeaveCs, CountReader, UncountReader, ReadGrant
  <2> QED
    BY <1>2, <2>1, <2>2 DEF FairStep
<1>3. CASE FairCsStep(t)
  <2>1. FairCsWriteLock(t) \/ FairCsWriteUnlock(t) => PlaceMove(t)
    BY <1>3 DEF FairCsStep, FairCsWriteLock, FairCsWriteUnlock, EnterQueue, LeaveQueue,
       EnterWriter, LeaveWriter, EnterCs, LeaveCs, WriteGrant
  <2>2. FairCsReadLock(t) => PlaceMove(t)
    BY <1>3 DEF FairCsStep, FairCsReadLock, InitTlsDataQueued, PushTlsData, EnterQueue, LeaveQueue,
       EnterWriter, LeaveWriter, EnterWriterFirst, EnterCs, LeaveCs, CountReader, ReadGrant
  <2>3. FairCsReadUnlock(t) => PlaceMove(t)
    BY <1>3 DEF FairCsReadUnlock, UncountReader, LeaveWriterFirst, LeaveCs, SignalFirstReader,
       WaitForLastReader
  <2> QED
    BY <1>3, <2>1, <2>2, <2>3 DEF FairCsStep
<1>4. CASE QtStep(t)
  BY <1>4 DEF QtStep, QtWriteLock, QtWriteUnlock, QtReadLock, QtReadUnlock, CollectPermit, Collect,
     EnterQueue, LeaveQueue, TakePermit, GivePermits, ReadGrant, WriteGrant
<1>5. CASE PlainStep(t)
  BY <1>5 DEF PlainStep, PlainWriteLock, PlainWriteUnlock, PlainReadLock, PlainReadUnlock,
     EnterWriter, LeaveWriter, EnterCs, LeaveCs, ReadGrant, WriteGrant
<1> QED
  BY <1>2, <1>3, <1>4, <1>5

LEMMA CohortPlaceMove ==
    ASSUME Typed, NEW t \in Threads, CohortStep(t)
    PROVE  PlaceMove(t)
<1>1. pc \in [Threads -> Places] /\ TMutex = "Cohort" /\ WriteRequestedSeenBy(t) = m_writeRequested
  BY StoreEffect DEF Typed, PcTyped, CohortStep
<1> USE <1>1 DEF PlaceMove, Goto, ReadPlaces, WritePlaces, RestPlaces, IdlePlaces, UnlockPlaces,
       flags, registry
<1>2. CASE CohortWriteLock(t) \/ CohortWriteUnlock(t)
  BY <1>2 DEF CohortWriteLock, CohortWriteUnlock, EnterCs, LeaveCs, RequestWrite, ScanReaders,
     FinishScan, PassReader, FindReader, WaitReaderDone, ClearRequest, WriteGrant
<1>3. CASE CohortReadLock(t)
  <2>1. InitTlsData(t) \/ EnterCs(t, "rl_enter", "rl_close") => PlaceMove(t)
    BY DEF InitTlsData, PushTlsData, EnterCs, LeaveCs
  <2>2. \/ StoreFlag(t, TRUE, "rl_raise", "rl_check") \/ StoreFlag(t, FALSE, "rl_yield", "rl_signal")
        \/ StoreFlag(t, TRUE, "rl_reraise", "reading") \/ SetReaderDone(t, "rl_signal", "rl_join")
        \/ CheckRequest(t, "rl_check", "rl_yield", "reading")
        \/ InitTlsData(t) \/ EnterCs(t, "rl_enter", "rl_close")
        \/ JoinCohort(t) \/ OpenCohort(t) \/ TakePermit(t, "rl_permit", "rl_reraise")
        \/ CloseCohort(t) /\ UNCHANGED flags
    BY <1>3 DEF CohortReadLock
  <2>3. StoreFlag(t, TRUE, "rl_reraise", "reading") => PlaceMove(t)
    BY DEF StoreFlag, ReadGrant
  <2>4. CheckRequest(t, "rl_check", "rl_yield", "reading") => PlaceMove(t)
    BY DEF CheckRequest, ReadGrant
  <2>5. JoinCohort(t) \/ OpenCohort(t) \/ TakePermit(t, "rl_permit", "rl_reraise") => PlaceMove(t)
    BY DEF JoinCohort, OpenCohort, GivePermits, TakePermit
  <2>6. CloseCohort(t) /\ UNCHANGED flags => PlaceMove(t)
    BY DEF CloseCohort
  <2> QED
    BY <2>1, <2>2, <2>3, <2>4, <2>5, <2>6 DEF StoreFlag, SetReaderDone
<1>4. CASE CohortReadUnlock(t)
  <2>1. LeaveCohort(t) => PlaceMove(t)
    BY DEF LeaveCohort
  <2> QED
    BY <1>4, <2>1 DEF CohortReadUnlock, StoreFlag, LeaveCs, CheckRequest, SetReaderDone,
       SignalFirstReader, WaitForLastReader
<1> QED
  BY <1>2, <1>3, <1>4 DEF CohortStep

LEMMA TicketedPlaceMove ==
    ASSUME Typed, NEW t \in Threads, TicketedStep(t)
    PROVE  PlaceMove(t)
<1>1. pc \in [Threads -> Places] /\ TMutex = "Ticketed"
  BY DEF Typed, PcTyped, TicketedStep
<1> USE <1>1 DEF PlaceMove, Goto, ReadPlaces, WritePlaces, RestPlaces, IdlePlaces, UnlockPlaces,
       flags, registry
<1>2. CASE TicketedWriteLock(t) \/ TicketedWriteUnlock(t)
  BY <1>2 DEF TicketedWriteLock, TicketedWriteUnlock, EnterQueue, LeaveQueue, EnterWriter, EnterCs,
     LeaveCs, RequestQueued, ScanReaders, FinishScan, PassReader, FindReader, WaitReaderDone,
     ClearRequest, DrawTicket, WriteGrant
<1>3. CASE TicketedReadLock(t)
  <2>1. InitTlsDataQueued(t, "rl_raise") => PlaceMove(t)
    BY DEF InitTlsDataQueued, PushTlsData, EnterQueue, LeaveQueue, EnterWriter, LeaveWriter,
       EnterCs, LeaveCs
  <2>2. CheckTicket(t) \/ LeaveQueue(t, "rl_unqueue", "reading") => PlaceMove(t)
    BY DEF CheckTicket, LeaveQueue, ReadGrant
  <2>3. JoinQueued(t) \/ EnterWriterFirst(t, "rl_writer", "rl_ticket")
        \/ EnterQueue(t, "rl_queue", "rl_count") => PlaceMove(t)
    BY DEF JoinQueued, CountReader, EnterWriterFirst, EnterCs, EnterQueue
  <2>4. LoadLastTicket(t) \/ StoreTicket(t) \/ DrawTicket(t, 1, "rl_ticket", "rl_store") => PlaceMove(t)
    BY DEF LoadLastTicket, StoreTicket, DrawTicket
  <2> QED
    BY <1>3, <2>1, <2>2, <2>3, <2>4 DEF TicketedReadLock, StoreFlag, SetReaderDone
<1>4. CASE TicketedReadUnlock(t)
  <2>1. LeaveQueued(t) \/ LeaveWriterFirst(t, "ru_release", "ru_check") => PlaceMove(t)
    BY DEF LeaveQueued, UncountReader, LeaveWriterFirst, LeaveCs
  <2> QED
    BY <1>4, <2>1 DEF TicketedReadUnlock, StoreFlag, CheckRequest, SetReaderDone,
       SignalFirstReader, WaitForLastReader
<1> QED
  BY <1>2, <1>3, <1>4 DEF TicketedStep

LEMMA SinglePlaceMove ==
    ASSUME Typed, NEW t \in Threads, SingleStep(t)
    PROVE  PlaceMove(t)
<1>1. /\ pc \in [Threads -> Places] /\ TMutex \in SingleClasses
      /\ WriteRequestedSeenBy(t) = m_writeRequested
  BY StoreEffect DEF Typed, PcTyped, SingleStep, SpinSingleStep, SyncSingleStep, SingleClasses
<1> USE <1>1 DEF PlaceMove, Goto, ReadPlaces, WritePlaces, RestPlaces, IdlePlaces, UnlockPlaces,
       flags, registry
<1>2. \A busy \in {"wl_sleep", "wl_wait"} : SingleWriteLock(t, busy) => PlaceMove(t)
  BY DEF SingleWriteLock, EnterCs, ResetWriterDone, RequestWrite, FindNotReading, FindReading,
     WaitReaderDoneSet, WriteGrant
<1>3. CheckRequest(t, "rl_check", "rl_yield", "reading")
      \/ CheckRequest(t, "ru_check", "ru_signal", "loop") => PlaceMove(t)
  BY DEF CheckRequest, ReadGrant
<1>4. UltraSpinReadLock(t) \/ UltraSpinReadUnlock(t) \/ Sleep(t) => PlaceMove(t)
  BY <1>3 DEF UltraSpinReadLock, UltraSpinReadUnlock, Sleep, StoreFlag, WaitWriterDone
<1>5. UltraFastReadLock(t) \/ UltraFastReadUnlock(t) => PlaceMove(t)
  BY <1>3 DEF UltraFastReadLock, UltraFastReadUnlock, StoreFlag, WaitWriterDone, SetReaderDone
<1>6. UltraSpinWriteUnlock(t) \/ UltraFastWriteUnlock(t) => PlaceMove(t)
  BY DEF UltraSpinWriteUnlock, UltraFastWriteUnlock, ClearRequest, LeaveCs, SetWriterDone
<1> HIDE DEF PlaceMove
<1> QED
  BY <1>2, <1>4, <1>5, <1>6 DEF SingleStep, SpinSingleStep, SyncSingleStep

LEMMA StepPlaceMove ==
    ASSUME Typed, NEW t \in Threads, Step(t)
    PROVE  PlaceMove(t)
  BY StepCases, StartPlaceMove, QueuePlaceMove, CohortPlaceMove, TicketedPlaceMove, SinglePlaceMove

-----------------------------------------------------------------------------
(* Ticketed: a writer that has drawn its ticket is at least two tickets    *)
(* past the last queued reader, a reader's copy is at least as old, and    *)
(* no difference of two tickets comes near half of the span.               *)

FarPlaces == {"wl_writer", "wl_request", "wl_unqueue", "wl_scan", "wl_wait", "writing", "wu_leave"}
Drawing == {w \in Threads : pc[w] \in {"wl_queue", "wl_ticket"}}
Storing == \E t \in Threads : pc[t] = "rl_store"
Excess == IF Storing THEN 1 ELSE 0

AgeOk(t) == IF pc[t] = "rl_check" THEN lag <= age[t] /\ age[t] <= MaxLag + 1 ELSE age[t] = 0
LagOk(t) == /\ pc[t] = "rl_store" => lag >= 1
            /\ pc[t] \in FarPlaces => lag >= 2

TicketInv == TMutex = "Ticketed" =>
    /\ lag + 2 * Cardinality(Drawing) <= MaxLag + Excess
    /\ \A t \in Threads : AgeOk(t) /\ LagOk(t)

\* What a step of thread t does to the tickets.
KeepsTickets(t) ==
    /\ UNCHANGED tickets
    /\ {pc[t], pc'[t]} \cap {"rl_check", "rl_store"} = {}
    /\ pc'[t] \in FarPlaces => pc[t] \in FarPlaces
    /\ t \in Drawing' => t \in Drawing \/ MayWrite
TicketMove(t) ==
    \/ KeepsTickets(t)
    \/ LoadLastTicket(t) \/ CheckTicket(t) \/ StoreTicket(t)
    \/ DrawTicket(t, 1, "rl_ticket", "rl_store") \/ DrawTicket(t, 2, "wl_ticket", "wl_writer")

LEMMA TicketCases ==
    ASSUME Typed, TMutex = "Ticketed", NEW t \in Threads, Step(t)
    PROVE  TicketMove(t)
<1>1. pc \in [Threads -> Places]
  BY DEF Typed, PcTyped
<1> USE <1>1 DEF KeepsTickets, Drawing, FarPlaces, Goto, flags, queue
<1>2. CASE Starts(t)
  <2>1. UNCHANGED tickets /\ pc[t] \in {"loop", "counting"} /\ pc'[t] \in StartPlaces
    BY <1>2, StartsWhere DEF Outside
  <2>2. pc'[t] = "wl_queue" => MayWrite
    BY <1>2 DEF Starts, BeginRead, BeginWrite, AddCount, Pass, ReadLockPlace, TlsPlace
  <2> QED
    BY <2>1, <2>2 DEF TicketMove, StartPlaces
<1>3. CASE TicketedStep(t)
  <2>1. TicketedWriteLock(t) \/ TicketedWriteUnlock(t) => TicketMove(t)
    BY DEF TicketMove, TicketedWriteLock, TicketedWriteUnlock, EnterQueue, LeaveQueue, EnterWriter, EnterCs,
       LeaveCs, RequestQueued, ScanReaders, FinishScan, PassReader, FindReader, WaitReaderDone,
       ClearRequest
  <2>2. ASSUME TicketedReadLock(t)
        PROVE  TicketMove(t)
    <3>1. InitTlsDataQueued(t, "rl_raise") /\ UNCHANGED tickets => KeepsTickets(t)
      BY DEF InitTlsDataQueued, PushTlsData, EnterQueue, LeaveQueue, EnterWriter, LeaveWriter,
         EnterCs, LeaveCs
    <3>2. (\/ StoreFlag(t, TRUE, "rl_raise", "rl_last") \/ StoreFlag(t, FALSE, "rl_yield", "rl_signal")
           \/ SetReaderDone(t, "rl_signal", "rl_queue") \/ StoreFlag(t, TRUE, "rl_reraise", "rl_unqueue"))
             /\ UNCHANGED tickets => KeepsTickets(t)
      BY DEF StoreFlag, SetReaderDone
    <3>3. (\/ EnterQueue(t, "rl_queue", "rl_count") \/ JoinQueued(t)
           \/ EnterWriterFirst(t, "rl_writer", "rl_ticket") \/ LeaveQueue(t, "rl_unqueue", "reading"))
             /\ UNCHANGED tickets => KeepsTickets(t)
      BY DEF EnterQueue, LeaveQueue, JoinQueued, CountReader, EnterWriterFirst, EnterCs
    <3> QED
      BY <2>2, <3>1, <3>2, <3>3 DEF TicketedReadLock, TicketMove
  <2>3. ASSUME TicketedReadUnlock(t)
        PROVE  KeepsTickets(t)
    BY <2>3 DEF TicketedReadUnlock, LeaveQueued, UncountReader, LeaveWriterFirst, LeaveCs, StoreFlag,
       CheckRequest, SetReaderDone, SignalFirstReader, WaitForLastReader
  <2> QED
    BY <1>3, <2>1, <2>2, <2>3 DEF TicketedStep, TicketMove
<1> QED
  BY <1>2, <1>3, StepCases DEF FairStep, FairCsStep, QtStep, SingleStep, SpinSingleStep, SyncSingleStep,
     PlainStep, PlainClasses, CohortStep

\* The bounds keep every draw away from the place where tickets wrap.
LEMMA WrapSmall == \A n \in Nat : n <= MaxLag + 1 => Wrap(n) = n /\ Signed(n) = n
<1> SUFFICES ASSUME NEW n \in Nat, n <= MaxLag + 1
             PROVE  Wrap(n) = n /\ Signed(n) = n
  OBVIOUS
<1>1. HalfSpan \in Nat /\ MaxLag \in Nat /\ n < HalfSpan /\ Span = HalfSpan + HalfSpan
  BY TicketAssumption DEF Span
<1>2. Span \in Nat \ {0} /\ n \in 0..Span - 1
  BY <1>1
<1>3. n % Span = n
  BY <1>2, ModSmall
<1> QED
  BY <1>1, <1>3 DEF Wrap, Signed

LEMMA DrawEffect ==
    ASSUME OwnerInv, TicketInv, TMutex = "Ticketed", NEW t \in Threads, NEW delta \in {1, 2},
           NEW from \in {"rl_ticket", "wl_ticket"}, NEW to \in Places, DrawTicket(t, delta, from, to),
           delta = 2 => from = "wl_ticket"
    PROVE  /\ ~Storing /\ pc[t] = from /\ pc'[t] = to
           /\ lag \in Nat /\ lag' = lag + delta
           /\ \A u \in Threads : /\ pc[u] = "rl_check" => lag' <= age'[u] /\ age'[u] <= MaxLag + 1
                                 /\ pc[u] # "rl_check" => age'[u] = 0
<1>1. /\ pc \in [Threads -> Places] /\ lag \in Nat /\ age \in [Threads -> Nat]
      /\ MaxLag \in Nat
  BY TicketAssumption DEF OwnerInv, Typed, PcTyped, TicketsTyped, Span
<1>2. pc[t] = from /\ pc'[t] = to
  BY <1>1 DEF DrawTicket, Goto
<1>3. ~Storing
  BY <1>2, QueuePlacesOfClass DEF Storing, OwnerInv, QueueInv
<1>4. lag + delta <= MaxLag + 1
  <2>1. Drawing \in SUBSET Threads /\ (from = "wl_ticket" => t \in Drawing)
    BY <1>2 DEF Drawing
  <2>2. Cardinality(Drawing) \in Nat /\ (from = "wl_ticket" => Cardinality(Drawing) >= 1)
    BY <2>1, OneMember
  <2>3. lag + 2 * Cardinality(Drawing) <= MaxLag
    BY <1>1, <1>3, <2>2 DEF TicketInv, Excess
  <2> QED
    BY <1>1, <2>2, <2>3
<1>5. lag' = lag + delta
  BY <1>1, <1>4, WrapSmall DEF DrawTicket
<1>6. ASSUME NEW u \in Threads, pc[u] = "rl_check"
      PROVE  lag' <= age'[u] /\ age'[u] <= MaxLag + 1
  <2>1. lag <= age[u] /\ age[u] + delta <= MaxLag /\ age'[u] = Wrap(age[u] + delta)
    BY <1>6 DEF TicketInv, AgeOk, DrawTicket, MayDraw, HoldsTicket
  <2>2. age'[u] = age[u] + delta
    BY <1>1, <2>1, WrapSmall
  <2> QED
    BY <1>1, <1>5, <2>1, <2>2
<1>7. ASSUME NEW u \in Threads, pc[u] # "rl_check"
      PROVE  age'[u] = 0
  BY <1>3, <1>7 DEF DrawTicket, HoldsTicket, Storing
<1> QED
  BY <1>1, <1>2, <1>3, <1>5, <1>6, <1>7

LEMMA TicketKept ==
    ASSUME OwnerInv, TicketInv, NEW t \in Threads, Step(t)
    PROVE  TicketInv'
<1> SUFFICES ASSUME TMutex = "Ticketed"
             PROVE  TicketInv'
  BY OwnerStep DEF TicketInv
<1>1. UNCHANGED TMutex /\ OwnerInv' /\ \A u \in Threads \ {t} : pc'[u] = pc[u]
  BY OwnerStep DEF SingleClasses
<1>2. /\ pc \in [Threads -> Places] /\ lag \in Nat /\ age \in [Threads -> Nat]
      /\ lag' \in Nat /\ age' \in [Threads -> Nat] /\ MaxLag \in Nat
  BY <1>1, TicketAssumption DEF OwnerInv, Typed, PcTyped, TicketsTyped, Span
<1>3. /\ lag + 2 * Cardinality(Drawing) <= MaxLag + Excess
      /\ \A u \in Threads : AgeOk(u) /\ LagOk(u)
  BY DEF TicketInv
<1> DEFINE D == Cardinality(Drawing)
           Change == (IF t \in Drawing' THEN 1 ELSE 0) - (IF t \in Drawing THEN 1 ELSE 0)
<1>4. D \in Nat /\ D' \in Nat /\ D' = D + Change /\ (t \in Drawing => D >= 1)
  <2>1. Drawing \in SUBSET Threads /\ Drawing' \in SUBSET Threads
    BY DEF Drawing
  <2>2. \A u \in Threads \ {t} : u \in Drawing' <=> u \in Drawing
    BY <1>1 DEF Drawing
  <2> QED
    BY <2>1, <2>2, OneMember
<1>5. /\ t \in Drawing <=> pc[t] \in {"wl_queue", "wl_ticket"}
      /\ t \in Drawing' <=> pc'[t] \in {"wl_queue", "wl_ticket"}
  BY DEF Drawing
<1>6. (Storing => lag >= 1) /\ (Storing => Excess = 1) /\ (~Storing => Excess = 0)
  BY <1>3 DEF Storing, LagOk, Excess
<1>7. /\ Storing' <=> pc'[t] = "rl_store" \/ \E u \in Threads \ {t} : pc[u] = "rl_store"
      /\ Storing <=> pc[t] = "rl_store" \/ \E u \in Threads \ {t} : pc[u] = "rl_store"
      /\ Excess' = IF Storing' THEN 1 ELSE 0
  BY <1>1 DEF Storing, Excess
<1>8. pc[t] = "rl_store" => /\ \A u \in Threads \ {t} : pc[u] # "rl_store"
                            /\ \A u \in Threads : pc[u] \notin FarPlaces
  <2> SUFFICES ASSUME pc[t] = "rl_store"
               PROVE  /\ \A u \in Threads \ {t} : pc[u] # "rl_store"
                      /\ \A u \in Threads : pc[u] \notin FarPlaces
    OBVIOUS
  <2>1. m_csQueue = t
    BY QueuePlacesOfClass DEF OwnerInv, QueueInv
  <2>2. m_cs = t
    BY DEF OwnerInv, MarksInv, FirstOk, FirstClasses, CsInv, OwnsCs
  <2>3. \A u \in Threads : /\ pc[u] \in {"rl_store", "wl_writer"} => m_csQueue = u
                           /\ pc[u] \in FarPlaces \ {"wl_writer"} => m_cs = u
    BY QueuePlacesOfClass, CsPlacesOfClass DEF OwnerInv, QueueInv, CsInv, OwnsCs, FarPlaces
  <2> QED
    BY <2>1, <2>2, <2>3 DEF FarPlaces
<1>9. ASSUME KeepsTickets(t)
      PROVE  TicketInv'
  <2>1. lag' = lag /\ age' = age
    BY <1>9 DEF KeepsTickets, tickets
  <2>2. Excess' = Excess
    BY <1>6, <1>7, <1>9 DEF KeepsTickets
  <2>3. lag' + 2 * D' <= MaxLag + Excess'
    <3>1. CASE t \in Drawing' /\ t \notin Drawing
      <4>1. lag + 2 * (D + 1) <= MaxLag
        BY <1>9, <3>1 DEF KeepsTickets, MayWrite, Drawing
      <4> QED
        BY <1>2, <1>4, <1>6, <2>1, <2>2, <3>1, <4>1
    <3>2. CASE ~(t \in Drawing' /\ t \notin Drawing)
      BY <1>2, <1>3, <1>4, <1>6, <2>1, <2>2, <3>2
    <3> QED
      BY <3>1, <3>2
  <2>4. \A u \in Threads : AgeOk(u)' /\ LagOk(u)'
    <3>1. AgeOk(t)' /\ LagOk(t)'
      BY <1>3, <1>9, <2>1 DEF AgeOk, LagOk, KeepsTickets
    <3>2. \A u \in Threads \ {t} : AgeOk(u)' /\ LagOk(u)'
      BY <1>1, <1>3, <2>1 DEF AgeOk, LagOk
    <3> QED
      BY <3>1, <3>2
  <2> QED
    BY <2>3, <2>4 DEF TicketInv
<1>10. ASSUME LoadLastTicket(t)
       PROVE  TicketInv'
  <2>1. /\ lag' = lag /\ age'[t] = lag /\ pc[t] = "rl_last" /\ pc'[t] = "rl_check"
        /\ \A u \in Threads \ {t} : age'[u] = age[u]
    BY <1>2, <1>10 DEF LoadLastTicket, Goto
  <2>2. Excess' = Excess /\ D' = D
    BY <1>4, <1>5, <1>6, <1>7, <2>1
  <2>3. lag <= MaxLag + 1
    BY <1>2, <1>3, <1>4, <1>6
  <2>4. \A u \in Threads : AgeOk(u)' /\ LagOk(u)'
    BY <1>1, <1>2, <1>3, <2>1, <2>3 DEF AgeOk, LagOk, FarPlaces
  <2> QED
    BY <1>3, <2>1, <2>2, <2>4 DEF TicketInv
<1>11. ASSUME CheckTicket(t)
       PROVE  TicketInv'
  <2>1. /\ lag' = lag /\ age'[t] = 0 /\ pc[t] = "rl_check" /\ pc'[t] \in {"reading", "rl_yield"}
        /\ \A u \in Threads \ {t} : age'[u] = age[u]
    BY <1>2, <1>11 DEF CheckTicket, Goto
  <2>2. Excess' = Excess /\ D' = D
    BY <1>4, <1>5, <1>6, <1>7, <2>1
  <2>3. \A u \in Threads : AgeOk(u)' /\ LagOk(u)'
    BY <1>1, <1>2, <1>3, <2>1 DEF AgeOk, LagOk, FarPlaces
  <2> QED
    BY <1>3, <2>1, <2>2, <2>3 DEF TicketInv
<1>12. ASSUME StoreTicket(t)
       PROVE  TicketInv'
  <2>1. /\ pc[t] = "rl_store" /\ pc'[t] = "rl_reraise" /\ age'[t] = 0 /\ lag' = age[t]
        /\ \A u \in Threads \ {t} : age'[u] = age[u]
    BY <1>2, <1>12 DEF StoreTicket, Goto
  <2>2. lag' = 0 /\ lag >= 1
    BY <1>3, <2>1 DEF AgeOk, LagOk
  <2>3. Storing /\ ~Storing' /\ D' = D
    BY <1>4, <1>5, <1>7, <1>8, <2>1
  <2>4. lag' + 2 * D' <= MaxLag + Excess'
    BY <1>2, <1>3, <1>4, <1>6, <1>7, <2>2, <2>3
  <2>5. \A u \in Threads : AgeOk(u)'
    BY <1>1, <1>2, <1>3, <2>1, <2>2 DEF AgeOk
  <2>6. \A u \in Threads : LagOk(u)'
    BY <1>1, <1>8, <2>1 DEF LagOk, FarPlaces
  <2> QED
    BY <2>4, <2>5, <2>6 DEF TicketInv
<1>13. ASSUME NEW delta \in {1, 2}, NEW from \in {"rl_ticket", "wl_ticket"},
              NEW to \in {"rl_store", "wl_writer"}, DrawTicket(t, delta, from, to),
              (delta = 1 /\ from = "rl_ticket" /\ to = "rl_store")
              \/ (delta = 2 /\ from = "wl_ticket" /\ to = "wl_writer")
       PROVE  TicketInv'
  <2>1. /\ ~Storing /\ pc[t] = from /\ pc'[t] = to
        /\ lag \in Nat /\ lag' = lag + delta
        /\ \A u \in Threads : /\ pc[u] = "rl_check" => lag' <= age'[u] /\ age'[u] <= MaxLag + 1
                              /\ pc[u] # "rl_check" => age'[u] = 0
    BY <1>13, DrawEffect DEF Places, ReadPlaces, WritePlaces
  <2>2. Excess = 0 /\ Excess' = IF to = "rl_store" THEN 1 ELSE 0
    BY <1>6, <1>7, <1>13, <2>1
  <2>3. D' = IF from = "wl_ticket" THEN D - 1 ELSE D
    BY <1>4, <1>5, <1>13, <2>1
  <2>4. lag' + 2 * D' <= MaxLag + Excess'
    BY <1>2, <1>3, <1>4, <1>13, <2>1, <2>2, <2>3
  <2>5. \A u \in Threads : AgeOk(u)'
    BY <1>1, <1>13, <2>1 DEF AgeOk
  <2>6. \A u \in Threads : LagOk(u)'
    BY <1>1, <1>3, <1>13, <2>1 DEF LagOk, FarPlaces
  <2> QED
    BY <2>4, <2>5, <2>6 DEF TicketInv
<1> QED
  BY <1>9, <1>10, <1>11, <1>12, <1>13, TicketCases DEF TicketMove, OwnerInv

-----------------------------------------------------------------------------
(* Cohort and Ticketed: a writer scans the flags of the threads that are   *)
(* registered, and while it asks, nobody it has passed gets in again.      *)

ScanClasses == {"Cohort", "Ticketed"}
ScanPlaces == {"wl_scan", "wl_wait"}
TlsPlaces == {"tls_queue", "tls_enter", "tls_push"}
Wakers == {"rl_last", "rl_check", "rl_yield", "rl_signal", "reading", "ru_check", "ru_signal"}

\* What a step of thread t does to the registry, to the iterator of a scan and
\* to the events that a scan waits for.
StaysOff(t) ==
    /\ UNCHANGED m_threadStates
    /\ iter'[t] \in {iter[t], 1}
    /\ pc[t] \notin ScanPlaces \cup {"tls_push"} /\ pc'[t] \notin {"wl_wait", "writing"}
    /\ pc'[t] \in TlsPlaces \/ (tlsData'[t] = tlsData[t] /\ pc[t] \notin TlsPlaces)
    /\ \A u \in Threads : readerDoneEvent[u] => readerDoneEvent'[u]
    /\ pc[t] \in Wakers =>
        \/ pc'[t] \in Wakers \/ readerDoneEvent'[t] \/ ~m_writeRequested
        \/ pc[t] = "reading" /\ (isLocked[t] \/ readerOrder[t] # 0)
ScanMove(t) ==
    \/ StaysOff(t) \/ PushTlsData(t)
    \/ FinishScan(t) \/ PassReader(t) \/ FindReader(t, "wl_wait") \/ WaitReaderDone(t)

LEMMA CohortScanCases ==
    ASSUME Typed, NEW t \in Threads, CohortStep(t)
    PROVE  ScanMove(t)
<1>1. /\ pc \in [Threads -> Places] /\ readerDoneEvent \in [Threads -> BOOLEAN]
      /\ WriteRequestedSeenBy(t) = m_writeRequested
  BY StoreEffect DEF Typed, PcTyped, FlagsTyped
<1> USE <1>1 DEF StaysOff, ScanPlaces, TlsPlaces, Wakers, Goto, flags, events, registry
<1>2. CohortWriteLock(t) => ScanMove(t)
  BY DEF CohortWriteLock, EnterCs, RequestWrite, ScanReaders, ScanMove, Typed, FlagsTyped
<1>3. CohortWriteUnlock(t) => StaysOff(t)
  BY DEF CohortWriteUnlock, ClearRequest, LeaveCs
<1>4. ASSUME CohortReadLock(t)
      PROVE  ScanMove(t)
  <2>1. InitTlsData(t) => ScanMove(t)
    BY DEF InitTlsData, EnterCs, LeaveCs, ScanMove
  <2>2. ASSUME \/ EnterCs(t, "rl_enter", "rl_close") \/ CheckRequest(t, "rl_check", "rl_yield", "reading")
               \/ StoreFlag(t, TRUE, "rl_raise", "rl_check") \/ StoreFlag(t, FALSE, "rl_yield", "rl_signal")
               \/ StoreFlag(t, TRUE, "rl_reraise", "reading")
        PROVE  StaysOff(t)
    BY <2>2 DEF EnterCs, StoreFlag, CheckRequest
  <2>3. JoinCohort(t) \/ OpenCohort(t) \/ TakePermit(t, "rl_permit", "rl_reraise") => StaysOff(t)
    BY DEF JoinCohort, OpenCohort, GivePermits, TakePermit
  <2>4. CloseCohort(t) /\ UNCHANGED flags => StaysOff(t)
    BY DEF CloseCohort
  <2>5. SetReaderDone(t, "rl_signal", "rl_join") => StaysOff(t)
    BY DEF SetReaderDone
  <2>6. StaysOff(t) => ScanMove(t)
    BY DEF ScanMove
  <2> HIDE DEF StaysOff, Goto
  <2> QED
    BY <1>4, <2>1, <2>2, <2>3, <2>4, <2>5, <2>6 DEF CohortReadLock
<1>5. ASSUME CohortReadUnlock(t)
      PROVE  StaysOff(t)
  <2>1. StoreFlag(t, FALSE, "reading", IF readerOrder[t] # 0 THEN "ru_count" ELSE "ru_check") => StaysOff(t)
    BY DEF StoreFlag
  <2>2. LeaveCs(t, "ru_release", "ru_check") \/ CheckRequest(t, "ru_check", "ru_signal", "loop")
          => StaysOff(t)
    BY DEF LeaveCs, CheckRequest
  <2>3. SetReaderDone(t, "ru_signal", "loop") => StaysOff(t)
    BY DEF SetReaderDone
  <2>4. LeaveCohort(t) \/ SignalFirstReader(t, "ru_last", "ru_check") \/ WaitForLastReader(t, "ru_wait", "ru_release")
          => StaysOff(t)
    BY DEF LeaveCohort, SignalFirstReader, WaitForLastReader
  <2> QED
    BY <1>5, <2>1, <2>2, <2>3, <2>4 DEF CohortReadUnlock
<1> QED
  BY <1>2, <1>3, <1>4, <1>5 DEF CohortStep, ScanMove

LEMMA TicketedScanCases ==
    ASSUME Typed, NEW t \in Threads, TicketedStep(t)
    PROVE  ScanMove(t)
<1>1. /\ pc \in [Threads -> Places] /\ readerDoneEvent \in [Threads -> BOOLEAN]
      /\ WriteRequestedSeenBy(t) = m_writeRequested
  BY StoreEffect DEF Typed, PcTyped, FlagsTyped
<1> USE <1>1 DEF StaysOff, ScanPlaces, TlsPlaces, Wakers, Goto, flags, events, registry
<1>2. TicketedWriteLock(t) => ScanMove(t)
  BY DEF TicketedWriteLock, EnterQueue, LeaveQueue, EnterWriter, EnterCs, RequestQueued, ScanReaders,
     DrawTicket, ScanMove
<1>3. TicketedWriteUnlock(t) => StaysOff(t)
  BY DEF TicketedWriteUnlock, ClearRequest, LeaveCs
<1>4. ASSUME TicketedReadLock(t)
      PROVE  ScanMove(t)
  <2>1. InitTlsDataQueued(t, "rl_raise") => ScanMove(t)
    BY DEF InitTlsDataQueued, EnterQueue, LeaveQueue, EnterWriter, LeaveWriter, EnterCs, LeaveCs, ScanMove
  <2>2. ASSUME \/ StoreFlag(t, TRUE, "rl_raise", "rl_last") \/ StoreFlag(t, FALSE, "rl_yield", "rl_signal")
               \/ StoreFlag(t, TRUE, "rl_reraise", "rl_unqueue")
        PROVE  StaysOff(t)
    BY <2>2 DEF StoreFlag
  <2>3. SetReaderDone(t, "rl_signal", "rl_queue") => StaysOff(t)
    BY DEF SetReaderDone
  <2>4. EnterQueue(t, "rl_queue", "rl_count") \/ LeaveQueue(t, "rl_unqueue", "reading") \/ JoinQueued(t)
        \/ EnterWriterFirst(t, "rl_writer", "rl_ticket")
          => StaysOff(t)
    BY DEF EnterQueue, LeaveQueue, JoinQueued, CountReader, EnterWriterFirst, EnterCs
  <2>5. LoadLastTicket(t) \/ CheckTicket(t) \/ DrawTicket(t, 1, "rl_ticket", "rl_store") \/ StoreTicket(t)
          => StaysOff(t)
    BY DEF LoadLastTicket, CheckTicket, DrawTicket, StoreTicket
  <2>6. StaysOff(t) => ScanMove(t)
    BY DEF ScanMove
  <2> HIDE DEF StaysOff, Goto
  <2> QED
    BY <1>4, <2>1, <2>2, <2>3, <2>4, <2>5, <2>6 DEF TicketedReadLock
<1>5. ASSUME TicketedReadUnlock(t)
      PROVE  StaysOff(t)
  <2>1. StoreFlag(t, FALSE, "reading", IF isLocked[t] THEN "ru_count" ELSE "ru_check") => StaysOff(t)
    BY DEF StoreFlag
  <2>2. LeaveWriterFirst(t, "ru_release", "ru_check") \/ CheckRequest(t, "ru_check", "ru_signal", "loop")
          => StaysOff(t)
    BY DEF LeaveWriterFirst, LeaveCs, CheckRequest
  <2>3. SetReaderDone(t, "ru_signal", "loop") => StaysOff(t)
    BY DEF SetReaderDone
  <2>4. LeaveQueued(t) \/ SignalFirstReader(t, "ru_last", "ru_check") \/ WaitForLastReader(t, "ru_wait", "ru_release")
          => StaysOff(t)
    BY DEF LeaveQueued, UncountReader, SignalFirstReader, WaitForLastReader
  <2> QED
    BY <1>5, <2>1, <2>2, <2>3, <2>4 DEF TicketedReadUnlock
<1> QED
  BY <1>2, <1>3, <1>4, <1>5 DEF TicketedStep, ScanMove

LEMMA StartScanCase ==
    ASSUME Typed, TMutex \in ScanClasses, NEW t \in Threads, Starts(t)
    PROVE  StaysOff(t)
<1>1. pc \in [Threads -> Places] /\ tlsData \in [Threads -> BOOLEAN]
  BY DEF Typed, PcTyped, FlagsTyped
<1>2. /\ pc[t] \in {"loop", "counting"} /\ pc'[t] \in StartPlaces
      /\ UNCHANGED <<m_threadStates, iter, readerDoneEvent>>
  BY StartsWhere DEF Outside, events
<1>3. pc'[t] \in TlsPlaces \/ tlsData'[t] = tlsData[t]
  <2>1. CASE BeginRead(t)
    <3>1. CASE tlsData[t]
      <4>1. tlsData'[t] = TRUE /\ tlsData[t] = TRUE
        BY <1>1, <2>1, <3>1 DEF BeginRead
      <4> QED
        BY <4>1
    <3>2. CASE ~tlsData[t]
      BY <1>1, <2>1, <3>2 DEF BeginRead, Goto, TlsPlace, TlsPlaces, ScanClasses
    <3> QED
      BY <3>1, <3>2
  <2>2. CASE BeginWrite(t)
    BY <2>2 DEF BeginWrite, flags, registry
  <2>3. CASE AddCount(t)
    BY <2>3 DEF AddCount, registry, Pass
  <2> QED
    BY <2>1, <2>2, <2>3 DEF Starts
<1> QED
  BY <1>2, <1>3 DEF StaysOff, StartPlaces, ScanPlaces, TlsPlaces, Wakers

LEMMA ScanCases ==
    ASSUME Typed, TMutex \in ScanClasses, NEW t \in Threads, Step(t)
    PROVE  ScanMove(t)
  BY StepCases, StartScanCase, CohortScanCases, TicketedScanCases DEF ScanMove, ScanClasses, FairStep,
     FairCsStep, QtStep, SingleStep, SpinSingleStep, SyncSingleStep, PlainStep, PlainClasses

\* While a writer asks, no reader is let in; those that are still in came in
\* by their flag alone.
LEMMA AskerKeepsOut ==
    ASSUME CountsInv, FlagsInv, TicketInv, TMutex \in ScanClasses,
           NEW w \in Threads, Asks(w), NEW t \in Threads
    PROVE  /\ ~ReadGrant(t)
           /\ pc[t] = "reading" => ~isLocked[t] /\ readerOrder[t] = 0
<1>1. OwnerInv /\ FirstInv /\ CohortInv /\ m_cs = w
  BY OneAsks DEF CountsInv
<1>2. LockedOk(t) /\ OrderOk(t) /\ FirstOk(w)
  BY <1>1 DEF OwnerInv, MarksInv, OrderInv
<1>3. pc[w] \in {"wl_unqueue", "wl_scan", "wl_sleep", "wl_wait", "writing"}
  BY FlagPlacesOfClass DEF Asks, ScanClasses
<1>4. CASE TMutex = "Ticketed"
  <2>1. ~isFirstReader[w]
    BY <1>2, <1>3 DEF FirstOk
  <2>2. ~InGroup(t)
    BY <1>1, <1>4, <2>1 DEF FirstInv, FirstClasses, GroupHeld
  <2>3. pc[t] # "rl_unqueue" /\ (pc[t] = "reading" => ~isLocked[t])
    BY <1>2, <1>4, <2>2 DEF InGroup, Counts, LockedOk
  <2>4. pc[t] = "rl_check" => ~(Signed(age[t]) <= 1)
    <3> SUFFICES ASSUME pc[t] = "rl_check"
                 PROVE  ~(Signed(age[t]) <= 1)
      OBVIOUS
    <3>1. lag >= 2 /\ lag <= age[t] /\ age[t] <= MaxLag + 1
      BY <1>3, <1>4, FlagPlacesOfClass DEF TicketInv, AgeOk, LagOk, FarPlaces, Asks
    <3>2. lag \in Nat /\ age[t] \in Nat /\ MaxLag \in Nat
      BY <1>1, TicketAssumption DEF OwnerInv, Typed, TicketsTyped, Span
    <3>3. Signed(age[t]) = age[t]
      BY <3>1, <3>2, WrapSmall
    <3> QED
      BY <3>1, <3>2, <3>3
  <2>5. readerOrder[t] = 0
    BY <1>2, <1>4 DEF OrderOk
  <2> QED
    BY <1>4, <2>3, <2>4, <2>5 DEF ReadGrant, SingleClasses, PlainClasses
<1>5. CASE TMutex = "Cohort"
  <2>1. pc[w] # "ru_wait" /\ ~Leads(w)
    BY <1>3 DEF Leads
  <2>2. ~Member(t)
    BY <1>1, <1>5, <2>1, MemberHeld
  <2>3. pc[t] # "rl_reraise" /\ (pc[t] = "reading" => readerOrder[t] = 0)
    BY <1>2, <1>5, <2>2 DEF Member, OrderOk
  <2>4. m_writeRequested
    BY DEF FlagsInv
  <2>5. ~isLocked[t]
    BY <1>2, <1>5 DEF LockedOk
  <2> QED
    BY <1>5, <2>3, <2>4, <2>5 DEF ReadGrant, SingleClasses, PlainClasses
<1> QED
  BY <1>4, <1>5 DEF ScanClasses

-----------------------------------------------------------------------------
(* Who is registered.                                                      *)

Registered(t) == \E k \in 1..Len(m_threadStates) : m_threadStates[k] = t
RegOk(t) ==
    /\ pc[t] \in ReadPlaces \cup {"reading"} => tlsData[t] /\ t \in Readers
    /\ TMutex \in ScanClasses /\ tlsData[t] /\ pc[t] \notin TlsPlaces => Registered(t)
RegInv == \A t \in Threads : RegOk(t)

LEMMA StepReg ==
    ASSUME OwnerInv, RegInv, NEW t \in Threads, Step(t)
    PROVE  RegInv'
<1>1. /\ UNCHANGED TMutex /\ Typed /\ Typed' /\ PlaceMove(t)
      /\ \A u \in Threads \ {t} : tlsData'[u] = tlsData[u] /\ (pc'[u] = pc[u] \/ Roused(u))
  BY OwnerStep, StepPlaceMove DEF OwnerInv, OnlyMoves, FlagsOfOthers
<1>2. \A u \in Threads : RegOk(u)
  BY DEF RegInv
<1>3. pc'[t] \in ReadPlaces \cup {"reading"} => tlsData'[t] /\ t \in Readers
  BY <1>1, <1>2, PlaceFacts DEF PlaceMove, RegOk
<1>4. m_threadStates \in Seq(Threads) /\ (TMutex \in ScanClasses => ScanMove(t))
  BY <1>1, ScanCases DEF Typed, FlagsTyped
<1>5. CASE TMutex \notin ScanClasses
  <2>1. ASSUME NEW u \in Threads \ {t}
        PROVE  RegOk(u)'
    BY <1>1, <1>2, <1>5 DEF RegOk, Roused, ReadPlaces
  <2> QED
    BY <1>1, <1>3, <1>5, <2>1 DEF RegInv, RegOk
<1>6. CASE TMutex \in ScanClasses
  <2>1. \A u \in Threads \ {t} : pc'[u] = pc[u]
    BY <1>1, <1>6 DEF Roused, ScanClasses, SingleClasses
  <2>2. \A u \in Threads : Registered(u) => Registered(u)'
    <3>1. CASE UNCHANGED m_threadStates
      BY <3>1 DEF Registered
    <3>2. CASE PushTlsData(t)
      BY <1>4, <3>2 DEF PushTlsData, Registered
    <3> QED
      BY <1>4, <1>6, <3>1, <3>2 DEF ScanMove, StaysOff, FinishScan, PassReader, FindReader,
         WaitReaderDone, registry
  <2>3. tlsData'[t] /\ pc'[t] \notin TlsPlaces => Registered(t)'
    <3>1. CASE PushTlsData(t)
      <4>1. /\ m_threadStates' = Append(m_threadStates, t)
            /\ Len(m_threadStates) + 1 \in 1..Len(m_threadStates')
            /\ m_threadStates'[Len(m_threadStates) + 1] = t
        BY <1>4, <3>1 DEF PushTlsData
      <4> QED
        BY <4>1 DEF Registered
    <3>2. CASE StaysOff(t)
      BY <1>2, <1>6, <2>2, <3>2 DEF StaysOff, RegOk
    <3>3. CASE FinishScan(t) \/ PassReader(t) \/ FindReader(t, "wl_wait") \/ WaitReaderDone(t)
      <4>1. pc[t] \in ScanPlaces /\ tlsData'[t] = tlsData[t]
        BY <3>3 DEF FinishScan, PassReader, FindReader, WaitReaderDone, Goto, registry, ScanPlaces
      <4> QED
        BY <1>2, <1>6, <2>2, <4>1 DEF RegOk, ScanPlaces, TlsPlaces
    <3> QED
      BY <1>4, <1>6, <3>1, <3>2, <3>3 DEF ScanMove
  <2>4. ASSUME NEW u \in Threads \ {t}
        PROVE  RegOk(u)'
    BY <1>1, <1>2, <2>1, <2>2 DEF RegOk
  <2>5. RegOk(t)'
    BY <1>1, <1>3, <2>3 DEF RegOk
  <2> QED
    BY <2>4, <2>5 DEF RegInv
<1> QED
  BY <1>5, <1>6

-----------------------------------------------------------------------------
(* How far a writer has scanned.                                           *)

ScanOk(w) ==
    /\ pc[w] \notin ScanPlaces => iter[w] = 1
    /\ pc[w] \in ScanPlaces => \A k \in 1..Len(m_threadStates) :
            k < iter[w] => pc[m_threadStates[k]] # "reading"
    /\ pc[w] = "wl_wait" =>
            /\ iter[w] <= Len(m_threadStates)
            /\ readerDoneEvent[Visited(w)] \/ pc[Visited(w)] \in Wakers
    /\ pc[w] = "writing" => \A t \in Threads : pc[t] # "reading"
ScanInv == TMutex \in ScanClasses => \A w \in Threads : ScanOk(w)

\* The step of another thread leaves to a writer what it has scanned.
LEMMA OthersKeepScan ==
    ASSUME CountsInv, FlagsInv, TicketInv, TMutex \in ScanClasses, NEW t \in Threads, Step(t),
           NEW w \in Threads \ {t}, ScanOk(w)
    PROVE  ScanOk(w)'
<1>1. /\ OwnerInv /\ Typed /\ PlaceMove(t) /\ ScanMove(t) /\ iter'[w] = iter[w]
      /\ \A u \in Threads \ {t} : pc'[u] = pc[u]
  <2>1. OwnerInv /\ Typed
    BY DEF CountsInv, OwnerInv
  <2>2. TMutex \notin SingleClasses
    BY DEF ScanClasses, SingleClasses
  <2> QED
    BY <2>1, <2>2, OwnerStep, StepPlaceMove, ScanCases DEF OnlyMoves, FlagsOfOthers
<1>2. CASE ~Asks(w)
  <2>1. pc[w] \notin ScanPlaces \cup {"writing"}
    BY <1>2, FlagPlacesOfClass DEF Asks, ScanClasses, ScanPlaces
  <2> QED
    BY <1>1, <2>1 DEF ScanOk, ScanPlaces
<1>3. CASE Asks(w)
  <2>1. m_cs = w /\ m_writeRequested
    BY <1>1, <1>3, OneAsks DEF FlagsInv
  <2>2. \A u \in Threads : /\ ~ReadGrant(u)
                           /\ pc[u] = "reading" => ~isLocked[u] /\ readerOrder[u] = 0
    BY <1>3, AskerKeepsOut
  <2>3. pc[t] \notin ScanPlaces \cup {"tls_push"}
    BY <1>1, <2>1, CsPlacesOfClass DEF OwnerInv, CsInv, OwnsCs, ScanClasses, ScanPlaces
  <2>4. StaysOff(t) /\ UNCHANGED m_threadStates
    BY <1>1, <2>3 DEF ScanMove, PushTlsData, FinishScan, PassReader, FindReader, WaitReaderDone, Goto,
       ScanPlaces, StaysOff
  <2>5. pc'[t] = "reading" => pc[t] = "reading"
    BY <1>1, <2>2, PlaceFacts DEF PlaceMove
  <2>6. /\ \A k \in 1..Len(m_threadStates) : m_threadStates[k] \in Threads
        /\ iter[w] \in Nat \ {0} /\ Len(m_threadStates) \in Nat
    BY <1>1 DEF Typed, FlagsTyped
  <2>7. ASSUME pc[w] = "wl_wait"
        PROVE  readerDoneEvent'[Visited(w)] \/ pc'[Visited(w)] \in Wakers
    <3>1. Visited(w) \in Threads /\ (readerDoneEvent[Visited(w)] \/ pc[Visited(w)] \in Wakers)
      BY <2>6, <2>7 DEF ScanOk, Visited
    <3>2. CASE Visited(w) # t
      BY <1>1, <2>4, <3>1, <3>2 DEF StaysOff
    <3>3. CASE Visited(w) = t
      BY <2>1, <2>2, <2>4, <3>1, <3>3 DEF StaysOff
    <3> QED
      BY <3>2, <3>3
  <2>8. Visited(w)' = Visited(w)
    BY <1>1, <2>4 DEF Visited
  <2>9. \A u \in Threads : pc'[u] = "reading" => pc[u] = "reading"
    BY <1>1, <2>5
  <2> QED
    BY <1>1, <2>4, <2>6, <2>7, <2>8, <2>9 DEF ScanOk
<1> QED
  BY <1>2, <1>3

LEMMA WriterKeepsScan ==
    ASSUME CountsInv, FlagsInv, TicketInv, RegInv, TMutex \in ScanClasses, NEW t \in Threads, Step(t),
           ScanOk(t)
    PROVE  ScanOk(t)'
<1>1. /\ OwnerInv /\ Typed /\ ScanMove(t)
      /\ \A u \in Threads \ {t} : pc'[u] = pc[u]
  <2>1. OwnerInv /\ Typed
    BY DEF CountsInv, OwnerInv
  <2>2. TMutex \notin SingleClasses
    BY DEF ScanClasses, SingleClasses
  <2> QED
    BY <2>1, <2>2, OwnerStep, ScanCases
<1>2. /\ pc \in [Threads -> Places] /\ iter \in [Threads -> Nat \ {0}] /\ Len(m_threadStates) \in Nat
      /\ \A k \in 1..Len(m_threadStates) : m_threadStates[k] \in Threads
      /\ isReading \in [Threads -> BOOLEAN]
  BY <1>1 DEF Typed, PcTyped, FlagsTyped
<1>3. ASSUME StaysOff(t)
      PROVE  ScanOk(t)'
  <2>1. iter'[t] = 1 /\ pc'[t] \notin {"wl_wait", "writing"}
    BY <1>3 DEF StaysOff, ScanOk
  <2> QED
    BY <2>1 DEF ScanOk
<1>4. ASSUME PushTlsData(t)
      PROVE  ScanOk(t)'
  <2>1. iter'[t] = 1 /\ pc'[t] = "tls_leave"
    BY <1>2, <1>4 DEF PushTlsData, Goto, ScanOk, ScanPlaces
  <2> QED
    BY <2>1 DEF ScanOk, ScanPlaces
<1>5. ASSUME FinishScan(t)
      PROVE  ScanOk(t)'
  <2>1. /\ pc[t] = "wl_scan" /\ pc'[t] = "writing" /\ iter'[t] = 1
        /\ \A k \in 1..Len(m_threadStates) : k < iter[t]
    BY <1>2, <1>5 DEF FinishScan, Goto
  <2>2. \A u \in Threads : pc[u] # "reading"
    <3> SUFFICES ASSUME NEW u \in Threads, pc[u] = "reading"
                 PROVE  FALSE
      OBVIOUS
    <3>1. Registered(u)
      BY DEF RegInv, RegOk, TlsPlaces
    <3> QED
      BY <2>1, <3>1 DEF ScanOk, ScanPlaces, Registered
  <2>3. \A u \in Threads : pc'[u] # "reading"
    BY <1>1, <2>1, <2>2
  <2> QED
    BY <2>1, <2>3 DEF ScanOk, ScanPlaces
<1>6. ASSUME PassReader(t)
      PROVE  ScanOk(t)'
  <2>1. /\ pc[t] = "wl_scan" /\ pc' = pc /\ iter'[t] = iter[t] + 1 /\ UNCHANGED m_threadStates
        /\ iter[t] \in 1..Len(m_threadStates) /\ ~isReading[m_threadStates[iter[t]]]
    BY <1>2, <1>6 DEF PassReader, registry, Visited
  <2>2. ~Raised(m_threadStates[iter[t]])
    BY <1>2, <2>1 DEF FlagsInv
  <2>3. pc[m_threadStates[iter[t]]] # "reading"
    BY <2>2, FlagPlacesOfClass DEF Raised, ScanClasses
  <2>4. \A k \in 1..Len(m_threadStates) : k < iter[t] + 1 => k < iter[t] \/ k = iter[t]
    BY <1>2
  <2> QED
    BY <2>1, <2>3, <2>4 DEF ScanOk, ScanPlaces
<1>7. ASSUME FindReader(t, "wl_wait")
      PROVE  ScanOk(t)'
  <2> DEFINE v == m_threadStates[iter[t]]
  <2>1. /\ pc[t] = "wl_scan" /\ pc'[t] = "wl_wait" /\ UNCHANGED <<iter, m_threadStates>>
        /\ iter[t] \in 1..Len(m_threadStates) /\ isReading[v]
    BY <1>2, <1>7 DEF FindReader, Goto, registry, Visited
  <2>2. v \in Threads /\ Raised(v)
    BY <1>2, <2>1 DEF FlagsInv
  <2>3. Asks(t)
    BY <2>1, FlagPlacesOfClass DEF Asks, ScanClasses
  <2>4. ~(TMutex = "Ticketed" /\ pc[v] = "rl_unqueue")
    BY <2>2, <2>3, AskerKeepsOut DEF ReadGrant
  <2>5. pc[v] \in Wakers /\ v # t
    BY <2>1, <2>2, <2>4, FlagPlacesOfClass DEF Raised, ScanClasses, Wakers
  <2>6. pc'[v] \in Wakers /\ Visited(t)' = v
    BY <1>1, <2>1, <2>2, <2>5 DEF Visited
  <2>7. \A u \in Threads : pc'[u] = "reading" => pc[u] = "reading"
    BY <1>1, <2>1
  <2>8. \A k \in 1..Len(m_threadStates) : k < iter[t] => pc'[m_threadStates[k]] # "reading"
    BY <1>2, <2>1, <2>7 DEF ScanOk, ScanPlaces
  <2> QED
    BY <2>1, <2>6, <2>8 DEF ScanOk, ScanPlaces
<1>8. ASSUME WaitReaderDone(t)
      PROVE  ScanOk(t)'
  <2>1. pc[t] = "wl_wait" /\ pc'[t] = "wl_scan" /\ UNCHANGED <<iter, m_threadStates>>
    BY <1>2, <1>8 DEF WaitReaderDone, Goto, registry
  <2>2. \A u \in Threads : pc'[u] = "reading" => pc[u] = "reading"
    BY <1>1, <2>1
  <2>3. \A k \in 1..Len(m_threadStates) : k < iter[t] => pc'[m_threadStates[k]] # "reading"
    BY <1>2, <2>1, <2>2 DEF ScanOk, ScanPlaces
  <2> QED
    BY <2>1, <2>3 DEF ScanOk, ScanPlaces
<1> QED
  BY <1>1, <1>3, <1>4, <1>5, <1>6, <1>7, <1>8 DEF ScanMove

LEMMA StepScan ==
    ASSUME CountsInv, FlagsInv, TicketInv, RegInv, ScanInv, NEW t \in Threads, Step(t)
    PROVE  ScanInv'
<1>1. UNCHANGED TMutex
  BY OwnerStep DEF CountsInv
<1>2. ASSUME TMutex \in ScanClasses, NEW w \in Threads
      PROVE  ScanOk(w)'
  <2>1. ScanOk(w)
    BY <1>2 DEF ScanInv
  <2>2. CASE w = t
    BY <1>2, <2>1, <2>2, WriterKeepsScan
  <2>3. CASE w # t
    BY <1>2, <2>1, <2>3, OthersKeepScan
  <2> QED
    BY <2>2, <2>3
<1> QED
  BY <1>1, <1>2 DEF ScanInv

-----------------------------------------------------------------------------
(* All of it together is an invariant.                                     *)

QueueMutexesInv == /\ CountsInv /\ FlagsInv /\ TicketInv /\ RegInv /\ ScanInv /\ HarnessInv

LEMMA InitPlaces ==
    ASSUME Init, NEW t \in Threads
    PROVE  /\ pc[t] \in {"loop", "rl_reraise", "rl_permit", "rl_join", "wl_enter"}
           /\ NewTest => pc[t] = "loop"
           /\ CrowdedTest => TMutex = "Cohort"
<1>1. CASE NewTest
  BY <1>1, TrialsAssumption DEF NewTest, CrowdedTest
<1>2. CASE CrowdedTest
  BY <1>2 DEF NewTest, CrowdedTest
<1> QED
  BY <1>1, <1>2 DEF Init

LEMMA InitTickets == Init => TicketInv
<1> SUFFICES ASSUME Init, TMutex = "Ticketed"
             PROVE  /\ lag + 2 * Cardinality(Drawing) <= MaxLag + Excess
                    /\ \A t \in Threads : AgeOk(t) /\ LagOk(t)
  BY DEF TicketInv
<1>1. lag = 0 /\ \A t \in Threads : pc[t] = "loop" /\ age[t] = 0
  BY InitPlaces DEF Init, TicketInit
<1>2. Drawing = {} /\ Excess = 0
  BY <1>1 DEF Drawing, Excess, Storing
<1>3. Cardinality(Drawing) = 0
  BY <1>2, FS_EmptySet
<1> QED
  BY <1>1, <1>2, <1>3, TicketAssumption DEF AgeOk, LagOk, FarPlaces

LEMMA InitReg == Init => RegInv
<1> SUFFICES ASSUME Init, NEW t \in Threads
             PROVE  RegOk(t)
  BY DEF RegInv
<1>1. CASE NewTest
  <2>1. pc[t] = "loop" /\ ~tlsData[t]
    BY <1>1 DEF NewTest
  <2> QED
    BY <2>1 DEF RegOk, ReadPlaces
<1>2. CASE CrowdedTest
  <2> DEFINE S == crew \cap Readers
  <2>1. /\ pc[t] \in {"rl_reraise", "rl_permit", "rl_join"} => t \in S
        /\ pc[t] \in {"loop", "rl_reraise", "rl_permit", "rl_join", "wl_enter"}
    BY <1>2 DEF CrowdedTest
  <2>2. tlsData = [u \in Threads |-> u \in S]
    BY <1>2 DEF CrowdedTest
  <2>3. tlsData[t] <=> t \in S
    <3> HIDE DEF S
    <3> QED
      BY <2>2, Zenon
  <2>4. t \in S => Registered(t)
    <3>1. m_threadStates \in Bijection(1..Cardinality(S), S)
      BY <1>2 DEF CrowdedTest
    <3>2. Cardinality(S) \in Nat
      BY QueueAssumption, FS_Subset, FS_CardinalityType DEF Threads
    <3> HIDE DEF S
    <3>3. /\ m_threadStates \in [1..Cardinality(S) -> S]
          /\ \A s \in S : \E k \in 1..Cardinality(S) : m_threadStates[k] = s
      BY <3>1 DEF Bijection, Injection, Surjection
    <3>4. Len(m_threadStates) = Cardinality(S)
      BY <3>2, <3>3
    <3> QED
      BY <3>3, <3>4 DEF Registered
  <2> QED
    BY <2>1, <2>3, <2>4 DEF RegOk, ReadPlaces
<1> QED
  BY <1>1, <1>2 DEF Init

LEMMA InitScan == Init => ScanInv
<1> SUFFICES ASSUME Init, NEW w \in Threads
             PROVE  ScanOk(w)
  BY DEF ScanInv
<1>1. iter[w] = 1 /\ pc[w] \notin ScanPlaces \cup {"writing"}
  BY InitPlaces DEF Init, ScanPlaces
<1> QED
  BY <1>1 DEF ScanOk, ScanPlaces

LEMMA NextQueueMutexes ==
    ASSUME QueueMutexesInv, HarnessInv', [Next]_allVars
    PROVE  QueueMutexesInv'
<1>1. CountsInv' /\ FlagsInv'
  BY NextCounts, NextFlags DEF QueueMutexesInv, CountsInv
<1>2. CASE MainStep \/ Timeout \/ UNCHANGED allVars
  <2>1. /\ UNCHANGED <<TMutex, pc, tickets, tlsData, m_threadStates, iter, readerDoneEvent>>
        /\ UNCHANGED <<lag, age>>
    BY <1>2 DEF MainStep, Timeout, OpenGate, Join, SetDone, Stop, allVars, vars, registry, events, tickets
  <2>2. TicketInv'
    BY <2>1 DEF QueueMutexesInv, TicketInv, Drawing, Excess, Storing, AgeOk, LagOk
  <2>3. RegInv'
    BY <2>1 DEF QueueMutexesInv, RegInv, RegOk, Registered
  <2>4. ScanInv'
    BY <2>1 DEF QueueMutexesInv, ScanInv, ScanOk, Visited
  <2> QED
    BY <1>1, <2>2, <2>3, <2>4 DEF QueueMutexesInv
<1>3. ASSUME NEW t \in Threads, Step(t)
      PROVE  QueueMutexesInv'
  BY <1>1, <1>3, TicketKept, StepReg, StepScan DEF QueueMutexesInv, CountsInv
<1> QED
  BY <1>2, <1>3 DEF Next

LEMMA QueueMutexesInvariant == Spec => []QueueMutexesInv
<1>1. Init => RegInv /\ TicketInv /\ ScanInv
  BY InitReg, InitTickets, InitScan
<1>2. CountsInv /\ FlagsInv /\ HarnessInv /\ RegInv /\ TicketInv /\ ScanInv => QueueMutexesInv
  BY DEF QueueMutexesInv
<1>3. Init /\ CountsInv /\ FlagsInv /\ HarnessInv => QueueMutexesInv
  BY <1>1, <1>2
<1> QED
  BY <1>3, NextQueueMutexes, CountsInvariant, FlagsInvariant, HarnessInvariant, PTL DEF Spec

\* A writer of Cohort or Ticketed that waits for a reader is woken: the event
\* of the reader is set, or the reader is on its way to set it.
THEOREM WritersAreWoken == Spec => []WriterIsWoken
<1>1. QueueMutexesInv => WriterIsWoken
  BY DEF QueueMutexesInv, ScanInv, ScanOk, ScanClasses, Wakers, WriterIsWoken, At
<1> QED
  BY <1>1, QueueMutexesInvariant, PTL

-----------------------------------------------------------------------------
(* The refinement of RWLock.                                               *)

\* What lets a reader in keeps writers out.
LEMMA ReadGranted ==
    ASSUME QueueMutexesInv, NEW t \in Threads, ReadGrant(t), NEW w \in Threads
    PROVE  pc[w] # "writing"
<1> SUFFICES ASSUME pc[w] = "writing"
             PROVE  FALSE
  OBVIOUS
<1>1. /\ CountsInv /\ FlagsInv /\ TicketInv /\ OwnerInv
      /\ FirstInv /\ FairInv /\ QtInv
  BY DEF QueueMutexesInv, CountsInv
<1>2. CASE TMutex = "Fair"
  <2>1. HoldsAlone(w) /\ InGroup(t)
    BY <1>2 DEF HoldsAlone, InGroup, Counts, ReadGrant, SingleClasses, PlainClasses
  <2> QED
    BY <1>1, <1>2, <2>1 DEF FairInv
<1>3. CASE TMutex = "FairCs"
  <2>1. InGroup(t)
    BY <1>3 DEF InGroup, Counts, ReadGrant, SingleClasses, PlainClasses
  <2>2. m_cs = w
    BY <1>1, <1>3, CsPlacesOfClass DEF OwnerInv, CsInv, OwnsCs
  <2>3. isFirstReader[w]
    BY <1>1, <1>3, <2>1, <2>2 DEF FirstInv, FirstClasses, GroupHeld
  <2> QED
    BY <1>1, <2>3 DEF OwnerInv, MarksInv, FirstOk
<1>4. CASE TMutex = "Qt"
  <2>1. m_sema > 0 /\ HasAll(w)
    BY <1>4 DEF HasAll, ReadGrant, SingleClasses, PlainClasses
  <2>2. Cardinality(ReadersInside) \in Nat
    BY Finite DEF ReadersInside
  <2>3. Collected \in Nat /\ m_sema \in Int
    BY <1>1, QueueAssumption DEF OwnerInv, Typed, QueueTyped, Collected
  <2>4. m_sema + Cardinality(ReadersInside) + Collected = 0
    BY <1>1, <1>4, <2>1 DEF QtInv
  <2> QED
    BY <2>1, <2>2, <2>3, <2>4
<1>5. CASE TMutex \in ScanClasses
  <2>1. Asks(w)
    BY <1>5, FlagPlacesOfClass DEF Asks, ScanClasses
  <2> QED
    BY <1>1, <1>5, <2>1, AskerKeepsOut
<1>6. CASE TMutex \in SingleClasses
  <2>1. Asks(w) /\ ~m_writeRequested
    BY <1>6, FlagPlacesOfClass DEF Asks, ReadGrant, SingleClasses, PlainClasses
  <2> QED
    BY <1>1, <2>1 DEF FlagsInv
<1>7. CASE TMutex \in PlainClasses
  <2>1. m_cs = None /\ m_cs = w
    BY <1>1, <1>7, CsPlacesOfClass DEF ReadGrant, SingleClasses, PlainClasses, OwnerInv, CsInv, OwnsCs
  <2> QED
    BY <2>1, NoneAssumption DEF Threads
<1>8. TMutex \in Classes
  BY <1>1 DEF OwnerInv, Typed, FlagsTyped
<1> QED
  BY <1>2, <1>3, <1>4, <1>5, <1>6, <1>7, <1>8, ClassesAssumption DEF ScanClasses

\* What lets a writer in keeps everybody out.
LEMMA WriteGranted ==
    ASSUME QueueMutexesInv, NEW t \in Threads, WriteGrant(t), pc[t] \notin {"reading", "writing"},
           NEW u \in Threads
    PROVE  pc[u] \notin {"reading", "writing"}
<1> SUFFICES ASSUME pc[u] \in {"reading", "writing"}
             PROVE  FALSE
  OBVIOUS
<1>1. /\ CountsInv /\ FlagsInv /\ RegInv /\ ScanInv /\ HarnessInv /\ OwnerInv
      /\ FirstInv /\ FairInv /\ QtInv /\ u # t
  BY DEF QueueMutexesInv, CountsInv
<1>2. CASE TMutex = "Fair"
  <2>1. HoldsAlone(t) /\ (HoldsAlone(u) \/ InGroup(u))
    BY <1>2 DEF HoldsAlone, InGroup, Counts, WriteGrant, SingleClasses, PlainClasses
  <2> QED
    BY <1>1, <1>2, <2>1 DEF FairInv
<1>3. CASE TMutex = "FairCs"
  <2>1. pc[t] = "wl_unqueue" /\ m_cs = t
    BY <1>1, <1>3, CsPlacesOfClass DEF WriteGrant, SingleClasses, PlainClasses, OwnerInv, CsInv, OwnsCs
  <2>2. CASE pc[u] = "writing"
    BY <1>1, <1>3, <2>1, <2>2, CsPlacesOfClass DEF OwnerInv, CsInv, OwnsCs
  <2>3. CASE pc[u] = "reading"
    <3>1. InGroup(u)
      BY <1>3, <2>3 DEF InGroup, Counts
    <3>2. isFirstReader[t]
      BY <1>1, <1>3, <2>1, <3>1 DEF FirstInv, FirstClasses, GroupHeld
    <3> QED
      BY <1>1, <2>1, <3>2 DEF OwnerInv, MarksInv, FirstOk
  <2> QED
    BY <2>2, <2>3
<1>4. CASE TMutex = "Qt"
  <2>1. HasAll(t)
    BY <1>4 DEF HasAll, WriteGrant, SingleClasses, PlainClasses
  <2>2. /\ Cardinality(ReadersInside) \in Nat
        /\ Cardinality(ReadersInside) = 0 => ReadersInside = {}
    BY Finite DEF ReadersInside
  <2>3. Collected \in Nat /\ m_sema \in Int
    BY <1>1, QueueAssumption DEF OwnerInv, Typed, QueueTyped, Collected
  <2>4. m_sema + Cardinality(ReadersInside) + Collected = 0 /\ m_sema >= 0
    BY <1>1, <1>4, <2>1 DEF QtInv
  <2>5. ReadersInside = {}
    <3>1. Cardinality(ReadersInside) = 0
      BY <2>2, <2>3, <2>4
    <3> QED
      BY <2>2, <3>1
  <2>6. HasAll(u)
    BY <2>5 DEF ReadersInside, HasAll
  <2> QED
    BY <1>1, <1>4, <2>1, <2>6 DEF QtInv
<1>5. CASE TMutex \in ScanClasses \cup SingleClasses
  <2>1. pc[t] = "wl_scan"
    BY <1>5 DEF WriteGrant, ScanClasses, SingleClasses, PlainClasses
  <2>2. m_cs = t
    BY <1>1, <1>5, <2>1, CsPlacesOfClass DEF OwnerInv, CsInv, OwnsCs, ScanClasses, SingleClasses
  <2>3. CASE pc[u] = "writing"
    BY <1>1, <1>5, <2>2, <2>3, CsPlacesOfClass DEF OwnerInv, CsInv, OwnsCs, ScanClasses, SingleClasses
  <2>4. CASE pc[u] = "reading" /\ TMutex \in ScanClasses
    <3>1. \A k \in 1..Len(m_threadStates) : k < iter[t] => pc[m_threadStates[k]] # "reading"
      BY <1>1, <2>1, <2>4 DEF ScanInv, ScanOk, ScanPlaces
    <3>2. iter[t] > Len(m_threadStates)
      BY <2>1, <2>4 DEF WriteGrant, ScanClasses, SingleClasses, PlainClasses
    <3>3. Registered(u)
      BY <1>1, <2>4 DEF RegInv, RegOk, TlsPlaces
    <3>4. Len(m_threadStates) \in Nat /\ iter[t] \in Nat
      BY <1>1 DEF OwnerInv, Typed, FlagsTyped
    <3> QED
      BY <2>4, <3>1, <3>2, <3>3, <3>4 DEF Registered
  <2>5. CASE pc[u] = "reading" /\ TMutex \in SingleClasses
    <3>1. ~m_isReading
      BY <2>5 DEF WriteGrant, ScanClasses, SingleClasses, PlainClasses
    <3>2. u \in crew \cap Readers
      BY <1>1, <2>5 DEF RegInv, RegOk, HarnessInv
    <3>3. isReading[u]
      BY <1>1, <2>5, FlagPlacesOfClass DEF FlagsInv, Raised
    <3> QED
      BY <3>1, <3>2, <3>3 DEF m_isReading
  <2> QED
    BY <1>5, <2>3, <2>4, <2>5
<1>6. CASE TMutex \in PlainClasses
  <2>1. m_cs = None /\ m_cs = u
    BY <1>1, <1>6, CsPlacesOfClass DEF WriteGrant, SingleClasses, PlainClasses, OwnerInv, CsInv, OwnsCs
  <2> QED
    BY <2>1, NoneAssumption DEF Threads
<1>7. TMutex \in Classes
  BY <1>1 DEF OwnerInv, Typed, FlagsTyped
<1> QED
  BY <1>2, <1>3, <1>4, <1>5, <1>6, <1>7, ClassesAssumption DEF ScanClasses

LEMMA StatusOfPlaces ==
    /\ \A place \in ReadPlaces : StatusOf(place) = "wantRead"
    /\ \A place \in WritePlaces : StatusOf(place) = "wantWrite"
    /\ \A place \in RestPlaces : StatusOf(place) = "idle"
    /\ StatusOf("reading") = "reading" /\ StatusOf("writing") = "writing"
    /\ \A place \in Places : /\ StatusOf(place) = "reading" => place = "reading"
                             /\ StatusOf(place) = "writing" => place = "writing"
  BY DEF StatusOf, ReadPlaces, WritePlaces, RestPlaces, IdlePlaces, UnlockPlaces, Places

\* Every step of a thread is a step of RWLock or leaves its status alone.
LEMMA StepMaps ==
    ASSUME QueueMutexesInv, NEW t \in Threads, Step(t)
    PROVE  Abstract!Next \/ UNCHANGED lockStatus
<1>1. /\ PlaceMove(t) /\ pc \in [Threads -> Places] /\ pc' \in [Threads -> Places]
      /\ \A u \in Threads \ {t} : pc'[u] = pc[u] \/ Roused(u)
  <2>1. OwnerInv /\ OwnerInv' /\ OnlyMoves(t)
    BY OwnerStep DEF QueueMutexesInv, CountsInv
  <2> QED
    BY <2>1, StepPlaceMove DEF OwnerInv, Typed, PcTyped, OnlyMoves
<1>2. \A u \in Threads : /\ lockStatus[u] = StatusOf(pc[u]) /\ lockStatus'[u] = StatusOf(pc'[u])
                         /\ u # t => lockStatus'[u] = lockStatus[u]
  <2> SUFFICES ASSUME NEW u \in Threads
               PROVE  /\ lockStatus[u] = StatusOf(pc[u]) /\ lockStatus'[u] = StatusOf(pc'[u])
                      /\ u # t => lockStatus'[u] = lockStatus[u]
    OBVIOUS
  <2>1. lockStatus[u] = StatusOf(pc[u]) /\ lockStatus'[u] = StatusOf(pc'[u])
    BY DEF lockStatus
  <2>2. Roused(u) => StatusOf(pc'[u]) = StatusOf(pc[u])
    BY DEF Roused, StatusOf, ReadPlaces, WritePlaces
  <2> QED
    BY <1>1, <2>1, <2>2
<1>3. /\ lockStatus = [u \in Threads |-> lockStatus[u]]
      /\ lockStatus' = [u \in Threads |-> lockStatus'[u]]
  BY DEF lockStatus
<1>4. ASSUME NEW from, NEW to, lockStatus[t] = from, lockStatus'[t] = to
      PROVE  Abstract!Change(t, from, to)
  BY <1>2, <1>3, <1>4 DEF Abstract!Change
<1>5. lockStatus'[t] = lockStatus[t] => UNCHANGED lockStatus
  <2> HAVE lockStatus'[t] = lockStatus[t]
  <2>1. \A u \in Threads : lockStatus'[u] = lockStatus[u]
    BY <1>2
  <2> QED
    BY <1>3, <2>1
<1>6. \A u \in Threads : /\ lockStatus[u] = "reading" => pc[u] = "reading"
                         /\ lockStatus[u] = "writing" => pc[u] = "writing"
  BY <1>1, <1>2, StatusOfPlaces
<1>7. CASE pc[t] = "loop" /\ pc'[t] \in ReadPlaces
  <2>1. Abstract!RequestRead(t)
    BY <1>2, <1>4, <1>7, StatusOfPlaces, PlaceFacts DEF Abstract!RequestRead
  <2> QED
    BY <2>1 DEF Abstract!Next
<1>8. CASE pc[t] = "loop" /\ pc'[t] \in WritePlaces
  <2>1. Abstract!RequestWrite(t)
    BY <1>2, <1>4, <1>8, StatusOfPlaces, PlaceFacts DEF Abstract!RequestWrite
  <2> QED
    BY <2>1 DEF Abstract!Next
<1>9. CASE pc[t] \in ReadPlaces /\ pc'[t] = "reading" /\ ReadGrant(t)
  <2>1. Abstract!Writing = {}
    BY <1>6, <1>9, ReadGranted DEF Abstract!Writing
  <2>2. Abstract!AcquireRead(t)
    BY <1>2, <1>4, <1>9, <2>1, StatusOfPlaces DEF Abstract!AcquireRead
  <2> QED
    BY <2>2 DEF Abstract!Next
<1>10. CASE pc[t] \in WritePlaces /\ pc'[t] = "writing" /\ WriteGrant(t)
  <2>1. pc[t] \notin {"reading", "writing"}
    BY <1>10, PlaceFacts
  <2>2. Abstract!Reading \cup Abstract!Writing = {}
    BY <1>6, <1>10, <2>1, WriteGranted DEF Abstract!Reading, Abstract!Writing
  <2>3. Abstract!AcquireWrite(t)
    BY <1>2, <1>4, <1>10, <2>2, StatusOfPlaces DEF Abstract!AcquireWrite
  <2> QED
    BY <2>3 DEF Abstract!Next
<1>11. CASE pc[t] = "reading" /\ pc'[t] \in RestPlaces
  <2>1. Abstract!ReleaseRead(t)
    BY <1>2, <1>4, <1>11, StatusOfPlaces DEF Abstract!ReleaseRead
  <2> QED
    BY <2>1 DEF Abstract!Next
<1>12. CASE pc[t] = "writing" /\ pc'[t] \in RestPlaces
  <2>1. Abstract!ReleaseWrite(t)
    BY <1>2, <1>4, <1>12, StatusOfPlaces DEF Abstract!ReleaseWrite
  <2> QED
    BY <2>1 DEF Abstract!Next
<1>13. CASE \/ pc[t] \in ReadPlaces /\ pc'[t] \in ReadPlaces
            \/ pc[t] \in WritePlaces /\ pc'[t] \in WritePlaces
            \/ pc[t] \in RestPlaces /\ pc'[t] \in RestPlaces
  BY <1>2, <1>5, <1>13, StatusOfPlaces
<1> QED
  BY <1>1, <1>7, <1>8, <1>9, <1>10, <1>11, <1>12, <1>13 DEF PlaceMove

\* Each of the nine classes implements the read-write lock, for any threads: a
\* test starts with everybody idle, and every step is one of the lock's.
THEOREM NineClassesImplementRWLock == Spec => ImplementsRWLock
<1>1. Init => (main = "create" => Abstract!Init)
  <2> SUFFICES ASSUME Init, main = "create"
               PROVE  Abstract!Init
    OBVIOUS
  <2>1. NewTest
    BY DEF Init, CrowdedTest
  <2>2. \A t \in Threads : StatusOf(pc[t]) = "idle"
    BY <2>1, StatusOfPlaces, PlaceFacts DEF NewTest
  <2> QED
    BY <2>2 DEF Abstract!Init, lockStatus
<1>2. QueueMutexesInv /\ [Next]_allVars => [Abstract!Next]_lockStatus
  <2> SUFFICES ASSUME QueueMutexesInv, [Next]_allVars
               PROVE  Abstract!Next \/ UNCHANGED lockStatus
    OBVIOUS
  <2>1. CASE MainStep \/ Timeout \/ UNCHANGED allVars
    <3>1. UNCHANGED pc
      BY <2>1 DEF MainStep, Timeout, OpenGate, Join, SetDone, Stop, allVars, vars
    <3> QED
      BY <3>1 DEF lockStatus
  <2> QED
    BY <2>1, StepMaps DEF Next
<1> QED
  BY <1>1, <1>2, QueueMutexesInvariant, PTL DEF Spec, ImplementsRWLock

-----------------------------------------------------------------------------
(* Service in order of arrival.                                            *)

\* Fair: a writer that has entered the second lock is the last that did.
FairWrites(t) == pc[t] \in {"wl_unqueue", "wl_assert", "writing"}
FairWriterInv == TMutex = "Fair" => \A t \in Threads : FairWrites(t) => m_cs = t

LEMMA StepFairWriter ==
    ASSUME CountsInv, FairWriterInv, NEW t \in Threads, Step(t)
    PROVE  FairWriterInv'
<1>1. UNCHANGED TMutex /\ OwnerInv
  BY OwnerStep DEF CountsInv
<1> SUFFICES ASSUME TMutex = "Fair"
             PROVE  FairWriterInv'
  BY <1>1 DEF FairWriterInv
<1>2. /\ pc \in [Threads -> Places] /\ FairInv
      /\ \A u \in Threads \ {t} : pc'[u] = pc[u]
  BY <1>1, OwnerStep DEF CountsInv, OwnerInv, Typed, PcTyped, SingleClasses
<1>3. \/ UNCHANGED m_cs /\ (FairWrites(t)' => FairWrites(t))
      \/ m_cs = None /\ m_cs' = t
      \/ HoldsAlone(t) /\ ~FairWrites(t)'
  <2>1. CASE Starts(t)
    <3>1. UNCHANGED m_cs /\ pc'[t] \in StartPlaces
      BY <1>1, <2>1, StartsWhere DEF Outside, locks, OwnerInv
    <3> QED
      BY <3>1 DEF FairWrites, StartPlaces
  <2>2. CASE FairStep(t)
    BY <1>2, <2>2 DEF FairStep, FairWriteLock, FairWriteUnlock, FairReadLock, FairReadUnlock,
       EnterQueue, LeaveQueue, EnterWriter, LeaveWriter, EnterCs, LeaveCs, CountReader,
       UncountReader, Goto, flags, locks, FairWrites, HoldsAlone
  <2> QED
    BY <2>1, <2>2, StepCases DEF FairCsStep, QtStep, SingleStep, SpinSingleStep, SyncSingleStep,
       PlainStep, PlainClasses, CohortStep, TicketedStep
<1>4. ASSUME NEW u \in Threads, FairWrites(u)'
      PROVE  m_cs' = u
  <2>1. u # None
    BY NoneAssumption DEF Threads
  <2>2. CASE u = t
    BY <1>3, <1>4, <2>2 DEF FairWriterInv
  <2>3. CASE u # t
    <3>1. FairWrites(u) /\ m_cs = u /\ HoldsAlone(u)
      BY <1>2, <1>4, <2>3 DEF FairWrites, FairWriterInv, HoldsAlone
    <3>2. ~HoldsAlone(t)
      BY <1>2, <2>3, <3>1 DEF FairInv
    <3> QED
      BY <1>3, <2>1, <3>1, <3>2
  <2> QED
    BY <2>2, <2>3
<1> QED
  BY <1>4 DEF FairWriterInv

LEMMA FairWriterInvariant == Spec => []FairWriterInv
<1>1. Init => FairWriterInv
  BY InitPlaces DEF FairWriterInv, FairWrites
<1>2. CountsInv /\ FairWriterInv /\ [Next]_allVars => FairWriterInv'
  <2> SUFFICES ASSUME CountsInv, FairWriterInv, [Next]_allVars
               PROVE  FairWriterInv'
    OBVIOUS
  <2>1. CASE MainStep \/ Timeout \/ UNCHANGED allVars
    <3>1. UNCHANGED <<TMutex, pc, m_cs>>
      BY <2>1 DEF MainStep, Timeout, OpenGate, Join, SetDone, Stop, allVars, vars, locks
    <3> QED
      BY <3>1 DEF FairWriterInv, FairWrites
  <2> QED
    BY <2>1, StepFairWriter DEF Next
<1> QED
  BY <1>1, <1>2, CountsInvariant, PTL DEF Spec

\* While a thread at the head of the queue waits for the second lock, only the
\* threads before it obtain the lock; but readers of Ticketed may pass a reader.
THEOREM HeadOfQueueComesNext == Spec => HeadOfQueueIsNext
<1>1. QueueMutexesInv /\ FairWriterInv /\ [Next]_allVars =>
        ((TMutex \in {"Fair", "FairCs", "Ticketed"}) =>
            \A h \in At({"wl_writer", "rl_writer"}), t \in Threads :
                (pc'[t] \in {"reading", "writing"} /\ pc[t] \notin {"reading", "writing"}) =>
                    m_cs = t \/ (pc[h] = "rl_writer" /\ pc[t] = "rl_check"))
  <2> SUFFICES ASSUME QueueMutexesInv, FairWriterInv, [Next]_allVars,
                      TMutex \in {"Fair", "FairCs", "Ticketed"},
                      NEW h \in Threads, pc[h] \in {"wl_writer", "rl_writer"},
                      NEW t \in Threads, pc'[t] \in {"reading", "writing"},
                      pc[t] \notin {"reading", "writing"}
               PROVE  m_cs = t \/ (pc[h] = "rl_writer" /\ pc[t] = "rl_check")
    BY DEF At
  <2>1. CountsInv /\ OwnerInv /\ TicketInv
    BY DEF QueueMutexesInv, CountsInv
  <2>2. CASE MainStep \/ Timeout \/ UNCHANGED allVars
    <3>1. UNCHANGED pc
      BY <2>2 DEF MainStep, Timeout, OpenGate, Join, SetDone, Stop, allVars, vars
    <3> QED
      BY <3>1
  <2>3. ASSUME NEW u \in Threads, Step(u)
        PROVE  m_cs = t \/ (pc[h] = "rl_writer" /\ pc[t] = "rl_check")
    <3>1. PlaceMove(u) /\ (u # t => pc'[t] = pc[t])
      BY <2>1, <2>3, OwnerStep, StepPlaceMove DEF OwnerInv, SingleClasses
    <3>2. u = t /\ (ReadGrant(t) \/ WriteGrant(t))
      BY <3>1, PlaceFacts DEF PlaceMove
    <3>3. h # t => pc[t] \notin QueuePlaces(TMutex)
      <4>1. pc[h] \in QueuePlaces(TMutex)
        BY QueuePlacesOfClass
      <4> QED
        BY <2>1, <4>1 DEF OwnerInv, QueueInv
    <3>4. ASSUME ReadGrant(t)
          PROVE  pc[h] = "rl_writer" /\ pc[t] = "rl_check"
      <4>1. \/ pc[t] = "rl_unqueue"
            \/ TMutex = "Ticketed" /\ pc[t] = "rl_check" /\ Signed(age[t]) <= 1
        BY <3>4 DEF ReadGrant, SingleClasses, PlainClasses
      <4>2. pc[t] # "rl_unqueue"
        BY <3>3, QueuePlacesOfClass
      <4>3. CASE pc[h] = "wl_writer"
        <5>1. lag >= 2 /\ lag <= age[t] /\ age[t] <= MaxLag + 1
          BY <2>1, <4>1, <4>2, <4>3 DEF TicketInv, AgeOk, LagOk, FarPlaces
        <5>2. lag \in Nat /\ age[t] \in Nat /\ MaxLag \in Nat
          BY <2>1, TicketAssumption DEF OwnerInv, Typed, TicketsTyped, Span
        <5>3. Signed(age[t]) = age[t]
          BY <5>1, <5>2, WrapSmall
        <5> QED
          BY <4>1, <4>2, <5>1, <5>2, <5>3
      <4> QED
        BY <4>1, <4>2, <4>3
    <3>5. ASSUME WriteGrant(t)
          PROVE  m_cs = t
      <4>1. CASE TMutex = "Fair"
        BY <3>5, <4>1 DEF WriteGrant, SingleClasses, PlainClasses, FairWriterInv, FairWrites
      <4>2. CASE TMutex = "FairCs"
        BY <3>3, <3>5, <4>2, QueuePlacesOfClass DEF WriteGrant, SingleClasses, PlainClasses
      <4>3. CASE TMutex = "Ticketed"
        BY <2>1, <3>5, <4>3, CsPlacesOfClass DEF WriteGrant, SingleClasses, PlainClasses, OwnerInv,
           CsInv, OwnsCs
      <4> QED
        BY <4>1, <4>2, <4>3
    <3> QED
      BY <3>2, <3>4, <3>5
  <2> QED
    BY <2>2, <2>3 DEF Next
<1> QED
  BY <1>1, QueueMutexesInvariant, FairWriterInvariant, PTL DEF Spec, HeadOfQueueIsNext
=============================================================================
