--------------------------- MODULE QueueMutexesProofs ---------------------------
(***************************************************************************)
(* What is proved of the nine classes of QueueMutexes that does not depend *)
(* on the readers' flags, for any finite set of threads: typing, the marks *)
(* and the order that a reader carries, who owns the two locks, and the    *)
(* counters of the harness.                                                *)
(***************************************************************************)
EXTENDS QueueMutexes, FiniteSetTheorems, TLAPS

-----------------------------------------------------------------------------
(* Typing.  That counts are natural numbers is a matter of what they count *)
(* and comes later; for now they are integers.                             *)

FlagsTyped ==
    /\ TMutex \in Classes
    /\ {m_done, m_writeRequested, m_writerDoneEvent} \subseteq BOOLEAN
    /\ {isReading, readerDoneEvent, tlsData, isLocked} \subseteq [Threads -> BOOLEAN]
    /\ storeBuffer = [t \in Threads |-> <<>>]
    /\ m_threadStates \in Seq(Threads)
    /\ iter \in [Threads -> Nat \ {0}]
    /\ m_cs \in Threads \cup {None}
    /\ m_csReaders = {}

QueueTyped ==
    /\ m_csQueue \in Threads \cup {None}
    /\ {m_readerCount, m_sema} \subseteq Int
    /\ isFirstReader \in [Threads -> BOOLEAN]
    /\ m_lastLockedReaderEvent \in BOOLEAN
    /\ i \in [Threads -> 0..TMaxConcurrentReaders - 1]

CohortTyped ==
    /\ {readerOrder, cohortCount} \subseteq [Threads -> Int]
    /\ m_cohortCount \in Int

TicketsTyped == lag \in 0..Span - 1 /\ age \in [Threads -> 0..Span - 1]

HarnessTyped ==
    /\ crew \subseteq Threads
    /\ main \in {"create", "sleep", "join", "report"}
    /\ m_hStartEvent \in BOOLEAN
    /\ m_countCs \in Threads \cup {None}
    /\ lockCount \in [{"reader", "writer"} -> SUBSET Threads]
    /\ loaded \in [Threads -> SUBSET Threads]

PcTyped == pc \in [Threads -> Places]

Typed == PcTyped /\ FlagsTyped /\ QueueTyped /\ CohortTyped /\ TicketsTyped /\ HarnessTyped

\* What belongs to one thread is changed by that thread only.
FlagsOfOthers(t) ==
    /\ UNCHANGED TMutex
    /\ \A u \in Threads \ {t} : isReading'[u] = isReading[u] /\ tlsData'[u] = tlsData[u]
                              /\ iter'[u] = iter[u] /\ isLocked'[u] = isLocked[u]
QueueOfOthers(t) ==
    \A u \in Threads \ {t} : isFirstReader'[u] = isFirstReader[u] /\ i'[u] = i[u]
CohortOfOthers(t) ==
    \A u \in Threads \ {t} : readerOrder'[u] = readerOrder[u] /\ cohortCount'[u] = cohortCount[u]

\* A step of thread t changes its own place, and no other.
Moves(t) == pc'[t] \in Places /\ pc' = [pc EXCEPT ![t] = pc'[t]]
Works(t) == pc[t] \notin {"counting", "exited"} /\ pc'[t] \notin {"counting", "exited"}

LEMMA GotoMoves ==
    ASSUME PcTyped, NEW t \in Threads, NEW from, NEW to \in Places, Goto(t, from, to)
    PROVE  pc[t] = from /\ pc'[t] = to /\ Moves(t)
  BY DEF PcTyped, Goto, Moves

\* The steps of ReaderFlags and Sleep keep the types of its variables.
LEMMA StoreTyped ==
    ASSUME FlagsTyped, NEW t \in Threads, NEW loc, NEW val \in BOOLEAN, Store(t, loc, val)
    PROVE  /\ m_writeRequested' \in BOOLEAN /\ isReading' \in [Threads -> BOOLEAN]
           /\ UNCHANGED storeBuffer
           /\ \A u \in Threads \ {t} : isReading'[u] = isReading[u]
<1>1. ~(Len(storeBuffer[t]) < BufferSize)
  BY MemoryAssumption DEF FlagsTyped
<1>2. Commit(t, loc, val) /\ UNCHANGED storeBuffer
  BY <1>1 DEF Store
<1> QED
  BY <1>2 DEF Commit, FlagsTyped

LEMMA LockOpsTyped ==
    ASSUME FlagsTyped, NEW t \in Threads, NEW from, NEW to,
           \/ EnterCs(t, from, to) \/ LeaveCs(t, from, to) \/ SetReaderDone(t, from, to)
           \/ \E free : CheckRequest(t, from, to, free)
           \/ Goto(t, from, to) /\ UNCHANGED flags
    PROVE  FlagsTyped' /\ FlagsOfOthers(t)
<1> USE DEF FlagsTyped, FlagsOfOthers, flags, memory, events, locks, registry
<1>1. CASE EnterCs(t, from, to)
  BY <1>1 DEF EnterCs
<1>2. CASE LeaveCs(t, from, to)
  BY <1>2 DEF LeaveCs
<1>3. CASE SetReaderDone(t, from, to)
  BY <1>3 DEF SetReaderDone
<1>4. CASE \E free : CheckRequest(t, from, to, free)
  BY <1>4 DEF CheckRequest
<1>5. CASE Goto(t, from, to) /\ UNCHANGED flags
  BY <1>5
<1> HIDE DEF FlagsTyped, FlagsOfOthers, flags, memory, events, locks, registry
<1> QED
  BY <1>1, <1>2, <1>3, <1>4, <1>5, Zenon

LEMMA StoreOpsTyped ==
    ASSUME FlagsTyped, NEW t \in Threads, NEW from, NEW to,
           \/ \E val \in BOOLEAN : StoreFlag(t, val, from, to)
           \/ RequestWrite(t) \/ RequestQueued(t) \/ ClearRequest(t, to)
    PROVE  FlagsTyped' /\ FlagsOfOthers(t)
<1> USE DEF FlagsTyped, FlagsOfOthers, memory, events, locks, registry
<1>1. ASSUME NEW val \in BOOLEAN, StoreFlag(t, val, from, to)
      PROVE  FlagsTyped' /\ FlagsOfOthers(t)
  BY <1>1, StoreTyped DEF StoreFlag
<1>2. CASE RequestWrite(t)
  <2>1. [iter EXCEPT ![t] = 1] \in [Threads -> Nat \ {0}]
    OBVIOUS
  <2> QED
    BY <1>2, <2>1, StoreTyped DEF RequestWrite
<1>3. CASE RequestQueued(t)
  BY <1>3, StoreTyped DEF RequestQueued
<1>4. CASE ClearRequest(t, to)
  BY <1>4, StoreTyped DEF ClearRequest
<1> QED
  BY <1>1, <1>2, <1>3, <1>4

LEMMA ScanOpsTyped ==
    ASSUME FlagsTyped, NEW t \in Threads, NEW busy,
           ScanReaders(t, busy) \/ WaitReaderDone(t) \/ PushTlsData(t)
    PROVE  FlagsTyped' /\ FlagsOfOthers(t)
<1> USE DEF FlagsTyped, FlagsOfOthers, memory, events, locks, registry
<1>1. CASE FinishScan(t)
  BY <1>1 DEF FinishScan
<1>2. CASE PassReader(t)
  <2>1. iter[t] + 1 \in Nat \ {0}
    OBVIOUS
  <2> QED
    BY <1>2, <2>1 DEF PassReader
<1>3. CASE FindReader(t, busy)
  BY <1>3 DEF FindReader
<1>4. CASE WaitReaderDone(t)
  BY <1>4 DEF WaitReaderDone
<1>5. CASE PushTlsData(t)
  <2>1. Append(m_threadStates, t) \in Seq(Threads)
    OBVIOUS
  <2> QED
    BY <1>5, <2>1 DEF PushTlsData
<1> QED
  BY <1>1, <1>2, <1>3, <1>4, <1>5 DEF ScanReaders

LEMMA EventOpsTyped ==
    ASSUME FlagsTyped, NEW t \in Threads,
           WaitWriterDone(t) \/ ResetWriterDone(t) \/ Sleep(t) \/ SetWriterDone(t)
    PROVE  FlagsTyped' /\ FlagsOfOthers(t)
<1> USE DEF FlagsTyped, FlagsOfOthers, memory, events, locks, registry
<1>1. CASE WaitWriterDone(t)
  BY <1>1 DEF WaitWriterDone
<1>2. CASE ResetWriterDone(t) \/ Sleep(t)
  BY <1>2 DEF ResetWriterDone, Sleep
<1>3. CASE SetWriterDone(t)
  BY <1>3 DEF SetWriterDone
<1> QED
  BY <1>1, <1>2, <1>3

\* The places of each class, and that its steps stay there.
OwnPlaces(mutex) ==
    CASE mutex = "Fair" ->
            {"wl_queue", "wl_writer", "wl_unqueue", "wl_assert",
             "rl_queue", "rl_count", "rl_writer", "rl_unqueue", "ru_release"}
      [] mutex = "FairCs" ->
            {"tls_queue", "tls_enter", "tls_push", "tls_leave", "tls_unqueue",
             "wl_queue", "wl_writer", "wl_unqueue",
             "rl_queue", "rl_count", "rl_writer", "rl_unqueue",
             "ru_release", "ru_wait", "ru_last"}
      [] mutex = "Qt" -> {"wl_queue", "wl_writer", "wl_unqueue", "rl_queue"}
      [] mutex = "Cohort" ->
            {"tls_enter", "tls_push", "tls_leave", "rl_raise", "rl_check", "rl_yield",
             "rl_signal", "rl_join", "rl_enter", "rl_close", "rl_size", "rl_open",
             "rl_permit", "rl_reraise", "ru_count", "ru_release", "ru_wait", "ru_last",
             "ru_check", "ru_signal", "wl_enter", "wl_request", "wl_scan", "wl_wait",
             "wu_leave"}
      [] mutex = "Ticketed" ->
            {"tls_queue", "tls_enter", "tls_push", "tls_leave", "tls_unqueue",
             "rl_raise", "rl_last", "rl_check", "rl_yield", "rl_signal", "rl_queue",
             "rl_count", "rl_writer", "rl_ticket", "rl_store", "rl_reraise", "rl_unqueue",
             "ru_count", "ru_release", "ru_wait", "ru_last", "ru_check", "ru_signal",
             "wl_queue", "wl_ticket", "wl_writer", "wl_request", "wl_unqueue", "wl_scan",
             "wl_wait", "wu_leave"}
      [] mutex \in SingleClasses ->
            {"rl_raise", "rl_check", "rl_yield", "rl_signal", "rl_wait", "rl_asleep",
             "ru_check", "ru_signal", "wl_enter", "wl_reset", "wl_request", "wl_scan",
             "wl_sleep", "wl_wait", "wu_signal", "wu_leave"}
      [] OTHER -> {"wl_enter", "rl_enter"}
PlacesOf(mutex) == {"loop", "counting", "exited", "reading", "writing"} \cup OwnPlaces(mutex)

LEMMA PlacesOfClass == \A c : PlacesOf(c) \subseteq Places
  BY DEF PlacesOf, OwnPlaces, Places, IdlePlaces, ReadPlaces, WritePlaces, UnlockPlaces

LEMMA FairPlaces ==
    OwnPlaces("Fair") =
        {"wl_queue", "wl_writer", "wl_unqueue", "wl_assert",
         "rl_queue", "rl_count", "rl_writer", "rl_unqueue", "ru_release"}
  BY DEF OwnPlaces, SingleClasses

LEMMA FairCsPlaces ==
    OwnPlaces("FairCs") =
        {"tls_queue", "tls_enter", "tls_push", "tls_leave", "tls_unqueue",
         "wl_queue", "wl_writer", "wl_unqueue",
         "rl_queue", "rl_count", "rl_writer", "rl_unqueue",
         "ru_release", "ru_wait", "ru_last"}
  BY DEF OwnPlaces, SingleClasses

LEMMA QtPlaces ==
    OwnPlaces("Qt") =
        {"wl_queue", "wl_writer", "wl_unqueue", "rl_queue"}
  BY DEF OwnPlaces, SingleClasses

LEMMA CohortPlaces ==
    OwnPlaces("Cohort") =
        {"tls_enter", "tls_push", "tls_leave", "rl_raise", "rl_check", "rl_yield",
         "rl_signal", "rl_join", "rl_enter", "rl_close", "rl_size", "rl_open",
         "rl_permit", "rl_reraise", "ru_count", "ru_release", "ru_wait", "ru_last",
         "ru_check", "ru_signal", "wl_enter", "wl_request", "wl_scan", "wl_wait",
         "wu_leave"}
  BY DEF OwnPlaces, SingleClasses

LEMMA TicketedPlaces ==
    OwnPlaces("Ticketed") =
        {"tls_queue", "tls_enter", "tls_push", "tls_leave", "tls_unqueue",
         "rl_raise", "rl_last", "rl_check", "rl_yield", "rl_signal", "rl_queue",
         "rl_count", "rl_writer", "rl_ticket", "rl_store", "rl_reraise", "rl_unqueue",
         "ru_count", "ru_release", "ru_wait", "ru_last", "ru_check", "ru_signal",
         "wl_queue", "wl_ticket", "wl_writer", "wl_request", "wl_unqueue", "wl_scan",
         "wl_wait", "wu_leave"}
  BY DEF OwnPlaces, SingleClasses

LEMMA SinglePlaces ==
    \A c \in SingleClasses : OwnPlaces(c) =
        {"rl_raise", "rl_check", "rl_yield", "rl_signal", "rl_wait", "rl_asleep",
         "ru_check", "ru_signal", "wl_enter", "wl_reset", "wl_request", "wl_scan",
         "wl_sleep", "wl_wait", "wu_signal", "wu_leave"}
  BY DEF OwnPlaces, SingleClasses

LEMMA PlainPlaces ==
    \A c \in PlainClasses : OwnPlaces(c) =
        {"wl_enter", "rl_enter"}
  BY DEF OwnPlaces, PlainClasses, SingleClasses

LEMMA FairMoves ==
    ASSUME PcTyped, NEW t \in Threads, FairStep(t)
    PROVE  Moves(t) /\ pc'[t] \in PlacesOf("Fair") /\ Works(t)
<1> USE PlacesOfClass, FairPlaces DEF PcTyped, Moves, Works, PlacesOf
<1> QED
  BY DEF FairStep, FairWriteLock, FairWriteUnlock, FairReadLock, FairReadUnlock, EnterQueue,
     LeaveQueue, EnterWriter, LeaveWriter, EnterCs, LeaveCs, CountReader, UncountReader, Goto

LEMMA FairCsMoves ==
    ASSUME PcTyped, NEW t \in Threads, FairCsStep(t)
    PROVE  Moves(t) /\ pc'[t] \in PlacesOf("FairCs") /\ Works(t)
<1> USE PlacesOfClass, FairCsPlaces DEF PcTyped, Moves, Works, PlacesOf, Goto
<1>1. CASE FairCsWriteLock(t) \/ FairCsWriteUnlock(t)
  BY <1>1 DEF FairCsWriteLock, FairCsWriteUnlock, EnterQueue, LeaveQueue, EnterWriter, LeaveWriter,
     EnterCs, LeaveCs
<1>2. CASE FairCsReadLock(t)
  BY <1>2 DEF FairCsReadLock, InitTlsDataQueued, PushTlsData, EnterQueue, LeaveQueue, EnterWriter,
     LeaveWriter, EnterCs, LeaveCs, EnterWriterFirst, CountReader
<1>3. CASE FairCsReadUnlock(t)
  BY <1>3 DEF FairCsReadUnlock, UncountReader, LeaveWriterFirst, LeaveCs, SignalFirstReader,
     WaitForLastReader
<1> QED
  BY <1>1, <1>2, <1>3 DEF FairCsStep

LEMMA QtMoves ==
    ASSUME PcTyped, NEW t \in Threads, QtStep(t)
    PROVE  Moves(t) /\ pc'[t] \in PlacesOf("Qt") /\ Works(t)
<1> USE PlacesOfClass, QtPlaces DEF PcTyped, Moves, Works, PlacesOf
<1> QED
  BY DEF QtStep, QtWriteLock, QtWriteUnlock, QtReadLock, QtReadUnlock, CollectPermit, Collect,
     EnterQueue, LeaveQueue, TakePermit, GivePermits, Goto

LEMMA CohortMoves ==
    ASSUME PcTyped, NEW t \in Threads, CohortStep(t)
    PROVE  Moves(t) /\ pc'[t] \in PlacesOf("Cohort") /\ Works(t)
<1> USE PlacesOfClass, CohortPlaces DEF PcTyped, Moves, Works, PlacesOf, Goto
<1>1. CASE CohortWriteLock(t) \/ CohortWriteUnlock(t)
  <2>1. CASE EnterCs(t, "wl_enter", "wl_request") \/ LeaveCs(t, "wu_leave", "loop")
    BY <2>1 DEF EnterCs, LeaveCs
  <2>2. CASE RequestWrite(t) \/ ClearRequest(t, "wu_leave")
    BY <2>2 DEF RequestWrite, ClearRequest
  <2>3. CASE ScanReaders(t, "wl_wait") \/ WaitReaderDone(t)
    BY <2>3 DEF ScanReaders, FinishScan, PassReader, FindReader, WaitReaderDone
  <2> HIDE DEF Moves, Works, PlacesOf, Goto
  <2> QED
    BY <1>1, <2>1, <2>2, <2>3 DEF CohortWriteLock, CohortWriteUnlock
<1>2. CASE CohortReadLock(t)
  <2>1. CASE JoinCohort(t) \/ CloseCohort(t) \/ OpenCohort(t)
    BY <2>1 DEF JoinCohort, CloseCohort, OpenCohort, GivePermits
  <2>2. CASE InitTlsData(t)
    BY <2>2 DEF InitTlsData, PushTlsData, EnterCs, LeaveCs
  <2>3. CASE \/ EnterCs(t, "rl_enter", "rl_close") \/ TakePermit(t, "rl_permit", "rl_reraise")
             \/ CheckRequest(t, "rl_check", "rl_yield", "reading")
    BY <2>3 DEF EnterCs, TakePermit, CheckRequest
  <2>4. CASE StoreFlag(t, TRUE, "rl_raise", "rl_check") \/ StoreFlag(t, TRUE, "rl_reraise", "reading")
    BY <2>4 DEF StoreFlag
  <2>5. CASE StoreFlag(t, FALSE, "rl_yield", "rl_signal") \/ SetReaderDone(t, "rl_signal", "rl_join")
    BY <2>5 DEF StoreFlag, SetReaderDone
  <2> HIDE DEF Moves, Works, PlacesOf, Goto
  <2> QED
    BY <1>2, <2>1, <2>2, <2>3, <2>4, <2>5 DEF CohortReadLock
<1>3. CASE CohortReadUnlock(t)
  <2>1. CASE StoreFlag(t, FALSE, "reading", IF readerOrder[t] # 0 THEN "ru_count" ELSE "ru_check")
    BY <2>1 DEF StoreFlag
  <2>2. CASE LeaveCs(t, "ru_release", "ru_check") \/ CheckRequest(t, "ru_check", "ru_signal", "loop")
             \/ SetReaderDone(t, "ru_signal", "loop")
    BY <2>2 DEF LeaveCs, CheckRequest, SetReaderDone
  <2>3. CASE LeaveCohort(t)
    BY <2>3 DEF LeaveCohort
  <2>4. CASE SignalFirstReader(t, "ru_last", "ru_check") \/ WaitForLastReader(t, "ru_wait", "ru_release")
    BY <2>4 DEF SignalFirstReader, WaitForLastReader
  <2> HIDE DEF Moves, Works, PlacesOf, Goto
  <2> QED
    BY <1>3, <2>1, <2>2, <2>3, <2>4 DEF CohortReadUnlock
<1> HIDE DEF Moves, Works, PlacesOf, Goto
<1> QED
  BY <1>1, <1>2, <1>3 DEF CohortStep

LEMMA TicketedMoves ==
    ASSUME PcTyped, NEW t \in Threads, TicketedStep(t)
    PROVE  Moves(t) /\ pc'[t] \in PlacesOf("Ticketed") /\ Works(t)
<1> USE PlacesOfClass, TicketedPlaces DEF PcTyped, Moves, Works, PlacesOf, Goto
<1>1. CASE TicketedWriteLock(t) \/ TicketedWriteUnlock(t)
  <2>1. CASE EnterQueue(t, "wl_queue", "wl_ticket") \/ LeaveQueue(t, "wl_unqueue", "wl_scan")
    BY <2>1 DEF EnterQueue, LeaveQueue
  <2>2. CASE EnterWriter(t, "wl_writer", "wl_request") \/ LeaveCs(t, "wu_leave", "loop")
    BY <2>2 DEF EnterWriter, EnterCs, LeaveCs
  <2>3. CASE RequestQueued(t) \/ ClearRequest(t, "wu_leave")
    <3>1. Goto(t, "wl_request", "wl_unqueue") \/ Goto(t, "writing", "wu_leave")
      BY <2>3 DEF RequestQueued, ClearRequest
    <3> QED
      BY <3>1
  <2>4. CASE ScanReaders(t, "wl_wait") \/ WaitReaderDone(t)
    BY <2>4 DEF ScanReaders, FinishScan, PassReader, FindReader, WaitReaderDone
  <2>5. CASE DrawTicket(t, 2, "wl_ticket", "wl_writer")
    BY <2>5 DEF DrawTicket
  <2> HIDE DEF Moves, Works, PlacesOf, Goto
  <2> QED
    BY <1>1, <2>1, <2>2, <2>3, <2>4, <2>5 DEF TicketedWriteLock, TicketedWriteUnlock
<1>2. CASE TicketedReadLock(t)
  <2>1. CASE EnterQueue(t, "tls_queue", "tls_enter") \/ LeaveQueue(t, "tls_unqueue", "rl_raise")
             \/ EnterWriter(t, "tls_enter", "tls_push") \/ LeaveWriter(t, "tls_leave", "tls_unqueue")
    BY <2>1 DEF EnterQueue, LeaveQueue, EnterWriter, LeaveWriter, EnterCs, LeaveCs
  <2>2. CASE PushTlsData(t)
    BY <2>2 DEF PushTlsData
  <2>3. CASE JoinQueued(t)
    BY <2>3 DEF JoinQueued, CountReader
  <2>4. CASE LoadLastTicket(t) \/ CheckTicket(t) \/ DrawTicket(t, 1, "rl_ticket", "rl_store")
             \/ StoreTicket(t)
    BY <2>4 DEF LoadLastTicket, CheckTicket, DrawTicket, StoreTicket
  <2>5. CASE EnterQueue(t, "rl_queue", "rl_count") \/ LeaveQueue(t, "rl_unqueue", "reading")
    BY <2>5 DEF EnterQueue, LeaveQueue
  <2>6. CASE EnterWriterFirst(t, "rl_writer", "rl_ticket") \/ SetReaderDone(t, "rl_signal", "rl_queue")
    BY <2>6 DEF EnterWriterFirst, EnterCs, SetReaderDone
  <2>7. CASE \/ StoreFlag(t, TRUE, "rl_raise", "rl_last") \/ StoreFlag(t, FALSE, "rl_yield", "rl_signal")
             \/ StoreFlag(t, TRUE, "rl_reraise", "rl_unqueue")
    <3>1. \/ Goto(t, "rl_raise", "rl_last") \/ Goto(t, "rl_yield", "rl_signal")
          \/ Goto(t, "rl_reraise", "rl_unqueue")
      BY <2>7 DEF StoreFlag
    <3> QED
      BY <3>1
  <2> HIDE DEF Moves, Works, PlacesOf, Goto
  <2> QED
    BY <1>2, <2>1, <2>2, <2>3, <2>4, <2>5, <2>6, <2>7 DEF TicketedReadLock, InitTlsDataQueued
<1>3. CASE TicketedReadUnlock(t)
  <2>1. CASE LeaveQueued(t)
    BY <2>1 DEF LeaveQueued, UncountReader
  <2>2. CASE StoreFlag(t, FALSE, "reading", IF isLocked[t] THEN "ru_count" ELSE "ru_check")
    BY <2>2 DEF StoreFlag
  <2>3. CASE CheckRequest(t, "ru_check", "ru_signal", "loop") \/ SetReaderDone(t, "ru_signal", "loop")
             \/ LeaveWriterFirst(t, "ru_release", "ru_check")
    BY <2>3 DEF CheckRequest, SetReaderDone, LeaveWriterFirst, LeaveCs
  <2>4. CASE SignalFirstReader(t, "ru_last", "ru_check") \/ WaitForLastReader(t, "ru_wait", "ru_release")
    BY <2>4 DEF SignalFirstReader, WaitForLastReader
  <2> HIDE DEF Moves, Works, PlacesOf, Goto
  <2> QED
    BY <1>3, <2>1, <2>2, <2>3, <2>4 DEF TicketedReadUnlock
<1> QED
  BY <1>1, <1>2, <1>3 DEF TicketedStep

LEMMA PlainMoves ==
    ASSUME PcTyped, NEW t \in Threads, PlainStep(t)
    PROVE  Moves(t) /\ pc'[t] \in PlacesOf(TMutex) /\ Works(t)
<1> USE PlacesOfClass, PlainPlaces DEF PcTyped, Moves, Works, PlacesOf
<1> QED
  BY DEF PlainStep, PlainWriteLock, PlainWriteUnlock, PlainReadLock, PlainReadUnlock, EnterWriter,
     LeaveWriter, EnterCs, LeaveCs, Goto

LEMMA SingleMoves ==
    ASSUME PcTyped, NEW t \in Threads, SingleStep(t)
    PROVE  /\ Moves(t) \/ SetWriterDone(t)
           /\ pc'[t] \in PlacesOf(TMutex) /\ Works(t)
<1>1. PlacesOf(TMutex) = PlacesOf("UltraSpinSingle")
  BY SinglePlaces DEF PlacesOf, SingleStep, SpinSingleStep, SyncSingleStep, SingleClasses
<1> DEFINE Goes == Moves(t) /\ pc'[t] \in PlacesOf("UltraSpinSingle") /\ Works(t)
<1> USE PlacesOfClass, SinglePlaces DEF PcTyped, Moves, Works, PlacesOf, Goto, SingleClasses
<1>2. \A busy \in {"wl_sleep", "wl_wait"} : SingleWriteLock(t, busy) => Goes
  BY DEF SingleWriteLock, EnterCs, ResetWriterDone, RequestWrite, FindNotReading,
     FindReading, WaitReaderDoneSet
<1>3. UltraSpinReadLock(t) \/ UltraSpinReadUnlock(t) \/ Sleep(t) => Goes
  BY DEF UltraSpinReadLock, UltraSpinReadUnlock, Sleep, StoreFlag, CheckRequest, WaitWriterDone
<1>4. UltraFastReadLock(t) \/ UltraFastReadUnlock(t) => Goes
  BY DEF UltraFastReadLock, UltraFastReadUnlock, StoreFlag, CheckRequest, WaitWriterDone,
     SetReaderDone
<1>5. UltraSpinWriteUnlock(t) \/ UltraFastWriteUnlock(t) =>
          (Moves(t) \/ SetWriterDone(t)) /\ pc'[t] \in PlacesOf("UltraSpinSingle") /\ Works(t)
  BY DEF UltraSpinWriteUnlock, UltraFastWriteUnlock, ClearRequest, LeaveCs, SetWriterDone
<1> HIDE DEF PcTyped, Moves, Works, PlacesOf, Goto
<1> QED
  BY <1>1, <1>2, <1>3, <1>4, <1>5 DEF SingleStep, SpinSingleStep, SyncSingleStep

LEMMA StartMoves ==
    ASSUME PcTyped, NEW t \in Threads, BeginRead(t) \/ BeginWrite(t) \/ AddCount(t)
    PROVE  /\ Moves(t) /\ (TMutex \in Classes => pc'[t] \in PlacesOf(TMutex))
           /\ AddCount(t) \/ Works(t)
<1> USE PlacesOfClass DEF Goto, PcTyped, Moves
<1> DEFINE Starting == IF tlsData[t] THEN ReadLockPlace ELSE TlsPlace
<1>1. WriteLockPlace \in Places /\ Starting \in Places
  BY DEF WriteLockPlace, ReadLockPlace, TlsPlace, Places, ReadPlaces, WritePlaces
<1>2. TMutex \in Classes => WriteLockPlace \in PlacesOf(TMutex) /\ Starting \in PlacesOf(TMutex)
  <2> SUFFICES ASSUME TMutex \in Classes
               PROVE  WriteLockPlace \in OwnPlaces(TMutex) /\ Starting \in OwnPlaces(TMutex)
    BY DEF PlacesOf
  <2>1. CASE TMutex \in SingleClasses \cup PlainClasses
    BY <2>1, SinglePlaces, PlainPlaces DEF WriteLockPlace, ReadLockPlace, TlsPlace, SingleClasses,
       PlainClasses
  <2>2. CASE TMutex \in {"Fair", "FairCs", "Qt"}
    BY <2>2, FairPlaces, FairCsPlaces, QtPlaces DEF WriteLockPlace, ReadLockPlace, TlsPlace,
       PlainClasses
  <2>3. CASE TMutex \in {"Cohort", "Ticketed"}
    BY <2>3, CohortPlaces, TicketedPlaces DEF WriteLockPlace, ReadLockPlace, TlsPlace,
       PlainClasses
  <2> QED
    BY <2>1, <2>2, <2>3, ClassesAssumption
<1>3. CASE BeginRead(t)
  <2>1. Starting \notin {"counting", "exited"}
    BY DEF ReadLockPlace, TlsPlace
  <2> QED
    BY <1>3, <1>1, <1>2, <2>1 DEF BeginRead, Works
<1>4. CASE BeginWrite(t)
  <2>1. WriteLockPlace \notin {"counting", "exited"}
    BY DEF WriteLockPlace
  <2> QED
    BY <1>4, <1>1, <1>2, <2>1 DEF BeginWrite, Works
<1>5. CASE AddCount(t)
  BY <1>5 DEF AddCount, Pass, PlacesOf
<1> QED
  BY <1>3, <1>4, <1>5

LEMMA StepMoves ==
    ASSUME PcTyped, NEW t \in Threads, Step(t)
    PROVE  Moves(t) \/ SetWriterDone(t)
  BY FairMoves, FairCsMoves, QtMoves, CohortMoves, TicketedMoves, PlainMoves, SingleMoves,
     StartMoves DEF Step

LEMMA StepPlaces ==
    ASSUME PcTyped, NEW t \in Threads, Step(t)
    PROVE  PcTyped'
<1>1. CASE Moves(t)
  BY <1>1 DEF Moves, PcTyped
<1>2. CASE SetWriterDone(t)
  BY <1>2 DEF SetWriterDone, PcTyped, Places, ReadPlaces, UnlockPlaces
<1> QED
  BY <1>1, <1>2, StepMoves

LEMMA StepFlags ==
    ASSUME FlagsTyped, NEW t \in Threads, Step(t)
    PROVE  FlagsTyped' /\ FlagsOfOthers(t)
<1> USE DEF flags
<1>1. ASSUME UNCHANGED flags
      PROVE  FlagsTyped' /\ FlagsOfOthers(t)
  BY <1>1 DEF FlagsTyped, FlagsOfOthers, memory, events, locks, registry
<1>2. ASSUME NEW to, NEW other, CountReader(t, to, other), UNCHANGED flags
      PROVE  FlagsTyped' /\ FlagsOfOthers(t)
  BY <1>1, <1>2
<1>3. CASE FairStep(t)
  BY <1>3, <1>1, LockOpsTyped DEF FairStep, FairWriteLock, FairWriteUnlock, FairReadLock,
     FairReadUnlock, EnterQueue, LeaveQueue, EnterWriter, LeaveWriter
<1>4. CASE FairCsStep(t)
  BY <1>4, <1>1, LockOpsTyped, ScanOpsTyped DEF FairCsStep, FairCsWriteLock, FairCsWriteUnlock,
     FairCsReadLock, FairCsReadUnlock, InitTlsDataQueued, EnterQueue, LeaveQueue, EnterWriter,
     LeaveWriter, EnterWriterFirst, LeaveWriterFirst, SignalFirstReader, WaitForLastReader
<1>5. CASE QtStep(t)
  BY <1>5, <1>1 DEF QtStep, QtWriteLock, QtWriteUnlock, QtReadLock, QtReadUnlock, CollectPermit,
     Collect, EnterQueue, LeaveQueue, TakePermit, GivePermits
<1>6. CASE CohortStep(t)
  BY <1>6, <1>1, LockOpsTyped, StoreOpsTyped, ScanOpsTyped DEF CohortStep, CohortReadLock,
     CohortReadUnlock, CohortWriteLock, CohortWriteUnlock, InitTlsData, JoinCohort, TakePermit,
     CloseCohort, OpenCohort, GivePermits, LeaveCohort, SignalFirstReader, WaitForLastReader
<1>7. CASE TicketedStep(t)
  <2>1. ASSUME JoinQueued(t) \/ LeaveQueued(t)
        PROVE  FlagsTyped' /\ FlagsOfOthers(t)
    <3>1. \E value \in BOOLEAN : isLocked' = [isLocked EXCEPT ![t] = value]
      BY <2>1 DEF JoinQueued, LeaveQueued
    <3>2. UNCHANGED <<TMutex, m_done, memory, events, m_cs, m_csReaders, registry, iter>>
      BY <2>1 DEF JoinQueued, LeaveQueued
    <3> QED
      BY <3>1, <3>2 DEF FlagsTyped, FlagsOfOthers, memory, events, registry
  <2> QED
    BY <1>7, <1>1, <2>1, LockOpsTyped, StoreOpsTyped, ScanOpsTyped DEF TicketedStep,
       TicketedReadLock, TicketedReadUnlock, TicketedWriteLock, TicketedWriteUnlock,
       InitTlsDataQueued, EnterQueue, LeaveQueue, EnterWriter, LeaveWriter, EnterWriterFirst,
       LeaveWriterFirst, SignalFirstReader, WaitForLastReader, LoadLastTicket, CheckTicket,
       DrawTicket, StoreTicket
<1>8. CASE SingleStep(t)
  BY <1>8, <1>1, LockOpsTyped, StoreOpsTyped, EventOpsTyped DEF SingleStep, SpinSingleStep,
     SyncSingleStep, UltraSpinReadLock, UltraSpinReadUnlock, UltraSpinWriteUnlock,
     UltraFastReadLock, UltraFastReadUnlock, UltraFastWriteUnlock, SingleWriteLock
<1>9. CASE PlainStep(t)
  BY <1>9, LockOpsTyped DEF PlainStep, PlainWriteLock, PlainWriteUnlock, PlainReadLock,
     PlainReadUnlock, EnterWriter, LeaveWriter
<1>10. CASE BeginRead(t) \/ BeginWrite(t) \/ AddCount(t)
  BY <1>10 DEF BeginRead, BeginWrite, AddCount, Pass, FlagsTyped, FlagsOfOthers, memory, events, locks, registry
<1> QED
  BY <1>3, <1>4, <1>5, <1>6, <1>7, <1>8, <1>9, <1>10 DEF Step

LEMMA QueueOpsTyped ==
    ASSUME QueueTyped, NEW t \in Threads, NEW from, NEW to, NEW other,
           \/ EnterQueue(t, from, to) \/ LeaveQueue(t, from, to)
           \/ EnterWriter(t, from, to) \/ LeaveWriter(t, from, to)
           \/ EnterWriterFirst(t, from, to) \/ LeaveWriterFirst(t, from, to)
           \/ CountReader(t, to, other) \/ UncountReader(t, from, to, other)
           \/ SignalFirstReader(t, from, to) \/ WaitForLastReader(t, from, to)
           \/ TakePermit(t, from, to) \/ \E n \in Int : GivePermits(t, n, from, to)
           \/ UNCHANGED queue
    PROVE  QueueTyped' /\ QueueOfOthers(t)
<1> USE DEF QueueTyped, QueueOfOthers, queue, first, permits
<1>1. CASE EnterQueue(t, from, to) \/ LeaveQueue(t, from, to)
  BY <1>1 DEF EnterQueue, LeaveQueue
<1>2. CASE EnterWriter(t, from, to) \/ LeaveWriter(t, from, to)
  BY <1>2 DEF EnterWriter, LeaveWriter
<1>3. CASE EnterWriterFirst(t, from, to)
  <2>1. [isFirstReader EXCEPT ![t] = TRUE] \in [Threads -> BOOLEAN]
    OBVIOUS
  <2> QED
    BY <1>3, <2>1 DEF EnterWriterFirst
<1>4. CASE LeaveWriterFirst(t, from, to)
  <2>1. [isFirstReader EXCEPT ![t] = FALSE] \in [Threads -> BOOLEAN]
    OBVIOUS
  <2> QED
    BY <1>4, <2>1 DEF LeaveWriterFirst
<1>5. CASE CountReader(t, to, other) \/ UncountReader(t, from, to, other)
  BY <1>5 DEF CountReader, UncountReader
<1>6. CASE SignalFirstReader(t, from, to) \/ WaitForLastReader(t, from, to)
  BY <1>6 DEF SignalFirstReader, WaitForLastReader
<1>7. CASE TakePermit(t, from, to)
  BY <1>7 DEF TakePermit
<1>8. ASSUME NEW n \in Int, GivePermits(t, n, from, to)
      PROVE  QueueTyped' /\ QueueOfOthers(t)
  BY <1>8 DEF GivePermits
<1>9. CASE UNCHANGED queue
  BY <1>9
<1> HIDE DEF QueueTyped, QueueOfOthers, queue, first, permits
<1> QED
  BY <1>1, <1>2, <1>3, <1>4, <1>5, <1>6, <1>7, <1>8, <1>9, Zenon

LEMMA StepQueue ==
    ASSUME QueueTyped, CohortTyped, NEW t \in Threads, Step(t)
    PROVE  QueueTyped' /\ QueueOfOthers(t)
<1>1. CASE FairStep(t)
  BY <1>1, QueueOpsTyped DEF FairStep, FairWriteLock, FairWriteUnlock, FairReadLock, FairReadUnlock
<1>2. CASE FairCsStep(t)
  BY <1>2, QueueOpsTyped DEF FairCsStep, FairCsWriteLock, FairCsWriteUnlock, FairCsReadLock,
     FairCsReadUnlock, InitTlsDataQueued
<1>3. CASE QtStep(t)
  <2>1. CASE CollectPermit(t)
    <3>1. (i[t] + 1) % TMaxConcurrentReaders \in 0..TMaxConcurrentReaders - 1
      BY QueueAssumption DEF QueueTyped
    <3> QED
      BY <2>1, <3>1 DEF CollectPermit, Collect, QueueTyped, QueueOfOthers, first
  <2>2. ASSUME NEW n \in Int, NEW from, NEW to, GivePermits(t, n, from, to)
        PROVE  QueueTyped' /\ QueueOfOthers(t)
    BY <2>2, QueueOpsTyped
  <2>3. TMaxConcurrentReaders \in Int
    BY QueueAssumption
  <2>4. QtWriteUnlock(t) \/ QtReadUnlock(t) => QueueTyped' /\ QueueOfOthers(t)
    BY <2>2, <2>3 DEF QtWriteUnlock, QtReadUnlock
  <2>5. QtWriteLock(t) \/ QtReadLock(t) => QueueTyped' /\ QueueOfOthers(t)
    BY <2>1, QueueOpsTyped DEF QtWriteLock, QtReadLock
  <2> QED
    BY <1>3, <2>4, <2>5 DEF QtStep
<1>4. CASE CohortStep(t)
  <2>1. CASE JoinCohort(t)
    BY <2>1 DEF JoinCohort, QueueTyped, QueueOfOthers, first, permits
  <2>2. ASSUME CloseCohort(t), UNCHANGED <<flags, m_csQueue, first, permits, readerOrder>>
        PROVE  QueueTyped' /\ QueueOfOthers(t)
    BY <2>2 DEF CloseCohort, QueueTyped, QueueOfOthers, first, permits
  <2>3. CASE OpenCohort(t)
    <3>1. cohortCount[t] - 1 \in Int
      BY DEF CohortTyped
    <3> QED
      BY <2>3, <3>1, QueueOpsTyped DEF OpenCohort
  <2>4. CASE LeaveCohort(t)
    BY <2>4, QueueOpsTyped DEF LeaveCohort
  <2>5. CohortReadLock(t) => QueueTyped' /\ QueueOfOthers(t)
    <3>1. ASSUME NEW from, NEW to, TakePermit(t, from, to)
          PROVE  QueueTyped' /\ QueueOfOthers(t)
      BY <3>1, QueueOpsTyped
    <3>2. CASE UNCHANGED queue
      BY <3>2, QueueOpsTyped
    <3> QED
      BY <2>1, <2>3, <2>2, <3>1, <3>2, Zenon DEF CohortReadLock
  <2>6. CohortReadUnlock(t) => QueueTyped' /\ QueueOfOthers(t)
    BY <2>4, QueueOpsTyped DEF CohortReadUnlock
  <2>7. CohortWriteLock(t) \/ CohortWriteUnlock(t) => QueueTyped' /\ QueueOfOthers(t)
    BY QueueOpsTyped DEF CohortWriteLock, CohortWriteUnlock
  <2> QED
    BY <1>4, <2>5, <2>6, <2>7 DEF CohortStep
<1>5. CASE TicketedStep(t)
  BY <1>5, QueueOpsTyped DEF TicketedStep, TicketedReadLock, TicketedReadUnlock, TicketedWriteLock,
     TicketedWriteUnlock, InitTlsDataQueued, LoadLastTicket, CheckTicket, DrawTicket, StoreTicket,
     JoinQueued, LeaveQueued
<1>6. CASE SingleStep(t) \/ PlainStep(t)
  BY <1>6, QueueOpsTyped DEF SingleStep, PlainStep, PlainWriteLock, PlainWriteUnlock, PlainReadLock,
     PlainReadUnlock
<1> QED
  BY <1>1, <1>2, <1>3, <1>4, <1>5, <1>6, QueueOpsTyped DEF Step

LEMMA StepRest ==
    ASSUME Typed, NEW t \in Threads, Step(t)
    PROVE  CohortTyped' /\ CohortOfOthers(t) /\ TicketsTyped' /\ HarnessTyped'
<1>1. CohortTyped' /\ CohortOfOthers(t)
  <2> USE DEF Typed, CohortTyped, CohortOfOthers, QueueTyped, cohort
  <2>1. CASE JoinCohort(t)
    BY <2>1 DEF JoinCohort
  <2>2. ASSUME CloseCohort(t), UNCHANGED <<flags, m_csQueue, first, permits, readerOrder>>
        PROVE  CohortTyped' /\ CohortOfOthers(t)
    BY <2>2 DEF CloseCohort
  <2>3. CASE OpenCohort(t) \/ LeaveCohort(t)
    BY <2>3 DEF OpenCohort, LeaveCohort
  <2>4. CASE UNCHANGED cohort
    BY <2>4
  <2> HIDE DEF Typed, CohortTyped, CohortOfOthers, QueueTyped, cohort
  <2>5. CASE CohortStep(t)
    <3>1. CohortReadLock(t) => CohortTyped' /\ CohortOfOthers(t)
      BY <2>1, <2>3, <2>4, <2>2 DEF CohortReadLock
    <3>2. CohortReadUnlock(t) => CohortTyped' /\ CohortOfOthers(t)
      BY <2>3, <2>4 DEF CohortReadUnlock
    <3>3. CohortWriteLock(t) \/ CohortWriteUnlock(t) => CohortTyped' /\ CohortOfOthers(t)
      BY <2>4 DEF CohortWriteLock, CohortWriteUnlock
    <3> QED
      BY <2>5, <3>1, <3>2, <3>3 DEF CohortStep
  <2> QED
    BY <2>4, <2>5 DEF Step
<1>2. TicketsTyped'
  <2> USE TicketAssumption DEF Typed, TicketsTyped, tickets
  <2>1. CASE TicketedStep(t)
    <3>1. \A n \in Int : Wrap(n) \in 0..Span - 1
      BY DEF Wrap, Span
    <3>2. ASSUME NEW delta \in {1, 2}, NEW from, NEW to, DrawTicket(t, delta, from, to)
          PROVE  TicketsTyped'
      <4> USE DEF DrawTicket
      <4>1. Wrap(lag + delta) \in 0..Span - 1 /\ \A u \in Threads : Wrap(age[u] + delta) \in 0..Span - 1
        BY <3>1
      <4>2. 0 \in 0..Span - 1
        BY <3>1 DEF Span
      <4> QED
        BY <3>2, <4>1, <4>2
    <3>3. 0 \in 0..Span - 1
      BY <3>1 DEF Span
    <3>4. CASE TicketedReadLock(t)
      BY <3>4, <3>2, <3>3 DEF TicketedReadLock, LoadLastTicket, CheckTicket, StoreTicket
    <3> QED
      BY <2>1, <3>2, <3>4 DEF TicketedStep, TicketedReadUnlock, TicketedWriteLock, TicketedWriteUnlock
  <2> QED
    BY <2>1 DEF Step
<1>3. HarnessTyped'
  <2> USE DEF Typed, HarnessTyped, harness, counters
  <2>1. CASE AddCount(t)
    BY <2>1 DEF AddCount, Pass, LoadCount, StoreCount, Kind
  <2> QED
    BY <2>1 DEF Step
<1> QED
  BY <1>1, <1>2, <1>3

\* Only a SetEvent moves other threads: those that sleep on m_writerDoneEvent.
Roused(u) == TMutex \in SingleClasses /\ pc[u] = "rl_asleep" /\ pc'[u] = "rl_raise"
OnlyMoves(t) ==
    /\ \A u \in Threads \ {t} : pc'[u] = pc[u] \/ Roused(u)
    /\ TMutex \notin SingleClasses => Moves(t)
    /\ FlagsOfOthers(t) /\ QueueOfOthers(t) /\ CohortOfOthers(t)

LEMMA StepKeepsTyped ==
    ASSUME Typed, NEW t \in Threads, Step(t)
    PROVE  Typed' /\ OnlyMoves(t)
<1>1. Typed' /\ FlagsOfOthers(t) /\ QueueOfOthers(t) /\ CohortOfOthers(t)
  BY StepPlaces, StepFlags, StepQueue, StepRest DEF Typed
<1>2. CASE Moves(t)
  BY <1>1, <1>2 DEF Moves, OnlyMoves, Typed, PcTyped
<1>3. CASE ~Moves(t)
  <2>1. SetWriterDone(t) /\ TMutex \in SingleClasses
    BY <1>3, FairMoves, FairCsMoves, QtMoves, CohortMoves, TicketedMoves, PlainMoves, SingleMoves,
       StartMoves DEF Step, SingleStep, SpinSingleStep, SyncSingleStep, SingleClasses, Typed
  <2>2. \A u \in Threads \ {t} : pc'[u] = pc[u] \/ (pc[u] = "rl_asleep" /\ pc'[u] = "rl_raise")
    BY <2>1 DEF SetWriterDone
  <2> QED
    BY <1>1, <2>1, <2>2 DEF OnlyMoves, Roused
<1> QED
  BY <1>2, <1>3

LEMMA OthersKeepTyped ==
    ASSUME Typed, MainStep \/ Timeout \/ UNCHANGED allVars
    PROVE  Typed'
<1> USE DEF PcTyped, FlagsTyped, QueueTyped, CohortTyped, TicketsTyped, HarnessTyped
<1>1. CASE UNCHANGED allVars
  <2>1. PcTyped' /\ FlagsTyped'
    BY <1>1 DEF Typed, allVars, vars, memory, events, locks, registry
  <2>2. QueueTyped' /\ CohortTyped' /\ TicketsTyped'
    BY <1>1 DEF Typed, allVars, queue, first, permits, cohort, tickets
  <2>3. HarnessTyped'
    BY <1>1 DEF Typed, allVars, harness, counters
  <2> HIDE DEF PcTyped, FlagsTyped, QueueTyped, CohortTyped, TicketsTyped, HarnessTyped
  <2> QED
    BY <2>1, <2>2, <2>3 DEF Typed
<1>2. CASE MainStep \/ Timeout
  <2>1. PcTyped' /\ FlagsTyped'
    <3>1. m_done' \in BOOLEAN
      BY <1>2 DEF Typed, MainStep, OpenGate, Join, Timeout, SetDone, Stop, vars
    <3>2. UNCHANGED <<TMutex, pc, memory, events, locks, registry, iter>>
      BY <1>2 DEF MainStep, OpenGate, Join, Timeout, SetDone, Stop, vars
    <3> QED
      BY <3>1, <3>2 DEF Typed, memory, events, locks, registry
  <2>2. QueueTyped' /\ CohortTyped' /\ TicketsTyped'
    BY <1>2 DEF Typed, MainStep, Timeout, queue, first, permits, cohort, tickets
  <2>3. HarnessTyped'
    BY <1>2 DEF Typed, MainStep, OpenGate, Join, Timeout, SetDone, counters
  <2> HIDE DEF PcTyped, FlagsTyped, QueueTyped, CohortTyped, TicketsTyped, HarnessTyped
  <2> QED
    BY <2>1, <2>2, <2>3 DEF Typed
<1> HIDE DEF PcTyped, FlagsTyped, QueueTyped, CohortTyped, TicketsTyped, HarnessTyped
<1> QED
  BY <1>1, <1>2

LEMMA InitTyped == Init => Typed
<1> SUFFICES ASSUME Init
             PROVE  Typed
  OBVIOUS
<1>1. PcTyped
  BY DEF Init, NewTest, CrowdedTest, PcTyped, Places, IdlePlaces, ReadPlaces, WritePlaces
<1>2. FlagsTyped
  <2>1. m_threadStates \in Seq(Threads)
    <3>1. CASE NewTest
      <4>1. <<>> \in Seq(Threads)
        OBVIOUS
      <4> QED
        BY <3>1, <4>1 DEF NewTest
    <3>2. CASE CrowdedTest
      <4> DEFINE S == crew \cap Readers
      <4>1. m_threadStates \in [1..Cardinality(S) -> S]
        BY <3>2 DEF CrowdedTest, Bijection, Injection
      <4>2. S \subseteq Threads /\ Cardinality(S) \in Nat
        BY QueueAssumption, FS_Subset, FS_CardinalityType DEF Threads
      <4>3. m_threadStates \in [1..Cardinality(S) -> Threads]
        BY <4>1, <4>2
      <4> HIDE DEF S
      <4> QED
        BY <4>2, <4>3
    <3> QED
      BY <3>1, <3>2 DEF Init
  <2>2. readerDoneEvent \in [Threads -> BOOLEAN] /\ tlsData \in [Threads -> BOOLEAN]
    <3>1. CASE NewTest
      <4> DEFINE sync == TMutex = "UltraSyncSingle"
      <4>1. readerDoneEvent = [t \in Threads |-> sync] /\ tlsData = [t \in Threads |-> FALSE]
        BY <3>1 DEF NewTest
      <4>2. sync \in BOOLEAN
        OBVIOUS
      <4> HIDE DEF sync
      <4> QED
        BY <4>1, <4>2, Zenon
    <3>2. CASE CrowdedTest
      <4> DEFINE reads(t) == t \in crew \cap Readers
      <4>1. readerDoneEvent = [t \in Threads |-> reads(t)] /\ tlsData = [t \in Threads |-> reads(t)]
        BY <3>2 DEF CrowdedTest
      <4>2. \A t : reads(t) \in BOOLEAN
        OBVIOUS
      <4> HIDE DEF reads
      <4> QED
        BY <4>1, <4>2, Zenon
    <3> QED
      BY <3>1, <3>2 DEF Init
  <2>3. m_cs \in Threads \cup {None} /\ m_done \in BOOLEAN /\ m_writeRequested \in BOOLEAN
    BY DEF Init, NewTest, CrowdedTest, Threads
  <2> QED
    BY <2>1, <2>2, <2>3 DEF Init, FlagsTyped
<1>3. QueueTyped
  <2>1. 0 \in 0..TMaxConcurrentReaders - 1 /\ TMaxConcurrentReaders \in Int
    BY QueueAssumption
  <2>2. m_sema \in Int
    <3>1. CASE NewTest
      BY <2>1, <3>1 DEF NewTest
    <3>2. CASE CrowdedTest
      BY <3>2 DEF CrowdedTest
    <3> QED
      BY <3>1, <3>2 DEF Init
  <2>3. isFirstReader \in [Threads -> BOOLEAN] /\ i \in [Threads -> 0..TMaxConcurrentReaders - 1]
    BY <2>1 DEF Init, QueueInit
  <2>4. m_csQueue \in Threads \cup {None} /\ m_readerCount \in Int
    BY DEF Init, QueueInit
  <2>5. m_lastLockedReaderEvent \in BOOLEAN
    BY DEF Init, QueueInit
  <2> QED
    BY <2>2, <2>3, <2>4, <2>5 DEF QueueTyped
<1>4. CohortTyped /\ TicketsTyped
  BY TicketAssumption DEF Init, NewTest, CrowdedTest, CohortTyped, TicketsTyped, CohortInit,
     TicketInit, Span
<1>5. HarnessTyped
  BY TrialsAssumption, CrowdedAssumption DEF Init, NewTest, CrowdedTest, HarnessTyped, CountersInit
<1> QED
  BY <1>1, <1>2, <1>3, <1>4, <1>5 DEF Typed

\* A thread that starts or ends leaves the mutex alone.
StartPlaces == {"loop", "rl_queue", "rl_enter", "rl_raise", "tls_queue", "tls_enter",
                "wl_queue", "wl_enter", "counting", "exited"}
Outside == <<TMutex, memory, events, locks, m_threadStates, iter, queue, cohort, tickets>>
Starts(t) ==
    \/ AddCount(t) /\ UNCHANGED <<queue, cohort, tickets>>
    \/ (BeginRead(t) \/ BeginWrite(t)) /\ UNCHANGED <<queue, harness, cohort, tickets>>

LEMMA StepCases ==
    ASSUME NEW t \in Threads, Step(t)
    PROVE  \/ Starts(t)
           \/ (FairStep(t) \/ FairCsStep(t) \/ QtStep(t) \/ SingleStep(t) \/ PlainStep(t))
              /\ UNCHANGED <<harness, cohort, tickets>>
           \/ CohortStep(t) /\ UNCHANGED <<harness, tickets>>
           \/ TicketedStep(t) /\ UNCHANGED <<harness, cohort>>
  BY DEF Step, Starts

LEMMA StartsWhere ==
    ASSUME Typed, NEW t \in Threads, Starts(t)
    PROVE  /\ pc[t] \in {"loop", "counting"}
           /\ pc'[t] \in StartPlaces
           /\ pc'[t] = "tls_enter" => TMutex = "Cohort"
           /\ pc'[t] = "rl_enter" => TMutex \in PlainClasses
           /\ UNCHANGED Outside /\ Moves(t)
<1> DEFINE Goes == /\ pc[t] \in {"loop", "counting"} /\ pc'[t] \in StartPlaces
                   /\ pc'[t] = "tls_enter" => TMutex = "Cohort"
                   /\ pc'[t] = "rl_enter" => TMutex \in PlainClasses
<1> USE DEF Goto, Typed, PcTyped, StartPlaces, Starts
<1>1. BeginRead(t) => Goes
  <2> SUFFICES ASSUME BeginRead(t)
               PROVE  Goes
    OBVIOUS
  <2>1. pc[t] = "loop" /\ pc'[t] = IF tlsData[t] THEN ReadLockPlace ELSE TlsPlace
    BY DEF BeginRead
  <2>2. pc'[t] \in {"rl_queue", "rl_enter", "rl_raise", "tls_queue", "tls_enter"}
        /\ (pc'[t] = "tls_enter" => TMutex = "Cohort")
        /\ (pc'[t] = "rl_enter" => TMutex \in PlainClasses)
    BY <2>1 DEF ReadLockPlace, TlsPlace
  <2> QED
    BY <2>1, <2>2
<1>2. BeginWrite(t) => Goes
  BY DEF BeginWrite, WriteLockPlace
<1>3. AddCount(t) => Goes
  BY DEF AddCount, Pass
<1>4. UNCHANGED Outside
  BY DEF Outside, BeginRead, BeginWrite, flags, AddCount, Pass, registry
<1>5. Moves(t)
  BY StartMoves
<1> QED
  BY <1>1, <1>2, <1>3, <1>4, <1>5

-----------------------------------------------------------------------------
(* The first lock: a thread owns it at certain places of its class.        *)

QueuePlaces(mutex) ==
    CASE mutex = "Fair" -> {"wl_writer", "wl_unqueue", "rl_count", "rl_writer", "rl_unqueue"}
      [] mutex = "FairCs" -> {"wl_writer", "wl_unqueue", "rl_count", "rl_writer", "rl_unqueue",
                              "tls_enter", "tls_push", "tls_leave", "tls_unqueue"}
      [] mutex = "Ticketed" ->
            {"wl_ticket", "wl_writer", "wl_request", "wl_unqueue", "rl_count", "rl_writer",
             "rl_ticket", "rl_store", "rl_reraise", "rl_unqueue",
             "tls_enter", "tls_push", "tls_leave", "tls_unqueue"}
      [] mutex = "Qt" -> {"wl_writer", "wl_unqueue"}
      [] OTHER -> {}

QueueInv == \A t \in Threads : m_csQueue = t <=> pc[t] \in QueuePlaces(TMutex)

LEMMA QueuePlacesOfClass ==
    /\ QueuePlaces("Fair") = {"wl_writer", "wl_unqueue", "rl_count", "rl_writer", "rl_unqueue"}
    /\ QueuePlaces("FairCs") = {"wl_writer", "wl_unqueue", "rl_count", "rl_writer", "rl_unqueue",
                                "tls_enter", "tls_push", "tls_leave", "tls_unqueue"}
    /\ QueuePlaces("Ticketed") =
            {"wl_ticket", "wl_writer", "wl_request", "wl_unqueue", "rl_count", "rl_writer",
             "rl_ticket", "rl_store", "rl_reraise", "rl_unqueue",
             "tls_enter", "tls_push", "tls_leave", "tls_unqueue"}
    /\ QueuePlaces("Qt") = {"wl_writer", "wl_unqueue"}
    /\ \A c \in {"Cohort"} \cup SingleClasses \cup PlainClasses : QueuePlaces(c) = {}
  BY DEF QueuePlaces, SingleClasses, PlainClasses

\* What a step of thread t does to the first lock.
QueueMove(t, places) ==
    \/ m_csQueue = None /\ m_csQueue' = t /\ pc'[t] \in places
    \/ m_csQueue' = None /\ pc[t] \in places /\ pc'[t] \notin places
    \/ UNCHANGED m_csQueue /\ (pc[t] \in places <=> pc'[t] \in places)

LEMMA QueueKept ==
    ASSUME Typed, QueueInv, UNCHANGED TMutex, NEW t \in Threads, Moves(t),
           QueueMove(t, QueuePlaces(TMutex))
    PROVE  QueueInv'
<1> DEFINE places == QueuePlaces(TMutex)
<1>1. places' = places
  BY DEF QueuePlaces
<1>2. \A u \in Threads : u # t => pc'[u] = pc[u]
  BY DEF Typed, PcTyped, Moves
<1>3. \A u \in Threads : u # None
  BY NoneAssumption
<1> HIDE DEF places
<1>4. \A u \in Threads : m_csQueue' = u <=> pc'[u] \in places
  BY <1>2, <1>3 DEF QueueInv, QueueMove, places
<1> QED
  BY <1>1, <1>4 DEF QueueInv, places

LEMMA StepQueueInv ==
    ASSUME Typed, QueueInv, NEW t \in Threads, Step(t)
    PROVE  QueueInv'
<1> DEFINE Fits(c) == TMutex = c /\ UNCHANGED TMutex /\ QueueMove(t, QueuePlaces(c))
<1> USE QueuePlacesOfClass DEF QueueMove, flags, Goto, Typed, PcTyped
<1>1. FairStep(t) => Fits("Fair")
  BY DEF FairStep, FairWriteLock, FairWriteUnlock, FairReadLock, FairReadUnlock, EnterQueue,
     LeaveQueue, EnterWriter, LeaveWriter, CountReader, UncountReader, EnterCs, LeaveCs, queue
<1>2. FairCsStep(t) => Fits("FairCs")
  <2>1. FairCsWriteLock(t) \/ FairCsWriteUnlock(t) =>
            UNCHANGED TMutex /\ QueueMove(t, QueuePlaces("FairCs"))
    BY DEF FairCsWriteLock, FairCsWriteUnlock, EnterQueue, LeaveQueue, EnterWriter, LeaveWriter,
       EnterCs, LeaveCs, queue
  <2>2. FairCsReadLock(t) => UNCHANGED TMutex /\ QueueMove(t, QueuePlaces("FairCs"))
    BY DEF FairCsReadLock, InitTlsDataQueued, PushTlsData, EnterQueue, LeaveQueue, EnterWriter,
       LeaveWriter, EnterCs, LeaveCs, EnterWriterFirst, CountReader, queue
  <2>3. FairCsReadUnlock(t) => UNCHANGED TMutex /\ QueueMove(t, QueuePlaces("FairCs"))
    BY DEF FairCsReadUnlock, UncountReader, LeaveWriterFirst, LeaveCs, SignalFirstReader,
       WaitForLastReader
  <2> QED
    BY <2>1, <2>2, <2>3 DEF FairCsStep
<1>3. QtStep(t) => Fits("Qt")
  BY DEF QtStep, QtWriteLock, QtWriteUnlock, QtReadLock, QtReadUnlock, CollectPermit, Collect,
     EnterQueue, LeaveQueue, TakePermit, GivePermits
<1>4. TicketedStep(t) => Fits("Ticketed")
  <2> DEFINE Kept == UNCHANGED TMutex /\ QueueMove(t, QueuePlaces("Ticketed"))
  <2>1. TicketedWriteLock(t) \/ TicketedWriteUnlock(t) => Kept
    <3>1. EnterQueue(t, "wl_queue", "wl_ticket") \/ LeaveQueue(t, "wl_unqueue", "wl_scan")
          \/ EnterWriter(t, "wl_writer", "wl_request") => Kept
      BY DEF EnterQueue, LeaveQueue, EnterWriter, EnterCs, queue
    <3>2. (RequestQueued(t) \/ ClearRequest(t, "wu_leave") \/ LeaveCs(t, "wu_leave", "loop"))
          /\ UNCHANGED queue => Kept
      BY DEF RequestQueued, ClearRequest, LeaveCs, queue
    <3>3. (ScanReaders(t, "wl_wait") \/ WaitReaderDone(t)) /\ UNCHANGED queue => Kept
      BY DEF ScanReaders, FinishScan, PassReader, FindReader, WaitReaderDone, queue
    <3>4. DrawTicket(t, 2, "wl_ticket", "wl_writer") => Kept
      BY DEF DrawTicket, queue
    <3> HIDE DEF Kept
    <3> QED
      BY <3>1, <3>2, <3>3, <3>4 DEF TicketedWriteLock, TicketedWriteUnlock
  <2>2. TicketedReadLock(t) => Kept
    <3>1. InitTlsDataQueued(t, "rl_raise") => Kept
      BY DEF InitTlsDataQueued, PushTlsData, EnterQueue, LeaveQueue, EnterWriter, LeaveWriter,
         EnterCs, LeaveCs, queue
    <3>2. EnterQueue(t, "rl_queue", "rl_count") \/ LeaveQueue(t, "rl_unqueue", "reading")
          \/ EnterWriterFirst(t, "rl_writer", "rl_ticket") => Kept
      BY DEF EnterQueue, LeaveQueue, EnterWriterFirst, EnterCs, queue
    <3>3. (\/ StoreFlag(t, TRUE, "rl_raise", "rl_last")
           \/ StoreFlag(t, FALSE, "rl_yield", "rl_signal")
           \/ SetReaderDone(t, "rl_signal", "rl_queue")
           \/ StoreFlag(t, TRUE, "rl_reraise", "rl_unqueue")) /\ UNCHANGED queue => Kept
      BY DEF StoreFlag, SetReaderDone, queue
    <3>4. JoinQueued(t) => Kept
      BY DEF JoinQueued, CountReader
    <3>5. LoadLastTicket(t) \/ CheckTicket(t) \/ DrawTicket(t, 1, "rl_ticket", "rl_store")
          \/ StoreTicket(t) => Kept
      BY DEF LoadLastTicket, CheckTicket, DrawTicket, StoreTicket, queue
    <3> HIDE DEF Kept
    <3> QED
      BY <3>1, <3>2, <3>3, <3>4, <3>5 DEF TicketedReadLock
  <2>3. TicketedReadUnlock(t) => Kept
    <3>1. LeaveQueued(t) => Kept
      BY DEF LeaveQueued, UncountReader
    <3>2. StoreFlag(t, FALSE, "reading", IF isLocked[t] THEN "ru_count" ELSE "ru_check")
            /\ UNCHANGED queue => Kept
      BY DEF StoreFlag, queue
    <3>3. (CheckRequest(t, "ru_check", "ru_signal", "loop") \/ SetReaderDone(t, "ru_signal", "loop"))
            /\ UNCHANGED queue => Kept
      BY DEF CheckRequest, SetReaderDone, queue
    <3>4. LeaveWriterFirst(t, "ru_release", "ru_check") => Kept
      BY DEF LeaveWriterFirst, LeaveCs
    <3>5. SignalFirstReader(t, "ru_last", "ru_check") \/ WaitForLastReader(t, "ru_wait", "ru_release")
          => Kept
      BY DEF SignalFirstReader, WaitForLastReader
    <3> HIDE DEF Kept
    <3> QED
      BY <3>1, <3>2, <3>3, <3>4, <3>5 DEF TicketedReadUnlock
  <2> HIDE DEF QueueMove
  <2> QED
    BY <2>1, <2>2, <2>3 DEF TicketedStep
<1>5. CohortStep(t) \/ SingleStep(t) \/ PlainStep(t) => QueuePlaces(TMutex) = {} /\ UNCHANGED m_csQueue
  <2>1. CohortStep(t) => UNCHANGED m_csQueue
    BY DEF CohortStep, CohortReadLock, CohortReadUnlock, CohortWriteLock, CohortWriteUnlock,
       JoinCohort, TakePermit, CloseCohort, OpenCohort, GivePermits, LeaveCohort,
       SignalFirstReader, WaitForLastReader, queue
  <2>2. PlainStep(t) => UNCHANGED m_csQueue
    BY DEF PlainStep, PlainWriteLock, PlainWriteUnlock, PlainReadLock, PlainReadUnlock,
       EnterWriter, LeaveWriter, queue
  <2>3. SingleStep(t) => UNCHANGED m_csQueue
    BY DEF SingleStep, queue
  <2>4. CohortStep(t) \/ SingleStep(t) \/ PlainStep(t) =>
            TMutex \in {"Cohort"} \cup SingleClasses \cup PlainClasses
    BY DEF CohortStep, SingleStep, SpinSingleStep, SyncSingleStep, PlainStep, SingleClasses
  <2> QED
    BY <2>1, <2>2, <2>3, <2>4
<1>6. Starts(t) => UNCHANGED m_csQueue /\ QueueMove(t, QueuePlaces(TMutex))
  <2> SUFFICES ASSUME Starts(t)
               PROVE  UNCHANGED m_csQueue /\ QueueMove(t, QueuePlaces(TMutex))
    OBVIOUS
  <2>1. \A c : QueuePlaces(c) \cap (StartPlaces \ {"tls_enter"}) = {}
    BY DEF StartPlaces, QueuePlaces
  <2>2. pc[t] \in StartPlaces \ {"tls_enter"}
        /\ (pc'[t] \in StartPlaces \ {"tls_enter"} \/ TMutex = "Cohort")
    BY StartsWhere DEF StartPlaces
  <2>3. QueuePlaces("Cohort") = {}
    OBVIOUS
  <2>4. pc[t] \notin QueuePlaces(TMutex) /\ pc'[t] \notin QueuePlaces(TMutex)
    BY <2>1, <2>2, <2>3
  <2> QED
    BY <2>4, StartsWhere DEF Outside, queue
<1>7. OnlyMoves(t)
  BY StepKeepsTyped
<1>8. CASE QueuePlaces(TMutex) = {} /\ UNCHANGED m_csQueue
  BY <1>7, <1>8 DEF QueueInv, OnlyMoves, FlagsOfOthers
<1>9. CASE Moves(t) /\ QueueMove(t, QueuePlaces(TMutex))
  BY <1>7, <1>9, QueueKept DEF OnlyMoves, FlagsOfOthers
<1> HIDE DEF QueueMove
<1> QED
  BY <1>1, <1>2, <1>3, <1>4, <1>5, <1>6, <1>8, <1>9, FairMoves, FairCsMoves, QtMoves, TicketedMoves,
     StartsWhere, StepCases
-----------------------------------------------------------------------------
(* The marks a reader carries through its lock: isFirstReader of the one   *)
(* that took the second lock for its group, isLocked of a queued reader.   *)

FirstClasses == {"FairCs", "Ticketed"}

FirstOk(t) ==
    /\ isFirstReader[t] => /\ TMutex \in FirstClasses
                           /\ pc[t] \in {"rl_ticket", "rl_store", "rl_reraise", "rl_unqueue",
                                         "reading", "ru_count", "ru_wait", "ru_release"}
    /\ TMutex \in FirstClasses /\ pc[t] \in {"rl_ticket", "rl_store", "ru_wait", "ru_release"}
            => isFirstReader[t]
LockedOk(t) ==
    /\ isLocked[t] => /\ TMutex = "Ticketed"
                      /\ pc[t] \in {"rl_writer", "rl_ticket", "rl_store", "rl_reraise",
                                    "rl_unqueue", "reading", "ru_count"}
    /\ TMutex = "Ticketed" /\ pc[t] \in {"rl_writer", "rl_ticket", "rl_store", "rl_reraise",
                                         "rl_unqueue", "ru_count"} => isLocked[t]
    /\ TMutex = "Ticketed" /\ isFirstReader[t] /\ pc[t] \notin {"ru_wait", "ru_release"}
            => isLocked[t]

MarksInv == \A t \in Threads : FirstOk(t) /\ LockedOk(t)

LEMMA MarksKept ==
    ASSUME MarksInv, NEW t \in Threads, OnlyMoves(t), FirstOk(t)', LockedOk(t)'
    PROVE  MarksInv'
<1> SUFFICES ASSUME NEW u \in Threads \ {t}
             PROVE  FirstOk(u)' /\ LockedOk(u)'
  BY DEF MarksInv
<1>1. FirstOk(u) /\ LockedOk(u)
  BY DEF MarksInv
<1>2. /\ UNCHANGED TMutex /\ isFirstReader'[u] = isFirstReader[u] /\ isLocked'[u] = isLocked[u]
      /\ pc'[u] = pc[u] \/ TMutex \notin FirstClasses
  BY DEF OnlyMoves, FlagsOfOthers, QueueOfOthers, Roused, SingleClasses, FirstClasses
<1> QED
  BY <1>1, <1>2 DEF FirstOk, LockedOk, FirstClasses

LEMMA MarksOfOtherClasses ==
    ASSUME NEW t \in Threads, Typed,
           Starts(t) \/ FairStep(t) \/ QtStep(t) \/ CohortStep(t) \/ SingleStep(t) \/ PlainStep(t)
    PROVE  UNCHANGED <<isFirstReader, isLocked>>
<1> USE DEF EnterQueue, LeaveQueue, EnterWriter, LeaveWriter, EnterCs, LeaveCs, queue, first, flags,
        locks
<1>1. FairStep(t) => UNCHANGED <<isFirstReader, isLocked>>
  BY DEF FairStep, FairWriteLock, FairWriteUnlock, FairReadLock, FairReadUnlock, CountReader,
     UncountReader
<1>2. QtStep(t) => UNCHANGED <<isFirstReader, isLocked>>
  BY DEF QtStep, QtWriteLock, QtWriteUnlock, QtReadLock, QtReadUnlock, CollectPermit, Collect,
     TakePermit, GivePermits
<1>3. CohortStep(t) => UNCHANGED <<isFirstReader, isLocked>>
  <2>1. CohortReadLock(t) => UNCHANGED <<isFirstReader, isLocked>>
    BY DEF CohortReadLock, InitTlsData, PushTlsData, StoreFlag, CheckRequest, SetReaderDone,
       JoinCohort, TakePermit, CloseCohort, OpenCohort, GivePermits
  <2>2. CohortReadUnlock(t) => UNCHANGED <<isFirstReader, isLocked>>
    BY DEF CohortReadUnlock, StoreFlag, CheckRequest, SetReaderDone, LeaveCohort,
       SignalFirstReader, WaitForLastReader
  <2>3. CohortWriteLock(t) \/ CohortWriteUnlock(t) => UNCHANGED <<isFirstReader, isLocked>>
    BY DEF CohortWriteLock, CohortWriteUnlock, RequestWrite, ScanReaders, FinishScan, PassReader,
       FindReader, WaitReaderDone, ClearRequest
  <2> QED
    BY <2>1, <2>2, <2>3 DEF CohortStep
<1>4. SingleStep(t) => UNCHANGED <<isFirstReader, isLocked>>
  <2>1. \A busy : SingleWriteLock(t, busy) => UNCHANGED isLocked
    BY DEF SingleWriteLock, ResetWriterDone, RequestWrite
  <2>2. UltraSpinReadLock(t) \/ UltraSpinReadUnlock(t) \/ Sleep(t) => UNCHANGED isLocked
    BY DEF UltraSpinReadLock, UltraSpinReadUnlock, Sleep, StoreFlag, CheckRequest, WaitWriterDone
  <2>3. UltraFastReadLock(t) \/ UltraFastReadUnlock(t) => UNCHANGED isLocked
    BY DEF UltraFastReadLock, UltraFastReadUnlock, StoreFlag, CheckRequest, WaitWriterDone,
       SetReaderDone
  <2>4. UltraSpinWriteUnlock(t) \/ UltraFastWriteUnlock(t) => UNCHANGED isLocked
    BY DEF UltraSpinWriteUnlock, UltraFastWriteUnlock, ClearRequest, SetWriterDone
  <2> QED
    BY <2>1, <2>2, <2>3, <2>4 DEF SingleStep, SpinSingleStep, SyncSingleStep
<1>5. PlainStep(t) => UNCHANGED <<isFirstReader, isLocked>>
  BY DEF PlainStep, PlainWriteLock, PlainWriteUnlock, PlainReadLock, PlainReadUnlock
<1>6. Starts(t) => UNCHANGED <<isFirstReader, isLocked>>
  BY StartsWhere DEF Outside
<1> QED
  BY <1>1, <1>2, <1>3, <1>4, <1>5, <1>6

LEMMA StepMarks ==
    ASSUME Typed, MarksInv, NEW t \in Threads, Step(t)
    PROVE  MarksInv'
<1>1. FirstOk(t) /\ LockedOk(t) /\ Typed' /\ OnlyMoves(t) /\ UNCHANGED TMutex
  BY StepKeepsTyped DEF MarksInv, OnlyMoves, FlagsOfOthers
<1>2. CASE Starts(t) \/ FairStep(t) \/ QtStep(t) \/ CohortStep(t) \/ SingleStep(t) \/ PlainStep(t)
  <2>1. UNCHANGED <<isFirstReader, isLocked>>
    BY <1>2, MarksOfOtherClasses
  <2>2. TMutex \notin FirstClasses \/ Starts(t)
    BY <1>2 DEF FairStep, QtStep, CohortStep, SingleStep, SpinSingleStep, SyncSingleStep, PlainStep,
       PlainClasses, FirstClasses
  <2>3. CASE TMutex \notin FirstClasses
    BY <1>1, <2>1, <2>3, MarksKept DEF FirstOk, LockedOk, FirstClasses
  <2>4. CASE Starts(t)
    <3>1. FirstOk(t)' /\ LockedOk(t)'
      BY <1>1, <2>1, <2>4, StartsWhere DEF FirstOk, LockedOk, FirstClasses, StartPlaces
    <3> QED
      BY <1>1, <3>1, MarksKept
  <2> QED
    BY <2>2, <2>3, <2>4
<1>3. CASE FairCsStep(t)
  <2> USE DEF FirstClasses, Goto, flags, locks, registry, first
  <2>1. TMutex = "FairCs" /\ pc \in [Threads -> Places] /\ isFirstReader \in [Threads -> BOOLEAN]
    BY <1>3 DEF FairCsStep, Typed, PcTyped, QueueTyped
  <2>2. UNCHANGED isLocked
    BY <1>3 DEF FairCsStep, FairCsWriteLock, FairCsWriteUnlock, FairCsReadLock, InitTlsDataQueued,
       PushTlsData, FairCsReadUnlock, EnterQueue, LeaveQueue, EnterWriter, LeaveWriter, EnterCs,
       LeaveCs, EnterWriterFirst, LeaveWriterFirst, CountReader, UncountReader,
       SignalFirstReader, WaitForLastReader
  <2>3. FirstOk(t)'
    <3>1. CASE FairCsWriteLock(t) \/ FairCsWriteUnlock(t)
      BY <1>1, <2>1, <3>1 DEF FairCsWriteLock, FairCsWriteUnlock, EnterQueue, LeaveQueue,
         EnterWriter, LeaveWriter, EnterCs, LeaveCs, queue, FirstOk
    <3>2. CASE FairCsReadLock(t)
      BY <1>1, <2>1, <3>2 DEF FairCsReadLock, InitTlsDataQueued, PushTlsData, EnterQueue,
         LeaveQueue, EnterWriter, LeaveWriter, EnterCs, LeaveCs, EnterWriterFirst, CountReader,
         queue, FirstOk
    <3>3. CASE FairCsReadUnlock(t)
      BY <1>1, <2>1, <3>3 DEF FairCsReadUnlock, UncountReader, LeaveWriterFirst, LeaveCs,
         SignalFirstReader, WaitForLastReader, FirstOk
    <3> QED
      BY <1>3, <3>1, <3>2, <3>3 DEF FairCsStep
  <2>4. LockedOk(t)'
    BY <1>1, <2>1, <2>2 DEF LockedOk
  <2> QED
    BY <1>1, <2>3, <2>4, MarksKept
<1>4. CASE TicketedStep(t)
  <2> USE DEF FirstClasses, Goto, flags, locks, registry, first, FirstOk, LockedOk
  <2>1. TMutex = "Ticketed" /\ pc \in [Threads -> Places] /\ isFirstReader \in [Threads -> BOOLEAN]
        /\ isLocked \in [Threads -> BOOLEAN]
    BY <1>4 DEF TicketedStep, Typed, PcTyped, QueueTyped, FlagsTyped
  <2>2. FirstOk(t)' /\ LockedOk(t)'
    <3>1. CASE TicketedWriteLock(t) \/ TicketedWriteUnlock(t)
      BY <1>1, <2>1, <3>1 DEF TicketedWriteLock, TicketedWriteUnlock, EnterQueue, LeaveQueue,
         EnterWriter, EnterCs, LeaveCs, RequestQueued, ScanReaders, FinishScan, PassReader,
         FindReader, WaitReaderDone, ClearRequest, DrawTicket, queue
    <3>2. CASE TicketedReadLock(t)
      BY <1>1, <2>1, <3>2 DEF TicketedReadLock, InitTlsDataQueued, PushTlsData, EnterQueue,
         LeaveQueue, EnterWriter, LeaveWriter, EnterCs, LeaveCs, EnterWriterFirst, StoreFlag,
         SetReaderDone, JoinQueued, CountReader, LoadLastTicket, CheckTicket, DrawTicket,
         StoreTicket, queue
    <3>3. CASE LeaveQueued(t)
      BY <1>1, <2>1, <3>3 DEF LeaveQueued, UncountReader
    <3>4. CASE TicketedReadUnlock(t)
      <4>1. ASSUME StoreFlag(t, FALSE, "reading", IF isLocked[t] THEN "ru_count" ELSE "ru_check"),
                   UNCHANGED queue
            PROVE  FirstOk(t)' /\ LockedOk(t)'
        BY <1>1, <2>1, <4>1 DEF StoreFlag, queue
      <4>2. ASSUME CheckRequest(t, "ru_check", "ru_signal", "loop") \/ SetReaderDone(t, "ru_signal", "loop"),
                   UNCHANGED queue
            PROVE  FirstOk(t)' /\ LockedOk(t)'
        BY <1>1, <2>1, <4>2 DEF CheckRequest, SetReaderDone, queue
      <4>3. CASE LeaveWriterFirst(t, "ru_release", "ru_check")
        BY <1>1, <2>1, <4>3 DEF LeaveWriterFirst, LeaveCs
      <4>4. CASE SignalFirstReader(t, "ru_last", "ru_check") \/ WaitForLastReader(t, "ru_wait", "ru_release")
        BY <1>1, <2>1, <4>4 DEF SignalFirstReader, WaitForLastReader
      <4> HIDE DEF Goto, flags, locks, registry, first, FirstOk, LockedOk
      <4> QED
        BY <3>3, <3>4, <4>1, <4>2, <4>3, <4>4 DEF TicketedReadUnlock
    <3> QED
      BY <1>4, <3>1, <3>2, <3>4 DEF TicketedStep
  <2> QED
    BY <1>1, <2>2, MarksKept
<1> QED
  BY <1>2, <1>3, <1>4, StepCases

-----------------------------------------------------------------------------
(* Cohort: where a reader has an order in a cohort, and who has joined the *)
(* one that still gathers.                                                 *)

OrderOk(t) ==
    /\ readerOrder[t] >= 0 /\ cohortCount[t] >= 0
    /\ readerOrder[t] # 0 => /\ TMutex = "Cohort"
                             /\ pc[t] \in {"rl_enter", "rl_close", "rl_size", "rl_open", "rl_permit",
                                           "rl_reraise", "reading", "ru_count"}
    /\ cohortCount[t] # 0 => TMutex = "Cohort" /\ pc[t] \in {"rl_size", "rl_open"}
    /\ TMutex = "Cohort" =>
        /\ pc[t] \in {"rl_reraise", "ru_count"} => readerOrder[t] # 0
        /\ pc[t] \in {"rl_enter", "rl_close", "rl_size", "rl_open"} => readerOrder[t] = 1
        /\ pc[t] = "rl_permit" => readerOrder[t] > 1
        /\ pc[t] \in {"rl_size", "rl_open"} => cohortCount[t] # 0

GatherPlaces == {"rl_enter", "rl_close"}
GatherInv == TMutex = "Cohort" =>
    /\ m_readerCount >= 0
    /\ m_readerCount = 0 <=> \A t \in Threads : pc[t] \notin GatherPlaces
    /\ \A t, u \in Threads : pc[t] \in GatherPlaces /\ pc[u] \in GatherPlaces => t = u

OrderInv == (\A t \in Threads : OrderOk(t)) /\ GatherInv

LEMMA OrderKept ==
    ASSUME OrderInv, NEW t \in Threads, OnlyMoves(t), OrderOk(t)'
    PROVE  \A u \in Threads : OrderOk(u)'
<1> SUFFICES ASSUME NEW u \in Threads \ {t}
             PROVE  OrderOk(u)'
  OBVIOUS
<1>1. OrderOk(u)
  BY DEF OrderInv
<1>2. /\ UNCHANGED TMutex /\ readerOrder'[u] = readerOrder[u] /\ cohortCount'[u] = cohortCount[u]
      /\ pc'[u] = pc[u] \/ TMutex # "Cohort"
  BY DEF OnlyMoves, FlagsOfOthers, CohortOfOthers, Roused, SingleClasses
<1> QED
  BY <1>1, <1>2 DEF OrderOk

LEMMA StepOrder ==
    ASSUME Typed, OrderInv, NEW t \in Threads, Step(t)
    PROVE  OrderInv'
<1>1. OrderOk(t) /\ GatherInv /\ Typed' /\ OnlyMoves(t) /\ UNCHANGED TMutex
  BY StepKeepsTyped DEF OrderInv, OnlyMoves, FlagsOfOthers
<1>2. CASE TMutex # "Cohort"
  <2>1. UNCHANGED cohort
    BY <1>2, StepCases, StartsWhere DEF CohortStep, Outside
  <2> QED
    BY <1>1, <1>2, <2>1, OrderKept DEF OrderInv, GatherInv, OrderOk, cohort
<1>3. CASE TMutex = "Cohort"
  <2>1. Moves(t) /\ \A u \in Threads \ {t} : pc'[u] = pc[u]
    BY <1>1, <1>3 DEF OnlyMoves, SingleClasses, Roused
  <2>2. /\ pc \in [Threads -> Places] /\ m_readerCount \in Int /\ readerOrder \in [Threads -> Int]
        /\ cohortCount \in [Threads -> Int]
    BY DEF Typed, PcTyped, QueueTyped, CohortTyped
  <2> SUFFICES OrderOk(t)' /\ GatherInv'
    BY <1>1, OrderKept DEF OrderInv
  <2>3. CASE Starts(t)
    <3>1. /\ pc[t] \in {"loop", "counting"} /\ pc'[t] \in StartPlaces \ {"rl_enter"}
          /\ UNCHANGED <<readerOrder, cohortCount, m_readerCount>>
      BY <1>3, <2>3, StartsWhere DEF Outside, cohort, queue, PlainClasses
    <3>2. OrderOk(t)'
      BY <1>1, <1>3, <3>1 DEF StartPlaces, OrderOk
    <3>3. pc[t] \notin GatherPlaces /\ pc'[t] \notin GatherPlaces
      BY <3>1 DEF StartPlaces, GatherPlaces
    <3>4. GatherInv'
      BY <1>1, <2>1, <3>1, <3>3 DEF GatherInv
    <3> QED
      BY <3>2, <3>4
  <2> USE <1>1, <1>3, <2>1, <2>2 DEF OrderOk, GatherInv, GatherPlaces, Goto, cohort, queue
  <2>4. CASE JoinCohort(t)
    <3>1. CASE m_readerCount = 0
      BY <2>4, <3>1 DEF JoinCohort
    <3>2. CASE m_readerCount # 0
      BY <2>4, <3>2 DEF JoinCohort
    <3> QED
      BY <3>1, <3>2
  <2>5. ASSUME CloseCohort(t), UNCHANGED readerOrder
        PROVE  OrderOk(t)' /\ GatherInv'
    BY <2>5 DEF CloseCohort
  <2>6. CASE OpenCohort(t)
    BY <2>6 DEF OpenCohort, GivePermits
  <2>7. CASE LeaveCohort(t)
    BY <2>7 DEF LeaveCohort
  <2>8. CASE CohortReadLock(t)
    <3>1. ASSUME UNCHANGED <<queue, cohort>>,
                 \/ InitTlsData(t)
                 \/ StoreFlag(t, TRUE, "rl_raise", "rl_check")
                 \/ CheckRequest(t, "rl_check", "rl_yield", "reading")
                 \/ StoreFlag(t, FALSE, "rl_yield", "rl_signal")
                 \/ SetReaderDone(t, "rl_signal", "rl_join")
                 \/ EnterCs(t, "rl_enter", "rl_close")
                 \/ StoreFlag(t, TRUE, "rl_reraise", "reading")
          PROVE  OrderOk(t)' /\ GatherInv'
      <4>1. CASE InitTlsData(t)
        BY <3>1, <4>1 DEF InitTlsData, EnterCs, PushTlsData, LeaveCs
      <4>2. CASE EnterCs(t, "rl_enter", "rl_close") \/ CheckRequest(t, "rl_check", "rl_yield", "reading")
        BY <3>1, <4>2 DEF EnterCs, CheckRequest
      <4>3. CASE StoreFlag(t, TRUE, "rl_raise", "rl_check") \/ StoreFlag(t, TRUE, "rl_reraise", "reading")
        BY <3>1, <4>3 DEF StoreFlag
      <4>4. CASE StoreFlag(t, FALSE, "rl_yield", "rl_signal") \/ SetReaderDone(t, "rl_signal", "rl_join")
        BY <3>1, <4>4 DEF StoreFlag, SetReaderDone
      <4> HIDE DEF OrderOk, GatherInv, GatherPlaces, Goto, cohort, queue
      <4> QED
        BY <3>1, <4>1, <4>2, <4>3, <4>4
    <3>2. ASSUME TakePermit(t, "rl_permit", "rl_reraise"), UNCHANGED cohort
          PROVE  OrderOk(t)' /\ GatherInv'
      BY <3>2 DEF TakePermit
    <3> HIDE DEF OrderOk, GatherInv, GatherPlaces, Goto, cohort, queue
    <3> QED
      BY <2>8, <2>4, <2>5, <2>6, <3>1, <3>2 DEF CohortReadLock
  <2>9. CASE CohortReadUnlock(t)
    <3>1. ASSUME StoreFlag(t, FALSE, "reading", IF readerOrder[t] # 0 THEN "ru_count" ELSE "ru_check"),
                 UNCHANGED <<queue, cohort>>
          PROVE  OrderOk(t)' /\ GatherInv'
      BY <3>1 DEF StoreFlag
    <3>2. ASSUME UNCHANGED <<queue, cohort>>,
                 \/ LeaveCs(t, "ru_release", "ru_check")
                 \/ CheckRequest(t, "ru_check", "ru_signal", "loop")
                 \/ SetReaderDone(t, "ru_signal", "loop")
          PROVE  OrderOk(t)' /\ GatherInv'
      BY <3>2 DEF LeaveCs, CheckRequest, SetReaderDone
    <3>3. ASSUME UNCHANGED cohort, \/ SignalFirstReader(t, "ru_last", "ru_check")
                                   \/ WaitForLastReader(t, "ru_wait", "ru_release")
          PROVE  OrderOk(t)' /\ GatherInv'
      BY <3>3 DEF SignalFirstReader, WaitForLastReader
    <3> HIDE DEF OrderOk, GatherInv, GatherPlaces, Goto, cohort, queue
    <3> QED
      BY <2>9, <2>7, <3>1, <3>2, <3>3 DEF CohortReadUnlock
  <2>10. CASE CohortWriteLock(t) \/ CohortWriteUnlock(t)
    <3> SUFFICES ASSUME UNCHANGED <<queue, cohort>>
                 PROVE  OrderOk(t)' /\ GatherInv'
      BY <2>10 DEF CohortWriteLock, CohortWriteUnlock
    <3>1. CASE EnterCs(t, "wl_enter", "wl_request") \/ LeaveCs(t, "wu_leave", "loop")
      BY <3>1 DEF EnterCs, LeaveCs
    <3>2. CASE RequestWrite(t) \/ ClearRequest(t, "wu_leave")
      BY <3>2 DEF RequestWrite, ClearRequest
    <3>3. CASE ScanReaders(t, "wl_wait") \/ WaitReaderDone(t)
      BY <3>3 DEF ScanReaders, FinishScan, PassReader, FindReader, WaitReaderDone
    <3> HIDE DEF OrderOk, GatherInv, GatherPlaces, Goto, cohort, queue
    <3> QED
      BY <2>10, <3>1, <3>2, <3>3 DEF CohortWriteLock, CohortWriteUnlock
  <2> HIDE DEF OrderOk, GatherInv, GatherPlaces, Goto, cohort, queue
  <2> QED
    BY <2>3, <2>8, <2>9, <2>10, StepCases DEF CohortStep, FairStep, FairCsStep, QtStep, TicketedStep,
       SingleStep, SpinSingleStep, SyncSingleStep, PlainStep, PlainClasses
<1> QED
  BY <1>2, <1>3

-----------------------------------------------------------------------------
(* The second lock, where it is a critical section or a mutex: the thread  *)
(* that owns it is at certain places of its class, or it is the first of a *)
(* group of readers, or the leader of a cohort.                            *)

CsPlaces(mutex) ==
    CASE mutex = "FairCs" -> {"tls_push", "tls_leave", "wl_unqueue", "writing"}
      [] mutex = "Ticketed" -> {"tls_push", "tls_leave", "wl_request", "wl_unqueue", "wl_scan",
                                "wl_wait", "writing", "wu_leave"}
      [] mutex = "Cohort" ->
            {"tls_push", "tls_leave", "rl_close", "rl_size", "rl_open", "ru_wait", "ru_release",
             "wl_request", "wl_scan", "wl_wait", "writing", "wu_leave"}
      [] mutex \in SingleClasses ->
            {"wl_reset", "wl_request", "wl_scan", "wl_sleep", "wl_wait", "writing", "wu_signal",
             "wu_leave"}
      [] mutex \in PlainClasses -> {"reading", "writing"}
      [] OTHER -> {}

Leads(t) == readerOrder[t] = 1 /\ pc[t] \in {"rl_reraise", "reading", "ru_count"}
OwnsCs(t) == pc[t] \in CsPlaces(TMutex) \/ isFirstReader[t] \/ Leads(t)

CsInv == TMutex # "Fair" => \A t \in Threads : m_cs = t <=> OwnsCs(t)

LEMMA CsPlacesOfClass ==
    /\ CsPlaces("FairCs") = {"tls_push", "tls_leave", "wl_unqueue", "writing"}
    /\ CsPlaces("Ticketed") = {"tls_push", "tls_leave", "wl_request", "wl_unqueue", "wl_scan",
                               "wl_wait", "writing", "wu_leave"}
    /\ CsPlaces("Cohort") =
            {"tls_push", "tls_leave", "rl_close", "rl_size", "rl_open", "ru_wait", "ru_release",
             "wl_request", "wl_scan", "wl_wait", "writing", "wu_leave"}
    /\ \A c \in SingleClasses : CsPlaces(c) =
            {"wl_reset", "wl_request", "wl_scan", "wl_sleep", "wl_wait", "writing", "wu_signal",
             "wu_leave"}
    /\ \A c \in PlainClasses : CsPlaces(c) = {"reading", "writing"}
    /\ CsPlaces("Qt") = {}
  BY DEF CsPlaces, SingleClasses, PlainClasses

\* What a step of thread t does to the second lock.
CsMove(t) ==
    \/ m_cs = None /\ m_cs' = t /\ OwnsCs(t)'
    \/ m_cs' = None /\ OwnsCs(t) /\ ~OwnsCs(t)'
    \/ UNCHANGED m_cs /\ (OwnsCs(t) <=> OwnsCs(t)')

LEMMA CsKept ==
    ASSUME CsInv, NEW t \in Threads, OnlyMoves(t), TMutex # "Fair" => CsMove(t)
    PROVE  CsInv'
<1>1. ASSUME NEW u \in Threads \ {t}
      PROVE  OwnsCs(u)' <=> OwnsCs(u)
  <2>1. /\ UNCHANGED TMutex /\ isFirstReader'[u] = isFirstReader[u]
        /\ readerOrder'[u] = readerOrder[u]
    BY DEF OnlyMoves, FlagsOfOthers, QueueOfOthers, CohortOfOthers
  <2>2. CASE pc'[u] = pc[u]
    BY <2>1, <2>2 DEF OwnsCs, Leads, CsPlaces
  <2>3. CASE Roused(u)
    <3>1. pc[u] \notin CsPlaces(TMutex) /\ pc'[u] \notin CsPlaces(TMutex)
      BY <2>3, CsPlacesOfClass DEF Roused
    <3>2. CsPlaces(TMutex)' = CsPlaces(TMutex)
      BY <2>1 DEF CsPlaces
    <3> QED
      BY <2>1, <2>3, <3>1, <3>2 DEF OwnsCs, Leads, Roused
  <2> QED
    BY <2>2, <2>3 DEF OnlyMoves
<1>2. \A u \in Threads : u # None
  BY NoneAssumption
<1>3. UNCHANGED TMutex
  BY DEF OnlyMoves, FlagsOfOthers
<1> QED
  BY <1>1, <1>2, <1>3 DEF CsInv, CsMove

\* The steps on flags and events move one thread and leave the locks alone.
LEMMA FlagStepsMoveOnly ==
    ASSUME pc \in [Threads -> Places], NEW t \in Threads, NEW from, NEW to, NEW other
    PROVE  /\ \A value : StoreFlag(t, value, from, to) => UNCHANGED m_cs /\ pc[t] = from /\ pc'[t] = to
           /\ SetReaderDone(t, from, to) => UNCHANGED m_cs /\ pc[t] = from /\ pc'[t] = to
           /\ CheckRequest(t, from, to, other) =>
                UNCHANGED m_cs /\ pc[t] = from /\ pc'[t] \in {to, other}
<1>1. ASSUME NEW value, StoreFlag(t, value, from, to)
      PROVE  UNCHANGED m_cs /\ pc[t] = from /\ pc'[t] = to
  BY <1>1 DEF StoreFlag, Goto, locks
<1>2. SetReaderDone(t, from, to) => UNCHANGED m_cs /\ pc[t] = from /\ pc'[t] = to
  BY DEF SetReaderDone, Goto, locks
<1>3. CheckRequest(t, from, to, other) => UNCHANGED m_cs /\ pc[t] = from /\ pc'[t] \in {to, other}
  BY DEF CheckRequest, Goto, locks
<1> QED
  BY <1>1, <1>2, <1>3

LEMMA StepCsInv ==
    ASSUME Typed, MarksInv, OrderInv, CsInv, NEW t \in Threads, Step(t)
    PROVE  CsInv'
<1>1. Typed' /\ OnlyMoves(t) /\ UNCHANGED TMutex /\ FirstOk(t) /\ FirstOk(t)' /\ OrderOk(t) /\ OrderOk(t)'
  BY StepKeepsTyped, StepMarks, StepOrder DEF MarksInv, OrderInv, OnlyMoves, FlagsOfOthers
<1>2. /\ pc \in [Threads -> Places] /\ isFirstReader \in [Threads -> BOOLEAN]
      /\ readerOrder \in [Threads -> Int]
  BY DEF Typed, PcTyped, QueueTyped, CohortTyped
<1> SUFFICES ASSUME TMutex # "Fair"
             PROVE  CsMove(t)
  BY <1>1, CsKept
<1>3. CASE Starts(t)
  <2>1. /\ pc[t] \in {"loop", "counting"} /\ pc'[t] \in StartPlaces
        /\ UNCHANGED <<m_cs, isFirstReader, readerOrder>>
    BY <1>3, StartsWhere DEF Outside, cohort, queue, first, locks
  <2>2. \A c : CsPlaces(c) \cap StartPlaces = {}
    BY DEF CsPlaces, StartPlaces
  <2>3. CsPlaces(TMutex)' = CsPlaces(TMutex)
    BY <1>1 DEF CsPlaces
  <2>4. ~Leads(t) /\ ~Leads(t)'
    BY <2>1 DEF Leads, StartPlaces
  <2> QED
    BY <2>1, <2>2, <2>3, <2>4 DEF CsMove, OwnsCs, StartPlaces
<1>4. CASE FairCsStep(t)
  <2>1. /\ OwnsCs(t) <=> pc[t] \in CsPlaces("FairCs") \/ isFirstReader[t]
        /\ OwnsCs(t)' <=> pc'[t] \in CsPlaces("FairCs") \/ isFirstReader'[t]
    BY <1>1, <1>4 DEF FairCsStep, OwnsCs, Leads, OrderOk
  <2> USE <1>1, <1>2, <2>1, CsPlacesOfClass DEF CsMove, FirstOk, FirstClasses, Goto, queue, first, flags, locks
  <2>2. TMutex = "FairCs"
    BY <1>4 DEF FairCsStep
  <2> HIDE DEF OwnsCs
  <2>3. CASE FairCsWriteLock(t) \/ FairCsWriteUnlock(t)
    BY <2>3 DEF FairCsWriteLock, FairCsWriteUnlock, EnterQueue, LeaveQueue,
         EnterWriter, LeaveWriter, EnterCs, LeaveCs
  <2>4. CASE FairCsReadLock(t)
    <3>1. InitTlsDataQueued(t, "rl_queue") => CsMove(t)
      BY DEF InitTlsDataQueued, PushTlsData, EnterQueue, LeaveQueue, EnterWriter, LeaveWriter,
         EnterCs, LeaveCs
    <3>2. EnterQueue(t, "rl_queue", "rl_count") \/ LeaveQueue(t, "rl_unqueue", "reading") => CsMove(t)
      BY DEF EnterQueue, LeaveQueue
    <3>3. CountReader(t, "rl_writer", "rl_unqueue") /\ UNCHANGED flags => CsMove(t)
      BY DEF CountReader
    <3>4. EnterWriterFirst(t, "rl_writer", "rl_unqueue") => CsMove(t)
      BY <2>2 DEF EnterWriterFirst, EnterCs
    <3> HIDE <1>1, <1>2, <2>1, CsPlacesOfClass
             DEF CsMove, FirstOk, FirstClasses, Goto, queue, first, flags, locks
    <3> QED
      BY <2>4, <3>1, <3>2, <3>3, <3>4 DEF FairCsReadLock
  <2>5. CASE FairCsReadUnlock(t)
      BY <2>5, <2>2 DEF FairCsReadUnlock, UncountReader, LeaveWriterFirst, LeaveCs,
         SignalFirstReader, WaitForLastReader
  <2> QED
    BY <1>4, <2>3, <2>4, <2>5 DEF FairCsStep
<1>5. CASE TicketedStep(t)
  <2>1. /\ OwnsCs(t) <=> pc[t] \in CsPlaces("Ticketed") \/ isFirstReader[t]
        /\ OwnsCs(t)' <=> pc'[t] \in CsPlaces("Ticketed") \/ isFirstReader'[t]
    BY <1>1, <1>5 DEF TicketedStep, OwnsCs, Leads, OrderOk
  <2> USE <1>1, <1>2, <2>1, CsPlacesOfClass DEF CsMove, FirstOk, FirstClasses, Goto, queue, first, flags, locks
  <2>2. TMutex = "Ticketed"
    BY <1>5 DEF TicketedStep
  <2> HIDE DEF OwnsCs
  <2>3. CASE TicketedWriteLock(t) \/ TicketedWriteUnlock(t)
    <3>1. EnterQueue(t, "wl_queue", "wl_ticket") \/ LeaveQueue(t, "wl_unqueue", "wl_scan") => CsMove(t)
      BY DEF EnterQueue, LeaveQueue
    <3>2. EnterWriter(t, "wl_writer", "wl_request") => CsMove(t)
      BY DEF EnterWriter, EnterCs
    <3>3. (RequestQueued(t) \/ ScanReaders(t, "wl_wait") \/ WaitReaderDone(t)) /\ UNCHANGED queue => CsMove(t)
      BY DEF RequestQueued, ScanReaders, FinishScan, PassReader, FindReader, WaitReaderDone
    <3>4. DrawTicket(t, 2, "wl_ticket", "wl_writer") => CsMove(t)
      BY DEF DrawTicket
    <3>5. TicketedWriteUnlock(t) => CsMove(t)
      BY DEF TicketedWriteUnlock, ClearRequest, LeaveCs
    <3> HIDE <1>1, <1>2, <2>1, CsPlacesOfClass
             DEF CsMove, FirstOk, FirstClasses, Goto, queue, first, flags, locks
    <3> QED
      BY <2>3, <3>1, <3>2, <3>3, <3>4, <3>5 DEF TicketedWriteLock
  <2>4. CASE TicketedReadLock(t)
    <3>1. InitTlsDataQueued(t, "rl_raise") => CsMove(t)
      BY DEF InitTlsDataQueued, PushTlsData, EnterQueue, LeaveQueue, EnterWriter, LeaveWriter,
         EnterCs, LeaveCs
    <3>2. EnterWriterFirst(t, "rl_writer", "rl_ticket") => CsMove(t)
      BY <2>2 DEF EnterWriterFirst, EnterCs
    <3>3. JoinQueued(t) => CsMove(t)
      BY DEF JoinQueued, CountReader
    <3>4. LoadLastTicket(t) \/ CheckTicket(t) \/ StoreTicket(t)
          \/ DrawTicket(t, 1, "rl_ticket", "rl_store") => CsMove(t)
      BY DEF LoadLastTicket, CheckTicket, DrawTicket, StoreTicket
    <3>5. EnterQueue(t, "rl_queue", "rl_count") \/ LeaveQueue(t, "rl_unqueue", "reading") => CsMove(t)
      BY DEF EnterQueue, LeaveQueue
    <3>6. (\/ StoreFlag(t, TRUE, "rl_raise", "rl_last")
           \/ StoreFlag(t, FALSE, "rl_yield", "rl_signal")
           \/ SetReaderDone(t, "rl_signal", "rl_queue")
           \/ StoreFlag(t, TRUE, "rl_reraise", "rl_unqueue")) /\ UNCHANGED queue => CsMove(t)
      <4> HIDE <1>1, <2>1, CsPlacesOfClass DEF CsMove, FirstOk, FirstClasses, Goto, flags, locks
      <4> SUFFICES ASSUME \/ StoreFlag(t, TRUE, "rl_raise", "rl_last")
                          \/ StoreFlag(t, FALSE, "rl_yield", "rl_signal")
                          \/ SetReaderDone(t, "rl_signal", "rl_queue")
                          \/ StoreFlag(t, TRUE, "rl_reraise", "rl_unqueue"),
                          UNCHANGED queue
                   PROVE  CsMove(t)
        OBVIOUS
      <4>1. UNCHANGED m_cs /\ pc[t] \in {"rl_raise", "rl_yield", "rl_signal", "rl_reraise"}
                           /\ pc'[t] \in {"rl_last", "rl_signal", "rl_queue", "rl_unqueue"}
        BY FlagStepsMoveOnly
      <4> QED
        BY <2>1, <4>1, CsPlacesOfClass DEF CsMove
    <3> HIDE <1>1, <1>2, <2>1, CsPlacesOfClass
             DEF CsMove, FirstOk, FirstClasses, Goto, queue, first, flags, locks
    <3> QED
      BY <2>4, <3>1, <3>2, <3>3, <3>4, <3>5, <3>6 DEF TicketedReadLock
  <2>5. CASE TicketedReadUnlock(t)
    <3>1. LeaveQueued(t) => CsMove(t)
      BY DEF LeaveQueued, UncountReader
    <3>2. LeaveWriterFirst(t, "ru_release", "ru_check") => CsMove(t)
      BY <2>2 DEF LeaveWriterFirst, LeaveCs
    <3>3. (\/ StoreFlag(t, FALSE, "reading", IF isLocked[t] THEN "ru_count" ELSE "ru_check")
           \/ CheckRequest(t, "ru_check", "ru_signal", "loop")
           \/ SetReaderDone(t, "ru_signal", "loop")) /\ UNCHANGED queue => CsMove(t)
      <4> HIDE <1>1, <2>1, CsPlacesOfClass DEF CsMove, FirstOk, FirstClasses, Goto, flags, locks
      <4> SUFFICES ASSUME \/ StoreFlag(t, FALSE, "reading", IF isLocked[t] THEN "ru_count" ELSE "ru_check")
                          \/ CheckRequest(t, "ru_check", "ru_signal", "loop")
                          \/ SetReaderDone(t, "ru_signal", "loop"),
                          UNCHANGED queue
                   PROVE  CsMove(t)
        OBVIOUS
      <4>1. StoreFlag(t, FALSE, "reading", IF isLocked[t] THEN "ru_count" ELSE "ru_check") =>
              UNCHANGED m_cs /\ pc[t] = "reading" /\ pc'[t] \in {"ru_count", "ru_check"}
        BY DEF StoreFlag, Goto, locks
      <4>2. UNCHANGED m_cs /\ pc[t] \in {"reading", "ru_check", "ru_signal"}
                           /\ pc'[t] \in {"ru_count", "ru_check", "ru_signal", "loop"}
        BY <4>1, FlagStepsMoveOnly
      <4> QED
        BY <2>1, <4>2, CsPlacesOfClass DEF CsMove
    <3>4. SignalFirstReader(t, "ru_last", "ru_check") => CsMove(t)
      BY DEF SignalFirstReader
    <3>5. WaitForLastReader(t, "ru_wait", "ru_release") => CsMove(t)
      BY <2>2 DEF WaitForLastReader
    <3> HIDE <1>1, <1>2, <2>1, CsPlacesOfClass
             DEF CsMove, FirstOk, FirstClasses, Goto, queue, first, flags, locks
    <3> QED
      BY <2>5, <3>1, <3>2, <3>3, <3>4, <3>5 DEF TicketedReadUnlock
  <2> QED
    BY <1>5, <2>3, <2>4, <2>5 DEF TicketedStep
<1>6. CASE CohortStep(t)
  <2>1. /\ OwnsCs(t) <=> pc[t] \in CsPlaces("Cohort") \/ Leads(t)
        /\ OwnsCs(t)' <=> pc'[t] \in CsPlaces("Cohort") \/ Leads(t)'
    BY <1>1, <1>6 DEF CohortStep, OwnsCs, FirstOk, FirstClasses
  <2>2. TMutex = "Cohort"
    BY <1>6 DEF CohortStep
  <2> USE <1>1, <1>2, <2>1, <2>2, CsPlacesOfClass DEF CsMove, Leads, Goto, queue, cohort, flags, locks
  <2> HIDE DEF OwnsCs
  <2>3. CASE CohortWriteLock(t) \/ CohortWriteUnlock(t)
    BY <2>3 DEF CohortWriteLock, CohortWriteUnlock, EnterCs, LeaveCs, RequestWrite, ScanReaders,
       FinishScan, PassReader, FindReader, WaitReaderDone, ClearRequest
  <2>4. CASE CohortReadLock(t)
    <3>1. JoinCohort(t) \/ OpenCohort(t) => CsMove(t)
      BY DEF JoinCohort, OpenCohort, GivePermits, OrderOk
    <3>2. ASSUME CloseCohort(t), UNCHANGED <<flags, m_csQueue, first, permits, readerOrder>>
          PROVE  CsMove(t)
      BY <3>2 DEF CloseCohort
    <3>3. ASSUME TakePermit(t, "rl_permit", "rl_reraise"), UNCHANGED cohort
          PROVE  CsMove(t)
      BY <3>3 DEF TakePermit, OrderOk
    <3>4. ASSUME UNCHANGED cohort,
                 \/ InitTlsData(t)
                 \/ StoreFlag(t, TRUE, "rl_raise", "rl_check")
                 \/ CheckRequest(t, "rl_check", "rl_yield", "reading")
                 \/ StoreFlag(t, FALSE, "rl_yield", "rl_signal")
                 \/ SetReaderDone(t, "rl_signal", "rl_join")
                 \/ EnterCs(t, "rl_enter", "rl_close")
                 \/ StoreFlag(t, TRUE, "rl_reraise", "reading")
          PROVE  CsMove(t)
      <4>1. InitTlsData(t) \/ EnterCs(t, "rl_enter", "rl_close") => CsMove(t)
        BY <3>4 DEF InitTlsData, PushTlsData, EnterCs, LeaveCs
      <4>2. StoreFlag(t, TRUE, "rl_reraise", "reading") => CsMove(t)
        BY <3>4 DEF StoreFlag
      <4>3. CheckRequest(t, "rl_check", "rl_yield", "reading") => CsMove(t)
        BY <3>4 DEF CheckRequest, OrderOk
      <4>4. StoreFlag(t, TRUE, "rl_raise", "rl_check") => CsMove(t)
        BY <3>4 DEF StoreFlag
      <4>5. StoreFlag(t, FALSE, "rl_yield", "rl_signal") => CsMove(t)
        BY <3>4 DEF StoreFlag
      <4>6. SetReaderDone(t, "rl_signal", "rl_join") => CsMove(t)
        BY <3>4 DEF SetReaderDone
      <4> QED
        BY ONLY <3>4, <4>1, <4>2, <4>3, <4>4, <4>5, <4>6
    <3> QED
      BY <2>4, <3>1, <3>2, <3>3, <3>4 DEF CohortReadLock
  <2>5. CASE CohortReadUnlock(t)
    <3>1. ASSUME StoreFlag(t, FALSE, "reading", IF readerOrder[t] # 0 THEN "ru_count" ELSE "ru_check"),
                 UNCHANGED cohort
          PROVE  CsMove(t)
      BY <3>1 DEF StoreFlag
    <3>2. LeaveCohort(t) => CsMove(t)
      BY DEF LeaveCohort
    <3>3. ASSUME LeaveCs(t, "ru_release", "ru_check"), UNCHANGED cohort
          PROVE  CsMove(t)
      BY <3>3 DEF LeaveCs, OrderOk
    <3>4. ASSUME CheckRequest(t, "ru_check", "ru_signal", "loop") \/ SetReaderDone(t, "ru_signal", "loop"),
                 UNCHANGED cohort
          PROVE  CsMove(t)
      BY <3>4 DEF CheckRequest, SetReaderDone
    <3>5. ASSUME SignalFirstReader(t, "ru_last", "ru_check"), UNCHANGED cohort
          PROVE  CsMove(t)
      BY <3>5 DEF SignalFirstReader
    <3>6. ASSUME WaitForLastReader(t, "ru_wait", "ru_release"), UNCHANGED cohort
          PROVE  CsMove(t)
      BY <3>6 DEF WaitForLastReader
    <3> HIDE <1>1, <1>2, <2>1, CsPlacesOfClass DEF CsMove, Leads, Goto, queue, cohort, flags, locks
    <3> QED
      BY <2>5, <3>1, <3>2, <3>3, <3>4, <3>5, <3>6 DEF CohortReadUnlock
  <2> QED
    BY <1>6, <2>3, <2>4, <2>5 DEF CohortStep
<1>7. CASE SingleStep(t)
  <2>1. /\ OwnsCs(t) <=> pc[t] \in CsPlaces("UltraSpinSingle")
        /\ OwnsCs(t)' <=> pc'[t] \in CsPlaces("UltraSpinSingle")
    BY <1>1, <1>7, CsPlacesOfClass DEF SingleStep, SpinSingleStep, SyncSingleStep, SingleClasses,
       OwnsCs, Leads, OrderOk, FirstOk, FirstClasses
  <2> USE <1>1, <1>2, <2>1, CsPlacesOfClass DEF CsMove, SingleClasses, Goto, flags, locks
  <2> HIDE DEF OwnsCs
  <2>2. \A busy \in {"wl_sleep", "wl_wait"} : SingleWriteLock(t, busy) => CsMove(t)
    BY DEF SingleWriteLock, EnterCs, ResetWriterDone, RequestWrite, FindNotReading, FindReading,
       WaitReaderDoneSet
  <2>3. UltraSpinReadLock(t) \/ UltraSpinReadUnlock(t) \/ Sleep(t) => CsMove(t)
    BY DEF UltraSpinReadLock, UltraSpinReadUnlock, Sleep, StoreFlag, CheckRequest, WaitWriterDone
  <2>4. UltraFastReadLock(t) \/ UltraFastReadUnlock(t) => CsMove(t)
    BY DEF UltraFastReadLock, UltraFastReadUnlock, StoreFlag, CheckRequest, WaitWriterDone,
       SetReaderDone
  <2>5. UltraSpinWriteUnlock(t) \/ UltraFastWriteUnlock(t) => CsMove(t)
    BY DEF UltraSpinWriteUnlock, UltraFastWriteUnlock, ClearRequest, SetWriterDone, LeaveCs
  <2> QED
    BY <1>7, <2>2, <2>3, <2>4, <2>5 DEF SingleStep, SpinSingleStep, SyncSingleStep
<1>8. CASE PlainStep(t)
  <2>1. /\ OwnsCs(t) <=> pc[t] \in {"reading", "writing"}
        /\ OwnsCs(t)' <=> pc'[t] \in {"reading", "writing"}
    BY <1>1, <1>8, CsPlacesOfClass DEF PlainStep, PlainClasses, OwnsCs, Leads, OrderOk, FirstOk,
       FirstClasses
  <2> QED
    BY <1>2, <1>8, <2>1 DEF CsMove, PlainStep, PlainWriteLock, PlainWriteUnlock, PlainReadLock,
       PlainReadUnlock, EnterWriter, LeaveWriter, EnterCs, LeaveCs, Goto
<1>9. CASE QtStep(t)
  <2>1. ~OwnsCs(t) /\ ~OwnsCs(t)'
    BY <1>1, <1>9, CsPlacesOfClass DEF QtStep, OwnsCs, Leads, OrderOk, FirstOk, FirstClasses
  <2>2. UNCHANGED m_cs
    BY <1>9 DEF QtStep, QtWriteLock, QtWriteUnlock, QtReadLock, QtReadUnlock, CollectPermit,
       Collect, EnterQueue, LeaveQueue, TakePermit, GivePermits, flags, locks
  <2> QED
    BY <2>1, <2>2 DEF CsMove
<1> QED
  BY <1>3, <1>4, <1>5, <1>6, <1>7, <1>8, <1>9, StepCases DEF FairStep

-----------------------------------------------------------------------------
(* Who owns the two locks, together.                                       *)

PlacesInv == \A t \in Threads : pc[t] \in PlacesOf(TMutex)

OwnerInv == Typed /\ PlacesInv /\ QueueInv /\ MarksInv /\ OrderInv /\ CsInv

LEMMA StepPlacesInv ==
    ASSUME Typed, PlacesInv, NEW t \in Threads, Step(t)
    PROVE  PlacesInv'
<1>1. Typed' /\ OnlyMoves(t) /\ UNCHANGED TMutex /\ TMutex \in Classes
  BY StepKeepsTyped DEF OnlyMoves, FlagsOfOthers, Typed, FlagsTyped
<1>2. pc'[t] \in PlacesOf(TMutex)
  BY <1>1, StepCases, StartMoves, FairMoves, FairCsMoves, QtMoves, SingleMoves, PlainMoves,
     CohortMoves, TicketedMoves
     DEF Typed, Starts, FairStep, FairCsStep, QtStep, CohortStep, TicketedStep
<1>3. ASSUME NEW u \in Threads \ {t}
      PROVE  pc'[u] \in PlacesOf(TMutex)
  <2>1. TMutex \in SingleClasses => "rl_raise" \in PlacesOf(TMutex)
    BY SinglePlaces DEF PlacesOf
  <2> QED
    BY <1>1, <2>1 DEF OnlyMoves, Roused, PlacesInv
<1>4. PlacesOf(TMutex)' = PlacesOf(TMutex)
  BY <1>1 DEF PlacesOf, OwnPlaces
<1> QED
  BY <1>2, <1>3, <1>4 DEF PlacesInv

LEMMA InitOwner == Init => OwnerInv
<1> SUFFICES ASSUME Init
             PROVE  OwnerInv
  OBVIOUS
<1>1. Typed
  BY InitTyped
<1>2. CASE NewTest
  <2>1. /\ \A t \in Threads : pc[t] = "loop" /\ readerOrder[t] = 0 /\ cohortCount[t] = 0
        /\ \A t \in Threads : ~isFirstReader[t] /\ ~isLocked[t]
        /\ m_readerCount = 0 /\ m_csQueue = None /\ m_cs = None
    BY <1>2 DEF Init, NewTest, QueueInit, CohortInit
  <2>2. PlacesInv /\ QueueInv
    BY <2>1, NoneAssumption DEF PlacesInv, PlacesOf, QueueInv, QueuePlaces
  <2>3. MarksInv /\ OrderInv
    BY <2>1 DEF MarksInv, FirstOk, LockedOk, OrderInv, OrderOk, GatherInv, GatherPlaces
  <2>4. \A c : "loop" \notin CsPlaces(c)
    BY DEF CsPlaces
  <2>5. CsInv
    BY <2>1, <2>4, NoneAssumption DEF CsInv, OwnsCs, Leads
  <2> QED
    BY <1>1, <2>2, <2>3, <2>5 DEF OwnerInv
<1>3. CASE CrowdedTest
  <2> PICK leader \in crew \cap Readers, member \in crew \cap Readers :
        /\ leader # member
        /\ m_cs = leader
        /\ pc = [t \in Threads |-> CASE t = leader -> "rl_reraise"
                                     [] t = member -> "rl_permit"
                                     [] t \in (crew \cap Readers) \ {leader, member} -> "rl_join"
                                     [] t \in crew \cap Writers -> "wl_enter"
                                     [] OTHER -> "loop"]
        /\ readerOrder = [t \in Threads |-> CASE t = leader -> 1 [] t = member -> 2 [] OTHER -> 0]
    BY <1>3, Zenon DEF CrowdedTest
  <2>1. /\ \A t \in Threads : cohortCount[t] = 0 /\ ~isFirstReader[t] /\ ~isLocked[t]
        /\ m_readerCount = 0 /\ m_csQueue = None /\ TMutex = "Cohort"
    BY <1>3 DEF Init, CrowdedTest, QueueInit, CohortInit
  <2>2. \A t \in Threads : /\ t = leader => pc[t] = "rl_reraise" /\ readerOrder[t] = 1
                           /\ t = member => pc[t] = "rl_permit" /\ readerOrder[t] = 2
                           /\ t \notin {leader, member} =>
                                pc[t] \in {"rl_join", "wl_enter", "loop"} /\ readerOrder[t] = 0
    <3> SUFFICES ASSUME NEW t \in Threads
                 PROVE  /\ t = leader => pc[t] = "rl_reraise" /\ readerOrder[t] = 1
                        /\ t = member => pc[t] = "rl_permit" /\ readerOrder[t] = 2
                        /\ t \notin {leader, member} =>
                              pc[t] \in {"rl_join", "wl_enter", "loop"} /\ readerOrder[t] = 0
      OBVIOUS
    <3>1. pc[t] = CASE t = leader -> "rl_reraise"
                    [] t = member -> "rl_permit"
                    [] t \in (crew \cap Readers) \ {leader, member} -> "rl_join"
                    [] t \in crew \cap Writers -> "wl_enter"
                    [] OTHER -> "loop"
      OBVIOUS
    <3>2. readerOrder[t] = CASE t = leader -> 1 [] t = member -> 2 [] OTHER -> 0
      OBVIOUS
    <3>3. t \in crew \cap Readers => t \notin crew \cap Writers
      BY KindsAssumption
    <3> QED
      BY <3>1, <3>2, <3>3
  <2>3. PlacesInv
    BY <2>1, <2>2, CohortPlaces DEF PlacesInv, PlacesOf
  <2>4. QueueInv
    BY <2>1, QueuePlacesOfClass, NoneAssumption DEF QueueInv
  <2>5. MarksInv
    BY <2>1 DEF MarksInv, FirstOk, LockedOk
  <2>6. OrderInv
    BY <2>1, <2>2 DEF OrderInv, OrderOk, GatherInv, GatherPlaces
  <2>7. CsInv
    BY <2>1, <2>2, CsPlacesOfClass DEF CsInv, OwnsCs, Leads
  <2> QED
    BY <1>1, <2>3, <2>4, <2>5, <2>6, <2>7 DEF OwnerInv
<1> QED
  BY <1>2, <1>3 DEF Init

LEMMA NextOwner ==
    ASSUME OwnerInv, [Next]_allVars
    PROVE  OwnerInv'
<1>1. CASE MainStep \/ Timeout \/ UNCHANGED allVars
  <2>1. UNCHANGED <<TMutex, pc, locks, queue, cohort>>
    BY <1>1 DEF MainStep, Timeout, OpenGate, Join, SetDone, Stop, allVars, vars
  <2>2. QueueInv' /\ PlacesInv'
    BY <2>1 DEF OwnerInv, QueueInv, QueuePlaces, PlacesInv, PlacesOf, OwnPlaces, queue
  <2>3. MarksInv' /\ OrderInv'
    BY <2>1 DEF OwnerInv, MarksInv, FirstOk, LockedOk, OrderInv, OrderOk, GatherInv, queue, first,
       cohort, locks
  <2>4. CsInv'
    BY <2>1 DEF OwnerInv, CsInv, OwnsCs, Leads, CsPlaces, queue, first, cohort, locks
  <2> QED
    BY <1>1, <2>2, <2>3, <2>4, OthersKeepTyped DEF OwnerInv
<1>2. ASSUME NEW t \in Threads, Step(t)
      PROVE  OwnerInv'
  BY <1>2, StepKeepsTyped, StepPlacesInv, StepQueueInv, StepMarks, StepOrder, StepCsInv DEF OwnerInv
<1> QED
  BY <1>1, <1>2 DEF Next

LEMMA OwnerInvariant == Spec => []OwnerInv
  BY InitOwner, NextOwner, PTL DEF Spec

\* A thread leaves a critical section only when it is the one that entered it
\* (the last reader out waits for nobody and leaves m_csWriter to the first).
THEOREM OwnersLeave == Spec => []OwnerLeavesCs
<1>1. OwnerInv => OwnerLeavesCs
  <2> SUFFICES ASSUME OwnerInv, TMutex \notin {"Fair", "Qt"}, NEW t \in Threads
               PROVE  /\ pc[t] \in {"tls_leave", "ru_release", "wu_leave"} => m_cs = t
                      /\ TMutex = "FairCs" /\ pc[t] = "writing" => m_cs = t
                      /\ TMutex \in PlainClasses /\ pc[t] \in {"reading", "writing"} => m_cs = t
                      /\ pc[t] \in {"tls_unqueue", "rl_unqueue", "wl_unqueue"} => m_csQueue = t
    BY DEF OwnerLeavesCs
  <2>1. TMutex \in Classes /\ pc[t] \in PlacesOf(TMutex)
    BY DEF OwnerInv, PlacesInv, Typed, FlagsTyped
  <2>2. m_cs = t <=> OwnsCs(t)
    BY DEF OwnerInv, CsInv
  <2>3. m_csQueue = t <=> pc[t] \in QueuePlaces(TMutex)
    BY DEF OwnerInv, QueueInv
  <2>4. FirstOk(t)
    BY DEF OwnerInv, MarksInv
  <2>5. CASE TMutex = "FairCs"
    BY <2>1, <2>2, <2>3, <2>4, <2>5, FairCsPlaces, CsPlacesOfClass, QueuePlacesOfClass
       DEF PlacesOf, OwnsCs, FirstOk, FirstClasses, PlainClasses
  <2>6. CASE TMutex = "Ticketed"
    BY <2>1, <2>2, <2>3, <2>4, <2>6, TicketedPlaces, CsPlacesOfClass, QueuePlacesOfClass
       DEF PlacesOf, OwnsCs, FirstOk, FirstClasses, PlainClasses
  <2>7. CASE TMutex = "Cohort"
    BY <2>1, <2>2, <2>7, CohortPlaces, CsPlacesOfClass DEF PlacesOf, OwnsCs, PlainClasses
  <2>8. CASE TMutex \in SingleClasses
    BY <2>1, <2>2, <2>8, SinglePlaces, CsPlacesOfClass DEF PlacesOf, OwnsCs, SingleClasses, PlainClasses
  <2>9. CASE TMutex \in PlainClasses
    BY <2>1, <2>2, <2>9, PlainPlaces, CsPlacesOfClass DEF PlacesOf, OwnsCs, PlainClasses
  <2> QED
    BY <2>1, <2>5, <2>6, <2>7, <2>8, <2>9, ClassesAssumption
<1> QED
  BY <1>1, OwnerInvariant, PTL

-----------------------------------------------------------------------------
(* The counters of the harness.                                            *)

HarnessInv ==
    /\ \A t \in Threads : m_countCs = t <=> pc[t] = "counting"
    /\ lockCount["reader"] = {t \in Readers : pc[t] = "exited"}
    /\ lockCount["writer"] = {t \in Writers : pc[t] = "exited"}
    /\ \A t \in Threads : pc[t] = "counting" => loaded[t] = lockCount[Kind(t)]
    /\ main = "report" => \A t \in crew : pc[t] = "exited"
    /\ \A t \in Threads : pc[t] # "loop" => t \in crew

LEMMA StepHarness ==
    ASSUME Typed, HarnessInv, NEW t \in Threads, Step(t)
    PROVE  HarnessInv'
<1>1. OnlyMoves(t) /\ t \in crew
  BY StepKeepsTyped DEF Step
<1>2. \A r \in Threads : r # None /\ (Kind(r) = "reader" <=> r \in Readers)
                       /\ (Kind(r) = "writer" <=> r \in Writers)
  BY NoneAssumption, KindsAssumption DEF Kind, Threads
<1>3. CASE AddCount(t)
  <2>1. pc \in [Threads -> Places] /\ Readers \subseteq Threads /\ Writers \subseteq Threads
        /\ lockCount \in [{"reader", "writer"} -> SUBSET Threads] /\ loaded \in [Threads -> SUBSET Threads]
    BY DEF Typed, PcTyped, HarnessTyped, Threads
  <2> USE <1>1, <1>2, <2>1 DEF Pass, Goto
  <2>2. CASE /\ m_done /\ m_countCs = None /\ Pass(t, "loop", "counting")
             /\ m_countCs' = t /\ LoadCount(t)
    <3>1. UNCHANGED <<lockCount, crew, main>> /\ loaded' = [loaded EXCEPT ![t] = lockCount[Kind(t)]]
      BY <2>2 DEF LoadCount
    <3>2. pc[t] = "loop" /\ pc' = [pc EXCEPT ![t] = "counting"]
      BY <2>2
    <3> QED
      BY <2>2, <3>1, <3>2 DEF HarnessInv
  <2>3. CASE Pass(t, "counting", "exited") /\ StoreCount(t) /\ m_countCs' = None
    <3>1. /\ UNCHANGED <<crew, main>> /\ loaded' = [loaded EXCEPT ![t] = {}]
          /\ lockCount' = [lockCount EXCEPT ![Kind(t)] = loaded[t] \cup {t}]
      BY <2>3 DEF StoreCount
    <3>2. pc[t] = "counting" /\ pc' = [pc EXCEPT ![t] = "exited"]
      BY <2>3
    <3>3. loaded[t] = lockCount[Kind(t)] /\ \A u \in Threads : pc[u] = "counting" => u = t
      BY <3>2 DEF HarnessInv
    <3>4. lockCount'["reader"] = {r \in Readers : pc'[r] = "exited"}
      BY <3>1, <3>2, <3>3 DEF HarnessInv, Kind
    <3>5. lockCount'["writer"] = {r \in Writers : pc'[r] = "exited"}
      BY <3>1, <3>2, <3>3 DEF HarnessInv, Kind
    <3> QED
      BY <2>3, <3>1, <3>2, <3>3, <3>4, <3>5 DEF HarnessInv
  <2> QED
    BY <1>3, <2>2, <2>3 DEF AddCount
<1>4. CASE ~AddCount(t)
  <2>1. Works(t) /\ UNCHANGED harness
    BY <1>4, StepCases, StartMoves, FairMoves, FairCsMoves, QtMoves, SingleMoves, PlainMoves,
       CohortMoves, TicketedMoves DEF Typed, Starts
  <2>2. \A u \in Threads \ {t} : pc'[u] = pc[u] \/ (pc[u] = "rl_asleep" /\ pc'[u] = "rl_raise")
    BY <1>1 DEF OnlyMoves, Roused
  <2>3. \A u \in Threads : /\ pc'[u] = "exited" <=> pc[u] = "exited"
                           /\ pc'[u] = "counting" <=> pc[u] = "counting"
                           /\ pc'[u] # "loop" => pc[u] # "loop" \/ u \in crew
    BY <1>1, <2>1, <2>2 DEF Works
  <2>4. Readers \subseteq Threads /\ Writers \subseteq Threads /\ crew \subseteq Threads
    BY DEF Threads, Typed, HarnessTyped
  <2> QED
    BY <2>1, <2>3, <2>4 DEF HarnessInv, harness, counters, Kind
<1> QED
  BY <1>3, <1>4

LEMMA HarnessInvariant == Spec => []HarnessInv
<1>1. Init => HarnessInv
  <2> SUFFICES ASSUME Init
               PROVE  HarnessInv
    OBVIOUS
  <2>1. /\ m_countCs = None /\ lockCount["reader"] = {} /\ lockCount["writer"] = {}
        /\ main # "report"
    BY DEF Init, NewTest, CrowdedTest, CountersInit
  <2>2. \A t \in Threads : /\ pc[t] \notin {"counting", "exited"}
                           /\ pc[t] # "loop" => t \in crew
    BY DEF Init, NewTest, CrowdedTest
  <2> QED
    BY <2>1, <2>2, NoneAssumption DEF HarnessInv, Threads
<1>2. Typed /\ HarnessInv /\ [Next]_allVars => HarnessInv'
  <2> SUFFICES ASSUME Typed, HarnessInv, [Next]_allVars
               PROVE  HarnessInv'
    OBVIOUS
  <2>1. CASE MainStep \/ Timeout \/ UNCHANGED allVars
    <3>1. UNCHANGED <<pc, crew, counters>>
      BY <2>1 DEF MainStep, Timeout, OpenGate, Join, SetDone, Stop, allVars, vars, harness
    <3>2. main' = "report" => \A t \in crew : pc[t] = "exited"
      BY <2>1 DEF MainStep, Timeout, OpenGate, Join, SetDone, allVars, harness, HarnessInv
    <3> QED
      BY <3>1, <3>2 DEF HarnessInv, counters, Kind
  <2> QED
    BY <2>1, StepHarness DEF Next
<1>3. Spec => []Typed
  BY OwnerInvariant, PTL DEF OwnerInv
<1> QED
  BY <1>1, <1>2, <1>3, PTL DEF Spec

\* The report contains the count of every thread, and nothing else.
THEOREM ReportsAreExact == Spec => []ReportIsExact
<1>1. OwnerInv /\ HarnessInv => ReportIsExact
  BY DEF OwnerInv, HarnessInv, ReportIsExact, Typed, HarnessTyped, Threads
<1> QED
  BY <1>1, OwnerInvariant, HarnessInvariant, PTL
=============================================================================
