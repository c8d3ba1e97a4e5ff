---------------------------- MODULE QueueMutexes ----------------------------
(***************************************************************************)
(* The queueing mutexes, the single-reader mutexes and the plain locks     *)
(* under the harness of main.cpp: TMutex is the class that Test<TMutex>    *)
(* was instantiated with.                                                  *)
(* Memory is sequentially consistent here (BufferSize = 0).                *)
(***************************************************************************)
EXTENDS Fair, FairCs, Qt, Cohort, Ticketed, SingleReader, PlainLocks, Functions

CONSTANTS
    CrowdedTrials,  \* crews of CrowdedTest
    Watched         \* the threads that NobodyStarves is about

ASSUME MemoryAssumption == BufferSize = 0
ASSUME ClassesAssumption ==
    Classes \subseteq {"Fair", "FairCs", "Qt", "Cohort", "Ticketed"} \cup SingleClasses \cup PlainClasses
ASSUME CrowdedAssumption == CrowdedTrials \subseteq SUBSET Threads

allVars == <<vars, harness, queue, cohort, tickets>>

\* The constructors of Test<TMutex> and of the mutex.
NewTest ==
    /\ crew \in Trials[TMutex]
    /\ main = "create"
    /\ m_hStartEvent = FALSE
    /\ m_done = FALSE
    /\ pc = [t \in Threads |-> "loop"]
    /\ readerOrder = [t \in Threads |-> 0]
    /\ m_cohortCount = 0
    /\ m_sema = IF TMutex = "Qt" THEN TMaxConcurrentReaders ELSE 0
    /\ m_writeRequested = FALSE
    /\ readerDoneEvent = [t \in Threads |-> TMutex = "UltraSyncSingle"]
    /\ tlsData = [t \in Threads |-> FALSE]
    /\ m_threadStates = <<>>
    /\ m_cs = None

(***************************************************************************)
(* A state that a test comes to, from which runs may start as well because *)
(* a new test with as many threads has too many states: the test has timed *)
(* out, a writer waits, and every reader has met the previous write.  Two  *)
(* readers form a cohort, whose leader has just given the other a permit;  *)
(* the rest come too late for it.                                          *)
(***************************************************************************)
CrowdedTest ==
    /\ TMutex = "Cohort"
    /\ crew \in CrowdedTrials
    /\ main = "join"
    /\ m_hStartEvent = TRUE
    /\ m_done = TRUE
    /\ \E leader, member \in crew \cap Readers :
        /\ leader # member
        /\ m_cs = leader
        /\ pc = [t \in Threads |-> CASE t = leader -> "rl_reraise"
                                     [] t = member -> "rl_permit"
                                     [] t \in (crew \cap Readers) \ {leader, member} -> "rl_join"
                                     [] t \in crew \cap Writers -> "wl_enter"
                                     [] OTHER -> "loop"]
        /\ readerOrder = [t \in Threads |-> CASE t = leader -> 1 [] t = member -> 2 [] OTHER -> 0]
    /\ m_cohortCount = 2
    /\ m_sema = 1
    /\ m_writeRequested = FALSE
    /\ readerDoneEvent = [t \in Threads |-> t \in crew \cap Readers]
    /\ tlsData = [t \in Threads |-> t \in crew \cap Readers]
    /\ m_threadStates \in Bijection(1..Cardinality(crew \cap Readers), crew \cap Readers)

Init ==
    /\ TMutex \in Classes
    /\ NewTest \/ CrowdedTest
    /\ isReading = [t \in Threads |-> FALSE]
    /\ storeBuffer = [t \in Threads |-> <<>>]
    /\ m_writerDoneEvent = TRUE
    /\ iter = [t \in Threads |-> 1]
    /\ isLocked = [t \in Threads |-> FALSE]
    /\ m_csReaders = {}
    /\ CountersInit
    /\ QueueInit
    /\ CohortInit
    /\ TicketInit

\* The places where ReadLock starts, with and without TLS data, and WriteLock.
ReadLockPlace ==
    CASE TMutex \in {"Fair", "FairCs", "Qt"} -> "rl_queue"
      [] TMutex \in PlainClasses -> "rl_enter"
      [] OTHER -> "rl_raise"
TlsPlace ==
    CASE TMutex = "Cohort" -> "tls_enter"
      [] TMutex \in {"FairCs", "Ticketed"} -> "tls_queue"
      [] OTHER -> ReadLockPlace
WriteLockPlace ==
    IF TMutex \in {"Fair", "FairCs", "Qt", "Ticketed"} THEN "wl_queue" ELSE "wl_enter"

BeginRead(t) ==
    /\ t \in Readers
    /\ Continues
    /\ Goto(t, "loop", IF tlsData[t] THEN ReadLockPlace ELSE TlsPlace)
    /\ tlsData' = [tlsData EXCEPT ![t] = TRUE]
    /\ UNCHANGED <<TMutex, m_done, memory, events, locks, m_threadStates, iter>>

BeginWrite(t) ==
    /\ t \in Writers
    /\ Continues
    /\ TMutex = "Ticketed" => MayWrite
    /\ Goto(t, "loop", WriteLockPlace)
    /\ UNCHANGED flags

MainStep == (OpenGate \/ Join) /\ UNCHANGED <<queue, cohort, tickets>>
Timeout == SetDone /\ UNCHANGED <<queue, cohort, tickets>>

\* ReaderThread and WriterThread: what thread t executes next.
Step(t) ==
    /\ t \in crew
    /\ \/ AddCount(t) /\ UNCHANGED <<queue, cohort, tickets>>
       \/ /\ \/ (BeginRead(t) \/ BeginWrite(t)) /\ UNCHANGED queue
             \/ FairStep(t) \/ FairCsStep(t) \/ QtStep(t) \/ SingleStep(t) \/ PlainStep(t)
          /\ UNCHANGED <<harness, cohort, tickets>>
       \/ CohortStep(t) /\ UNCHANGED <<harness, tickets>>
       \/ TicketedStep(t) /\ UNCHANGED <<harness, cohort>>

Next == MainStep \/ Timeout \/ \E t \in Threads : Step(t)

Spec == Init /\ [][Next]_allVars

(***************************************************************************)
(* Every thread keeps running, and obtains a semaphore, a critical section *)
(* or an event that comes free again and again (readme.md, "Starvation:    *)
(* never", of CriticalSection and of SemaMutex<Semaphore>).  How long the  *)
(* main thread sleeps is left open.                                        *)
(***************************************************************************)
FairSpec == Spec /\ WF_allVars(MainStep) /\ \A t \in Threads : SF_allVars(Step(t))

-----------------------------------------------------------------------------
ReadPlaces ==
    {"tls_queue", "tls_enter", "tls_push", "tls_leave", "tls_unqueue",
     "rl_queue", "rl_count", "rl_writer", "rl_unqueue",
     "rl_raise", "rl_check", "rl_yield", "rl_signal", "rl_wait", "rl_asleep", "rl_reraise",
     "rl_join", "rl_permit", "rl_enter", "rl_close", "rl_size", "rl_open",
     "rl_last", "rl_ticket", "rl_store"}
WritePlaces ==
    {"wl_queue", "wl_ticket", "wl_writer", "wl_unqueue", "wl_assert",
     "wl_enter", "wl_reset", "wl_request", "wl_scan", "wl_wait", "wl_sleep"}
UnlockPlaces ==
    {"ru_count", "ru_release", "ru_last", "ru_wait", "ru_check", "ru_signal",
     "wu_signal", "wu_leave"}
IdlePlaces == {"loop", "counting", "exited"}
Places == {"reading", "writing"} \cup ReadPlaces \cup WritePlaces \cup UnlockPlaces \cup IdlePlaces

TypeOK ==
    /\ TMutex \in Classes
    /\ pc \in [Threads -> Places]
    /\ {m_done, m_writeRequested, m_writerDoneEvent, m_hStartEvent,
        m_lastLockedReaderEvent} \subseteq BOOLEAN
    /\ {isReading, readerDoneEvent, tlsData, isLocked, isFirstReader}
        \subseteq [Threads -> BOOLEAN]
    /\ storeBuffer = [t \in Threads |-> <<>>]
    /\ m_threadStates \in Seq(Threads)
    /\ iter \in [Threads -> Nat \ {0}]
    /\ {m_cs, m_csQueue, m_countCs} \subseteq Threads \cup {None}
    /\ m_csReaders = {}
    /\ crew \subseteq Threads
    /\ main \in {"create", "sleep", "join", "report"}
    /\ lockCount \in [{"reader", "writer"} -> SUBSET Threads]
    /\ loaded \in [Threads -> SUBSET Threads]
    /\ {m_readerCount, m_cohortCount, m_sema} \subseteq Nat
    /\ TMutex = "Qt" => m_sema <= TMaxConcurrentReaders
    /\ i \in [Threads -> 0..TMaxConcurrentReaders - 1]
    /\ {readerOrder, cohortCount} \subseteq [Threads -> Nat]
    /\ lag \in 0..Span - 1
    /\ age \in [Threads -> 0..Span - 1]

At(places) == {t \in Threads : pc[t] \in places}

-----------------------------------------------------------------------------
(* Safety.                                                                 *)

\* A thread leaves a critical section only when it is the one that entered it:
\* the last reader out may not leave m_csWriter for the first one (FairCs,
\* Ticketed) or for the leader (Cohort).  Fair and Qt use semaphores instead.
OwnerLeavesCs ==
    TMutex \notin {"Fair", "Qt"} => \A t \in Threads :
        /\ pc[t] \in {"tls_leave", "ru_release", "wu_leave"} => m_cs = t
        /\ TMutex = "FairCs" /\ pc[t] = "writing" => m_cs = t
        /\ TMutex \in PlainClasses /\ pc[t] \in {"reading", "writing"} => m_cs = t
        /\ pc[t] \in {"tls_unqueue", "rl_unqueue", "wl_unqueue"} => m_csQueue = t

\* Readers that came in past a writer keep writers out by the second lock: the
\* first of them holds it in its own name, wherever it is between its Lock and
\* the end of its Unlock, for as long as one of them reads.
ReadersHoldWriterLock ==
    \A r \in At({"reading"}) :
        CASE TMutex = "Qt" -> m_sema + Cardinality(At({"reading"})) <= TMaxConcurrentReaders
          [] TMutex = "Fair" -> m_cs # None
          [] TMutex = "FairCs" \/ isLocked[r] -> m_cs # None /\ isFirstReader[m_cs]
          [] readerOrder[r] # 0 -> m_cs # None /\ pc[m_cs] \in {"rl_reraise", "reading", "ru_count", "ru_wait"}
          [] OTHER -> TRUE

\* Permits of a cohort are neither lost nor handed out twice, whoever takes
\* them: a reader of the next cohort may take the permit of a member of this
\* one, which is then let in with the next.
Closing == At({"rl_size", "rl_open"})
CohortIsWhole ==
    TMutex = "Cohort" =>
        LET gathered == IF m_readerCount = 0 THEN 0 ELSE m_readerCount - 1
            promised == UNION {1..cohortCount[t] - 1 : t \in Closing}
            inside == {t \in Threads : readerOrder[t] # 0 /\
                                       pc[t] \in {"rl_reraise", "reading", "ru_count"}}
        IN  /\ Cardinality(At({"rl_permit"})) = m_sema + Cardinality(promised) + gathered
            /\ At({"rl_size"}) = {} =>
                m_cohortCount = m_sema + Cardinality(promised)
                                + Cardinality(inside \cup At({"rl_open"}))

\* No lost wakeup: when a writer waits for a reader, the reader's event is set
\* already or the reader, whose flag was raised, is on its way to set it.
WriterIsWoken ==
    \A w \in At({"wl_wait"}) : TMutex \in {"Cohort", "Ticketed"} =>
        \/ readerDoneEvent[Visited(w)]
        \/ pc[Visited(w)] \in {"rl_last", "rl_check", "rl_yield", "rl_signal",
                               "reading", "ru_check", "ru_signal"}

\* Service in order of arrival ("in a queue order", readme.md on fairness):
\* while a thread at the head of the queue waits for the lock that the threads
\* before it hold, only those obtain theirs.  Flags alter this in one case:
\* other readers of Ticketed may overtake a reader, never a writer.
HeadOfQueueIsNext ==
    [][(TMutex \in {"Fair", "FairCs", "Ticketed"}) =>
        \A h \in At({"wl_writer", "rl_writer"}), t \in Threads :
            (pc'[t] \in {"reading", "writing"} /\ pc[t] \notin {"reading", "writing"}) =>
                m_cs = t \/ (pc[h] = "rl_writer" /\ pc[t] = "rl_check")]_allVars

\* "_ASSERT(m_readerCount == 0)" (fair_rwmutex.h), which a writer evaluates
\* when it holds the write lock and has let the next thread pass the queue.
AssertHolds == At({"wl_assert"}) # {} => m_readerCount = 0

\* Whenever no thread is in the middle of an operation the mutex is as good as
\* new, whatever has happened: no lock, flag, request, count, permit or signal
\* is left behind.  (An event of a reader may stay set; writers look again.)
RestsAsNew ==
    (\A t \in Threads : pc[t] \in IdlePlaces) =>
        /\ m_cs = None /\ m_csQueue = None
        /\ ~m_writeRequested /\ m_writerDoneEvent
        /\ ~m_lastLockedReaderEvent
        /\ m_readerCount = 0 /\ m_cohortCount = 0
        /\ m_sema = IF TMutex = "Qt" THEN TMaxConcurrentReaders ELSE 0
        /\ \A t \in Threads :
            ~isReading[t] /\ ~isLocked[t] /\ ~isFirstReader[t] /\ readerOrder[t] = 0

\* The report of Execute contains the count of every thread.
ReportIsExact ==
    main = "report" =>
        /\ lockCount["reader"] = crew \cap Readers
        /\ lockCount["writer"] = crew \cap Writers

-----------------------------------------------------------------------------
(* Refinement: the lock each class promises.  A reader gives its lock up   *)
(* when it lowers its flag, takes itself off the count or returns its      *)
(* permit; a writer when it takes its request back or leaves the lock.     *)

StatusOf(place) ==
    CASE place \in ReadPlaces  -> "wantRead"
      [] place \in WritePlaces -> "wantWrite"
      [] place \in {"reading", "writing"} -> place
      [] OTHER -> "idle"

lockStatus == [t \in Threads |-> StatusOf(pc[t])]
Abstract == INSTANCE RWLock WITH status <- lockStatus

\* Each of the nine classes implements the abstract read-write lock.
ImplementsRWLock == (main = "create" => Abstract!Init) /\ [][Abstract!Next]_lockStatus

-----------------------------------------------------------------------------
(* Liveness.                                                               *)

\* "Wait for all threads to complete.  If they don't, we probably have a
\* deadlock." (main.cpp): Execute returns once m_done is set.
AllThreadsJoin == m_done ~> main = "report"

\* Neither readers nor writers starve: who asks obtains the lock.  The one
\* exception is the reader of a single-reader class, which lowers its flag for
\* every writer that comes.  And a reader that leaves gets away, although
\* ReadUnlock makes the first reader of FairCs and Ticketed and the leader of a
\* cohort wait for the others: a writer that asks keeps more from joining.  (In
\* FairCs that takes a writer, or no more than two readers.  Threads differ by
\* their names only, so it is enough to watch a reader and a writer.)
NobodyStarves ==
    /\ \A r \in Watched \cap Readers :
        /\ pc[r] = ReadLockPlace /\ TMutex \notin SingleClasses ~> pc[r] = "reading"
        /\ pc[r] = "reading" ~> pc[r] = "loop"
    /\ \A w \in Watched \cap Writers :
        pc[w] = WriteLockPlace ~> pc[w] = "writing"
=============================================================================
