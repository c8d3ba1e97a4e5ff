------------------------------ MODULE Ticketed ------------------------------
(***************************************************************************)
(* TicketedReadWriteMutex: FairCs with a flag per reader for the case that *)
(* no writer has come since the last queued reader.  A writer draws a      *)
(* ticket two higher than the last, the first of a group of queued readers *)
(* one that is one higher; a reader whose ticket is not far behind skips   *)
(* the queue.  The code compares tickets by their difference only, so the  *)
(* model keeps differences: of m_ticket to m_lastReaderTicket, and to the  *)
(* local copies of each reader.  Both wrap around with m_ticket.           *)
(***************************************************************************)
EXTENDS QueueLocks

CONSTANTS
    HalfSpan,  \* half the number of tickets, 2^31 in the code
    MaxLag     \* bound: writers that start, and tickets that are drawn, do not
               \* take lag, or the age of a copy, beyond it

ASSUME TicketAssumption ==
    /\ HalfSpan \in Nat /\ MaxLag \in Nat
    /\ MaxLag + 1 < HalfSpan

VARIABLES
    lag,    \* m_ticket - m_lastReaderTicket
    age     \* per thread: m_ticket - lastReaderTicket, or - newTicket

tickets == <<lag, age>>

TicketInit ==
    /\ lag = 0
    /\ age = [t \in Threads |-> 0]

Span == 2 * HalfSpan
Wrap(n) == n % Span
Signed(n) == IF n < HalfSpan THEN n ELSE n - Span

\* Threads that hold a copy of a ticket they will use.
HoldsTicket(t) == pc[t] \in {"rl_check", "rl_store"}

-----------------------------------------------------------------------------
\* lastReaderTicket = m_lastReaderTicket
LoadLastTicket(t) ==
    /\ age' = [age EXCEPT ![t] = lag]
    /\ Goto(t, "rl_last", "rl_check")
    /\ UNCHANGED <<flags, queue, lag>>

\* (A plausible bug: one ticket too far behind is let through.)
CheckTicketOffByOne(t) ==
    /\ Goto(t, "rl_check", IF Signed(age[t]) <= 2 THEN "reading" ELSE "rl_yield")
    /\ age' = [age EXCEPT ![t] = 0]
    /\ UNCHANGED <<flags, queue, lag>>

\* if (m_ticket - lastReaderTicket <= 1)
CheckTicket(t) ==
    /\ Goto(t, "rl_check", IF Signed(age[t]) <= 1 THEN "reading" ELSE "rl_yield")
    /\ age' = [age EXCEPT ![t] = 0]
    /\ UNCHANGED <<flags, queue, lag>>

\* No reader's copy may be more than MaxLag tickets old after the draw.
MayDraw(delta) == \A u \in Threads : pc[u] = "rl_check" => age[u] + delta <= MaxLag

\* m_ticket += delta: thread t holds the new ticket if it goes on to rl_store.
DrawTicket(t, delta, from, to) ==
    /\ Goto(t, from, to)
    /\ MayDraw(delta)
    /\ lag' = Wrap(lag + delta)
    /\ age' = [u \in Threads |-> IF HoldsTicket(u) THEN Wrap(age[u] + delta) ELSE 0]
    /\ UNCHANGED <<flags, queue>>

\* m_lastReaderTicket = newTicket
StoreTicket(t) ==
    /\ Goto(t, "rl_store", "rl_reraise")
    /\ lag' = age[t]
    /\ age' = [age EXCEPT ![t] = 0]
    /\ UNCHANGED <<flags, queue>>

\* isLockedReader = true, which only this thread reads.
JoinQueued(t) ==
    /\ CountReader(t, "rl_writer", "rl_reraise")
    /\ isLocked' = [isLocked EXCEPT ![t] = TRUE]
    /\ UNCHANGED <<TMutex, m_done, memory, events, m_cs, m_csReaders, registry, iter>>

TicketedReadLock(t) ==
    \/ /\ \/ InitTlsDataQueued(t, "rl_raise")
          \/ /\ \/ StoreFlag(t, TRUE, "rl_raise", "rl_last")
                \/ StoreFlag(t, FALSE, "rl_yield", "rl_signal")
                \/ SetReaderDone(t, "rl_signal", "rl_queue")
                \/ StoreFlag(t, TRUE, "rl_reraise", "rl_unqueue")
             /\ UNCHANGED queue
          \/ EnterQueue(t, "rl_queue", "rl_count")
          \/ JoinQueued(t)
          \/ EnterWriterFirst(t, "rl_writer", "rl_ticket")
          \/ LeaveQueue(t, "rl_unqueue", "reading")
       /\ UNCHANGED tickets
    \/ LoadLastTicket(t)
    \/ CheckTicket(t)
    \/ DrawTicket(t, 1, "rl_ticket", "rl_store")
    \/ StoreTicket(t)

-----------------------------------------------------------------------------
LeaveQueued(t) ==
    /\ isLocked' = [isLocked EXCEPT ![t] = FALSE]
    /\ IF isFirstReader[t] THEN UncountReader(t, "ru_count", "ru_release", "ru_wait")
                           ELSE UncountReader(t, "ru_count", "ru_last", "ru_check")
    /\ UNCHANGED <<TMutex, m_done, memory, events, m_cs, m_csReaders, registry, iter>>

\* (A plausible bug: a reader that lowers its flag does not tell the writer.)
TicketedReadUnlockSilent(t) ==
    /\ \/ /\ StoreFlag(t, FALSE, "reading", IF isLocked[t] THEN "ru_count" ELSE "loop")
          /\ UNCHANGED queue
       \/ LeaveQueued(t)
       \/ LeaveWriterFirst(t, "ru_release", "loop")
       \/ SignalFirstReader(t, "ru_last", "loop")
       \/ WaitForLastReader(t, "ru_wait", "ru_release")
    /\ UNCHANGED tickets

TicketedReadUnlock(t) ==
    /\ \/ /\ \/ StoreFlag(t, FALSE, "reading", IF isLocked[t] THEN "ru_count" ELSE "ru_check")
             \/ CheckRequest(t, "ru_check", "ru_signal", "loop")
             \/ SetReaderDone(t, "ru_signal", "loop")
          /\ UNCHANGED queue
       \/ LeaveQueued(t)
       \/ LeaveWriterFirst(t, "ru_release", "ru_check")
       \/ SignalFirstReader(t, "ru_last", "ru_check")
       \/ WaitForLastReader(t, "ru_wait", "ru_release")
    /\ UNCHANGED tickets

\* m_writeRequested = true, before the queue is left.
RequestQueued(t) ==
    /\ Store(t, "m_writeRequested", TRUE)
    /\ Goto(t, "wl_request", "wl_unqueue")
    /\ UNCHANGED <<TMutex, m_done, events, locks, registry, iter>>

TicketedWriteLock(t) ==
    \/ /\ \/ EnterQueue(t, "wl_queue", "wl_ticket")
          \/ EnterWriter(t, "wl_writer", "wl_request")
          \/ LeaveQueue(t, "wl_unqueue", "wl_scan")
          \/ /\ RequestQueued(t) \/ ScanReaders(t, "wl_wait") \/ WaitReaderDone(t)
             /\ UNCHANGED queue
       /\ UNCHANGED tickets
    \/ DrawTicket(t, 2, "wl_ticket", "wl_writer")

TicketedWriteUnlock(t) ==
    /\ ClearRequest(t, "wu_leave") \/ LeaveCs(t, "wu_leave", "loop")
    /\ UNCHANGED <<queue, tickets>>

\* A writer may start if MaxLag allows for it and for those that will draw.
MayWrite ==
    LET drawing == {w \in Threads : pc[w] \in {"wl_queue", "wl_ticket"}}
    IN  lag + 2 * (Cardinality(drawing) + 1) <= MaxLag

TicketedStep(t) ==
    /\ TMutex = "Ticketed"
    /\ \/ TicketedReadLock(t)  \/ TicketedReadUnlock(t)
       \/ TicketedWriteLock(t) \/ TicketedWriteUnlock(t)
=============================================================================
