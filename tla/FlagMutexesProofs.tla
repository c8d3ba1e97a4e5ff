------------------------- MODULE FlagMutexesProofs -------------------------
(***************************************************************************)
(* What is proved of the flag mutexes for any set of threads and any size  *)
(* of the store buffers: type correctness, and the invariants that rest on *)
(* m_cs and the Win32 events alone.  FlagExclusionProofs adds what needs   *)
(* sequential consistency.                                                 *)
(***************************************************************************)
EXTENDS FlagMutexes, TLAPS

-----------------------------------------------------------------------------
(* The four classes make the same few moves.  A proof about Step has one   *)
(* case for each of them.                                                  *)

Enter(t) ==
    \/ EnterCs(t, "tls_enter", "tls_push")
    \/ EnterCs(t, "rl_enter", "rl_incs")
    \/ TMutex \in {"UltraSpin", "UltraFast"} /\ EnterCs(t, "wl_enter", "wl_reset")
    \/ TMutex \in {"UltraLight", "FastSlim"} /\ EnterCs(t, "wl_enter", "wl_request")

Leave(t) ==
    \/ LeaveCs(t, "tls_leave", "rl_raise")
    \/ LeaveCs(t, "rl_leave", "rl_check")
    \/ LeaveCs(t, "wu_leave", "loop")

Signal(t) ==
    \/ \E to \in {"rl_wait", "rl_enter", "rl_share"} : SetReaderDone(t, "rl_signal", to)
    \/ SetReaderDone(t, "ru_signal", "loop")

Raise(t) ==
    \/ StoreFlag(t, TRUE, "rl_raise", "rl_check")
    \/ StoreFlag(t, TRUE, "rl_incs", "rl_leave")

Lower(t) ==
    \/ TMutex = "UltraSpin" /\ StoreFlag(t, FALSE, "rl_yield", "rl_wait")
    \/ TMutex # "UltraSpin" /\ StoreFlag(t, FALSE, "rl_yield", "rl_signal")
    \/ TMutex = "UltraSpin" /\ StoreFlag(t, FALSE, "reading", "loop")
    \/ /\ TMutex \in {"UltraFast", "UltraLight"}
       /\ StoreFlag(t, FALSE, "reading", "ru_check")
    \/ TMutex = "FastSlim" /\ ~isLocked[t] /\ StoreFlag(t, FALSE, "reading", "ru_check")
    \/ TMutex = "FastSlim" /\ isLocked[t]  /\ StoreFlag(t, FALSE, "reading", "ru_unshare")

Check(t) ==
    \/ CheckRequest(t, "rl_check", "rl_yield", "reading")
    \/ CheckRequest(t, "ru_check", "ru_signal", "loop")

Wait(t) == TMutex \in {"UltraSpin", "UltraFast"} /\ WaitWriterDone(t)

Share(t) ==
    TMutex = "FastSlim" /\ (ShareCs(t) \/ RaiseFlagLocked(t) \/ UnshareCs(t))

Scan(t) ==
    \/ FinishScan(t) \/ PassReader(t)
    \/ TMutex = "UltraSpin" /\ FindReader(t, "wl_sleep")
    \/ TMutex # "UltraSpin" /\ FindReader(t, "wl_wait")

Reset(t) == TMutex \in {"UltraSpin", "UltraFast"} /\ ResetWriterDone(t)

Clear(t) ==
    \/ TMutex \in {"UltraSpin", "UltraFast"} /\ ClearRequest(t, "wu_signal")
    \/ TMutex \in {"UltraLight", "FastSlim"} /\ ClearRequest(t, "wu_leave")

Harness(t) == StartRead(t) \/ StartWrite(t) \/ Exit(t) \/ PushTlsData(t)

Move(t) ==
    \/ Harness(t) \/ Enter(t) \/ Leave(t) \/ Signal(t) \/ Raise(t) \/ Lower(t)
    \/ Check(t) \/ Wait(t) \/ Share(t) \/ Scan(t) \/ Sleep(t) \/ WaitReaderDone(t)
    \/ Reset(t) \/ RequestWrite(t) \/ Clear(t) \/ SetWriterDone(t)

\* Every step of every class is one of these moves.
LEMMA StepIsMove == ASSUME NEW t \in Threads, Step(t) PROVE Move(t)
<1> USE DEF Move, Enter, Leave, Signal, Raise, Lower, Check, Wait, Share, Scan, Reset, Clear
<1>1. CASE StartRead(t) \/ StartWrite(t) \/ Exit(t) \/ InitTlsData(t)
  BY <1>1 DEF InitTlsData, Harness
<1>2. CASE UltraSpinStep(t)
  BY <1>2 DEF UltraSpinStep, UltraSpinReadLock, UltraSpinReadUnlock, UltraSpinWriteLock,
     UltraSpinWriteUnlock, ScanReaders
<1>3. CASE UltraFastStep(t)
  BY <1>3 DEF UltraFastStep, UltraFastReadLock, UltraFastReadUnlock, UltraFastWriteLock,
     UltraFastWriteUnlock, ScanReaders
<1>4. CASE UltraLightStep(t)
  BY <1>4 DEF UltraLightStep, UltraLightReadLock, UltraLightReadUnlock, UltraLightWriteLock,
     UltraLightWriteUnlock, ScanReaders
<1>5. CASE FastSlimStep(t)
  BY <1>5 DEF FastSlimStep, FastSlimReadLock, FastSlimReadUnlock, FastSlimWriteLock,
     FastSlimWriteUnlock, ScanReaders
<1> QED
  BY <1>1, <1>2, <1>3, <1>4, <1>5 DEF Step

-----------------------------------------------------------------------------
(* Type correctness.                                                       *)

\* A store keeps memory and the buffers well typed.
LEMMA StoreType ==
    ASSUME TypeOK, NEW t \in Threads, NEW loc \in {"isReading", "m_writeRequested"},
           NEW val \in BOOLEAN, Store(t, loc, val)
    PROVE  /\ m_writeRequested' \in BOOLEAN
           /\ isReading' \in [Threads -> BOOLEAN]
           /\ storeBuffer' \in [Threads -> Seq(StoredValues)]
<1>1. CASE BufferSize = 0 /\ Commit(t, loc, val) /\ UNCHANGED storeBuffer
  <2>1. CASE loc = "isReading"
    BY <1>1, <2>1 DEF TypeOK, Commit
  <2>2. CASE loc # "isReading"
    BY <1>1, <2>2 DEF TypeOK, Commit
  <2> QED
    BY <2>1, <2>2
<1>2. CASE /\ storeBuffer' = [storeBuffer EXCEPT ![t] = Append(@, [loc |-> loc, val |-> val])]
           /\ UNCHANGED <<m_writeRequested, isReading>>
  <2>1. [loc |-> loc, val |-> val] \in StoredValues
    BY DEF StoredValues
  <2>2. storeBuffer[t] \in Seq(StoredValues)
    BY DEF TypeOK
  <2>3. Append(storeBuffer[t], [loc |-> loc, val |-> val]) \in Seq(StoredValues)
    BY <2>1, <2>2
  <2> QED
    BY <1>2, <2>3 DEF TypeOK
<1> QED
  BY <1>1, <1>2 DEF Store

LEMMA DrainType == ASSUME TypeOK, NEW t \in Threads, Drain(t) PROVE TypeOK'
<1>1. storeBuffer[t] \in Seq(StoredValues) /\ storeBuffer[t] # <<>>
  BY DEF TypeOK, Drain
<1>2. Head(storeBuffer[t]) \in StoredValues /\ Tail(storeBuffer[t]) \in Seq(StoredValues)
  BY <1>1
<1>3. Head(storeBuffer[t]).val \in BOOLEAN
  BY <1>2 DEF StoredValues
<1>4. /\ m_writeRequested' \in BOOLEAN
      /\ isReading' \in [Threads -> BOOLEAN]
  <2>1. CASE Head(storeBuffer[t]).loc = "isReading"
    BY <2>1, <1>3 DEF TypeOK, Drain, Commit
  <2>2. CASE Head(storeBuffer[t]).loc # "isReading"
    BY <2>2, <1>3 DEF TypeOK, Drain, Commit
  <2> QED
    BY <2>1, <2>2
<1> QED
  BY <1>2, <1>4 DEF TypeOK, Drain, events, locks, registry

\* The type invariant is preserved by a move of any thread.
LEMMA MoveType == ASSUME TypeOK, NEW t \in Threads, Move(t) PROVE TypeOK'
<1> USE DEF Goto, Places, ReadPlaces, WritePlaces, UnlockPlaces,
            memory, events, locks, registry
<1>1. CASE Harness(t)
  <2>1. CASE StartRead(t) \/ StartWrite(t) \/ Exit(t)
    BY <2>1 DEF TypeOK, StartRead, StartWrite, Exit
  <2>2. CASE PushTlsData(t)
    <3>1. m_threadStates' \in Seq(Threads)
      BY <2>2 DEF TypeOK, PushTlsData
    <3> QED
      BY <2>2, <3>1 DEF TypeOK, PushTlsData
  <2> QED
    BY <1>1, <2>1, <2>2 DEF Harness
<1>2. CASE Enter(t)
  BY <1>2 DEF TypeOK, Enter, EnterCs
<1>3. CASE Leave(t)
  BY <1>3 DEF TypeOK, Leave, LeaveCs
<1>4. CASE Signal(t)
  BY <1>4 DEF TypeOK, Signal, SetReaderDone
<1>5. CASE Raise(t)
  <2>1. /\ m_writeRequested' \in BOOLEAN /\ isReading' \in [Threads -> BOOLEAN]
        /\ storeBuffer' \in [Threads -> Seq(StoredValues)]
    BY <1>5, StoreType DEF Raise, StoreFlag
  <2>2. pc' \in [Threads -> Places]
    BY <1>5 DEF TypeOK, Raise, StoreFlag
  <2>3. UNCHANGED <<TMutex, m_done, events, locks, registry, iter>>
    BY <1>5 DEF Raise, StoreFlag
  <2> QED
    BY <2>1, <2>2, <2>3 DEF TypeOK
<1>6. CASE Lower(t)
  <2>1. /\ m_writeRequested' \in BOOLEAN /\ isReading' \in [Threads -> BOOLEAN]
        /\ storeBuffer' \in [Threads -> Seq(StoredValues)]
    BY <1>6, StoreType DEF Lower, StoreFlag
  <2>2. pc' \in [Threads -> Places]
    <3>1. \E from \in {"rl_yield", "reading"},
             to \in {"rl_wait", "rl_signal", "loop", "ru_check", "ru_unshare"} : Goto(t, from, to)
      BY ONLY <1>6, Zenon DEF Lower, StoreFlag
    <3> QED
      BY <3>1 DEF TypeOK
  <2>3. UNCHANGED <<TMutex, m_done, events, locks, registry, iter>>
    BY <1>6 DEF Lower, StoreFlag
  <2> QED
    BY <2>1, <2>2, <2>3 DEF TypeOK
<1>7. CASE Check(t)
  BY <1>7 DEF TypeOK, Check, CheckRequest
<1>8. CASE Wait(t)
  BY <1>8 DEF TypeOK, Wait, WaitWriterDone
<1>9. CASE Share(t)
  <2>1. CASE ShareCs(t)
    BY <2>1 DEF TypeOK, ShareCs
  <2>2. CASE RaiseFlagLocked(t)
    BY <2>2, StoreType DEF TypeOK, RaiseFlagLocked
  <2>3. CASE UnshareCs(t)
    BY <2>3 DEF TypeOK, UnshareCs
  <2> QED
    BY <1>9, <2>1, <2>2, <2>3 DEF Share
<1>10. CASE Scan(t)
  <2>1. CASE FinishScan(t)
    BY <2>1 DEF TypeOK, FinishScan
  <2>2. CASE PassReader(t)
    <3>1. iter[t] + 1 \in Nat \ {0}
      BY DEF TypeOK
    <3> QED
      BY <2>2, <3>1 DEF TypeOK, PassReader
  <2>3. CASE \E busy \in {"wl_sleep", "wl_wait"} : FindReader(t, busy)
    BY <2>3 DEF TypeOK, FindReader
  <2> QED
    BY <1>10, <2>1, <2>2, <2>3 DEF Scan
<1>11. CASE Sleep(t)
  BY <1>11 DEF TypeOK, Sleep
<1>12. CASE WaitReaderDone(t)
  BY <1>12 DEF TypeOK, WaitReaderDone
<1>13. CASE Reset(t)
  BY <1>13 DEF TypeOK, Reset, ResetWriterDone
<1>14. CASE RequestWrite(t)
  <2>1. iter' \in [Threads -> Nat \ {0}]
    BY <1>14 DEF TypeOK, RequestWrite
  <2> QED
    BY <1>14, <2>1, StoreType DEF TypeOK, RequestWrite
<1>15. CASE Clear(t)
  BY <1>15, StoreType DEF TypeOK, Clear, ClearRequest
<1>16. CASE SetWriterDone(t)
  BY <1>16 DEF TypeOK, SetWriterDone
<1> QED
  BY <1>1, <1>2, <1>3, <1>4, <1>5, <1>6, <1>7, <1>8, <1>9, <1>10, <1>11, <1>12,
     <1>13, <1>14, <1>15, <1>16 DEF Move

\* The type invariant holds of every reachable state, for every value of the
\* constants.
THEOREM TypeCorrect == Spec => []TypeOK
<1>1. Init => TypeOK
  <2> SUFFICES ASSUME Init PROVE TypeOK
    OBVIOUS
  <2>1. storeBuffer \in [Threads -> Seq(StoredValues)] /\ m_threadStates \in Seq(Threads)
    BY DEF Init
  <2>2. pc \in [Threads -> Places] /\ TMutex \in Classes /\ iter \in [Threads -> Nat \ {0}]
    BY DEF Init, Places
  <2>3. /\ m_done \in BOOLEAN /\ m_writeRequested \in BOOLEAN /\ m_writerDoneEvent \in BOOLEAN
        /\ m_cs \in Threads \cup {None} /\ m_csReaders \subseteq Threads
    BY DEF Init
  <2>4. /\ isReading \in [Threads -> BOOLEAN] /\ readerDoneEvent \in [Threads -> BOOLEAN]
        /\ tlsData \in [Threads -> BOOLEAN] /\ isLocked \in [Threads -> BOOLEAN]
    BY DEF Init
  <2> QED
    BY <2>1, <2>2, <2>3, <2>4 DEF TypeOK
<1>2. TypeOK /\ [Next]_vars => TypeOK'
  <2>1. CASE Stop
    BY <2>1 DEF TypeOK, Stop, memory, events, locks, registry
  <2>2. ASSUME TypeOK, NEW t \in Threads, Step(t) PROVE TypeOK'
    BY <2>2, StepIsMove, MoveType
  <2>3. CASE UNCHANGED vars
    BY <2>3 DEF TypeOK, vars, memory, events, locks, registry
  <2> QED
    BY <2>1, <2>2, <2>3, DrainType DEF Next
<1> QED
  BY <1>1, <1>2, PTL DEF Spec

-----------------------------------------------------------------------------
(* A store changes memory and the place of its thread, nothing else.       *)

GotoOnly(t, from, to) ==
    Goto(t, from, to) /\ UNCHANGED <<TMutex, m_done, events, locks, registry, m_threadStates>>

LEMMA StoreFrame ==
    ASSUME NEW t \in Threads
    PROVE  /\ Raise(t) => \/ GotoOnly(t, "rl_raise", "rl_check")
                          \/ GotoOnly(t, "rl_incs", "rl_leave")
           /\ Lower(t) => \/ TMutex = "UltraSpin" /\ GotoOnly(t, "rl_yield", "rl_wait")
                          \/ TMutex # "UltraSpin" /\ GotoOnly(t, "rl_yield", "rl_signal")
                          \/ TMutex = "UltraSpin" /\ GotoOnly(t, "reading", "loop")
                          \/ /\ TMutex \in {"UltraFast", "UltraLight"}
                             /\ GotoOnly(t, "reading", "ru_check")
                          \/ /\ TMutex = "FastSlim" /\ ~isLocked[t]
                             /\ GotoOnly(t, "reading", "ru_check")
                          \/ /\ TMutex = "FastSlim" /\ isLocked[t]
                             /\ GotoOnly(t, "reading", "ru_unshare")
           /\ Clear(t) => \/ /\ TMutex \in {"UltraSpin", "UltraFast"}
                             /\ GotoOnly(t, "writing", "wu_signal")
                          \/ /\ TMutex \in {"UltraLight", "FastSlim"}
                             /\ GotoOnly(t, "writing", "wu_leave")
           /\ RequestWrite(t) => GotoOnly(t, "wl_request", "wl_scan")
<1> USE DEF GotoOnly, StoreFlag, ClearRequest, registry
<1>1. Raise(t) => GotoOnly(t, "rl_raise", "rl_check") \/ GotoOnly(t, "rl_incs", "rl_leave")
  BY Zenon DEF Raise
<1>2. Lower(t) => \/ TMutex = "UltraSpin" /\ GotoOnly(t, "rl_yield", "rl_wait")
                  \/ TMutex # "UltraSpin" /\ GotoOnly(t, "rl_yield", "rl_signal")
                  \/ TMutex = "UltraSpin" /\ GotoOnly(t, "reading", "loop")
                  \/ /\ TMutex \in {"UltraFast", "UltraLight"}
                     /\ GotoOnly(t, "reading", "ru_check")
                  \/ /\ TMutex = "FastSlim" /\ ~isLocked[t]
                     /\ GotoOnly(t, "reading", "ru_check")
                  \/ /\ TMutex = "FastSlim" /\ isLocked[t]
                     /\ GotoOnly(t, "reading", "ru_unshare")
  BY Zenon DEF Lower
<1>3. Clear(t) => \/ /\ TMutex \in {"UltraSpin", "UltraFast"}
                     /\ GotoOnly(t, "writing", "wu_signal")
                  \/ /\ TMutex \in {"UltraLight", "FastSlim"}
                     /\ GotoOnly(t, "writing", "wu_leave")
  BY Zenon DEF Clear
<1>4. RequestWrite(t) => GotoOnly(t, "wl_request", "wl_scan")
  BY Zenon DEF RequestWrite
<1> QED
  BY <1>1, <1>2, <1>3, <1>4

-----------------------------------------------------------------------------
(* The invariants that hold for every memory model.                        *)

\* A step inside, or outside, the critical section leaves its owner alone.
LEMMA OwnerStays ==
    ASSUME TypeOK, OwnerInv, NEW t \in Threads, NEW from, NEW to, Goto(t, from, to),
           UNCHANGED m_cs, from \in CsPlaces <=> to \in CsPlaces
    PROVE  OwnerInv'
  BY DEF TypeOK, OwnerInv, Goto

\* Only the owner of m_cs is between Lock and Unlock.
LEMMA MoveOwner ==
    ASSUME TypeOK, OwnerInv, NEW t \in Threads, Move(t)
    PROVE  OwnerInv'
<1> USE DEF Goto, memory, events, locks, registry, CsPlaces, Scanning
<1>1. CASE Harness(t)
  BY <1>1, NoneAssumption DEF TypeOK, OwnerInv, Harness, StartRead, StartWrite, Exit, PushTlsData
<1>2. CASE Enter(t)
  BY <1>2, NoneAssumption DEF TypeOK, OwnerInv, Enter, EnterCs
<1>3. CASE Leave(t)
  <2>1. CASE LeaveCs(t, "tls_leave", "rl_raise")
    BY <2>1, NoneAssumption DEF TypeOK, OwnerInv, LeaveCs
  <2>2. CASE LeaveCs(t, "rl_leave", "rl_check")
    BY <2>2, NoneAssumption DEF TypeOK, OwnerInv, LeaveCs
  <2>3. CASE LeaveCs(t, "wu_leave", "loop")
    BY <2>3, NoneAssumption DEF TypeOK, OwnerInv, LeaveCs
  <2> HIDE DEF CsPlaces, Goto
  <2> QED
    BY <1>3, <2>1, <2>2, <2>3 DEF Leave
<1>4. CASE Signal(t)
  BY <1>4, NoneAssumption DEF TypeOK, OwnerInv, Signal, SetReaderDone
<1>5. CASE Raise(t)
  <2>1. UNCHANGED m_cs /\ (Goto(t, "rl_raise", "rl_check") \/ Goto(t, "rl_incs", "rl_leave"))
    BY <1>5, StoreFrame DEF GotoOnly
  <2>2. "rl_raise" \notin CsPlaces /\ "rl_check" \notin CsPlaces /\ {"rl_incs", "rl_leave"} \subseteq CsPlaces
    OBVIOUS
  <2> HIDE DEF CsPlaces, Goto
  <2> QED
    BY <2>1, <2>2, OwnerStays
<1>6. CASE Lower(t)
  <2>1. \E from \in {"rl_yield", "reading"},
           to \in {"rl_wait", "rl_signal", "loop", "ru_check", "ru_unshare"} :
              GotoOnly(t, from, to)
    BY <1>6, StoreFrame, Zenon
  <2> QED
    BY <2>1 DEF TypeOK, OwnerInv, GotoOnly
<1>7. CASE Check(t)
  BY <1>7, NoneAssumption DEF TypeOK, OwnerInv, Check, CheckRequest
<1>8. CASE Wait(t)
  BY <1>8, NoneAssumption DEF TypeOK, OwnerInv, Wait, WaitWriterDone
<1>9. CASE Share(t)
  <2>1. UNCHANGED m_cs /\ \/ Goto(t, "rl_share", "rl_shared") \/ Goto(t, "rl_shared", "reading")
                           \/ Goto(t, "ru_unshare", "ru_check")
    BY <1>9 DEF Share, ShareCs, RaiseFlagLocked, UnshareCs
  <2>2. CsPlaces \cap {"rl_share", "rl_shared", "reading", "ru_unshare", "ru_check"} = {}
    OBVIOUS
  <2> HIDE DEF CsPlaces, Goto
  <2> QED
    BY <2>1, <2>2, OwnerStays
<1>10. CASE Scan(t)
  BY <1>10, NoneAssumption DEF TypeOK, OwnerInv, Scan, FinishScan, PassReader, FindReader
<1>11. CASE Sleep(t)
  BY <1>11, NoneAssumption DEF TypeOK, OwnerInv, Sleep
<1>12. CASE WaitReaderDone(t)
  BY <1>12, NoneAssumption DEF TypeOK, OwnerInv, WaitReaderDone
<1>13. CASE Reset(t)
  BY <1>13, NoneAssumption DEF TypeOK, OwnerInv, Reset, ResetWriterDone
<1>14. CASE RequestWrite(t)
  BY <1>14, NoneAssumption, StoreFrame DEF TypeOK, OwnerInv, GotoOnly
<1>15. CASE Clear(t)
  BY <1>15, NoneAssumption, StoreFrame DEF TypeOK, OwnerInv, GotoOnly
<1>16. CASE SetWriterDone(t)
  BY <1>16, NoneAssumption DEF TypeOK, OwnerInv, SetWriterDone
<1> QED
  BY <1>1, <1>2, <1>3, <1>4, <1>5, <1>6, <1>7, <1>8, <1>9, <1>10, <1>11, <1>12, <1>13, <1>14, <1>15, <1>16 DEF Move

\* The readers that share m_cs.
LEMMA MoveShared ==
    ASSUME TypeOK, OwnerInv, SharedInv, NEW t \in Threads, Move(t)
    PROVE  SharedInv'
<1> USE DEF Goto, memory, events, locks, registry
<1>1. CASE Harness(t)
  BY <1>1, NoneAssumption DEF TypeOK, SharedInv, Harness, StartRead, StartWrite, Exit, PushTlsData
<1>2. CASE Enter(t)
  BY <1>2, NoneAssumption DEF TypeOK, SharedInv, Enter, EnterCs
<1>3. CASE Leave(t)
  BY <1>3, NoneAssumption DEF TypeOK, SharedInv, Leave, LeaveCs
<1>4. CASE Signal(t)
  BY <1>4, NoneAssumption DEF TypeOK, SharedInv, Signal, SetReaderDone
<1>5. CASE Raise(t)
  BY <1>5, NoneAssumption, StoreFrame DEF TypeOK, SharedInv, GotoOnly
<1>6. CASE Lower(t)
  BY <1>6, NoneAssumption, StoreFrame DEF TypeOK, SharedInv, GotoOnly
<1>7. CASE Check(t)
  BY <1>7, NoneAssumption DEF TypeOK, SharedInv, Check, CheckRequest
<1>8. CASE Wait(t)
  BY <1>8, NoneAssumption DEF TypeOK, SharedInv, Wait, WaitWriterDone
<1>9. CASE Share(t)
  BY <1>9, NoneAssumption DEF TypeOK, SharedInv, Share, ShareCs, RaiseFlagLocked, UnshareCs
<1>10. CASE Scan(t)
  BY <1>10, NoneAssumption DEF TypeOK, SharedInv, Scan, FinishScan, PassReader, FindReader
<1>11. CASE Sleep(t)
  BY <1>11, NoneAssumption DEF TypeOK, SharedInv, Sleep
<1>12. CASE WaitReaderDone(t)
  BY <1>12, NoneAssumption DEF TypeOK, SharedInv, WaitReaderDone
<1>13. CASE Reset(t)
  BY <1>13, NoneAssumption DEF TypeOK, SharedInv, Reset, ResetWriterDone
<1>14. CASE RequestWrite(t)
  BY <1>14, NoneAssumption, StoreFrame DEF TypeOK, SharedInv, GotoOnly
<1>15. CASE Clear(t)
  BY <1>15, NoneAssumption, StoreFrame DEF TypeOK, SharedInv, GotoOnly
<1>16. CASE SetWriterDone(t)
  BY <1>16, NoneAssumption DEF TypeOK, SharedInv, SetWriterDone
<1> QED
  BY <1>1, <1>2, <1>3, <1>4, <1>5, <1>6, <1>7, <1>8, <1>9, <1>10, <1>11, <1>12, <1>13, <1>14, <1>15, <1>16 DEF Move

\* m_writerDoneEvent is reset only under a writer.
LEMMA MoveEvent ==
    ASSUME TypeOK, OwnerInv, EventInv, NEW t \in Threads, Move(t)
    PROVE  EventInv'
<1> USE DEF Goto, memory, events, locks, registry, CsPlaces, Scanning
<1>1. CASE Harness(t)
  BY <1>1, NoneAssumption DEF TypeOK, OwnerInv, EventInv, Harness, StartRead, StartWrite, Exit, PushTlsData
<1>2. CASE Enter(t)
  BY <1>2, NoneAssumption DEF TypeOK, OwnerInv, EventInv, Enter, EnterCs
<1>3. CASE Leave(t)
  BY <1>3, NoneAssumption DEF TypeOK, OwnerInv, EventInv, Leave, LeaveCs
<1>4. CASE Signal(t)
  BY <1>4, NoneAssumption DEF TypeOK, OwnerInv, EventInv, Signal, SetReaderDone
<1>5. CASE Raise(t)
  <2>1. GotoOnly(t, "rl_raise", "rl_check") \/ GotoOnly(t, "rl_incs", "rl_leave")
    BY <1>5, StoreFrame, Zenon
  <2> QED
    BY <2>1 DEF TypeOK, OwnerInv, EventInv, GotoOnly
<1>6. CASE Lower(t)
  <2>1. \E from \in {"rl_yield", "reading"},
           to \in {"rl_wait", "rl_signal", "loop", "ru_check", "ru_unshare"} :
              GotoOnly(t, from, to)
    BY <1>6, StoreFrame, Zenon
  <2> QED
    BY <2>1 DEF TypeOK, OwnerInv, EventInv, GotoOnly
<1>7. CASE Check(t)
  BY <1>7, NoneAssumption DEF TypeOK, OwnerInv, EventInv, Check, CheckRequest
<1>8. CASE Wait(t)
  BY <1>8, NoneAssumption DEF TypeOK, OwnerInv, EventInv, Wait, WaitWriterDone
<1>9. CASE Share(t)
  BY <1>9, NoneAssumption DEF TypeOK, OwnerInv, EventInv, Share, ShareCs, RaiseFlagLocked, UnshareCs
<1>10. CASE Scan(t)
  BY <1>10, NoneAssumption DEF TypeOK, OwnerInv, EventInv, Scan, FinishScan, PassReader, FindReader
<1>11. CASE Sleep(t)
  BY <1>11, NoneAssumption DEF TypeOK, OwnerInv, EventInv, Sleep
<1>12. CASE WaitReaderDone(t)
  BY <1>12, NoneAssumption DEF TypeOK, OwnerInv, EventInv, WaitReaderDone
<1>13. CASE Reset(t)
  BY <1>13, NoneAssumption DEF TypeOK, OwnerInv, EventInv, Reset, ResetWriterDone
<1>14. CASE RequestWrite(t)
  BY <1>14, NoneAssumption, StoreFrame DEF TypeOK, OwnerInv, EventInv, GotoOnly
<1>15. CASE Clear(t)
  BY <1>15, NoneAssumption, StoreFrame DEF TypeOK, OwnerInv, EventInv, GotoOnly
<1>16. CASE SetWriterDone(t)
  BY <1>16, NoneAssumption DEF TypeOK, OwnerInv, EventInv, SetWriterDone
<1> QED
  BY <1>1, <1>2, <1>3, <1>4, <1>5, <1>6, <1>7, <1>8, <1>9, <1>10, <1>11, <1>12, <1>13, <1>14, <1>15, <1>16 DEF Move

\* A thread stays registered as long as it stays on the readers' path.
LEMMA RegisteredKept ==
    ASSUME TypeOK, RegisteredInv, NEW t \in Threads, NEW from, NEW to,
           Goto(t, from, to), UNCHANGED registry,
           to \in ReaderPlaces => from \in ReaderPlaces,
           from \in {"tls_enter", "tls_push"} => to = "tls_push"
    PROVE  RegisteredInv'
  BY DEF TypeOK, RegisteredInv, Registered, Goto, registry

LEMMA MoveRegistered ==
    ASSUME TypeOK, RegisteredInv, NEW t \in Threads, Move(t)
    PROVE  RegisteredInv'
<1> USE DEF ReaderPlaces, ReadPlaces
<1>1. CASE Harness(t)
  <2>1. CASE StartRead(t)
    BY <1>1, <2>1 DEF TypeOK, RegisteredInv, Registered, StartRead, Goto
  <2>2. CASE StartWrite(t)
    BY <2>2, RegisteredKept DEF StartWrite
  <2>3. CASE Exit(t)
    BY <2>3, RegisteredKept DEF Exit
  <2>4. CASE PushTlsData(t)
    <3>1. /\ Len(m_threadStates') = Len(m_threadStates) + 1
          /\ \A i \in 1..Len(m_threadStates) : m_threadStates'[i] = m_threadStates[i]
          /\ m_threadStates'[Len(m_threadStates) + 1] = t
      BY <2>4 DEF TypeOK, PushTlsData
    <3>2. Len(m_threadStates) \in Nat
      BY DEF TypeOK
    <3>3. Registered(t)'
      BY <3>1, <3>2 DEF Registered
    <3>4. ASSUME NEW u \in Threads, Registered(u) PROVE Registered(u)'
      <4>1. PICK i \in 1..Len(m_threadStates) : m_threadStates[i] = u
        BY <3>4 DEF Registered
      <4>2. i \in 1..Len(m_threadStates') /\ m_threadStates'[i] = u
        BY <3>1, <3>2, <4>1
      <4> QED
        BY <4>2 DEF Registered
    <3> QED
      BY <2>4, <3>3, <3>4 DEF TypeOK, RegisteredInv, PushTlsData, Goto
  <2> QED
    BY <1>1, <2>1, <2>2, <2>3, <2>4 DEF Harness
<1>2. CASE Enter(t)
  BY <1>2, RegisteredKept DEF Enter, EnterCs
<1>3. CASE Leave(t)
  BY <1>3, RegisteredKept DEF Leave, LeaveCs
<1>4. CASE Signal(t)
  BY <1>4, RegisteredKept DEF Signal, SetReaderDone
<1>5. CASE Raise(t) \/ Lower(t) \/ Clear(t) \/ RequestWrite(t)
  BY <1>5, RegisteredKept, StoreFrame DEF GotoOnly
<1>6. CASE Check(t)
  BY <1>6, RegisteredKept DEF Check, CheckRequest
<1>7. CASE Wait(t)
  BY <1>7, RegisteredKept DEF Wait, WaitWriterDone
<1>8. CASE Share(t)
  BY <1>8, RegisteredKept DEF Share, ShareCs, RaiseFlagLocked, UnshareCs
<1>9. CASE Scan(t)
  BY <1>9, RegisteredKept DEF Scan, FinishScan, PassReader, FindReader, RegisteredInv, Registered, registry
<1>10. CASE Sleep(t)
  BY <1>10, RegisteredKept DEF Sleep
<1>11. CASE WaitReaderDone(t)
  BY <1>11, RegisteredKept DEF WaitReaderDone
<1>12. CASE Reset(t)
  BY <1>12, RegisteredKept DEF Reset, ResetWriterDone
<1>13. CASE SetWriterDone(t)
  BY <1>13 DEF SetWriterDone, TypeOK, RegisteredInv, Registered, registry
<1> QED
  BY <1>1, <1>2, <1>3, <1>4, <1>5, <1>6, <1>7, <1>8, <1>9, <1>10, <1>11, <1>12, <1>13 DEF Move

\* The invariants of m_cs, of the events and of the registry are inductive.
LEMMA LockStep == TypeOK /\ LockInv /\ [Next]_vars => LockInv'
<1> SUFFICES ASSUME TypeOK, LockInv, [Next]_vars PROVE LockInv'
  OBVIOUS
<1>1. ASSUME NEW t \in Threads, Step(t) PROVE LockInv'
  BY <1>1, StepIsMove, MoveOwner, MoveShared, MoveEvent, MoveRegistered DEF LockInv
<1>2. CASE UNCHANGED <<TMutex, pc, events, locks, registry>>
  BY <1>2 DEF LockInv, OwnerInv, SharedInv, EventInv, RegisteredInv, Registered,
     events, locks, registry
<1>3. Stop => UNCHANGED <<TMutex, pc, events, locks, registry>>
  BY DEF Stop
<1>4. \A t \in Threads : Drain(t) => UNCHANGED <<TMutex, pc, events, locks, registry>>
  BY DEF Drain
<1>5. UNCHANGED vars => UNCHANGED <<TMutex, pc, events, locks, registry>>
  BY DEF vars
<1> QED
  BY <1>1, <1>2, <1>3, <1>4, <1>5 DEF Next

\* m_cs, the events and the registry are consistent in every reachable state,
\* for any number of threads and any depth of the store buffers.
THEOREM LocksConsistent == Spec => []LockInv
<1>1. Init => LockInv
  BY NoneAssumption DEF Init, LockInv, OwnerInv, SharedInv, EventInv, RegisteredInv,
     CsPlaces, Scanning, ReaderPlaces, ReadPlaces
<1> QED
  BY <1>1, LockStep, TypeCorrect, PTL DEF Spec

\* Writers exclude each other even with store buffers: the part of mutual
\* exclusion that comes from m_cs.
THEOREM WritersExcludeEachOther == Spec => []WritersExclude
<1>1. LockInv => WritersExclude
  BY NoneAssumption DEF LockInv, OwnerInv, SharedInv, WritersExclude, CsPlaces
<1> QED
  BY <1>1, LocksConsistent, PTL

\* A FastSlim reader that shares m_cs excludes writers for every memory model.
THEOREM LockedReadersExcludeWriters == Spec => []LockedReadersExclude
<1>1. LockInv => LockedReadersExclude
  BY NoneAssumption DEF LockInv, OwnerInv, SharedInv, LockedReadersExclude, CsPlaces
<1> QED
  BY <1>1, LocksConsistent, PTL

\* No reader sleeps on m_writerDoneEvent without a writer that will set it.
THEOREM SleepersAreWoken == Spec => []ReaderIsWoken
<1>1. LockInv => ReaderIsWoken
  BY DEF LockInv, EventInv, ReaderIsWoken
<1> QED
  BY <1>1, LocksConsistent, PTL

\* m_threadStates never grows while a writer iterates over it.
THEOREM IterationIsStable == Spec => IteratorStable
<1> DEFINE Stable == (\E w \in Threads : pc[w] \in Scanning) => UNCHANGED m_threadStates
<1>1. TypeOK /\ LockInv /\ [Next]_vars => [Stable]_vars
  <2> SUFFICES ASSUME TypeOK, LockInv, Next, NEW w \in Threads, pc[w] \in Scanning
               PROVE  UNCHANGED m_threadStates
    OBVIOUS
  <2>1. \A t \in Threads : ~PushTlsData(t)
    BY DEF LockInv, OwnerInv, CsPlaces, Scanning, PushTlsData, Goto
  <2>2. ASSUME NEW t \in Threads, Move(t) PROVE UNCHANGED m_threadStates
    <3>1. CASE Raise(t) \/ Lower(t) \/ Clear(t) \/ RequestWrite(t)
      BY <3>1, StoreFrame DEF GotoOnly
    <3>2. CASE Harness(t) \/ Enter(t) \/ Leave(t) \/ Signal(t)
      BY <3>2, <2>1 DEF Harness, StartRead, StartWrite, Exit, Enter, EnterCs, Leave, LeaveCs,
         Signal, SetReaderDone, registry
    <3>3. CASE Check(t) \/ Wait(t) \/ Share(t) \/ Scan(t) \/ Sleep(t)
      BY <3>3 DEF Check, CheckRequest, Wait, WaitWriterDone, Share, ShareCs, RaiseFlagLocked,
         UnshareCs, Scan, FinishScan, PassReader, FindReader, Sleep, registry
    <3>4. CASE WaitReaderDone(t) \/ Reset(t) \/ SetWriterDone(t)
      BY <3>4 DEF WaitReaderDone, Reset, ResetWriterDone, SetWriterDone, registry
    <3> QED
      BY <2>2, <3>1, <3>2, <3>3, <3>4 DEF Move
  <2> QED
    BY <2>2, StepIsMove DEF Next, Stop, Drain, registry
<1> QED
  BY <1>1, TypeCorrect, LocksConsistent, PTL DEF Spec, IteratorStable
-----------------------------------------------------------------------------
(* The request, for any depth of the store buffers.                        *)

Request == "m_writeRequested"

\* What the store of a flag does to the request: nothing.
LEMMA StoreFlagKeeps ==
    ASSUME TypeOK, NEW t \in Threads, NEW val \in BOOLEAN, Store(t, "isReading", val)
    PROVE  /\ m_writeRequested' = m_writeRequested
           /\ Buffered(t, Request)' = Buffered(t, Request)
           /\ ~WriteRequestedSeenBy(t) => ~WriteRequestedSeenBy(t)'
           /\ \A u \in Threads \ {t} : storeBuffer'[u] = storeBuffer[u]
<1>1. CASE BufferSize = 0 /\ Commit(t, "isReading", val) /\ UNCHANGED storeBuffer
  BY <1>1 DEF Commit, Buffered, WriteRequestedSeenBy
<1>2. CASE /\ storeBuffer' = [storeBuffer EXCEPT ![t] = Append(@, [loc |-> "isReading", val |-> val])]
           /\ UNCHANGED <<m_writeRequested, isReading>>
  <2> DEFINE b == storeBuffer[t]
             c == storeBuffer'[t]
             n == Len(b)
  <2>1. b \in Seq(StoredValues) /\ c = Append(b, [loc |-> "isReading", val |-> val])
    BY <1>2 DEF TypeOK
  <2>2. /\ n \in Nat /\ Len(c) = n + 1
        /\ \A i \in 1..n : c[i] = b[i]
        /\ c[n + 1] = [loc |-> "isReading", val |-> val]
    BY <2>1
  <2>3. Buffered(t, Request)' = {i \in 1..Len(c) : c[i].loc = Request}
    BY DEF Buffered, Request
  <2>4. Buffered(t, Request) = {i \in 1..n : b[i].loc = Request}
    BY DEF Buffered, Request
  <2>5. c[n + 1].loc # Request
    BY <2>2 DEF Request
  <2> HIDE DEF b, c, n
  <2>6. \A i \in 1..(n + 1) : i \in 1..n \/ i = n + 1
    BY <2>2
  <2>7. Buffered(t, Request)' = Buffered(t, Request)
    BY <2>2, <2>3, <2>4, <2>5, <2>6
  <2>8. \A i \in Buffered(t, Request) : storeBuffer'[t][i] = storeBuffer[t][i]
    BY <2>2, <2>4 DEF b, c
  <2>9. ~WriteRequestedSeenBy(t) => ~WriteRequestedSeenBy(t)'
    BY <1>2, <2>7, <2>8, Zenon DEF WriteRequestedSeenBy, Request
  <2>10. \A u \in Threads \ {t} : storeBuffer'[u] = storeBuffer[u]
    BY <1>2 DEF TypeOK
  <2> QED
    BY <1>2, <2>7, <2>9, <2>10
<1> QED
  BY <1>1, <1>2 DEF Store

\* What a store to the request does: its thread sees the value from then on.
LEMMA StoreRequestSeen ==
    ASSUME TypeOK, BufferInv, NEW t \in Threads, NEW val \in BOOLEAN,
           Store(t, Request, val)
    PROVE  /\ m_writeRequested' # m_writeRequested => m_writeRequested' = val
           /\ ~val => ~WriteRequestedSeenBy(t)'
           /\ \A u \in Threads \ {t} : storeBuffer'[u] = storeBuffer[u]
<1>1. CASE BufferSize = 0 /\ Commit(t, Request, val) /\ UNCHANGED storeBuffer
  <2>1. Buffered(t, Request)' = {}
    <3>1. storeBuffer[t] \in Seq(StoredValues) /\ Len(storeBuffer[t]) <= 0
      BY <1>1 DEF TypeOK, BufferInv
    <3>2. Len(storeBuffer[t]) = 0
      BY <3>1
    <3> QED
      BY <1>1, <3>2 DEF Buffered
  <2> QED
    BY <1>1, <2>1 DEF Commit, WriteRequestedSeenBy, Request
<1>2. CASE /\ storeBuffer' = [storeBuffer EXCEPT ![t] = Append(@, [loc |-> Request, val |-> val])]
           /\ UNCHANGED <<m_writeRequested, isReading>>
  <2> DEFINE b == storeBuffer[t]
             c == storeBuffer'[t]
             n == Len(b)
  <2>1. b \in Seq(StoredValues) /\ c = Append(b, [loc |-> Request, val |-> val])
    BY <1>2 DEF TypeOK
  <2>2. n \in Nat /\ Len(c) = n + 1 /\ c[n + 1] = [loc |-> Request, val |-> val]
    BY <2>1
  <2>3. Buffered(t, Request)' = {i \in 1..Len(c) : c[i].loc = Request}
    BY DEF Buffered, Request
  <2> HIDE DEF b, c, n
  <2>4. n + 1 \in Buffered(t, Request)' /\ (c[n + 1].val <=> val)
    BY <2>2, <2>3
  <2>5. \A i \in Buffered(t, Request)' : n + 1 <= i => i = n + 1
    BY <2>2, <2>3
  <2>6. ~val => ~WriteRequestedSeenBy(t)'
    BY <2>4, <2>5, Zenon DEF WriteRequestedSeenBy, Request, c
  <2>7. \A u \in Threads \ {t} : storeBuffer'[u] = storeBuffer[u]
    BY <1>2 DEF TypeOK
  <2> QED
    BY <1>2, <2>6, <2>7
<1> QED
  BY <1>1, <1>2 DEF Store, Request

\* A thread sees the same request before and after a store of its own drains.
LEMMA DrainSeen ==
    ASSUME TypeOK, NEW t \in Threads, Drain(t)
    PROVE  /\ Buffered(t, Request)' # {} => Buffered(t, Request) # {}
           /\ m_writeRequested' # m_writeRequested => Buffered(t, Request) # {}
           /\ ~WriteRequestedSeenBy(t) => ~WriteRequestedSeenBy(t)'
           /\ \A u \in Threads \ {t} : storeBuffer'[u] = storeBuffer[u]
<1> DEFINE b == storeBuffer[t]
           c == storeBuffer'[t]
           n == Len(b)
<1>1. b \in Seq(StoredValues) /\ b # <<>> /\ c = Tail(b)
  BY DEF TypeOK, Drain
<1>2. /\ n \in Nat \ {0} /\ Len(c) = n - 1 /\ Head(b) = b[1]
      /\ \A i \in 1..(n - 1) : c[i] = b[i + 1]
  BY <1>1
<1>3. Buffered(t, Request)' = {i \in 1..Len(c) : c[i].loc = Request}
  BY DEF Buffered, Request
<1>4. Buffered(t, Request) = {i \in 1..n : b[i].loc = Request}
  BY DEF Buffered, Request
<1>5. b[1] \in StoredValues
  BY <1>1, <1>2
<1>6. /\ b[1].loc = Request => m_writeRequested' = b[1].val
      /\ b[1].loc # Request => m_writeRequested' = m_writeRequested
  BY <1>2, <1>5 DEF Drain, Commit, Request, StoredValues
<1> HIDE DEF b, c, n
<1>7. \A i \in Buffered(t, Request)' : i + 1 \in Buffered(t, Request) /\ c[i] = b[i + 1] /\ i \in Int
  BY <1>2, <1>3, <1>4
<1>8. \A j \in Buffered(t, Request) : j \in Int /\ (j = 1 \/ j - 1 \in Buffered(t, Request)')
  <2> TAKE j \in Buffered(t, Request)
  <2>1. j \in 1..n /\ b[j].loc = Request
    BY <1>4
  <2>2. CASE j # 1
    <3>1. j - 1 \in 1..(n - 1) /\ (j - 1) + 1 = j
      BY <1>2, <2>1, <2>2
    <3>2. c[j - 1] = b[j]
      BY <1>2, <3>1
    <3> QED
      BY <1>2, <1>3, <2>1, <3>1, <3>2
  <2> QED
    BY <2>1, <2>2
<1>9. 1 \in Buffered(t, Request) <=> b[1].loc = Request
  BY <1>2, <1>4
<1>10. ASSUME WriteRequestedSeenBy(t)' PROVE WriteRequestedSeenBy(t)
  <2>1. CASE Buffered(t, Request)' = {}
    <3>1. m_writeRequested'
      BY <1>10, <2>1 DEF WriteRequestedSeenBy, Request
    <3>2. \A j \in Buffered(t, Request) : j = 1
      BY <1>8, <2>1
    <3>3. CASE b[1].loc = Request
      <4>1. 1 \in Buffered(t, Request)
        BY <1>9, <3>3
      <4>2. b[1].val
        BY <1>6, <3>1, <3>3, Zenon
      <4>3. \A j \in Buffered(t, Request) : j <= 1
        BY <3>2
      <4> QED
        BY <4>1, <4>2, <4>3 DEF WriteRequestedSeenBy, Request, b
    <3>4. CASE b[1].loc # Request
      <4>1. Buffered(t, Request) = {} /\ m_writeRequested
        BY <1>6, <1>9, <3>1, <3>2, <3>4
      <4> QED
        BY <4>1 DEF WriteRequestedSeenBy, Request
    <3> QED
      BY <3>3, <3>4
  <2>2. CASE Buffered(t, Request)' # {}
    <3>1. PICK i \in Buffered(t, Request)' :
            c[i].val /\ \A j \in Buffered(t, Request)' : j <= i
      BY <1>10, <2>2 DEF WriteRequestedSeenBy, Request, c
    <3>2. i + 1 \in Buffered(t, Request) /\ b[i + 1].val
      BY <1>7, <3>1
    <3>3. ASSUME NEW j \in Buffered(t, Request) PROVE j <= i + 1
      <4>1. i \in Nat /\ j \in Int
        BY <1>2, <1>3, <1>8, <3>1
      <4>2. j = 1 \/ j - 1 <= i
        BY <1>8, <3>1
      <4> QED
        BY <4>1, <4>2
    <3> QED
      BY <3>2, <3>3 DEF WriteRequestedSeenBy, Request, b
  <2> QED
    BY <2>1, <2>2
<1>11. \A u \in Threads \ {t} : storeBuffer'[u] = storeBuffer[u]
  BY DEF TypeOK, Drain
<1> QED
  BY <1>6, <1>7, <1>9, <1>10, <1>11

\* The buffers never hold more than BufferSize stores.
LEMMA StoreBuffer ==
    ASSUME TypeOK, BufferInv, NEW t \in Threads, NEW loc, NEW val, Store(t, loc, val)
    PROVE  BufferInv'
<1>1. CASE UNCHANGED storeBuffer
  BY <1>1 DEF BufferInv
<1>2. CASE /\ Len(storeBuffer[t]) < BufferSize
           /\ storeBuffer' = [storeBuffer EXCEPT ![t] = Append(@, [loc |-> loc, val |-> val])]
  <2>1. Len(storeBuffer'[t]) = Len(storeBuffer[t]) + 1 /\ Len(storeBuffer[t]) \in Nat
    BY <1>2 DEF TypeOK
  <2>2. Len(storeBuffer'[t]) <= BufferSize
    BY <1>2, <2>1, BufferAssumption
  <2>3. \A u \in Threads \ {t} : storeBuffer'[u] = storeBuffer[u]
    BY <1>2 DEF TypeOK
  <2> QED
    BY <2>2, <2>3 DEF BufferInv
<1> QED
  BY <1>1, <1>2 DEF Store

LEMMA BufferStep == TypeOK /\ BufferInv /\ [Next]_vars => BufferInv'
<1> SUFFICES ASSUME TypeOK, BufferInv, [Next]_vars PROVE BufferInv'
  OBVIOUS
<1>1. UNCHANGED storeBuffer => BufferInv'
  BY DEF BufferInv
<1>2. ASSUME NEW t \in Threads, Move(t) PROVE BufferInv'
  <2>1. CASE Raise(t) \/ Lower(t)
    BY <2>1, StoreBuffer DEF Raise, Lower, StoreFlag
  <2>2. CASE Share(t)
    BY <1>1, <2>2, StoreBuffer DEF Share, ShareCs, RaiseFlagLocked, UnshareCs, memory
  <2>3. CASE RequestWrite(t) \/ Clear(t)
    BY <2>3, StoreBuffer DEF RequestWrite, Clear, ClearRequest
  <2>4. CASE Harness(t) \/ Enter(t) \/ Leave(t) \/ Signal(t) \/ Check(t)
    BY <1>1, <2>4 DEF Harness, StartRead, StartWrite, Exit, PushTlsData, Enter, EnterCs,
       Leave, LeaveCs, Signal, SetReaderDone, Check, CheckRequest, memory
  <2>5. CASE Wait(t) \/ Scan(t) \/ Sleep(t) \/ WaitReaderDone(t) \/ Reset(t) \/ SetWriterDone(t)
    BY <1>1, <2>5 DEF Wait, WaitWriterDone, Scan, FinishScan, PassReader, FindReader, Sleep,
       WaitReaderDone, Reset, ResetWriterDone, SetWriterDone, memory
  <2> QED
    BY <1>2, <2>1, <2>2, <2>3, <2>4, <2>5 DEF Move
<1>3. ASSUME NEW t \in Threads, Drain(t) PROVE BufferInv'
  <2>1. storeBuffer[t] \in Seq(StoredValues) /\ storeBuffer[t] # <<>>
    BY <1>3 DEF TypeOK, Drain
  <2>2. storeBuffer'[t] = Tail(storeBuffer[t])
    BY <1>3 DEF TypeOK, Drain
  <2>3. Len(storeBuffer'[t]) = Len(storeBuffer[t]) - 1 /\ Len(storeBuffer[t]) \in Nat
    BY <2>1, <2>2
  <2>4. Len(storeBuffer'[t]) <= BufferSize
    BY <2>3, BufferAssumption DEF BufferInv
  <2> QED
    BY <1>3, <2>4 DEF TypeOK, Drain, BufferInv
<1>4. CASE Stop \/ UNCHANGED vars
  BY <1>1, <1>4 DEF Stop, vars, memory
<1> QED
  BY <1>2, <1>3, <1>4, StepIsMove DEF Next

\* What every thread sees depends on memory alone.
LEMMA SeenKept ==
    ASSUME UNCHANGED memory
    PROVE  \A t \in Threads : /\ Buffered(t, Request)' = Buffered(t, Request)
                              /\ WriteRequestedSeenBy(t)' <=> WriteRequestedSeenBy(t)
  BY DEF memory, Buffered, WriteRequestedSeenBy

\* A request survives a step that touches neither memory nor the writers' places.
LEMMA RequestKept ==
    ASSUME RequestInv, UNCHANGED <<memory, m_cs>>,
           \A u \in Threads : pc[u] \in Requesting => pc'[u] \in Requesting,
           \A u \in Threads : pc'[u] \in {"wu_signal", "wu_leave"}
                                => pc[u] \in {"wu_signal", "wu_leave"},
           m_cs \in Threads \cup {None}
    PROVE  RequestInv'
<1>1. \A u \in Threads : Buffered(u, Request)' # {} => pc'[u] \in Requesting
  BY SeenKept DEF RequestInv, Request
<1>2. m_writeRequested' => m_cs' # None /\ pc'[m_cs'] \in Requesting
  BY DEF RequestInv, memory
<1>3. \A u \in Threads : pc'[u] \in {"wu_signal", "wu_leave"} => ~WriteRequestedSeenBy(u)'
  BY SeenKept DEF RequestInv
<1> QED
  BY <1>1, <1>2, <1>3 DEF RequestInv, Request

\* With an empty buffer a thread sees what is in memory.
LEMMA FencedSees ==
    ASSUME NEW t \in Threads, Fenced(t)
    PROVE  Buffered(t, Request) = {} /\ (WriteRequestedSeenBy(t) <=> m_writeRequested)
<1>1. Buffered(t, Request) = {}
  BY DEF Fenced, Buffered
<1> QED
  BY <1>1 DEF WriteRequestedSeenBy, Request

\* The lock is handed on without a request.
LEMMA RequestHanded ==
    ASSUME TypeOK, OwnerInv, RequestInv, NEW t \in Threads, NEW from, NEW to,
           Fenced(t), Goto(t, from, to), UNCHANGED memory,
           from \notin Requesting \/ from = "wu_leave", to \notin Requesting,
           m_cs = None \/ m_cs = t
    PROVE  RequestInv'
<1>1. ~m_writeRequested
  <2>1. CASE from = "wu_leave"
    BY <2>1, FencedSees DEF RequestInv, Goto
  <2>2. CASE from \notin Requesting
    BY <2>2 DEF RequestInv, Goto
  <2> QED
    BY <2>1, <2>2
<1>2. \A u \in Threads \ {t} : pc'[u] = pc[u]
  BY DEF TypeOK, Goto
<1>3. pc'[t] = to
  BY DEF TypeOK, Goto
<1>4. \A u \in Threads : Buffered(u, Request)' # {} => pc'[u] \in Requesting
  <2> TAKE u \in Threads
  <2>1. CASE u = t
    BY <2>1, SeenKept, FencedSees
  <2>2. CASE u # t
    BY <1>2, <2>2, SeenKept DEF RequestInv, Request
  <2> QED
    BY <2>1, <2>2
<1>5. \A u \in Threads : pc'[u] \in {"wu_signal", "wu_leave"} => ~WriteRequestedSeenBy(u)'
  <2> TAKE u \in Threads
  <2>1. CASE u = t
    BY <1>3, <2>1 DEF Requesting
  <2>2. CASE u # t
    BY <1>2, <2>2, SeenKept DEF RequestInv
  <2> QED
    BY <2>1, <2>2
<1> QED
  BY <1>1, <1>4, <1>5 DEF RequestInv, memory, Request

\* The store of a flag is made away from the places of a request.
LEMMA FlagKeepsRequest ==
    ASSUME TypeOK, RequestInv, NEW t \in Threads, NEW val \in BOOLEAN, NEW from, NEW to,
           Store(t, "isReading", val), Goto(t, from, to), UNCHANGED m_cs,
           from \notin Requesting, to \notin Requesting
    PROVE  RequestInv'
<1>1. /\ \A u \in Threads \ {t} : pc'[u] = pc[u]
      /\ pc'[t] = to /\ pc[t] = from
  BY DEF TypeOK, Goto
<1>2. \A u \in Threads \ {t} : Buffered(u, Request)' = Buffered(u, Request)
  BY StoreFlagKeeps DEF Buffered
<1>3. \A u \in Threads \ {t} : WriteRequestedSeenBy(u)' <=> WriteRequestedSeenBy(u)
  BY <1>2, StoreFlagKeeps DEF WriteRequestedSeenBy, Request
<1>4. \A u \in Threads : Buffered(u, Request)' # {} => pc'[u] \in Requesting
  <2> TAKE u \in Threads
  <2>1. CASE u = t
    BY <1>1, <2>1, StoreFlagKeeps DEF RequestInv, Request
  <2>2. CASE u # t
    BY <1>1, <1>2, <2>2 DEF RequestInv, Request
  <2> QED
    BY <2>1, <2>2
<1>5. \A u \in Threads : pc'[u] \in {"wu_signal", "wu_leave"} => ~WriteRequestedSeenBy(u)'
  <2> TAKE u \in Threads
  <2>1. CASE u = t
    BY <1>1, <2>1 DEF Requesting
  <2>2. CASE u # t
    BY <1>1, <1>3, <2>2 DEF RequestInv
  <2> QED
    BY <2>1, <2>2
<1>6. m_writeRequested' => m_cs' # None /\ pc'[m_cs'] \in Requesting
  <2>1. m_writeRequested' = m_writeRequested
    BY StoreFlagKeeps
  <2>2. m_writeRequested => m_cs \in Threads \ {t} /\ pc[m_cs] \in Requesting
    BY <1>1 DEF TypeOK, RequestInv
  <2> QED
    BY <1>1, <2>1, <2>2, NoneAssumption
<1> QED
  BY <1>4, <1>5, <1>6 DEF RequestInv, Request

\* The store to the request is made by the owner of m_cs.
LEMMA StoreKeepsRequest ==
    ASSUME TypeOK, OwnerInv, BufferInv, RequestInv, NEW t \in Threads, NEW val \in BOOLEAN,
           NEW from, NEW to, Store(t, Request, val), Goto(t, from, to), UNCHANGED m_cs,
           from \in CsPlaces, to \in Requesting, to \in {"wu_signal", "wu_leave"} => ~val
    PROVE  RequestInv'
<1>1. /\ \A u \in Threads \ {t} : pc'[u] = pc[u]
      /\ pc'[t] = to /\ m_cs = t
  BY DEF TypeOK, Goto, OwnerInv
<1>2. \A u \in Threads \ {t} : Buffered(u, Request)' = Buffered(u, Request)
  BY StoreRequestSeen DEF Buffered
<1>3. \A u \in Threads : Buffered(u, Request)' # {} => pc'[u] \in Requesting
  BY <1>1, <1>2 DEF RequestInv, Request
<1>4. \A u \in Threads : pc'[u] \in {"wu_signal", "wu_leave"} => ~WriteRequestedSeenBy(u)'
  <2> TAKE u \in Threads
  <2>1. CASE u = t
    BY <1>1, <2>1, StoreRequestSeen
  <2>2. CASE u # t
    BY <1>1, <2>2 DEF OwnerInv, CsPlaces
  <2> QED
    BY <2>1, <2>2
<1> QED
  BY <1>1, <1>3, <1>4, NoneAssumption DEF RequestInv, Request

LEMMA DrainKeepsRequest ==
    ASSUME TypeOK, OwnerInv, RequestInv, NEW t \in Threads, Drain(t)
    PROVE  RequestInv'
<1>1. pc' = pc /\ m_cs' = m_cs
  BY DEF Drain, locks
<1>2. Buffered(t, Request) # {} => m_cs = t /\ pc[t] \in Requesting
  BY DEF RequestInv, OwnerInv, CsPlaces, Requesting, Request
<1>3. \A u \in Threads \ {t} : Buffered(u, Request)' = Buffered(u, Request)
  BY DrainSeen DEF Buffered
<1>4. \A u \in Threads : Buffered(u, Request)' # {} => pc'[u] \in Requesting
  <2> TAKE u \in Threads
  <2>1. CASE u = t
    BY <1>1, <1>2, <2>1, DrainSeen
  <2>2. CASE u # t
    BY <1>1, <1>3, <2>2 DEF RequestInv, Request
  <2> QED
    BY <2>1, <2>2
<1>5. m_writeRequested' => m_cs' # None /\ pc'[m_cs'] \in Requesting
  <2>1. CASE m_writeRequested' = m_writeRequested
    BY <1>1, <2>1 DEF RequestInv
  <2>2. CASE m_writeRequested' # m_writeRequested
    BY <1>1, <1>2, <2>2, DrainSeen, NoneAssumption
  <2> QED
    BY <2>1, <2>2
<1>6. \A u \in Threads : pc'[u] \in {"wu_signal", "wu_leave"} => ~WriteRequestedSeenBy(u)'
  <2> SUFFICES ASSUME NEW u \in Threads, pc[u] \in {"wu_signal", "wu_leave"}
               PROVE  ~WriteRequestedSeenBy(u)'
    BY <1>1
  <2>1. ~WriteRequestedSeenBy(u) /\ m_cs = u
    BY DEF RequestInv, OwnerInv, CsPlaces
  <2>2. CASE u = t
    BY <2>1, <2>2, DrainSeen
  <2>3. CASE u # t
    <3>1. m_writeRequested' = m_writeRequested
      BY <1>2, <2>1, <2>3, DrainSeen
    <3> QED
      BY <1>3, <2>1, <2>3, <3>1, DrainSeen DEF WriteRequestedSeenBy, Request
  <2> QED
    BY <2>2, <2>3
<1> QED
  BY <1>4, <1>5, <1>6 DEF RequestInv, Request

\* The invariant of the request is inductive.
LEMMA MoveRequest ==
    ASSUME TypeOK, OwnerInv, BufferInv, RequestInv, NEW t \in Threads, Move(t)
    PROVE  RequestInv'
<1> USE DEF Requesting, Scanning, locks
<1>1. ASSUME NEW from, NEW to, Goto(t, from, to), UNCHANGED <<memory, m_cs>>,
             from \in Requesting => to \in Requesting,
             to \in {"wu_signal", "wu_leave"} => from \in {"wu_signal", "wu_leave"}
      PROVE  RequestInv'
  <2>1. \A u \in Threads : pc[u] \in Requesting => pc'[u] \in Requesting
    BY <1>1 DEF TypeOK, Goto
  <2>2. \A u \in Threads : pc'[u] \in {"wu_signal", "wu_leave"}
                             => pc[u] \in {"wu_signal", "wu_leave"}
    BY <1>1 DEF TypeOK, Goto
  <2> QED
    BY <1>1, <2>1, <2>2, RequestKept DEF TypeOK
<1>2. CASE Harness(t)
  BY <1>1, <1>2 DEF Harness, StartRead, StartWrite, Exit, PushTlsData
<1>3. CASE Enter(t)
  BY <1>3, RequestHanded DEF Enter, EnterCs
<1>4. CASE Leave(t)
  BY <1>4, RequestHanded DEF Leave, LeaveCs, OwnerInv, CsPlaces, Goto
<1>5. CASE Signal(t)
  BY <1>1, <1>5 DEF Signal, SetReaderDone
<1>6. CASE Raise(t)
  BY <1>6, FlagKeepsRequest DEF Raise, StoreFlag
<1>7. CASE Lower(t)
  BY <1>7, FlagKeepsRequest DEF Lower, StoreFlag
<1>8. CASE Check(t)
  BY <1>1, <1>8 DEF Check, CheckRequest
<1>9. CASE Wait(t)
  BY <1>1, <1>9 DEF Wait, WaitWriterDone
<1>10. CASE Share(t)
  BY <1>1, <1>10, FlagKeepsRequest DEF Share, ShareCs, RaiseFlagLocked, UnshareCs
<1>11. CASE Scan(t)
  <2>1. CASE PassReader(t)
    BY <2>1, RequestKept DEF PassReader, TypeOK
  <2>2. CASE ~PassReader(t)
    BY <1>1, <1>11, <2>2 DEF Scan, FinishScan, FindReader
  <2> QED
    BY <2>1, <2>2
<1>12. CASE Sleep(t)
  BY <1>1, <1>12 DEF Sleep
<1>13. CASE WaitReaderDone(t)
  BY <1>1, <1>13 DEF WaitReaderDone
<1>14. CASE Reset(t)
  BY <1>1, <1>14 DEF Reset, ResetWriterDone
<1>15. CASE RequestWrite(t)
  BY <1>15, StoreKeepsRequest DEF RequestWrite, CsPlaces, Request
<1>16. CASE Clear(t)
  BY <1>16, StoreKeepsRequest DEF Clear, ClearRequest, CsPlaces, Request
<1>17. CASE SetWriterDone(t)
  <2>1. \A u \in Threads : pc[u] \in Requesting => pc'[u] \in Requesting
    BY <1>17 DEF SetWriterDone
  <2>2. \A u \in Threads : pc'[u] \in {"wu_signal", "wu_leave"}
                             => pc[u] \in {"wu_signal", "wu_leave"}
    BY <1>17 DEF SetWriterDone
  <2> QED
    BY <1>17, <2>1, <2>2, RequestKept DEF SetWriterDone, TypeOK
<1> QED
  BY <1>2, <1>3, <1>4, <1>5, <1>6, <1>7, <1>8, <1>9, <1>10, <1>11, <1>12, <1>13,
     <1>14, <1>15, <1>16, <1>17 DEF Move

\* No request outlives its writer, in memory or in a store buffer, for any
\* number of threads and any depth of the store buffers.
THEOREM RequestsEnd == Spec => []NoRequestLeftBehind
<1> DEFINE Inv == BufferInv /\ RequestInv
<1>1. Init => Inv
  <2> SUFFICES ASSUME Init PROVE Inv
    OBVIOUS
  <2>1. \A t \in Threads : Len(storeBuffer[t]) = 0 /\ Buffered(t, "m_writeRequested") = {}
    BY DEF Init, Buffered
  <2> QED
    BY <2>1, BufferAssumption DEF Init, BufferInv, RequestInv
<1>2. TypeOK /\ LockInv /\ Inv /\ [Next]_vars => Inv'
  <2> SUFFICES ASSUME TypeOK, LockInv, BufferInv, RequestInv, [Next]_vars PROVE RequestInv'
    BY BufferStep
  <2>1. OwnerInv /\ (UNCHANGED <<memory, pc, m_cs>> => RequestInv')
    BY RequestKept DEF LockInv, TypeOK
  <2>2. CASE Stop \/ UNCHANGED vars
    BY <2>1, <2>2 DEF Stop, vars, locks
  <2> QED
    BY <2>1, <2>2, StepIsMove, MoveRequest, DrainKeepsRequest DEF Next
<1>3. TypeOK /\ LockInv /\ Inv => NoRequestLeftBehind
  <2> SUFFICES ASSUME TypeOK, LockInv, RequestInv, NEW t \in Threads,
                      m_writeRequested \/ Buffered(t, "m_writeRequested") # {}
               PROVE  m_cs # None /\ pc[m_cs] \in Requesting
    BY DEF NoRequestLeftBehind
  <2>1. CASE m_writeRequested
    BY <2>1 DEF RequestInv
  <2>2. CASE Buffered(t, "m_writeRequested") # {}
    <3>1. pc[t] \in Requesting
      BY <2>2 DEF RequestInv
    <3>2. m_cs = t
      BY <3>1 DEF LockInv, OwnerInv, CsPlaces, Requesting
    <3> QED
      BY <3>1, <3>2, NoneAssumption
  <2> QED
    BY <2>1, <2>2
<1> QED
  BY <1>1, <1>2, <1>3, TypeCorrect, LocksConsistent, PTL DEF Spec
=============================================================================
