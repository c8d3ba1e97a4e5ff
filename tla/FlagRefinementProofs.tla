------------------------ MODULE FlagRefinementProofs ------------------------
(***************************************************************************)
(* Under sequential consistency each of the four classes implements the    *)
(* abstract read-write lock: every move maps to a step of RWLock or to a   *)
(* step that leaves its status alone.                                      *)
(***************************************************************************)
EXTENDS FlagExclusionProofs

\* The status that the refinement mapping gives to RWLock.
Status == [t \in Threads |-> StatusOf(pc[t])]

\* A thread that moves alone changes its own status only.
LEMMA StatusChange ==
    ASSUME TypeOK, NEW t \in Threads, NEW from, NEW to, Goto(t, from, to)
    PROVE  /\ Status[t] = StatusOf(from)
           /\ Status' = [Status EXCEPT ![t] = StatusOf(to)]
  BY DEF TypeOK, Status, Goto

\* RWLock's Reading and Writing are the threads that read and write here.
LEMMA StatusSets ==
    ASSUME TypeOK
    PROVE  /\ Abstract!Reading = {t \in Threads : pc[t] = "reading"}
           /\ Abstract!Writing = {t \in Threads : pc[t] = "writing"}
  BY DEF Abstract!Reading, Abstract!Writing, StatusOf, ReadPlaces, WritePlaces

LEMMA AbstractChange ==
    ASSUME TypeOK, NEW t \in Threads, NEW from, NEW to, Goto(t, from, to)
    PROVE  Abstract!Change(t, StatusOf(from), StatusOf(to))
  BY StatusChange DEF Abstract!Change, Status

\* The threads that take m_cs, wait or look at a flag keep their status.
LEMMA SameStatus ==
    ASSUME TypeOK, NEW t \in Threads, NEW from, NEW to, Goto(t, from, to),
           StatusOf(from) = StatusOf(to)
    PROVE  Status' = Status
  BY StatusChange DEF Status

\* A read lock is obtained only while no thread writes.
LEMMA ReadAcquired ==
    ASSUME TypeOK, LockInv, FlagInv, NEW t \in Threads, Move(t),
           Goto(t, "rl_check", "reading") \/ Goto(t, "rl_shared", "reading")
    PROVE  Abstract!AcquireRead(t)
<1>1. \A w \in Threads : pc[w] \notin Requested
  <2> SUFFICES ASSUME NEW w \in Threads, pc[w] \in Requested PROVE FALSE
    OBVIOUS
  <2>1. pc'[t] = "reading" => pc[t] = "reading"
    BY NoNewReader DEF FlagInv
  <2> QED
    BY <2>1 DEF Goto, TypeOK
<1>2. Abstract!Writing = {}
  BY <1>1, StatusSets DEF Requested
<1>3. StatusOf("rl_check") = "wantRead" /\ StatusOf("rl_shared") = "wantRead"
      /\ StatusOf("reading") = "reading"
  BY DEF StatusOf, ReadPlaces, WritePlaces
<1>4. Abstract!Change(t, "wantRead", "reading")
  BY <1>3, AbstractChange
<1> QED
  BY <1>2, <1>4 DEF Abstract!AcquireRead

\* A write lock is obtained only while no thread reads or writes.
LEMMA WriteAcquired ==
    ASSUME TypeOK, LockInv, FlagInv, NEW t \in Threads, FinishScan(t)
    PROVE  Abstract!AcquireWrite(t)
<1>1. \A r \in Threads : pc[r] # "reading"
  BY ScanEnds DEF FlagInv
<1>2. \A w \in Threads : pc[w] # "writing"
  BY DEF FinishScan, Goto, LockInv, OwnerInv, CsPlaces, Scanning
<1>3. Abstract!Reading \cup Abstract!Writing = {}
  BY <1>1, <1>2, StatusSets
<1>4. StatusOf("wl_scan") = "wantWrite" /\ StatusOf("writing") = "writing"
  BY DEF StatusOf, ReadPlaces, WritePlaces
<1>5. Abstract!Change(t, "wantWrite", "writing")
  BY <1>4, AbstractChange DEF FinishScan
<1> QED
  BY <1>3, <1>5 DEF Abstract!AcquireWrite

\* Every move is a step of RWLock or leaves its status alone.
LEMMA MoveMaps ==
    ASSUME TypeOK, LockInv, FlagInv, NEW t \in Threads, Move(t)
    PROVE  Abstract!Next \/ Status' = Status
<1> USE DEF StatusOf, ReadPlaces, WritePlaces
<1>1. CASE StartRead(t)
  <2>1. \E to \in ReadPlaces : Goto(t, "loop", to)
    BY <1>1 DEF StartRead
  <2>2. Abstract!RequestRead(t)
    BY <2>1, AbstractChange DEF Abstract!RequestRead
  <2> QED
    BY <2>2 DEF Abstract!Next
<1>2. CASE StartWrite(t)
  <2>1. Abstract!RequestWrite(t)
    BY <1>2, AbstractChange DEF Abstract!RequestWrite, StartWrite
  <2> QED
    BY <2>1 DEF Abstract!Next
<1>3. CASE Check(t)
  <2>1. CASE Goto(t, "rl_check", "reading")
    BY <2>1, ReadAcquired DEF Abstract!Next
  <2>2. CASE \/ Goto(t, "rl_check", "rl_yield") \/ Goto(t, "ru_check", "ru_signal")
             \/ Goto(t, "ru_check", "loop")
    BY <2>2, SameStatus
  <2> QED
    BY <1>3, <2>1, <2>2 DEF Check, CheckRequest
<1>4. CASE Share(t)
  <2>1. CASE RaiseFlagLocked(t)
    <3>1. Goto(t, "rl_shared", "reading")
      BY <2>1, Zenon DEF RaiseFlagLocked
    <3> QED
      BY <3>1, ReadAcquired DEF Abstract!Next
  <2>2. CASE ShareCs(t) \/ UnshareCs(t)
    BY <2>2, SameStatus DEF ShareCs, UnshareCs
  <2> QED
    BY <1>4, <2>1, <2>2 DEF Share
<1>5. CASE Lower(t)
  <2>1. CASE \E to \in {"loop", "ru_check", "ru_unshare"} : Goto(t, "reading", to)
    <3>1. Abstract!ReleaseRead(t)
      BY <2>1, AbstractChange DEF Abstract!ReleaseRead
    <3> QED
      BY <3>1 DEF Abstract!Next
  <2>2. CASE \E to \in {"rl_wait", "rl_signal"} : Goto(t, "rl_yield", to)
    BY <2>2, SameStatus
  <2> QED
    BY <1>5, <2>1, <2>2, StoreFrame DEF GotoOnly
<1>6. CASE Clear(t)
  <2>1. \E to \in {"wu_signal", "wu_leave"} : Goto(t, "writing", to)
    BY <1>6, StoreFrame DEF GotoOnly
  <2>2. Abstract!ReleaseWrite(t)
    BY <2>1, AbstractChange DEF Abstract!ReleaseWrite
  <2> QED
    BY <2>2 DEF Abstract!Next
<1>7. CASE Scan(t)
  <2>1. CASE FinishScan(t)
    BY <2>1, WriteAcquired DEF Abstract!Next
  <2>2. CASE PassReader(t)
    BY <2>2 DEF PassReader, Status
  <2>3. CASE \E busy \in {"wl_sleep", "wl_wait"} : Goto(t, "wl_scan", busy)
    BY <2>3, SameStatus
  <2> QED
    BY <1>7, <2>1, <2>2, <2>3 DEF Scan, FindReader
<1>8. CASE Raise(t) \/ RequestWrite(t)
  BY <1>8, StoreFrame, SameStatus DEF GotoOnly
<1>9. CASE Exit(t) \/ PushTlsData(t) \/ Enter(t) \/ Leave(t) \/ Signal(t)
  BY <1>9, SameStatus DEF Exit, PushTlsData, Enter, EnterCs, Leave, LeaveCs, Signal, SetReaderDone
<1>10. CASE Wait(t) \/ Sleep(t) \/ WaitReaderDone(t) \/ Reset(t)
  BY <1>10, SameStatus DEF Wait, WaitWriterDone, Sleep, WaitReaderDone, Reset, ResetWriterDone
<1>11. CASE SetWriterDone(t)
  BY <1>11 DEF SetWriterDone, Status, TypeOK
<1> QED
  BY <1>1, <1>2, <1>3, <1>4, <1>5, <1>6, <1>7, <1>8, <1>9, <1>10, <1>11 DEF Move, Harness

\* Each class implements the read-write lock it promises, for any threads.
THEOREM ClassesImplementRWLock == ASSUME BufferSize = 0 PROVE Spec => ImplementsRWLock
<1>1. Init => Abstract!Init
  BY DEF Init, Abstract!Init, StatusOf, ReadPlaces, WritePlaces
<1>2. TypeOK /\ LockInv /\ FlagInv /\ [Next]_vars => [Abstract!Next]_Status
  <2> SUFFICES ASSUME TypeOK, LockInv, FlagInv, [Next]_vars
               PROVE  Abstract!Next \/ Status' = Status
    OBVIOUS
  <2>1. ASSUME NEW t \in Threads, Step(t) PROVE Abstract!Next \/ Status' = Status
    BY <2>1, StepIsMove, MoveMaps
  <2>2. Stop \/ (\E t \in Threads : Drain(t)) \/ UNCHANGED vars => Status' = Status
    BY DEF Stop, Drain, vars, Status
  <2> QED
    BY <2>1, <2>2 DEF Next
<1> QED
  BY <1>1, <1>2, TypeCorrect, LocksConsistent, FlagsConsistent, PTL
  DEF Spec, ImplementsRWLock, Abstract!Spec, Status
=============================================================================
