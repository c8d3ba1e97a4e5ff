----------------------------- MODULE PlainLocks -----------------------------
(***************************************************************************)
(* CriticalSection and Mutex as classes under test.  Readers get exclusive *)
(* access: ReadLock is WriteLock.  Both are recursive, which no thread of  *)
(* the harness makes use of.                                               *)
(***************************************************************************)
EXTENDS QueueLocks

PlainClasses == {"CriticalSection", "Mutex"}

PlainWriteLock(t) == EnterWriter(t, "wl_enter", "writing")
PlainWriteUnlock(t) == LeaveWriter(t, "writing", "loop")
PlainReadLock(t) == EnterWriter(t, "rl_enter", "reading")
PlainReadUnlock(t) == LeaveWriter(t, "reading", "loop")

PlainStep(t) ==
    /\ TMutex \in PlainClasses
    /\ \/ PlainWriteLock(t) \/ PlainWriteUnlock(t)
       \/ PlainReadLock(t)  \/ PlainReadUnlock(t)
=============================================================================
