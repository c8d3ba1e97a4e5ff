------------------------------- MODULE RWLock -------------------------------
(***************************************************************************)
(* What every "read and write lock" of the repository promises its         *)
(* callers, with no word on how: any number of threads read together, a    *)
(* thread that writes is alone.  A call that has been made but has not     *)
(* returned is "wantRead" or "wantWrite"; a lock is given up at one point  *)
(* inside the unlock call.  The mutex classes are shown to implement it.   *)
(***************************************************************************)
CONSTANT Threads
VARIABLE status

Statuses == {"idle", "wantRead", "reading", "wantWrite", "writing"}

Init == status = [t \in Threads |-> "idle"]

Change(t, from, to) ==
    /\ status[t] = from
    /\ status' = [status EXCEPT ![t] = to]

Reading == {t \in Threads : status[t] = "reading"}
Writing == {t \in Threads : status[t] = "writing"}

RequestRead(t)  == Change(t, "idle", "wantRead")
AcquireRead(t)  == Writing = {} /\ Change(t, "wantRead", "reading")
ReleaseRead(t)  == Change(t, "reading", "idle")
RequestWrite(t) == Change(t, "idle", "wantWrite")
AcquireWrite(t) == Reading \cup Writing = {} /\ Change(t, "wantWrite", "writing")
ReleaseWrite(t) == Change(t, "writing", "idle")

Next ==
    \E t \in Threads :
        \/ RequestRead(t)  \/ AcquireRead(t)  \/ ReleaseRead(t)
        \/ RequestWrite(t) \/ AcquireWrite(t) \/ ReleaseWrite(t)

Spec == Init /\ [][Next]_status
=============================================================================
