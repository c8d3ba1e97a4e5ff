-------------------------- MODULE CountingSemaphore --------------------------
(***************************************************************************)
(* What P and V promise: a thread that has called P returns from it with a *)
(* permit that nobody else has; V makes one or more permits available.     *)
(* This is the Win32 semaphore of semaphore.h as its callers see it, and   *)
(* the four classes that replace it are shown to implement it, or not to.  *)
(***************************************************************************)
EXTENDS Integers

CONSTANTS Threads, InitialCount
VARIABLES count, waiting

Init == count = InitialCount /\ waiting = {}

CallP(t) ==
    /\ t \notin waiting
    /\ waiting' = waiting \cup {t}
    /\ UNCHANGED count

ReturnFromP(t) ==
    /\ t \in waiting
    /\ count > 0
    /\ count' = count - 1
    /\ waiting' = waiting \ {t}

V == count' > count /\ UNCHANGED waiting

Next == V \/ \E t \in Threads : CallP(t) \/ ReturnFromP(t)

Spec == Init /\ [][Next]_<<count, waiting>>
=============================================================================
