--------------------------- MODULE MCQueueMutexes ---------------------------
(* QueueMutexes on a few threads; see the .cfg files for the instances.    *)
EXTENDS QueueMutexes, TLC

QueueClasses == {"Fair", "FairCs", "Qt", "Cohort", "Ticketed"}
AllClasses == QueueClasses \cup SingleClasses \cup PlainClasses
FairOnly == {"Fair"}

\* All crews with r readers and w writers, numbers such as DoTests and
\* TestUltraSingleReadWriteMutex choose, and one of them.
Crews(r, w) == {c \in SUBSET Threads : /\ Cardinality(c \cap Readers) = r
                                       /\ Cardinality(c \cap Writers) = w}
OneCrew(r, w) == {CHOOSE c \in Crews(r, w) : TRUE}

MediumTrials ==
    [c \in Classes |->
        CASE c \in SingleClasses -> Crews(0, 1) \cup Crews(1, 0) \cup Crews(1, 2)
          [] c = "Ticketed" -> Crews(1, 2) \cup Crews(2, 1)
          [] OTHER -> Crews(2, 2)]
Crowd == Crews(4, 1)

SmallTrials ==
    [c \in Classes |->
        CASE c \in SingleClasses \cup {"Ticketed"} -> OneCrew(1, 2)
          [] c = "Cohort" -> OneCrew(2, 1)
          [] OTHER -> OneCrew(2, 2)]
NoCrowd == {}

Symmetry == Permutations(Readers) \cup Permutations(Writers)
=============================================================================
