--------------------------- MODULE MCFlagMutexes ---------------------------
(* FlagMutexes on a few threads; see the .cfg files for the instances.     *)
EXTENDS FlagMutexes, TLC

AllClasses == {"UltraSpin", "UltraFast", "UltraLight", "FastSlim"}
UltraFastOnly == {"UltraFast"}

\* Readers are alike and so are writers (used where no liveness is checked).
Symmetry == Permutations(Readers) \cup Permutations(Writers)
=============================================================================
