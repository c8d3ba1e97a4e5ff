---------------------------- MODULE MCWinFutexes ----------------------------
(* WinFutexes on a few threads; see the .cfg files for the instances.      *)
EXTENDS WinFutexes

BothClasses == {"WinFutexRecC", "WinFutexRecEvC"}
RecOnly == {"WinFutexRecC"}
=============================================================================
