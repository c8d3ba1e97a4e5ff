---------------------------- MODULE MCSemaphores ----------------------------
(* Semaphores on a few threads; see the .cfg files for the instances.      *)
EXTENDS Semaphores

AllClasses == {"Csev", "FastSt", "Csev2", "Unslow"}
CsevOnly == {"Csev"}
UnslowOnly == {"Unslow"}
=============================================================================
