--------------------------- MODULE MCSemaphores ---------------------------
(* Semaphores on small instances. *)
EXTENDS Semaphores, TLC

FerrySymmetry == Permutations(Ferries) \cup Permutations(Passengers)
=============================================================================
