---------------------------- MODULE MCBoarding ----------------------------
(* Boarding on small instances. *)
EXTENDS Boarding, TLC

PortSymmetry == Permutations(FerryPids) \cup Permutations(PassengerPids)
=============================================================================
