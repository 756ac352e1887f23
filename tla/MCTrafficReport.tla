-------------------------- MODULE MCTrafficReport --------------------------
(* Instances of TrafficReport for TLC.                                     *)
EXTENDS TrafficReport, TLC

Symmetry == Permutations(Users) \cup Permutations(Tags)
=============================================================================
