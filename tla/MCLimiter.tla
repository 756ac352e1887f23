----------------------------- MODULE MCLimiter -----------------------------
(* Instances of Limiter for TLC.                                           *)
EXTENDS Limiter, TLC

(* Connections are interchangeable, addresses too; no liveness is checked. *)
Symmetry == Permutations(Conns) \cup Permutations(IPs)
=============================================================================
