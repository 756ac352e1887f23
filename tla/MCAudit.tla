------------------------------ MODULE MCAudit ------------------------------
(* Instances of Audit for TLC.                                             *)
EXTENDS Audit

CONSTANTS d1, d2, d3

Rule(i, d, on) == [id |-> i, dest |-> d, enable |-> on]

(* Lists the panel serves: none, one rule, two of which the first shadows  *)
(* or does not compile, one that is switched off.                          *)
Lists ==
    { <<>>,
      <<Rule(1, d1, TRUE)>>,
      <<Rule(2, NoDest, TRUE), Rule(1, d1, TRUE)>>,
      <<Rule(1, d1, TRUE), Rule(2, d2, TRUE)>>,
      <<Rule(1, d1, FALSE), Rule(2, d1, TRUE)>> }

(* A bad pattern before a good one, and a rule switched off before a good  *)
(* one: the smallest lists the properties tell apart.                      *)
SomeLists ==
    { <<Rule(2, NoDest, TRUE), Rule(1, d1, TRUE)>>,
      <<Rule(1, d1, FALSE), Rule(2, d1, TRUE)>> }

Nothing == <<>>
LocalD3 == <<d3>>
RouteD2 == <<d2>>

Symmetry == Permutations(Conns \ Anonymous) \cup Permutations(Users)
=============================================================================
