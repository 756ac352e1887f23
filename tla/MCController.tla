--------------------------- MODULE MCController ---------------------------
(* Instances of Controller for TLC.                                       *)
EXTENDS Controller, TLC

CONSTANTS n1, n2, n3, t1, t2

(* Two nodes that share a tag and one on a tag of its own.                *)
TagOfThree == (n1 :> t1) @@ (n2 :> t1) @@ (n3 :> t2)
TagOfSame  == (n1 :> t1) @@ (n2 :> t1)
TagOfTwo   == (n1 :> t1) @@ (n2 :> t2)

Symmetry == Permutations(UIDs) \cup Permutations(UUIDs)
===========================================================================
