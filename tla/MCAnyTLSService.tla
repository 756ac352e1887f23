------------------------- MODULE MCAnyTLSService -------------------------
(* Instances of AnyTLSService for TLC.                                   *)
EXTENDS AnyTLSService, TLC

(* For the safety runs only: sessions, hashes and updaters are alike.    *)
Symmetry == Permutations(Sessions) \cup Permutations(Passwords)
                \cup Permutations(Updaters)
=============================================================================
