--------------------------- MODULE MCMuxSession ---------------------------
(* Instances of MuxSession for TLC.                                        *)
EXTENDS MuxSession

(* The client's first packet is cut, padded and followed by padding; the    *)
(* server's scheme cuts the second packet.                                  *)
TwoSchemes ==
    [default |-> [stop |-> 2,
                  sizes |-> 1 :> <<<<3, 3>>, "c", <<4, 4>>, <<0, 2>>, <<1, 1>>, "c", <<9, 9>>>>],
     other   |-> [stop |-> 3,
                  sizes |-> 2 :> <<<<1, 2>>, <<1, 1>>>>]]

(* How many chunks the application writes to each stream.                   *)
ChunkBounds == [C |-> <<1, 1, 0>>, S |-> <<0, 1, 0>>]

(* The hypothesis of StreamsHandOver.                                       *)
ASSUME MCFit == SizesFit
=============================================================================
