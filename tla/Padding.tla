------------------------------ MODULE Padding ------------------------------
(***************************************************************************)
(* Padding schemes (lib/padding/padding.go) and the cutting of one write   *)
(* into padded packets (lockedWrite in lib/session/session.go).            *)
(*                                                                         *)
(* The connection carries units.  A frame is one header unit, standing for *)
(* the 7 header bytes, that announces len payload units.  A scheme gives,  *)
(* per packet number, a sequence of ranges <<min, max>> and check marks.   *)
(***************************************************************************)
EXTENDS Integers, Sequences, SequencesExt

CONSTANTS
    FieldMod,   \* values of the length field, 2^16 in the code
    Schemes     \* name -> [stop |-> first packet without padding, sizes]

CheckMark == -1
Skipped == 0    \* a range that gives no size
HeaderSize == 1

(* One frame: its header and its payload.                                   *)
Header(cmd, sid, len, arg) ==
    [cmd |-> cmd, sid |-> sid, len |-> len, arg |-> arg]
Unit(sid, arg) == [cmd |-> "unit", sid |-> sid, len |-> 0, arg |-> arg]
Frame(cmd, sid, arg) == <<Header(cmd, sid, 0, arg)>>
LongFrame(cmd, sid, arg) == <<Header(cmd, sid, 1, arg), Unit(sid, arg)>>

(* The header's length field is a uint16.                                   *)
Waste(n) == <<Header("Waste", 0, n % FieldMod, 0)>> \o
            [i \in 1 .. n |-> Unit(0, 0)]

(* Sizes one range may give: rand.Int excludes the upper end unless the     *)
(* range is a single number; a range with a non-positive end is skipped.    *)
RangeSizes(r) ==
    IF r = "c" THEN {CheckMark}
    ELSE LET lo == IF r[1] <= r[2] THEN r[1] ELSE r[2]
             hi == IF r[1] <= r[2] THEN r[2] ELSE r[1]
         IN IF lo <= 0 THEN {Skipped} ELSE IF lo = hi THEN {lo} ELSE lo .. (hi - 1)

(* What each size of one packet may be.                                     *)
GenerateRecordPayloadSizes(scheme, pkt) ==
    LET ranges == IF pkt \in DOMAIN scheme.sizes THEN scheme.sizes[pkt] ELSE <<>>
    IN [i \in 1 .. Len(ranges) |-> RangeSizes(ranges[i])]

(* mutant: the waste header is counted into the payload it announces        *)
PadStepHeader(acc, l) ==
    IF Len(acc.b) \in 1 .. (l - 2)
    THEN [acc EXCEPT !.out = @ \o acc.b \o <<Header("Waste", 0, l - Len(acc.b), 0)>>
                               \o [i \in 1 .. (l - Len(acc.b) - 1) |-> Unit(0, 0)],
                     !.b = <<>>]
    ELSE IF acc.b = <<>> THEN [acc EXCEPT !.halt = TRUE]
    ELSE acc

(* One turn of lockedWrite's loop: what is left to send, what was written,  *)
(* and whether a check mark ended the loop.                                 *)
PadStep(acc, l) ==
    LET left == Len(acc.b)
        pad == l - left - HeaderSize
    IN CASE acc.halt \/ l = Skipped -> acc
         [] ~acc.halt /\ l = CheckMark -> [acc EXCEPT !.halt = (left = 0)]
         [] ~acc.halt /\ l > 0 /\ left > l ->
                [acc EXCEPT !.out = @ \o SubSeq(acc.b, 1, l),
                            !.b = SubSeq(acc.b, l + 1, left)]
         [] ~acc.halt /\ l > 0 /\ left \in 1 .. l ->
                [acc EXCEPT !.out = @ \o acc.b \o
                                    (IF pad > 0 THEN Waste(pad) ELSE <<>>),
                            !.b = <<>>]
         [] OTHER -> [acc EXCEPT !.out = @ \o Waste(l)]

PadSteps(accs, sizes) == {PadStep(acc, l) : acc \in accs, l \in sizes}

(* Everything one write may put on the connection.                          *)
Padded(b, sizes) ==
    LET turn[i \in 0 .. Len(sizes)] ==
            IF i = 0 THEN {[b |-> b, out |-> <<>>, halt |-> FALSE]}
            ELSE PadSteps(turn[i - 1], sizes[i])
    IN {end.out \o end.b : end \in turn[Len(sizes)]}

(* The sizes of every scheme fit the length field.  The code does not check *)
(* this: padding of 2^16 bytes or more would be announced modulo 2^16.      *)
SizesFit ==
    \A name \in DOMAIN Schemes : \A pkt \in DOMAIN Schemes[name].sizes :
        LET ranges == Schemes[name].sizes[pkt]
        IN \A i \in 1 .. Len(ranges) :
                RangeSizes(ranges[i]) \subseteq CheckMark .. (FieldMod - 1)
=============================================================================
