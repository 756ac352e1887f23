--------------------------- MODULE TrafficLedger ---------------------------
(***************************************************************************)
(* What traffic accounting promises to the operator: every relayed byte is *)
(* owed to the panel until it is credited there, and it is credited once.  *)
(* Only where the panel's replies may be lost can a byte be credited and   *)
(* still be owed (MayRebook).                                              *)
(***************************************************************************)
EXTENDS Naturals

CONSTANTS Counters,  \* tag, user and direction of a traffic counter
          MayRebook  \* a credit may go unnoticed

VARIABLES owed,      \* bytes relayed and not yet credited, per counter
          credited   \* bytes the panel has credited, per counter

vars == <<owed, credited>>

Init ==
    /\ owed = [c \in Counters |-> 0]
    /\ credited = [c \in Counters |-> 0]

Relay(c) ==
    /\ owed' = [owed EXCEPT ![c] = @ + 1]
    /\ UNCHANGED credited

(* One push credits part of what is owed, for any set of counters.          *)
Push ==
    /\ \A c \in Counters :
          /\ credited'[c] >= credited[c]
          /\ owed'[c] + credited'[c] = owed[c] + credited[c]
    /\ owed' \in [Counters -> Nat]
    /\ credited' \in [Counters -> Nat]

(* The panel credits some of what is owed, and nobody hears of it.          *)
Rebook ==
    /\ MayRebook
    /\ \A c \in Counters : credited'[c] \in credited[c] .. credited[c] + owed[c]
    /\ credited' \in [Counters -> Nat]
    /\ UNCHANGED owed

Next == (\E c \in Counters : Relay(c)) \/ Push \/ Rebook

Spec == Init /\ [][Next]_vars
=============================================================================
