------------------------------ MODULE Sniffer ------------------------------
(***************************************************************************)
(* Sniffing (app/mydispatcher/sniffer.go, fakednssniffer.go) and the       *)
(* decision to override the destination (default.go shouldOverride).       *)
(*                                                                         *)
(* A payload is described by the protocol it speaks and the number of      *)
(* chunks its recogniser needs; an address by what the FakeDNS engine says *)
(* of it: "absent" (no engine), "miss" (not of its pool), "pool" (of its   *)
(* pool, domain forgotten), "hit" (domain known).  panel.go configures no  *)
(* engine; the code is written for both.                                   *)
(***************************************************************************)
EXTENDS Integers, SequencesExt

CONSTANTS
    Override,   \* OverrideDestinationForProtocol
    Excluded    \* domains ExcludeForDomain matches

(* A sniffing result; domainProtocol differs from protocol in a composite,  *)
(* original is the protocol behind "fakedns+others".                        *)
Result(protocol, domain, domainProtocol, original) ==
    [err |-> "nil", protocol |-> protocol, domain |-> domain,
     domainProtocol |-> domainProtocol, original |-> original]

Failure(err) ==
    [err |-> err, protocol |-> "", domain |-> "", domainProtocol |-> "", original |-> ""]

(* The recognisers of xray-core on the first n chunks.  BitTorrent names no *)
(* domain.                                                                  *)
Recognise(conn, p, n) ==
    CASE conn.speaks # p -> Failure("other")
      [] conn.speaks = p /\ n < conn.needs -> Failure("NoClue")
      [] OTHER -> Result(p, IF p = "bittorrent" THEN "" ELSE "name", p, "")

(* The first of an ordered list that belongs to S.                          *)
FirstOf(order, S) == order[Min({i \in DOMAIN order : order[i] \in S})]

Others == {"http", "tls", "bittorrent"}

(* mutant: fakedns+others is tried last                                     *)
OrderLast == <<"http", "tls", "bittorrent", "fakedns", "fakedns+others">>

(* The order of a Sniffer's list.  Sniffing only removes from the list, so  *)
(* a set and this order describe it.                                        *)
Order == <<"fakedns+others", "http", "tls", "bittorrent", "fakedns">>

NewSniffer(conn) ==
    IF conn.fake = "absent" THEN Others ELSE Others \cup {"fakedns+others", "fakedns"}

FakeDNS(conn) ==
    IF conn.fake = "hit" THEN Result("fakedns", "alias", "fakedns", "") ELSE Failure("NoClue")

(* An address of the pool without a domain: the first of the others that    *)
(* recognises the payload lends its domain.                                 *)
FakeDNSThenOthers(conn, n) ==
    LET found == {p \in Others : Recognise(conn, p, n).err = "nil"} IN
    CASE conn.fake = "hit" -> FakeDNS(conn)
      [] conn.fake = "pool" /\ found # {} ->
            LET r == Recognise(conn, FirstOf(Order, found), n)
            IN Result("fakedns+others", r.domain, "fakedns+others", r.protocol)
      [] OTHER -> Failure("NoClue")

Try(conn, si, n) ==
    CASE si = "fakedns" -> FakeDNS(conn)
      [] si = "fakedns+others" -> FakeDNSThenOthers(conn, n)
      [] OTHER -> Recognise(conn, si, n)

(* Sniff and SniffMetadata: the first result in the order; without one, the *)
(* sniffers that may still succeed stay pending.                            *)
Scan(results, tried, pending) ==
    LET found == {si \in tried : results[si].err = "nil"}
        left == {si \in pending : si \in tried => results[si].err = "NoClue"}
    IN IF found # {} THEN [result |-> results[FirstOf(Order, found)], pending |-> pending]
       ELSE IF left # {} THEN [result |-> Failure("NoClue"), pending |-> left]
       ELSE [result |-> Failure("unknown"), pending |-> pending]

Sniff(conn, pending, n) ==
    LET tried == pending \ {"fakedns"}
    IN Scan([si \in tried |-> Try(conn, si, n)], tried, tried)

SniffMetadata(conn, pending) ==
    LET tried == pending \cap {"fakedns"}
    IN Scan([si \in tried |-> Try(conn, si, 0)], tried, pending)

CompositeResult(meta, content) ==
    Result(content.protocol, meta.domain, meta.protocol, "")

(* What sniffer() returns of the two.                                       *)
Combined(meta, content) ==
    CASE content.err # "nil" /\ meta.err = "nil" -> meta
      [] content.err = "nil" /\ meta.err = "nil" -> CompositeResult(meta, content)
      [] OTHER -> content

(* strings.HasPrefix on the protocol names that occur.                      *)
HasPrefix(s, p) == s = p \/ (s = "fakedns+others" /\ p = "fakedns")

ShouldOverride(conn, r) ==
    /\ r.domain # "" /\ r.domain \notin Excluded
    /\ \E p \in Override :
          \/ HasPrefix(r.domainProtocol, p)
          \/ /\ r.domainProtocol # "bittorrent" /\ p = "fakedns"
             /\ conn.fake \in {"pool", "hit"}
          \/ r.original # "" /\ HasPrefix(p, r.original)
=============================================================================
