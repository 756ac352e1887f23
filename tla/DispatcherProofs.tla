-------------------------- MODULE DispatcherProofs --------------------------
(***************************************************************************)
(* What the dispatcher does to one connection, for any length of stream,   *)
(* size of pipe and sniffing payload, and any rules and overrides: the     *)
(* outbound reads what the client sent, the slot is given back once and    *)
(* the link ends, bytes are counted before they are delivered, and rules,  *)
(* router and outbound agree on the destination.                           *)
(***************************************************************************)
EXTENDS Dispatcher, NaturalsInduction, WellFoundedInduction, SequenceTheorems,
        TLAPS

Sniffers == {"fakedns+others", "http", "tls", "bittorrent", "fakedns"}
Pipe == [data : Seq(Nat), st : {"open", "closed", "errord"}]

(* Where the two goroutines may be together.                                *)
Control ==
    /\ conn \in Conns
    /\ caller \in {"start", "copy", "wait", "returned", "gone"}
    /\ client \in {"open", "closed", "aborted", "reset"}
    /\ ctx \in {"live", "canceled"}
    /\ disp \in {"off", "sniff", "attempt", "route", "handle", "done"}
    /\ attempts \in 0 .. 2
    /\ caller = "start" <=> disp = "off"
    /\ caller = "start" => client = "open"
    /\ caller = "copy" => ~Linked
    /\ caller \in {"wait", "gone"} => Linked

Pipes ==
    /\ up \in Pipe /\ down \in {"open", "closed", "errord"}
    /\ cache \in Seq(Nat) /\ got \in Seq(Nat)
    /\ sent \in 0 .. MaxChunks
    /\ seen \in {"none", "eof", "err"}

(* Chunks are numbered on through what was read, what the sniffer cached    *)
(* and what waits; none is missing while the pipe has not been interrupted. *)
InOrder ==
    /\ \A i \in 1 .. Len(got) : got[i] = i
    /\ disp # "done" =>
          /\ \A i \in 1 .. Len(cache) : cache[i] = Len(got) + i
          /\ \A i \in 1 .. Len(up.data) : up.data[i] = Len(got) + Len(cache) + i

Complete ==
    /\ Len(got) <= sent /\ Len(up.data) <= sent
    /\ disp # "done" =>
          /\ Len(got) + Len(cache) + Len(up.data) <= sent
          /\ up.st # "errord" => Len(got) + Len(cache) + Len(up.data) = sent
    /\ seen # "none" => up.st # "open"
    /\ seen = "eof" => Len(got) = sent

(* Only the client closes what the outbound still reads.                    *)
ClosedByClient ==
    /\ disp # "done" /\ up.st = "closed" /\ ~(Rated /\ ~Linked) => client \in {"closed", "reset"}
    /\ EofMeansClosed

(* Which bytes the counter stands for.                                      *)
Counter ==
    /\ counted \in Nat
    /\ ~Stats => counted = 0
    /\ Stats /\ ~Linked => counted = sent
    /\ Stats /\ Linked => counted = Len(got)

(* Who owes the release of the slot.                                        *)
Slots ==
    /\ releases \in 0 .. 1
    /\ Linked /\ disp = "done" /\ Tracked => releases = 1
    /\ ~Linked /\ (client # "open" \/ caller = "returned") /\ Tracked => releases = 1

Disposed == LinkDisposed /\ (disp = "off" => cache = <<>>)

(* The destination that is routed to.                                       *)
Chosen == IF routeTarget # "" THEN routeTarget ELSE target

Destinations ==
    /\ pending \subseteq Sniffers
    /\ conn.fake = "hit" => pending = NewSniffer(conn)
    /\ target \in {"ip", "fakeip", "name", "alias"}
    /\ routeTarget \in {"", "name", "alias"}
    /\ tag \in {"", "forced", "routed", "inbound", "default"}
    /\ disp \in {"off", "sniff", "attempt"} => routeTarget = "" /\ target = Address
    /\ disp \in {"off", "sniff", "attempt", "route"} => tag = ""

Audited ==
    /\ disp = "route" \/ tag # "" => audited = Chosen
    /\ routeTarget # "" => conn.routeOnly /\ target = Address
    /\ tag # "" /\ conn.user # "none" => audited \notin Banned

(* FakeDNS knows the domain, and the connection is sniffed.                 *)
Resolvable ==
    conn.fake = "hit" /\ conn.sniff # "off" /\ ~RoutesInCaller /\ "fakedns" \in Override

Resolved == Resolvable /\ (disp = "route" \/ tag # "") => target # "fakeip"

IInv == Control /\ Pipes /\ InOrder /\ Complete /\ ClosedByClient /\ Counter /\ Slots
          /\ Disposed /\ SessionOutlivesRouting /\ Destinations /\ Audited

-----------------------------------------------------------------------------
(* Sequences, pipes and the wrappers around them.                           *)

LEMMA LeastElement ==
  ASSUME NEW T \in SUBSET Nat, T # {}
  PROVE  \E x \in T : \A y \in T : x <= y
<1> DEFINE R == OpToRel(<, Nat)
<1>1. IsWellFoundedOn(R, Nat)  BY NatLessThanWellFounded
<1>2. \A x, y \in Nat : x < y => <<x, y>> \in R  BY DEF OpToRel
<1> HIDE DEF R
<1>3. PICK x \in T : \A y \in T : ~ (<<y, x>> \in R)  BY <1>1, WFMin
<1>4. ASSUME NEW y \in T PROVE x <= y
  <2>1. ~(y < x)  BY <1>2, <1>3
  <2>2. x \in Nat /\ y \in Nat  OBVIOUS
  <2> QED BY <2>1, <2>2
<1> QED BY <1>4

(* The first of a list in S is of the list and in S, and no earlier one is. *)
LEMMA FirstOfIn ==
  ASSUME NEW X, NEW order \in Seq(X), NEW S, NEW k \in 1 .. Len(order), order[k] \in S
  PROVE  \E i \in 1 .. Len(order) :
            /\ FirstOf(order, S) = order[i] /\ order[i] \in S
            /\ i <= k
<1> DEFINE T == {i \in DOMAIN order : order[i] \in S}
<1>1. DOMAIN order = 1 .. Len(order) /\ Len(order) \in Nat  BY LenProperties
<1>2. T \in SUBSET Nat /\ k \in T  BY <1>1
<1>3. \E x \in T : \A y \in T : x <= y  BY <1>2, LeastElement
<1>4. Min(T) \in T /\ Min(T) <= k  BY <1>2, <1>3 DEF Min
<1>5. FirstOf(order, S) = order[Min(T)]  BY DEF FirstOf
<1> QED BY <1>1, <1>4, <1>5

(* A step on a pipe keeps what it holds or drops all of it, never reopens   *)
(* it, and an interrupt leaves a pipe closed only if it was and was empty.  *)
LEMMA PipeOpFacts ==
  ASSUME NEW p \in Pipe, NEW op \in {"Close", "Interrupt", "none"}
  PROVE  /\ PipeOp(op, p) \in Pipe
         /\ PipeOp(op, p).data = IF op = "Interrupt" THEN <<>> ELSE p.data
         /\ PipeOp(op, p).st = "open" => op = "none" /\ p.st = "open"
         /\ op = "none" => PipeOp(op, p).st = p.st
         /\ op = "Close" => PipeOp(op, p).st = IF p.st = "open" THEN "closed" ELSE p.st
         /\ op = "Interrupt" /\ PipeOp(op, p).st = "closed" => p.st = "closed" /\ p.data = <<>>
         /\ op = "Interrupt" /\ p.st # "closed" => PipeOp(op, p).st = "errord"
<1>1. <<>> \in Seq(Nat) /\ p.data \in Seq(Nat) /\ p.st \in {"open", "closed", "errord"}
  BY EmptySeq DEF Pipe
<1>2. CASE op = "Close"  BY <1>1, <1>2 DEF PipeOp, PipeState, Pipe
<1>3. CASE op = "Interrupt"  BY <1>1, <1>3 DEF PipeOp, PipeState, Pipe
<1>4. CASE op = "none"  BY <1>1, <1>4 DEF PipeOp, PipeState, Pipe
<1> QED BY <1>2, <1>3, <1>4

LEMMA PipeStateFacts ==
  ASSUME NEW st \in {"open", "closed", "errord"}, NEW op \in {"Close", "Interrupt"}, NEW e
  PROVE  PipeState(op, st, e) \in {"closed", "errord"}
BY DEF PipeState

LEMMA WrapperFacts ==
  /\ \A op \in {"Close", "Interrupt"} : ThroughWriter(op) \in {"Close", "Interrupt"}
  /\ ThroughReader \in {"Interrupt", "none"}
  /\ ThroughReader = "none" <=> Linked /\ Rated
BY DEF ThroughWriter, ThroughReader

(* The end of the routing side's link, by whatever path.                    *)
LEMMA EndLinkFacts ==
  ASSUME Pipes, NEW op \in {"Close", "Interrupt"}, EndLink(op)
  PROVE  /\ up' \in Pipe /\ down' \in {"open", "closed", "errord"}
         /\ cache' = <<>>
         /\ up'.data = up.data \/ up'.data = <<>>
         /\ up'.st = "open" => up.st = "open"
         /\ conn.reader = "pipe" => down' # "open" /\ (up'.st = "open" => Linked /\ Rated)
         /\ releases' = IF Linked THEN Release ELSE releases
<1>1. up \in Pipe /\ down \in {"open", "closed", "errord"}  BY DEF Pipes
<1>2. ThroughReader \in {"Close", "Interrupt", "none"}
  BY WrapperFacts
<1>3. ThroughWriter(op) \in {"Close", "Interrupt"}  BY WrapperFacts
<1> DEFINE p == PipeOp(ThroughReader, up)
<1>4. /\ p \in Pipe
      /\ p.data = IF ThroughReader = "Interrupt" THEN <<>> ELSE up.data
      /\ p.st = "open" => ThroughReader = "none" /\ up.st = "open"
  BY <1>1, <1>2, PipeOpFacts
<1>5. PipeState(ThroughWriter(op), down, TRUE) \in {"closed", "errord"}
  BY <1>1, <1>3, PipeStateFacts
<1>6. p.st = "open" => Linked /\ Rated  BY <1>4, WrapperFacts
<1> HIDE DEF p
<1>7. up' = IF conn.reader = "pipe" THEN p ELSE up  BY DEF EndLink, p
<1>8. down' = IF conn.reader = "pipe" THEN PipeState(ThroughWriter(op), down, TRUE) ELSE down
  BY DEF EndLink
<1>9. cache' = <<>> /\ releases' = IF Linked THEN Release ELSE releases  BY DEF EndLink
<1>10. up'.data = up.data \/ up'.data = <<>>  BY <1>4, <1>7
<1> QED BY <1>1, <1>4, <1>5, <1>6, <1>7, <1>8, <1>9, <1>10

-----------------------------------------------------------------------------
(* The connection never changes.                                            *)
LEMMA SameConn ==
  ASSUME [Next]_vars
  PROVE  /\ conn' = conn
         /\ Linked' = Linked /\ Stats' = Stats /\ Rated' = Rated /\ Tracked' = Tracked
         /\ IsPipeReader' = IsPipeReader /\ RoutesInCaller' = RoutesInCaller
<1>1. conn' = conn
  BY DEF Next, vars, Enter, Client, Inbound, Sniffing, Routing, Handling, DispatchRefused,
         Dispatch, DispatchLinkRefused, DispatchLink, ClientSends, ClientCloses, ClientAborts,
         CallerReturns, ConnectionCloses, SniffStarts, SniffCanceled, SniffTimeout,
         SniffAttempt, RuleRejects, RoutedDispatch, HandlerReads, HandlerSeesEnd,
         HandlerStops, HandlerEnds, UpstreamEnds
<1> QED BY <1>1 DEF Linked, Stats, Rated, Tracked, IsPipeReader, RoutesInCaller

LEMMA InitInv == Init => IInv
<1> SUFFICES ASSUME Init PROVE IInv  OBVIOUS
<1>1. <<>> \in Seq(Nat) /\ Len(<<>>) = 0  BY EmptySeq
<1>a. /\ conn \in Conns /\ caller = "start" /\ client = "open" /\ ctx = "live" /\ disp = "off"
      /\ attempts = 0 /\ sent = 0 /\ counted = 0 /\ releases = 0
  BY DEF Init
<1>b. /\ up = [data |-> <<>>, st |-> "open"] /\ down = "open" /\ cache = <<>> /\ got = <<>>
      /\ seen = "none"
  BY DEF Init
<1>2. Control  BY <1>a DEF Control
<1>3. Pipes  BY <1>1, <1>a, <1>b, DispatcherAssumption DEF Pipes, Pipe
<1>4. InOrder /\ Complete  BY <1>1, <1>a, <1>b DEF InOrder, Complete
<1>5. ClosedByClient /\ Counter /\ Slots
  BY <1>1, <1>a, <1>b DEF ClosedByClient, EofMeansClosed, Counter, Slots
<1>6. Disposed /\ SessionOutlivesRouting
  BY <1>a, <1>b DEF Disposed, LinkDisposed, SessionOutlivesRouting
<1>7. Destinations
  BY DEF Init, Destinations, NewSniffer, Others, Sniffers, Address
<1>8. Audited  BY DEF Init, Audited
<1> QED BY <1>2, <1>3, <1>4, <1>5, <1>6, <1>7, <1>8 DEF IInv

LEMMA ControlStep ==
  ASSUME Control, [Next]_vars
  PROVE  Control'
<1>0. conn' = conn /\ Linked' = Linked  BY SameConn
<1>1. CASE DispatchRefused  BY <1>0, <1>1 DEF DispatchRefused, Control, sniffVars
<1>2. CASE Dispatch  BY <1>0, <1>2 DEF Dispatch, StartRouting, Control, sniffVars
<1>3. CASE DispatchLinkRefused  BY <1>0, <1>3 DEF DispatchLinkRefused, Control, sniffVars
<1>4. CASE DispatchLink  BY <1>0, <1>4 DEF DispatchLink, StartRouting, Control, sniffVars
<1>5. CASE ClientSends  BY <1>0, <1>5 DEF ClientSends, Control, sniffVars
<1>6. CASE ClientCloses  BY <1>0, <1>6 DEF ClientCloses, Control, sniffVars
<1>7. CASE ClientAborts  BY <1>0, <1>7 DEF ClientAborts, Control, sniffVars
<1>8. CASE CallerReturns  BY <1>0, <1>8 DEF CallerReturns, Control, sniffVars
<1>9. CASE ConnectionCloses  BY <1>0, <1>9 DEF ConnectionCloses, Control, sniffVars
<1>10. CASE SniffStarts  BY <1>0, <1>10 DEF SniffStarts, Control
<1>11. CASE SniffCanceled  BY <1>0, <1>11 DEF SniffCanceled, Sniffed, Control, sniffVars
<1>12. CASE SniffTimeout  BY <1>0, <1>12 DEF SniffTimeout, Sniffed, Control, sniffVars
<1>13. CASE SniffAttempt
  <2>1. disp' \in {"attempt", "route"} /\ disp = "attempt"
    BY <1>13 DEF SniffAttempt, Sniffed
  <2>2. attempts' \in 0 .. 2 /\ UNCHANGED <<caller, client, ctx>>
    BY <1>13 DEF SniffAttempt, MayAttempt, Control
  <2> QED BY <1>0, <2>1, <2>2 DEF Control
<1>14. CASE RuleRejects  BY <1>0, <1>14 DEF RuleRejects, Control, sniffVars
<1>15. CASE RoutedDispatch
  <2>1. disp' \in {"done", "handle"} /\ disp = "route" /\ UNCHANGED <<caller, client, ctx, attempts>>
    BY <1>15 DEF RoutedDispatch, sniffVars
  <2> QED BY <1>0, <2>1 DEF Control
<1>16. CASE HandlerReads  BY <1>0, <1>16 DEF HandlerReads, Control, sniffVars
<1>17. CASE HandlerSeesEnd  BY <1>0, <1>17 DEF HandlerSeesEnd, Control, sniffVars
<1>18. CASE HandlerStops \/ UpstreamEnds
  BY <1>0, <1>18 DEF HandlerStops, UpstreamEnds, HandlerEnds, Control, sniffVars
<1>19. CASE UNCHANGED vars  BY <1>0, <1>19 DEF vars, Control
<1> QED BY <1>1, <1>2, <1>3, <1>4, <1>5, <1>6, <1>7, <1>8, <1>9, <1>10, <1>11, <1>12, <1>13,
           <1>14, <1>15, <1>16, <1>17, <1>18, <1>19
        DEF Next, Enter, Client, Inbound, Sniffing, Routing, Handling

-----------------------------------------------------------------------------
(* The stream.  Four kinds of steps touch it: none, an operation on the     *)
(* pipe, the end of routing, and the moves of data.                         *)
Stream == Pipes /\ InOrder /\ Complete /\ ClosedByClient
streamVars == <<up, down, cache, got, sent, seen>>

(* Sums of three lengths.                                                   *)
LEMMA SumShrinks == \A a, b, c, d, n \in Nat : a + b + c <= n /\ d <= c => a + b + d <= n
OBVIOUS

LEMMA SumBound == \A a, b, c, n \in Nat : a + b + c = n => a + b + c <= n
OBVIOUS

LEMMA StreamQuiet ==
  ASSUME Stream, Linked' = Linked, Rated' = Rated, UNCHANGED streamVars, client' = client,
         disp = "done" => disp' = "done"
  PROVE  Stream'
<1>1. UNCHANGED <<up, down, cache, got, sent, seen>>  BY DEF streamVars
<1>2. Pipes'  BY <1>1 DEF Stream, Pipes
<1>3. InOrder'  BY <1>1 DEF Stream, InOrder
<1>4. Complete'  BY <1>1 DEF Stream, Complete
<1>5. ClosedByClient'  BY <1>1 DEF Stream, ClosedByClient, EofMeansClosed
<1> QED BY <1>2, <1>3, <1>4, <1>5 DEF Stream

(* Close or Interrupt of the pipe, with the client's end that explains it.  *)
LEMMA StreamOp ==
  ASSUME Stream, Linked' = Linked, Rated' = Rated,
         NEW op \in {"Close", "Interrupt"}, up' = PipeOp(op, up),
         down' \in {"open", "closed", "errord"},
         UNCHANGED <<cache, got, sent, seen, disp>>,
         client \in {"closed", "reset"} => client' \in {"closed", "reset"},
         op = "Close" /\ up.st = "open" /\ ~(Rated /\ ~Linked) => client' \in {"closed", "reset"}
  PROVE  Stream'
<1> USE DEF Stream
<1>1. up \in Pipe  BY DEF Pipes
<1>2. /\ up' \in Pipe
      /\ up'.data = IF op = "Interrupt" THEN <<>> ELSE up.data
      /\ up'.st # "open"
      /\ op = "Close" => up'.st = IF up.st = "open" THEN "closed" ELSE up.st
      /\ op = "Interrupt" /\ up'.st = "closed" => up.st = "closed" /\ up.data = <<>>
  BY <1>1, PipeOpFacts
<1>3. Pipes'  BY <1>2 DEF Pipes
<1>4. /\ Len(<<>>) = 0
      /\ Len(up.data) \in Nat /\ Len(cache) \in Nat /\ Len(got) \in Nat /\ sent \in Nat
  BY <1>1, EmptySeq, LenProperties, DispatcherAssumption DEF Pipes, Pipe
<1>5. InOrder'  BY <1>2, <1>4 DEF InOrder
<1>6. up'.st # "errord" => up'.data = up.data /\ up.st # "errord"
  BY <1>1, <1>2 DEF Pipe
<1>7. Len(up'.data) \in Nat /\ Len(up'.data) <= Len(up.data)  BY <1>2, <1>4
<1>8. Complete'
  <2>1. Len(got') <= sent' /\ Len(up'.data) <= sent'  BY <1>4, <1>7 DEF Complete
  <2>2. ASSUME disp' # "done"
        PROVE  /\ Len(got') + Len(cache') + Len(up'.data) <= sent'
               /\ up'.st # "errord" => Len(got') + Len(cache') + Len(up'.data) = sent'
    <3>1. /\ Len(got) + Len(cache) + Len(up.data) <= sent
          /\ up.st # "errord" => Len(got) + Len(cache) + Len(up.data) = sent
      BY <2>2 DEF Complete
    <3>2. Len(got') = Len(got) /\ Len(cache') = Len(cache) /\ sent' = sent  OBVIOUS
    <3>3. Len(got') + Len(cache') + Len(up'.data) <= sent'
      <4>1. Len(got) + Len(cache) + Len(up'.data) <= sent
        BY <1>4, <1>7, <3>1, SumShrinks
      <4> QED BY <3>2, <4>1
    <3> QED BY <1>6, <3>1, <3>2, <3>3
  <2>3. (seen' # "none" => up'.st # "open") /\ (seen' = "eof" => Len(got') = sent')
    BY <1>2 DEF Complete
  <2> QED BY <2>1, <2>2, <2>3 DEF Complete
<1>9. ClosedByClient'  BY <1>1, <1>2 DEF ClosedByClient, EofMeansClosed, Pipe
<1> QED BY <1>3, <1>5, <1>8, <1>9

(* The end of routing: the outbound reads no more.                          *)
LEMMA StreamEnds ==
  ASSUME Stream, Linked' = Linked, Rated' = Rated, UNCHANGED <<client, got, sent, seen>>,
         disp' = "done", cache' = <<>>, up' \in Pipe,
         down' \in {"open", "closed", "errord"},
         up'.data = up.data \/ up'.data = <<>>, up'.st = "open" => up.st = "open"
  PROVE  Stream'
<1> USE DEF Stream
<1>1. /\ Len(<<>>) = 0 /\ <<>> \in Seq(Nat)
      /\ Len(up.data) \in Nat /\ Len(got) \in Nat /\ sent \in Nat
  BY EmptySeq, LenProperties, DispatcherAssumption DEF Pipes, Pipe
<1>2. Pipes'  BY <1>1 DEF Pipes
<1>3. InOrder'  BY DEF InOrder
<1>4. Complete'  BY <1>1 DEF Complete
<1>5. ClosedByClient'  BY DEF ClosedByClient, EofMeansClosed
<1> QED BY <1>2, <1>3, <1>4, <1>5

(* ClientSends appends the next chunk.                                      *)
LEMMA StreamSends ==
  ASSUME Control, Stream, Linked' = Linked, Rated' = Rated, ClientSends
  PROVE  Stream'
<1> USE DEF Stream
<1>1. /\ client = "open" /\ up.st = "open" /\ sent < MaxChunks /\ sent' = sent + 1
      /\ up' = [up EXCEPT !.data = Append(@, sent + 1)]
      /\ UNCHANGED <<client, disp, down, cache, got, seen>>
  BY DEF ClientSends
<1>2. /\ Len(up.data) \in Nat /\ Len(cache) \in Nat /\ Len(got) \in Nat
      /\ sent \in Nat /\ sent + 1 \in Nat /\ MaxChunks \in Nat /\ up.data \in Seq(Nat)
  BY LenProperties, DispatcherAssumption DEF Pipes, Pipe
<1>a. Append(up.data, sent + 1) \in Seq(Nat)  BY <1>2, AppendProperties
<1>b. up'.data = Append(up.data, sent + 1) /\ up'.st = up.st /\ up' \in Pipe
  BY <1>1, <1>a DEF Pipes, Pipe
<1>3. /\ up'.data = Append(up.data, sent + 1) /\ up'.st = up.st /\ up' \in Pipe
      /\ Len(up'.data) = Len(up.data) + 1
      /\ \A i \in 1 .. Len(up.data) : up'.data[i] = up.data[i]
      /\ up'.data[Len(up.data) + 1] = sent + 1
  BY <1>2, <1>b, AppendProperties
<1>4. Pipes'  BY <1>1, <1>2, <1>3 DEF Pipes
<1>5. disp # "done" => Len(got) + Len(cache) + Len(up.data) = sent  BY <1>1 DEF Complete
<1>c. disp # "done" => Len(got) + Len(cache) + (Len(up.data) + 1) = sent + 1
  <2>1. PICK g \in Nat, c \in Nat, d \in Nat, n \in Nat :
            g = Len(got) /\ c = Len(cache) /\ d = Len(up.data) /\ n = sent
    BY <1>2
  <2>2. disp # "done" => g + c + d = n  BY <1>5, <2>1
  <2>3. disp # "done" => g + c + (d + 1) = n + 1  BY <2>2
  <2> QED BY <2>1, <2>3
<1>6. InOrder'
  <2>1. ASSUME disp' # "done", NEW i \in 1 .. Len(up'.data)
        PROVE  up'.data[i] = Len(got') + Len(cache') + i
    <3>1. CASE i \in 1 .. Len(up.data)  BY <1>1, <1>3, <2>1, <3>1 DEF InOrder
    <3>2. CASE i = Len(up.data) + 1
      <4>1. up'.data[i] = sent + 1  BY <1>3, <3>2
      <4>3. Len(got') = Len(got) /\ Len(cache') = Len(cache)  BY <1>1
      <4>4. Len(got) + Len(cache) + (Len(up.data) + 1) = sent + 1
        BY <1>1, <1>c, <2>1
      <4> QED BY <3>2, <4>1, <4>3, <4>4
    <3> QED BY <1>2, <1>3, <3>1, <3>2
  <2> QED BY <1>1, <2>1 DEF InOrder
<1>7. Complete'
  <2>1. Len(got') <= sent' /\ Len(up'.data) <= sent'  BY <1>1, <1>2, <1>3 DEF Complete
  <2>2. disp' # "done" => Len(got') + Len(cache') + Len(up'.data) = sent'
    <3>1. Len(got') = Len(got) /\ Len(cache') = Len(cache) /\ disp' = disp  BY <1>1
    <3> QED BY <1>1, <1>3, <1>c, <3>1
  <2>3. seen' = "none"  BY <1>1 DEF Complete, Pipes
  <2>4. sent' \in Nat  BY <1>1, <1>2
  <2>5. disp' # "done" => Len(got') + Len(cache') + Len(up'.data) <= sent'
    <3>1. Len(got') \in Nat /\ Len(cache') \in Nat /\ Len(up'.data) \in Nat
      BY <1>1, <1>2, <1>3
    <3> QED BY <2>2, <2>4, <3>1, SumBound
  <2> QED BY <2>1, <2>2, <2>3, <2>5 DEF Complete
<1>8. ClosedByClient'  BY <1>1, <1>3 DEF ClosedByClient, EofMeansClosed
<1> QED BY <1>4, <1>6, <1>7, <1>8

(* SniffAttempt moves what waits behind what is cached.                     *)
LEMMA StreamCaches ==
  ASSUME Stream, Linked' = Linked, Rated' = Rated, SniffAttempt
  PROVE  Stream'
<1> USE DEF Stream
<1>1. /\ disp = "attempt" /\ cache' = cache \o up.data /\ up' = [up EXCEPT !.data = <<>>]
      /\ UNCHANGED <<client, down, got, sent, seen>>
  BY DEF SniffAttempt, Cache, dataVars
<1>2. up.data \in Seq(Nat) /\ cache \in Seq(Nat) /\ got \in Seq(Nat) /\ sent \in Nat
  BY DispatcherAssumption DEF Pipes, Pipe
<1>3. Len(up.data) \in Nat /\ Len(cache) \in Nat /\ Len(got) \in Nat  BY <1>2, LenProperties
<1>4. /\ cache \o up.data \in Seq(Nat)
      /\ Len(cache \o up.data) = Len(cache) + Len(up.data)
      /\ \A i \in 1 .. Len(cache) + Len(up.data) :
            (cache \o up.data)[i] = IF i <= Len(cache) THEN cache[i] ELSE up.data[i - Len(cache)]
  BY <1>2, ConcatProperties
<1>5. up'.data = <<>> /\ up'.st = up.st /\ up' \in Pipe /\ Len(<<>>) = 0
  BY <1>1, EmptySeq DEF Pipes, Pipe
<1>6. Pipes'  BY <1>1, <1>4, <1>5 DEF Pipes
<1>7. PICK g \in Nat, c \in Nat, d \in Nat, n \in Nat :
          g = Len(got) /\ c = Len(cache) /\ d = Len(up.data) /\ n = sent
  BY <1>2, <1>3
<1>8. Len(cache') = c + d /\ Len(up'.data) = 0 /\ Len(got') = g /\ sent' = n
  BY <1>1, <1>4, <1>5, <1>7
<1>9. InOrder'
  <2>1. ASSUME NEW i \in 1 .. Len(cache') PROVE cache'[i] = Len(got') + i
    <3>1. i \in 1 .. c + d /\ i \in Nat  BY <1>8
    <3>2. CASE i <= c
      <4>1. cache'[i] = cache[i] /\ i \in 1 .. Len(cache)  BY <1>1, <1>4, <1>7, <3>1, <3>2
      <4> QED BY <1>1, <4>1 DEF InOrder
    <3>3. CASE ~(i <= c)
      <4>1. cache'[i] = up.data[i - c]  BY <1>1, <1>4, <1>7, <3>1, <3>3
      <4>2. i - c \in 1 .. d  BY <3>1, <3>3
      <4>3. up.data[i - c] = g + c + (i - c)  BY <1>1, <1>7, <4>2 DEF InOrder
      <4> QED BY <1>8, <3>1, <4>1, <4>3
    <3> QED BY <3>2, <3>3
  <2>2. \A i \in 1 .. Len(got') : got'[i] = i  BY <1>1 DEF InOrder
  <2>3. \A i \in 1 .. Len(up'.data) : up'.data[i] = Len(got') + Len(cache') + i  BY <1>8
  <2> QED BY <2>1, <2>2, <2>3 DEF InOrder
<1>10. Complete'
  <2>1. /\ g <= n /\ d <= n /\ g + c + d <= n /\ (up.st # "errord" => g + c + d = n)
        /\ (seen # "none" => up.st # "open") /\ (seen = "eof" => g = n)
    BY <1>1, <1>7 DEF Complete
  <2>2. /\ g <= n /\ 0 <= n /\ g + (c + d) + 0 <= n
        /\ up.st # "errord" => g + (c + d) + 0 = n
    BY <2>1
  <2>3. /\ Len(got') <= sent' /\ Len(up'.data) <= sent'
        /\ Len(got') + Len(cache') + Len(up'.data) <= sent'
        /\ up'.st # "errord" => Len(got') + Len(cache') + Len(up'.data) = sent'
    BY <1>5, <1>8, <2>2
  <2>4. (seen' # "none" => up'.st # "open") /\ (seen' = "eof" => Len(got') = sent')
    BY <1>1, <1>5, <1>8, <2>1
  <2> QED BY <2>3, <2>4 DEF Complete
<1>11. ClosedByClient'  BY <1>1, <1>5 DEF ClosedByClient, EofMeansClosed
<1> QED BY <1>6, <1>9, <1>10, <1>11

(* HandlerReads takes the cache first, then what waits.                     *)
LEMMA StreamReads ==
  ASSUME Stream, Linked' = Linked, Rated' = Rated, HandlerReads
  PROVE  /\ Stream' /\ sent' = sent
         /\ Len(got) \in Nat /\ Len(got') \in Nat
<1> USE DEF Stream
<1>1. /\ disp = "handle" /\ disp' = disp /\ seen = "none" /\ UNCHANGED <<client, down, sent, seen>>
      /\ \/ cache # <<>> /\ got' = got \o cache /\ cache' = <<>> /\ up' = up
         \/ /\ cache = <<>> /\ got' = got \o up.data
            /\ up' = [up EXCEPT !.data = <<>>] /\ cache' = cache
  BY DEF HandlerReads, ReadInternal
<1>2. up.data \in Seq(Nat) /\ cache \in Seq(Nat) /\ got \in Seq(Nat) /\ sent \in Nat
  BY DispatcherAssumption DEF Pipes, Pipe
<1>3. Len(up.data) \in Nat /\ Len(cache) \in Nat /\ Len(got) \in Nat  BY <1>2, LenProperties
<1>4. PICK m \in Seq(Nat) :
          /\ got' = got \o m /\ Len(m) \in Nat /\ up' \in Pipe /\ up'.st = up.st
          /\ cache' = <<>>
          /\ \/ m = cache /\ up'.data = up.data
             \/ m = up.data /\ cache = <<>> /\ up'.data = <<>>
  <2>1. CASE cache # <<>>  BY <1>1, <1>2, <1>3, <2>1 DEF Pipes
  <2>2. CASE cache = <<>>
    <3>1. up' = [up EXCEPT !.data = <<>>] /\ got' = got \o up.data /\ cache' = <<>>  BY <1>1, <2>2
    <3>2. up' \in Pipe /\ up'.st = up.st /\ up'.data = <<>>  BY <3>1, EmptySeq DEF Pipes, Pipe
    <3> QED BY <1>2, <1>3, <2>2, <3>1, <3>2
  <2> QED BY <2>1, <2>2
<1>5. /\ got \o m \in Seq(Nat)
      /\ Len(got \o m) = Len(got) + Len(m)
      /\ \A i \in 1 .. Len(got) + Len(m) :
            (got \o m)[i] = IF i <= Len(got) THEN got[i] ELSE m[i - Len(got)]
  BY <1>2, ConcatProperties
<1>6. Len(<<>>) = 0 /\ <<>> \in Seq(Nat)  BY EmptySeq
<1>7. Pipes'  BY <1>1, <1>4, <1>5, <1>6 DEF Pipes
<1>8. PICK g \in Nat, c \in Nat, d \in Nat, n \in Nat, k \in Nat, e \in Nat :
          /\ g = Len(got) /\ c = Len(cache) /\ d = Len(up.data) /\ n = sent
          /\ k = Len(m) /\ e = Len(up'.data)
  BY <1>2, <1>3, <1>4, <1>6
<1>9. Len(got') = g + k /\ Len(cache') = 0 /\ sent' = n  BY <1>1, <1>4, <1>5, <1>6, <1>8
<1>10. (k = c /\ e = d) \/ (k = d /\ c = 0 /\ e = 0)  BY <1>4, <1>6, <1>8
<1>11. \A i \in 1 .. k : m[i] = g + i
  <2>1. CASE m = cache  BY <1>1, <1>8, <2>1 DEF InOrder
  <2>2. CASE m = up.data /\ cache = <<>>
    <3>1. c = 0 /\ k = d  BY <1>6, <1>8, <2>2
    <3>2. \A i \in 1 .. d : up.data[i] = g + c + i  BY <1>1, <1>8 DEF InOrder
    <3>3. \A i \in 1 .. d : up.data[i] = g + 0 + i  BY <3>1, <3>2
    <3>4. \A i \in 1 .. d : g + 0 + i = g + i  OBVIOUS
    <3> QED BY <2>2, <3>1, <3>3, <3>4
  <2> QED BY <1>4, <2>1, <2>2
<1>12. InOrder'
  <2>1. ASSUME NEW i \in 1 .. Len(got') PROVE got'[i] = i
    <3>1. i \in 1 .. g + k /\ i \in Nat  BY <1>9
    <3>2. CASE i <= g
      <4>1. got'[i] = got[i] /\ i \in 1 .. Len(got)  BY <1>4, <1>5, <1>8, <3>1, <3>2
      <4> QED BY <4>1 DEF InOrder
    <3>3. CASE ~(i <= g)
      <4>1. got'[i] = m[i - g]  BY <1>4, <1>5, <1>8, <3>1, <3>3
      <4>2. i - g \in 1 .. k  BY <3>1, <3>3
      <4>3. m[i - g] = g + (i - g)  BY <1>11, <4>2
      <4> QED BY <3>1, <4>1, <4>3
    <3> QED BY <3>2, <3>3
  <2>2. ASSUME NEW i \in 1 .. Len(up'.data)
        PROVE  up'.data[i] = Len(got') + Len(cache') + i
    <3>1. up'.data # <<>> /\ i \in 1 .. e /\ i \in Nat  BY <1>6, <1>8
    <3>2. m = cache /\ up'.data = up.data  BY <1>4, <3>1
    <3>3. e = d /\ k = c  BY <1>8, <3>2
    <3>4. up.data[i] = g + c + i  BY <1>1, <1>8, <3>1, <3>3 DEF InOrder
    <3>5. g + c + i = (g + k) + 0 + i  BY <3>1, <3>3
    <3> QED BY <1>9, <3>2, <3>4, <3>5
  <2>3. \A i \in 1 .. Len(cache') : cache'[i] = Len(got') + i  BY <1>9
  <2> QED BY <2>1, <2>2, <2>3 DEF InOrder
<1>13. Complete'
  <2>1. /\ g <= n /\ d <= n /\ g + c + d <= n /\ (up.st # "errord" => g + c + d = n)
    BY <1>1, <1>8 DEF Complete
  <2>2. /\ g + k <= n /\ e <= n /\ (g + k) + 0 + e <= n
        /\ up.st # "errord" => (g + k) + 0 + e = n
    BY <1>10, <2>1
  <2>3. /\ Len(got') <= sent' /\ Len(up'.data) <= sent'
        /\ Len(got') + Len(cache') + Len(up'.data) <= sent'
        /\ up'.st # "errord" => Len(got') + Len(cache') + Len(up'.data) = sent'
    BY <1>4, <1>8, <1>9, <2>2
  <2> QED BY <1>1, <2>3 DEF Complete
<1>14. ClosedByClient'  BY <1>1, <1>4 DEF ClosedByClient, EofMeansClosed
<1>15. Len(got') \in Nat  BY <1>9
<1> QED BY <1>1, <1>3, <1>7, <1>12, <1>13, <1>14, <1>15

(* HandlerSeesEnd comes after the last chunk.                               *)
LEMMA StreamSeesEnd ==
  ASSUME Stream, Linked' = Linked, Rated' = Rated, HandlerSeesEnd
  PROVE  Stream'
<1> USE DEF Stream
<1>1. /\ disp = "handle" /\ disp' = disp /\ cache = <<>> /\ up.data = <<>> /\ up.st # "open"
      /\ seen' = IF up.st = "closed" THEN "eof" ELSE "err"
      /\ UNCHANGED <<client, up, down, cache, got, sent>>
  BY DEF HandlerSeesEnd, linkVars
<1>2. Pipes'  BY <1>1 DEF Pipes
<1>3. InOrder'  BY <1>1 DEF InOrder
<1>4. got \in Seq(Nat) /\ sent \in Nat  BY DispatcherAssumption DEF Pipes
<1>5. PICK g \in Nat, n \in Nat : g = Len(got) /\ n = sent  BY <1>4, LenProperties
<1>6. up.st = "closed" => g + 0 + 0 = n
  BY <1>1, <1>5, EmptySeq DEF Complete
<1>7. up.st = "closed" => Len(got) = sent  BY <1>5, <1>6
<1>8. Complete'  BY <1>1, <1>7 DEF Complete
<1>9. ClosedByClient'  BY <1>1 DEF ClosedByClient, EofMeansClosed
<1> QED BY <1>2, <1>3, <1>8, <1>9

(* The steps by which routing ends: every one of them ends the link, or     *)
(* never made one.                                                          *)
EndsRouting ==
    \/ DispatchLinkRefused \/ RuleRejects \/ (RoutedDispatch /\ tag' = "")
    \/ HandlerStops \/ UpstreamEnds

LEMMA EndsFacts ==
  ASSUME Pipes, EndsRouting
  PROVE  /\ disp' = "done" /\ UNCHANGED <<client, sent, got, seen, counted>>
         /\ caller = "start" \/ caller' = caller
         /\ up' \in Pipe /\ down' \in {"open", "closed", "errord"} /\ cache' = <<>>
         /\ up'.data = up.data \/ up'.data = <<>>
         /\ up'.st = "open" => up.st = "open"
         /\ conn.reader = "pipe" => down' # "open" /\ (up'.st = "open" => Linked /\ Rated)
         /\ releases' = IF Linked THEN Release ELSE releases
<1>1. /\ disp' = "done" /\ UNCHANGED <<client, sent, got, seen, counted>>
      /\ caller = "start" \/ caller' = caller
      /\ EndLink("Close") \/ EndLink("Interrupt")
  BY DEF EndsRouting, DispatchLinkRefused, RuleRejects, RoutedDispatch, HandlerStops,
         UpstreamEnds, HandlerEnds, Dispose, dataVars
<1> QED BY <1>1, EndLinkFacts

LEMMA StreamStep ==
  ASSUME IInv, [Next]_vars
  PROVE  Stream'
<1>0. Control /\ Pipes /\ Stream /\ Disposed  BY DEF IInv, Stream
<1>a. conn' = conn /\ Linked' = Linked /\ Rated' = Rated  BY SameConn
<1>b. up \in Pipe /\ down \in {"open", "closed", "errord"}  BY <1>0 DEF Pipes
<1>1. CASE DispatchRefused
  <2>1. /\ caller = "start" /\ disp' = "done" /\ down' = "closed"
        /\ up' = PipeOp("Interrupt", PipeOp("Close", up))
        /\ UNCHANGED <<client, cache, sent, got, seen>>
    BY <1>1 DEF DispatchRefused, dataVars
  <2>2. PipeOp("Close", up) \in Pipe  BY <1>b, PipeOpFacts
  <2>3. up' \in Pipe /\ up'.data = <<>> /\ up'.st # "open"  BY <2>1, <2>2, PipeOpFacts
  <2>4. cache' = <<>>  BY <1>0, <2>1 DEF Control, Disposed
  <2> QED BY <1>0, <1>a, <2>1, <2>3, <2>4, StreamEnds
<1>2. CASE Dispatch \/ DispatchLink
  <2>1. caller = "start" /\ client' = client /\ UNCHANGED streamVars
    BY <1>2 DEF Dispatch, DispatchLink, linkVars, dataVars, streamVars
  <2>2. disp # "done"  BY <1>0, <2>1 DEF Control
  <2> QED BY <1>0, <1>a, <2>1, <2>2, StreamQuiet
<1>3. CASE EndsRouting
  <2>1. /\ disp' = "done" /\ UNCHANGED <<client, got, sent, seen>>
        /\ up' \in Pipe /\ down' \in {"open", "closed", "errord"} /\ cache' = <<>>
        /\ up'.data = up.data \/ up'.data = <<>>
        /\ up'.st = "open" => up.st = "open"
    BY <1>0, <1>3, EndsFacts
  <2> QED BY <1>0, <1>a, <2>1, StreamEnds
<1>4. CASE ClientSends  BY <1>0, <1>a, <1>4, StreamSends
<1>5. CASE ClientCloses
  <2>1. /\ client' = "closed" /\ up' = PipeOp("Close", up)
        /\ UNCHANGED <<disp, down, cache, got, sent, seen>>
    BY <1>5 DEF ClientCloses, dataVars
  <2> QED BY <1>0, <1>a, <1>b, <2>1, StreamOp
<1>6. CASE ClientAborts
  <2>1. /\ client \in {"open", "closed"}
        /\ client' = IF client = "open" THEN "aborted" ELSE "reset"
        /\ UNCHANGED <<cache, got, sent, seen, disp>>
    BY <1>6 DEF ClientAborts, dataVars
  <2>2. client \in {"closed", "reset"} => client' \in {"closed", "reset"}  BY <2>1
  <2>3. CASE Linked
    <3>1. up' = PipeOp("Interrupt", up) /\ down' = down  BY <1>6, <2>3 DEF ClientAborts
    <3> QED BY <1>0, <1>a, <1>b, <2>1, <2>2, <3>1, StreamOp
  <2>4. CASE ~Linked
    <3>1. /\ up' = PipeOp(ThroughWriter("Interrupt"), up)
          /\ down' = PipeState("Interrupt", down, TRUE)
      BY <1>6, <2>4 DEF ClientAborts
    <3>2. down' \in {"open", "closed", "errord"}  BY <1>b, <3>1, PipeStateFacts
    <3>3. CASE Rated
      <4>1. up' = PipeOp("Close", up)  BY <3>1, <3>3 DEF ThroughWriter
      <4> QED BY <1>0, <1>a, <2>1, <2>2, <2>4, <3>2, <3>3, <4>1, StreamOp
    <3>4. CASE ~Rated
      <4>1. up' = PipeOp("Interrupt", up)  BY <3>1, <3>4 DEF ThroughWriter
      <4> QED BY <1>0, <1>a, <2>1, <2>2, <3>2, <4>1, StreamOp
    <3> QED BY <3>3, <3>4
  <2> QED BY <2>3, <2>4
<1>7. CASE CallerReturns
  BY <1>0, <1>a, <1>7, StreamQuiet DEF CallerReturns, linkVars, dataVars, streamVars
<1>8. CASE ConnectionCloses
  <2>1. UNCHANGED <<client, disp, cache, got, sent, seen>>
    BY <1>8 DEF ConnectionCloses, dataVars
  <2>2. CASE conn.reader = "conn"
    <3>1. up' = PipeOp("Interrupt", up) /\ down' = "errord"  BY <1>8, <2>2 DEF ConnectionCloses
    <3> QED BY <1>0, <1>a, <2>1, <3>1, StreamOp
  <2>3. CASE conn.reader # "conn"
    <3>1. UNCHANGED <<up, down>>  BY <1>8, <2>3 DEF ConnectionCloses
    <3> QED BY <1>0, <1>a, <2>1, <3>1, StreamQuiet DEF streamVars
  <2> QED BY <2>2, <2>3
<1>9. CASE SniffStarts \/ SniffCanceled \/ SniffTimeout
  <2>1. disp \in {"sniff", "attempt"} /\ client' = client /\ UNCHANGED streamVars
    BY <1>9 DEF SniffStarts, SniffCanceled, SniffTimeout, linkVars, dataVars, streamVars
  <2> QED BY <1>0, <1>a, <2>1, StreamQuiet
<1>10. CASE SniffAttempt  BY <1>0, <1>a, <1>10, StreamCaches
<1>11. CASE RoutedDispatch /\ tag' # ""
  <2>1. disp = "route" /\ client' = client /\ UNCHANGED streamVars
    BY <1>11 DEF RoutedDispatch, linkVars, dataVars, streamVars
  <2> QED BY <1>0, <1>a, <2>1, StreamQuiet
<1>12. CASE HandlerReads  BY <1>0, <1>a, <1>12, StreamReads
<1>13. CASE HandlerSeesEnd  BY <1>0, <1>a, <1>13, StreamSeesEnd
<1>14. CASE UNCHANGED vars  BY <1>0, <1>a, <1>14, StreamQuiet DEF vars, streamVars
<1> QED BY <1>1, <1>2, <1>3, <1>4, <1>5, <1>6, <1>7, <1>8, <1>9, <1>10, <1>11, <1>12, <1>13, <1>14
        DEF Next, Enter, Client, Inbound, Sniffing, Routing, Handling, EndsRouting

-----------------------------------------------------------------------------
(* Counting: at the inbound's pipe after Dispatch, at the outbound's reads  *)
(* through the wrapped reader of DispatchLink.                              *)
LEMMA CounterStep ==
  ASSUME IInv, [Next]_vars
  PROVE  Counter'
<1>0. Control /\ Pipes /\ Stream /\ Counter  BY DEF IInv, Stream
<1>a. conn' = conn /\ Linked' = Linked /\ Rated' = Rated /\ Stats' = Stats  BY SameConn
<1>b. conn.sniff \in {"off", "udp", "meta", "content"}  BY <1>0 DEF Control, Conns
<1>c. Linked /\ Stats <=> CountsReads
  BY <1>b DEF CountsReads, RoutesInCaller, IsPipeReader
<1>d. sent \in Nat /\ Len(got) \in Nat
  BY <1>0, LenProperties, DispatcherAssumption DEF Pipes
<1>1. CASE UNCHANGED <<counted, sent, got>>  BY <1>0, <1>a, <1>1 DEF Counter
<1>2. CASE ClientSends
  <2>1. /\ sent' = sent + 1 /\ got' = got
        /\ counted' = IF ~Linked /\ Stats THEN counted + 1 ELSE counted
    BY <1>2 DEF ClientSends
  <2> QED BY <1>0, <1>a, <1>d, <2>1 DEF Counter
<1>3. CASE HandlerReads
  <2>1. sent' = sent /\ Len(got') \in Nat  BY <1>0, <1>a, <1>3, StreamReads
  <2>2. counted' = IF Linked /\ Stats THEN counted + Len(got') - Len(got) ELSE counted
    BY <1>3, <1>c DEF HandlerReads
  <2>3. PICK a \in Nat, b \in Nat : a = Len(got) /\ b = Len(got')  BY <1>d, <2>1
  <2>4. a + b - a = b  OBVIOUS
  <2>5. Linked /\ Stats => counted' = Len(got') /\ counted' \in Nat
    BY <1>0, <2>2, <2>3, <2>4 DEF Counter
  <2> QED BY <1>0, <1>a, <2>1, <2>2, <2>5 DEF Counter
<1>4. ~ClientSends /\ ~HandlerReads => UNCHANGED <<counted, sent, got>>
  BY DEF Next, vars, Enter, Client, Inbound, Sniffing, Routing, Handling, DispatchRefused,
         Dispatch, DispatchLinkRefused, DispatchLink, ClientCloses, ClientAborts,
         CallerReturns, ConnectionCloses, SniffStarts, SniffCanceled, SniffTimeout,
         SniffAttempt, RuleRejects, RoutedDispatch, HandlerSeesEnd, HandlerStops, HandlerEnds,
         UpstreamEnds, dataVars
<1> QED BY <1>1, <1>2, <1>3, <1>4

(* The slot: DispatchLink's writer gives it back when routing ends, the     *)
(* inbound's writer after Dispatch when the client does.                    *)
LEMMA SlotsStep ==
  ASSUME IInv, [Next]_vars
  PROVE  Slots'
<1>0. Control /\ Pipes /\ Slots  BY DEF IInv
<1>a. conn' = conn /\ Linked' = Linked /\ Tracked' = Tracked  BY SameConn
<1>b. Release \in 0 .. 1 /\ (Tracked => Release = 1)  BY <1>0 DEF Slots, Release
<1>1. CASE DispatchRefused
  BY <1>0, <1>a, <1>b, <1>1 DEF DispatchRefused, Slots
<1>2. CASE Dispatch \/ DispatchLink
  <2>1. /\ releases' = releases /\ client' = client /\ disp' # "done"
        /\ client = "open"
        /\ ~Linked => caller' # "returned"
    BY <1>0, <1>2 DEF Dispatch, DispatchLink, StartRouting, linkVars, Control
  <2> QED BY <1>0, <1>a, <2>1 DEF Slots
<1>3. CASE EndsRouting
  <2>1. /\ disp' = "done" /\ client' = client
        /\ caller = "start" \/ caller' = caller
        /\ releases' = IF Linked THEN Release ELSE releases
    BY <1>0, <1>3, EndsFacts
  <2>2. ~Linked => caller' = caller
    <3>1. DispatchLinkRefused => Linked  BY DEF DispatchLinkRefused
    <3> QED BY <1>3, <3>1 DEF EndsRouting, RuleRejects, RoutedDispatch, HandlerStops,
               UpstreamEnds, HandlerEnds
  <2> QED BY <1>0, <1>a, <1>b, <2>1, <2>2 DEF Slots
<1>4. CASE ClientCloses
  <2>1. disp' = disp /\ caller' = caller /\ releases' = IF Linked THEN releases ELSE Release
    BY <1>4 DEF ClientCloses
  <2> QED BY <1>0, <1>a, <1>b, <2>1 DEF Slots
<1>5. CASE ClientAborts
  <2>1. disp' = disp /\ releases' = IF Linked THEN releases ELSE Release
    BY <1>5 DEF ClientAborts
  <2> QED BY <1>0, <1>a, <1>b, <2>1 DEF Slots
<1>6. CASE CallerReturns
  <2>1. releases' = releases /\ client' = client /\ disp' = disp
    BY <1>6 DEF CallerReturns, linkVars
  <2>2. ~Linked => client = "closed"  BY <1>0, <1>6 DEF CallerReturns, Control
  <2> QED BY <1>0, <1>a, <2>1, <2>2 DEF Slots
<1>7. CASE ConnectionCloses
  BY <1>0, <1>a, <1>7 DEF ConnectionCloses, Slots
<1>8. CASE ClientSends \/ HandlerReads \/ HandlerSeesEnd \/ UNCHANGED vars
  BY <1>0, <1>a, <1>8 DEF ClientSends, HandlerReads, HandlerSeesEnd, vars, linkVars, Slots
<1>9. CASE SniffStarts \/ SniffCanceled \/ SniffTimeout \/ SniffAttempt \/ (RoutedDispatch /\ tag' # "")
  <2>1. UNCHANGED <<releases, client, caller>> /\ disp' # "done"
    BY <1>9 DEF SniffStarts, SniffCanceled, SniffTimeout, SniffAttempt, RoutedDispatch, Sniffed,
                linkVars
  <2> QED BY <1>0, <1>a, <2>1 DEF Slots
<1> QED BY <1>1, <1>2, <1>3, <1>4, <1>5, <1>6, <1>7, <1>8, <1>9
        DEF Next, Enter, Client, Inbound, Sniffing, Routing, Handling, EndsRouting

(* Both directions of a link have ended when its routing has.               *)
LEMMA DisposedStep ==
  ASSUME IInv, [Next]_vars
  PROVE  Disposed'
<1>0. Control /\ Pipes /\ Disposed  BY DEF IInv
<1>a. conn' = conn /\ Linked' = Linked /\ Rated' = Rated  BY SameConn
<1>b. up \in Pipe /\ down \in {"open", "closed", "errord"}  BY <1>0 DEF Pipes
<1>1. CASE DispatchRefused
  <2>1. /\ caller = "start" /\ disp' = "done" /\ down' = "closed" /\ cache' = cache
        /\ up' = PipeOp("Interrupt", PipeOp("Close", up))
    BY <1>1 DEF DispatchRefused
  <2>2. PipeOp("Close", up) \in Pipe  BY <1>b, PipeOpFacts
  <2>3. up'.st # "open"  BY <2>1, <2>2, PipeOpFacts
  <2>4. cache' = <<>>  BY <1>0, <2>1 DEF Control, Disposed
  <2> QED BY <2>1, <2>3, <2>4 DEF Disposed, LinkDisposed
<1>2. CASE EndsRouting
  <2>1. /\ disp' = "done" /\ cache' = <<>>
        /\ conn.reader = "pipe" => down' # "open" /\ (up'.st = "open" => Linked /\ Rated)
    BY <1>0, <1>2, EndsFacts
  <2> QED BY <1>a, <2>1 DEF Disposed, LinkDisposed
<1>3. CASE disp' \in {"sniff", "attempt", "route", "handle"}
  BY <1>3 DEF Disposed, LinkDisposed
<1>4. CASE ClientSends
  <2>1. caller # "start" /\ up'.st = up.st /\ UNCHANGED <<disp, down, cache>>
    BY <1>b, <1>4 DEF ClientSends, Pipe
  <2> QED BY <1>0, <1>a, <2>1 DEF Disposed, LinkDisposed
<1>5. CASE ClientCloses \/ ClientAborts \/ ConnectionCloses
  <2>1. /\ UNCHANGED <<disp, cache>> /\ (up'.st = "open" => up.st = "open")
        /\ down' = down \/ down' \in {"closed", "errord"}
    <3>1. CASE ClientCloses
      <4>1. up' = PipeOp("Close", up) /\ UNCHANGED <<disp, down, cache>>  BY <3>1 DEF ClientCloses
      <4> QED BY <1>b, <4>1, PipeOpFacts
    <3>2. CASE ClientAborts
      <4>1. UNCHANGED <<disp, cache>>  BY <3>2 DEF ClientAborts
      <4>2. CASE Linked
        <5>1. up' = PipeOp("Interrupt", up) /\ down' = down  BY <3>2, <4>2 DEF ClientAborts
        <5> QED BY <1>b, <4>1, <5>1, PipeOpFacts
      <4>3. CASE ~Linked
        <5>1. /\ up' = PipeOp(ThroughWriter("Interrupt"), up)
              /\ down' = PipeState("Interrupt", down, TRUE)
          BY <3>2, <4>3 DEF ClientAborts
        <5>2. ThroughWriter("Interrupt") \in {"Close", "Interrupt", "none"}  BY WrapperFacts
        <5>3. down' \in {"closed", "errord"}  BY <1>b, <5>1, PipeStateFacts
        <5>4. up'.st = "open" => up.st = "open"  BY <1>b, <5>1, <5>2, PipeOpFacts
        <5> QED BY <4>1, <5>3, <5>4
      <4> QED BY <4>2, <4>3
    <3>3. CASE ConnectionCloses
      <4>1. UNCHANGED <<disp, cache>>  BY <3>3 DEF ConnectionCloses
      <4>2. \/ up' = PipeOp("Interrupt", up) /\ down' = "errord"
            \/ UNCHANGED <<up, down>>
        BY <3>3 DEF ConnectionCloses
      <4> QED BY <1>b, <4>1, <4>2, PipeOpFacts
    <3> QED BY <1>5, <3>1, <3>2, <3>3
  <2> QED BY <1>0, <1>a, <2>1 DEF Disposed, LinkDisposed
<1>6. CASE CallerReturns \/ UNCHANGED vars
  BY <1>0, <1>a, <1>6 DEF CallerReturns, vars, linkVars, Disposed, LinkDisposed
<1>7. CASE HandlerReads \/ HandlerSeesEnd
  <2>1. disp' = "handle"  BY <1>7 DEF HandlerReads, HandlerSeesEnd
  <2> QED BY <1>3, <2>1
<1>8. CASE Dispatch \/ DispatchLink \/ SniffStarts \/ SniffCanceled \/ SniffTimeout
             \/ SniffAttempt \/ (RoutedDispatch /\ tag' # "")
  <2>1. disp' \in {"sniff", "attempt", "route", "handle"}
    BY <1>8 DEF Dispatch, DispatchLink, StartRouting, SniffStarts, SniffCanceled, SniffTimeout,
                SniffAttempt, RoutedDispatch, Sniffed
  <2> QED BY <1>3, <2>1
<1> QED BY <1>1, <1>2, <1>4, <1>5, <1>6, <1>7, <1>8
        DEF Next, Enter, Client, Inbound, Sniffing, Routing, Handling, EndsRouting

(* DispatchLink waits for the routing it runs itself.                       *)
LEMMA OutlivesStep ==
  ASSUME IInv, [Next]_vars
  PROVE  SessionOutlivesRouting'
<1>0. Control /\ SessionOutlivesRouting  BY DEF IInv
<1>a. conn' = conn /\ Linked' = Linked /\ RoutesInCaller' = RoutesInCaller  BY SameConn
<1> DEFINE Held == Linked /\ conn.reader = "conn" /\ conn.sniff \in {"meta", "content"}
<1>b. SessionOutlivesRouting <=> (Held /\ caller \in {"returned", "gone"} => disp = "done")
  BY DEF SessionOutlivesRouting
<1>c. SessionOutlivesRouting' <=> (Held /\ caller' \in {"returned", "gone"} => disp' = "done")
  BY <1>a DEF SessionOutlivesRouting
<1>d. Held => RoutesInCaller /\ Linked
  BY DEF RoutesInCaller, IsPipeReader
<1> HIDE DEF Held
<1>1. disp = "done" => disp' = "done"
  BY <1>0 DEF Control, Next, vars, Enter, Client, Inbound, Sniffing, Routing, Handling,
         DispatchRefused, Dispatch, DispatchLinkRefused, DispatchLink, ClientSends, ClientCloses,
         ClientAborts, CallerReturns, ConnectionCloses, SniffStarts, SniffCanceled, SniffTimeout,
         SniffAttempt, RuleRejects, RoutedDispatch, HandlerReads, HandlerSeesEnd, HandlerStops,
         HandlerEnds, UpstreamEnds
<1>2. CASE caller' = caller  BY <1>0, <1>1, <1>2, <1>b, <1>c
<1>3. CASE DispatchRefused \/ DispatchLinkRefused
  BY <1>3, <1>c DEF DispatchRefused, DispatchLinkRefused
<1>4. CASE Dispatch \/ DispatchLink
  BY <1>4, <1>c, <1>d DEF Dispatch, DispatchLink
<1>5. CASE ClientAborts
  <2>1. Linked => caller' = caller  BY <1>5 DEF ClientAborts
  <2> QED BY <1>2, <1>c, <1>d, <2>1
<1>6. CASE CallerReturns
  <2>1. Linked => disp = "done"  BY <1>0, <1>6 DEF CallerReturns, Control
  <2> QED BY <1>1, <1>c, <1>d, <2>1
<1>7. CASE ConnectionCloses
  BY <1>0, <1>1, <1>7, <1>b, <1>c DEF ConnectionCloses
<1>8. \/ DispatchRefused \/ DispatchLinkRefused \/ Dispatch \/ DispatchLink \/ ClientAborts
      \/ CallerReturns \/ ConnectionCloses \/ caller' = caller
  BY DEF Next, vars, Enter, Client, Inbound, Sniffing, Routing, Handling, ClientSends,
         ClientCloses, SniffStarts, SniffCanceled, SniffTimeout, SniffAttempt, RuleRejects,
         RoutedDispatch, HandlerReads, HandlerSeesEnd, HandlerStops, HandlerEnds, UpstreamEnds
<1> QED BY <1>2, <1>3, <1>4, <1>5, <1>6, <1>7, <1>8

-----------------------------------------------------------------------------
(* The sniffers.                                                            *)
Verdict(r) == r.domain \in {"", "name", "alias"}

LEMMA OrderFacts ==
  /\ Order \in Seq(Sniffers) /\ Len(Order) = 5
  /\ Order[1] = "fakedns+others" /\ Order[2] = "http" /\ Order[3] = "tls"
  /\ Order[4] = "bittorrent" /\ Order[5] = "fakedns"
BY DEF Order, Sniffers

LEMMA FirstSniffer ==
  ASSUME NEW S \in SUBSET Sniffers, S # {}
  PROVE  /\ FirstOf(Order, S) \in S
         /\ "fakedns+others" \in S => FirstOf(Order, S) = "fakedns+others"
<1>1. PICK x \in S : x \in Sniffers  OBVIOUS
<1>2. FirstOf(Order, S) \in S
  <2>1. PICK k \in 1 .. Len(Order) : Order[k] = x
    <3>1. 1 \in 1 .. 5 /\ 2 \in 1 .. 5 /\ 3 \in 1 .. 5 /\ 4 \in 1 .. 5 /\ 5 \in 1 .. 5  OBVIOUS
    <3> QED BY <1>1, <3>1, OrderFacts DEF Sniffers
  <2>2. Order[k] \in S  BY <2>1
  <2>3. \E i \in 1 .. Len(Order) :
          FirstOf(Order, S) = Order[i] /\ Order[i] \in S /\ i <= k
    BY <2>2, OrderFacts, FirstOfIn
  <2> QED BY <2>3
<1>3. ASSUME "fakedns+others" \in S PROVE FirstOf(Order, S) = "fakedns+others"
  <2>1. 1 \in 1 .. Len(Order) /\ Order[1] \in S  BY <1>3, OrderFacts
  <2>2. PICK i \in 1 .. Len(Order) : FirstOf(Order, S) = Order[i] /\ i <= 1
    BY <2>1, OrderFacts, FirstOfIn
  <2>3. i = 1  BY <2>2, OrderFacts
  <2> QED BY <2>2, <2>3, OrderFacts
<1> QED BY <1>2, <1>3

LEMMA FailureType == ASSUME NEW e PROVE Verdict(Failure(e))
BY DEF Failure, Verdict

LEMMA ResultFields ==
  ASSUME NEW p, NEW d, NEW q, NEW o
  PROVE  /\ Result(p, d, q, o).err = "nil" /\ Result(p, d, q, o).protocol = p
         /\ Result(p, d, q, o).domain = d /\ Result(p, d, q, o).domainProtocol = q
         /\ Result(p, d, q, o).original = o
BY DEF Result

LEMMA RecogniseType ==
  ASSUME NEW c, NEW p, NEW n
  PROVE  Verdict(Recognise(c, p, n))
<1>1. CASE c.speaks # p  BY <1>1, FailureType DEF Recognise
<1>2. CASE c.speaks = p /\ n < c.needs  BY <1>2, FailureType DEF Recognise
<1>3. CASE c.speaks = p /\ ~(n < c.needs)
  <2>1. PICK d \in {"", "name", "alias"} : Recognise(c, p, n) = Result(p, d, p, "")
    <3>1. CASE p = "bittorrent"
      <4>1. Recognise(c, p, n) = Result(p, "", p, "")  BY <1>3, <3>1 DEF Recognise
      <4> QED BY <4>1
    <3>2. CASE p # "bittorrent"
      <4>1. Recognise(c, p, n) = Result(p, "name", p, "")  BY <1>3, <3>2 DEF Recognise
      <4> QED BY <4>1
    <3> QED BY <3>1, <3>2
  <2>2. Result(p, d, p, "").domain = d  BY DEF Result
  <2> QED BY <2>1, <2>2 DEF Verdict
<1> QED BY <1>1, <1>2, <1>3

LEMMA FakeDNSType == ASSUME NEW c PROVE Verdict(FakeDNS(c))
BY FailureType DEF FakeDNS, Result, Verdict

LEMMA FakeDNSThenOthersType ==
  ASSUME NEW c, NEW n
  PROVE  Verdict(FakeDNSThenOthers(c, n))
<1> DEFINE found == {p \in Others : Recognise(c, p, n).err = "nil"}
           first == FirstOf(Order, found)
           r == Recognise(c, first, n)
<1>1. found \in SUBSET Sniffers /\ found \subseteq Others  BY DEF Others, Sniffers
<1>2. found # {} => first \in Others  BY <1>1, FirstSniffer
<1>3. found # {} => Verdict(r)  BY RecogniseType
<1>4. FakeDNSThenOthers(c, n) =
        CASE c.fake = "hit" -> FakeDNS(c)
          [] c.fake = "pool" /\ found # {} ->
                Result("fakedns+others", r.domain, "fakedns+others", r.protocol)
          [] OTHER -> Failure("NoClue")
  BY DEF FakeDNSThenOthers
<1> HIDE DEF found, first, r
<1>5. CASE c.fake = "hit"
  <2>1. FakeDNSThenOthers(c, n) = FakeDNS(c)  BY <1>4, <1>5
  <2> QED BY <2>1, FakeDNSType
<1>6. CASE c.fake = "pool" /\ found # {}
  <2>1. FakeDNSThenOthers(c, n) = Result("fakedns+others", r.domain, "fakedns+others", r.protocol)
    BY <1>4, <1>6
  <2>2. FakeDNSThenOthers(c, n).domain = r.domain  BY <2>1, ResultFields
  <2> QED BY <1>3, <1>6, <2>2 DEF Verdict
<1>7. CASE c.fake # "hit" /\ ~(c.fake = "pool" /\ found # {})
  <2>1. FakeDNSThenOthers(c, n) = Failure("NoClue")  BY <1>4, <1>7
  <2> QED BY <2>1, FailureType
<1> QED BY <1>5, <1>6, <1>7

LEMMA TryType ==
  ASSUME NEW c, NEW si \in Sniffers, NEW n
  PROVE  Verdict(Try(c, si, n))
BY FakeDNSType, FakeDNSThenOthersType, RecogniseType DEF Try, Sniffers

(* The result of a scan is a verdict, and the list only shrinks.            *)
LEMMA ScanType ==
  ASSUME NEW c, NEW n, NEW tried \in SUBSET Sniffers, NEW left \in SUBSET Sniffers,
         NEW results, results = [si \in tried |-> Try(c, si, n)]
  PROVE  /\ Verdict(Scan(results, tried, left).result)
         /\ Scan(results, tried, left).pending \subseteq left
<1> DEFINE found == {si \in tried : results[si].err = "nil"}
           rest == {si \in left : si \in tried => results[si].err = "NoClue"}
<1>1. Scan(results, tried, left) =
        IF found # {} THEN [result |-> results[FirstOf(Order, found)], pending |-> left]
        ELSE IF rest # {} THEN [result |-> Failure("NoClue"), pending |-> rest]
        ELSE [result |-> Failure("unknown"), pending |-> left]
  BY DEF Scan
<1>2. found \in SUBSET Sniffers /\ found \subseteq tried /\ rest \subseteq left  OBVIOUS
<1> HIDE DEF found, rest
<1>3. CASE found # {}
  <2>1. FirstOf(Order, found) \in tried  BY <1>2, <1>3, FirstSniffer
  <2>2. Verdict(results[FirstOf(Order, found)])  BY <2>1, TryType
  <2> QED BY <1>1, <1>3, <2>2
<1>4. CASE found = {} /\ rest # {}
  <2>1. Scan(results, tried, left) = [result |-> Failure("NoClue"), pending |-> rest]
    BY <1>1, <1>4
  <2> QED BY <1>2, <2>1, FailureType
<1>5. CASE found = {} /\ rest = {}
  <2>1. Scan(results, tried, left) = [result |-> Failure("unknown"), pending |-> left]
    BY <1>1, <1>5
  <2> QED BY <2>1, FailureType
<1> QED BY <1>3, <1>4, <1>5

LEMMA SniffType ==
  ASSUME NEW c, NEW P \in SUBSET Sniffers, NEW n
  PROVE  /\ Verdict(Sniff(c, P, n).result) /\ Sniff(c, P, n).pending \subseteq Sniffers
         /\ Verdict(SniffMetadata(c, P).result)
         /\ SniffMetadata(c, P).pending \subseteq Sniffers
<1> DEFINE tried == P \ {"fakedns"}
           meta == P \cap {"fakedns"}
           results == [si \in tried |-> Try(c, si, n)]
           metaResults == [si \in meta |-> Try(c, si, 0)]
<1>1. tried \in SUBSET Sniffers /\ meta \in SUBSET Sniffers  OBVIOUS
<1>2. Sniff(c, P, n) = Scan(results, tried, tried)  BY DEF Sniff
<1>3. SniffMetadata(c, P) = Scan(metaResults, meta, P)  BY DEF SniffMetadata
<1>z. PICK z : z = 0  OBVIOUS
<1>a. /\ results = [si \in tried |-> Try(c, si, n)]
      /\ metaResults = [si \in meta |-> Try(c, si, z)]
  BY <1>z
<1> HIDE DEF tried, meta, results, metaResults
<1>4. /\ Verdict(Scan(results, tried, tried).result)
      /\ Scan(results, tried, tried).pending \subseteq tried
  BY <1>1, <1>a, ScanType
<1>5. /\ Verdict(Scan(metaResults, meta, P).result)
      /\ Scan(metaResults, meta, P).pending \subseteq P
  BY <1>1, <1>a, ScanType
<1> QED BY <1>1, <1>2, <1>3, <1>4, <1>5

LEMMA CombinedType ==
  ASSUME NEW m, NEW r, Verdict(m), Verdict(r)
  PROVE  Verdict(Combined(m, r))
BY DEF Combined, CompositeResult, Result, Verdict

(* What FakeDNS answers for an address whose domain it knows.               *)
Hit(r) ==
    /\ r.err = "nil" /\ r.protocol = "fakedns"
    /\ r.domain = "alias" /\ r.domainProtocol = "fakedns"

LEMMA FakeHit == ASSUME NEW c, c.fake = "hit" PROVE Hit(FakeDNS(c))
BY DEF FakeDNS, Result, Hit

LEMMA MetadataHit ==
  ASSUME NEW c, c.fake = "hit", NEW P \in SUBSET Sniffers, P = NewSniffer(c)
  PROVE  Hit(SniffMetadata(c, P).result) /\ SniffMetadata(c, P).pending = P
<1> DEFINE tried == P \cap {"fakedns"}
           results == [si \in tried |-> Try(c, si, 0)]
           found == {si \in tried : results[si].err = "nil"}
<1>1. tried = {"fakedns"}  BY DEF NewSniffer
<1>2. results["fakedns"] = FakeDNS(c)
  <2>1. results["fakedns"] = Try(c, "fakedns", 0)  BY <1>1
  <2> QED BY <2>1 DEF Try
<1>3. SniffMetadata(c, P) = Scan(results, tried, P)  BY DEF SniffMetadata
<1> HIDE DEF tried, results
<1>4. found = {"fakedns"}  BY <1>1, <1>2, FakeHit DEF Hit
<1>5. Scan(results, tried, P) =
        IF found # {} THEN [result |-> results[FirstOf(Order, found)], pending |-> P]
        ELSE IF {si \in P : si \in tried => results[si].err = "NoClue"} # {}
        THEN [result |-> Failure("NoClue"),
              pending |-> {si \in P : si \in tried => results[si].err = "NoClue"}]
        ELSE [result |-> Failure("unknown"), pending |-> P]
  BY DEF Scan
<1> HIDE DEF found
<1>6. FirstOf(Order, found) = "fakedns"  BY <1>4, FirstSniffer DEF Sniffers
<1>7. Scan(results, tried, P) = [result |-> FakeDNS(c), pending |-> P]
  BY <1>2, <1>4, <1>5, <1>6
<1> QED BY <1>3, <1>7, FakeHit

LEMMA SniffHit ==
  ASSUME NEW c, c.fake = "hit", NEW P \in SUBSET Sniffers, P = NewSniffer(c), NEW n
  PROVE  Hit(Sniff(c, P, n).result)
<1> DEFINE tried == P \ {"fakedns"}
           results == [si \in tried |-> Try(c, si, n)]
           found == {si \in tried : results[si].err = "nil"}
<1>1. "fakedns+others" \in tried /\ tried \in SUBSET Sniffers  BY DEF NewSniffer
<1>2. results["fakedns+others"] = FakeDNS(c)
  <2>1. results["fakedns+others"] = Try(c, "fakedns+others", n)  BY <1>1
  <2>2. Try(c, "fakedns+others", n) = FakeDNSThenOthers(c, n)  BY DEF Try
  <2>3. FakeDNSThenOthers(c, n) = FakeDNS(c)  BY DEF FakeDNSThenOthers
  <2> QED BY <2>1, <2>2, <2>3
<1>3. Sniff(c, P, n) = Scan(results, tried, tried)  BY DEF Sniff
<1> HIDE DEF tried, results
<1>4. "fakedns+others" \in found /\ found \in SUBSET Sniffers  BY <1>1, <1>2, FakeHit DEF Hit
<1>5. Scan(results, tried, tried) =
        IF found # {} THEN [result |-> results[FirstOf(Order, found)], pending |-> tried]
        ELSE IF {si \in tried : si \in tried => results[si].err = "NoClue"} # {}
        THEN [result |-> Failure("NoClue"),
              pending |-> {si \in tried : si \in tried => results[si].err = "NoClue"}]
        ELSE [result |-> Failure("unknown"), pending |-> tried]
  BY DEF Scan
<1> HIDE DEF found
<1>6. FirstOf(Order, found) = "fakedns+others"  BY <1>4, FirstSniffer
<1>7. Scan(results, tried, tried) = [result |-> FakeDNS(c), pending |-> tried]
  BY <1>2, <1>4, <1>5, <1>6
<1> QED BY <1>3, <1>7, FakeHit

LEMMA CombinedHit ==
  ASSUME NEW m, NEW r, Hit(m), r.err # "nil" \/ Hit(r)
  PROVE  Hit(Combined(m, r))
BY DEF Combined, CompositeResult, Result, Hit

LEMMA FailureErr == ASSUME NEW e PROVE Failure(e).err = e
BY DEF Failure

(* What a verdict makes of the destination: the rules are asked about the   *)
(* one that is routed.                                                      *)
LEMMA DecideFacts ==
  ASSUME NEW r, Verdict(r), Decide(r), Destinations, routeTarget = "", target = Address
  PROVE  /\ target' \in {"ip", "fakeip", "name", "alias"}
         /\ routeTarget' \in {"", "name", "alias"}
         /\ audited' = Chosen'
         /\ routeTarget' # "" => conn.routeOnly /\ target' = Address
         /\ Hit(r) /\ "fakedns" \in Override /\ "alias" \notin Excluded => target' = "alias"
<1>1. target \in {"ip", "fakeip", "name", "alias"}  BY DEF Destinations
<1>2. CASE r.err = "nil" /\ ShouldOverride(conn, r)
  <2>1. audited' = r.domain /\ r.domain \in {"name", "alias"}
    BY <1>2 DEF Decide, ShouldOverride, Verdict
  <2>2. CASE conn.routeOnly /\ r.protocol # "fakedns"
    <3>1. routeTarget' = r.domain /\ target' = target  BY <1>2, <2>2 DEF Decide
    <3> QED BY <1>1, <2>1, <2>2, <3>1 DEF Chosen, Hit
  <2>3. CASE ~(conn.routeOnly /\ r.protocol # "fakedns")
    <3>1. target' = r.domain /\ routeTarget' = routeTarget  BY <1>2, <2>3 DEF Decide
    <3> QED BY <2>1, <3>1 DEF Chosen, Hit
  <2> QED BY <2>2, <2>3
<1>3. CASE ~(r.err = "nil" /\ ShouldOverride(conn, r))
  <2>1. audited' = target /\ target' = target /\ routeTarget' = routeTarget
    BY <1>3 DEF Decide
  <2>2. Hit(r) /\ "fakedns" \in Override /\ "alias" \notin Excluded => FALSE
    BY <1>3 DEF Hit, ShouldOverride, HasPrefix
  <2> QED BY <1>1, <2>1, <2>2 DEF Chosen
<1> QED BY <1>2, <1>3

-----------------------------------------------------------------------------
(* The destination.  Every step that comes to a verdict leads to "route".   *)
Sniffs ==
    Dispatch \/ DispatchLink \/ SniffStarts \/ SniffCanceled \/ SniffTimeout \/ SniffAttempt

Settles(r) ==
    /\ Verdict(r) /\ Decide(r) /\ disp' = "route"
    /\ Resolvable => Hit(r)

LEMMA VerdictStep ==
  ASSUME IInv, Sniffs
  PROVE  /\ disp \in {"off", "sniff", "attempt"} /\ tag' = tag
         /\ pending' \subseteq Sniffers
         /\ conn.fake = "hit" => pending' = pending
         /\ \/ disp' \in {"sniff", "attempt"} /\ UNCHANGED <<target, routeTarget, audited>>
            \/ \E r : Settles(r)
<1>0. Control /\ Destinations  BY DEF IInv
<1>1. pending \in SUBSET Sniffers  BY <1>0 DEF Destinations
<1>2. Verdict(Metadata) /\ SniffMetadata(conn, pending).pending \subseteq Sniffers
  BY <1>1, SniffType DEF Metadata
<1>3. conn.fake = "hit" => Hit(Metadata) /\ SniffMetadata(conn, pending).pending = pending
  BY <1>0, <1>1, MetadataHit DEF Metadata, Destinations
<1>4. ASSUME NEW e \in {"canceled", "timeout", "unknown"}, Sniffed(Failure(e))
      PROVE  \E r : Settles(r)
  <2>1. Verdict(Failure(e)) /\ Failure(e).err # "nil"  BY FailureType, FailureErr
  <2>2. Verdict(Combined(Metadata, Failure(e)))  BY <1>2, <2>1, CombinedType
  <2>3. Resolvable => Hit(Combined(Metadata, Failure(e)))
    BY <1>3, <2>1, CombinedHit DEF Resolvable
  <2>4. disp' = "route" /\ Decide(Combined(Metadata, Failure(e)))  BY <1>4 DEF Sniffed
  <2> QED BY <2>2, <2>3, <2>4 DEF Settles
<1>5. ASSUME NEW content \in BOOLEAN, StartRouting(content),
             ~content => (Resolvable => conn.sniff = "udp")
      PROVE  \/ disp' \in {"sniff", "attempt"} /\ UNCHANGED <<target, routeTarget, audited>>
             \/ \E r : Settles(r)
  <2>1. CASE content  BY <1>5, <2>1 DEF StartRouting
  <2>2. CASE ~content /\ conn.sniff = "udp"
    <3>1. disp' = "route" /\ Decide(Metadata)  BY <1>5, <2>2 DEF StartRouting
    <3> QED BY <1>2, <1>3, <3>1 DEF Settles, Resolvable
  <2>3. CASE ~content /\ conn.sniff # "udp"
    <3>1. disp' = "route" /\ Decide(Failure("unsniffed"))  BY <1>5, <2>3 DEF StartRouting
    <3>2. ~Resolvable  BY <1>5, <2>3
    <3> QED BY <3>1, <3>2, FailureType DEF Settles
  <2> QED BY <2>1, <2>2, <2>3
<1>6. CASE Dispatch
  <2> DEFINE content == conn.sniff \in {"meta", "content"}
  <2>1. caller = "start" /\ StartRouting(content) /\ tag' = tag /\ pending' = pending
    BY <1>6 DEF Dispatch, sniffVars
  <2>2. ~content => (Resolvable => conn.sniff = "udp")
    BY <1>0 DEF Resolvable, Control, Conns
  <2>3. content \in BOOLEAN  OBVIOUS
  <2>4. disp = "off"  BY <1>0, <2>1 DEF Control
  <2> HIDE DEF content
  <2> QED BY <1>1, <1>5, <2>1, <2>2, <2>3, <2>4
<1>7. CASE DispatchLink
  <2> DEFINE content == conn.sniff \in {"meta", "content"} /\ IsPipeReader
  <2>1. caller = "start" /\ Linked /\ StartRouting(content) /\ tag' = tag /\ pending' = pending
    BY <1>7 DEF DispatchLink, sniffVars
  <2>2. ~content => (Resolvable => conn.sniff = "udp")
    BY <1>0, <2>1 DEF Resolvable, RoutesInCaller, Control, Conns
  <2>3. content \in BOOLEAN  OBVIOUS
  <2>4. disp = "off"  BY <1>0, <2>1 DEF Control
  <2> HIDE DEF content
  <2> QED BY <1>1, <1>5, <2>1, <2>2, <2>3, <2>4
<1>8. CASE SniffStarts
  <2>1. disp = "sniff" /\ tag' = tag  BY <1>8 DEF SniffStarts
  <2>2. CASE conn.sniff = "meta"
    <3>1. disp' = "route" /\ Decide(Metadata) /\ pending' = pending
      BY <1>8, <2>2 DEF SniffStarts
    <3>2. Settles(Metadata)  BY <1>2, <1>3, <3>1 DEF Settles, Resolvable
    <3> QED BY <1>1, <2>1, <3>1, <3>2
  <2>3. CASE conn.sniff # "meta"
    <3>1. /\ disp' = "attempt" /\ pending' = SniffMetadata(conn, pending).pending
          /\ UNCHANGED <<target, routeTarget, audited>>
      BY <1>8, <2>3 DEF SniffStarts
    <3> QED BY <1>2, <1>3, <2>1, <3>1
  <2> QED BY <2>2, <2>3
<1>9. CASE SniffCanceled
  <2>1. disp = "attempt" /\ Sniffed(Failure("canceled")) /\ tag' = tag /\ pending' = pending
    BY <1>9 DEF SniffCanceled, sniffVars
  <2> QED BY <1>1, <1>4, <2>1
<1>10. CASE SniffTimeout
  <2>1. disp = "attempt" /\ Sniffed(Failure("timeout")) /\ tag' = tag /\ pending' = pending
    BY <1>10 DEF SniffTimeout, sniffVars
  <2> QED BY <1>1, <1>4, <2>1
<1>11. CASE SniffAttempt
  <2> DEFINE s == Sniff(conn, pending, Len(Cache))
  <2>1. disp = "attempt" /\ tag' = tag  BY <1>11 DEF SniffAttempt
  <2>2. \/ /\ Cache # <<>> /\ s.result.err # "NoClue"
           /\ Sniffed(s.result) /\ pending' = pending
        \/ /\ ~(Cache # <<>> /\ s.result.err # "NoClue")
           /\ pending' = IF Cache # <<>> THEN s.pending ELSE pending
           /\ \/ Sniffed(Failure("unknown"))
              \/ UNCHANGED <<disp, target, routeTarget, audited>>
    BY <1>11 DEF SniffAttempt
  <2>3. Verdict(s.result) /\ s.pending \subseteq Sniffers  BY <1>1, SniffType
  <2>4. conn.fake = "hit" => Hit(s.result)  BY <1>0, <1>1, SniffHit DEF Destinations
  <2> HIDE DEF s
  <2>5. CASE Cache # <<>> /\ s.result.err # "NoClue"
    <3>1. disp' = "route" /\ Decide(Combined(Metadata, s.result)) /\ pending' = pending
      BY <2>2, <2>5 DEF Sniffed
    <3>2. Verdict(Combined(Metadata, s.result))  BY <1>2, <2>3, CombinedType
    <3>3. Resolvable => Hit(Combined(Metadata, s.result))
      BY <1>3, <2>4, CombinedHit DEF Resolvable
    <3>4. Settles(Combined(Metadata, s.result))  BY <3>1, <3>2, <3>3 DEF Settles
    <3> QED BY <1>1, <2>1, <3>1, <3>4
  <2>6. CASE ~(Cache # <<>> /\ s.result.err # "NoClue")
    <3>1. conn.fake = "hit" => pending' = pending  BY <2>2, <2>4, <2>6 DEF Hit
    <3>2. pending' \subseteq Sniffers  BY <1>1, <2>2, <2>3, <2>6
    <3>3. CASE Sniffed(Failure("unknown"))
      BY <1>4, <2>1, <3>1, <3>2, <3>3
    <3>4. CASE UNCHANGED <<disp, target, routeTarget, audited>>
      BY <2>1, <3>1, <3>2, <3>4
    <3> QED BY <2>2, <2>6, <3>3, <3>4
  <2> QED BY <2>5, <2>6
<1> QED BY <1>6, <1>7, <1>8, <1>9, <1>10, <1>11 DEF Sniffs

LEMMA PickHandlerType ==
  ASSUME NEW forced \in BOOLEAN, NEW handlers
  PROVE  PickHandler(forced, handlers) \in {"", "forced", "routed", "inbound", "default"}
<1> DEFINE H == {"forced", "routed", "inbound", "default"}
           order == IF forced THEN <<"forced">> ELSE <<"routed", "inbound", "default">>
<1>1. order \in Seq(H)
  <2>1. <<"forced">> \in Seq(H) /\ <<"routed", "inbound", "default">> \in Seq(H)  OBVIOUS
  <2> QED BY <2>1, Zenon
<1>2. PickHandler(forced, handlers) =
        IF ToSet(order) \cap handlers = {} THEN "" ELSE FirstOf(order, handlers)
  BY DEF PickHandler
<1> HIDE DEF order
<1>3. CASE ToSet(order) \cap handlers = {}  BY <1>2, <1>3
<1>4. CASE ToSet(order) \cap handlers # {}
  <2>1. PICK h : h \in ToSet(order) /\ h \in handlers  BY <1>4
  <2>2. PICK k \in 1 .. Len(order) : order[k] = h
    BY <1>1, <2>1, LenProperties DEF ToSet
  <2>3. order[k] \in handlers  BY <2>1, <2>2
  <2>4. \E i \in 1 .. Len(order) :
          FirstOf(order, handlers) = order[i] /\ order[i] \in handlers /\ i <= k
    BY <1>1, <2>3, FirstOfIn
  <2>5. FirstOf(order, handlers) \in H  BY <1>1, <2>4, ElementOfSeq
  <2> QED BY <1>2, <1>4, <2>5
<1> QED BY <1>3, <1>4

LEMMA DestinationsStep ==
  ASSUME IInv, [Next]_vars
  PROVE  Destinations' /\ Audited'
<1>0. Control /\ Destinations /\ Audited  BY DEF IInv
<1>a. conn' = conn  BY SameConn
<1>1. CASE Sniffs
  <2>1. /\ disp \in {"off", "sniff", "attempt"} /\ tag' = tag
        /\ pending' \subseteq Sniffers
        /\ conn.fake = "hit" => pending' = pending
        /\ \/ disp' \in {"sniff", "attempt"} /\ UNCHANGED <<target, routeTarget, audited>>
           \/ \E r : Settles(r)
    BY <1>1, VerdictStep
  <2>2. tag' = "" /\ routeTarget = "" /\ target = Address  BY <1>0, <2>1 DEF Destinations
  <2>3. /\ conn'.fake = "hit" => pending' = NewSniffer(conn')
        /\ Address' = Address
    BY <1>0, <1>a, <2>1 DEF Destinations, Address
  <2>4. CASE disp' \in {"sniff", "attempt"} /\ UNCHANGED <<target, routeTarget, audited>>
    BY <1>0, <2>1, <2>2, <2>3, <2>4 DEF Destinations, Audited
  <2>5. ASSUME NEW r, Settles(r) PROVE Destinations' /\ Audited'
    <3>1. /\ disp' = "route" /\ target' \in {"ip", "fakeip", "name", "alias"}
          /\ routeTarget' \in {"", "name", "alias"} /\ audited' = Chosen'
          /\ routeTarget' # "" => conn.routeOnly /\ target' = Address
      BY <1>0, <2>2, <2>5, DecideFacts DEF Settles
    <3> QED BY <1>a, <2>1, <2>2, <2>3, <3>1 DEF Destinations, Audited
  <2> QED BY <2>1, <2>4, <2>5
<1>2. CASE RoutedDispatch
  <2>1. PICK forced \in BOOLEAN, handlers \in SUBSET {"forced", "routed", "inbound", "default"} :
            /\ tag' = PickHandler(forced, handlers)
            /\ disp' = IF PickHandler(forced, handlers) = "" THEN "done" ELSE "handle"
    BY <1>2 DEF RoutedDispatch
  <2>2. tag' \in {"", "forced", "routed", "inbound", "default"}  BY <2>1, PickHandlerType
  <2>3. disp = "route" /\ disp' \in {"done", "handle"} /\ ~Detected
    BY <1>2, <2>1 DEF RoutedDispatch
  <2>4. UNCHANGED <<pending, target, routeTarget, audited>>
    BY <1>2 DEF RoutedDispatch, sniffVars
  <2>5. Chosen' = Chosen /\ Address' = Address  BY <1>a, <2>4 DEF Chosen, Address
  <2>6. Destinations'  BY <1>0, <1>a, <2>2, <2>3, <2>4 DEF Destinations
  <2>7. audited' = Chosen'  BY <1>0, <2>3, <2>4, <2>5 DEF Audited
  <2>8. conn'.user # "none" => audited' \notin Banned  BY <1>a, <2>3, <2>4 DEF Detected
  <2> QED BY <1>0, <1>a, <2>4, <2>5, <2>6, <2>7, <2>8 DEF Audited
<1>3. CASE UNCHANGED <<pending, routeVars>> /\ (disp' = disp \/ disp' = "done")
  <2>1. UNCHANGED <<pending, target, routeTarget, audited, tag>>  BY <1>3 DEF routeVars
  <2>2. Chosen' = Chosen /\ Address' = Address  BY <1>a, <2>1 DEF Chosen, Address
  <2>3. Destinations'  BY <1>0, <1>3, <1>a, <2>1, <2>2 DEF Destinations
  <2> QED BY <1>0, <1>3, <1>a, <2>1, <2>2, <2>3 DEF Audited
<1>4. \/ Sniffs \/ RoutedDispatch
      \/ UNCHANGED <<pending, routeVars>> /\ (disp' = disp \/ disp' = "done")
  BY DEF Next, vars, Enter, Client, Inbound, Sniffing, Routing, Handling, Sniffs,
         DispatchRefused, DispatchLinkRefused, ClientSends, ClientCloses, ClientAborts,
         CallerReturns, ConnectionCloses, RuleRejects, HandlerReads, HandlerSeesEnd, HandlerStops,
         HandlerEnds, UpstreamEnds, sniffVars, routeVars
<1> QED BY <1>1, <1>2, <1>3, <1>4

(* FakeDNS decides first, and is not bound by routeOnly.                    *)
LEMMA ResolvedStep ==
  ASSUME IInv, Resolved, [Next]_vars, "alias" \notin Excluded
  PROVE  Resolved'
<1>0. Control /\ Destinations  BY DEF IInv
<1>a. conn' = conn /\ RoutesInCaller' = RoutesInCaller  BY SameConn
<1>b. Resolvable' = Resolvable  BY <1>a DEF Resolvable
<1>1. CASE Sniffs
  <2>1. /\ disp \in {"off", "sniff", "attempt"} /\ tag' = tag
        /\ \/ disp' \in {"sniff", "attempt"}
           \/ \E r : Settles(r)
    BY <1>1, VerdictStep
  <2>2. tag' = "" /\ routeTarget = "" /\ target = Address  BY <1>0, <2>1 DEF Destinations
  <2>3. CASE disp' \in {"sniff", "attempt"}  BY <2>2, <2>3 DEF Resolved
  <2>4. ASSUME NEW r, Settles(r) PROVE Resolved'
    <3>1. Resolvable => target' = "alias"
      BY <1>0, <2>2, <2>4, DecideFacts DEF Settles, Resolvable
    <3> QED BY <1>b, <3>1 DEF Resolved
  <2> QED BY <2>1, <2>3, <2>4
<1>2. CASE target' = target /\ (disp = "route" \/ tag # "" \/ (disp' # "route" /\ tag' = ""))
  BY <1>2, <1>b DEF Resolved
<1>3. \/ Sniffs
      \/ target' = target /\ (disp = "route" \/ (tag' = tag /\ (disp' = disp \/ disp' = "done")))
  BY DEF Next, vars, Enter, Client, Inbound, Sniffing, Routing, Handling, Sniffs,
         DispatchRefused, DispatchLinkRefused, ClientSends, ClientCloses, ClientAborts,
         CallerReturns, ConnectionCloses, RuleRejects, RoutedDispatch, HandlerReads,
         HandlerSeesEnd, HandlerStops, HandlerEnds, UpstreamEnds, sniffVars, routeVars
<1> QED BY <1>1, <1>2, <1>3

-----------------------------------------------------------------------------
LEMMA InvStep == IInv /\ [Next]_vars => IInv'
<1> SUFFICES ASSUME IInv, [Next]_vars PROVE IInv'  OBVIOUS
<1>1. Control'  BY ControlStep DEF IInv
<1>2. Stream'  BY StreamStep
<1>3. Counter' /\ Slots' /\ Disposed'  BY CounterStep, SlotsStep, DisposedStep
<1>4. SessionOutlivesRouting'  BY OutlivesStep
<1>5. Destinations' /\ Audited'  BY DestinationsStep
<1> QED BY <1>1, <1>2, <1>3, <1>4, <1>5 DEF IInv, Stream

LEMMA AlwaysInv == Spec => []IInv
BY InitInv, InvStep, PTL DEF Spec

LEMMA InvTypes == IInv => TypeOK
<1> SUFFICES ASSUME IInv PROVE TypeOK  OBVIOUS
<1>0. Control /\ Pipes /\ Complete /\ Counter /\ Slots /\ Destinations  BY DEF IInv
<1>1. up.st \in {"open", "closed", "errord"} /\ up.data \in Seq(Nat)  BY <1>0 DEF Pipes, Pipe
<1>2. Len(up.data) \in Nat /\ Len(got) \in Nat  BY <1>0, <1>1, LenProperties DEF Pipes
<1>3. Len(up.data) <= sent /\ Len(got) <= sent  BY <1>0 DEF Complete
<1>4. sent \in Nat /\ sent <= MaxChunks /\ MaxChunks \in Nat  BY <1>0, DispatcherAssumption DEF Pipes
<1>5. Len(up.data) <= MaxChunks  BY <1>2, <1>3, <1>4
<1>6. counted \in Nat /\ counted <= sent  BY <1>0, <1>2, <1>3, <1>4 DEF Counter
<1>7. counted \in 0 .. MaxChunks  BY <1>4, <1>6
<1>8. releases \in Nat  BY <1>0 DEF Slots
<1>9. /\ conn \in Conns
      /\ caller \in {"start", "copy", "wait", "returned", "gone"}
      /\ client \in {"open", "closed", "aborted", "reset"}
      /\ ctx \in {"live", "canceled"}
      /\ disp \in {"off", "sniff", "attempt", "route", "handle", "done"}
      /\ attempts \in 0 .. 2
  BY <1>0 DEF Control
<1>10. /\ down \in {"open", "closed", "errord"} /\ seen \in {"none", "eof", "err"}
       /\ sent \in 0 .. MaxChunks
  BY <1>0 DEF Pipes
<1>11. /\ target \in {"ip", "fakeip", "name", "alias"}
       /\ routeTarget \in {"", "name", "alias"}
       /\ tag \in {"", "forced", "routed", "inbound", "default"}
  BY <1>0 DEF Destinations
<1> QED BY <1>1, <1>5, <1>7, <1>8, <1>9, <1>10, <1>11 DEF TypeOK

(* For any number of chunks and any sizes of pipe and sniffing payload, the *)
(* outbound reads exactly what the client sent, in order, and all of it     *)
(* before it sees the end of a stream the client closed: the cached reader  *)
(* gives what it sniffed back first, and only an interrupt drops data.      *)
THEOREM SniffedStreamIntact == Spec => []UplinkSound
<1>1. IInv => UplinkSound
  <2> SUFFICES ASSUME IInv PROVE UplinkSound  OBVIOUS
  <2>1. TypeOK  BY InvTypes
  <2>2. got \in Seq(Nat) /\ InOrder /\ Complete /\ EofMeansClosed
    BY DEF IInv, Pipes, ClosedByClient
  <2>3. got = [i \in 1 .. Len(got) |-> got[i]]  BY <2>2, LenProperties
  <2>4. \A i \in 1 .. Len(got) : got[i] = i  BY <2>2 DEF InOrder
  <2>5. got = [i \in 1 .. Len(got) |-> i]  BY <2>3, <2>4
  <2>6. UplinkExact  BY <2>2, <2>5 DEF UplinkExact, Complete
  <2> QED BY <2>1, <2>2, <2>6 DEF UplinkSound
<1> QED BY <1>1, AlwaysInv, PTL

(* However inbound and routing end, and in whichever order, the slot is     *)
(* given back exactly once and neither pipe of the link is left open.       *)
THEOREM LinksSettleOnce == Spec => []SettledOnce
<1>1. IInv => SettledOnce
  <2> SUFFICES ASSUME IInv PROVE SettledOnce  OBVIOUS
  <2>1. Slots /\ Disposed /\ Control  BY DEF IInv
  <2>2. ReleasedOnce  BY <2>1 DEF ReleasedOnce, Slots, Control
  <2> QED BY <2>1, <2>2 DEF SettledOnce, Disposed
<1> QED BY <1>1, AlwaysInv, PTL

(* DispatchLink returns only after the routing of a connection it has to    *)
(* keep open is over.                                                       *)
THEOREM LinkOutlivesRouting == Spec => []SessionOutlivesRouting
<1>1. IInv => SessionOutlivesRouting  BY DEF IInv
<1> QED BY <1>1, AlwaysInv, PTL

(* No chunk of a user with statistics reaches the outbound uncounted,       *)
(* whichever of the two entries and readers it came through.                *)
THEOREM DeliveredIsCounted == Spec => []CountedBeforeDelivered
<1>1. IInv => CountedBeforeDelivered
  <2> SUFFICES ASSUME IInv PROVE CountedBeforeDelivered  OBVIOUS
  <2>1. Counter /\ Complete /\ Pipes  BY DEF IInv
  <2>2. Len(got) \in Nat /\ sent \in Nat  BY <2>1, LenProperties, DispatcherAssumption DEF Pipes
  <2> QED BY <2>1, <2>2 DEF CountedBeforeDelivered, Counter, Complete
<1> QED BY <1>1, AlwaysInv, PTL

(* For any rules and overrides the rules see the destination that is        *)
(* routed, and what is dialled differs from it only under routeOnly, where  *)
(* it is the address the client asked for; and an address whose domain      *)
(* FakeDNS knows is not dialled as it came, if the configuration does not   *)
(* exclude that domain from overriding.                                     *)
THEOREM RulesSeeWhatIsRouted == "alias" \notin Excluded => (Spec => []DestinationAgreed)
<1> SUFFICES ASSUME "alias" \notin Excluded PROVE Spec => []DestinationAgreed  OBVIOUS
<1>1. Init => IInv /\ Resolved
  <2>1. Init => Resolved  BY DEF Init, Resolved
  <2> QED BY <2>1, InitInv
<1>2. IInv /\ Resolved /\ [Next]_vars => (IInv /\ Resolved)'
  BY InvStep, ResolvedStep
<1>3. IInv /\ Resolved => DestinationAgreed
  <2> SUFFICES ASSUME IInv, Resolved PROVE DestinationAgreed  OBVIOUS
  <2>1. Audited  BY DEF IInv
  <2>2. AuditSeesRoute  BY <2>1, Zenon DEF AuditSeesRoute, Audited, Chosen
  <2>3. FakeAddressResolved  BY DEF FakeAddressResolved, Resolved, Resolvable
  <2> QED BY <2>2, <2>3 DEF DestinationAgreed
<1> QED BY <1>1, <1>2, <1>3, PTL DEF Spec
=============================================================================
