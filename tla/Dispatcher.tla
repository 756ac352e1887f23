----------------------------- MODULE Dispatcher -----------------------------
(***************************************************************************)
(* One connection through the dispatcher (app/mydispatcher/default.go):    *)
(* the link it is given or makes, the goroutine that sniffs, routes and    *)
(* runs the outbound handler, and the inbound that called it.              *)
(*                                                                         *)
(* Dispatch makes two pipes and returns; the inbound copies through them.  *)
(* DispatchLink works on the caller's link, whose reader is a pipe or the  *)
(* connection itself.  A step is one operation on a pipe or one pass of    *)
(* the sniffing loop.  Destinations are valid.  Limiter models what the    *)
(* admission decides and which slots it takes; here its verdict is part of *)
(* the connection's description.                                           *)
(***************************************************************************)
EXTENDS Sniffer

CONSTANTS
    Speaks,     \* pairs <<protocol, chunks needed>> a client may send
    Banned,     \* destinations the rules of the user's node match
    MaxChunks,  \* bound: chunks a client sends
    PipeCap,    \* chunks a pipe holds
    FullAt      \* chunks that fill the sniffing payload

ASSUME DispatcherAssumption == {MaxChunks, PipeCap, FullAt} \subseteq Nat \ {0}

(* A connection: who is its user, whether it has a source address, how it   *)
(* reaches the dispatcher and what it carries.                              *)
Conns ==
    { c \in [via : {"Dispatch", "DispatchLink"}, reader : {"pipe", "conn"},
             user : {"none", "plain", "rated", "full"}, source : BOOLEAN,
             sniff : {"off", "udp", "meta", "content"}, routeOnly : BOOLEAN,
             speaks : {s[1] : s \in Speaks}, needs : {s[2] : s \in Speaks},
             fake : {"absent", "miss", "pool", "hit"}] :
      /\ <<c.speaks, c.needs>> \in Speaks
      /\ c.via = "Dispatch" => c.reader = "pipe"
      /\ c.user # "none" => c.source
      /\ c.sniff \in {"off"} => ~c.routeOnly /\ c.fake = "absent" }

VARIABLES
    conn,       \* the connection
    caller,     \* the inbound: "start", "copy", "wait", "returned", "gone"
    client,     \* "open", "closed" (gracefully), "aborted", or "reset" after closing
    ctx,        \* "live" or "canceled"
    disp,       \* the routing goroutine: "off", "sniff", "attempt", "route", "handle", "done"
    up,         \* what the outbound reads from: a pipe or the connection
    down,       \* state of what it writes to
    cache,      \* cachedReader.cache
    attempts,   \* totalAttempt
    pending,    \* sniffers that may still succeed
    target,     \* ob.Target
    routeTarget,\* ob.RouteTarget, "" when unset
    audited,    \* the destination given to RuleManager.Detect
    tag,        \* the outbound handler chosen
    sent,       \* chunks the client sent
    got,        \* chunks the outbound read
    seen,       \* end of stream as the outbound saw it: "none", "eof", "err"
    counted,    \* uplink chunks counted for the user
    releases    \* runs of connTrackWriter's onClose

vars == <<conn, caller, client, ctx, disp, up, down, cache, attempts, pending, target,
          routeTarget, audited, tag, sent, got, seen, counted, releases>>
linkVars == <<up, down, cache, releases>>
sniffVars == <<attempts, pending>>
routeVars == <<target, routeTarget, audited, tag>>
dataVars == <<sent, got, seen, counted>>

Linked == conn.via = "DispatchLink"
Stats == conn.user \in {"plain", "rated"}
Rated == conn.user = "rated"
Tracked == conn.source
Address == IF conn.fake \in {"pool", "hit"} THEN "fakeip" ELSE "ip"
Chunks == 1 .. MaxChunks

TypeOK ==
    /\ conn \in Conns
    /\ caller \in {"start", "copy", "wait", "returned", "gone"}
    /\ client \in {"open", "closed", "aborted", "reset"}
    /\ ctx \in {"live", "canceled"}
    /\ disp \in {"off", "sniff", "attempt", "route", "handle", "done"}
    /\ up.st \in {"open", "closed", "errord"} /\ Len(up.data) <= MaxChunks
    /\ down \in {"open", "closed", "errord"}
    /\ attempts \in 0 .. 2
    /\ target \in {"ip", "fakeip", "name", "alias"}
    /\ routeTarget \in {"", "name", "alias"}
    /\ tag \in {"", "forced", "routed", "inbound", "default"}
    /\ sent \in 0 .. MaxChunks /\ counted \in 0 .. MaxChunks
    /\ seen \in {"none", "eof", "err"} /\ releases \in Nat

Init ==
    /\ conn \in Conns
    /\ caller = "start" /\ client = "open" /\ ctx = "live" /\ disp = "off"
    /\ up = [data |-> <<>>, st |-> "open"] /\ down = "open"
    /\ cache = <<>> /\ attempts = 0 /\ pending = NewSniffer(conn)
    /\ target = Address /\ routeTarget = "" /\ audited = "" /\ tag = ""
    /\ sent = 0 /\ got = <<>> /\ seen = "none" /\ counted = 0 /\ releases = 0

-----------------------------------------------------------------------------
(* Links: common.Close and common.Interrupt through the wrappers.           *)

(* A pipe closed, or interrupted: what it holds is dropped.                 *)
PipeState(op, st, empty) ==
    CASE op = "Close" -> IF st = "open" THEN "closed" ELSE st
      [] op = "Interrupt" -> IF st = "closed" /\ empty THEN "closed" ELSE "errord"
      [] op = "none" -> st

PipeOp(op, p) ==
    [data |-> IF op = "Interrupt" THEN <<>> ELSE p.data,
     st |-> PipeState(op, p.st, p.data = <<>>)]

(* mutant: connTrackWriter has no Interrupt                                 *)
ThroughWriterClose(op) == "Close"

(* limiter.Writer has a Close only, so an Interrupt arrives as a Close.     *)
ThroughWriter(op) == IF Rated THEN "Close" ELSE op

(* limiter.Reader has neither.                                              *)
ThroughReader == IF Linked /\ Rated THEN "none" ELSE "Interrupt"

(* mutant: the callback runs on every close                                 *)
ReleaseTwice == IF Tracked THEN releases + 1 ELSE releases

(* connTrackWriter: once.Do(onClose).                                       *)
Release == IF Tracked THEN 1 ELSE releases

(* The routing side ends its link: op on link.Writer, which DispatchLink    *)
(* tracks; and Interrupt on link.Reader, with its cache if it was sniffed.  *)
(* The writer and reader of a connection cannot be closed through it.       *)
EndLink(op) ==
    /\ down' = IF conn.reader = "pipe" THEN PipeState(ThroughWriter(op), down, TRUE) ELSE down
    /\ releases' = IF Linked THEN Release ELSE releases
    /\ cache' = <<>>
    /\ up' = IF conn.reader = "pipe" THEN PipeOp(ThroughReader, up) ELSE up

(* mutant: only the writer is closed                                        *)
DisposeWriter ==
    /\ down' = IF conn.reader = "pipe" THEN PipeState("Close", down, TRUE) ELSE down
    /\ releases' = IF Linked THEN Release ELSE releases
    /\ UNCHANGED <<up, cache>>

(* Every early exit: common.Close(link.Writer), common.Interrupt(link.Reader). *)
Dispose == EndLink("Close")

-----------------------------------------------------------------------------
(* The destination.                                                         *)

(* mutant: the rules are asked about the address the client gave            *)
DecideUnaudited(r) ==
    /\ audited' = target
    /\ IF r.err = "nil" /\ ShouldOverride(conn, r)
       THEN IF conn.routeOnly /\ r.protocol # "fakedns"
            THEN routeTarget' = r.domain /\ UNCHANGED target
            ELSE target' = r.domain /\ UNCHANGED routeTarget
       ELSE UNCHANGED <<target, routeTarget>>

(* What a sniffing result makes of it; content.Protocol is not read here.   *)
Decide(r) ==
    IF r.err = "nil" /\ ShouldOverride(conn, r)
    THEN /\ audited' = r.domain
         /\ IF conn.routeOnly /\ r.protocol # "fakedns"
            THEN routeTarget' = r.domain /\ UNCHANGED target
            ELSE target' = r.domain /\ UNCHANGED routeTarget
    ELSE audited' = target /\ UNCHANGED <<target, routeTarget>>

-----------------------------------------------------------------------------
(* Entry.                                                                   *)

(* The metadata sniffers, run before the goroutine starts.                  *)
Metadata == SniffMetadata(conn, pending).result

(* Start of the routing goroutine; a connection that is not sniffed for     *)
(* content is ready to be routed.                                           *)
StartRouting(content) ==
    /\ disp' = IF content THEN "sniff" ELSE "route"
    /\ IF content THEN UNCHANGED <<target, routeTarget, audited>>
       ELSE Decide(IF conn.sniff = "udp" THEN Metadata ELSE Failure("unsniffed"))

(* getLink refuses a device too many: both links are torn down.             *)
DispatchRefused ==
    /\ caller = "start" /\ ~Linked /\ conn.user = "full"
    /\ caller' = "returned" /\ disp' = "done"
    /\ up' = PipeOp("Interrupt", PipeOp("Close", up)) /\ down' = "closed"
    /\ releases' = Release
    /\ UNCHANGED <<conn, client, ctx, cache, sniffVars, routeVars, dataVars>>

Dispatch ==
    /\ caller = "start" /\ ~Linked /\ conn.user # "full"
    /\ caller' = "copy"
    /\ StartRouting(conn.sniff \in {"meta", "content"})
    /\ UNCHANGED <<conn, client, ctx, linkVars, sniffVars, tag, dataVars>>

DispatchLinkRefused ==
    /\ caller = "start" /\ Linked /\ conn.user = "full"
    /\ caller' = "returned" /\ disp' = "done"
    /\ Dispose
    /\ UNCHANGED <<conn, client, ctx, sniffVars, routeVars, dataVars>>

(* mutant: the assertion looks at the reader the caller passed              *)
IsPipeReaderEarly == conn.reader = "pipe"

(* outbound.Reader is a *pipe.Reader: neither counted nor rated by now.     *)
IsPipeReader == conn.reader = "pipe" /\ ~Stats

(* mutant: a connection without a pipe is routed in the background          *)
RoutesInCallerNever == FALSE

(* Routed before DispatchLink returns: a TCP connection that would be       *)
(* sniffed but has no pipe.                                                 *)
RoutesInCaller == Linked /\ conn.sniff \in {"meta", "content"} /\ ~IsPipeReader

DispatchLink ==
    /\ caller = "start" /\ Linked /\ conn.user # "full"
    /\ caller' = IF RoutesInCaller THEN "wait" ELSE "returned"
    /\ StartRouting(conn.sniff \in {"meta", "content"} /\ IsPipeReader)
    /\ UNCHANGED <<conn, client, ctx, linkVars, sniffVars, tag, dataVars>>

-----------------------------------------------------------------------------
(* The inbound and its client.                                              *)

(* A chunk; through Dispatch the inbound writes it to the pipe, counting    *)
(* it, and waits while the pipe is full.                                    *)
ClientSends ==
    /\ caller # "start" /\ client = "open" /\ up.st = "open" /\ sent < MaxChunks
    /\ conn.reader = "pipe" => Len(up.data) < PipeCap
    /\ sent' = sent + 1
    /\ up' = [up EXCEPT !.data = Append(@, sent + 1)]
    /\ counted' = IF ~Linked /\ Stats THEN counted + 1 ELSE counted
    /\ UNCHANGED <<conn, caller, client, ctx, disp, down, cache, releases, sniffVars,
                   routeVars, got, seen>>

(* End of the client's stream: Close(link.Writer) after Dispatch.           *)
ClientCloses ==
    /\ caller \in {"copy", "wait", "returned"} /\ client = "open" /\ up.st = "open"
    /\ client' = "closed"
    /\ up' = PipeOp("Close", up)
    /\ releases' = IF Linked THEN releases ELSE Release
    /\ UNCHANGED <<conn, caller, ctx, disp, down, cache, sniffVars, routeVars, dataVars>>

(* The connection breaks or times out, or a write fails.  After Dispatch    *)
(* the inbound interrupts both ends of its link.                            *)
ClientAborts ==
    /\ caller \in {"copy", "wait", "returned"} /\ client \in {"open", "closed"}
    /\ client' = IF client = "open" THEN "aborted" ELSE "reset"
    /\ IF Linked
       THEN /\ up' = PipeOp("Interrupt", up)
            /\ UNCHANGED <<caller, ctx, down, releases>>
       ELSE /\ caller = "copy"
            /\ up' = PipeOp(ThroughWriter("Interrupt"), up)
            /\ down' = PipeState("Interrupt", down, TRUE)
            /\ releases' = Release
            /\ caller' = "returned" /\ ctx' = "canceled"
    /\ UNCHANGED <<conn, disp, cache, sniffVars, routeVars, dataVars>>

(* Both directions are over, or DispatchLink's routing is.                  *)
CallerReturns ==
    /\ \/ caller = "copy" /\ client = "closed" /\ down # "open"
       \/ caller = "wait" /\ disp = "done"
    /\ caller' = "returned"
    /\ ctx' = IF Linked THEN ctx ELSE "canceled"
    /\ UNCHANGED <<conn, client, disp, linkVars, sniffVars, routeVars, dataVars>>

(* The inbound proxy's Process has returned: proxyman cancels its context   *)
(* and closes the connection.  (A stream of AnyTLS is not closed when its   *)
(* goroutine returns; it goes when its session does.)                       *)
ConnectionCloses ==
    /\ caller = "returned" /\ Linked
    /\ caller' = "gone" /\ ctx' = "canceled"
    /\ IF conn.reader = "conn"
       THEN up' = PipeOp("Interrupt", up) /\ down' = "errord"
       ELSE UNCHANGED <<up, down>>
    /\ UNCHANGED <<conn, client, disp, cache, releases, sniffVars, routeVars, dataVars>>

-----------------------------------------------------------------------------
(* sniffer(): the pipe is read through a cachedReader.                      *)

Sniffed(content) ==
    /\ disp' = "route"
    /\ Decide(Combined(Metadata, content))

SniffStarts ==
    /\ disp = "sniff"
    /\ IF conn.sniff = "meta"
       THEN disp' = "route" /\ Decide(Metadata) /\ UNCHANGED pending
       ELSE /\ disp' = "attempt" /\ pending' = SniffMetadata(conn, pending).pending
            /\ UNCHANGED <<target, routeTarget, audited>>
    /\ UNCHANGED <<conn, caller, client, ctx, linkVars, attempts, tag, dataVars>>

SniffCanceled ==
    /\ disp = "attempt" /\ ctx = "canceled"
    /\ Sniffed(Failure("canceled"))
    /\ UNCHANGED <<conn, caller, client, ctx, linkVars, sniffVars, tag, dataVars>>

(* mutant: one attempt too many                                             *)
MayAttemptMore == attempts <= 2

(* totalAttempt > 2 ends the loop.                                          *)
MayAttempt == attempts < 2

(* mutant: no limit on the attempts                                         *)
SniffTimeoutNever == FALSE /\ UNCHANGED vars

SniffTimeout ==
    /\ disp = "attempt" /\ ctx = "live" /\ ~MayAttempt
    /\ Sniffed(Failure("timeout"))
    /\ UNCHANGED <<conn, caller, client, ctx, linkVars, sniffVars, tag, dataVars>>

(* mutant: what was read before is dropped                                  *)
CacheReplaces == IF up.data = <<>> THEN cache ELSE up.data

(* Cache: what the pipe holds joins what was read before.                   *)
Cache == cache \o up.data

(* One pass; the 100 ms wait for data may end with none.                    *)
SniffAttempt ==
    /\ disp = "attempt" /\ ctx = "live" /\ MayAttempt
    /\ attempts' = attempts + 1
    /\ cache' = Cache
    /\ up' = [up EXCEPT !.data = <<>>]
    /\ LET s == Sniff(conn, pending, Len(Cache)) IN
       IF Cache # <<>> /\ s.result.err # "NoClue"
       THEN Sniffed(s.result) /\ UNCHANGED pending
       ELSE /\ pending' = IF Cache # <<>> THEN s.pending ELSE pending
            /\ IF Len(Cache) >= FullAt THEN Sniffed(Failure("unknown"))
               ELSE UNCHANGED <<disp, target, routeTarget, audited>>
    /\ UNCHANGED <<conn, caller, client, ctx, down, releases, tag, dataVars>>

-----------------------------------------------------------------------------
(* routedDispatch and the outbound handler.                                 *)

Detected == conn.user # "none" /\ audited \in Banned

RuleRejects ==
    /\ disp = "route" /\ Detected
    /\ disp' = "done"
    /\ Dispose
    /\ UNCHANGED <<conn, caller, client, ctx, sniffVars, routeVars, dataVars>>

(* The handler: a forced tag or none; else the route's, the one named like  *)
(* the inbound, the default, whichever exists first.                        *)
PickHandler(forced, handlers) ==
    LET order == IF forced THEN <<"forced">> ELSE <<"routed", "inbound", "default">>
    IN IF ToSet(order) \cap handlers = {} THEN "" ELSE FirstOf(order, handlers)

(* Which handlers exist, and whether the router picks one, is up to the     *)
(* configuration and the controller.                                        *)
RoutedDispatch ==
    /\ disp = "route" /\ ~Detected
    /\ \E forced \in BOOLEAN, handlers \in SUBSET {"forced", "routed", "inbound", "default"} :
          LET h == PickHandler(forced, handlers) IN
          /\ tag' = h
          /\ disp' = IF h = "" THEN "done" ELSE "handle"
          /\ IF h = "" THEN Dispose ELSE UNCHANGED linkVars
    /\ UNCHANGED <<conn, caller, client, ctx, sniffVars, target, routeTarget, audited, dataVars>>

(* The reader DispatchLink wrapped is still in front of the pipe.           *)
CountsReads == Linked /\ Stats /\ (RoutesInCaller \/ conn.sniff \in {"off", "udp"})

(* readInternal: the cache is given out once.                               *)
ReadInternal == <<>>

(* ReadMultiBuffer: the cache, or everything in the pipe.                   *)
HandlerReads ==
    /\ disp = "handle" /\ seen = "none"
    /\ IF cache # <<>>
       THEN got' = got \o cache /\ cache' = ReadInternal /\ UNCHANGED up
       ELSE /\ up.data # <<>>
            /\ got' = got \o up.data
            /\ up' = [up EXCEPT !.data = <<>>]
            /\ UNCHANGED cache
    /\ counted' = IF CountsReads THEN counted + Len(got') - Len(got) ELSE counted
    /\ UNCHANGED <<conn, caller, client, ctx, disp, down, releases, sniffVars, routeVars,
                   sent, seen>>

HandlerSeesEnd ==
    /\ disp = "handle" /\ seen = "none" /\ cache = <<>> /\ up.data = <<>> /\ up.st # "open"
    /\ seen' = IF up.st = "closed" THEN "eof" ELSE "err"
    /\ UNCHANGED <<conn, caller, client, ctx, disp, linkVars, sniffVars, routeVars, sent,
                   got, counted>>

(* Handler.Dispatch: the writer is closed, or interrupted after an error;   *)
(* the reader is interrupted.                                               *)
HandlerEnds(err) ==
    /\ disp = "handle"
    /\ disp' = "done"
    /\ EndLink(IF err THEN "Interrupt" ELSE "Close")
    /\ UNCHANGED <<conn, caller, client, ctx, sniffVars, routeVars, dataVars>>

HandlerStops == seen # "none" /\ HandlerEnds(seen = "err")
UpstreamEnds == seen = "none" /\ \E err \in BOOLEAN : HandlerEnds(err)

-----------------------------------------------------------------------------
Enter == DispatchRefused \/ Dispatch \/ DispatchLinkRefused \/ DispatchLink
Client == ClientSends \/ ClientCloses \/ ClientAborts
Inbound == CallerReturns \/ ConnectionCloses
Sniffing == SniffStarts \/ SniffCanceled \/ SniffTimeout \/ SniffAttempt
Routing == RuleRejects \/ RoutedDispatch
Handling == HandlerReads \/ HandlerSeesEnd \/ HandlerStops

Next == Enter \/ Client \/ Inbound \/ Sniffing \/ Routing \/ Handling \/ UpstreamEnds

Spec == Init /\ [][Next]_vars

(* The goroutines run on; the outbound keeps reading and stops at the end   *)
(* of what it reads.  Nothing is assumed of the client or of the upstream.  *)
LiveSpec == Spec /\ WF_vars(CallerReturns) /\ WF_vars(Sniffing) /\ WF_vars(Routing)
                 /\ WF_vars(Handling)

-----------------------------------------------------------------------------
(* Sniffing loses, repeats and reorders nothing: the outbound reads what    *)
(* the client sent, and all of it if it reads to the end of a stream its    *)
(* client closed.                                                           *)
UplinkExact ==
    /\ got = [i \in 1 .. Len(got) |-> i]
    /\ seen = "eof" /\ client \in {"closed", "reset"} => Len(got) = sent

(* The outbound takes a stream for complete only when its client completed  *)
(* it; limiter.Writer turns the interruption of a rate-limited user's       *)
(* stream into a close.                                                     *)
EofMeansClosed == seen = "eof" /\ ~(Rated /\ ~Linked) => client \in {"closed", "reset"}

(* The types hold, and the outbound reads the client's stream and the       *)
(* client's end of it (cachedReader, limiter.Writer).                       *)
UplinkSound == TypeOK /\ UplinkExact /\ EofMeansClosed

(* Once inbound and routing are over the connection has left the online map *)
(* and its device slot exactly once, whatever path they took.               *)
ReleasedOnce ==
    /\ releases <= 1
    /\ disp = "done" /\ caller \in {"returned", "gone"} /\ Tracked => releases = 1

(* When routing is over nobody waits on a pipe of the link: both its ends   *)
(* have ended, and no sniffed data is left.  limiter.Reader keeps the       *)
(* interrupt of a rate-limited link of DispatchLink from its reader.        *)
LinkDisposed ==
    disp = "done" /\ conn.reader = "pipe" =>
        /\ down # "open" /\ cache = <<>>
        /\ up.st = "open" => Linked /\ Rated

(* Routing that is over has settled the slot and both directions of the     *)
(* link (routedDispatch, connTrackWriter).                                  *)
SettledOnce == ReleasedOnce /\ LinkDisposed

(* DispatchLink does not return, and so does not let the connection be      *)
(* closed, before a connection it took for a Vision or REALITY stream has   *)
(* been served.                                                             *)
SessionOutlivesRouting ==
    Linked /\ conn.reader = "conn" /\ conn.sniff \in {"meta", "content"}
        /\ caller \in {"returned", "gone"} => disp = "done"

(* Nothing a user with statistics sends reaches the outbound uncounted, and *)
(* nothing is counted that was not sent.                                    *)
CountedBeforeDelivered == Stats => Len(got) <= counted /\ counted <= sent

(* The rules are asked about the destination the router goes by, sniffed    *)
(* domains included, and one that they ban gets no outbound.  The outbound  *)
(* dials what they saw as well, except under routeOnly: then it dials the   *)
(* very address the client asked for, which they did not see.               *)
AuditSeesRoute ==
    tag # "" =>
        /\ audited = (IF routeTarget # "" THEN routeTarget ELSE target)
        /\ conn.user # "none" => audited \notin Banned
        /\ audited # target => conn.routeOnly /\ target = Address

(* A sniffed connection to an address whose domain FakeDNS knows is never   *)
(* dialled by that address, with or without routeOnly.                      *)
FakeAddressResolved ==
    tag # "" /\ conn.fake = "hit" /\ conn.sniff # "off" /\ ~RoutesInCaller
        /\ "fakedns" \in Override => target # "fakeip"

(* Rules and router agree on the destination, and the outbound departs from *)
(* it under routeOnly alone, never for an address of FakeDNS                *)
(* (default.go:602, shouldOverride).                                        *)
DestinationAgreed == AuditSeesRoute /\ FakeAddressResolved

(* A connection whose client has gone is torn down.                         *)
AbandonedTornDown == client # "open" ~> disp = "done"

-----------------------------------------------------------------------------
(* Not so: "Running it in a goroutine would cause DispatchLink to return    *)
(* immediately -> Process() returns -> TCP closed".  With sniffing disabled *)
(* it does run in a goroutine, for VLESS as well.                           *)
ConnectionKept ==
    Linked /\ conn.reader = "conn" /\ caller = "gone" => disp = "done"

(* Not so: "Check if domain and protocol hit the rule".  Under routeOnly the *)
(* rules are asked about the sniffed domain only, and the address that is   *)
(* dialled may be one they ban.                                             *)
BannedNeverDialled == tag # "" /\ conn.user # "none" => target \notin Banned

(* Not so: "DispatchLink already closes the link on error".  A stream has   *)
(* no Close behind the reader and writer that inbound.go makes of it.       *)
RefusedLinkClosed == disp = "done" /\ conn.user = "full" => up.st # "open"
=============================================================================
