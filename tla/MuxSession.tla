---------------------------- MODULE MuxSession ----------------------------
(***************************************************************************)
(* The two ends of an AnyTLS mux session (lib/session/session.go and       *)
(* stream.go, with the synchronous pipe of lib/pipe) over one connection,  *)
(* and the goroutine the service starts for each stream (lib/service.go).  *)
(*                                                                         *)
(* Each end has a receive loop, the goroutines that use its streams and    *)
(* whoever runs Session.Close; the client also has the watchdog of its     *)
(* SYNs.  A step is one critical section of connLock, streamLock or        *)
(* synDoneLock, one sync.Once, or one transfer through a pipe.  The write  *)
(* of a frame is one step; it waits while the connection is full, until    *)
(* its deadline closes the session.                                        *)
(***************************************************************************)
EXTENDS Padding, Naturals, FiniteSets

CONSTANTS
    MaxSid,     \* streams of a session
    MaxOpens,   \* bound: streams opened in one behaviour
    MaxChunks,  \* end, sid -> chunks written to the stream
    Cap,        \* units the connection holds in one direction
    Acks,       \* does the service report the outcome of its dial (SYNACK)?
    BadAddr,    \* streams whose first chunk is no valid address
    ServerScheme, \* scheme the service is configured with
    Hellos,     \* client settings: "v2" (this code's), "v1", "none"
    MaxActs     \* bound: closes and keep-alive requests the environment starts

Ends == {"C", "S"}
Sids == 1 .. MaxSid
Peer(e) == IF e = "C" THEN "S" ELSE "C"

ASSUME MuxAssumption ==
    /\ MaxSid \in Nat \ {0} /\ MaxOpens \in Nat /\ Cap \in Nat /\ MaxActs \in Nat
    /\ FieldMod \in Nat /\ {"default", ServerScheme} \subseteq DOMAIN Schemes
    /\ \A name \in DOMAIN Schemes : \A p \in DOMAIN Schemes[name].sizes :
          Len(Schemes[name].sizes[p]) \in Nat
    /\ MaxChunks \in [Ends -> [Sids -> Nat]]
    /\ Acks \in BOOLEAN /\ BadAddr \subseteq Sids
    /\ Hellos \subseteq {"v2", "v1", "none"}

VARIABLES
    die,         \* end -> how far Session.Close is: "no", "sweep", "conn", "done"
    streams,     \* end -> keys of the streams map
    str,         \* end, sid -> "none", "live", "dead" or "fin" (closed by FIN)
    app,         \* end, sid -> next step of the goroutine that uses the stream
    wire,        \* end -> units on their way to it
    rx,          \* end -> recvLoop: next step, the chunk in hand, replies to write
    peerVersion, \* end -> version the peer announced
    settings,    \* receivedSettingsFromClient
    streamId,    \* last stream id given out
    opens,       \* streams opened so far
    synPending,
    watch,       \* the armed watcher, and whether a cancelled one may yet fire
    buffering, buffer, pkt, sendPadding,   \* the client's write state
    pad,         \* end -> scheme in use
    acts,
    reported,    \* streams whose outcome was reported (reportOnce)
    sent,        \* end, sid -> chunks written
    rd           \* end, sid -> <<stream, number>> of the chunks read

synVars == <<streamId, opens, synPending, watch>>
bufVars == <<buffer, pkt, sendPadding>>
outVars == <<wire, bufVars>>
cfgVars == <<peerVersion, settings, pad>>
appVars == <<app, str, streams>>
dataVars == <<sent, rd>>
vars == <<die, appVars, outVars, rx, cfgVars, synVars, buffering, acts, reported, dataVars>>

Closed(e) == die[e] # "no"

TypeOK ==
    /\ die \in [Ends -> {"no", "sweep", "conn", "done"}]
    /\ streams \in [Ends -> SUBSET Sids]
    /\ str \in [Ends -> [Sids -> {"none", "live", "dead", "fin"}]]
    /\ app \in [Ends -> [Sids -> {"idle", "syn", "reg", "addr", "run", "fin", "done"}]]
    /\ \A e \in Ends : rx[e].pc \in {"read", "push", "reply", "last", "ended"}
    /\ peerVersion \in [Ends -> {0, 2}]
    /\ settings \in BOOLEAN /\ buffering \in BOOLEAN /\ sendPadding \in BOOLEAN
    /\ streamId \in 0 .. MaxSid
    /\ synPending \in 0 .. MaxSid
    /\ watch \in [cur : {"none", "armed", "expired", "fired"}, late : BOOLEAN]
    /\ pad \in [Ends -> DOMAIN Schemes]
    /\ sent \in [Ends -> [Sids -> Nat]]

(* A new session, whose Run has put the client's settings into the buffer,  *)
(* or one that the pool reuses after its first stream.                      *)
Init ==
    /\ \E reused \in BOOLEAN, h \in Hellos :
        LET st == IF reused THEN "dead" ELSE "none"
            pc == IF reused THEN "done" ELSE "idle"
        IN /\ reused => h = "v2"
           /\ str = [e \in Ends |-> [s \in Sids |-> IF s = 1 THEN st ELSE "none"]]
           /\ app = [e \in Ends |-> [s \in Sids |-> IF s = 1 THEN pc ELSE "idle"]]
           /\ streamId = IF reused THEN 1 ELSE 0
           /\ peerVersion = [e \in Ends |-> IF reused THEN 2 ELSE 0]
           /\ settings = reused
           /\ buffering = ~reused /\ sendPadding = ~reused
           /\ buffer = IF reused \/ h = "none" THEN <<>> ELSE LongFrame("Settings", 0, h)
           /\ pad = [C |-> IF reused THEN ServerScheme ELSE "default", S |-> ServerScheme]
    /\ die = [e \in Ends |-> "no"]
    /\ streams = [e \in Ends |-> {}]
    /\ wire = [e \in Ends |-> <<>>]
    /\ rx = [e \in Ends |-> [pc |-> "read", sid |-> 0, chunk |-> <<0, 0>>, reply |-> <<>>]]
    /\ opens = 0 /\ synPending = 0 /\ pkt = 0
    /\ watch = [cur |-> "none", late |-> FALSE]
    /\ acts = 0 /\ reported = {}
    /\ sent = [e \in Ends |-> [s \in Sids |-> 0]]
    /\ rd = [e \in Ends |-> [s \in Sids |-> <<>>]]

-----------------------------------------------------------------------------
(* Writing a frame: writeControlFrame, writeDataFrame and lockedWrite.      *)

(* The first call of Close runs dieOnce; the rest of Close follows.         *)
Shut(e) == die' = [die EXCEPT ![e] = IF @ = "no" THEN "sweep" ELSE @]

Holding(e) == e = "C" /\ buffering

(* The units a write puts on the connection; only the client pads, up to    *)
(* the scheme's stop.                                                       *)
Units(e, f) ==
    LET b == IF e = "C" THEN buffer \o f ELSE f
        scheme == Schemes[pad["C"]]
    IN IF e = "C" /\ sendPadding /\ pkt + 1 < scheme.stop
       THEN Padded(b, GenerateRecordPayloadSizes(scheme, pkt + 1))
       ELSE {b}

(* A write outside buffering flushes the buffer in front of its frame.      *)
Sent(e, f) ==
    IF Holding(e)
    THEN /\ buffer' = buffer \o f
         /\ UNCHANGED <<wire, pkt, sendPadding>>
    ELSE /\ die[e] # "done"
         /\ IF die[Peer(e)] = "done"
            THEN wire' = wire
            ELSE \E u \in Units(e, f) :
                    /\ Len(wire[Peer(e)]) + Len(u) <= Cap
                    /\ wire' = [wire EXCEPT ![Peer(e)] = @ \o u]
         /\ buffer' = IF e = "C" THEN <<>> ELSE buffer
         /\ pkt' = IF e = "C" /\ sendPadding THEN pkt + 1 ELSE pkt
         /\ sendPadding' = (sendPadding /\ (e = "C" => pkt' < Schemes[pad["C"]].stop))

(* The connection is gone, or the deadline passed while it was full.  What  *)
(* part of the frame was written before is of no use to anybody: the        *)
(* session is closed.                                                       *)
Failed(e, f) ==
    /\ ~Holding(e)
    /\ \/ die[e] = "done"
       \/ die[Peer(e)] = "done"
       \/ \E u \in Units(e, f) : Len(wire[Peer(e)]) + Len(u) > Cap
    /\ Shut(e)
    /\ UNCHANGED outVars

-----------------------------------------------------------------------------
(* Session.Close.                                                           *)

(* An idle timeout, a revoked user, the end of the process.                 *)
CloseSession(e) ==
    /\ die[e] = "no"
    /\ acts < MaxActs /\ acts' = acts + 1
    /\ Shut(e)
    /\ UNCHANGED <<appVars, outVars, rx, cfgVars, synVars, buffering, reported, dataVars>>

(* Under streamLock: every stream is closed locally, the map is replaced.   *)
CloseStreams(e) ==
    /\ die[e] = "sweep"
    /\ str' = [str EXCEPT ![e] = [s \in Sids |->
                  IF s \in streams[e] /\ @[s] = "live" THEN "dead" ELSE @[s]]]
    /\ streams' = [streams EXCEPT ![e] = {}]
    /\ die' = [die EXCEPT ![e] = "conn"]
    /\ UNCHANGED <<app, outVars, rx, cfgVars, synVars, buffering, acts, reported, dataVars>>

(* conn.Close: what this end had not read is gone, and the reset that       *)
(* follows may overtake what it had sent.                                   *)
CloseConn(e) ==
    /\ die[e] = "conn"
    /\ die' = [die EXCEPT ![e] = "done"]
    /\ \E kept \in {<<>>, wire[Peer(e)]} :
            wire' = [wire EXCEPT ![e] = <<>>, ![Peer(e)] = kept]
    /\ UNCHANGED <<appVars, bufVars, rx, cfgVars, synVars, buffering, acts, reported, dataVars>>

-----------------------------------------------------------------------------
(* The client's OpenStream.                                                 *)

(* Disarming closes the watcher's channel; a watcher whose timer has run    *)
(* out may still take the timer's branch of its select.                     *)
Disarmed(w) == [cur |-> "none", late |-> w.late \/ w.cur = "expired"]

(* The id is taken and the SYN counted; the first outstanding one arms the  *)
(* watchdog.                                                                *)
OpenStream(s) ==
    /\ app["C"][s] = "idle" /\ s = streamId + 1
    /\ die["C"] = "no" /\ opens < MaxOpens
    /\ streamId' = s /\ opens' = opens + 1
    /\ IF s >= 2 /\ peerVersion["C"] >= 2
       THEN /\ synPending' = synPending + 1
            /\ watch' = IF synPending = 0
                        THEN [Disarmed(watch) EXCEPT !.cur = "armed"] ELSE watch
       ELSE UNCHANGED <<synPending, watch>>
    /\ app' = [app EXCEPT !["C"][s] = "syn"]
    /\ UNCHANGED <<die, str, streams, outVars, rx, cfgVars, buffering, acts, reported, dataVars>>

SendSyn(s) ==
    /\ app["C"][s] = "syn"
    /\ \/ /\ Sent("C", Frame("SYN", s, 0))
          /\ app' = [app EXCEPT !["C"][s] = "reg"]
          /\ UNCHANGED die
       \/ /\ Failed("C", Frame("SYN", s, 0))
          /\ app' = [app EXCEPT !["C"][s] = "done"]
    /\ UNCHANGED <<str, streams, rx, cfgVars, synVars, buffering, acts, reported, dataVars>>

(* mutant: registered without a look at die                                 *)
RegisterAnyway(s) ==
    /\ app["C"][s] = "reg"
    /\ buffering' = FALSE
    /\ streams' = [streams EXCEPT !["C"] = @ \cup {s}]
    /\ str' = [str EXCEPT !["C"][s] = "live"]
    /\ app' = [app EXCEPT !["C"][s] = "run"]
    /\ UNCHANGED <<die, outVars, rx, cfgVars, synVars, acts, reported, dataVars>>

(* Buffering ends; under streamLock the stream is registered unless the     *)
(* session has died.                                                        *)
Register(s) ==
    /\ app["C"][s] = "reg"
    /\ buffering' = FALSE
    /\ IF Closed("C")
       THEN /\ app' = [app EXCEPT !["C"][s] = "done"]
            /\ UNCHANGED <<streams, str>>
       ELSE /\ streams' = [streams EXCEPT !["C"] = @ \cup {s}]
            /\ str' = [str EXCEPT !["C"][s] = "live"]
            /\ app' = [app EXCEPT !["C"][s] = "run"]
    /\ UNCHANGED <<die, outVars, rx, cfgVars, synVars, acts, reported, dataVars>>

(* The watcher's timer runs out, and its goroutine closes the session.      *)
TimerExpires ==
    /\ watch.cur = "armed"
    /\ watch' = [watch EXCEPT !.cur = "expired"]
    /\ UNCHANGED <<die, appVars, outVars, rx, cfgVars, streamId, opens, synPending,
                   buffering, acts, reported, dataVars>>

WatchdogFires ==
    /\ watch.cur = "expired"
    /\ watch' = [watch EXCEPT !.cur = "fired"]
    /\ Shut("C")
    /\ UNCHANGED <<appVars, outVars, rx, cfgVars, streamId, opens, synPending,
                   buffering, acts, reported, dataVars>>

(* A cancelled watcher with both branches ready takes either.               *)
LateWatcher ==
    /\ watch.late
    /\ watch' = [watch EXCEPT !.late = FALSE]
    /\ Shut("C") \/ UNCHANGED die
    /\ UNCHANGED <<appVars, outVars, rx, cfgVars, streamId, opens, synPending,
                   buffering, acts, reported, dataVars>>

-----------------------------------------------------------------------------
(* The goroutines that use streams.  The service's one reads an address     *)
(* first and writes afterwards.                                             *)

StreamWrite(e, s) ==
    /\ app[e][s] = "run" /\ str[e][s] = "live"
    /\ sent[e][s] < MaxChunks[e][s]
    /\ LET n == sent[e][s] + 1
           f == <<Header("PSH", s, 1, 0), Unit(s, n)>>
       IN \/ /\ Sent(e, f)
             /\ sent' = [sent EXCEPT ![e][s] = n]
             /\ UNCHANGED die
          \/ /\ Failed(e, f)
             /\ UNCHANGED sent
    /\ UNCHANGED <<appVars, rx, cfgVars, synVars, buffering, acts, reported, rd>>

(* The pipe hands the chunk to the reader and lets the receive loop go on.  *)
Top(e) == [rx[e] EXCEPT !.pc = IF Closed(e) THEN "ended" ELSE "read"]

(* mutant: the writer offers the same bytes again                           *)
StreamReadRepeats(e, s) ==
    /\ rx[e].pc = "push" /\ rx[e].sid = s
    /\ app[e][s] \in {"addr", "run"} /\ str[e][s] = "live" /\ Len(rd[e][s]) < 3
    /\ rd' = [rd EXCEPT ![e][s] = Append(@, rx[e].chunk)]
    /\ app' = [app EXCEPT ![e][s] = "run"]
    /\ UNCHANGED <<die, str, streams, rx, outVars, cfgVars, synVars, buffering, acts, reported, sent>>

StreamRead(e, s) ==
    /\ rx[e].pc = "push" /\ rx[e].sid = s
    /\ app[e][s] \in {"addr", "run"} /\ str[e][s] = "live"
    /\ rd' = [rd EXCEPT ![e][s] = Append(@, rx[e].chunk)]
    /\ rx' = [rx EXCEPT ![e] = Top(e)]
    /\ app' = [app EXCEPT ![e][s] =
                  CASE app[e][s] = "run" -> "run"
                    [] app[e][s] = "addr" /\ s \in BadAddr -> "done"
                    [] OTHER -> "run"]
    /\ UNCHANGED <<die, str, streams, outVars, cfgVars, synVars, buffering, acts, reported, sent>>

(* closeWithError: the pipe is closed at once, streamClosed follows.        *)
StreamClose(e, s) ==
    /\ app[e][s] = "run"
    /\ IF str[e][s] = "live"
       THEN /\ acts < MaxActs /\ acts' = acts + 1
            /\ str' = [str EXCEPT ![e][s] = "dead"]
            /\ app' = [app EXCEPT ![e][s] = "fin"]
       ELSE /\ app' = [app EXCEPT ![e][s] = "done"]
            /\ UNCHANGED <<str, acts>>
    /\ UNCHANGED <<die, streams, outVars, rx, cfgVars, synVars, buffering, reported, dataVars>>

(* ReadAddrPort fails on a closed stream; the goroutine just returns.       *)
AddrFails(s) ==
    /\ app["S"][s] = "addr" /\ str["S"][s] # "live"
    /\ app' = [app EXCEPT !["S"][s] = "done"]
    /\ UNCHANGED <<die, str, streams, outVars, rx, cfgVars, synVars, buffering,
                   acts, reported, dataVars>>

StreamClosed(e, s) ==
    /\ app[e][s] = "fin"
    /\ app' = [app EXCEPT ![e][s] = "done"]
    /\ IF Closed(e) THEN UNCHANGED <<die, streams, outVars>>
       ELSE /\ streams' = [streams EXCEPT ![e] = @ \ {s}]
            /\ \/ Sent(e, Frame("FIN", s, 0)) /\ UNCHANGED die
               \/ Failed(e, Frame("FIN", s, 0))
    /\ UNCHANGED <<str, rx, cfgVars, synVars, buffering, acts, reported, dataVars>>

(* HandshakeSuccess and HandshakeFailure, at most one of them per stream.   *)
Handshake(s, failed) ==
    /\ Acks /\ app["S"][s] = "run" /\ s \notin reported
    /\ IF failed THEN acts < MaxActs /\ acts' = acts + 1 ELSE UNCHANGED acts
    /\ reported' = reported \cup {s}
    /\ LET f == IF failed THEN LongFrame("SYNACK", s, 1) ELSE Frame("SYNACK", s, 0)
       IN IF peerVersion["S"] < 2 THEN UNCHANGED <<die, outVars>>
          ELSE \/ Sent("S", f) /\ UNCHANGED die
               \/ Failed("S", f)
    /\ UNCHANGED <<appVars, rx, cfgVars, synVars, buffering, dataVars>>

(* An external client probes the connection.                                *)
Heartbeat ==
    /\ acts < MaxActs /\ ~Holding("C")
    /\ acts' = acts + 1
    /\ Sent("C", Frame("HeartRequest", 0, 0))
    /\ UNCHANGED <<die, appVars, rx, cfgVars, synVars, buffering, reported, dataVars>>

-----------------------------------------------------------------------------
(* recvLoop.  IsClosed is looked at before each frame is waited for, so a   *)
(* loop that waits still handles the next frame of a dying session.         *)

Arrived(e, cmd) ==
    /\ rx[e].pc = "read" /\ die[e] # "done"
    /\ wire[e] # <<>> /\ Head(wire[e]).cmd = cmd
    /\ Len(wire[e]) > Head(wire[e]).len

Consumed(e) ==
    wire' = [wire EXCEPT ![e] = SubSeq(@, Head(@).len + 2, Len(@))]

Replying(e, s, frames) ==
    rx' = [rx EXCEPT ![e] = IF frames = <<>> THEN Top(e)
                            ELSE [@ EXCEPT !.pc = "reply", !.sid = s, !.reply = frames]]

RecvPSH(e) ==
    /\ Arrived(e, "PSH")
    /\ LET s == Head(wire[e]).sid
           data == wire[e][2]
       IN rx' = [rx EXCEPT ![e] =
                    IF s \in streams[e]
                    THEN [@ EXCEPT !.pc = "push", !.sid = s,
                                   !.chunk = <<data.sid, data.arg>>]
                    ELSE Top(e)]
    /\ Consumed(e)
    /\ UNCHANGED <<die, appVars, bufVars, cfgVars, synVars, buffering, acts,
                   reported, dataVars>>

(* mutant: the write into the pipe has a deadline                           *)
PushFailsTimeout(e) ==
    /\ rx[e].pc = "push"
    /\ rx' = [rx EXCEPT ![e] = Top(e)]
    /\ UNCHANGED <<die, appVars, outVars, cfgVars, synVars, buffering, acts,
                   reported, dataVars>>

(* mutant: the pipe's writer does not watch for the reader's end            *)
PushFailsAtEnd(e) ==
    /\ rx[e].pc = "push" /\ die[e] = "done"
    /\ rx' = [rx EXCEPT ![e] = Top(e)]
    /\ UNCHANGED <<die, appVars, outVars, cfgVars, synVars, buffering, acts,
                   reported, dataVars>>

(* The pipe was closed under the write.                                     *)
PushFails(e) ==
    /\ rx[e].pc = "push" /\ str[e][rx[e].sid] # "live"
    /\ rx' = [rx EXCEPT ![e] = Top(e)]
    /\ UNCHANGED <<die, appVars, outVars, cfgVars, synVars, buffering, acts,
                   reported, dataVars>>

(* A SYN before the settings is answered by an alert and ends the session.  *)
RecvSYN ==
    /\ Arrived("S", "SYN")
    /\ LET s == Head(wire["S"]).sid
       IN IF ~settings
          THEN /\ rx' = [rx EXCEPT !["S"] = [@ EXCEPT !.pc = "last",
                                       !.reply = <<LongFrame("Alert", 0, 0)>>]]
               /\ UNCHANGED appVars
          ELSE /\ streams' = [streams EXCEPT !["S"] = @ \cup {s}]
               /\ IF s \in streams["S"] THEN UNCHANGED <<app, str>>
                  ELSE /\ str' = [str EXCEPT !["S"][s] = "live"]
                       /\ app' = [app EXCEPT !["S"][s] = "addr"]
               /\ rx' = [rx EXCEPT !["S"] = Top("S")]
    /\ Consumed("S")
    /\ UNCHANGED <<die, bufVars, cfgVars, synVars, buffering, acts, reported, dataVars>>

(* mutant: counted down without a look at the counter                       *)
AnsweredUnchecked ==
    /\ synPending' = synPending - 1
    /\ watch' = IF synPending = 1 THEN Disarmed(watch) ELSE watch

(* mutant: any answer disarms                                               *)
AnsweredDisarms ==
    /\ synPending' = IF synPending > 0 THEN synPending - 1 ELSE 0
    /\ watch' = Disarmed(watch)

(* The last outstanding SYN is answered: the watchdog is disarmed.          *)
Answered ==
    IF synPending > 0
    THEN /\ synPending' = synPending - 1
         /\ watch' = IF synPending = 1 THEN Disarmed(watch) ELSE watch
    ELSE UNCHANGED <<synPending, watch>>

(* An answer with a reason closes its stream, which answers with a FIN.     *)
RecvSYNACK ==
    /\ Arrived("C", "SYNACK")
    /\ Answered
    /\ LET s == Head(wire["C"]).sid
           closes == Head(wire["C"]).len > 0 /\ s \in streams["C"] /\ str["C"][s] = "live"
       IN /\ str' = IF closes THEN [str EXCEPT !["C"][s] = "dead"] ELSE str
          /\ Replying("C", s, IF closes /\ ~Closed("C") THEN <<Frame("FIN", s, 0)>> ELSE <<>>)
    /\ Consumed("C")
    /\ UNCHANGED <<die, app, streams, bufVars, cfgVars, streamId, opens, buffering, acts,
                   reported, dataVars>>

RecvFIN(e) ==
    /\ Arrived(e, "FIN")
    /\ LET s == Head(wire[e]).sid
       IN /\ str' = IF s \in streams[e] /\ str[e][s] = "live"
                    THEN [str EXCEPT ![e][s] = "fin"] ELSE str
          /\ streams' = [streams EXCEPT ![e] = @ \ {s}]
    /\ rx' = [rx EXCEPT ![e] = Top(e)]
    /\ Consumed(e)
    /\ UNCHANGED <<die, app, bufVars, cfgVars, synVars, buffering, acts, reported, dataVars>>

(* The server answers with its scheme if the client's differs and, to a     *)
(* client of version 2, with its own settings.                              *)
RecvSettings ==
    /\ Arrived("S", "Settings")
    /\ settings' = TRUE
    /\ LET v2 == Head(wire["S"]).arg = "v2"
       IN /\ peerVersion' = IF v2 THEN [peerVersion EXCEPT !["S"] = 2] ELSE peerVersion
          /\ Replying("S", 0,
                (IF pad["C"] # pad["S"]
                 THEN <<LongFrame("UpdatePaddingScheme", 0, pad["S"])>> ELSE <<>>) \o
                (IF v2 THEN <<LongFrame("ServerSettings", 0, 0)>> ELSE <<>>))
    /\ Consumed("S")
    /\ UNCHANGED <<die, appVars, bufVars, pad, synVars, buffering, acts, reported, dataVars>>

RecvUpdatePaddingScheme ==
    /\ Arrived("C", "UpdatePaddingScheme")
    /\ pad' = [pad EXCEPT !["C"] = Head(wire["C"]).arg]
    /\ rx' = [rx EXCEPT !["C"] = Top("C")]
    /\ Consumed("C")
    /\ UNCHANGED <<die, appVars, bufVars, peerVersion, settings, synVars, buffering,
                   acts, reported, dataVars>>

RecvServerSettings ==
    /\ Arrived("C", "ServerSettings")
    /\ peerVersion' = [peerVersion EXCEPT !["C"] = 2]
    /\ rx' = [rx EXCEPT !["C"] = Top("C")]
    /\ Consumed("C")
    /\ UNCHANGED <<die, appVars, bufVars, settings, pad, synVars, buffering, acts,
                   reported, dataVars>>

RecvHeartRequest(e) ==
    /\ Arrived(e, "HeartRequest")
    /\ Replying(e, 0, <<Frame("HeartResponse", 0, 0)>>)
    /\ Consumed(e)
    /\ UNCHANGED <<die, appVars, bufVars, cfgVars, synVars, buffering, acts, reported, dataVars>>

(* Padding, and the answer to a keep-alive request.                         *)
RecvIgnored(e) ==
    /\ Arrived(e, "Waste") \/ Arrived(e, "HeartResponse")
    /\ rx' = [rx EXCEPT ![e] = Top(e)]
    /\ Consumed(e)
    /\ UNCHANGED <<die, appVars, bufVars, cfgVars, synVars, buffering, acts, reported, dataVars>>

(* The loop writes what a frame asks for before it reads the next one.      *)
Reply(e) ==
    /\ rx[e].pc \in {"reply", "last"}
    /\ LET f == Head(rx[e].reply)
           left == Tail(rx[e].reply)
           ends == rx[e].pc = "last"
       IN \/ /\ Sent(e, f)
             /\ rx' = [rx EXCEPT ![e] =
                          CASE ends -> [@ EXCEPT !.pc = "ended", !.reply = <<>>]
                            [] ~ends /\ left = <<>> -> [Top(e) EXCEPT !.reply = <<>>, !.sid = 0]
                            [] OTHER -> [@ EXCEPT !.reply = left]]
             /\ IF ends THEN Shut(e) ELSE UNCHANGED die
          \/ /\ Failed(e, f)
             /\ rx' = [rx EXCEPT ![e].pc = "ended"]
    /\ streams' = [streams EXCEPT ![e] = @ \ {rx[e].sid}]
    /\ UNCHANGED <<app, str, cfgVars, synVars, buffering, acts, reported, dataVars>>

(* An alert, the end of the connection, or an error of its read.            *)
RecvEnds(e) ==
    /\ \/ Arrived(e, "Alert")
       \/ rx[e].pc = "read" /\ die[e] = "done"
       \/ rx[e].pc = "read" /\ die[Peer(e)] = "done" /\ wire[e] = <<>>
    /\ rx' = [rx EXCEPT ![e].pc = "ended"]
    /\ Shut(e)
    /\ UNCHANGED <<appVars, outVars, cfgVars, synVars, buffering, acts, reported, dataVars>>

Recv(e) ==
    \/ RecvPSH(e) \/ PushFails(e) \/ RecvFIN(e) \/ RecvHeartRequest(e)
    \/ RecvIgnored(e) \/ Reply(e) \/ RecvEnds(e)
    \/ e = "S" /\ (RecvSYN \/ RecvSettings)
    \/ e = "C" /\ (RecvSYNACK \/ RecvUpdatePaddingScheme \/ RecvServerSettings)

Open(s) == OpenStream(s) \/ SendSyn(s) \/ Register(s)
Watch == TimerExpires \/ WatchdogFires \/ LateWatcher
Closer(e) == CloseStreams(e) \/ CloseConn(e)

Next ==
    \/ \E e \in Ends : CloseSession(e) \/ Closer(e) \/ Recv(e)
    \/ \E e \in Ends, s \in Sids :
            StreamWrite(e, s) \/ StreamRead(e, s) \/ StreamClose(e, s) \/ StreamClosed(e, s)
    \/ \E s \in Sids : Open(s) \/ AddrFails(s)
    \/ \E s \in Sids, failed \in BOOLEAN : Handshake(s, failed)
    \/ Heartbeat \/ Watch

Spec == Init /\ [][Next]_vars

-----------------------------------------------------------------------------
(* The receive loop finds a header where it expects one: padding and the    *)
(* flush of the buffer keep whole frames together.                          *)
FramesInSync ==
    \A e \in Ends : wire[e] # <<>> => Head(wire[e]).cmd # "unit"

(* A stream hands out the chunks its peer wrote to the same stream, in      *)
(* their order, each once.                                                  *)
StreamIntegrity ==
    \A e \in Ends, s \in Sids :
        /\ Len(rd[e][s]) <= sent[Peer(e)][s]
        /\ \A i \in 1 .. Len(rd[e][s]) : rd[e][s][i] = <<s, i>>

(* A stream that its peer's FIN closed has delivered everything the peer    *)
(* wrote: the FIN waits in the receive loop behind the data, and no answer  *)
(* comes before its stream is registered.                                   *)
FinAfterData ==
    \A e \in Ends, s \in Sids :
        str[e][s] = "fin" => Len(rd[e][s]) = sent[Peer(e)][s]

(* The types hold, and what is written to a stream reaches its reader:      *)
(* frames stay aligned, chunks keep their order, and the end comes after    *)
(* them (recvLoop).                                                         *)
StreamsDeliver == TypeOK /\ FramesInSync /\ StreamIntegrity /\ FinAfterData

(* Close closes all streams: OpenStream leaves none on a session whose      *)
(* streams have been closed.                                                *)
NoStreamSurvives(e) ==
    die[e] \in {"conn", "done"} =>
        streams[e] = {} /\ \A s \in Sids : str[e][s] # "live"

ClientStreamsClosed == NoStreamSurvives("C")
ServerStreamsClosed == NoStreamSurvives("S")

(* A receive loop that holds a chunk or a reply, or whose peer has closed   *)
(* the connection, can go on, or its stream has a reader: a closed pipe     *)
(* releases it, and a full connection does until the write deadline.        *)
RecvNeverStuck ==
    \A e \in Ends :
        \/ rx[e].pc \in {"push", "reply", "last"}
        \/ rx[e].pc = "read" /\ die[Peer(e)] = "done"
        => ENABLED (Recv(e) \/ \E s \in Sids : StreamRead(e, s))

(* While a counted SYN is unanswered a watcher is armed or has fired; when  *)
(* none is, nothing is armed that could close a healthy session.            *)
WatchdogCovers ==
    /\ synPending > 0 => watch.cur # "none"
    /\ synPending = 0 => watch.cur = "none"

(* There are never more answers than SYNs nor more SYNs than streams, and   *)
(* the watchdog follows the count (session.go:151, 254).                    *)
SynGuarded == synPending \in 0 .. streamId /\ WatchdogCovers

(* The watchdog closes no session whose peer serves the streams it guards.  *)
WatchdogOnlySilent ==
    watch.cur = "fired" => \A s \in Sids : s >= 2 => rd["C"][s] = <<>>
=============================================================================
