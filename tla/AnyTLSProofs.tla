---------------------------- MODULE AnyTLSProofs ----------------------------
(***************************************************************************)
(* Three promises of an AnyTLS session, for any number of streams, padding *)
(* schemes and sizes of the connection: closing the client's leaves no     *)
(* stream behind, its watchdog follows the count of unanswered SYNs, and   *)
(* what is written to a stream reaches the stream's reader; and two of the *)
(* service that runs the sessions.                                         *)
(*                                                                         *)
(* The first two do not depend on what is on the wire.                     *)
(* ClientStreamsClosed is not inductive: the sweep closes what the map     *)
(* holds, so every live stream has to be in the map until then, although   *)
(* StreamClosed, RecvFIN and the FIN after a failed SYNACK take streams    *)
(* out of it.  The third is all about the wire; its invariant, StreamInv,  *)
(* follows every chunk from its writer to its reader (second half).        *)
(***************************************************************************)
EXTENDS MuxSession, AnyTLSService, SequenceTheorems, WellFoundedInduction, TLAPS

Fields == {"pc", "sid", "chunk", "reply"}

(* The client's half of the types.                                          *)
Shape ==
    /\ die \in [Ends -> {"no", "sweep", "conn", "done"}]
    /\ DOMAIN streams = Ends /\ DOMAIN str = Ends /\ DOMAIN app = Ends /\ DOMAIN rx = Ends
    /\ str["C"] \in [Sids -> {"none", "live", "dead", "fin"}]
    /\ app["C"] \in [Sids -> {"idle", "syn", "reg", "addr", "run", "fin", "done"}]
    /\ DOMAIN rx["C"] = Fields

(* A stream is new until it is registered, and closed before its FIN.       *)
Stages ==
    \A s \in Sids :
        /\ app["C"][s] \in {"idle", "syn", "reg"} => str["C"][s] = "none"
        /\ app["C"][s] = "fin" => str["C"][s] \in {"dead", "fin"}

(* The stream a reply takes out of the map is closed.                       *)
Answering ==
    rx["C"].pc \in {"reply", "last"} /\ rx["C"].sid \in Sids =>
        str["C"][rx["C"].sid] \in {"dead", "fin"}

(* Until the sweep every live stream is in the map.                         *)
Mapped ==
    die["C"] \in {"no", "sweep"} =>
        \A s \in Sids : str["C"][s] = "live" => s \in streams["C"]

IInv == Shape /\ Stages /\ Answering /\ Mapped /\ ClientStreamsClosed

(* The client's state, and steps that leave its streams alone.              *)
row == <<str["C"], app["C"], streams["C"]>>
Domains == DOMAIN streams' = Ends /\ DOMAIN str' = Ends /\ DOMAIN app' = Ends
DieMoves == /\ die' \in [Ends -> {"no", "sweep", "conn", "done"}]
            /\ die'["C"] = die["C"] \/ (die["C"] = "no" /\ die'["C"] = "sweep")
RxQuiet ==
    /\ DOMAIN rx' = Ends /\ DOMAIN rx'["C"] = Fields
    /\ \/ rx'["C"] = rx["C"]
       \/ rx'["C"].pc \notin {"reply", "last"}
       \/ rx["C"].pc \in {"reply", "last"} /\ rx'["C"].sid = rx["C"].sid

LEMMA InitInv == Init => IInv
<1> SUFFICES ASSUME Init PROVE IInv  OBVIOUS
<1>1. PICK st \in {"dead", "none"}, step \in {"done", "idle"} :
        /\ str = [e \in Ends |-> [s \in Sids |-> IF s = 1 THEN st ELSE "none"]]
        /\ app = [e \in Ends |-> [s \in Sids |-> IF s = 1 THEN step ELSE "idle"]]
        /\ st = "dead" <=> step = "done"
  BY DEF Init
<1>2. /\ die = [e \in Ends |-> "no"]
      /\ streams = [e \in Ends |-> {}]
      /\ rx = [e \in Ends |-> [pc |-> "read", sid |-> 0, chunk |-> <<0, 0>>, reply |-> <<>>]]
  BY DEF Init
<1>3. "C" \in Ends  BY DEF Ends
<1>4. /\ str["C"] = [s \in Sids |-> IF s = 1 THEN st ELSE "none"]
      /\ app["C"] = [s \in Sids |-> IF s = 1 THEN step ELSE "idle"]
      /\ rx["C"] = [pc |-> "read", sid |-> 0, chunk |-> <<0, 0>>, reply |-> <<>>]
      /\ die["C"] = "no"
  BY <1>1, <1>2, <1>3
<1>a. DOMAIN streams = Ends /\ DOMAIN str = Ends /\ DOMAIN app = Ends /\ DOMAIN rx = Ends
  BY <1>1, <1>2
<1>b. st \in {"dead", "none"} /\ step \in {"done", "idle"} /\ (st = "dead" <=> step = "done")
  BY <1>1
<1>c. \A s \in Sids : /\ str["C"][s] = IF s = 1 THEN st ELSE "none"
                     /\ app["C"][s] = IF s = 1 THEN step ELSE "idle"
  BY <1>4
<1>d. /\ str["C"] \in [Sids -> {"none", "live", "dead", "fin"}]
      /\ app["C"] \in [Sids -> {"idle", "syn", "reg", "addr", "run", "fin", "done"}]
  BY <1>4, <1>b
<1>e. DOMAIN rx["C"] = Fields /\ rx["C"].pc = "read"  BY <1>4 DEF Fields
<1>f. die \in [Ends -> {"no", "sweep", "conn", "done"}]  BY <1>2
<1>5. Shape  BY <1>a, <1>d, <1>e, <1>f DEF Shape
<1>6. Stages /\ Answering  BY <1>b, <1>c, <1>e DEF Stages, Answering
<1>7. Mapped /\ ClientStreamsClosed
  BY <1>4, <1>b, <1>c DEF Mapped, ClientStreamsClosed, NoStreamSurvives
<1> QED BY <1>5, <1>6, <1>7 DEF IInv

LEMMA QuietStep ==
  ASSUME IInv, UNCHANGED row, Domains, DieMoves, RxQuiet
  PROVE  IInv'
<1>1. str'["C"] = str["C"] /\ app'["C"] = app["C"] /\ streams'["C"] = streams["C"]  BY DEF row
<1>2. Shape'  BY <1>1 DEF IInv, Shape, Domains, DieMoves, RxQuiet
<1>3. Stages'  BY <1>1 DEF IInv, Stages
<1>4. Answering'  BY <1>1 DEF IInv, Answering, RxQuiet
<1>5. Mapped'  BY <1>1 DEF IInv, Mapped, DieMoves
<1>6. ClientStreamsClosed'
  BY <1>1 DEF IInv, ClientStreamsClosed, NoStreamSurvives, DieMoves
<1> QED BY <1>2, <1>3, <1>4, <1>5, <1>6 DEF IInv

LEMMA ShutMoves ==
  ASSUME Shape, NEW e \in Ends, Shut(e) \/ UNCHANGED die
  PROVE  DieMoves
BY DEF Shape, Shut, DieMoves, Ends

LEMMA TopFields ==
  ASSUME Shape, NEW e \in Ends, rx' = [rx EXCEPT ![e] = Top(e)]
  PROVE  RxQuiet
BY DEF Shape, Top, RxQuiet, Ends, Fields

-----------------------------------------------------------------------------
(* Steps that leave the client's streams alone: all of the server's, and    *)
(* the client's writes, replies to others and watchdog.                     *)

LEMMA WriteQuiet ==
  ASSUME IInv,
         \/ \E e \in Ends : CloseSession(e) \/ RecvPSH(e) \/ PushFails(e) \/ RecvIgnored(e)
                             \/ RecvEnds(e)
         \/ \E e \in Ends, s \in Sids : StreamWrite(e, s)
         \/ \E s \in Sids : SendSyn(s)
         \/ \E s \in Sids, failed \in BOOLEAN : Handshake(s, failed)
         \/ RecvSettings \/ RecvUpdatePaddingScheme \/ RecvServerSettings
         \/ Heartbeat \/ Watch
  PROVE  IInv'
<1> USE DEF appVars
<1>0. Shape /\ "C" \in Ends /\ "S" \in Ends  BY DEF IInv, Ends
<1>a. rx' = rx => RxQuiet  BY <1>0 DEF Shape, RxQuiet
<1>b. UNCHANGED <<app, str, streams>> => Domains /\ UNCHANGED row
  BY <1>0 DEF Shape, Domains, row
<1>c. ASSUME NEW e \in Ends, Shut(e) \/ UNCHANGED die PROVE DieMoves
  BY <1>0, <1>c, ShutMoves
<1>1. CASE \E e \in Ends : CloseSession(e)
  BY <1>1, <1>a, <1>b, <1>c, QuietStep DEF CloseSession
<1>2. ASSUME NEW e \in Ends, RecvPSH(e) PROVE IInv'
  <2>1. UNCHANGED <<die, app, str, streams>>  BY <1>2 DEF RecvPSH
  <2>2. RxQuiet
    <3>1. PICK s, c :
              rx' = [rx EXCEPT ![e] = IF s \in streams[e]
                                      THEN [rx[e] EXCEPT !.pc = "push", !.sid = s, !.chunk = c]
                                      ELSE Top(e)]
      BY <1>2 DEF RecvPSH
    <3>2. CASE s \in streams[e]
      <4>1. rx' = [rx EXCEPT ![e] = [rx[e] EXCEPT !.pc = "push", !.sid = s, !.chunk = c]]
        BY <3>1, <3>2
      <4>2. CASE e = "C"
        <5>1. rx'["C"] = [rx["C"] EXCEPT !.pc = "push", !.sid = s, !.chunk = c] /\ DOMAIN rx' = Ends
          BY <1>0, <4>1, <4>2 DEF Shape
        <5>2. rx'["C"].pc = "push" /\ DOMAIN rx'["C"] = Fields
          BY <1>0, <5>1 DEF Shape, Fields
        <5> QED BY <5>1, <5>2 DEF RxQuiet
      <4>3. CASE e = "S"
        BY <1>0, <4>1, <4>3 DEF Shape, RxQuiet
      <4> QED BY <4>2, <4>3 DEF Ends
    <3>3. CASE s \notin streams[e]  BY <1>0, <3>1, <3>3, TopFields
    <3> QED BY <3>2, <3>3
  <2> QED BY <1>0, <1>b, <1>c, <2>1, <2>2, QuietStep
<1>3. ASSUME NEW e \in Ends, PushFails(e) \/ RecvIgnored(e) PROVE IInv'
  <2>1. UNCHANGED <<die, app, str, streams>> /\ rx' = [rx EXCEPT ![e] = Top(e)]
    BY <1>3 DEF PushFails, RecvIgnored
  <2>2. RxQuiet  BY <1>0, <2>1, TopFields
  <2> QED BY <1>0, <1>b, <1>c, <2>1, <2>2, QuietStep
<1>4. ASSUME NEW e \in Ends, RecvEnds(e) PROVE IInv'
  <2>1. UNCHANGED <<app, str, streams>> /\ Shut(e) /\ rx' = [rx EXCEPT ![e].pc = "ended"]
    BY <1>4 DEF RecvEnds
  <2>2. RxQuiet  BY <1>0, <2>1 DEF Shape, RxQuiet, Ends, Fields
  <2> QED BY <1>b, <1>c, <2>1, <2>2, QuietStep
<1>5. ASSUME NEW e \in Ends, NEW s \in Sids, StreamWrite(e, s) PROVE IInv'
  <2>1. UNCHANGED <<app, str, streams, rx>> /\ (Shut(e) \/ UNCHANGED die)
    BY <1>5 DEF StreamWrite, Failed
  <2> QED BY <1>a, <1>b, <1>c, <2>1, QuietStep
<1>6. ASSUME NEW s \in Sids, SendSyn(s) PROVE IInv'
  <2>1. /\ app["C"][s] = "syn" /\ UNCHANGED <<str, streams, rx>> /\ (Shut("C") \/ UNCHANGED die)
        /\ \E a \in {"reg", "done"} : app' = [app EXCEPT !["C"][s] = a]
    BY <1>6 DEF SendSyn, Failed
  <2>2. DieMoves /\ RxQuiet  BY <1>0, <1>a, <1>c, <2>1
  <2>3. PICK a \in {"reg", "done"} : app'["C"] = [app["C"] EXCEPT ![s] = a]
    BY <1>0, <2>1 DEF Shape
  <2>4. DOMAIN app' = Ends /\ str'["C"] = str["C"] /\ streams'["C"] = streams["C"]
    BY <1>0, <2>1 DEF Shape
  <2>5. Shape'  BY <1>0, <2>1, <2>2, <2>3, <2>4 DEF Shape, DieMoves, RxQuiet
  <2>6. Stages'  BY <1>0, <2>1, <2>3, <2>4 DEF IInv, Shape, Stages
  <2>7. Answering'  BY <2>1, <2>4 DEF IInv, Answering
  <2>8. Mapped' /\ ClientStreamsClosed'
    BY <2>2, <2>4 DEF IInv, Mapped, ClientStreamsClosed, NoStreamSurvives, DieMoves
  <2> QED BY <2>5, <2>6, <2>7, <2>8 DEF IInv
<1>7. ASSUME NEW s \in Sids, NEW failed \in BOOLEAN, Handshake(s, failed) PROVE IInv'
  <2>1. UNCHANGED <<app, str, streams, rx>> /\ (Shut("S") \/ UNCHANGED die)
    BY <1>7 DEF Handshake, Failed
  <2> QED BY <1>0, <1>a, <1>b, <1>c, <2>1, QuietStep
<1>8. CASE RecvSettings
  <2>1. UNCHANGED <<die, app, str, streams>>  BY <1>8 DEF RecvSettings
  <2>2. PICK r : rx' = [rx EXCEPT !["S"] = r]  BY <1>8 DEF RecvSettings, Replying
  <2>3. RxQuiet  BY <1>0, <2>2 DEF Shape, RxQuiet
  <2> QED BY <1>0, <1>b, <1>c, <2>1, <2>3, QuietStep
<1>9. CASE RecvUpdatePaddingScheme \/ RecvServerSettings
  <2>1. UNCHANGED <<die, app, str, streams>> /\ rx' = [rx EXCEPT !["C"] = Top("C")]
    BY <1>9 DEF RecvUpdatePaddingScheme, RecvServerSettings
  <2>2. RxQuiet  BY <1>0, <2>1, TopFields
  <2> QED BY <1>0, <1>b, <1>c, <2>1, <2>2, QuietStep
<1>10. CASE Heartbeat \/ Watch
  <2>1. UNCHANGED <<app, str, streams, rx>> /\ (Shut("C") \/ UNCHANGED die)
    BY <1>10 DEF Heartbeat, Watch, TimerExpires, WatchdogFires, LateWatcher
  <2> QED BY <1>0, <1>a, <1>b, <1>c, <2>1, QuietStep
<1> QED BY <1>1, <1>2, <1>3, <1>4, <1>5, <1>6, <1>7, <1>8, <1>9, <1>10

-----------------------------------------------------------------------------
(* Steps of the client's streams.                                           *)

(* What is left to show of a step in which Close does not go on.            *)
LEMMA RowStep ==
  ASSUME IInv, Domains, DieMoves, DOMAIN rx' = Ends, DOMAIN rx'["C"] = Fields,
         str'["C"] \in [Sids -> {"none", "live", "dead", "fin"}],
         app'["C"] \in [Sids -> {"idle", "syn", "reg", "addr", "run", "fin", "done"}],
         Stages', Answering',
         die["C"] \in {"no", "sweep"} =>
            \A s \in Sids : str'["C"][s] = "live" => s \in streams'["C"],
         die["C"] \in {"conn", "done"} =>
            /\ streams'["C"] \subseteq streams["C"]
            /\ \A s \in Sids : str'["C"][s] = "live" => str["C"][s] = "live"
  PROVE  IInv'
<1>1. Shape'  BY DEF Shape, Domains, DieMoves
<1>2. die["C"] \in {"no", "sweep", "conn", "done"}  BY DEF IInv, Shape, Ends
<1>3. Mapped'  BY <1>2 DEF Mapped, DieMoves
<1>4. ClientStreamsClosed'
  BY <1>2 DEF IInv, ClientStreamsClosed, NoStreamSurvives, DieMoves
<1> QED BY <1>1, <1>3, <1>4 DEF IInv

LEMMA OpenStep ==
  ASSUME IInv, NEW s \in Sids, OpenStream(s) \/ Register(s)
  PROVE  IInv'
<1>0. Shape /\ "C" \in Ends /\ "S" \in Ends  BY DEF IInv, Ends
<1>1. DieMoves /\ DOMAIN rx' = Ends /\ DOMAIN rx'["C"] = Fields /\ rx' = rx
  <2>1. UNCHANGED <<die, rx>>  BY DEF OpenStream, Register
  <2> QED BY <1>0, <2>1, ShutMoves DEF Shape
<1>2. CASE OpenStream(s)
  <2>1. app' = [app EXCEPT !["C"][s] = "syn"] /\ app["C"][s] = "idle" /\ UNCHANGED <<str, streams>>
    BY <1>2 DEF OpenStream
  <2>2. app'["C"] = [app["C"] EXCEPT ![s] = "syn"] /\ Domains  BY <1>0, <2>1 DEF Shape, Domains
  <2>3. Stages'  BY <1>0, <2>1, <2>2 DEF IInv, Shape, Stages
  <2>4. Answering'  BY <1>1, <2>1 DEF IInv, Answering
  <2>5. app'["C"] \in [Sids -> {"idle", "syn", "reg", "addr", "run", "fin", "done"}]
    BY <1>0, <2>2 DEF Shape
  <2>6. die["C"] \in {"no", "sweep"} => \A t \in Sids : str'["C"][t] = "live" => t \in streams'["C"]
    BY <2>1 DEF IInv, Mapped
  <2> QED BY <1>0, <1>1, <2>1, <2>2, <2>3, <2>4, <2>5, <2>6, RowStep DEF Shape
<1>3. CASE Register(s) /\ Closed("C")
  <2>1. app' = [app EXCEPT !["C"][s] = "done"] /\ UNCHANGED <<str, streams>>
    BY <1>3 DEF Register
  <2>2. app'["C"] = [app["C"] EXCEPT ![s] = "done"] /\ Domains  BY <1>0, <2>1 DEF Shape, Domains
  <2>3. Stages'  BY <1>0, <2>1, <2>2 DEF IInv, Shape, Stages
  <2>4. Answering'  BY <1>1, <2>1 DEF IInv, Answering
  <2>5. app'["C"] \in [Sids -> {"idle", "syn", "reg", "addr", "run", "fin", "done"}]
    BY <1>0, <2>2 DEF Shape
  <2>6. die["C"] \in {"no", "sweep"} => \A t \in Sids : str'["C"][t] = "live" => t \in streams'["C"]
    BY <2>1 DEF IInv, Mapped
  <2> QED BY <1>0, <1>1, <2>1, <2>2, <2>3, <2>4, <2>5, <2>6, RowStep DEF Shape
<1>4. CASE Register(s) /\ ~Closed("C")
  <2>1. /\ app["C"][s] = "reg" /\ die["C"] = "no"
        /\ streams' = [streams EXCEPT !["C"] = @ \cup {s}]
        /\ str' = [str EXCEPT !["C"][s] = "live"]
        /\ app' = [app EXCEPT !["C"][s] = "run"]
    BY <1>4 DEF Register, Closed
  <2>2. /\ app'["C"] = [app["C"] EXCEPT ![s] = "run"] /\ str'["C"] = [str["C"] EXCEPT ![s] = "live"]
        /\ streams'["C"] = streams["C"] \cup {s} /\ Domains
    BY <1>0, <2>1 DEF Shape, Domains
  <2>3. str["C"][s] = "none"  BY <2>1 DEF IInv, Stages
  <2>4. Stages'  BY <1>0, <2>2 DEF IInv, Shape, Stages
  <2>5. Answering'  BY <1>0, <1>1, <2>2, <2>3 DEF IInv, Shape, Answering
  <2>6. /\ app'["C"] \in [Sids -> {"idle", "syn", "reg", "addr", "run", "fin", "done"}]
        /\ str'["C"] \in [Sids -> {"none", "live", "dead", "fin"}]
    BY <1>0, <2>2 DEF Shape
  <2>7. \A t \in Sids : str'["C"][t] = "live" => t \in streams'["C"]
    BY <1>0, <2>1, <2>2 DEF IInv, Mapped, Shape
  <2> QED BY <1>1, <2>1, <2>2, <2>4, <2>5, <2>6, <2>7, RowStep
<1> QED BY <1>2, <1>3, <1>4

LEMMA UserStep ==
  ASSUME IInv, NEW e \in Ends, NEW s \in Sids,
         StreamRead(e, s) \/ StreamClose(e, s) \/ StreamClosed(e, s)
  PROVE  IInv'
<1>0. Shape /\ "C" \in Ends /\ "S" \in Ends  BY DEF IInv, Ends
<1>1. CASE e = "S"
  <2>1. /\ UNCHANGED <<die, streams>> \/ DieMoves
        /\ str' = str \/ str' = [str EXCEPT !["S"][s] = "dead"]
        /\ \E a : app' = [app EXCEPT !["S"][s] = a]
        /\ \E t : streams' = [streams EXCEPT !["S"] = t] \/ streams' = streams
        /\ rx' = rx \/ rx' = [rx EXCEPT !["S"] = Top("S")]
    BY <1>0, <1>1, ShutMoves DEF StreamRead, StreamClose, StreamClosed, Failed, appVars
  <2>2. DieMoves  BY <1>0, <2>1, ShutMoves
  <2>3. UNCHANGED row /\ Domains  BY <1>0, <2>1 DEF Shape, row, Domains
  <2>4. RxQuiet  BY <1>0, <2>1 DEF Shape, RxQuiet
  <2> QED BY <2>2, <2>3, <2>4, QuietStep
<1>2. CASE e = "C" /\ StreamRead("C", s)
  <2>1. /\ app["C"][s] \in {"addr", "run"} /\ UNCHANGED <<die, str, streams>>
        /\ rx' = [rx EXCEPT !["C"] = Top("C")]
        /\ \E a \in {"run", "done"} : app' = [app EXCEPT !["C"][s] = a]
    BY <1>2 DEF StreamRead
  <2>2. DieMoves /\ RxQuiet  BY <1>0, <2>1, ShutMoves, TopFields
  <2>3. PICK a \in {"run", "done"} : app'["C"] = [app["C"] EXCEPT ![s] = a]
    BY <1>0, <2>1 DEF Shape
  <2>4. Domains  BY <1>0, <2>1 DEF Shape, Domains
  <2>5. Stages'  BY <1>0, <2>1, <2>3 DEF IInv, Shape, Stages
  <2>6. Answering'  BY <2>1, <2>2 DEF IInv, Answering, RxQuiet
  <2>7. app'["C"] \in [Sids -> {"idle", "syn", "reg", "addr", "run", "fin", "done"}]
    BY <1>0, <2>3 DEF Shape
  <2>8. die["C"] \in {"no", "sweep"} => \A t \in Sids : str'["C"][t] = "live" => t \in streams'["C"]
    BY <2>1 DEF IInv, Mapped
  <2> QED BY <1>0, <2>1, <2>2, <2>4, <2>5, <2>6, <2>7, <2>8, RowStep DEF Shape, RxQuiet
<1>3. CASE e = "C" /\ StreamClose("C", s)
  <2>1. /\ UNCHANGED <<die, streams, rx>> /\ app["C"][s] = "run"
        /\ \/ str' = [str EXCEPT !["C"][s] = "dead"] /\ app' = [app EXCEPT !["C"][s] = "fin"]
           \/ str' = str /\ app' = [app EXCEPT !["C"][s] = "done"]
    BY <1>3 DEF StreamClose
  <2>2. DieMoves /\ Domains  BY <1>0, <2>1, ShutMoves DEF Shape, Domains
  <2>3. \/ /\ str'["C"] = [str["C"] EXCEPT ![s] = "dead"]
           /\ app'["C"] = [app["C"] EXCEPT ![s] = "fin"]
        \/ str'["C"] = str["C"] /\ app'["C"] = [app["C"] EXCEPT ![s] = "done"]
    BY <1>0, <2>1 DEF Shape
  <2>4. Stages'  BY <1>0, <2>3 DEF IInv, Shape, Stages
  <2>5. Answering'  BY <1>0, <2>1, <2>3 DEF IInv, Shape, Answering
  <2>6. /\ app'["C"] \in [Sids -> {"idle", "syn", "reg", "addr", "run", "fin", "done"}]
        /\ str'["C"] \in [Sids -> {"none", "live", "dead", "fin"}]
    BY <1>0, <2>3 DEF Shape
  <2>7. \A t \in Sids : str'["C"][t] = "live" => str["C"][t] = "live"
    BY <1>0, <2>3 DEF Shape
  <2>8. die["C"] \in {"no", "sweep"} => \A t \in Sids : str'["C"][t] = "live" => t \in streams'["C"]
    BY <2>1, <2>7 DEF IInv, Mapped
  <2> QED BY <1>0, <2>1, <2>2, <2>4, <2>5, <2>6, <2>7, <2>8, RowStep DEF Shape
<1>4. CASE e = "C" /\ StreamClosed("C", s)
  <2>1. /\ UNCHANGED <<str, rx>> /\ app["C"][s] = "fin"
        /\ app' = [app EXCEPT !["C"][s] = "done"]
        /\ Shut("C") \/ UNCHANGED die
        /\ streams' = streams \/ streams' = [streams EXCEPT !["C"] = @ \ {s}]
    BY <1>4 DEF StreamClosed, Failed
  <2>2. DieMoves /\ Domains  BY <1>0, <2>1, ShutMoves DEF Shape, Domains
  <2>3. /\ app'["C"] = [app["C"] EXCEPT ![s] = "done"]
        /\ streams'["C"] = streams["C"] \/ streams'["C"] = streams["C"] \ {s}
    BY <1>0, <2>1 DEF Shape
  <2>4. Stages'  BY <1>0, <2>1, <2>3 DEF IInv, Shape, Stages
  <2>5. Answering'  BY <2>1 DEF IInv, Answering
  <2>6. app'["C"] \in [Sids -> {"idle", "syn", "reg", "addr", "run", "fin", "done"}]
    BY <1>0, <2>3 DEF Shape
  <2>7. str["C"][s] # "live"  BY <2>1 DEF IInv, Stages
  <2>8. die["C"] \in {"no", "sweep"} => \A t \in Sids : str'["C"][t] = "live" => t \in streams'["C"]
    BY <2>1, <2>3, <2>7 DEF IInv, Mapped
  <2> QED BY <1>0, <2>1, <2>2, <2>3, <2>4, <2>5, <2>6, <2>8, RowStep DEF Shape
<1> QED BY <1>1, <1>2, <1>3, <1>4 DEF Ends

LEMMA ReceiveStep ==
  ASSUME IInv, NEW e \in Ends,
         \/ RecvFIN(e) \/ RecvHeartRequest(e)
         \/ e = "S" /\ RecvSYN
         \/ e = "C" /\ RecvSYNACK
  PROVE  IInv'
<1>0. Shape /\ "C" \in Ends /\ "S" \in Ends  BY DEF IInv, Ends
<1>1. DieMoves
  <2>1. UNCHANGED die  BY DEF RecvFIN, RecvHeartRequest, RecvSYN, RecvSYNACK
  <2> QED BY <1>0, <2>1, ShutMoves
<1>2. CASE e = "S"
  <2>1. \E r : rx' = [rx EXCEPT !["S"] = r]
    BY <1>2 DEF RecvFIN, RecvHeartRequest, RecvSYN, Replying
  <2>2. /\ str' = str \/ \E s, x : str' = [str EXCEPT !["S"][s] = x]
        /\ app' = app \/ \E s, x : app' = [app EXCEPT !["S"][s] = x]
        /\ streams' = streams \/ \E x : streams' = [streams EXCEPT !["S"] = x]
    BY <1>2 DEF RecvFIN, RecvHeartRequest, RecvSYN, appVars
  <2>3. UNCHANGED row /\ Domains  BY <1>0, <2>2 DEF Shape, row, Domains
  <2>4. RxQuiet  BY <1>0, <2>1 DEF Shape, RxQuiet
  <2> QED BY <1>1, <2>3, <2>4, QuietStep
<1>3. CASE e = "C" /\ RecvFIN("C")
  <2>1. PICK s : /\ str' = IF s \in streams["C"] /\ str["C"][s] = "live"
                           THEN [str EXCEPT !["C"][s] = "fin"] ELSE str
                 /\ streams' = [streams EXCEPT !["C"] = @ \ {s}]
                 /\ rx' = [rx EXCEPT !["C"] = Top("C")]
                 /\ app' = app
    BY <1>3 DEF RecvFIN
  <2>2. Domains /\ RxQuiet  BY <1>0, <2>1, TopFields DEF Shape, Domains
  <2>3. /\ streams'["C"] = streams["C"] \ {s} /\ app'["C"] = app["C"]
        /\ str'["C"] = IF s \in streams["C"] /\ str["C"][s] = "live"
                       THEN [str["C"] EXCEPT ![s] = "fin"] ELSE str["C"]
    BY <1>0, <2>1 DEF Shape
  <2>4. \A t \in Sids : /\ str'["C"][t] = "live" => str["C"][t] = "live"
                        /\ str'["C"][t] = str["C"][t] \/ (str["C"][t] = "live" /\ str'["C"][t] = "fin")
    BY <1>0, <2>3 DEF Shape
  <2>5. str'["C"] \in [Sids -> {"none", "live", "dead", "fin"}]  BY <1>0, <2>3 DEF Shape
  <2>6. Stages'  BY <2>3, <2>4 DEF IInv, Stages
  <2>7. Answering'  BY <2>2, <2>4 DEF IInv, Answering, RxQuiet
  <2>8. die["C"] \in {"no", "sweep"} => \A t \in Sids : str'["C"][t] = "live" => t \in streams'["C"]
    <3> SUFFICES ASSUME die["C"] \in {"no", "sweep"}, NEW t \in Sids, str'["C"][t] = "live"
                 PROVE  t \in streams'["C"]
      OBVIOUS
    <3>1. t \in streams["C"] /\ str["C"][t] = "live"  BY <2>4 DEF IInv, Mapped
    <3>2. t # s  BY <1>0, <2>3, <3>1 DEF Shape
    <3> QED BY <2>3, <3>1, <3>2
  <2> QED BY <1>0, <1>1, <2>2, <2>3, <2>4, <2>5, <2>6, <2>7, <2>8, RowStep DEF Shape, RxQuiet
<1>4. CASE e = "C" /\ RecvHeartRequest("C")
  <2>1. /\ UNCHANGED <<app, str, streams>>
        /\ Replying("C", 0, <<Frame("HeartResponse", 0, 0)>>)
    BY <1>4 DEF RecvHeartRequest, appVars
  <2>2. PICK f : rx' = [rx EXCEPT !["C"] = [rx["C"] EXCEPT !.pc = "reply", !.sid = 0, !.reply = f]]
    BY <2>1 DEF Replying
  <2>3. rx'["C"] = [rx["C"] EXCEPT !.pc = "reply", !.sid = 0, !.reply = f] /\ DOMAIN rx' = Ends
    BY <1>0, <2>2 DEF Shape
  <2>4. DOMAIN rx'["C"] = Fields /\ rx'["C"].sid = 0  BY <1>0, <2>3 DEF Shape, Fields
  <2>5. Domains  BY <1>0, <2>1 DEF Shape, Domains
  <2>6. 0 \notin Sids  BY DEF Sids
  <2>7. Answering'  BY <2>4, <2>6 DEF Answering
  <2>8. Stages'  BY <2>1 DEF IInv, Stages
  <2>9. die["C"] \in {"no", "sweep"} => \A t \in Sids : str'["C"][t] = "live" => t \in streams'["C"]
    BY <2>1 DEF IInv, Mapped
  <2> QED BY <1>0, <1>1, <2>1, <2>3, <2>4, <2>5, <2>7, <2>8, <2>9, RowStep DEF Shape
<1>5. CASE e = "C" /\ RecvSYNACK
  <2> DEFINE s == Head(wire["C"]).sid
             closes == Head(wire["C"]).len > 0 /\ s \in streams["C"] /\ str["C"][s] = "live"
  <2>1. /\ closes => s \in streams["C"] /\ str["C"][s] = "live"
        /\ str' = IF closes THEN [str EXCEPT !["C"][s] = "dead"] ELSE str
        /\ UNCHANGED <<app, streams>>
        /\ Replying("C", s, IF closes /\ ~Closed("C") THEN <<Frame("FIN", s, 0)>> ELSE <<>>)
    BY <1>5 DEF RecvSYNACK
  <2> HIDE DEF s, closes
  <2>2. Domains  BY <1>0, <2>1 DEF Shape, Domains
  <2>3. str'["C"] = IF closes THEN [str["C"] EXCEPT ![s] = "dead"] ELSE str["C"]
    BY <1>0, <2>1 DEF Shape
  <2>4. \A t \in Sids : \/ str'["C"][t] = str["C"][t]
                        \/ str["C"][t] = "live" /\ str'["C"][t] = "dead"
    BY <1>0, <2>1, <2>3 DEF Shape
  <2>5. str'["C"] \in [Sids -> {"none", "live", "dead", "fin"}]  BY <1>0, <2>3 DEF Shape
  <2>6. Stages'  BY <2>1, <2>4 DEF IInv, Stages
  <2>7. /\ DOMAIN rx' = Ends /\ DOMAIN rx'["C"] = Fields
        /\ rx'["C"].pc \in {"reply", "last"} => closes /\ rx'["C"].sid = s
    <3>1. CASE closes /\ ~Closed("C")
      <4>1. PICK f : rx' = [rx EXCEPT !["C"] = [rx["C"] EXCEPT !.pc = "reply", !.sid = s, !.reply = f]]
        BY <2>1, <3>1 DEF Replying
      <4>2. rx'["C"] = [rx["C"] EXCEPT !.pc = "reply", !.sid = s, !.reply = f] /\ DOMAIN rx' = Ends
        BY <1>0, <4>1 DEF Shape
      <4> QED BY <1>0, <3>1, <4>2 DEF Shape, Fields
    <3>2. CASE ~(closes /\ ~Closed("C"))
      <4>1. rx' = [rx EXCEPT !["C"] = Top("C")]  BY <2>1, <3>2 DEF Replying
      <4>2. rx'["C"] = Top("C") /\ DOMAIN rx' = Ends  BY <1>0, <4>1 DEF Shape
      <4>3. DOMAIN rx'["C"] = Fields /\ rx'["C"].pc \in {"ended", "read"}
        BY <1>0, <4>2 DEF Shape, Top, Fields
      <4> QED BY <4>2, <4>3
    <3> QED BY <3>1, <3>2
  <2>8. Answering'  BY <1>0, <2>3, <2>7 DEF Answering, Shape
  <2>9. die["C"] \in {"no", "sweep"} => \A t \in Sids : str'["C"][t] = "live" => t \in streams'["C"]
    BY <2>1, <2>4 DEF IInv, Mapped
  <2> QED BY <1>0, <1>1, <2>1, <2>2, <2>4, <2>5, <2>6, <2>7, <2>8, <2>9, RowStep DEF Shape
<1> QED BY <1>2, <1>3, <1>4, <1>5 DEF Ends

LEMMA ReplyStep ==
  ASSUME IInv, NEW e \in Ends, Reply(e)
  PROVE  IInv'
<1>0. Shape /\ "C" \in Ends /\ "S" \in Ends  BY DEF IInv, Ends
<1>1. /\ UNCHANGED <<app, str>> /\ rx[e].pc \in {"reply", "last"}
      /\ streams' = [streams EXCEPT ![e] = @ \ {rx[e].sid}]
      /\ Shut(e) \/ UNCHANGED die
  BY DEF Reply, Failed
<1>2. DieMoves /\ Domains  BY <1>0, <1>1, ShutMoves DEF Shape, Domains
<1>3. PICK left :
         \/ rx' = [rx EXCEPT ![e] = [rx[e] EXCEPT !.pc = "ended", !.reply = <<>>]]
         \/ rx' = [rx EXCEPT ![e] = [Top(e) EXCEPT !.reply = <<>>, !.sid = 0]]
         \/ rx' = [rx EXCEPT ![e] = [rx[e] EXCEPT !.reply = left]]
         \/ rx' = [rx EXCEPT ![e].pc = "ended"]
  BY DEF Reply
<1>4. CASE e = "S"
  <2>1. UNCHANGED row  BY <1>0, <1>1, <1>4 DEF Shape, row
  <2>2. RxQuiet  BY <1>0, <1>3, <1>4 DEF Shape, RxQuiet
  <2> QED BY <1>2, <2>1, <2>2, QuietStep
<1>5. CASE e = "C"
  <2>1. /\ DOMAIN rx' = Ends
        /\ \/ rx'["C"] = [rx["C"] EXCEPT !.pc = "ended", !.reply = <<>>]
           \/ rx'["C"] = [Top("C") EXCEPT !.reply = <<>>, !.sid = 0]
           \/ rx'["C"] = [rx["C"] EXCEPT !.reply = left]
           \/ rx'["C"] = [rx["C"] EXCEPT !.pc = "ended"]
    BY <1>0, <1>3, <1>5 DEF Shape
  <2>2. DOMAIN Top("C") = Fields /\ Top("C").pc \in {"ended", "read"}
    BY <1>0 DEF Shape, Top, Fields
  <2>3. DOMAIN rx'["C"] = Fields
    BY <1>0, <2>1, <2>2 DEF Shape
  <2>4. rx'["C"].pc \in {"ended", "read"} \/ rx'["C"].sid = rx["C"].sid
    BY <1>0, <2>1, <2>2 DEF Shape, Fields
  <2>5. Answering'  BY <1>1, <1>5, <2>4 DEF IInv, Answering
  <2>6. Stages'  BY <1>1 DEF IInv, Stages
  <2>7. streams'["C"] = streams["C"] \ {rx["C"].sid}  BY <1>0, <1>1, <1>5 DEF Shape
  <2>8. die["C"] \in {"no", "sweep"} => \A t \in Sids : str'["C"][t] = "live" => t \in streams'["C"]
    BY <1>1, <1>5, <2>7 DEF IInv, Mapped, Answering
  <2> QED BY <1>0, <1>1, <1>2, <2>1, <2>3, <2>5, <2>6, <2>7, <2>8, RowStep DEF Shape
<1> QED BY <1>4, <1>5 DEF Ends

LEMMA AddrStep ==
  ASSUME IInv, NEW s \in Sids, AddrFails(s)
  PROVE  IInv'
<1>0. Shape /\ "C" \in Ends /\ "S" \in Ends  BY DEF IInv, Ends
<1>1. app' = [app EXCEPT !["S"][s] = "done"] /\ UNCHANGED <<die, str, streams, rx>>
  BY DEF AddrFails
<1>2. UNCHANGED row /\ Domains /\ RxQuiet  BY <1>0, <1>1 DEF Shape, row, Domains, RxQuiet
<1> QED BY <1>0, <1>1, <1>2, ShutMoves, QuietStep

(* The sweep and the close of the connection.                               *)
LEMMA CloserStep ==
  ASSUME IInv, NEW e \in Ends, Closer(e)
  PROVE  IInv'
<1>0. Shape /\ "C" \in Ends /\ "S" \in Ends  BY DEF IInv, Ends
<1>1. app' = app /\ rx' = rx  BY DEF Closer, CloseStreams, CloseConn, appVars
<1>2. CASE e = "S"
  <2>1. /\ \E d \in {"conn", "done"} : die' = [die EXCEPT !["S"] = d]
        /\ str' = str \/ \E x : str' = [str EXCEPT !["S"] = x]
        /\ streams' = streams \/ \E x : streams' = [streams EXCEPT !["S"] = x]
    BY <1>2 DEF Closer, CloseStreams, CloseConn, appVars
  <2>2. DieMoves  BY <1>0, <2>1 DEF Shape, DieMoves
  <2>3. UNCHANGED row /\ Domains /\ RxQuiet
    BY <1>0, <1>1, <2>1 DEF Shape, row, Domains, RxQuiet
  <2> QED BY <2>2, <2>3, QuietStep
<1>3. CASE e = "C" /\ CloseStreams("C")
  <2>1. /\ die["C"] = "sweep" /\ die' = [die EXCEPT !["C"] = "conn"]
        /\ streams' = [streams EXCEPT !["C"] = {}]
        /\ str' = [str EXCEPT !["C"] = [s \in Sids |->
                      IF s \in streams["C"] /\ @[s] = "live" THEN "dead" ELSE @[s]]]
    BY <1>3 DEF CloseStreams
  <2>2. /\ die'["C"] = "conn" /\ die' \in [Ends -> {"no", "sweep", "conn", "done"}]
        /\ streams'["C"] = {} /\ DOMAIN str' = Ends /\ DOMAIN streams' = Ends
    BY <1>0, <2>1 DEF Shape
  <2>3. str'["C"] = [s \in Sids |-> IF s \in streams["C"] /\ str["C"][s] = "live"
                                    THEN "dead" ELSE str["C"][s]]
    BY <1>0, <2>1 DEF Shape
  <2>4. str'["C"] \in [Sids -> {"none", "live", "dead", "fin"}]  BY <1>0, <2>3 DEF Shape
  <2>5. \A s \in Sids : /\ str'["C"][s] # "live"
                        /\ str["C"][s] \in {"none", "dead", "fin"} => str'["C"][s] = str["C"][s]
    BY <2>1, <2>3 DEF IInv, Mapped
  <2>6. Shape'  BY <1>0, <1>1, <2>2, <2>4 DEF Shape
  <2>7. Stages'  BY <1>1, <2>5 DEF IInv, Stages
  <2>8. Answering'  BY <1>1, <2>5 DEF IInv, Answering
  <2>9. Mapped' /\ ClientStreamsClosed'
    BY <2>2, <2>5 DEF Mapped, ClientStreamsClosed, NoStreamSurvives
  <2> QED BY <2>6, <2>7, <2>8, <2>9 DEF IInv
<1>4. CASE e = "C" /\ CloseConn("C")
  <2>1. /\ die["C"] = "conn" /\ die' = [die EXCEPT !["C"] = "done"] /\ UNCHANGED <<str, streams>>
    BY <1>4 DEF CloseConn, appVars
  <2>2. die'["C"] = "done" /\ die' \in [Ends -> {"no", "sweep", "conn", "done"}]
    BY <1>0, <2>1 DEF Shape
  <2>3. Shape'  BY <1>0, <1>1, <2>1, <2>2 DEF Shape
  <2>4. Stages' /\ Answering'  BY <1>1, <2>1 DEF IInv, Stages, Answering
  <2>5. Mapped'  BY <2>2 DEF Mapped
  <2>6. ClientStreamsClosed'  BY <2>1 DEF IInv, ClientStreamsClosed, NoStreamSurvives
  <2> QED BY <2>3, <2>4, <2>5, <2>6 DEF IInv
<1> QED BY <1>2, <1>3, <1>4 DEF Ends, Closer

LEMMA InvStep == IInv /\ [Next]_vars => IInv'
<1> SUFFICES ASSUME IInv, [Next]_vars PROVE IInv'  OBVIOUS
<1>1. CASE UNCHANGED vars
  <2>1. UNCHANGED <<die, app, str, streams, rx>>  BY <1>1 DEF vars, appVars
  <2> QED BY <2>1 DEF IInv, Shape, Stages, Answering, Mapped, ClientStreamsClosed, NoStreamSurvives
<1>2. ASSUME NEW e \in Ends, CloseSession(e) PROVE IInv'  BY <1>2, WriteQuiet
<1>3. ASSUME NEW e \in Ends, Closer(e) PROVE IInv'  BY <1>3, CloserStep
<1>4. ASSUME NEW e \in Ends, Recv(e) PROVE IInv'
  BY <1>4, WriteQuiet, ReceiveStep, ReplyStep DEF Recv
<1>5. ASSUME NEW e \in Ends, NEW s \in Sids,
             StreamWrite(e, s) \/ StreamRead(e, s) \/ StreamClose(e, s) \/ StreamClosed(e, s)
      PROVE  IInv'
  BY <1>5, WriteQuiet, UserStep
<1>6. ASSUME NEW s \in Sids, Open(s) \/ AddrFails(s) PROVE IInv'
  BY <1>6, WriteQuiet, OpenStep, AddrStep DEF Open
<1>7. ASSUME NEW s \in Sids, NEW failed \in BOOLEAN, Handshake(s, failed) PROVE IInv'
  BY <1>7, WriteQuiet
<1>8. CASE Heartbeat \/ Watch  BY <1>8, WriteQuiet
<1> QED BY <1>1, <1>2, <1>3, <1>4, <1>5, <1>6, <1>7, <1>8 DEF Next

(* Close closes all streams of a client's session: whichever way it was     *)
(* started, and whatever OpenStream, FINs and failed SYNACKs were under     *)
(* way, no stream is in the map or open once the sweep is over              *)
(* (session.go: Close, OpenStream, streamClosed, recvLoop).                 *)
THEOREM ClosedClientHasNoStreams == Spec => []ClientStreamsClosed
<1>1. Init => IInv  BY InitInv
<1>2. IInv /\ [Next]_vars => IInv'  BY InvStep
<1>3. IInv => ClientStreamsClosed  BY DEF IInv
<1> QED BY <1>1, <1>2, <1>3, PTL DEF Spec

-----------------------------------------------------------------------------
(* The watchdog of the client's SYNs.                                       *)

(* The count and the watcher, with the types their steps need.              *)
SynInv ==
    /\ streamId \in Nat
    /\ DOMAIN watch = {"cur", "late"}
    /\ SynGuarded

LEMMA SynInit == Init => SynInv
<1> SUFFICES ASSUME Init PROVE SynInv  OBVIOUS
<1>1. streamId \in {0, 1} /\ synPending = 0 /\ watch = [cur |-> "none", late |-> FALSE]
  BY DEF Init
<1> QED BY <1>1 DEF SynInv, SynGuarded, WatchdogCovers

LEMMA SynOpen ==
  ASSUME SynInv, NEW s \in Sids, OpenStream(s)
  PROVE  SynInv'
<1>1. streamId' = streamId + 1  BY DEF OpenStream
<1>2. CASE UNCHANGED <<synPending, watch>>
  BY <1>1, <1>2 DEF SynInv, SynGuarded, WatchdogCovers
<1>3. CASE /\ synPending' = synPending + 1
           /\ watch' = IF synPending = 0
                       THEN [Disarmed(watch) EXCEPT !.cur = "armed"] ELSE watch
  <2>1. streamId' \in Nat /\ synPending' \in 0 .. streamId' /\ synPending' > 0
    BY <1>1, <1>3 DEF SynInv, SynGuarded
  <2>2. DOMAIN watch' = {"cur", "late"} /\ watch'.cur # "none"
    <3>1. CASE synPending = 0
      <4>1. watch' = [Disarmed(watch) EXCEPT !.cur = "armed"]  BY <1>3, <3>1
      <4> QED BY <4>1 DEF Disarmed
    <3>2. CASE synPending # 0
      BY <1>3, <3>2 DEF SynInv, SynGuarded, WatchdogCovers
    <3> QED BY <3>1, <3>2
  <2> QED BY <2>1, <2>2 DEF SynInv, SynGuarded, WatchdogCovers
<1> QED BY <1>2, <1>3 DEF OpenStream

LEMMA SynAnswered ==
  ASSUME SynInv, RecvSYNACK
  PROVE  SynInv'
<1>1. streamId' = streamId /\ Answered  BY DEF RecvSYNACK
<1>2. CASE synPending > 1
  <2>1. synPending' = synPending - 1 /\ watch' = watch
    BY <1>1, <1>2 DEF Answered, SynInv, SynGuarded
  <2> QED BY <1>1, <1>2, <2>1 DEF SynInv, SynGuarded, WatchdogCovers
<1>3. CASE synPending = 1
  <2>1. synPending' = 0 /\ watch' = Disarmed(watch)  BY <1>1, <1>3 DEF Answered
  <2>2. DOMAIN watch' = {"cur", "late"} /\ watch'.cur = "none"  BY <2>1 DEF Disarmed
  <2> QED BY <1>1, <2>1, <2>2 DEF SynInv, SynGuarded, WatchdogCovers
<1>4. CASE synPending = 0
  <2>1. UNCHANGED <<synPending, watch>>  BY <1>1, <1>4 DEF Answered
  <2> QED BY <1>1, <2>1 DEF SynInv, SynGuarded, WatchdogCovers
<1> QED BY <1>2, <1>3, <1>4 DEF SynInv, SynGuarded

LEMMA SynWatch ==
  ASSUME SynInv, Watch
  PROVE  SynInv'
<1>1. UNCHANGED <<streamId, synPending>>
  BY DEF Watch, TimerExpires, WatchdogFires, LateWatcher
<1>2. DOMAIN watch' = {"cur", "late"} /\ (watch'.cur = "none" <=> watch.cur = "none")
  BY DEF Watch, TimerExpires, WatchdogFires, LateWatcher, SynInv
<1> QED BY <1>1, <1>2 DEF SynInv, SynGuarded, WatchdogCovers

(* No other step touches the count or the watcher.                          *)
LEMMA SynStep == SynInv /\ [Next]_vars => SynInv'
<1> SUFFICES ASSUME SynInv, [Next]_vars PROVE SynInv'  OBVIOUS
<1> USE DEF synVars
<1>0. UNCHANGED <<streamId, synPending, watch>> => SynInv'
  BY DEF SynInv, SynGuarded, WatchdogCovers
<1>1. CASE UNCHANGED vars  BY <1>0, <1>1 DEF vars
<1>2. ASSUME NEW e \in Ends, CloseSession(e) \/ Closer(e) PROVE SynInv'
  BY <1>0, <1>2 DEF CloseSession, Closer, CloseStreams, CloseConn
<1>3. ASSUME NEW e \in Ends, Recv(e) PROVE SynInv'
  <2>1. CASE RecvSYNACK  BY <2>1, SynAnswered
  <2>2. CASE RecvPSH(e) \/ PushFails(e) \/ RecvFIN(e) \/ RecvHeartRequest(e)
             \/ RecvIgnored(e) \/ Reply(e) \/ RecvEnds(e)
    BY <1>0, <2>2 DEF RecvPSH, PushFails, RecvFIN, RecvHeartRequest, RecvIgnored, Reply, RecvEnds
  <2>3. CASE RecvSYN \/ RecvSettings \/ RecvUpdatePaddingScheme \/ RecvServerSettings
    BY <1>0, <2>3 DEF RecvSYN, RecvSettings, RecvUpdatePaddingScheme, RecvServerSettings
  <2> QED BY <1>3, <2>1, <2>2, <2>3 DEF Recv
<1>4. ASSUME NEW e \in Ends, NEW s \in Sids,
             StreamWrite(e, s) \/ StreamRead(e, s) \/ StreamClose(e, s) \/ StreamClosed(e, s)
      PROVE  SynInv'
  BY <1>0, <1>4 DEF StreamWrite, StreamRead, StreamClose, StreamClosed
<1>5. ASSUME NEW s \in Sids, Open(s) \/ AddrFails(s) PROVE SynInv'
  <2>1. CASE OpenStream(s)  BY <2>1, SynOpen
  <2>2. CASE SendSyn(s) \/ Register(s) \/ AddrFails(s)
    BY <1>0, <2>2 DEF SendSyn, Register, AddrFails
  <2> QED BY <1>5, <2>1, <2>2 DEF Open
<1>6. ASSUME NEW s \in Sids, NEW failed \in BOOLEAN, Handshake(s, failed) PROVE SynInv'
  BY <1>0, <1>6 DEF Handshake
<1>7. CASE Heartbeat  BY <1>0, <1>7 DEF Heartbeat
<1>8. CASE Watch  BY <1>8, SynWatch
<1> QED BY <1>1, <1>2, <1>3, <1>4, <1>5, <1>6, <1>7, <1>8 DEF Next

(* The watchdog follows the SYNs: answers, also unasked ones, never bring   *)
(* the count below zero, there are never more SYNs than streams, and a      *)
(* watcher is armed, expired or fired exactly while one is unanswered       *)
(* (session.go: OpenStream and recvLoop's cmdSYNACK under synDoneLock).     *)
THEOREM WatchdogFollowsSyns == Spec => []SynGuarded
<1>1. Init => SynInv  BY SynInit
<1>2. SynInv /\ [Next]_vars => SynInv'  BY SynStep
<1>3. SynInv => SynGuarded  BY DEF SynInv
<1> QED BY <1>1, <1>2, <1>3, PTL DEF Spec

-----------------------------------------------------------------------------
(***************************************************************************)
(* The service behind the sessions never loses track of a session it is    *)
(* relaying for, whatever the number of sessions, passwords, overlapping   *)
(* calls of UpdateUsers and closes.                                        *)
(*                                                                         *)
(* RelayingTracked is not inductive: it says nothing about who may run a   *)
(* close hook.  A hook runs in the middle of a Close only, and that Close  *)
(* has passed dieOnce, so its session is dead (Dying, KickDying); and a    *)
(* session enters the map one step before it relays (Tracked).             *)
(***************************************************************************)
(* A goroutine between dieOnce and the end of Session.Close.                *)
Dying == \A s \in Sessions : pc[s] \in {"closeHook", "closeConn"} => s \in dead

(* kickRevokedSessions between dieOnce and the end of Session.Close.        *)
KickDying ==
    \A u \in Updaters :
        upc[u] \in {"kickHook", "kickConn"} =>
            /\ closing[u] \in Sessions
            /\ closing[u] \in dead

(* From trackSession to its end, or to the first Close, a session is on the *)
(* map.                                                                     *)
Tracked == \A s \in Sessions : pc[s] \in {"hook", "run"} /\ s \notin dead => s \in sessions

TrackInv == ServiceTypeOK /\ Dying /\ KickDying /\ Tracked

(* A session that passed dieOnce has its connection closed, or somebody is  *)
(* in the middle of the Close that will.                                    *)
CloseInHand ==
    \A s \in dead :
        \/ s \in connClosed
        \/ pc[s] \in {"closeHook", "closeConn"}
        \/ \E u \in Updaters : closing[u] = s /\ upc[u] \in {"kickHook", "kickConn"}

LEMMA TrackInit == ServiceInit => TrackInv
BY ServiceAssumption DEF ServiceInit, TrackInv, ServiceTypeOK, Dying, KickDying, Tracked

(* Every step of a connection's goroutine.                                  *)
LEMMA TrackSessionStep ==
  ASSUME TrackInv, NEW s \in Sessions,
         \/ \E h \in Passwords : Authenticate(s, h)
         \/ HandshakeFails(s)
         \/ RunReturns(s)
         \/ SessionStep(s)
  PROVE  TrackInv'
<1> USE DEF TrackInv, connVars
<1>1. CASE \E h \in Passwords : Authenticate(s, h)
  BY <1>1 DEF Authenticate, ServiceTypeOK, Dying, KickDying, Tracked
<1>2. CASE HandshakeFails(s)
  BY <1>2 DEF HandshakeFails, ServiceTypeOK, Dying, KickDying, Tracked
<1>3. CASE RunReturns(s)
  BY <1>3 DEF RunReturns, ServiceTypeOK, Dying, KickDying, Tracked
<1>4. CASE TrackSession(s)
  BY <1>4 DEF TrackSession, ServiceTypeOK, Dying, KickDying, Tracked
<1>5. CASE SetCloseHook(s)
  BY <1>5 DEF SetCloseHook, ServiceTypeOK, Dying, KickDying, Tracked
<1>6. CASE CloseOnce(s)
  BY <1>6 DEF CloseOnce, ServiceTypeOK, Dying, KickDying, Tracked
<1>7. CASE CloseHook(s)
  BY <1>7 DEF CloseHook, RunHook, ServiceTypeOK, Dying, KickDying, Tracked
<1>8. CASE CloseSessionConn(s)
  BY <1>8 DEF CloseSessionConn, ServiceTypeOK, Dying, KickDying, Tracked
<1> QED BY <1>1, <1>2, <1>3, <1>4, <1>5, <1>6, <1>7, <1>8 DEF SessionStep

(* Every step of a call of UpdateUsers.                                     *)
LEMMA TrackUpdaterStep ==
  ASSUME TrackInv, NEW u \in Updaters,
         \/ \E table \in SUBSET Passwords : UpdateUsers(u, table)
         \/ KickStep(u)
  PROVE  TrackInv'
<1> USE DEF TrackInv, kickVars
<1>1. CASE \E table \in SUBSET Passwords : UpdateUsers(u, table)
  BY <1>1, ServiceAssumption DEF UpdateUsers, ServiceTypeOK, Dying, KickDying, Tracked
<1>2. CASE KickCollect(u)
  BY <1>2 DEF KickCollect, Revoked, ServiceTypeOK, Dying, KickDying, Tracked
<1>3. ASSUME NEW s \in Sessions, KickCloseOnce(u, s) PROVE TrackInv'
  BY <1>3 DEF KickCloseOnce, ServiceTypeOK, Dying, KickDying, Tracked
<1>4. CASE KickHook(u)
  BY <1>4 DEF KickHook, RunHook, ServiceTypeOK, Dying, KickDying, Tracked
<1>5. CASE KickConn(u)
  BY <1>5 DEF KickConn, ServiceTypeOK, Dying, KickDying, Tracked
<1>6. CASE KickDone(u)
  BY <1>6 DEF KickDone, ServiceTypeOK, Dying, KickDying, Tracked
<1> QED BY <1>1, <1>2, <1>3, <1>4, <1>5, <1>6 DEF KickStep

LEMMA TrackStep == TrackInv /\ [ServiceNext]_serviceVars => TrackInv'
<1> SUFFICES ASSUME TrackInv, [ServiceNext]_serviceVars PROVE TrackInv'  OBVIOUS
<1>1. CASE UNCHANGED serviceVars
  BY <1>1 DEF serviceVars, TrackInv, ServiceTypeOK, Dying, KickDying, Tracked
<1> QED BY <1>1, TrackSessionStep, TrackUpdaterStep DEF ServiceNext

(* A session that relays and that nobody has closed is on the sessions map, *)
(* so every later UpdateUsers finds it (service.go, trackSession and        *)
(* kickRevokedSessions), and the state keeps its types.                     *)
THEOREM RelayingSessionsTracked == ServiceSpec => []ServiceInv
<1>1. TrackInv => ServiceInv  BY DEF TrackInv, ServiceInv, RelayingTracked,
                                         Relaying, Tracked
<1> QED BY <1>1, TrackInit, TrackStep, PTL DEF ServiceSpec

-----------------------------------------------------------------------------
(* CloseInHand is inductive with the types.                                 *)
LEMMA CloseInHandStep == TrackInv /\ CloseInHand /\ [ServiceNext]_serviceVars => CloseInHand'
<1> SUFFICES ASSUME TrackInv, CloseInHand, [ServiceNext]_serviceVars PROVE CloseInHand'  OBVIOUS
<1> USE DEF TrackInv, CloseInHand, connVars, kickVars
<1>1. ASSUME NEW s \in Sessions,
             \/ \E h \in Passwords : Authenticate(s, h)
             \/ HandshakeFails(s)
             \/ RunReturns(s)
             \/ SessionStep(s)
      PROVE  CloseInHand'
  <2>1. /\ closing' = closing /\ upc' = upc
        /\ \A t \in Sessions \ {s} : pc'[t] = pc[t]
    BY <1>1 DEF Authenticate, HandshakeFails, RunReturns, SessionStep,
                TrackSession,
                SetCloseHook, CloseOnce, CloseHook, CloseSessionConn, ServiceTypeOK
  <2>2. CASE CloseOnce(s)  BY <2>1, <2>2 DEF CloseOnce, ServiceTypeOK
  <2>3. CASE CloseHook(s)  BY <2>1, <2>3 DEF CloseHook, ServiceTypeOK
  <2>4. CASE CloseSessionConn(s)  BY <2>1, <2>4 DEF CloseSessionConn, ServiceTypeOK
  <2>5. CASE \/ \E h \in Passwords : Authenticate(s, h)
             \/ HandshakeFails(s) \/ RunReturns(s) \/ TrackSession(s)
             \/ SetCloseHook(s)
    <3>1. dead' = dead /\ connClosed' = connClosed /\ pc[s] \notin {"closeHook", "closeConn"}
      BY <2>5 DEF Authenticate, HandshakeFails, RunReturns, TrackSession,
                  SetCloseHook
    <3> QED BY <2>1, <3>1 DEF ServiceTypeOK
  <2> QED BY <1>1, <2>2, <2>3, <2>4, <2>5 DEF SessionStep
<1>2. ASSUME NEW u \in Updaters,
             (\E table \in SUBSET Passwords : UpdateUsers(u, table)) \/ KickStep(u)
      PROVE  CloseInHand'
  <2>1. /\ pc' = pc
        /\ \A v \in Updaters \ {u} : closing'[v] = closing[v] /\ upc'[v] = upc[v]
    BY <1>2 DEF UpdateUsers, KickStep, KickCollect, KickCloseOnce, KickHook,
                KickConn,
                KickDone, ServiceTypeOK
  <2>2. ASSUME NEW s \in Sessions, KickCloseOnce(u, s) PROVE CloseInHand'
    <3>1. /\ dead' = dead \cup {s} /\ connClosed' = connClosed /\ upc[u] = "kick"
          /\ closing'[u] = s /\ (s \notin dead => upc'[u] = "kickHook")
      BY <2>2 DEF KickCloseOnce, ServiceTypeOK
    <3> QED BY <2>1, <3>1
  <2>3. CASE KickHook(u)  BY <2>1, <2>3 DEF KickHook, ServiceTypeOK
  <2>4. CASE KickConn(u)  BY <2>1, <2>4 DEF KickConn, ServiceTypeOK
  <2>5. CASE \/ \E table \in SUBSET Passwords : UpdateUsers(u, table)
             \/ KickCollect(u) \/ KickDone(u)
    <3>1. dead' = dead /\ connClosed' = connClosed /\ upc[u] \notin {"kickHook", "kickConn"}
      BY <2>5 DEF UpdateUsers, KickCollect, KickDone
    <3> QED BY <2>1, <3>1
  <2> QED BY <1>2, <2>2, <2>3, <2>4, <2>5 DEF KickStep
<1>3. CASE UNCHANGED serviceVars  BY <1>3 DEF serviceVars
<1> QED BY <1>1, <1>2, <1>3 DEF ServiceNext

(* Of the callers of Session.Close that race, the one that passes dieOnce   *)
(* is never lost before it has closed the connection: the safety half of    *)
(* "a revoked session is torn down", for every number of sessions and       *)
(* overlapping updates.                                                     *)
THEOREM ClosesNeverAbandoned == ServiceSpec => []CloseInHand
<1>1. ServiceInit => CloseInHand  BY DEF ServiceInit, CloseInHand
<1> QED BY <1>1, TrackInit, TrackStep, CloseInHandStep, PTL DEF ServiceSpec

-----------------------------------------------------------------------------
(* What is written to a stream reaches its reader (StreamsDeliver).         *)
(*                                                                          *)
(* The channel to an end is what the connection carries and, for the        *)
(* server, what the client still buffers behind it.  StreamInv says of it:  *)
(* whole frames only (FormInv); a stream's SYN is in front of its data and  *)
(* comes once (SynSeen); a FIN is sent for streams that are over (EndSeen); *)
(* and of an open stream the chunks on the way are the ones that its writer *)
(* has written and its reader not yet read, in order, with the FIN behind   *)
(* them (Deliver), the first of them perhaps in the loop's hand (Held).     *)

(* What is on its way to an end: for the server, the client's buffer is     *)
(* behind what is on the connection.                                        *)
Chan(e) == IF e = "S" THEN wire["S"] \o buffer ELSE wire["C"]

(* A header of this kind for this stream; the number of a data frame.       *)
At(w, i, cmd, s) == i \in 1 .. Len(w) /\ w[i].cmd = cmd /\ w[i].sid = s
Num(w, i) == w[i + 1].arg

(* Only whole frames: behind a header come the units it announces and then  *)
(* a header or the end.                                                     *)
Whole(w) ==
    \A i \in 1 .. Len(w) :
        /\ i = 1 => w[i].cmd # "unit"
        /\ w[i].cmd # "unit" =>
            /\ i + w[i].len <= Len(w)
            /\ \A j \in (i + 1) .. (i + w[i].len) : w[j].cmd = "unit"
            /\ i + w[i].len < Len(w) => w[i + w[i].len + 1].cmd # "unit"

(* What the headers that count promise about their frames.                  *)
Proper(w) ==
    \A i \in 1 .. Len(w) :
        /\ w[i].cmd \in {"SYN", "PSH", "FIN"} => w[i].sid \in Sids
        /\ w[i].cmd = "PSH" =>
            w[i].len = 1 /\ w[i + 1].sid = w[i].sid /\ w[i + 1].arg \in Nat
        /\ w[i].cmd = "UpdatePaddingScheme" => w[i].arg \in DOMAIN Schemes

Before(w, i, s, n) == \E j \in 1 .. Len(w) : j < i /\ At(w, j, "PSH", s) /\ Num(w, j) = n

(* Of stream s, whose reader has b chunks and writer has written m: the     *)
(* data is in order, without a gap and each once, and a FIN is behind it.   *)
InOrder(w, s, b, m) ==
    \A i \in 1 .. Len(w) :
        /\ At(w, i, "PSH", s) =>
            /\ Num(w, i) > b /\ Num(w, i) <= m
            /\ \A n \in (b + 1) .. (Num(w, i) - 1) : Before(w, i, s, n)
            /\ \A j \in 1 .. Len(w) : j < i /\ At(w, j, "PSH", s) => Num(w, j) # Num(w, i)
        /\ At(w, i, "FIN", s) => \A n \in (b + 1) .. m : Before(w, i, s, n)

(* Nothing of it is lost.                                                   *)
Complete(w, s, b, m) == \A n \in (b + 1) .. m : Before(w, Len(w) + 1, s, n)

Reading(e) == die[e] # "done" /\ rx[e].pc \notin {"last", "ended"}
Over(e, s) == str[e][s] \in {"dead", "fin"}
Holds(e, s) == rx[e].pc = "push" /\ rx[e].sid = s
Got(e, s) == IF Holds(e, s) THEN Len(rd[e][s]) + 1 ELSE Len(rd[e][s])

Plain == {Frame("HeartResponse", 0, 0), LongFrame("Alert", 0, 0), LongFrame("ServerSettings", 0, 0)}
         \cup {LongFrame("UpdatePaddingScheme", 0, name) : name \in DOMAIN Schemes}

(* Whole frames everywhere.                                                 *)
FormInv ==
    /\ \A e \in Ends : Whole(wire[e]) /\ Proper(wire[e])
    /\ Whole(buffer) /\ Proper(buffer)
    /\ \A i \in 1 .. Len(buffer) : buffer[i].cmd \notin {"PSH", "FIN"}

ReplyInv ==
    \A e \in Ends :
        /\ rx[e].pc \in {"reply", "last"} => rx[e].reply # <<>>
        /\ rx[e].pc \in {"reply", "last"} => \A i \in 1 .. Len(rx[e].reply) :
             \/ rx[e].reply[i] \in Plain
             \/ /\ rx[e].pc = "reply" /\ e = "C" /\ rx[e].sid \in Sids
                /\ rx[e].reply[i] = Frame("FIN", rx[e].sid, 0)

StageInv ==
    /\ \A e \in Ends, s \in Sids :
        /\ app[e][s] = "fin" => Over(e, s)
        /\ s \in streams[e] => str[e][s] # "none"
        /\ rx[e].pc \notin {"last", "ended"} /\ str[e][s] = "live" => s \in streams[e]
        /\ rx[e].pc = "reply" /\ rx[e].sid = s => Over(e, s)
    /\ \A s \in Sids :
        /\ app["C"][s] \in {"idle", "syn", "reg"} => str["C"][s] = "none"
        /\ app["C"][s] # "addr"
        /\ buffering => str["C"][s] = "none"
        /\ app["S"][s] = "run" => Len(rd["S"][s]) > 0
        /\ sent["C"][s] > 0 => str["C"][s] # "none"

(* A SYN comes first and once; of a stream that the server does not have    *)
(* yet nothing but what is behind its SYN is on the way.                    *)
SynAt(s) ==
    /\ app["C"][s] \in {"idle", "syn"} => str["S"][s] = "none"
    /\ \A i \in 1 .. Len(Chan("S")) : At(Chan("S"), i, "SYN", s) =>
        /\ str["S"][s] = "none" /\ app["C"][s] \notin {"idle", "syn"}
        /\ \A j \in 1 .. Len(Chan("S")) : At(Chan("S"), j, "SYN", s) => i = j
    /\ Reading("S") /\ str["S"][s] = "none" =>
        /\ \A i \in 1 .. Len(Chan("S")) : At(Chan("S"), i, "PSH", s) =>
            \E j \in 1 .. Len(Chan("S")) : j < i /\ At(Chan("S"), j, "SYN", s)
        /\ die["C"] # "done" /\ app["C"][s] \in {"reg", "run"} =>
            \E j \in 1 .. Len(Chan("S")) : At(Chan("S"), j, "SYN", s)

SynSeen == \A s \in Sids : SynAt(s)

EndSeen ==
    \A e \in Ends, s \in Sids :
        /\ \A i \in 1 .. Len(Chan(e)) : At(Chan(e), i, "FIN", s) => Over(Peer(e), s)
        /\ str[e][s] = "fin" => Over(Peer(e), s)
        /\ e = "C" => \A i \in 1 .. Len(Chan(e)) : At(Chan(e), i, "PSH", s) => str["C"][s] # "none"

(* While the loop reads and the stream is open, what its peer wrote is read,*)
(* in hand or on the way, in order.                                         *)
DeliverAt(e, s) ==
    Reading(e) /\ str[e][s] \in {"none", "live"} =>
        /\ InOrder(Chan(e), s, Got(e, s), sent[Peer(e)][s])
        /\ die[Peer(e)] # "done" => Complete(Chan(e), s, Got(e, s), sent[Peer(e)][s])

Deliver == \A e \in Ends, s \in Sids : DeliverAt(e, s)

Held ==
    \A e \in Ends : rx[e].pc = "push" =>
        LET s == rx[e].sid IN
        /\ s \in Sids /\ str[e][s] # "none"
        /\ str[e][s] = "live" => /\ rx[e].chunk = <<s, Len(rd[e][s]) + 1>>
                                 /\ Len(rd[e][s]) < sent[Peer(e)][s]


(* Units as the connection carries them.                                    *)
Cmds == {"unit", "SYN", "PSH", "FIN", "SYNACK", "Waste", "Settings", "Alert", "UpdatePaddingScheme",
         "ServerSettings", "HeartRequest", "HeartResponse"}
Args == Nat \cup Hellos \cup DOMAIN Schemes
Cell == [cmd : Cmds, sid : Nat, len : Nat, arg : Args]

(* The elements of a concatenation and of what is left after a frame.       *)
LEMMA JoinedCells ==
  ASSUME NEW w \in Seq(Cell), NEW u \in Seq(Cell)
  PROVE  /\ w \o u \in Seq(Cell) /\ Len(w \o u) = Len(w) + Len(u)
         /\ Len(w) \in Nat /\ Len(u) \in Nat
         /\ \A i \in 1 .. Len(w) : (w \o u)[i] = w[i]
         /\ \A i \in 1 .. Len(u) : (w \o u)[Len(w) + i] = u[i]
         /\ \A i \in 1 .. Len(w \o u) : i \in 1 .. Len(w) \/ (i > Len(w) /\ i - Len(w) \in 1 .. Len(u)
                                                            /\ (w \o u)[i] = u[i - Len(w)])
<1>1. Len(w) \in Nat /\ Len(u) \in Nat  BY LenProperties
<1>2. w \o u \in Seq(Cell) /\ Len(w \o u) = Len(w) + Len(u)  BY ConcatProperties
<1>3. \A i \in 1 .. Len(w) : (w \o u)[i] = w[i]  BY <1>1, <1>2, ConcatProperties
<1>4. \A i \in 1 .. Len(w) + Len(u) : i > Len(w) => (w \o u)[i] = u[i - Len(w)]
  BY <1>1, <1>2, ConcatProperties
<1>5. ASSUME NEW i \in 1 .. Len(u) PROVE (w \o u)[Len(w) + i] = u[i]
  <2>1. Len(w) + i \in 1 .. Len(w) + Len(u) /\ Len(w) + i > Len(w) /\ (Len(w) + i) - Len(w) = i
    BY <1>1
  <2> QED BY <1>4, <2>1
<1>6. ASSUME NEW i \in 1 .. Len(w \o u)
      PROVE  i \in 1 .. Len(w) \/ (i > Len(w) /\ i - Len(w) \in 1 .. Len(u)
                                  /\ (w \o u)[i] = u[i - Len(w)])
  BY <1>1, <1>2, <1>4
<1> QED BY <1>1, <1>2, <1>3, <1>5, <1>6

(* Whole frames behind whole frames.                                        *)
LEMMA WholeJoin ==
  ASSUME NEW w \in Seq(Cell), NEW u \in Seq(Cell), Whole(w), Whole(u)
  PROVE  Whole(w \o u)
<1> DEFINE v == w \o u
<1>1. /\ v \in Seq(Cell) /\ Len(v) = Len(w) + Len(u) /\ Len(w) \in Nat /\ Len(u) \in Nat
      /\ \A i \in 1 .. Len(w) : v[i] = w[i]
      /\ \A i \in 1 .. Len(u) : v[Len(w) + i] = u[i]
  BY JoinedCells
<1> HIDE DEF v
<1>2. \A i \in 1 .. Len(w) : w[i].len \in Nat
  <2>1. \A i \in 1 .. Len(w) : w[i] \in Cell  BY ElementOfSeq
  <2> QED BY <2>1 DEF Cell
<1>3. \A i \in 1 .. Len(u) : u[i].len \in Nat
  <2>1. \A i \in 1 .. Len(u) : u[i] \in Cell  BY ElementOfSeq
  <2> QED BY <2>1 DEF Cell
<1>4. Len(u) > 0 => v[Len(w) + 1].cmd # "unit"  BY <1>1 DEF Whole
<1>5. ASSUME NEW i \in 1 .. Len(v)
      PROVE  /\ i = 1 => v[1].cmd # "unit"
             /\ v[i].cmd # "unit" =>
                 /\ i + v[i].len <= Len(v)
                 /\ \A j \in (i + 1) .. (i + v[i].len) : v[j].cmd = "unit"
                 /\ i + v[i].len < Len(v) => v[i + v[i].len + 1].cmd # "unit"
  <2>1. CASE i <= Len(w)
    <3>1. i \in 1 .. Len(w) /\ v[i] = w[i] /\ w[i].len \in Nat  BY <1>1, <1>2, <2>1
    <3>2. i = 1 => v[1].cmd # "unit"  BY <1>1, <3>1 DEF Whole
    <3>3. ASSUME w[i].cmd # "unit"
          PROVE  /\ i + w[i].len <= Len(w)
                 /\ \A j \in (i + 1) .. (i + w[i].len) : w[j].cmd = "unit"
                 /\ i + w[i].len < Len(w) => w[i + w[i].len + 1].cmd # "unit"
      BY <3>1, <3>3 DEF Whole
    <3>4. ASSUME w[i].cmd # "unit" PROVE i + w[i].len < Len(v) => v[i + w[i].len + 1].cmd # "unit"
      <4>1. CASE i + w[i].len < Len(w)
        <5>1. i + w[i].len + 1 \in 1 .. Len(w)  BY <1>1, <3>1, <4>1
        <5> QED BY <1>1, <3>3, <3>4, <4>1, <5>1
      <4>2. CASE i + w[i].len = Len(w)  BY <1>1, <1>4, <4>2
      <4> QED BY <1>1, <3>1, <3>3, <3>4, <4>1, <4>2
    <3>5. ASSUME w[i].cmd # "unit", NEW j \in (i + 1) .. (i + w[i].len) PROVE v[j].cmd = "unit"
      <4>1. j \in 1 .. Len(w)  BY <1>1, <3>1, <3>3, <3>5
      <4> QED BY <1>1, <3>3, <3>5, <4>1
    <3>6. w[i].cmd # "unit" => i + w[i].len <= Len(v)  BY <1>1, <3>1, <3>3
    <3> QED BY <3>1, <3>2, <3>4, <3>5, <3>6
  <2>2. CASE i > Len(w)
    <3>0. i - Len(w) \in 1 .. Len(u) /\ i = Len(w) + (i - Len(w))  BY <1>1, <2>2
    <3>1. PICK k \in 1 .. Len(u) : i = Len(w) + k  BY <3>0
    <3>2. v[i] = u[k] /\ u[k].len \in Nat  BY <1>1, <1>3, <3>1
    <3>3. i = 1 => v[1].cmd # "unit"  BY <1>1, <1>4, <3>1
    <3>4. ASSUME u[k].cmd # "unit"
          PROVE  /\ k + u[k].len <= Len(u)
                 /\ \A j \in (k + 1) .. (k + u[k].len) : u[j].cmd = "unit"
                 /\ k + u[k].len < Len(u) => u[k + u[k].len + 1].cmd # "unit"
      BY <3>1, <3>4 DEF Whole
    <3>5. ASSUME u[k].cmd # "unit", i + u[k].len < Len(v) PROVE v[i + u[k].len + 1].cmd # "unit"
      <4>1. k + u[k].len + 1 \in 1 .. Len(u) /\ i + u[k].len + 1 = Len(w) + (k + u[k].len + 1)
        <5>1. PICK n, m, l, q \in Nat : n = Len(w) /\ m = Len(u) /\ l = u[k].len /\ q = Len(v)
          BY <1>1, <3>2
        <5>2. q = n + m /\ i = n + k /\ i + l < q /\ k \in 1 .. m  BY <1>1, <3>1, <3>5, <5>1
        <5>3. k + l + 1 \in 1 .. m /\ i + l + 1 = n + (k + l + 1)  BY <5>2
        <5> QED BY <5>1, <5>3
      <4>2. v[i + u[k].len + 1] = u[k + u[k].len + 1]  BY <1>1, <4>1
      <4> QED BY <1>1, <3>1, <3>2, <3>4, <3>5, <4>2
    <3>6. ASSUME u[k].cmd # "unit", NEW j \in (i + 1) .. (i + u[k].len) PROVE v[j].cmd = "unit"
      <4>0. k + u[k].len <= Len(u) /\ u[k].len \in Nat /\ Len(w) \in Nat /\ Len(u) \in Nat
        BY <1>1, <3>2, <3>4, <3>6
      <4>1. j - Len(w) \in (k + 1) .. (k + u[k].len) /\ j - Len(w) \in 1 .. Len(u)
            /\ j = Len(w) + (j - Len(w))
        BY <3>1, <3>6, <4>0
      <4>2. v[j] = u[j - Len(w)]  BY <1>1, <4>1
      <4> QED BY <3>4, <3>6, <4>1, <4>2
    <3>7. u[k].cmd # "unit" => i + u[k].len <= Len(v)  BY <1>1, <3>1, <3>2, <3>4
    <3> QED BY <3>2, <3>3, <3>5, <3>6, <3>7
  <2> QED BY <1>1, <2>1, <2>2
<1>6. Whole(v)  BY <1>5 DEF Whole
<1> QED BY <1>6 DEF v

Framed(w) == Whole(w) /\ Proper(w)

(* A data frame's number is behind its header.                              *)
LEMMA DataBehind ==
  ASSUME NEW w \in Seq(Cell), Framed(w), NEW i, NEW s, At(w, i, "PSH", s)
  PROVE  i \in 1 .. Len(w) /\ i + 1 \in 1 .. Len(w) /\ Num(w, i) \in Nat /\ w[i].len = 1
<1>1. i \in 1 .. Len(w) /\ Len(w) \in Nat  BY LenProperties DEF At
<1>2. w[i].len = 1 /\ w[i + 1].arg \in Nat /\ w[i].cmd # "unit"  BY <1>1 DEF Framed, Proper, At
<1>3. i + w[i].len <= Len(w)  BY <1>1, <1>2 DEF Framed, Whole
<1> QED BY <1>1, <1>2, <1>3 DEF Num

(* The same, with what the headers promise.                                 *)
LEMMA FramedJoin ==
  ASSUME NEW w \in Seq(Cell), NEW u \in Seq(Cell), Framed(w), Framed(u)
  PROVE  Framed(w \o u)
<1> DEFINE v == w \o u
<1>1. /\ v \in Seq(Cell) /\ Len(v) = Len(w) + Len(u) /\ Len(w) \in Nat /\ Len(u) \in Nat
      /\ \A i \in 1 .. Len(w) : v[i] = w[i]
      /\ \A i \in 1 .. Len(u) : v[Len(w) + i] = u[i]
      /\ \A i \in 1 .. Len(v) : i \in 1 .. Len(w) \/ (i > Len(w) /\ i - Len(w) \in 1 .. Len(u)
                                                     /\ v[i] = u[i - Len(w)])
  BY JoinedCells
<1>2. Whole(v)  BY WholeJoin DEF Framed
<1> HIDE DEF v
<1>3. ASSUME NEW i \in 1 .. Len(v)
      PROVE  /\ v[i].cmd \in {"SYN", "PSH", "FIN"} => v[i].sid \in Sids
             /\ v[i].cmd = "PSH" =>
                 v[i].len = 1 /\ v[i + 1].sid = v[i].sid /\ v[i + 1].arg \in Nat
             /\ v[i].cmd = "UpdatePaddingScheme" => v[i].arg \in DOMAIN Schemes
  <2>1. CASE i \in 1 .. Len(w)
    <3>1. v[i] = w[i]  BY <1>1, <2>1
    <3>2. w[i].cmd = "PSH" => i + 1 \in 1 .. Len(w)  BY <2>1, DataBehind DEF At
    <3>3. w[i].cmd = "PSH" => v[i + 1] = w[i + 1]  BY <1>1, <3>2
    <3> QED BY <2>1, <3>1, <3>3 DEF Framed, Proper
  <2>2. CASE i > Len(w) /\ i - Len(w) \in 1 .. Len(u) /\ v[i] = u[i - Len(w)]
    <3>1. PICK k \in 1 .. Len(u) : k = i - Len(w)  BY <2>2
    <3>2. v[i] = u[k] /\ Len(w) + (k + 1) = i + 1  BY <1>1, <2>2, <3>1
    <3>3. u[k].cmd = "PSH" => k + 1 \in 1 .. Len(u)  BY DataBehind DEF At
    <3>4. u[k].cmd = "PSH" => v[i + 1] = u[k + 1]  BY <1>1, <3>2, <3>3
    <3> QED BY <3>2, <3>4 DEF Framed, Proper
  <2> QED BY <1>1, <2>1, <2>2
<1>4. Proper(v)  BY <1>3 DEF Proper
<1> QED BY <1>2, <1>4 DEF v, Framed

(* What is left when k units are gone.                                      *)
LEMMA LeftCells ==
  ASSUME NEW w \in Seq(Cell), NEW k \in Nat, k <= Len(w)
  PROVE  /\ SubSeq(w, k + 1, Len(w)) \in Seq(Cell)
         /\ Len(w) \in Nat /\ Len(SubSeq(w, k + 1, Len(w))) = Len(w) - k
         /\ \A i \in 1 .. (Len(w) - k) : SubSeq(w, k + 1, Len(w))[i] = w[i + k]
<1>1. Len(w) \in Nat /\ \A i \in 1 .. Len(w) : w[i] \in Cell  BY LenProperties, ElementOfSeq
<1>2. \A i \in (k + 1) .. Len(w) : w[i] \in Cell  BY <1>1
<1>3. /\ SubSeq(w, k + 1, Len(w)) \in Seq(Cell)
      /\ Len(SubSeq(w, k + 1, Len(w))) = IF k + 1 <= Len(w) THEN Len(w) - (k + 1) + 1 ELSE 0
      /\ \A i \in 1 .. Len(w) - (k + 1) + 1 : SubSeq(w, k + 1, Len(w))[i] = w[(k + 1) + i - 1]
  BY <1>1, <1>2, SubSeqProperties
<1>4. Len(SubSeq(w, k + 1, Len(w))) = Len(w) - k  BY <1>1, <1>3
<1>5. ASSUME NEW i \in 1 .. (Len(w) - k) PROVE SubSeq(w, k + 1, Len(w))[i] = w[i + k]
  <2>1. i \in 1 .. Len(w) - (k + 1) + 1 /\ (k + 1) + i - 1 = i + k  BY <1>1
  <2> QED BY <1>3, <2>1
<1> QED BY <1>1, <1>3, <1>4, <1>5

(* Taking the first frame off leaves whole frames.                          *)
LEMMA FramedLeft ==
  ASSUME NEW w \in Seq(Cell), Framed(w), w # <<>>
  PROVE  /\ w[1] \in Cell /\ w[1].cmd # "unit" /\ w[1].len + 1 <= Len(w) /\ Len(w) > 0
         /\ Framed(SubSeq(w, w[1].len + 2, Len(w)))
<1>1. Len(w) \in Nat /\ Len(w) > 0  BY LenProperties, EmptySeq
<1>2. w[1] \in Cell /\ w[1].len \in Nat
  <2>1. w[1] \in Cell  BY <1>1, ElementOfSeq
  <2> QED BY <2>1 DEF Cell
<1>3. w[1].cmd # "unit"  BY <1>1 DEF Framed, Whole
<1>4. 1 + w[1].len <= Len(w) /\ (1 + w[1].len < Len(w) => w[1 + w[1].len + 1].cmd # "unit")
  BY <1>1, <1>3 DEF Framed, Whole
<1>5. PICK k \in Nat : k = w[1].len + 1  BY <1>2
<1> DEFINE d == SubSeq(w, k + 1, Len(w))
<1>a. k <= Len(w)  BY <1>1, <1>2, <1>4, <1>5
<1>6. /\ d \in Seq(Cell) /\ Len(d) = Len(w) - k /\ k <= Len(w)
      /\ \A i \in 1 .. (Len(w) - k) : d[i] = w[i + k]
  BY <1>a, LeftCells
<1>7. d = SubSeq(w, w[1].len + 2, Len(w))
  <2>1. k + 1 = w[1].len + 2  BY <1>2, <1>5
  <2> QED BY <2>1
<1> HIDE DEF d
<1>8. ASSUME NEW i \in 1 .. Len(d)
      PROVE  /\ i = 1 => d[1].cmd # "unit"
             /\ d[i].cmd # "unit" =>
                 /\ i + d[i].len <= Len(d)
                 /\ \A j \in (i + 1) .. (i + d[i].len) : d[j].cmd = "unit"
                 /\ i + d[i].len < Len(d) => d[i + d[i].len + 1].cmd # "unit"
  <2>1. i + k \in 1 .. Len(w) /\ d[i] = w[i + k] /\ Len(d) = Len(w) - k /\ Len(w) \in Nat
    BY <1>1, <1>6
  <2>2. w[i + k].len \in Nat
    <3>1. w[i + k] \in Cell  BY <2>1, ElementOfSeq
    <3> QED BY <3>1 DEF Cell
  <2>3. i = 1 => d[1].cmd # "unit"
    <3>1. i = 1 => 1 + w[1].len < Len(w) /\ 1 + w[1].len + 1 = i + k  BY <1>1, <1>2, <1>5, <2>1
    <3> QED BY <1>4, <2>1, <3>1
  <2>4. ASSUME d[i].cmd # "unit"
        PROVE  /\ i + k + w[i + k].len <= Len(w)
               /\ \A j \in (i + k + 1) .. (i + k + w[i + k].len) : w[j].cmd = "unit"
               /\ i + k + w[i + k].len < Len(w) => w[i + k + w[i + k].len + 1].cmd # "unit"
    BY <2>1, <2>4 DEF Framed, Whole
  <2>5. ASSUME d[i].cmd # "unit" PROVE i + d[i].len <= Len(d)  BY <2>1, <2>2, <2>4, <2>5
  <2>6. ASSUME d[i].cmd # "unit", NEW j \in (i + 1) .. (i + d[i].len) PROVE d[j].cmd = "unit"
    <3>1. j \in 1 .. Len(d)  BY <2>1, <2>2, <2>5, <2>6
    <3>2. d[j] = w[j + k] /\ j + k \in (i + k + 1) .. (i + k + w[i + k].len)
      BY <1>6, <2>1, <2>2, <2>6, <3>1
    <3> QED BY <2>4, <2>6, <3>2
  <2>7. ASSUME d[i].cmd # "unit", i + d[i].len < Len(d) PROVE d[i + d[i].len + 1].cmd # "unit"
    <3>1. i + d[i].len + 1 \in 1 .. (Len(w) - k)
          /\ i + k + w[i + k].len < Len(w)
          /\ (i + d[i].len + 1) + k = i + k + w[i + k].len + 1
      BY <1>1, <2>1, <2>2, <2>7
    <3>2. d[i + d[i].len + 1] = w[i + k + w[i + k].len + 1]  BY <1>6, <3>1
    <3> QED BY <2>4, <2>7, <3>1, <3>2
  <2> QED BY <2>3, <2>5, <2>6, <2>7
<1>9. ASSUME NEW i \in 1 .. Len(d)
      PROVE  /\ d[i].cmd \in {"SYN", "PSH", "FIN"} => d[i].sid \in Sids
             /\ d[i].cmd = "PSH" =>
                 d[i].len = 1 /\ d[i + 1].sid = d[i].sid /\ d[i + 1].arg \in Nat
             /\ d[i].cmd = "UpdatePaddingScheme" => d[i].arg \in DOMAIN Schemes
  <2>1. i + k \in 1 .. Len(w) /\ d[i] = w[i + k]  BY <1>1, <1>6
  <2>2. /\ w[i + k].cmd \in {"SYN", "PSH", "FIN"} => w[i + k].sid \in Sids
        /\ w[i + k].cmd = "PSH" =>
            w[i + k].len = 1 /\ w[i + k + 1].sid = w[i + k].sid /\ w[i + k + 1].arg \in Nat
        /\ w[i + k].cmd = "UpdatePaddingScheme" => w[i + k].arg \in DOMAIN Schemes
    BY <2>1 DEF Framed, Proper
  <2>3. w[i + k].cmd = "PSH" => d[i + 1] = w[i + k + 1]
    <3>1. w[i + k].cmd = "PSH" => i + k + 1 \in 1 .. Len(w)  BY <2>1, DataBehind DEF At
    <3>2. i + k + 1 \in 1 .. Len(w) => i + 1 \in 1 .. (Len(w) - k) /\ (i + 1) + k = i + k + 1
      BY <1>1, <1>6
    <3> QED BY <1>6, <3>1, <3>2
  <2> QED BY <2>1, <2>2, <2>3
<1>10. Framed(d)  BY <1>8, <1>9 DEF Framed, Whole, Proper
<1> QED BY <1>1, <1>2, <1>3, <1>4, <1>7, <1>10

-----------------------------------------------------------------------------
(* The headers that count, after a write and after a read.                  *)

(* Where the headers are once something is behind.                          *)
LEMMA MarksJoin ==
  ASSUME NEW w \in Seq(Cell), NEW u \in Seq(Cell), Framed(w), Framed(u), NEW cmd, NEW s
  PROVE  /\ \A i \in 1 .. Len(w) : /\ i \in 1 .. Len(w \o u)
                                   /\ At(w \o u, i, cmd, s) <=> At(w, i, cmd, s)
                                   /\ At(w, i, "PSH", s) => Num(w \o u, i) = Num(w, i)
         /\ \A k \in 1 .. Len(u) : /\ Len(w) + k \in 1 .. Len(w \o u)
                                   /\ At(w \o u, Len(w) + k, cmd, s) <=> At(u, k, cmd, s)
                                   /\ At(u, k, "PSH", s) => Num(w \o u, Len(w) + k) = Num(u, k)
         /\ \A i \in 1 .. Len(w \o u) :
                i \in 1 .. Len(w) \/ \E k \in 1 .. Len(u) : i = Len(w) + k
<1> DEFINE v == w \o u
<1>1. /\ Len(v) = Len(w) + Len(u) /\ Len(w) \in Nat /\ Len(u) \in Nat
      /\ \A i \in 1 .. Len(w) : v[i] = w[i]
      /\ \A i \in 1 .. Len(u) : v[Len(w) + i] = u[i]
  BY JoinedCells
<1> HIDE DEF v
<1>2. ASSUME NEW i \in 1 .. Len(w)
      PROVE  /\ i \in 1 .. Len(v)
             /\ At(v, i, cmd, s) <=> At(w, i, cmd, s)
             /\ At(w, i, "PSH", s) => Num(v, i) = Num(w, i)
  <2>1. i \in 1 .. Len(v) /\ v[i] = w[i]  BY <1>1
  <2>2. At(w, i, "PSH", s) => i + 1 \in 1 .. Len(w)  BY DataBehind
  <2> QED BY <1>1, <2>1, <2>2 DEF At, Num
<1>3. ASSUME NEW k \in 1 .. Len(u)
      PROVE  /\ Len(w) + k \in 1 .. Len(v)
             /\ At(v, Len(w) + k, cmd, s) <=> At(u, k, cmd, s)
             /\ At(u, k, "PSH", s) => Num(v, Len(w) + k) = Num(u, k)
  <2>1. Len(w) + k \in 1 .. Len(v) /\ v[Len(w) + k] = u[k]  BY <1>1
  <2>2. At(u, k, "PSH", s) => k + 1 \in 1 .. Len(u)  BY DataBehind
  <2>3. At(u, k, "PSH", s) => v[Len(w) + (k + 1)] = u[k + 1]  BY <1>1, <2>2
  <2>4. (Len(w) + k) + 1 = Len(w) + (k + 1)  BY <1>1
  <2> QED BY <2>1, <2>3, <2>4 DEF At, Num
<1>4. ASSUME NEW i \in 1 .. Len(v)
      PROVE  i \in 1 .. Len(w) \/ \E k \in 1 .. Len(u) : i = Len(w) + k
  <2>1. CASE i <= Len(w)  BY <1>1, <2>1
  <2>2. CASE i > Len(w)
    <3>1. i - Len(w) \in 1 .. Len(u) /\ i = Len(w) + (i - Len(w))  BY <1>1, <2>2
    <3> QED BY <3>1
  <2> QED BY <1>1, <2>1, <2>2
<1>5. /\ \A i \in 1 .. Len(w) : /\ i \in 1 .. Len(v)
                                /\ At(v, i, cmd, s) <=> At(w, i, cmd, s)
                                /\ At(w, i, "PSH", s) => Num(v, i) = Num(w, i)
      /\ \A k \in 1 .. Len(u) : /\ Len(w) + k \in 1 .. Len(v)
                                /\ At(v, Len(w) + k, cmd, s) <=> At(u, k, cmd, s)
                                /\ At(u, k, "PSH", s) => Num(v, Len(w) + k) = Num(u, k)
      /\ \A i \in 1 .. Len(v) : i \in 1 .. Len(w) \/ \E k \in 1 .. Len(u) : i = Len(w) + k
  BY <1>2, <1>3, <1>4
<1> QED BY <1>5 DEF v

(* Where they are once the first k units are gone.                          *)
LEMMA MarksLeft ==
  ASSUME NEW w \in Seq(Cell), Framed(w), NEW k \in Nat, k <= Len(w), NEW cmd, NEW s
  PROVE  LET d == SubSeq(w, k + 1, Len(w)) IN
         /\ \A i \in 1 .. Len(d) : /\ i + k \in 1 .. Len(w)
                                   /\ At(d, i, cmd, s) <=> At(w, i + k, cmd, s)
                                   /\ At(d, i, "PSH", s) => Num(d, i) = Num(w, i + k)
         /\ \A i \in 1 .. Len(w) : i <= k \/ \E j \in 1 .. Len(d) : i = j + k
<1> DEFINE d == SubSeq(w, k + 1, Len(w))
<1>1. /\ Len(w) \in Nat /\ Len(d) = Len(w) - k
      /\ \A i \in 1 .. (Len(w) - k) : d[i] = w[i + k]
  BY LeftCells
<1> HIDE DEF d
<1>2. ASSUME NEW i \in 1 .. Len(d)
      PROVE  /\ i + k \in 1 .. Len(w)
             /\ At(d, i, cmd, s) <=> At(w, i + k, cmd, s)
             /\ At(d, i, "PSH", s) => Num(d, i) = Num(w, i + k)
  <2>1. i + k \in 1 .. Len(w) /\ d[i] = w[i + k]  BY <1>1
  <2>2. At(w, i + k, "PSH", s) => i + k + 1 \in 1 .. Len(w)  BY DataBehind
  <2>3. i + k + 1 \in 1 .. Len(w) => i + 1 \in 1 .. (Len(w) - k) /\ (i + 1) + k = i + k + 1
    BY <1>1
  <2>4. At(w, i + k, "PSH", s) => d[i + 1] = w[i + k + 1]  BY <1>1, <2>2, <2>3
  <2> QED BY <2>1, <2>4 DEF At, Num
<1>3. ASSUME NEW i \in 1 .. Len(w) PROVE i <= k \/ \E j \in 1 .. Len(d) : i = j + k
  <2>1. CASE i > k
    <3>1. i - k \in 1 .. Len(d) /\ i = (i - k) + k  BY <1>1, <2>1
    <3> QED BY <3>1
  <2> QED BY <2>1
<1>4. /\ \A i \in 1 .. Len(d) : /\ i + k \in 1 .. Len(w)
                                /\ At(d, i, cmd, s) <=> At(w, i + k, cmd, s)
                                /\ At(d, i, "PSH", s) => Num(d, i) = Num(w, i + k)
      /\ \A i \in 1 .. Len(w) : i <= k \/ \E j \in 1 .. Len(d) : i = j + k
  BY <1>2, <1>3
<1> QED BY <1>4 DEF d

(* In the first frame only its header counts.                               *)
LEMMA FirstMark ==
  ASSUME NEW w \in Seq(Cell), Framed(w), w # <<>>,
         NEW i, NEW cmd, cmd # "unit", NEW s, At(w, i, cmd, s), i <= w[1].len + 1
  PROVE  i = 1
<1>1. w[1].cmd # "unit" /\ Len(w) > 0 /\ w[1] \in Cell /\ Len(w) \in Nat  BY FramedLeft, LenProperties
<1>2. w[1].len \in Nat  BY <1>1 DEF Cell
<1>3. i \in 1 .. Len(w) /\ w[i].cmd # "unit"  BY DEF At
<1>4. \A j \in 2 .. (1 + w[1].len) : w[j].cmd = "unit"
  <2>1. 1 \in 1 .. Len(w)  BY <1>1
  <2>2. \A j \in (1 + 1) .. (1 + w[1].len) : w[j].cmd = "unit"  BY <1>1, <2>1 DEF Framed, Whole
  <2> QED BY <2>2
<1>5. i # 1 => i \in 2 .. (1 + w[1].len)  BY <1>2, <1>3
<1> QED BY <1>3, <1>4, <1>5

-----------------------------------------------------------------------------
(* The order of a stream's data on the way to its reader.                   *)

Unmarked(u) == \A i \in 1 .. Len(u) : u[i].cmd \notin {"SYN", "PSH", "FIN"}

(* What is written behind it: nothing of this stream, or its end.           *)
LEMMA OrderJoin ==
  ASSUME NEW w \in Seq(Cell), NEW u \in Seq(Cell), Framed(w), Framed(u),
         NEW s, NEW b \in Nat, NEW m \in Nat, InOrder(w, s, b, m),
         \A k \in 1 .. Len(u) : ~At(u, k, "PSH", s),
         Complete(w, s, b, m) \/ \A k \in 1 .. Len(u) : ~At(u, k, "FIN", s)
  PROVE  /\ InOrder(w \o u, s, b, m)
         /\ Complete(w, s, b, m) => Complete(w \o u, s, b, m)
<1> DEFINE v == w \o u
<1>1. /\ Len(v) = Len(w) + Len(u) /\ Len(w) \in Nat /\ Len(u) \in Nat  BY JoinedCells
<1>2. /\ \A i \in 1 .. Len(w) : /\ i \in 1 .. Len(v)
                                /\ At(v, i, "PSH", s) <=> At(w, i, "PSH", s)
                                /\ At(w, i, "PSH", s) => Num(v, i) = Num(w, i)
      /\ \A k \in 1 .. Len(u) : /\ Len(w) + k \in 1 .. Len(v)
                                /\ At(v, Len(w) + k, "PSH", s) <=> At(u, k, "PSH", s)
      /\ \A i \in 1 .. Len(v) : i \in 1 .. Len(w) \/ \E k \in 1 .. Len(u) : i = Len(w) + k
  BY MarksJoin
<1>3. /\ \A i \in 1 .. Len(w) : At(v, i, "FIN", s) <=> At(w, i, "FIN", s)
      /\ \A k \in 1 .. Len(u) : At(v, Len(w) + k, "FIN", s) <=> At(u, k, "FIN", s)
  BY MarksJoin
<1> HIDE DEF v
<1>4. ASSUME NEW i, NEW n, Before(w, i, s, n) PROVE Before(v, i, s, n)
  <2>1. PICK j \in 1 .. Len(w) : j < i /\ At(w, j, "PSH", s) /\ Num(w, j) = n
    BY <1>4 DEF Before
  <2> QED BY <1>2, <2>1 DEF Before
<1>5. ASSUME NEW i \in Int, i > Len(w), NEW n, Before(w, Len(w) + 1, s, n) PROVE Before(v, i, s, n)
  <2>1. PICK j \in 1 .. Len(w) : At(w, j, "PSH", s) /\ Num(w, j) = n
    BY <1>5 DEF Before
  <2>2. j < i  BY <1>1, <1>5
  <2> QED BY <1>2, <2>1, <2>2 DEF Before
<1>6. \A i \in 1 .. Len(v) : At(v, i, "PSH", s) => i \in 1 .. Len(w) /\ At(w, i, "PSH", s)
  BY <1>2
<1>7. ASSUME NEW i \in 1 .. Len(v), At(v, i, "PSH", s)
      PROVE  /\ Num(v, i) > b /\ Num(v, i) <= m
             /\ \A n \in (b + 1) .. (Num(v, i) - 1) : Before(v, i, s, n)
             /\ \A j \in 1 .. Len(v) : j < i /\ At(v, j, "PSH", s) => Num(v, j) # Num(v, i)
  <2>1. i \in 1 .. Len(w) /\ At(w, i, "PSH", s) /\ Num(v, i) = Num(w, i)  BY <1>2, <1>6, <1>7
  <2>2. /\ Num(w, i) > b /\ Num(w, i) <= m
        /\ \A n \in (b + 1) .. (Num(w, i) - 1) : Before(w, i, s, n)
        /\ \A j \in 1 .. Len(w) : j < i /\ At(w, j, "PSH", s) => Num(w, j) # Num(w, i)
    BY <2>1 DEF InOrder
  <2>3. \A j \in 1 .. Len(v) : j < i /\ At(v, j, "PSH", s) => Num(v, j) # Num(v, i)
    BY <1>2, <1>6, <2>1, <2>2
  <2> QED BY <1>4, <2>1, <2>2, <2>3
<1>8. ASSUME NEW i \in 1 .. Len(v), At(v, i, "FIN", s)
      PROVE  \A n \in (b + 1) .. m : Before(v, i, s, n)
  <2>1. CASE i \in 1 .. Len(w)
    <3>1. \A n \in (b + 1) .. m : Before(w, i, s, n)  BY <1>3, <1>8, <2>1 DEF InOrder
    <3> QED BY <1>4, <3>1
  <2>2. CASE \E k \in 1 .. Len(u) : i = Len(w) + k
    <3>1. Complete(w, s, b, m)  BY <1>3, <1>8, <2>2
    <3>2. i \in Int /\ i > Len(w)  BY <1>1, <2>2
    <3> QED BY <1>5, <3>1, <3>2 DEF Complete
  <2> QED BY <1>2, <2>1, <2>2
<1>9. Complete(w, s, b, m) => Complete(v, s, b, m)
  <2>1. Len(v) + 1 \in Int /\ Len(v) + 1 > Len(w)  BY <1>1
  <2> QED BY <1>5, <2>1 DEF Complete
<1>10. InOrder(v, s, b, m)  BY <1>7, <1>8 DEF InOrder
<1> QED BY <1>9, <1>10 DEF v

Data(s, n) == <<Header("PSH", s, 1, 0), Unit(s, n)>>

(* The two units of a data frame.                                           *)
LEMMA DataCells ==
  ASSUME NEW s \in Sids, NEW n \in Nat
  PROVE  /\ Data(s, n) \in Seq(Cell) /\ Framed(Data(s, n)) /\ Len(Data(s, n)) = 2
         /\ Num(Data(s, n), 1) = n
         /\ \A k \in 1 .. Len(Data(s, n)), cmd \in {"SYN", "PSH", "FIN"}, t \in Sids :
                At(Data(s, n), k, cmd, t) <=> k = 1 /\ cmd = "PSH" /\ t = s
<1> DEFINE h == Header("PSH", s, 1, 0)
           c == Unit(s, n)
           u == Data(s, n)
<1>1. h \in Cell /\ c \in Cell
  <2>1. s \in Nat /\ 0 \in Args /\ n \in Args /\ {"PSH", "unit"} \subseteq Cmds
    BY DEF Sids, Args, Cmds
  <2> QED BY <2>1 DEF Header, Unit, Cell
<1>2. /\ h.cmd = "PSH" /\ h.sid = s /\ h.len = 1 /\ c.cmd = "unit" /\ c.sid = s /\ c.arg = n
  BY DEF Header, Unit
<1>3. u = <<h, c>>  BY DEF Data
<1> HIDE DEF h, c, u
<1>4. u \in Seq(Cell) /\ Len(u) = 2 /\ u[1] = h /\ u[2] = c  BY <1>1, <1>3
<1>5. \A i \in 1 .. Len(u) : i = 1 \/ i = 2  BY <1>4
<1>6. Whole(u)
  <2>1. \A j \in (1 + 1) .. (1 + 1) : j = 2  OBVIOUS
  <2>2. ASSUME NEW i \in 1 .. Len(u), i = 1
        PROVE  /\ i = 1 => u[1].cmd # "unit"
               /\ u[i].cmd # "unit" =>
                   /\ i + u[i].len <= Len(u)
                   /\ \A j \in (i + 1) .. (i + u[i].len) : u[j].cmd = "unit"
                   /\ i + u[i].len < Len(u) => u[i + u[i].len + 1].cmd # "unit"
    BY <1>2, <1>4, <2>1, <2>2
  <2>3. ASSUME NEW i \in 1 .. Len(u), i = 2 PROVE u[i].cmd = "unit"  BY <1>2, <1>4, <2>3
  <2> QED BY <1>5, <2>2, <2>3 DEF Whole
<1>7. Proper(u)
  <2>1. ASSUME NEW i \in 1 .. Len(u), i = 1
        PROVE  /\ u[i].cmd \in {"SYN", "PSH", "FIN"} => u[i].sid \in Sids
               /\ u[i].cmd = "PSH" => u[i].len = 1 /\ u[i + 1].sid = u[i].sid /\ u[i + 1].arg \in Nat
               /\ u[i].cmd # "UpdatePaddingScheme"
    BY <1>2, <1>4, <2>1
  <2>2. ASSUME NEW i \in 1 .. Len(u), i = 2 PROVE u[i].cmd = "unit"  BY <1>2, <1>4, <2>2
  <2> QED BY <1>5, <2>1, <2>2 DEF Proper
<1>8. \A k \in 1 .. Len(u), cmd \in {"SYN", "PSH", "FIN"}, t \in Sids :
                At(u, k, cmd, t) <=> k = 1 /\ cmd = "PSH" /\ t = s
  BY <1>2, <1>4, <1>5 DEF At
<1>9. Num(u, 1) = n  BY <1>2, <1>4 DEF Num
<1> QED BY <1>4, <1>6, <1>7, <1>8, <1>9 DEF u, Framed

(* The next chunk is behind all the others, and no end is before it.        *)
LEMMA OrderData ==
  ASSUME NEW w \in Seq(Cell), Framed(w), NEW s \in Sids, NEW b \in Nat, NEW m \in Nat,
         InOrder(w, s, b, m), Complete(w, s, b, m), b <= m,
         \A i \in 1 .. Len(w) : ~At(w, i, "FIN", s)
  PROVE  /\ InOrder(w \o Data(s, m + 1), s, b, m + 1)
         /\ Complete(w \o Data(s, m + 1), s, b, m + 1)
<1> DEFINE u == Data(s, m + 1)
           v == w \o u
<1>0. m + 1 \in Nat  OBVIOUS
<1>1. /\ u \in Seq(Cell) /\ Framed(u) /\ Len(u) = 2 /\ Num(u, 1) = m + 1
      /\ \A k \in 1 .. Len(u), cmd \in {"SYN", "PSH", "FIN"}, t \in Sids :
             At(u, k, cmd, t) <=> k = 1 /\ cmd = "PSH" /\ t = s
  BY <1>0, DataCells
<1> HIDE DEF u
<1>2. Len(v) = Len(w) + 2 /\ Len(w) \in Nat
  <2>1. Len(v) = Len(w) + Len(u) /\ Len(w) \in Nat  BY <1>1, JoinedCells
  <2> QED BY <1>1, <2>1
<1>3. /\ \A i \in 1 .. Len(w) : /\ i \in 1 .. Len(v)
                                /\ At(v, i, "PSH", s) <=> At(w, i, "PSH", s)
                                /\ At(w, i, "PSH", s) => Num(v, i) = Num(w, i)
      /\ \A k \in 1 .. Len(u) : /\ Len(w) + k \in 1 .. Len(v)
                                /\ At(v, Len(w) + k, "PSH", s) <=> At(u, k, "PSH", s)
                                /\ At(u, k, "PSH", s) => Num(v, Len(w) + k) = Num(u, k)
      /\ \A i \in 1 .. Len(v) : i \in 1 .. Len(w) \/ \E k \in 1 .. Len(u) : i = Len(w) + k
  BY <1>1, MarksJoin
<1>4. /\ \A i \in 1 .. Len(w) : At(v, i, "FIN", s) <=> At(w, i, "FIN", s)
      /\ \A k \in 1 .. Len(u) : At(v, Len(w) + k, "FIN", s) <=> At(u, k, "FIN", s)
  BY <1>1, MarksJoin
<1> HIDE DEF v
<1> DEFINE p == Len(w) + 1
<1>5. p \in 1 .. Len(v) /\ At(v, p, "PSH", s) /\ Num(v, p) = m + 1
  BY <1>1, <1>3
<1>6. \A i \in 1 .. Len(v) : /\ At(v, i, "PSH", s) => i = p \/ (i \in 1 .. Len(w) /\ At(w, i, "PSH", s))
                             /\ ~At(v, i, "FIN", s)
  BY <1>1, <1>3, <1>4
<1>7. ASSUME NEW i, NEW n, Before(w, i, s, n) PROVE Before(v, i, s, n)
  <2>1. PICK j \in 1 .. Len(w) : j < i /\ At(w, j, "PSH", s) /\ Num(w, j) = n
    BY <1>7 DEF Before
  <2> QED BY <1>3, <2>1 DEF Before
<1>8. \A n \in (b + 1) .. m : Before(v, p, s, n)  BY <1>7 DEF Complete
<1>9. \A j \in 1 .. Len(w) : At(w, j, "PSH", s) => Num(w, j) > b /\ Num(w, j) <= m /\ j < p /\ j <= Len(w)
  BY <1>2 DEF InOrder
<1>10. ASSUME NEW i \in 1 .. Len(v), At(v, i, "PSH", s)
      PROVE  /\ Num(v, i) > b /\ Num(v, i) <= m + 1
             /\ \A n \in (b + 1) .. (Num(v, i) - 1) : Before(v, i, s, n)
             /\ \A j \in 1 .. Len(v) : j < i /\ At(v, j, "PSH", s) => Num(v, j) # Num(v, i)
  <2>1. CASE i = p
    <3>1. Num(v, i) = m + 1 /\ (m + 1) - 1 = m  BY <1>5, <2>1
    <3>2. \A j \in 1 .. Len(v) : j < i /\ At(v, j, "PSH", s) => Num(v, j) # Num(v, i)
      <4> SUFFICES ASSUME NEW j \in 1 .. Len(v), j < i, At(v, j, "PSH", s)
                   PROVE  Num(v, j) # Num(v, i)
        OBVIOUS
      <4>1. j # p  BY <2>1
      <4>2. j \in 1 .. Len(w) /\ At(w, j, "PSH", s)  BY <1>6, <4>1
      <4>3. Num(v, j) = Num(w, j) /\ Num(w, j) <= m /\ Num(w, j) \in Nat  BY <1>3, <1>9, <4>2, DataBehind
      <4> QED BY <3>1, <4>3
    <3>3. \A n \in (b + 1) .. (Num(v, i) - 1) : Before(v, i, s, n)  BY <1>8, <2>1, <3>1
    <3>4. Num(v, i) > b /\ Num(v, i) <= m + 1  BY <3>1
    <3> QED BY <3>2, <3>3, <3>4
  <2>2. CASE i # p
    <3>1. i \in 1 .. Len(w) /\ At(w, i, "PSH", s) /\ Num(v, i) = Num(w, i)  BY <1>3, <1>6, <1>10, <2>2
    <3>2. /\ Num(w, i) > b /\ Num(w, i) <= m
          /\ \A n \in (b + 1) .. (Num(w, i) - 1) : Before(w, i, s, n)
          /\ \A j \in 1 .. Len(w) : j < i /\ At(w, j, "PSH", s) => Num(w, j) # Num(w, i)
      BY <3>1 DEF InOrder
    <3>3. \A j \in 1 .. Len(v) : j < i /\ At(v, j, "PSH", s) => j \in 1 .. Len(w) /\ At(w, j, "PSH", s)
      <4>1. i < p  BY <1>9, <3>1
      <4> QED BY <1>6, <3>1, <4>1
    <3>4. \A j \in 1 .. Len(v) : j < i /\ At(v, j, "PSH", s) => Num(v, j) # Num(v, i)
      BY <1>3, <3>1, <3>2, <3>3
    <3>5. Num(w, i) <= m + 1
      <4>1. Num(w, i) \in Nat  BY <3>1, DataBehind
      <4> QED BY <3>2, <4>1
    <3> QED BY <1>7, <3>1, <3>2, <3>4, <3>5
  <2> QED BY <2>1, <2>2
<1>11. InOrder(v, s, b, m + 1)  BY <1>6, <1>10 DEF InOrder
<1>12. ASSUME NEW n \in (b + 1) .. (m + 1) PROVE Before(v, Len(v) + 1, s, n)
  <2>1. p < Len(v) + 1  BY <1>2
  <2>2. CASE n = m + 1  BY <1>5, <2>1, <2>2 DEF Before
  <2>3. CASE n # m + 1
    <3>1. n \in (b + 1) .. m  BY <2>3
    <3>2. PICK j \in 1 .. Len(v) : j < p /\ At(v, j, "PSH", s) /\ Num(v, j) = n
      BY <1>8, <3>1 DEF Before
    <3>3. j < Len(v) + 1  BY <1>2
    <3> QED BY <3>2, <3>3 DEF Before
  <2> QED BY <2>2, <2>3
<1> QED BY <1>11, <1>12 DEF Complete, v, u

(* A frame that is nothing to this stream is taken off.                     *)
LEMMA OrderLeft ==
  ASSUME NEW w \in Seq(Cell), Framed(w), w # <<>>, NEW s, NEW b \in Nat, NEW m \in Nat,
         InOrder(w, s, b, m), ~At(w, 1, "PSH", s)
  PROVE  LET d == SubSeq(w, w[1].len + 2, Len(w)) IN
         InOrder(d, s, b, m) /\ (Complete(w, s, b, m) => Complete(d, s, b, m))
<1>1. w[1] \in Cell /\ w[1].len + 1 <= Len(w) /\ Len(w) \in Nat  BY FramedLeft, LenProperties
<1>2. PICK k \in Nat : k = w[1].len + 1  BY <1>1 DEF Cell
<1>3. k + 1 = w[1].len + 2 /\ k <= Len(w)  BY <1>1, <1>2 DEF Cell
<1> DEFINE d == SubSeq(w, k + 1, Len(w))
<1>4. /\ \A i \in 1 .. Len(d) : /\ i + k \in 1 .. Len(w)
                                /\ At(d, i, "PSH", s) <=> At(w, i + k, "PSH", s)
                                /\ At(d, i, "PSH", s) => Num(d, i) = Num(w, i + k)
      /\ \A i \in 1 .. Len(w) : i <= k \/ \E j \in 1 .. Len(d) : i = j + k
  BY <1>3, MarksLeft
<1>5. \A i \in 1 .. Len(d) : At(d, i, "FIN", s) <=> At(w, i + k, "FIN", s)
  BY <1>3, MarksLeft
<1>6. Len(d) \in Nat /\ Len(d) = Len(w) - k
  <2>1. Len(d) = Len(w) - k  BY <1>3, LeftCells
  <2> QED BY <1>1, <1>3, <2>1
<1> HIDE DEF d
<1>7. ASSUME NEW j \in 1 .. Len(w), At(w, j, "PSH", s)
      PROVE  \E l \in 1 .. Len(d) : j = l + k
  <2>1. ~(j <= k)  BY <1>1, <1>2, <1>7, FirstMark
  <2> QED BY <1>4, <2>1
<1>8. ASSUME NEW i \in Int, NEW n, Before(w, i + k, s, n) PROVE Before(d, i, s, n)
  <2>1. PICK j \in 1 .. Len(w) : j < i + k /\ At(w, j, "PSH", s) /\ Num(w, j) = n
    BY <1>8 DEF Before
  <2>2. PICK l \in 1 .. Len(d) : j = l + k  BY <1>7, <2>1
  <2>3. l < i  BY <2>1, <2>2
  <2> QED BY <1>4, <2>1, <2>2, <2>3 DEF Before
<1>9. ASSUME NEW i \in 1 .. Len(d), At(d, i, "PSH", s)
      PROVE  /\ Num(d, i) > b /\ Num(d, i) <= m
             /\ \A n \in (b + 1) .. (Num(d, i) - 1) : Before(d, i, s, n)
             /\ \A j \in 1 .. Len(d) : j < i /\ At(d, j, "PSH", s) => Num(d, j) # Num(d, i)
  <2>1. i + k \in 1 .. Len(w) /\ At(w, i + k, "PSH", s) /\ Num(d, i) = Num(w, i + k)  BY <1>4, <1>9
  <2>2. /\ Num(w, i + k) > b /\ Num(w, i + k) <= m
        /\ \A n \in (b + 1) .. (Num(w, i + k) - 1) : Before(w, i + k, s, n)
        /\ \A j \in 1 .. Len(w) : j < i + k /\ At(w, j, "PSH", s) => Num(w, j) # Num(w, i + k)
    BY <2>1 DEF InOrder
  <2>3. \A j \in 1 .. Len(d) : j < i => j + k < i + k  OBVIOUS
  <2> QED BY <1>4, <1>8, <2>1, <2>2, <2>3
<1>10. ASSUME NEW i \in 1 .. Len(d), At(d, i, "FIN", s)
       PROVE  \A n \in (b + 1) .. m : Before(d, i, s, n)
  <2>1. i + k \in 1 .. Len(w) /\ At(w, i + k, "FIN", s)  BY <1>4, <1>5, <1>10
  <2>2. \A n \in (b + 1) .. m : Before(w, i + k, s, n)  BY <2>1 DEF InOrder
  <2> QED BY <1>8, <2>2
<1>11. InOrder(d, s, b, m)  BY <1>9, <1>10 DEF InOrder
<1>12. Complete(w, s, b, m) => Complete(d, s, b, m)
  <2>1. Len(d) + 1 \in Int /\ (Len(d) + 1) + k = Len(w) + 1  BY <1>1, <1>6
  <2> QED BY <1>8, <2>1 DEF Complete
<1> QED BY <1>3, <1>11, <1>12 DEF d

(* The frame that is taken off is the next chunk.                           *)
LEMMA OrderTake ==
  ASSUME NEW w \in Seq(Cell), Framed(w), w # <<>>, NEW s, NEW b \in Nat, NEW m \in Nat,
         InOrder(w, s, b, m), At(w, 1, "PSH", s)
  PROVE  LET d == SubSeq(w, w[1].len + 2, Len(w)) IN
         /\ Num(w, 1) = b + 1 /\ b < m
         /\ InOrder(d, s, b + 1, m) /\ (Complete(w, s, b, m) => Complete(d, s, b + 1, m))
<1>1. w[1] \in Cell /\ w[1].len + 1 <= Len(w) /\ Len(w) \in Nat  BY FramedLeft, LenProperties
<1>2. PICK k \in Nat : k = w[1].len + 1  BY <1>1 DEF Cell
<1>3. k + 1 = w[1].len + 2 /\ k <= Len(w)  BY <1>1, <1>2 DEF Cell
<1> DEFINE d == SubSeq(w, k + 1, Len(w))
<1>4. /\ \A i \in 1 .. Len(d) : /\ i + k \in 1 .. Len(w)
                                /\ At(d, i, "PSH", s) <=> At(w, i + k, "PSH", s)
                                /\ At(d, i, "PSH", s) => Num(d, i) = Num(w, i + k)
      /\ \A i \in 1 .. Len(w) : i <= k \/ \E j \in 1 .. Len(d) : i = j + k
  BY <1>3, MarksLeft
<1>5. \A i \in 1 .. Len(d) : At(d, i, "FIN", s) <=> At(w, i + k, "FIN", s)
  BY <1>3, MarksLeft
<1>6. Len(d) \in Nat /\ Len(d) = Len(w) - k
  <2>1. Len(d) = Len(w) - k  BY <1>3, LeftCells
  <2> QED BY <1>1, <1>3, <2>1
<1> HIDE DEF d
<1>7. ASSUME NEW j \in 1 .. Len(w), At(w, j, "PSH", s)
      PROVE  j = 1 \/ \E l \in 1 .. Len(d) : j = l + k
  <2>1. j <= k => j = 1  BY <1>1, <1>2, <1>7, FirstMark
  <2> QED BY <1>4, <2>1
<1>a. 1 \in 1 .. Len(w) /\ Num(w, 1) \in Nat  BY <1>1, DataBehind DEF Cell
<1>8. /\ Num(w, 1) > b /\ Num(w, 1) <= m
      /\ \A n \in (b + 1) .. (Num(w, 1) - 1) : Before(w, 1, s, n)
  BY <1>a DEF InOrder
<1>9. Num(w, 1) = b + 1 /\ b < m
  <2>1. \A n : ~Before(w, 1, s, n)
    <3>1. \A j \in 1 .. Len(w) : ~(j < 1)  OBVIOUS
    <3> QED BY <3>1 DEF Before
  <2>2. ~(Num(w, 1) > b + 1)
    <3>1. Num(w, 1) > b + 1 => b + 1 \in (b + 1) .. (Num(w, 1) - 1)  BY <1>a
    <3> QED BY <1>8, <2>1, <3>1
  <2> QED BY <1>8, <1>a, <2>2
<1>b. \A i \in 1 .. Len(d) : 1 < i + k
  <2>1. k >= 1  BY <1>1, <1>2 DEF Cell
  <2> QED BY <2>1
<1>10. ASSUME NEW i \in Int, NEW n, n # b + 1, Before(w, i + k, s, n) PROVE Before(d, i, s, n)
  <2>1. PICK j \in 1 .. Len(w) : j < i + k /\ At(w, j, "PSH", s) /\ Num(w, j) = n
    BY <1>10 DEF Before
  <2>2. j # 1  BY <1>9, <1>10, <2>1
  <2>3. PICK l \in 1 .. Len(d) : j = l + k  BY <1>7, <2>1, <2>2
  <2>4. l < i  BY <2>1, <2>3
  <2> QED BY <1>4, <2>1, <2>3, <2>4 DEF Before
<1>11. ASSUME NEW i \in 1 .. Len(d), At(d, i, "PSH", s)
      PROVE  /\ Num(d, i) > b + 1 /\ Num(d, i) <= m
             /\ \A n \in ((b + 1) + 1) .. (Num(d, i) - 1) : Before(d, i, s, n)
             /\ \A j \in 1 .. Len(d) : j < i /\ At(d, j, "PSH", s) => Num(d, j) # Num(d, i)
  <2>1. i + k \in 1 .. Len(w) /\ At(w, i + k, "PSH", s) /\ Num(d, i) = Num(w, i + k)  BY <1>4, <1>11
  <2>2. /\ Num(w, i + k) > b /\ Num(w, i + k) <= m
        /\ \A n \in (b + 1) .. (Num(w, i + k) - 1) : Before(w, i + k, s, n)
        /\ \A j \in 1 .. Len(w) : j < i + k /\ At(w, j, "PSH", s) => Num(w, j) # Num(w, i + k)
    BY <2>1 DEF InOrder
  <2>3. \A j \in 1 .. Len(d) : j < i => j + k < i + k  OBVIOUS
  <2>4. Num(w, i + k) # b + 1  BY <1>9, <1>a, <1>b, <2>2
  <2>5. Num(w, i + k) \in Nat  BY <2>1, DataBehind
  <2>6. Num(d, i) > b + 1  BY <2>1, <2>2, <2>4, <2>5
  <2>7. \A n \in ((b + 1) + 1) .. (Num(d, i) - 1) :
            n \in (b + 1) .. (Num(w, i + k) - 1) /\ n # b + 1
    BY <2>1, <2>5
  <2>8. \A n \in ((b + 1) + 1) .. (Num(d, i) - 1) : Before(d, i, s, n)  BY <1>10, <2>2, <2>7
  <2> QED BY <1>4, <2>1, <2>2, <2>3, <2>6, <2>8
<1>c. \A n \in ((b + 1) + 1) .. m : n \in (b + 1) .. m /\ n # b + 1  OBVIOUS
<1>12. ASSUME NEW i \in 1 .. Len(d), At(d, i, "FIN", s)
       PROVE  \A n \in ((b + 1) + 1) .. m : Before(d, i, s, n)
  <2>1. i + k \in 1 .. Len(w) /\ At(w, i + k, "FIN", s)  BY <1>4, <1>5, <1>12
  <2>2. \A n \in (b + 1) .. m : Before(w, i + k, s, n)  BY <2>1 DEF InOrder
  <2> QED BY <1>10, <1>c, <2>2
<1>13. InOrder(d, s, b + 1, m)  BY <1>11, <1>12 DEF InOrder
<1>14. Complete(w, s, b, m) => Complete(d, s, b + 1, m)
  <2>1. Len(d) + 1 \in Int /\ (Len(d) + 1) + k = Len(w) + 1  BY <1>1, <1>6
  <2> QED BY <1>10, <1>c, <2>1 DEF Complete
<1> QED BY <1>3, <1>9, <1>13, <1>14 DEF d

(* An end that arrives has nothing before it.                               *)
LEMMA OrderEnd ==
  ASSUME NEW w \in Seq(Cell), NEW s, NEW b \in Nat, NEW m \in Nat,
         InOrder(w, s, b, m), At(w, 1, "FIN", s)
  PROVE  m <= b
<1>1. \A n : ~Before(w, 1, s, n)
  <2>1. \A j \in 1 .. Len(w) : ~(j < 1)  BY LenProperties
  <2> QED BY <2>1 DEF Before
<1>2. \A n \in (b + 1) .. m : Before(w, 1, s, n)  BY DEF InOrder, At
<1>3. b < m => b + 1 \in (b + 1) .. m  OBVIOUS
<1> QED BY <1>1, <1>2, <1>3

(* With no data and no end on the way there is nothing out of order.        *)
LEMMA OrderNone ==
  ASSUME NEW w, NEW s, NEW b, NEW m,
         \A i \in 1 .. Len(w) : w[i].cmd \notin {"PSH", "FIN"}
  PROVE  InOrder(w, s, b, m)
BY DEF InOrder, At

-----------------------------------------------------------------------------
(* Padding adds whole frames of waste behind what is sent, and nothing      *)
(* else.                                                                    *)

Silent(z) == z \in Seq(Cell) /\ Framed(z) /\ Unmarked(z)

(* Padding behind padding.                                                  *)
LEMMA SilentJoin ==
  ASSUME NEW y, NEW z, Silent(y), Silent(z)
  PROVE  Silent(y \o z)
<1>1. y \in Seq(Cell) /\ z \in Seq(Cell) /\ Framed(y) /\ Framed(z)  BY DEF Silent
<1>2. y \o z \in Seq(Cell) /\ Framed(y \o z)  BY <1>1, JoinedCells, FramedJoin
<1>3. /\ \A i \in 1 .. Len(y) : (y \o z)[i] = y[i]
      /\ \A i \in 1 .. Len(y \o z) : i \in 1 .. Len(y) \/ (i > Len(y) /\ i - Len(y) \in 1 .. Len(z)
                                                         /\ (y \o z)[i] = z[i - Len(y)])
  BY <1>1, JoinedCells
<1>4. Unmarked(y \o z)  BY <1>3 DEF Unmarked, Silent
<1> QED BY <1>2, <1>4 DEF Silent

(* No padding.                                                              *)
LEMMA SilentEmpty == Silent(<<>>)
BY DEF Silent, Framed, Whole, Proper, Unmarked

(* A size that fits the field is written as it is.                          *)
LEMMA ModSmall ==
  ASSUME NEW m \in Nat, NEW n \in Nat, n < m
  PROVE  n % m = n
OBVIOUS

(* A waste frame of such a size is one whole frame.                         *)
LEMMA WasteSilent ==
  ASSUME NEW n \in Nat, n > 0, n < FieldMod
  PROVE  Silent(Waste(n))
<1> DEFINE h == Header("Waste", 0, n, 0)
           c == Unit(0, 0)
           u == Waste(n)
           p == [i \in 1 .. n |-> c]
<1>1. h \in Cell /\ c \in Cell
  <2>1. 0 \in Args /\ {"Waste", "unit"} \subseteq Cmds  BY DEF Args, Cmds
  <2> QED BY <2>1 DEF Header, Unit, Cell
<1>2. h.cmd = "Waste" /\ h.len = n /\ c.cmd = "unit"  BY DEF Header, Unit
<1>3. u = <<h>> \o p
  <2>1. FieldMod \in Nat  BY MuxAssumption
  <2>2. n % FieldMod = n  BY <2>1, ModSmall
  <2> QED BY <2>2 DEF Waste
<1> HIDE DEF h, c, u
<1>4. p \in Seq(Cell) /\ Len(p) = n /\ \A i \in 1 .. n : p[i] = c  BY <1>1, IsASeq
<1> HIDE DEF p
<1>5. <<h>> \in Seq(Cell) /\ Len(<<h>>) = 1 /\ <<h>>[1] = h  BY <1>1
<1>6. /\ u \in Seq(Cell) /\ Len(u) = Len(<<h>>) + Len(p)
      /\ \A i \in 1 .. Len(<<h>>) : u[i] = <<h>>[i]
      /\ \A i \in 1 .. Len(u) : i \in 1 .. Len(<<h>>) \/ (i > Len(<<h>>) /\ i - Len(<<h>>) \in 1 .. Len(p)
                                                           /\ u[i] = p[i - Len(<<h>>)])
  BY <1>3, <1>4, <1>5, JoinedCells
<1>7. Len(u) = n + 1 /\ u[1] = h /\ \A i \in 2 .. Len(u) : u[i] = c
  <2>1. Len(u) = n + 1 /\ u[1] = h  BY <1>4, <1>5, <1>6
  <2>2. ASSUME NEW i \in 2 .. Len(u) PROVE u[i] = c
    <3>1. i \in 1 .. Len(u) /\ ~(i \in 1 .. Len(<<h>>))  BY <1>5, <2>1
    <3>2. i - Len(<<h>>) \in 1 .. Len(p) /\ u[i] = p[i - Len(<<h>>)]  BY <1>6, <3>1
    <3> QED BY <1>4, <3>2
  <2> QED BY <2>1, <2>2
<1>8. \A i \in 1 .. Len(u) : (i = 1 /\ u[i] = h) \/ (i \in 2 .. Len(u) /\ u[i] = c)
  BY <1>7
<1>9. Unmarked(u)  BY <1>2, <1>8 DEF Unmarked
<1>10. Proper(u)  BY <1>2, <1>8 DEF Proper
<1>11. Whole(u)
  <2>1. \A j \in (1 + 1) .. (1 + n) : j \in 2 .. Len(u)  BY <1>7
  <2>2. ASSUME NEW i \in 1 .. Len(u), i = 1
        PROVE  /\ i = 1 => u[1].cmd # "unit"
               /\ u[i].cmd # "unit" =>
                   /\ i + u[i].len <= Len(u)
                   /\ \A j \in (i + 1) .. (i + u[i].len) : u[j].cmd = "unit"
                   /\ i + u[i].len < Len(u) => u[i + u[i].len + 1].cmd # "unit"
    BY <1>2, <1>7, <2>1, <2>2
  <2>3. ASSUME NEW i \in 1 .. Len(u), i # 1 PROVE u[i].cmd = "unit"  BY <1>2, <1>8, <2>3
  <2> QED BY <2>2, <2>3 DEF Whole
<1> QED BY <1>6, <1>9, <1>10, <1>11 DEF u, Silent, Framed

(* What lockedWrite's loop has written and left to write.                   *)
Written(b, acc) ==
    /\ acc \in [b : Seq(Cell), out : Seq(Cell), halt : BOOLEAN]
    /\ \/ acc.out \o acc.b = b
       \/ acc.b = <<>> /\ \E z : Silent(z) /\ acc.out = b \o z

(* The grouping of a concatenation does not matter.                         *)
LEMMA CellsAssociative ==
  ASSUME NEW o \in Seq(Cell), NEW x \in Seq(Cell), NEW y \in Seq(Cell)
  PROVE  (o \o x) \o y = o \o (x \o y)
BY ConcatAssociative

(* A turn of the loop sends the write in pieces and only waste behind it.   *)
LEMMA PadTurn ==
  ASSUME NEW b \in Seq(Cell), NEW acc, Written(b, acc), NEW l \in Int,
         l \in CheckMark .. (FieldMod - 1)
  PROVE  Written(b, PadStep(acc, l))
<1>1. acc.b \in Seq(Cell) /\ acc.out \in Seq(Cell) /\ acc.halt \in BOOLEAN /\ Len(acc.b) \in Nat
  BY LenProperties DEF Written
<1>2. FieldMod \in Nat  BY MuxAssumption
<1>3. CASE acc.halt \/ l = Skipped
  <2>1. PadStep(acc, l) = acc  BY <1>3 DEF PadStep, CheckMark, Skipped
  <2> QED BY <2>1
<1>4. CASE ~acc.halt /\ l = CheckMark
  <2>1. PadStep(acc, l) = [acc EXCEPT !.halt = (Len(acc.b) = 0)]
    BY <1>4 DEF PadStep, CheckMark, Skipped
  <2> QED BY <2>1 DEF Written
<1>5. CASE ~acc.halt /\ l > 0 /\ Len(acc.b) > l
  <2> DEFINE x == SubSeq(acc.b, 1, l)
             y == SubSeq(acc.b, l + 1, Len(acc.b))
  <2>1. PadStep(acc, l) = [acc EXCEPT !.out = acc.out \o x, !.b = y]
    BY <1>1, <1>5 DEF PadStep, CheckMark, Skipped
  <2>2. x \in Seq(Cell) /\ y \in Seq(Cell) /\ x \o y = acc.b
    <3>1. l \in Nat /\ l <= Len(acc.b)  BY <1>1, <1>5
    <3>2. y \in Seq(Cell)  BY <1>1, <3>1, LeftCells
    <3>3. x \in Seq(Cell)
      <4>1. \A i \in 1 .. l : acc.b[i] \in Cell  BY <1>1, <3>1, ElementOfSeq
      <4> QED BY <1>1, <3>1, <4>1, SubSeqProperties
    <3>4. x \o y = SubSeq(acc.b, 1, Len(acc.b))
      <4>1. /\ 1 \in 1 .. Len(acc.b) + 1 /\ l \in 1 - 1 .. Len(acc.b)
            /\ Len(acc.b) \in l .. Len(acc.b)
        BY <1>1, <3>1
      <4> QED BY <1>1, <4>1, ConcatAdjacentSubSeq
    <3>5. SubSeq(acc.b, 1, Len(acc.b)) = acc.b  BY <1>1, SubSeqFull
    <3> QED BY <3>2, <3>3, <3>4, <3>5
  <2> HIDE DEF x, y
  <2>3. acc.b # <<>>  BY <1>5, <1>1
  <2>4. acc.out \o acc.b = b  BY <2>3 DEF Written
  <2>5. (acc.out \o x) \o y = b
    <3>1. (acc.out \o x) \o y = acc.out \o (x \o y)  BY <1>1, <2>2, CellsAssociative
    <3> QED BY <1>1, <2>2, <2>4, <3>1
  <2>6. acc.out \o x \in Seq(Cell)  BY <1>1, <2>2, ConcatProperties
  <2>7. acc \in [b : Seq(Cell), out : Seq(Cell), halt : BOOLEAN]  BY DEF Written
  <2>8. PadStep(acc, l) = [b |-> y, out |-> acc.out \o x, halt |-> acc.halt]  BY <2>1, <2>7
  <2> QED BY <1>1, <2>2, <2>5, <2>6, <2>8 DEF Written
<1>6. CASE ~acc.halt /\ l > 0 /\ Len(acc.b) \in 1 .. l
  <2> DEFINE rest == l - Len(acc.b) - HeaderSize
             z == IF rest > 0 THEN Waste(rest) ELSE <<>>
  <2>1. PadStep(acc, l) = [acc EXCEPT !.out = acc.out \o acc.b \o z, !.b = <<>>]
    BY <1>1, <1>6 DEF PadStep, CheckMark, Skipped
  <2>2. Silent(z)
    <3>1. rest > 0 => rest \in Nat /\ rest < FieldMod  BY <1>1, <1>2, <1>6 DEF HeaderSize
    <3> QED BY <3>1, WasteSilent, SilentEmpty
  <2> HIDE DEF z
  <2>3. acc.b # <<>>  BY <1>6, <1>1
  <2>4. acc.out \o acc.b = b  BY <2>3 DEF Written
  <2>5. b \o z \in Seq(Cell)  BY <2>2, ConcatProperties DEF Silent
  <2>6. acc \in [b : Seq(Cell), out : Seq(Cell), halt : BOOLEAN]  BY DEF Written
  <2>7. PadStep(acc, l) = [b |-> <<>>, out |-> b \o z, halt |-> acc.halt]  BY <2>1, <2>4, <2>6
  <2>8. <<>> \in Seq(Cell)  OBVIOUS
  <2>9. PICK new : new = PadStep(acc, l)  OBVIOUS
  <2>10. /\ new \in [b : Seq(Cell), out : Seq(Cell), halt : BOOLEAN]
         /\ new.b = <<>> /\ new.out = b \o z
    BY <1>1, <2>5, <2>7, <2>8, <2>9
  <2> QED BY <2>2, <2>9, <2>10 DEF Written
<1>7. CASE ~acc.halt /\ l > 0 /\ Len(acc.b) = 0
  <2>1. PadStep(acc, l) = [acc EXCEPT !.out = acc.out \o Waste(l)]
    BY <1>1, <1>7 DEF PadStep, CheckMark, Skipped
  <2>2. acc.b = <<>>  BY <1>1, <1>7, EmptySeq
  <2>3. Silent(Waste(l))  BY <1>2, <1>7, WasteSilent
  <2>4. PICK z : Silent(z) /\ acc.out = b \o z
    <3>1. CASE acc.out \o acc.b = b
      <4>1. acc.out = b \o <<>>  BY <1>1, <2>2, <3>1, ConcatEmptySeq
      <4> QED BY <4>1, SilentEmpty
    <3> QED BY <3>1 DEF Written
  <2>5. acc.out \o Waste(l) = b \o (z \o Waste(l))  BY <2>3, <2>4, ConcatAssociative DEF Silent
  <2>6. Silent(z \o Waste(l))  BY <2>3, <2>4, SilentJoin
  <2>7. acc.out \o Waste(l) \in Seq(Cell)  BY <1>1, <2>3, ConcatProperties DEF Silent
  <2>8. acc \in [b : Seq(Cell), out : Seq(Cell), halt : BOOLEAN]  BY DEF Written
  <2>9. PadStep(acc, l) = [b |-> acc.b, out |-> acc.out \o Waste(l), halt |-> acc.halt]
    BY <2>1, <2>8
  <2>10. PICK new : new = PadStep(acc, l)  OBVIOUS
  <2>11. /\ new \in [b : Seq(Cell), out : Seq(Cell), halt : BOOLEAN]
         /\ new.b = <<>> /\ new.out = b \o (z \o Waste(l))
    BY <1>1, <2>2, <2>5, <2>7, <2>9, <2>10
  <2> QED BY <2>6, <2>10, <2>11 DEF Written
<1> QED BY <1>1, <1>3, <1>4, <1>5, <1>6, <1>7 DEF CheckMark, Skipped

(* Every set of numbers has a least one.                                    *)
LEMMA LeastNumber ==
  ASSUME NEW T \in SUBSET Nat, T # {}
  PROVE  \E x \in T : \A y \in T : x <= y
<1> DEFINE R == OpToRel(<, Nat)
<1>1. IsWellFoundedOn(R, Nat)  BY NatLessThanWellFounded
<1>2. \A x, y \in Nat : x < y => <<x, y>> \in R  BY DEF OpToRel
<1> HIDE DEF R
<1>3. PICK x \in T : \A y \in T : ~ (<<y, x>> \in R)  BY <1>1, WFMin
<1>4. ASSUME NEW y \in T PROVE x <= y
  <2>1. ~(y < x)  BY <1>2, <1>3
  <2>2. x \in Nat /\ y \in Nat  OBVIOUS
  <2> QED BY <2>1, <2>2
<1> QED BY <1>4

(* The loop's turns exist for every number of sizes: a first number of      *)
(* turns without them would be one more than a number with them.            *)
Turns(b, sizes, k, g) ==
    g = [i \in 0 .. k |->
            IF i = 0 THEN {[b |-> b, out |-> <<>>, halt |-> FALSE]}
            ELSE PadSteps(g[i - 1], sizes[i])]

(* The loop has a result for every number of sizes.                         *)
LEMMA TurnsExist ==
  ASSUME NEW b, NEW sizes, NEW n \in Nat
  PROVE  \E g : Turns(b, sizes, n, g)
<1> DEFINE T == {k \in Nat : ~\E g : Turns(b, sizes, k, g)}
           first == {[b |-> b, out |-> <<>>, halt |-> FALSE]}
<1>1. SUFFICES ASSUME T # {} PROVE FALSE  OBVIOUS
<1>2. PICK k \in T : \A j \in T : k <= j  BY <1>1, LeastNumber
<1>3. k # 0
  <2> DEFINE g == [i \in 0 .. 0 |-> first]
  <2>1. \A i \in 0 .. 0 : i = 0  OBVIOUS
  <2>2. g = [i \in 0 .. 0 |-> IF i = 0 THEN first
                              ELSE PadSteps(g[i - 1], sizes[i])]
    BY <2>1
  <2>3. Turns(b, sizes, 0, g)  BY <2>2 DEF Turns
  <2> QED BY <2>3
<1>4. k \in Nat /\ k - 1 \in Nat /\ ~(k <= k - 1)  BY <1>3
<1>5. k - 1 \notin T  BY <1>2, <1>4
<1>6. PICK g : Turns(b, sizes, k - 1, g)  BY <1>4, <1>5
<1> DEFINE h == [i \in 0 .. k |->
                    IF i = k THEN PadSteps(g[k - 1], sizes[k]) ELSE g[i]]
<1>7. \A i \in 0 .. (k - 1) : g[i] = IF i = 0 THEN first
                                      ELSE PadSteps(g[i - 1], sizes[i])
  BY <1>6 DEF Turns
<1>8. ASSUME NEW i \in 0 .. k
      PROVE  h[i] = IF i = 0 THEN first ELSE PadSteps(h[i - 1], sizes[i])
  <2>1. CASE i = 0
    <3>1. 0 \in 0 .. (k - 1) /\ 0 # k  BY <1>3, <1>4
    <3>2. g[0] = first  BY <1>7, <3>1
    <3> QED BY <2>1, <3>1, <3>2
  <2>2. CASE i # 0 /\ i # k
    <3>1. i \in 0 .. (k - 1) /\ i - 1 \in 0 .. k /\ i - 1 # k  BY <1>4, <2>2
    <3>2. h[i] = g[i] /\ h[i - 1] = g[i - 1]  BY <2>2, <3>1
    <3>3. g[i] = PadSteps(g[i - 1], sizes[i])  BY <1>7, <2>2, <3>1
    <3> QED BY <2>2, <3>2, <3>3
  <2>3. CASE i = k
    <3>1. k - 1 \in 0 .. k /\ k - 1 # k  BY <1>4
    <3>2. h[k - 1] = g[k - 1]  BY <3>1
    <3> QED BY <1>3, <2>3, <3>2
  <2> QED BY <2>1, <2>2, <2>3
<1>9. h = [i \in 0 .. k |-> h[i]]  OBVIOUS
<1> HIDE DEF h
<1>10. h = [i \in 0 .. k |-> IF i = 0 THEN first
                              ELSE PadSteps(h[i - 1], sizes[i])]
  BY <1>8, <1>9
<1>11. Turns(b, sizes, k, h)  BY <1>10 DEF Turns
<1> QED BY <1>2, <1>11

(* A padded write is the write, then waste.                                 *)
LEMMA PaddedSilent ==
  ASSUME NEW b \in Seq(Cell), NEW sizes, Len(sizes) \in Nat,
         \A i \in 1 .. Len(sizes) : sizes[i] \subseteq CheckMark .. (FieldMod - 1),
         NEW u \in Padded(b, sizes)
  PROVE  \E z : Silent(z) /\ u = b \o z
<1> DEFINE n == Len(sizes)
           start == [b |-> b, out |-> <<>>, halt |-> FALSE]
           G(g) == g = [i \in 0 .. n |->
                           IF i = 0 THEN {start}
                           ELSE PadSteps(g[i - 1], sizes[i])]
           turn == CHOOSE g : G(g)
<1>1. G(turn)
  <2>1. PICK g : Turns(b, sizes, n, g)  BY TurnsExist
  <2>2. G(g)  BY <2>1 DEF Turns
  <2> QED BY <2>2
<1>2. Padded(b, sizes) = {end.out \o end.b : end \in turn[n]}  BY DEF Padded
<1> HIDE DEF turn
<1>3. \A i \in 0 .. n : turn[i] = IF i = 0 THEN {start}
                                  ELSE PadSteps(turn[i - 1], sizes[i])
  BY <1>1
<1>4. Written(b, start)
  <2>1. start \in [b : Seq(Cell), out : Seq(Cell), halt : BOOLEAN]  OBVIOUS
  <2>2. <<>> \o b = b  BY ConcatEmptySeq
  <2> QED BY <2>1, <2>2 DEF Written
<1> HIDE DEF start
<1> DEFINE T == {i \in 0 .. n : \E acc \in turn[i] : ~Written(b, acc)}
<1>5. T = {}
  <2> SUFFICES ASSUME T # {} PROVE FALSE  OBVIOUS
  <2>1. T \in SUBSET Nat  OBVIOUS
  <2>2. PICK k \in T : \A j \in T : k <= j  BY <2>1, LeastNumber
  <2>3. PICK acc \in turn[k] : ~Written(b, acc)  BY <2>2
  <2>4. k # 0  BY <1>3, <1>4, <2>2, <2>3
  <2>5. k \in 1 .. n /\ k - 1 \in 0 .. n /\ ~(k <= k - 1)  BY <2>2, <2>4
  <2>6. k - 1 \notin T  BY <2>2, <2>5
  <2>7. turn[k] = PadSteps(turn[k - 1], sizes[k])  BY <1>3, <2>4, <2>5
  <2>8. PICK a \in turn[k - 1], l \in sizes[k] : acc = PadStep(a, l)  BY <2>3, <2>7 DEF PadSteps
  <2>9. Written(b, a)  BY <2>5, <2>6, <2>8
  <2>10. l \in CheckMark .. (FieldMod - 1)  BY <2>5, <2>8
  <2>11. FieldMod \in Nat  BY MuxAssumption
  <2>12. l \in Int  BY <2>10, <2>11 DEF CheckMark
  <2>13. Written(b, PadStep(a, l))  BY <2>9, <2>10, <2>12, PadTurn
  <2> QED BY <2>3, <2>8, <2>13
<1>6. PICK end \in turn[n] : u = end.out \o end.b  BY <1>2
<1>7. Written(b, end)  BY <1>5, <1>6
<1>8. CASE end.out \o end.b = b
  <2>1. u = b \o <<>>  BY <1>6, <1>8, ConcatEmptySeq
  <2> QED BY <2>1, SilentEmpty
<1>9. CASE end.b = <<>> /\ \E z : Silent(z) /\ end.out = b \o z
  <2>1. u = end.out  BY <1>6, <1>7, <1>9, ConcatEmptySeq DEF Written
  <2> QED BY <1>9, <2>1
<1> QED BY <1>7, <1>8, <1>9 DEF Written

-----------------------------------------------------------------------------
(* The frames the two ends write.                                           *)

(* The frames of the session itself are whole and of no stream.             *)
LEMMA SilentFrames ==
  ASSUME NEW cmd \in Cmds \ {"unit", "SYN", "PSH", "FIN"}, NEW sid \in Nat, NEW arg \in Args,
         cmd = "UpdatePaddingScheme" => arg \in DOMAIN Schemes
  PROVE  /\ Silent(Frame(cmd, sid, arg)) /\ Silent(LongFrame(cmd, sid, arg))
         /\ Frame(cmd, sid, arg) # <<>> /\ LongFrame(cmd, sid, arg) # <<>>
<1> DEFINE h == Header(cmd, sid, 0, arg)
           l == Header(cmd, sid, 1, arg)
           c == Unit(sid, arg)
           f == Frame(cmd, sid, arg)
           g == LongFrame(cmd, sid, arg)
<1>1. h \in Cell /\ l \in Cell /\ c \in Cell
  <2>1. "unit" \in Cmds  BY DEF Cmds
  <2> QED BY <2>1 DEF Header, Unit, Cell
<1>2. /\ h.cmd = cmd /\ h.len = 0 /\ h.arg = arg /\ c.cmd = "unit"
      /\ l.cmd = cmd /\ l.len = 1 /\ l.arg = arg
  BY DEF Header, Unit
<1>3. f = <<h>> /\ g = <<l, c>>  BY DEF Frame, LongFrame
<1> HIDE DEF h, l, c, f, g
<1>4. f \in Seq(Cell) /\ Len(f) = 1 /\ f[1] = h /\ f # <<>>  BY <1>1, <1>3
<1>5. g \in Seq(Cell) /\ Len(g) = 2 /\ g[1] = l /\ g[2] = c /\ g # <<>>  BY <1>1, <1>3
<1>6. \A i \in 1 .. Len(f) : i = 1  BY <1>4
<1>7. \A i \in 1 .. Len(g) : i = 1 \/ i = 2  BY <1>5
<1>8. Unmarked(f) /\ Unmarked(g)  BY <1>2, <1>4, <1>5, <1>6, <1>7 DEF Unmarked
<1>9. Proper(f) /\ Proper(g)  BY <1>2, <1>4, <1>5, <1>6, <1>7 DEF Proper
<1>10. Whole(f)
  <2>1. \A j \in (1 + 1) .. (1 + 0) : FALSE  OBVIOUS
  <2>2. ASSUME NEW i \in 1 .. Len(f)
        PROVE  /\ i = 1 => f[1].cmd # "unit"
               /\ f[i].cmd # "unit" =>
                   /\ i + f[i].len <= Len(f)
                   /\ \A j \in (i + 1) .. (i + f[i].len) : f[j].cmd = "unit"
                   /\ i + f[i].len < Len(f) => f[i + f[i].len + 1].cmd # "unit"
    BY <1>2, <1>4, <1>6, <2>1
  <2> QED BY <2>2 DEF Whole
<1>11. Whole(g)
  <2>1. \A j \in (1 + 1) .. (1 + 1) : j = 2  OBVIOUS
  <2>2. ASSUME NEW i \in 1 .. Len(g), i = 1
        PROVE  /\ i = 1 => g[1].cmd # "unit"
               /\ g[i].cmd # "unit" =>
                   /\ i + g[i].len <= Len(g)
                   /\ \A j \in (i + 1) .. (i + g[i].len) : g[j].cmd = "unit"
                   /\ i + g[i].len < Len(g) => g[i + g[i].len + 1].cmd # "unit"
    BY <1>2, <1>5, <2>1, <2>2
  <2>3. ASSUME NEW i \in 1 .. Len(g), i = 2 PROVE g[i].cmd = "unit"  BY <1>2, <1>5, <2>3
  <2> QED BY <1>7, <2>2, <2>3 DEF Whole
<1> QED BY <1>4, <1>5, <1>8, <1>9, <1>10, <1>11 DEF f, g, Silent, Framed

(* A SYN or a FIN.                                                          *)
LEMMA MarkFrame ==
  ASSUME NEW cmd \in {"SYN", "FIN"}, NEW s \in Sids
  PROVE  /\ Frame(cmd, s, 0) \in Seq(Cell) /\ Framed(Frame(cmd, s, 0))
         /\ Len(Frame(cmd, s, 0)) = 1 /\ Frame(cmd, s, 0) # <<>> /\ Frame(cmd, s, 0)[1].cmd = cmd
         /\ \A k \in 1 .. Len(Frame(cmd, s, 0)), c \in {"SYN", "PSH", "FIN"}, t \in Sids :
                At(Frame(cmd, s, 0), k, c, t) <=> k = 1 /\ c = cmd /\ t = s
<1> DEFINE h == Header(cmd, s, 0, 0)
           f == Frame(cmd, s, 0)
<1>1. h \in Cell
  <2>1. s \in Nat /\ 0 \in Args /\ cmd \in Cmds  BY DEF Sids, Args, Cmds
  <2> QED BY <2>1 DEF Header, Cell
<1>2. h.cmd = cmd /\ h.len = 0 /\ h.sid = s  BY DEF Header
<1>3. f = <<h>>  BY DEF Frame
<1> HIDE DEF h, f
<1>4. f \in Seq(Cell) /\ Len(f) = 1 /\ f[1] = h /\ f # <<>>  BY <1>1, <1>3
<1>5. \A i \in 1 .. Len(f) : i = 1  BY <1>4
<1>6. Proper(f)  BY <1>2, <1>4, <1>5 DEF Proper
<1>7. Whole(f)
  <2>1. \A j \in (1 + 1) .. (1 + 0) : FALSE  OBVIOUS
  <2>2. ASSUME NEW i \in 1 .. Len(f)
        PROVE  /\ i = 1 => f[1].cmd # "unit"
               /\ f[i].cmd # "unit" =>
                   /\ i + f[i].len <= Len(f)
                   /\ \A j \in (i + 1) .. (i + f[i].len) : f[j].cmd = "unit"
                   /\ i + f[i].len < Len(f) => f[i + f[i].len + 1].cmd # "unit"
    BY <1>2, <1>4, <1>5, <2>1
  <2> QED BY <2>2 DEF Whole
<1>8. \A k \in 1 .. Len(f), c \in {"SYN", "PSH", "FIN"}, t \in Sids :
          At(f, k, c, t) <=> k = 1 /\ c = cmd /\ t = s
  BY <1>2, <1>4, <1>5 DEF At
<1> QED BY <1>2, <1>4, <1>6, <1>7, <1>8 DEF f, Framed

-----------------------------------------------------------------------------
(* The types, and what a write does.                                        *)

Reader == [pc : {"read", "push", "reply", "last", "ended"}, sid : Nat,
           chunk : Nat \X Nat, reply : Seq(Seq(Cell))]

Types ==
    /\ TypeOK
    /\ wire \in [Ends -> Seq(Cell)] /\ buffer \in Seq(Cell)
    /\ rx \in [Ends -> Reader]
    /\ rd \in [Ends -> [Sids -> Seq(Nat \X Nat)]]
    /\ pkt \in Nat

(* So it is with the sizes of any scheme that fit.                          *)
LEMMA PaddedUnits ==
  ASSUME SizesFit, NEW name \in DOMAIN Schemes, NEW p, NEW b \in Seq(Cell),
         NEW u \in Padded(b, GenerateRecordPayloadSizes(Schemes[name], p))
  PROVE  \E z : Silent(z) /\ u = b \o z
<1> DEFINE ranges == IF p \in DOMAIN Schemes[name].sizes THEN Schemes[name].sizes[p] ELSE <<>>
           sizes == GenerateRecordPayloadSizes(Schemes[name], p)
<1>1. Len(ranges) \in Nat
  <2>1. CASE p \in DOMAIN Schemes[name].sizes  BY <2>1, MuxAssumption
  <2>2. CASE p \notin DOMAIN Schemes[name].sizes  BY <2>2
  <2> QED BY <2>1, <2>2
<1>2. ASSUME NEW i \in 1 .. Len(ranges) PROVE RangeSizes(ranges[i]) \subseteq CheckMark .. (FieldMod - 1)
  <2>1. p \in DOMAIN Schemes[name].sizes
    <3>1. Len(<<>>) = 0  OBVIOUS
    <3> QED BY <1>2, <3>1
  <2> QED BY <1>2, <2>1 DEF SizesFit
<1>3. sizes = [i \in 1 .. Len(ranges) |-> RangeSizes(ranges[i])]  BY DEF GenerateRecordPayloadSizes
<1> HIDE DEF ranges
<1>4. Len(sizes) = Len(ranges)
  <2>1. \A i \in 1 .. Len(ranges) : RangeSizes(ranges[i]) \in SUBSET (CheckMark .. (FieldMod - 1))
    BY <1>2
  <2> QED BY <1>1, <1>3, <2>1, IsASeq
<1>5. \A i \in 1 .. Len(sizes) : sizes[i] \subseteq CheckMark .. (FieldMod - 1)
  BY <1>2, <1>3, <1>4
<1> HIDE DEF sizes
<1>6. u \in Padded(b, sizes)  BY DEF sizes
<1> QED BY <1>1, <1>4, <1>5, <1>6, PaddedSilent

Ahead(e) == IF e = "C" THEN buffer ELSE <<>>
Emptied(e) == buffer' = IF e = "C" THEN <<>> ELSE buffer

(* What a write adds, to the buffer or to the connection.                   *)
LEMMA SentUnits ==
  ASSUME SizesFit, Types, NEW e \in Ends, NEW f \in Seq(Cell), Sent(e, f)
  PROVE  /\ pkt' \in Nat /\ sendPadding' \in BOOLEAN
         /\ \/ /\ Holding(e) /\ UNCHANGED wire /\ buffer' = buffer \o f
            \/ /\ ~Holding(e) /\ Emptied(e)
               /\ die[e] # "done" /\ die[Peer(e)] = "done" /\ UNCHANGED wire
            \/ /\ ~Holding(e) /\ Emptied(e)
               /\ die[e] # "done" /\ die[Peer(e)] # "done"
               /\ \E z : /\ Silent(z)
                         /\ wire' = [wire EXCEPT ![Peer(e)] = @ \o ((Ahead(e) \o f) \o z)]
<1>1. /\ pkt \in Nat /\ sendPadding \in BOOLEAN /\ buffer \in Seq(Cell) /\ pad["C"] \in DOMAIN Schemes
  BY DEF Types, TypeOK, Ends
<1>2. pkt' \in Nat /\ sendPadding' \in BOOLEAN
  <2>1. pkt' = pkt \/ pkt' = pkt + 1  BY DEF Sent
  <2>2. sendPadding' = sendPadding
        \/ sendPadding' = (sendPadding /\ (e = "C" => pkt' < Schemes[pad["C"]].stop))
    BY DEF Sent
  <2>3. sendPadding' \in BOOLEAN  BY <1>1, <2>2, Zenon
  <2> QED BY <1>1, <2>1, <2>3
<1>3. CASE Holding(e)  BY <1>2, <1>3 DEF Sent
<1>4. CASE ~Holding(e) /\ die[Peer(e)] = "done"
  BY <1>2, <1>4 DEF Sent, Emptied
<1>5. CASE ~Holding(e) /\ die[Peer(e)] # "done"
  <2>1. PICK u \in Units(e, f) : wire' = [wire EXCEPT ![Peer(e)] = @ \o u]
    BY <1>5 DEF Sent
  <2>2. die[e] # "done" /\ Emptied(e)  BY <1>5 DEF Sent, Emptied
  <2> DEFINE b == IF e = "C" THEN buffer \o f ELSE f
  <2>3. b \in Seq(Cell) /\ b = Ahead(e) \o f
    BY <1>1, ConcatProperties, ConcatEmptySeq DEF Ahead
  <2>4. u = b \/ u \in Padded(b, GenerateRecordPayloadSizes(Schemes[pad["C"]], pkt + 1))
    BY <2>1 DEF Units
  <2> HIDE DEF b
  <2>5. \E z : Silent(z) /\ u = b \o z
    <3>1. CASE u = b  BY <2>3, <3>1, SilentEmpty, ConcatEmptySeq
    <3>2. CASE u \in Padded(b, GenerateRecordPayloadSizes(Schemes[pad["C"]], pkt + 1))
      <4>1. PICK name \in DOMAIN Schemes : name = pad["C"]  BY <1>1
      <4>2. PICK p : p = pkt + 1  OBVIOUS
      <4>3. u \in Padded(b, GenerateRecordPayloadSizes(Schemes[name], p))  BY <3>2, <4>1, <4>2
      <4>4. \A x \in Seq(Cell) : \A v \in Padded(x, GenerateRecordPayloadSizes(Schemes[name], p)) :
                \E z : Silent(z) /\ v = x \o z
        BY PaddedUnits
      <4> QED BY <2>3, <4>3, <4>4
    <3> QED BY <2>4, <3>1, <3>2
  <2> QED BY <1>2, <1>5, <2>1, <2>2, <2>3, <2>5
<1> QED BY <1>3, <1>4, <1>5

-----------------------------------------------------------------------------
(* The channel to an end, and what a step does to it.                       *)

Counted == {"SYN", "PSH", "FIN"}
Has(w, cmd, s) == \E i \in 1 .. Len(w) : At(w, i, cmd, s)
Shrunk(v, w) == \E k \in Nat : \A i \in 1 .. Len(v) : i + k \in 1 .. Len(w) /\ v[i] = w[i + k]

Adds(e, u) == u \in Seq(Cell) /\ Framed(u) /\ Chan(e)' = Chan(e) \o u
Drops(e) == Chan(e) # <<>> /\ Chan(e)' = SubSeq(Chan(e), Chan(e)[1].len + 2, Len(Chan(e)))
Shrinks(e) == Shrunk(Chan(e)', Chan(e))
Still(e) == Chan(e)' = Chan(e)

(* The two ends.                                                            *)
LEMMA PeerEnd ==
  /\ "C" \in Ends /\ "S" \in Ends /\ Peer("C") = "S" /\ Peer("S") = "C"
  /\ \A e \in Ends : e = "C" \/ e = "S"
BY DEF Ends, Peer

(* What is on the way are whole frames.                                     *)
LEMMA ChanFramed ==
  ASSUME Types, FormInv, NEW e \in Ends
  PROVE  Chan(e) \in Seq(Cell) /\ Framed(Chan(e))
<1>1. wire["S"] \in Seq(Cell) /\ wire["C"] \in Seq(Cell) /\ buffer \in Seq(Cell)
  BY PeerEnd DEF Types
<1>2. Framed(wire["S"]) /\ Framed(wire["C"]) /\ Framed(buffer)
  BY PeerEnd DEF FormInv, Framed
<1>3. wire["S"] \o buffer \in Seq(Cell) /\ Framed(wire["S"] \o buffer)
  BY <1>1, <1>2, FramedJoin, ConcatProperties
<1> QED BY <1>1, <1>2, <1>3, PeerEnd DEF Chan

(* A frame and the padding behind it count as the frame does.               *)
LEMMA FrameMarks ==
  ASSUME NEW f \in Seq(Cell), Framed(f), NEW z, Silent(z)
  PROVE  /\ f \o z \in Seq(Cell) /\ Framed(f \o z)
         /\ \A c \in Counted : \A t : \A k \in 1 .. Len(f \o z) :
                At(f \o z, k, c, t) => k \in 1 .. Len(f) /\ At(f, k, c, t)
         /\ \A c \in Counted : \A t : \A k \in 1 .. Len(f) :
                At(f, k, c, t) => k \in 1 .. Len(f \o z) /\ At(f \o z, k, c, t)
<1>1. z \in Seq(Cell) /\ Framed(z) /\ Unmarked(z)  BY DEF Silent
<1>2. f \o z \in Seq(Cell) /\ Framed(f \o z)  BY <1>1, FramedJoin, ConcatProperties
<1>3. /\ Len(f) \in Nat /\ Len(f \o z) = Len(f) + Len(z) /\ Len(z) \in Nat
      /\ \A i \in 1 .. Len(f) : (f \o z)[i] = f[i]
      /\ \A i \in 1 .. Len(f \o z) : i \in 1 .. Len(f) \/ (i > Len(f) /\ i - Len(f) \in 1 .. Len(z)
                                                         /\ (f \o z)[i] = z[i - Len(f)])
  BY <1>1, JoinedCells
<1> DEFINE v == f \o z
<1>4. /\ \A i \in 1 .. Len(f) : v[i] = f[i] /\ i \in 1 .. Len(v)
      /\ \A i \in 1 .. Len(v) : i \in 1 .. Len(f) \/ (i - Len(f) \in 1 .. Len(z)
                                                         /\ v[i] = z[i - Len(f)])
  BY <1>3
<1> HIDE DEF v
<1>5. \A c \in Counted : \A t : \A k \in 1 .. Len(v) :
          At(v, k, c, t) => k \in 1 .. Len(f) /\ At(f, k, c, t)
  BY <1>1, <1>4 DEF At, Unmarked, Counted
<1>6. \A c \in Counted : \A t : \A k \in 1 .. Len(f) :
          At(f, k, c, t) => k \in 1 .. Len(v) /\ At(v, k, c, t)
  BY <1>4 DEF At
<1> QED BY <1>2, <1>5, <1>6 DEF v

(* A write that reaches the connection, or the client's buffer, adds its    *)
(* frame to the peer's channel; one to a dead peer may lose the buffer.     *)
LEMMA WriteEffect ==
  ASSUME SizesFit, Types, FormInv, NEW e \in Ends, NEW f \in Seq(Cell), Framed(f), Sent(e, f),
         Holding(e) => \A k \in 1 .. Len(f) : f[k].cmd \notin {"PSH", "FIN"}
  PROVE  /\ wire' \in [Ends -> Seq(Cell)] /\ buffer' \in Seq(Cell)
         /\ pkt' \in Nat /\ sendPadding' \in BOOLEAN
         /\ FormInv' /\ Still(e)
         /\ \/ /\ Holding(e) \/ (die[e] # "done" /\ die[Peer(e)] # "done")
               /\ \E z : Silent(z) /\ Chan(Peer(e))' = Chan(Peer(e)) \o (f \o z)
            \/ /\ die[e] # "done" /\ die[Peer(e)] = "done" /\ Shrinks(Peer(e))
<1>1. /\ pkt' \in Nat /\ sendPadding' \in BOOLEAN
      /\ \/ /\ Holding(e) /\ UNCHANGED wire /\ buffer' = buffer \o f
         \/ /\ ~Holding(e) /\ Emptied(e)
            /\ die[e] # "done" /\ die[Peer(e)] = "done" /\ UNCHANGED wire
         \/ /\ ~Holding(e) /\ Emptied(e)
            /\ die[e] # "done" /\ die[Peer(e)] # "done"
            /\ \E z : /\ Silent(z)
                      /\ wire' = [wire EXCEPT ![Peer(e)] = @ \o ((Ahead(e) \o f) \o z)]
  BY SentUnits
<1>2. /\ wire \in [Ends -> Seq(Cell)] /\ buffer \in Seq(Cell)
      /\ \A x \in Ends : Framed(wire[x])
      /\ Framed(buffer) /\ \A i \in 1 .. Len(buffer) : buffer[i].cmd \notin {"PSH", "FIN"}
  BY DEF Types, FormInv, Framed
<1>a. wire["C"] \in Seq(Cell) /\ wire["S"] \in Seq(Cell)  BY <1>2, PeerEnd
<1>b. <<>> \in Seq(Cell) /\ Framed(<<>>) /\ Len(<<>>) = 0  BY SilentEmpty DEF Silent
<1>3. CASE Holding(e) /\ UNCHANGED wire /\ buffer' = buffer \o f
  <2>1. e = "C" /\ Peer(e) = "S"  BY <1>3, PeerEnd DEF Holding
  <2>2. /\ buffer \o f \in Seq(Cell) /\ Framed(buffer \o f)
        /\ \A i \in 1 .. Len(buffer) : (buffer \o f)[i] = buffer[i]
        /\ \A i \in 1 .. Len(buffer \o f) :
               i \in 1 .. Len(buffer) \/ (i > Len(buffer) /\ i - Len(buffer) \in 1 .. Len(f)
                                          /\ (buffer \o f)[i] = f[i - Len(buffer)])
    BY <1>2, JoinedCells, FramedJoin
  <2>3. \A i \in 1 .. Len(buffer \o f) : (buffer \o f)[i].cmd \notin {"PSH", "FIN"}
    BY <1>2, <1>3, <2>2
  <2>4. FormInv'  BY <1>2, <1>3, <2>2, <2>3 DEF FormInv, Framed
  <2>5. Chan("C")' = Chan("C") /\ Chan("S")' = wire["S"] \o (buffer \o f)  BY <1>3 DEF Chan
  <2>6. Chan("S")' = Chan("S") \o (f \o <<>>)
    <3>1. wire["S"] \o (buffer \o f) = (wire["S"] \o buffer) \o f
      BY <1>2, <1>a, CellsAssociative
    <3>2. f \o <<>> = f  BY ConcatEmptySeq
    <3> QED BY <2>5, <3>1, <3>2 DEF Chan
  <2> QED BY <1>1, <1>2, <1>3, <2>1, <2>2, <2>4, <2>5, <2>6, SilentEmpty DEF Still
<1>4. CASE ~Holding(e) /\ Emptied(e) /\ die[e] # "done" /\ die[Peer(e)] = "done" /\ UNCHANGED wire
  <2>1. buffer' \in Seq(Cell) /\ FormInv'
    <3>1. buffer' = buffer \/ buffer' = <<>>  BY <1>4 DEF Emptied
    <3>2. CASE buffer' = buffer  BY <1>2, <1>4, <3>2 DEF FormInv, Framed
    <3>3. CASE buffer' = <<>>  BY <1>2, <1>4, <1>b, <3>3 DEF FormInv, Framed
    <3> QED BY <3>1, <3>2, <3>3
  <2>2. CASE e = "C"
    <3>1. Chan("C")' = Chan("C")  BY <1>4 DEF Chan
    <3>2. Chan("S")' = wire["S"] \o <<>>  BY <1>4, <2>2 DEF Chan, Emptied
    <3>3. Chan("S")' = wire["S"]  BY <1>a, <3>2, ConcatEmptySeq
    <3>4. /\ Len(wire["S"] \o buffer) = Len(wire["S"]) + Len(buffer)
          /\ Len(wire["S"]) \in Nat /\ Len(buffer) \in Nat
          /\ \A i \in 1 .. Len(wire["S"]) : (wire["S"] \o buffer)[i] = wire["S"][i]
      BY <1>2, <1>a, JoinedCells
    <3>5. \A i \in 1 .. Len(wire["S"]) : /\ i + 0 \in 1 .. Len(wire["S"] \o buffer)
                                         /\ wire["S"][i] = (wire["S"] \o buffer)[i + 0]
      <4> TAKE i \in 1 .. Len(wire["S"])
      <4>1. i + 0 = i /\ i \in 1 .. Len(wire["S"] \o buffer)  BY <3>4
      <4> QED BY <3>4, <4>1
    <3>6. Chan("S") = wire["S"] \o buffer  BY DEF Chan
    <3>7. Shrinks("S")  BY <3>3, <3>5, <3>6 DEF Shrinks, Shrunk
    <3> QED BY <1>1, <1>2, <1>4, <2>1, <2>2, <3>1, <3>7, PeerEnd DEF Still
  <2>3. CASE e = "S"
    <3>1. Chan("C")' = Chan("C") /\ Chan("S")' = Chan("S")  BY <1>4, <2>3 DEF Chan, Emptied
    <3>2. Chan("C") \in Seq(Cell)  BY <1>a DEF Chan
    <3>3. \A i \in 1 .. Len(Chan("C")) : i + 0 = i  BY <3>2, LenProperties
    <3>4. Shrinks("C")  BY <3>1, <3>3 DEF Shrinks, Shrunk
    <3> QED BY <1>1, <1>2, <1>4, <2>1, <2>3, <3>1, <3>4, PeerEnd DEF Still
  <2> QED BY <2>2, <2>3, PeerEnd
<1>5. ASSUME ~Holding(e) /\ Emptied(e) /\ die[e] # "done" /\ die[Peer(e)] # "done",
             NEW z, Silent(z), wire' = [wire EXCEPT ![Peer(e)] = @ \o ((Ahead(e) \o f) \o z)]
      PROVE  /\ wire' \in [Ends -> Seq(Cell)] /\ buffer' \in Seq(Cell) /\ FormInv' /\ Still(e)
             /\ Chan(Peer(e))' = Chan(Peer(e)) \o (f \o z)
  <2>1. z \in Seq(Cell) /\ Framed(z)  BY <1>5 DEF Silent
  <2>2. f \o z \in Seq(Cell) /\ Framed(f \o z)  BY <2>1, FramedJoin, ConcatProperties
  <2>3. CASE e = "C"
    <3>1. PICK u \in Seq(Cell) : u = buffer \o (f \o z)  BY <1>2, <2>2, ConcatProperties
    <3>2. (buffer \o f) \o z = u  BY <1>2, <2>1, <3>1, CellsAssociative
    <3>3. wire' = [wire EXCEPT !["S"] = @ \o u]  BY <1>5, <2>3, <3>2, PeerEnd DEF Ahead
    <3>4. Framed(u)  BY <1>2, <2>2, <3>1, FramedJoin
    <3>5. wire["S"] \o u \in Seq(Cell) /\ Framed(wire["S"] \o u)
      BY <1>2, <1>a, <3>4, PeerEnd, FramedJoin, ConcatProperties
    <3>6. /\ wire' \in [Ends -> Seq(Cell)] /\ wire'["S"] = wire["S"] \o u /\ wire'["C"] = wire["C"]
      BY <1>2, <3>3, <3>5, PeerEnd
    <3>7. buffer' = <<>>  BY <1>5, <2>3 DEF Emptied
    <3>8. \A x \in Ends : Framed(wire'[x])  BY <1>2, <3>5, <3>6, PeerEnd
    <3>9. FormInv'  BY <1>b, <3>7, <3>8 DEF FormInv, Framed
    <3>10. Chan("S")' = wire["S"] \o u
      <4>1. Chan("S")' = (wire["S"] \o u) \o <<>>  BY <3>6, <3>7 DEF Chan
      <4>2. \A x \in Seq(Cell) : x \o <<>> = x  BY ConcatEmptySeq
      <4> QED BY <3>5, <4>1, <4>2
    <3>11. wire["S"] \o u = (wire["S"] \o buffer) \o (f \o z)
      <4>1. PICK g \in Seq(Cell) : g = f \o z  BY <2>2
      <4>2. buffer \in Seq(Cell)  BY <1>2
      <4>3. (wire["S"] \o buffer) \o g = wire["S"] \o (buffer \o g)
        <5>1. PICK o \in Seq(Cell) : o = wire["S"]  BY <1>a
        <5>2. (o \o buffer) \o g = o \o (buffer \o g)  BY <4>1, <4>2, <5>1, CellsAssociative
        <5> QED BY <5>1, <5>2
      <4> QED BY <3>1, <4>1, <4>3
    <3>12. Chan("C")' = Chan("C")  BY <3>6 DEF Chan
    <3>13. Chan("S")' = Chan("S") \o (f \o z)  BY <3>10, <3>11 DEF Chan
    <3> QED BY <1>b, <2>3, <3>6, <3>7, <3>9, <3>12, <3>13, PeerEnd DEF Still
  <2>4. CASE e = "S"
    <3>1. (<<>> \o f) \o z = f \o z  BY ConcatEmptySeq
    <3>2. wire' = [wire EXCEPT !["C"] = @ \o (f \o z)]  BY <1>5, <2>4, <3>1, PeerEnd DEF Ahead
    <3>3. PICK u \in Seq(Cell) : u = f \o z  BY <2>2
    <3>4. wire["C"] \o u \in Seq(Cell) /\ Framed(wire["C"] \o u)
      BY <1>2, <1>a, <2>2, <3>3, PeerEnd, FramedJoin, ConcatProperties
    <3>5. /\ wire' \in [Ends -> Seq(Cell)] /\ wire'["C"] = wire["C"] \o u /\ wire'["S"] = wire["S"]
      BY <1>2, <3>2, <3>3, <3>4, PeerEnd
    <3>6. buffer' = buffer  BY <1>5, <2>4 DEF Emptied
    <3>7. \A x \in Ends : Framed(wire'[x])  BY <1>2, <3>4, <3>5, PeerEnd
    <3>8. FormInv'  BY <1>2, <3>6, <3>7 DEF FormInv, Framed
    <3>9. Chan("S")' = Chan("S") /\ Chan("C")' = Chan("C") \o (f \o z)
      BY <3>3, <3>5, <3>6 DEF Chan
    <3> QED BY <1>2, <2>4, <3>5, <3>6, <3>8, <3>9, PeerEnd DEF Still
  <2> QED BY <2>3, <2>4, PeerEnd
<1> QED BY <1>1, <1>3, <1>4, <1>5

(* A frame less is a case of fewer units.                                   *)
LEMMA DropShrinks ==
  ASSUME Types, FormInv, NEW e \in Ends, Drops(e)
  PROVE  Shrinks(e)
<1> DEFINE w == Chan(e)
<1>1. w \in Seq(Cell) /\ Framed(w) /\ w # <<>>  BY ChanFramed DEF Drops
<1>2. Chan(e)' = SubSeq(w, w[1].len + 2, Len(w))  BY DEF Drops
<1> HIDE DEF w
<1>3. w[1] \in Cell /\ w[1].len + 1 <= Len(w)  BY <1>1, FramedLeft
<1>4. PICK k \in Nat : k = w[1].len + 1  BY <1>3 DEF Cell
<1>5. k + 1 = w[1].len + 2 /\ k <= Len(w)  BY <1>3, <1>4 DEF Cell
<1> DEFINE d == SubSeq(w, k + 1, Len(w))
<1>6. /\ Len(w) \in Nat /\ Len(d) = Len(w) - k
      /\ \A i \in 1 .. (Len(w) - k) : d[i] = w[i + k]
  BY <1>1, <1>5, LeftCells
<1>7. Chan(e)' = d  BY <1>2, <1>5
<1> HIDE DEF d
<1>8. \A i \in 1 .. Len(d) : i + k \in 1 .. Len(w) /\ d[i] = w[i + k]  BY <1>5, <1>6
<1>9. Shrunk(d, w)  BY <1>8 DEF Shrunk
<1> QED BY <1>7, <1>9 DEF Shrinks, w

(* No FIN is sent or handled before its stream is over at the sender.       *)
LEMMA EndKept ==
  ASSUME Types, FormInv, EndSeen,
         \A e \in Ends, s \in Sids : Over(e, s) => Over(e, s)',
         \A s \in Sids : str["C"][s] # "none" => str'["C"][s] # "none",
         \A e \in Ends, s \in Sids : str'[e][s] = "fin" => str[e][s] = "fin" \/ Over(Peer(e), s)',
         \A e \in Ends :
            \/ Shrinks(e)
            \/ \E u : /\ Adds(e, u)
                      /\ \A s \in Sids : \A k \in 1 .. Len(u) :
                            /\ At(u, k, "FIN", s) => Over(Peer(e), s)'
                            /\ e = "C" /\ At(u, k, "PSH", s) => str["C"][s] # "none"
  PROVE  EndSeen'
<1>1. ASSUME NEW e \in Ends, NEW s \in Sids
      PROVE  /\ \A i \in 1 .. Len(Chan(e)') : At(Chan(e)', i, "FIN", s) => Over(Peer(e), s)'
             /\ e = "C" => \A i \in 1 .. Len(Chan(e)') : At(Chan(e)', i, "PSH", s) => str'["C"][s] # "none"
  <2> DEFINE w == Chan(e)
             v == Chan(e)'
  <2>1. /\ \A i \in 1 .. Len(w) : At(w, i, "FIN", s) => Over(Peer(e), s)'
        /\ e = "C" => \A i \in 1 .. Len(w) : At(w, i, "PSH", s) => str'["C"][s] # "none"
    BY PeerEnd DEF EndSeen
  <2>2. w \in Seq(Cell) /\ Framed(w)  BY ChanFramed
  <2>3. CASE Shrinks(e)
    <3>1. Shrunk(v, w)  BY <2>3 DEF Shrinks
    <3> HIDE DEF w, v
    <3>2. PICK n \in Nat : \A i \in 1 .. Len(v) : i + n \in 1 .. Len(w) /\ v[i] = w[i + n]
      BY <3>1 DEF Shrunk
    <3>3. \A c : \A i \in 1 .. Len(v) : At(v, i, c, s) => At(w, i + n, c, s)  BY <3>2 DEF At
    <3>4. /\ \A i \in 1 .. Len(v) : At(v, i, "FIN", s) => Over(Peer(e), s)'
          /\ e = "C" => \A i \in 1 .. Len(v) : At(v, i, "PSH", s) => str'["C"][s] # "none"
      BY <2>1, <3>2, <3>3
    <3> QED BY <3>4 DEF v
  <2>4. ASSUME NEW u, Adds(e, u),
               \A t \in Sids : \A k \in 1 .. Len(u) :
                    /\ At(u, k, "FIN", t) => Over(Peer(e), t)'
                    /\ e = "C" /\ At(u, k, "PSH", t) => str["C"][t] # "none"
        PROVE  /\ \A i \in 1 .. Len(v) : At(v, i, "FIN", s) => Over(Peer(e), s)'
               /\ e = "C" => \A i \in 1 .. Len(v) : At(v, i, "PSH", s) => str'["C"][s] # "none"
    <3>1. u \in Seq(Cell) /\ Framed(u) /\ v = w \o u  BY <2>4 DEF Adds
    <3> HIDE DEF w, v
    <3>2. \A cmd : /\ \A i \in 1 .. Len(w) : At(w \o u, i, cmd, s) <=> At(w, i, cmd, s)
                   /\ \A k \in 1 .. Len(u) : At(w \o u, Len(w) + k, cmd, s) <=> At(u, k, cmd, s)
                   /\ \A i \in 1 .. Len(w \o u) :
                        i \in 1 .. Len(w) \/ \E k \in 1 .. Len(u) : i = Len(w) + k
      BY <2>2, <3>1, MarksJoin
    <3>3. \A i \in 1 .. Len(v) : At(v, i, "FIN", s) => Over(Peer(e), s)'
      BY <2>1, <2>4, <3>1, <3>2
    <3>4. ASSUME e = "C", NEW i \in 1 .. Len(v), At(v, i, "PSH", s) PROVE str'["C"][s] # "none"
      BY <2>1, <2>4, <3>1, <3>2, <3>4
    <3> QED BY <3>3, <3>4
  <2> QED BY <2>3, <2>4
<1>2. \A e \in Ends, s \in Sids : str'[e][s] = "fin" => Over(Peer(e), s)'
  BY PeerEnd DEF EndSeen
<1> QED BY <1>1, <1>2 DEF EndSeen

-----------------------------------------------------------------------------
(* SYN before data, and one SYN per stream.                                 *)

(* What happens to the client's steps of a stream before it has one.        *)
Onward(s) == app'["C"][s] \in {"idle", "syn"} => app["C"][s] \in {"idle", "syn"}

(* A write to the server keeps the SYN in front of its stream.              *)
LEMMA SynAdds ==
  ASSUME Types, FormInv, SynSeen, NEW u, Adds("S", u), NEW s \in Sids, Onward(s),
         app["C"][s] # "syn" => (app'["C"][s] \in {"reg", "run"} => app["C"][s] \in {"reg", "run"}),
         app["C"][s] = "syn" /\ app'["C"][s] \in {"reg", "run"} => Has(u, "SYN", s),
         str'["S"][s] = "none" <=> str["S"][s] = "none",
         Reading("S")' => Reading("S"), die["C"] = "done" => die'["C"] = "done",
         \A k \in 1 .. Len(u) : At(u, k, "SYN", s) =>
            k = 1 /\ app["C"][s] = "syn" /\ app'["C"][s] \notin {"idle", "syn"},
         \A k \in 1 .. Len(u) : At(u, k, "PSH", s) =>
            app["C"][s] \in {"reg", "run"} /\ die["C"] # "done"
  PROVE  SynAt(s)'
<1> DEFINE w == Chan("S")
           v == Chan("S")'
<1>1. w \in Seq(Cell) /\ Framed(w)  BY ChanFramed, PeerEnd
<1>2. u \in Seq(Cell) /\ Framed(u) /\ v = w \o u  BY DEF Adds
<1>3. /\ app["C"][s] \in {"idle", "syn"} => str["S"][s] = "none"
      /\ \A i \in 1 .. Len(w) : At(w, i, "SYN", s) =>
            /\ str["S"][s] = "none" /\ app["C"][s] \notin {"idle", "syn"}
            /\ \A j \in 1 .. Len(w) : At(w, j, "SYN", s) => i = j
      /\ Reading("S") /\ str["S"][s] = "none" =>
            /\ \A i \in 1 .. Len(w) : At(w, i, "PSH", s) =>
                \E j \in 1 .. Len(w) : j < i /\ At(w, j, "SYN", s)
            /\ die["C"] # "done" /\ app["C"][s] \in {"reg", "run"} =>
                \E j \in 1 .. Len(w) : At(w, j, "SYN", s)
  BY DEF SynSeen, SynAt
<1> HIDE DEF w, v
<1>4. Len(w) \in Nat /\ Len(u) \in Nat /\ Len(v) = Len(w) + Len(u)  BY <1>1, <1>2, JoinedCells
<1>5. \A cmd : /\ \A i \in 1 .. Len(w) : i \in 1 .. Len(v) /\ (At(v, i, cmd, s) <=> At(w, i, cmd, s))
               /\ \A k \in 1 .. Len(u) : /\ Len(w) + k \in 1 .. Len(v)
                                         /\ At(v, Len(w) + k, cmd, s) <=> At(u, k, cmd, s)
               /\ \A i \in 1 .. Len(v) :
                    i \in 1 .. Len(w) \/ \E k \in 1 .. Len(u) : i = Len(w) + k
  BY <1>1, <1>2, MarksJoin
<1>6. app'["C"][s] \in {"idle", "syn"} => str'["S"][s] = "none"  BY <1>3 DEF Onward
<1>7. ASSUME NEW i \in 1 .. Len(v), At(v, i, "SYN", s)
      PROVE  /\ str'["S"][s] = "none" /\ app'["C"][s] \notin {"idle", "syn"}
             /\ \A j \in 1 .. Len(v) : At(v, j, "SYN", s) => i = j
  <2>1. CASE i \in 1 .. Len(w)
    <3>1. At(w, i, "SYN", s)  BY <1>5, <1>7, <2>1
    <3>2. str["S"][s] = "none" /\ app["C"][s] \notin {"idle", "syn"}  BY <1>3, <3>1, <2>1
    <3>3. \A k \in 1 .. Len(u) : ~At(u, k, "SYN", s)  BY <3>2
    <3>4. \A j \in 1 .. Len(v) : At(v, j, "SYN", s) => j \in 1 .. Len(w) /\ At(w, j, "SYN", s)
      BY <1>5, <3>3
    <3> QED BY <1>3, <2>1, <3>1, <3>2, <3>4 DEF Onward
  <2>2. ASSUME NEW k \in 1 .. Len(u), i = Len(w) + k
        PROVE  /\ str'["S"][s] = "none" /\ app'["C"][s] \notin {"idle", "syn"}
               /\ \A j \in 1 .. Len(v) : At(v, j, "SYN", s) => i = j
    <3>1. At(u, k, "SYN", s)  BY <1>5, <1>7, <2>2
    <3>2. k = 1 /\ app["C"][s] = "syn" /\ app'["C"][s] \notin {"idle", "syn"}  BY <3>1
    <3>3. \A j \in 1 .. Len(w) : ~At(w, j, "SYN", s)  BY <1>3, <3>2
    <3>4. ASSUME NEW j \in 1 .. Len(v), At(v, j, "SYN", s) PROVE i = j
      <4>1. j \notin 1 .. Len(w)  BY <1>5, <3>3, <3>4
      <4>2. PICK l \in 1 .. Len(u) : j = Len(w) + l  BY <1>5, <4>1
      <4>3. At(u, l, "SYN", s)  BY <1>5, <3>4, <4>2
      <4> QED BY <2>2, <3>2, <4>2, <4>3
    <3> QED BY <1>3, <3>2, <3>4
  <2> QED BY <1>5, <2>1, <2>2
<1>8. ASSUME Reading("S")', str'["S"][s] = "none", NEW i \in 1 .. Len(v), At(v, i, "PSH", s)
      PROVE  \E j \in 1 .. Len(v) : j < i /\ At(v, j, "SYN", s)
  <2>0. Reading("S") /\ str["S"][s] = "none"  BY <1>8
  <2>1. CASE i \in 1 .. Len(w)
    <3>1. PICK j \in 1 .. Len(w) : j < i /\ At(w, j, "SYN", s)  BY <1>3, <1>5, <1>8, <2>0, <2>1
    <3> QED BY <1>5, <3>1
  <2>2. ASSUME NEW k \in 1 .. Len(u), i = Len(w) + k
        PROVE  \E j \in 1 .. Len(v) : j < i /\ At(v, j, "SYN", s)
    <3>1. At(u, k, "PSH", s)  BY <1>5, <1>8, <2>2
    <3>2. PICK j \in 1 .. Len(w) : At(w, j, "SYN", s)  BY <1>3, <2>0, <3>1
    <3>3. j < i  BY <1>4, <2>2
    <3> QED BY <1>5, <3>2, <3>3
  <2> QED BY <1>5, <2>1, <2>2
<1>9. ASSUME Reading("S")', str'["S"][s] = "none", die'["C"] # "done", app'["C"][s] \in {"reg", "run"}
      PROVE  \E j \in 1 .. Len(v) : At(v, j, "SYN", s)
  <2>0. Reading("S") /\ str["S"][s] = "none" /\ die["C"] # "done"  BY <1>9
  <2>1. CASE app["C"][s] = "syn"
    <3>1. PICK k \in 1 .. Len(u) : At(u, k, "SYN", s)  BY <1>9, <2>1 DEF Has
    <3> QED BY <1>5, <3>1
  <2>2. CASE app["C"][s] # "syn"
    <3>1. PICK j \in 1 .. Len(w) : At(w, j, "SYN", s)  BY <1>3, <1>9, <2>0, <2>2
    <3> QED BY <1>5, <3>1
  <2> QED BY <2>1, <2>2
<1>10. /\ app'["C"][s] \in {"idle", "syn"} => str'["S"][s] = "none"
       /\ \A i \in 1 .. Len(v) : At(v, i, "SYN", s) =>
            /\ str'["S"][s] = "none" /\ app'["C"][s] \notin {"idle", "syn"}
            /\ \A j \in 1 .. Len(v) : At(v, j, "SYN", s) => i = j
       /\ Reading("S")' /\ str'["S"][s] = "none" =>
            /\ \A i \in 1 .. Len(v) : At(v, i, "PSH", s) =>
                \E j \in 1 .. Len(v) : j < i /\ At(v, j, "SYN", s)
            /\ die'["C"] # "done" /\ app'["C"][s] \in {"reg", "run"} =>
                \E j \in 1 .. Len(v) : At(v, j, "SYN", s)
  BY <1>6, <1>7, <1>8, <1>9
<1> QED BY <1>10 DEF v, SynAt

(* The server takes a frame off.                                            *)
LEMMA SynDrops ==
  ASSUME Types, FormInv, SynSeen, Drops("S"), NEW s \in Sids,
         app'["C"][s] = app["C"][s],
         str'["S"][s] = "none" => str["S"][s] = "none",
         str'["S"][s] # "none" => str["S"][s] # "none" \/ At(Chan("S"), 1, "SYN", s),
         Reading("S")' /\ At(Chan("S"), 1, "SYN", s) => str'["S"][s] # "none",
         Reading("S")' => Reading("S"), die["C"] = "done" => die'["C"] = "done"
  PROVE  SynAt(s)'
<1> DEFINE w == Chan("S")
           v == Chan("S")'
<1>1. w \in Seq(Cell) /\ Framed(w) /\ w # <<>>  BY ChanFramed, PeerEnd DEF Drops
<1>2. v = SubSeq(w, w[1].len + 2, Len(w))  BY DEF Drops
<1>3. /\ app["C"][s] \in {"idle", "syn"} => str["S"][s] = "none"
      /\ \A i \in 1 .. Len(w) : At(w, i, "SYN", s) =>
            /\ str["S"][s] = "none" /\ app["C"][s] \notin {"idle", "syn"}
            /\ \A j \in 1 .. Len(w) : At(w, j, "SYN", s) => i = j
      /\ Reading("S") /\ str["S"][s] = "none" =>
            /\ \A i \in 1 .. Len(w) : At(w, i, "PSH", s) =>
                \E j \in 1 .. Len(w) : j < i /\ At(w, j, "SYN", s)
            /\ die["C"] # "done" /\ app["C"][s] \in {"reg", "run"} =>
                \E j \in 1 .. Len(w) : At(w, j, "SYN", s)
      /\ str'["S"][s] # "none" => str["S"][s] # "none" \/ At(w, 1, "SYN", s)
      /\ Reading("S")' /\ At(w, 1, "SYN", s) => str'["S"][s] # "none"
  BY DEF SynSeen, SynAt
<1> HIDE DEF w, v
<1>4. w[1] \in Cell /\ w[1].len + 1 <= Len(w) /\ Len(w) \in Nat  BY <1>1, FramedLeft, LenProperties
<1>5. PICK n \in Nat : n = w[1].len + 1  BY <1>4 DEF Cell
<1>6. n + 1 = w[1].len + 2 /\ n <= Len(w) /\ n >= 1 /\ 1 \in 1 .. Len(w)  BY <1>4, <1>5 DEF Cell
<1>7. v = SubSeq(w, n + 1, Len(w))  BY <1>2, <1>6
<1>8. Len(v) = Len(w) - n /\ Len(v) \in Nat
  <2>1. Len(SubSeq(w, n + 1, Len(w))) = Len(w) - n  BY <1>1, <1>6, LeftCells
  <2> QED BY <1>4, <1>6, <1>7, <2>1
<1>9. \A cmd : /\ \A i \in 1 .. Len(v) : i + n \in 1 .. Len(w) /\ (At(v, i, cmd, s) <=> At(w, i + n, cmd, s))
               /\ \A i \in 1 .. Len(w) : i <= n \/ \E j \in 1 .. Len(v) : i = j + n
  BY <1>1, <1>6, <1>7, MarksLeft
<1>10. \A i \in 1 .. Len(v) : i + n # 1  BY <1>6, <1>8
<1>11. ASSUME NEW j, At(w, j, "SYN", s), j # 1 PROVE \E l \in 1 .. Len(v) : j = l + n
  <2>1. j \in 1 .. Len(w)  BY <1>11 DEF At
  <2>2. ~(j <= w[1].len + 1)  BY <1>1, <1>11, FirstMark
  <2> QED BY <1>5, <1>9, <2>1, <2>2
<1>12. ASSUME NEW i \in 1 .. Len(v), At(v, i, "SYN", s)
       PROVE  /\ str'["S"][s] = "none" /\ app'["C"][s] \notin {"idle", "syn"}
              /\ \A j \in 1 .. Len(v) : At(v, j, "SYN", s) => i = j
  <2>1. i + n \in 1 .. Len(w) /\ At(w, i + n, "SYN", s)  BY <1>9, <1>12
  <2>2. ~At(w, 1, "SYN", s)  BY <1>3, <1>6, <1>10, <2>1
  <2>3. str["S"][s] = "none" /\ app["C"][s] \notin {"idle", "syn"}  BY <1>3, <2>1
  <2>4. ASSUME NEW j \in 1 .. Len(v), At(v, j, "SYN", s) PROVE i = j
    <3>1. j + n \in 1 .. Len(w) /\ At(w, j + n, "SYN", s)  BY <1>9, <2>4
    <3>2. i + n = j + n  BY <1>3, <2>1, <3>1
    <3> QED BY <3>2
  <2> QED BY <1>3, <2>2, <2>3, <2>4
<1>13. app'["C"][s] \in {"idle", "syn"} => str'["S"][s] = "none"
  <2>1. At(w, 1, "SYN", s) => app["C"][s] \notin {"idle", "syn"}  BY <1>3, <1>6
  <2> QED BY <1>3, <2>1
<1>14. ASSUME Reading("S")', str'["S"][s] = "none"
       PROVE  /\ \A i \in 1 .. Len(v) : At(v, i, "PSH", s) =>
                    \E j \in 1 .. Len(v) : j < i /\ At(v, j, "SYN", s)
              /\ die'["C"] # "done" /\ app'["C"][s] \in {"reg", "run"} =>
                    \E j \in 1 .. Len(v) : At(v, j, "SYN", s)
  <2>1. Reading("S") /\ str["S"][s] = "none" /\ ~At(w, 1, "SYN", s)  BY <1>3, <1>14
  <2>2. ASSUME NEW i \in 1 .. Len(v), At(v, i, "PSH", s)
        PROVE  \E j \in 1 .. Len(v) : j < i /\ At(v, j, "SYN", s)
    <3>1. i + n \in 1 .. Len(w) /\ At(w, i + n, "PSH", s)  BY <1>9, <2>2
    <3>2. PICK j \in 1 .. Len(w) : j < i + n /\ At(w, j, "SYN", s)  BY <1>3, <2>1, <3>1
    <3>3. PICK l \in 1 .. Len(v) : j = l + n  BY <1>11, <2>1, <3>2
    <3>4. l < i  BY <3>2, <3>3
    <3> QED BY <1>9, <3>2, <3>3, <3>4
  <2>3. ASSUME die'["C"] # "done", app'["C"][s] \in {"reg", "run"}
        PROVE  \E j \in 1 .. Len(v) : At(v, j, "SYN", s)
    <3>1. PICK j \in 1 .. Len(w) : At(w, j, "SYN", s)  BY <1>3, <2>1, <2>3
    <3>2. PICK l \in 1 .. Len(v) : j = l + n  BY <1>11, <2>1, <3>1
    <3> QED BY <1>9, <3>1, <3>2
  <2> QED BY <2>2, <2>3
<1> QED BY <1>12, <1>13, <1>14 DEF v, SynAt

(* Nobody reads it any more, or the client is gone and its data lost.       *)
LEMMA SynShrinks ==
  ASSUME SynSeen, Shrinks("S"), NEW s \in Sids, Onward(s),
         str'["S"][s] = "none" <=> str["S"][s] = "none",
         \/ ~Reading("S")'
         \/ die'["C"] = "done" /\ \A i \in 1 .. Len(Chan("S")') : ~At(Chan("S")', i, "PSH", s)
  PROVE  SynAt(s)'
<1> DEFINE w == Chan("S")
           v == Chan("S")'
<1>3. /\ app["C"][s] \in {"idle", "syn"} => str["S"][s] = "none"
      /\ \A i \in 1 .. Len(w) : At(w, i, "SYN", s) =>
            /\ str["S"][s] = "none" /\ app["C"][s] \notin {"idle", "syn"}
            /\ \A j \in 1 .. Len(w) : At(w, j, "SYN", s) => i = j
      /\ \/ ~Reading("S")'
         \/ die'["C"] = "done" /\ \A i \in 1 .. Len(v) : ~At(v, i, "PSH", s)
  BY DEF SynSeen, SynAt
<1>4. Shrunk(v, w)  BY DEF Shrinks
<1> HIDE DEF w, v
<1>5. PICK n \in Nat : \A i \in 1 .. Len(v) : i + n \in 1 .. Len(w) /\ v[i] = w[i + n]
  BY <1>4 DEF Shrunk
<1>6. \A i \in 1 .. Len(v) : At(v, i, "SYN", s) => i + n \in 1 .. Len(w) /\ At(w, i + n, "SYN", s)
  BY <1>5 DEF At
<1>7. app'["C"][s] \in {"idle", "syn"} => str'["S"][s] = "none"  BY <1>3 DEF Onward
<1>8. ASSUME NEW i \in 1 .. Len(v), At(v, i, "SYN", s)
      PROVE  /\ str'["S"][s] = "none" /\ app'["C"][s] \notin {"idle", "syn"}
             /\ \A j \in 1 .. Len(v) : At(v, j, "SYN", s) => i = j
  <2>1. i + n \in 1 .. Len(w) /\ At(w, i + n, "SYN", s)  BY <1>6, <1>8
  <2>2. str["S"][s] = "none" /\ app["C"][s] \notin {"idle", "syn"}  BY <1>3, <2>1
  <2>3. ASSUME NEW j \in 1 .. Len(v), At(v, j, "SYN", s) PROVE i = j
    <3>1. j + n \in 1 .. Len(w) /\ At(w, j + n, "SYN", s)  BY <1>6, <2>3
    <3>2. i + n = j + n /\ i \in Int /\ j \in Int  BY <1>3, <2>1, <3>1
    <3> QED BY <3>2
  <2> QED BY <2>2, <2>3 DEF Onward
<1> QED BY <1>3, <1>7, <1>8 DEF v, SynAt

-----------------------------------------------------------------------------
(* Data on its way.                                                         *)

(* The counts of a stream are numbers.                                      *)
LEMMA SentTypes ==
  ASSUME Types, NEW e \in Ends, NEW s \in Sids
  PROVE  /\ Len(rd[e][s]) \in Nat /\ Got(e, s) \in Nat /\ sent[Peer(e)][s] \in Nat
         /\ rd[e][s] \in Seq(Nat \X Nat)
<1>1. Peer(e) \in Ends  BY PeerEnd
<1>2. rd[e][s] \in Seq(Nat \X Nat) /\ sent[Peer(e)][s] \in Nat  BY <1>1 DEF Types, TypeOK
<1>3. Len(rd[e][s]) \in Nat  BY <1>2, LenProperties
<1> QED BY <1>2, <1>3 DEF Got

(* A write that is not this stream's data.                                  *)
LEMMA DeliverAdds ==
  ASSUME Types, FormInv, Deliver, NEW e \in Ends, NEW s \in Sids, NEW u, Adds(e, u),
         \A k \in 1 .. Len(u) : ~At(u, k, "PSH", s),
         (\A k \in 1 .. Len(u) : ~At(u, k, "FIN", s)) \/ die[Peer(e)] # "done",
         Reading(e)' => Reading(e), die[Peer(e)] = "done" => die'[Peer(e)] = "done",
         str'[e][s] \in {"none", "live"} => str[e][s] \in {"none", "live"},
         Reading(e)' /\ str'[e][s] \in {"none", "live"} => Got(e, s)' = Got(e, s),
         sent'[Peer(e)][s] = sent[Peer(e)][s]
  PROVE  DeliverAt(e, s)'
<1>1. Chan(e) \in Seq(Cell) /\ Framed(Chan(e)) /\ u \in Seq(Cell) /\ Framed(u)
      /\ Chan(e)' = Chan(e) \o u
  BY ChanFramed DEF Adds
<1>2. Got(e, s) \in Nat /\ sent[Peer(e)][s] \in Nat  BY SentTypes
<1>3. SUFFICES ASSUME Reading(e)', str'[e][s] \in {"none", "live"}
               PROVE  /\ InOrder(Chan(e)', s, Got(e, s), sent[Peer(e)][s])
                      /\ die'[Peer(e)] # "done" => Complete(Chan(e)', s, Got(e, s), sent[Peer(e)][s])
  BY DEF DeliverAt
<1>4. /\ InOrder(Chan(e), s, Got(e, s), sent[Peer(e)][s])
      /\ die[Peer(e)] # "done" => Complete(Chan(e), s, Got(e, s), sent[Peer(e)][s])
  BY <1>3 DEF Deliver, DeliverAt
<1>5. Complete(Chan(e), s, Got(e, s), sent[Peer(e)][s]) \/ \A k \in 1 .. Len(u) : ~At(u, k, "FIN", s)
  BY <1>4
<1>6. /\ InOrder(Chan(e) \o u, s, Got(e, s), sent[Peer(e)][s])
      /\ Complete(Chan(e), s, Got(e, s), sent[Peer(e)][s])
            => Complete(Chan(e) \o u, s, Got(e, s), sent[Peer(e)][s])
  BY <1>1, <1>2, <1>4, <1>5, OrderJoin
<1> QED BY <1>1, <1>4, <1>6

(* A frame that is not this stream's data is taken off.                     *)
LEMMA DeliverDrops ==
  ASSUME Types, FormInv, Deliver, NEW e \in Ends, NEW s \in Sids, Drops(e),
         Reading(e)' /\ str'[e][s] \in {"none", "live"} => ~At(Chan(e), 1, "PSH", s),
         Reading(e)' => Reading(e), die[Peer(e)] = "done" => die'[Peer(e)] = "done",
         str'[e][s] \in {"none", "live"} => str[e][s] \in {"none", "live"},
         Reading(e)' /\ str'[e][s] \in {"none", "live"} => Got(e, s)' = Got(e, s),
         sent'[Peer(e)][s] = sent[Peer(e)][s]
  PROVE  DeliverAt(e, s)'
<1> DEFINE w == Chan(e)
<1>1. /\ w \in Seq(Cell) /\ Framed(w) /\ w # <<>>
      /\ Chan(e)' = SubSeq(w, w[1].len + 2, Len(w))
  BY ChanFramed DEF Drops
<1>2. Got(e, s) \in Nat /\ sent[Peer(e)][s] \in Nat  BY SentTypes
<1>3. SUFFICES ASSUME Reading(e)', str'[e][s] \in {"none", "live"}
               PROVE  /\ InOrder(Chan(e)', s, Got(e, s), sent[Peer(e)][s])
                      /\ die'[Peer(e)] # "done" => Complete(Chan(e)', s, Got(e, s), sent[Peer(e)][s])
  BY DEF DeliverAt
<1>4. /\ InOrder(w, s, Got(e, s), sent[Peer(e)][s])
      /\ die[Peer(e)] # "done" => Complete(w, s, Got(e, s), sent[Peer(e)][s])
      /\ ~At(w, 1, "PSH", s)
  BY <1>3 DEF Deliver, DeliverAt
<1> HIDE DEF w
<1>5. /\ InOrder(SubSeq(w, w[1].len + 2, Len(w)), s, Got(e, s), sent[Peer(e)][s])
      /\ Complete(w, s, Got(e, s), sent[Peer(e)][s])
            => Complete(SubSeq(w, w[1].len + 2, Len(w)), s, Got(e, s), sent[Peer(e)][s])
  BY <1>1, <1>2, <1>4, OrderLeft
<1> QED BY <1>1, <1>4, <1>5

(* Nothing is left of a writer that is gone.                                *)
LEMMA DeliverNone ==
  ASSUME NEW e \in Ends, NEW s \in Sids,
         \/ ~Reading(e)'
         \/ /\ die'[Peer(e)] = "done"
            /\ \A i \in 1 .. Len(Chan(e)') : Chan(e)'[i].cmd \notin {"PSH", "FIN"}
  PROVE  DeliverAt(e, s)'
BY OrderNone DEF DeliverAt

-----------------------------------------------------------------------------
(* The inductive invariant, and the steps that neither open a stream nor    *)
(* move its data.                                                           *)

StreamInv ==
    /\ Types /\ FormInv /\ ReplyInv /\ StageInv
    /\ SynSeen /\ EndSeen /\ Deliver
    /\ Held /\ StreamIntegrity /\ FinAfterData

Steady ==
    /\ \A e \in Ends : die[e] = "done" => die'[e] = "done"
    /\ \A e \in Ends, s \in Sids :
        \/ str'[e][s] = str[e][s]
        \/ str[e][s] = "live" /\ str'[e][s] = "dead"
        \/ /\ str[e][s] = "live" /\ str'[e][s] = "fin"
           /\ Over(Peer(e), s) /\ Len(rd[e][s]) = sent[Peer(e)][s]
    /\ \A e \in Ends :
        \/ rx'[e] = rx[e] \/ rx'[e].pc = "ended"
        \/ /\ rx[e].pc \notin {"last", "ended"} /\ rx'[e].pc # "push"
           /\ rx[e].pc = "push" => rx[e].sid \in Sids /\ Over(e, rx[e].sid)
    /\ UNCHANGED <<sent, rd>>

(* What such a step, and some others, keep of the streams and their data.   *)
Keeps ==
    /\ \A e \in Ends : /\ die[e] = "done" => die'[e] = "done"
                       /\ Reading(e)' => Reading(e)
    /\ \A s \in Sids : str'["S"][s] = "none" <=> str["S"][s] = "none"
    /\ \A e \in Ends, s \in Sids :
            /\ Over(e, s) => Over(e, s)'
            /\ str[e][s] # "none" => str'[e][s] # "none"
            /\ str'[e][s] \in {"none", "live"} => str[e][s] \in {"none", "live"}
            /\ str'[e][s] = "fin" => str[e][s] = "fin" \/ Over(Peer(e), s)
            /\ Reading(e)' /\ str'[e][s] \in {"none", "live"} => Got(e, s)' = Got(e, s)
            /\ sent'[Peer(e)][s] = sent[Peer(e)][s]

AppQuiet(s) == Onward(s) /\ (app'["C"][s] \in {"reg", "run"} => app["C"][s] \in {"reg", "run"})

(* A steady step keeps what the data on the way rests on.                   *)
LEMMA SteadyKeeps ==
  ASSUME Steady
  PROVE  /\ Keeps
         /\ \A e \in Ends : die[e] = "done" => die'[e] = "done"
         /\ \A e \in Ends, s \in Sids : /\ Over(e, s) => Over(e, s)'
                                        /\ str'[e][s] = "none" <=> str[e][s] = "none"
<1>1. \A e \in Ends : Reading(e)' => Reading(e)  BY DEF Steady, Reading
<1>2. \A e \in Ends, s \in Sids :
            /\ Over(e, s) => Over(e, s)'
            /\ str'[e][s] = "none" <=> str[e][s] = "none"
            /\ str'[e][s] \in {"none", "live"} => str[e][s] \in {"none", "live"}
            /\ str'[e][s] = "fin" => str[e][s] = "fin" \/ Over(Peer(e), s)
  BY DEF Steady, Over
<1>3. ASSUME NEW e \in Ends, NEW s \in Sids, Reading(e)', str'[e][s] \in {"none", "live"}
      PROVE  Got(e, s)' = Got(e, s)
  <2>1. CASE rx'[e] = rx[e]  BY <2>1 DEF Steady, Got, Holds
  <2>2. CASE /\ rx[e].pc \notin {"last", "ended"} /\ rx'[e].pc # "push"
             /\ rx[e].pc = "push" => rx[e].sid \in Sids /\ Over(e, rx[e].sid)
    <3>1. ~Holds(e, s) /\ ~Holds(e, s)'
      <4>1. ~Over(e, s)'  BY <1>3 DEF Over
      <4> QED BY <1>2, <2>2, <4>1 DEF Holds
    <3> QED BY <3>1 DEF Steady, Got
  <2>3. rx'[e].pc # "ended"  BY <1>3 DEF Reading
  <2> QED BY <2>1, <2>2, <2>3 DEF Steady
<1>4. /\ \A e \in Ends : die[e] = "done" => die'[e] = "done"
      /\ \A e \in Ends, s \in Sids : sent'[Peer(e)][s] = sent[Peer(e)][s]
  BY DEF Steady
<1> QED BY <1>1, <1>2, <1>3, <1>4, PeerEnd DEF Keeps

(* A steady step leaves what was read and written alone.                    *)
LEMMA SteadyRest ==
  ASSUME StreamInv, Steady
  PROVE  Held' /\ StreamIntegrity' /\ FinAfterData'
<1>1. Held'
  <2>1. ASSUME NEW e \in Ends, rx'[e].pc = "push" PROVE rx'[e] = rx[e]
    BY <2>1 DEF Steady
  <2>2. ASSUME NEW e \in Ends, rx'[e].pc = "push", NEW s, s = rx[e].sid
        PROVE  /\ s \in Sids /\ str'[e][s] # "none"
               /\ str'[e][s] = "live" => /\ rx[e].chunk = <<s, Len(rd[e][s]) + 1>>
                                         /\ Len(rd[e][s]) < sent[Peer(e)][s]
    <3>1. rx[e].pc = "push"  BY <2>1, <2>2
    <3>2. /\ s \in Sids /\ str[e][s] # "none"
          /\ str[e][s] = "live" => /\ rx[e].chunk = <<s, Len(rd[e][s]) + 1>>
                                   /\ Len(rd[e][s]) < sent[Peer(e)][s]
      BY <2>2, <3>1 DEF StreamInv, Held
    <3> QED BY <3>2 DEF Steady
  <2>3. rd' = rd /\ sent' = sent  BY DEF Steady
  <2> QED BY <2>1, <2>2, <2>3 DEF Held
<1>2. StreamIntegrity'  BY DEF StreamInv, Steady, StreamIntegrity
<1>3. FinAfterData'  BY DEF StreamInv, Steady, FinAfterData
<1> QED BY <1>1, <1>2, <1>3

(* A channel that stays gains nothing.                                      *)
LEMMA StillAdds ==
  ASSUME Types, FormInv, NEW e \in Ends, Still(e)
  PROVE  Adds(e, <<>>) /\ Len(<<>>) = 0 /\ \A k : ~(k \in 1 .. Len(<<>>))
<1>1. Silent(<<>>) /\ <<>> \in Seq(Cell)  BY SilentEmpty
<1>2. Chan(e) \o <<>> = Chan(e)  BY ChanFramed, ConcatEmptySeq
<1> QED BY <1>1, <1>2 DEF Adds, Still, Silent

(* What the other end's channel gains in a steady step.                     *)
Note(e, f) ==
    \/ Silent(f)
    \/ \E s \in Sids : f = Frame("FIN", s, 0) /\ Over(e, s)
    \/ \E s \in Sids : /\ f = Frame("SYN", s, 0) /\ e = "C"
                       /\ app["C"][s] = "syn" /\ app'["C"][s] = "reg"

AppNotes(e, f) ==
    \A s \in Sids :
        \/ AppQuiet(s)
        \/ e = "C" /\ f = Frame("SYN", s, 0) /\ app["C"][s] = "syn" /\ app'["C"][s] = "reg"

(* The headers of what is written in such a step.                           *)
LEMMA NoteMarks ==
  ASSUME NEW e \in Ends, NEW f, Note(e, f)
  PROVE  /\ f \in Seq(Cell) /\ Framed(f)
         /\ \A s \in Sids : \A k \in 1 .. Len(f) :
                /\ ~At(f, k, "PSH", s)
                /\ At(f, k, "FIN", s) => Over(e, s)
                /\ At(f, k, "SYN", s) => k = 1 /\ app["C"][s] = "syn" /\ app'["C"][s] = "reg"
         /\ \A s \in Sids : f = Frame("SYN", s, 0) => Has(f, "SYN", s)
<1>1. CASE Silent(f)
  <2>1. f \in Seq(Cell) /\ Framed(f) /\ Unmarked(f)  BY <1>1 DEF Silent
  <2>2. \A s \in Sids : f # Frame("SYN", s, 0)
    <3> SUFFICES ASSUME NEW s \in Sids, f = Frame("SYN", s, 0) PROVE FALSE  OBVIOUS
    <3>1. f[1].cmd = "SYN" /\ Len(f) = 1  BY MarkFrame
    <3> QED BY <2>1, <3>1 DEF Unmarked
  <2> QED BY <2>1, <2>2 DEF Unmarked, At
<1>2. ASSUME NEW s \in Sids, NEW cmd \in {"SYN", "FIN"}, f = Frame(cmd, s, 0)
      PROVE  /\ f \in Seq(Cell) /\ Framed(f) /\ Len(f) = 1
             /\ \A k \in 1 .. Len(f), c \in {"SYN", "PSH", "FIN"}, t \in Sids :
                    At(f, k, c, t) <=> k = 1 /\ c = cmd /\ t = s
             /\ \A t \in Sids : f = Frame("SYN", t, 0) => t = s /\ cmd = "SYN"
  <2>1. /\ f \in Seq(Cell) /\ Framed(f) /\ Len(f) = 1
        /\ \A k \in 1 .. Len(f), c \in {"SYN", "PSH", "FIN"}, t \in Sids :
               At(f, k, c, t) <=> k = 1 /\ c = cmd /\ t = s
    BY <1>2, MarkFrame
  <2>2. ASSUME NEW t \in Sids, f = Frame("SYN", t, 0) PROVE t = s /\ cmd = "SYN"
    <3>1. \A k \in 1 .. Len(f), c \in {"SYN", "PSH", "FIN"}, r \in Sids :
               At(f, k, c, r) <=> k = 1 /\ c = "SYN" /\ r = t
      BY <2>2, MarkFrame
    <3>2. At(f, 1, "SYN", t)  BY <2>1, <3>1
    <3> QED BY <2>1, <3>2
  <2> QED BY <2>1, <2>2
<1>3. ASSUME NEW s \in Sids, f = Frame("FIN", s, 0), Over(e, s)
      PROVE  /\ f \in Seq(Cell) /\ Framed(f)
             /\ \A t \in Sids : \A k \in 1 .. Len(f) :
                    /\ ~At(f, k, "PSH", t) /\ ~At(f, k, "SYN", t)
                    /\ At(f, k, "FIN", t) => Over(e, t)
             /\ \A t \in Sids : f # Frame("SYN", t, 0)
  BY <1>2, <1>3
<1>4. ASSUME NEW s \in Sids, f = Frame("SYN", s, 0), app["C"][s] = "syn", app'["C"][s] = "reg"
      PROVE  /\ f \in Seq(Cell) /\ Framed(f)
             /\ \A t \in Sids : \A k \in 1 .. Len(f) :
                    /\ ~At(f, k, "PSH", t) /\ ~At(f, k, "FIN", t)
                    /\ At(f, k, "SYN", t) => k = 1 /\ app["C"][t] = "syn" /\ app'["C"][t] = "reg"
             /\ \A t \in Sids : f = Frame("SYN", t, 0) => Has(f, "SYN", t)
  <2>1. Has(f, "SYN", s)
    <3>1. Len(f) = 1 /\ At(f, 1, "SYN", s)  BY <1>2, <1>4
    <3> QED BY <3>1 DEF Has
  <2> QED BY <1>2, <1>4, <2>1
<1> QED BY <1>1, <1>3, <1>4 DEF Note

(* A frame without data is added to the peer's channel.                     *)
LEMMA AddStep ==
  ASSUME StreamInv, Keeps, NEW e \in Ends, NEW f, NEW z, Silent(z), Note(e, f), AppNotes(e, f),
         Still(e), Chan(Peer(e))' = Chan(Peer(e)) \o (f \o z),
         Silent(f) \/ Holding(e) \/ die[e] # "done"
  PROVE  SynSeen' /\ EndSeen' /\ Deliver'
<1>0. Types /\ FormInv /\ StageInv /\ SynSeen /\ EndSeen /\ Deliver /\ Peer(e) \in Ends /\ Peer(Peer(e)) = e
      /\ "C" \in Ends /\ "S" \in Ends
  BY PeerEnd DEF StreamInv
<1>1. /\ f \in Seq(Cell) /\ Framed(f)
      /\ \A s \in Sids : \A k \in 1 .. Len(f) :
             /\ ~At(f, k, "PSH", s)
             /\ At(f, k, "FIN", s) => Over(e, s)
             /\ At(f, k, "SYN", s) => k = 1 /\ app["C"][s] = "syn" /\ app'["C"][s] = "reg"
      /\ \A s \in Sids : f = Frame("SYN", s, 0) => Has(f, "SYN", s)
  BY NoteMarks
<1> DEFINE u == f \o z
<1>2. /\ u \in Seq(Cell) /\ Framed(u)
      /\ \A c \in Counted : \A t : \A k \in 1 .. Len(u) :
                At(u, k, c, t) => k \in 1 .. Len(f) /\ At(f, k, c, t)
      /\ \A c \in Counted : \A t : \A k \in 1 .. Len(f) :
                At(f, k, c, t) => k \in 1 .. Len(u) /\ At(u, k, c, t)
  BY <1>1, FrameMarks
<1>3. Adds(Peer(e), u)  BY <1>2 DEF Adds
<1> HIDE DEF u
<1>4. /\ \A s \in Sids : \A k \in 1 .. Len(u) :
             /\ ~At(u, k, "PSH", s)
             /\ At(u, k, "FIN", s) => Over(e, s)
             /\ At(u, k, "SYN", s) => k = 1 /\ app["C"][s] = "syn" /\ app'["C"][s] = "reg"
      /\ \A s \in Sids : f = Frame("SYN", s, 0) => Has(u, "SYN", s)
  BY <1>1, <1>2 DEF Counted, Has
<1>5. Adds(e, <<>>) /\ \A k : ~(k \in 1 .. Len(<<>>))  BY <1>0, StillAdds
<1>6. /\ \A x \in Ends : /\ die[x] = "done" => die'[x] = "done"
                         /\ Reading(x)' => Reading(x)
      /\ \A s \in Sids : str'["S"][s] = "none" <=> str["S"][s] = "none"
      /\ \A x \in Ends, s \in Sids :
             /\ Over(x, s) => Over(x, s)'
             /\ str[x][s] # "none" => str'[x][s] # "none"
             /\ str'[x][s] \in {"none", "live"} => str[x][s] \in {"none", "live"}
             /\ str'[x][s] = "fin" => str[x][s] = "fin" \/ Over(Peer(x), s)
             /\ Reading(x)' /\ str'[x][s] \in {"none", "live"} => Got(x, s)' = Got(x, s)
             /\ sent'[Peer(x)][s] = sent[Peer(x)][s]
  BY DEF Keeps
<1>7. SynSeen'
  <2> SUFFICES ASSUME NEW s \in Sids PROVE SynAt(s)'  BY DEF SynSeen
  <2>1. AppQuiet(s) \/ (e = "C" /\ f = Frame("SYN", s, 0) /\ app["C"][s] = "syn" /\ app'["C"][s] = "reg")
    BY DEF AppNotes
  <2>2. /\ Onward(s)
        /\ app["C"][s] # "syn" => (app'["C"][s] \in {"reg", "run"} => app["C"][s] \in {"reg", "run"})
    BY <2>1 DEF AppQuiet, Onward
  <2>3. CASE e = "C"
    <3>1. Adds("S", u)  BY <1>3, <2>3, PeerEnd
    <3>2. app["C"][s] = "syn" /\ app'["C"][s] \in {"reg", "run"} => Has(u, "SYN", s)
      BY <1>4, <2>1 DEF AppQuiet
    <3> QED BY <1>0, <1>4, <1>6, <2>2, <3>1, <3>2, SynAdds
  <2>4. CASE e = "S"
    <3>1. Adds("S", <<>>)  BY <1>5, <2>4
    <3>2. ~(app["C"][s] = "syn" /\ app'["C"][s] \in {"reg", "run"})  BY <2>1, <2>4 DEF AppQuiet
    <3> QED BY <1>0, <1>5, <1>6, <2>2, <3>1, <3>2, SynAdds
  <2> QED BY <2>3, <2>4, PeerEnd
<1>8. EndSeen'
  <2>1. ASSUME NEW x \in Ends
        PROVE  \E v : /\ Adds(x, v)
                      /\ \A s \in Sids : \A k \in 1 .. Len(v) :
                            /\ At(v, k, "FIN", s) => Over(Peer(x), s)'
                            /\ x = "C" /\ At(v, k, "PSH", s) => str["C"][s] # "none"
    <3>1. CASE x = e  BY <1>5, <3>1
    <3>2. CASE x = Peer(e)  BY <1>0, <1>3, <1>4, <1>6, <3>2
    <3> QED BY <3>1, <3>2, PeerEnd
  <2>2. \A s \in Sids : str["C"][s] # "none" => str'["C"][s] # "none"  BY <1>0, <1>6
  <2>3. \A x \in Ends, s \in Sids : Over(x, s) => Over(x, s)'  BY <1>6
  <2>4. \A x \in Ends, s \in Sids : str'[x][s] = "fin" => str[x][s] = "fin" \/ Over(Peer(x), s)'
    BY <1>6, PeerEnd
  <2> QED BY <1>0, <2>1, <2>2, <2>3, <2>4, EndKept
<1>9. Deliver'
  <2> SUFFICES ASSUME NEW x \in Ends, NEW s \in Sids PROVE DeliverAt(x, s)'  BY DEF Deliver
  <2>1. CASE x = e  BY <1>0, <1>5, <1>6, <2>1, DeliverAdds
  <2>2. CASE x = Peer(e)
    <3>1. (\A k \in 1 .. Len(u) : ~At(u, k, "FIN", s)) \/ die[Peer(x)] # "done"
      <4>1. CASE Over(e, s) /\ ~Silent(f)
        <5>1. ~Holding(e)  BY <1>0, <4>1 DEF StageInv, Holding, Over
        <5> QED BY <1>0, <2>2, <4>1, <5>1
      <4>2. CASE ~Over(e, s)  BY <1>4, <4>2
      <4>3. CASE Silent(f)
        <5>1. \A k \in 1 .. Len(f) : ~At(f, k, "FIN", s)  BY <4>3 DEF Silent, Unmarked, At
        <5> QED BY <1>2, <5>1 DEF Counted
      <4> QED BY <4>1, <4>2, <4>3
    <3>2. Adds(x, u) /\ \A k \in 1 .. Len(u) : ~At(u, k, "PSH", s)  BY <1>3, <1>4, <2>2
    <3>3. Peer(x) \in Ends /\ (die[Peer(x)] = "done" => die'[Peer(x)] = "done")  BY <1>0, <1>6, <2>2
    <3>4. /\ Reading(x)' => Reading(x)
          /\ str'[x][s] \in {"none", "live"} => str[x][s] \in {"none", "live"}
          /\ Reading(x)' /\ str'[x][s] \in {"none", "live"} => Got(x, s)' = Got(x, s)
          /\ sent'[Peer(x)][s] = sent[Peer(x)][s]
      BY <1>6
    <3> QED BY <1>0, <3>1, <3>2, <3>3, <3>4, DeliverAdds
  <2> QED BY <2>1, <2>2, PeerEnd
<1> QED BY <1>7, <1>8, <1>9

(* Nothing is written or taken off.                                         *)
LEMMA LocalStep ==
  ASSUME StreamInv, Keeps, \A e \in Ends : Still(e), \A s \in Sids : AppQuiet(s)
  PROVE  SynSeen' /\ EndSeen' /\ Deliver'
<1>1. Silent(<<>>) /\ Note("C", <<>>) /\ AppNotes("C", <<>>)  BY SilentEmpty DEF Note, AppNotes
<1>2. Still("C") /\ Still("S") /\ Peer("C") = "S" /\ "C" \in Ends /\ "S" \in Ends  BY PeerEnd
<1>3. Chan("S") \in Seq(Cell)  BY <1>2, ChanFramed DEF StreamInv
<1>4. Chan("S") \o (<<>> \o <<>>) = Chan("S")  BY <1>3, ConcatEmptySeq
<1>5. Chan("S")' = Chan("S") \o (<<>> \o <<>>)  BY <1>2, <1>4 DEF Still
<1> QED BY <1>1, <1>2, <1>5, AddStep

(* What is written to a peer that is gone is lost, with the buffer.         *)
LEMMA LossStep ==
  ASSUME StreamInv, Keeps, NEW e \in Ends, NEW f, AppNotes(e, f),
         Still(e), Shrinks(Peer(e)), die[Peer(e)] = "done"
  PROVE  SynSeen' /\ EndSeen' /\ Deliver'
<1>0. Types /\ FormInv /\ StageInv /\ SynSeen /\ EndSeen /\ Deliver /\ Peer(e) \in Ends /\ Peer(Peer(e)) = e
      /\ "C" \in Ends /\ "S" \in Ends
  BY PeerEnd DEF StreamInv
<1>1. Adds(e, <<>>) /\ \A k : ~(k \in 1 .. Len(<<>>))  BY <1>0, StillAdds
<1>2. /\ \A x \in Ends : /\ die[x] = "done" => die'[x] = "done"
                         /\ Reading(x)' => Reading(x)
      /\ \A s \in Sids : str'["S"][s] = "none" <=> str["S"][s] = "none"
      /\ \A x \in Ends, s \in Sids :
             /\ Over(x, s) => Over(x, s)'
             /\ str[x][s] # "none" => str'[x][s] # "none"
             /\ str'[x][s] \in {"none", "live"} => str[x][s] \in {"none", "live"}
             /\ str'[x][s] = "fin" => str[x][s] = "fin" \/ Over(Peer(x), s)
             /\ Reading(x)' /\ str'[x][s] \in {"none", "live"} => Got(x, s)' = Got(x, s)
             /\ sent'[Peer(x)][s] = sent[Peer(x)][s]
  BY DEF Keeps
<1>3. ~Reading(Peer(e))'  BY <1>0, <1>2 DEF Reading
<1>4. SynSeen'
  <2> SUFFICES ASSUME NEW s \in Sids PROVE SynAt(s)'  BY DEF SynSeen
  <2>1. AppQuiet(s) \/ (e = "C" /\ f = Frame("SYN", s, 0) /\ app["C"][s] = "syn" /\ app'["C"][s] = "reg")
    BY DEF AppNotes
  <2>2. Onward(s)  BY <2>1 DEF AppQuiet, Onward
  <2>3. CASE e = "C"
    <3>1. ~Reading("S")' /\ Shrinks("S")  BY <1>3, <2>3, PeerEnd
    <3>2. str'["S"][s] = "none" <=> str["S"][s] = "none"  BY <1>0, <1>2
    <3> QED BY <1>0, <2>2, <3>1, <3>2, SynShrinks
  <2>4. CASE e = "S"
    <3>1. Adds("S", <<>>)  BY <1>1, <2>4
    <3>2. /\ ~(app["C"][s] = "syn" /\ app'["C"][s] \in {"reg", "run"})
          /\ app'["C"][s] \in {"reg", "run"} => app["C"][s] \in {"reg", "run"}
      BY <2>1, <2>4 DEF AppQuiet
    <3> QED BY <1>0, <1>1, <1>2, <2>2, <3>1, <3>2, SynAdds
  <2> QED BY <2>3, <2>4, PeerEnd
<1>5. EndSeen'
  <2>1. ASSUME NEW x \in Ends
        PROVE  \/ Shrinks(x)
               \/ \E v : /\ Adds(x, v)
                         /\ \A s \in Sids : \A k \in 1 .. Len(v) :
                            /\ At(v, k, "FIN", s) => Over(Peer(x), s)'
                            /\ x = "C" /\ At(v, k, "PSH", s) => str["C"][s] # "none"
    <3>1. CASE x = e  BY <1>1, <3>1
    <3>2. CASE x = Peer(e)  BY <3>2
    <3> QED BY <3>1, <3>2, PeerEnd
  <2>2. \A s \in Sids : str["C"][s] # "none" => str'["C"][s] # "none"  BY <1>0, <1>2
  <2>3. \A x \in Ends, s \in Sids : Over(x, s) => Over(x, s)'  BY <1>2
  <2>4. \A x \in Ends, s \in Sids : str'[x][s] = "fin" => str[x][s] = "fin" \/ Over(Peer(x), s)'
    BY <1>2, PeerEnd
  <2> QED BY <1>0, <2>1, <2>2, <2>3, <2>4, EndKept
<1>6. Deliver'
  <2> SUFFICES ASSUME NEW x \in Ends, NEW s \in Sids PROVE DeliverAt(x, s)'  BY DEF Deliver
  <2>1. CASE x = e  BY <1>0, <1>1, <1>2, <2>1, DeliverAdds
  <2>2. CASE x = Peer(e)  BY <1>0, <1>3, <2>2, DeliverNone
  <2> QED BY <2>1, <2>2, PeerEnd
<1> QED BY <1>4, <1>5, <1>6

(* A frame is written, and is none with data.                               *)
LEMMA WriteStep ==
  ASSUME SizesFit, StreamInv, Keeps, NEW e \in Ends, NEW f, Sent(e, f), Note(e, f), AppNotes(e, f)
  PROVE  /\ wire' \in [Ends -> Seq(Cell)] /\ buffer' \in Seq(Cell)
         /\ pkt' \in Nat /\ sendPadding' \in BOOLEAN
         /\ FormInv' /\ SynSeen' /\ EndSeen' /\ Deliver'
<1>0. Types /\ FormInv /\ StageInv  BY DEF StreamInv
<1>1. /\ f \in Seq(Cell) /\ Framed(f)
      /\ \A s \in Sids : \A k \in 1 .. Len(f) :
             /\ ~At(f, k, "PSH", s)
             /\ At(f, k, "FIN", s) => Over(e, s)
  BY NoteMarks
<1>2. ASSUME Holding(e), NEW k \in 1 .. Len(f) PROVE f[k].cmd \notin {"PSH", "FIN"}
  <2>1. f[k].cmd \in {"SYN", "PSH", "FIN"} => f[k].sid \in Sids  BY <1>1 DEF Framed, Proper
  <2>2. ASSUME NEW s \in Sids, At(f, k, "FIN", s) PROVE FALSE
    <3>1. Over(e, s) /\ e = "C" /\ buffering  BY <1>1, <1>2, <2>2 DEF Holding
    <3> QED BY <1>0, <3>1 DEF StageInv, Over
  <2> QED BY <1>1, <2>1, <2>2 DEF At
<1>3. /\ wire' \in [Ends -> Seq(Cell)] /\ buffer' \in Seq(Cell)
      /\ pkt' \in Nat /\ sendPadding' \in BOOLEAN
      /\ FormInv' /\ Still(e)
      /\ \/ /\ Holding(e) \/ (die[e] # "done" /\ die[Peer(e)] # "done")
            /\ \E z : Silent(z) /\ Chan(Peer(e))' = Chan(Peer(e)) \o (f \o z)
         \/ /\ die[e] # "done" /\ die[Peer(e)] = "done" /\ Shrinks(Peer(e))
  BY <1>0, <1>1, <1>2, WriteEffect
<1>4. ASSUME Holding(e) \/ die[e] # "done",
             NEW z, Silent(z), Chan(Peer(e))' = Chan(Peer(e)) \o (f \o z)
      PROVE  SynSeen' /\ EndSeen' /\ Deliver'
  BY <1>3, <1>4, AddStep
<1>5. CASE die[Peer(e)] = "done" /\ Shrinks(Peer(e))  BY <1>3, <1>5, LossStep
<1> QED BY <1>3, <1>4, <1>5

(* A frame that has arrived is taken off.                                   *)
LEMMA ReadEffect ==
  ASSUME Types, FormInv, NEW e \in Ends, NEW cmd, Arrived(e, cmd), Consumed(e), UNCHANGED bufVars
  PROVE  /\ wire' \in [Ends -> Seq(Cell)] /\ buffer' \in Seq(Cell)
         /\ pkt' \in Nat /\ sendPadding' \in BOOLEAN
         /\ FormInv' /\ Drops(e) /\ Still(Peer(e))
         /\ Chan(e)[1] = Head(wire[e]) /\ Chan(e)[1].cmd = cmd /\ cmd # "unit"
         /\ 1 \in 1 .. Len(Chan(e))
         /\ cmd = "PSH" => Chan(e)[2] = wire[e][2] /\ 2 \in 1 .. Len(Chan(e))
<1>0. wire \in [Ends -> Seq(Cell)] /\ buffer \in Seq(Cell) /\ UNCHANGED <<buffer, pkt, sendPadding>>
      /\ Framed(wire[e]) /\ "C" \in Ends /\ "S" \in Ends /\ Peer(e) \in Ends
  BY PeerEnd DEF Types, FormInv, Framed, bufVars
<1>1. wire[e] # <<>> /\ Head(wire[e]).cmd = cmd  BY DEF Arrived
<1>2. PICK w \in Seq(Cell) : w = wire[e]  BY <1>0
<1>3. /\ w # <<>> /\ Framed(w) /\ Head(w) = w[1] /\ w[1].cmd = cmd
      /\ wire' = [wire EXCEPT ![e] = SubSeq(w, w[1].len + 2, Len(w))]
  BY <1>0, <1>1, <1>2 DEF Consumed
<1>4. /\ w[1] \in Cell /\ w[1].cmd # "unit" /\ w[1].len + 1 <= Len(w) /\ Len(w) > 0 /\ Len(w) \in Nat
      /\ Framed(SubSeq(w, w[1].len + 2, Len(w)))
  BY <1>3, FramedLeft, LenProperties
<1>5. PICK k \in Nat : k = w[1].len + 1  BY <1>4 DEF Cell
<1>6. k + 1 = w[1].len + 2 /\ k <= Len(w)  BY <1>4, <1>5 DEF Cell
<1>7. PICK d \in Seq(Cell) : d = SubSeq(w, w[1].len + 2, Len(w))  BY <1>6, LeftCells
<1>8. /\ Len(d) = Len(w) - k
      /\ \A i \in 1 .. (Len(w) - k) : d[i] = w[i + k]
  <2>1. d = SubSeq(w, k + 1, Len(w))  BY <1>6, <1>7
  <2> QED BY <1>6, <2>1, LeftCells
<1>9. /\ wire' \in [Ends -> Seq(Cell)] /\ wire'[e] = d /\ wire'[Peer(e)] = wire[Peer(e)]
      /\ \A x \in Ends : x # e => wire'[x] = wire[x]
  BY <1>0, <1>3, <1>7 DEF Ends, Peer
<1>10. FormInv'
  <2>1. Whole(d) /\ Proper(d)  BY <1>4, <1>7 DEF Framed
  <2> QED BY <1>0, <1>9, <2>1 DEF FormInv
<1>11. pkt \in Nat /\ sendPadding \in BOOLEAN  BY DEF Types, TypeOK
<1>12. /\ w[1].cmd = "PSH" => 2 \in 1 .. Len(w)
  BY <1>3, <1>4, DataBehind DEF At
<1>13. CASE e = "C"
  <2>1. Chan("C") = w /\ Chan("C")' = d  BY <1>2, <1>9, <1>13 DEF Chan
  <2>2. Chan("S")' = Chan("S")  BY <1>0, <1>9, <1>13 DEF Chan, Peer
  <2> QED BY <1>0, <1>2, <1>3, <1>4, <1>7, <1>9, <1>10, <1>11, <1>12, <1>13, <2>1, <2>2
          DEF Drops, Still, Peer
<1>14. CASE e = "S"
  <2>1. Chan("S") = w \o buffer /\ Chan("S")' = d \o buffer  BY <1>0, <1>2, <1>9, <1>14 DEF Chan
  <2>2. Chan("C")' = Chan("C")  BY <1>9, <1>14 DEF Chan, Peer
  <2> DEFINE v == w \o buffer
  <2>3. /\ v \in Seq(Cell) /\ Len(v) = Len(w) + Len(buffer) /\ Len(buffer) \in Nat
        /\ \A i \in 1 .. Len(w) : v[i] = w[i]
        /\ \A i \in 1 .. Len(buffer) : v[Len(w) + i] = buffer[i]
    BY <1>0, JoinedCells
  <2> HIDE DEF v
  <2>4. v[1] = w[1] /\ 1 \in 1 .. Len(v) /\ v # <<>>
        /\ (w[1].cmd = "PSH" => v[2] = w[2] /\ 2 \in 1 .. Len(v))
    <3>1. 1 \in 1 .. Len(w) /\ Len(v) > 0  BY <1>4, <2>3
    <3>2. v # <<>>  BY <3>1
    <3> QED BY <1>4, <1>12, <2>3, <3>1, <3>2
  <2>5. SubSeq(v, v[1].len + 2, Len(v)) = d \o buffer
    <3> DEFINE x == SubSeq(v, k + 1, Len(v))
               y == d \o buffer
    <3>1. k <= Len(v) /\ Len(v) \in Nat  BY <1>4, <1>6, <2>3
    <3>2. /\ x \in Seq(Cell) /\ Len(x) = Len(v) - k
          /\ \A i \in 1 .. (Len(v) - k) : x[i] = v[i + k]
      BY <2>3, <3>1, LeftCells
    <3>3. /\ y \in Seq(Cell) /\ Len(y) = Len(d) + Len(buffer)
          /\ \A i \in 1 .. Len(d) : y[i] = d[i]
          /\ \A i \in 1 .. Len(y) : i \in 1 .. Len(d) \/ (i > Len(d) /\ i - Len(d) \in 1 .. Len(buffer)
                                                            /\ y[i] = buffer[i - Len(d)])
      BY <1>0, JoinedCells
    <3>a. x = SubSeq(v, v[1].len + 2, Len(v))  BY <1>6, <2>4
    <3> HIDE DEF x, y
    <3>4. Len(x) = Len(y)  BY <1>4, <1>6, <1>8, <2>3, <3>2, <3>3
    <3>5. ASSUME NEW i \in 1 .. Len(x) PROVE x[i] = y[i]
      <4>1. i \in 1 .. (Len(v) - k) /\ i \in 1 .. Len(y)  BY <3>2, <3>4, <3>5
      <4>2. x[i] = v[i + k]  BY <3>2, <4>1
      <4>3. CASE i \in 1 .. Len(d)
        <5>1. i + k \in 1 .. Len(w) /\ i \in 1 .. (Len(w) - k)  BY <1>4, <1>6, <1>8, <4>3
        <5> QED BY <1>8, <2>3, <3>3, <4>2, <4>3, <5>1
      <4>4. CASE i > Len(d) /\ i - Len(d) \in 1 .. Len(buffer) /\ y[i] = buffer[i - Len(d)]
        <5>1. i + k = Len(w) + (i - Len(d))  BY <1>4, <1>6, <1>8, <4>1
        <5>2. v[Len(w) + (i - Len(d))] = buffer[i - Len(d)]  BY <2>3, <4>4
        <5> QED BY <4>2, <4>4, <5>1, <5>2
      <4> QED BY <3>3, <4>1, <4>3, <4>4
    <3>6. x = y  BY <3>2, <3>3, <3>4, <3>5, SeqEqual
    <3> QED BY <3>6, <3>a DEF x, y
  <2>6. Drops("S")  BY <2>1, <2>4, <2>5 DEF Drops, v
  <2>7. Chan("S") = v  BY <2>1 DEF v
  <2> QED BY <1>0, <1>2, <1>3, <1>4, <1>9, <1>10, <1>11, <1>14, <2>2, <2>4, <2>6, <2>7 DEF Still, Peer
<1> QED BY <1>13, <1>14, PeerEnd

(* What the loop takes off in a steady step is no data of an open stream    *)
(* and no SYN, or the last frame it takes.                                  *)
LEMMA ReadStep ==
  ASSUME StreamInv, Keeps, NEW e \in Ends, Drops(e), Still(Peer(e)),
         \A s \in Sids : app'["C"][s] = app["C"][s],
         Reading(e)' => \A s \in Sids : ~At(Chan(e), 1, "SYN", s),
         \A s \in Sids : Reading(e)' /\ str'[e][s] \in {"none", "live"} => ~At(Chan(e), 1, "PSH", s)
  PROVE  SynSeen' /\ EndSeen' /\ Deliver'
<1>0. Types /\ FormInv /\ StageInv /\ SynSeen /\ EndSeen /\ Deliver /\ Peer(e) \in Ends /\ Peer(Peer(e)) = e
      /\ "C" \in Ends /\ "S" \in Ends
  BY PeerEnd DEF StreamInv
<1>1. Adds(Peer(e), <<>>) /\ \A k : ~(k \in 1 .. Len(<<>>))  BY <1>0, StillAdds
<1>2. /\ \A x \in Ends : /\ die[x] = "done" => die'[x] = "done"
                         /\ Reading(x)' => Reading(x)
      /\ \A s \in Sids : str'["S"][s] = "none" <=> str["S"][s] = "none"
      /\ \A x \in Ends, s \in Sids :
             /\ Over(x, s) => Over(x, s)'
             /\ str[x][s] # "none" => str'[x][s] # "none"
             /\ str'[x][s] \in {"none", "live"} => str[x][s] \in {"none", "live"}
             /\ str'[x][s] = "fin" => str[x][s] = "fin" \/ Over(Peer(x), s)
             /\ Reading(x)' /\ str'[x][s] \in {"none", "live"} => Got(x, s)' = Got(x, s)
             /\ sent'[Peer(x)][s] = sent[Peer(x)][s]
  BY DEF Keeps
<1>3. SynSeen'
  <2> SUFFICES ASSUME NEW s \in Sids PROVE SynAt(s)'  BY DEF SynSeen
  <2>1. AppQuiet(s) /\ app'["C"][s] = app["C"][s]  BY DEF AppQuiet, Onward
  <2>2. CASE e = "S"
    <3>1. Drops("S") /\ (Reading("S")' => ~At(Chan("S"), 1, "SYN", s))  BY <2>2
    <3>2. str'["S"][s] = "none" <=> str["S"][s] = "none"  BY <1>0, <1>2
    <3>3. (Reading("S")' => Reading("S")) /\ (die["C"] = "done" => die'["C"] = "done")  BY <1>0, <1>2
    <3> QED BY <1>0, <2>1, <3>1, <3>2, <3>3, SynDrops
  <2>3. CASE e = "C"
    <3>1. Adds("S", <<>>)  BY <1>1, <2>3, PeerEnd
    <3>2. /\ ~(app["C"][s] = "syn" /\ app'["C"][s] \in {"reg", "run"}) /\ Onward(s)
          /\ app'["C"][s] \in {"reg", "run"} => app["C"][s] \in {"reg", "run"}
      BY <2>1 DEF AppQuiet
    <3> QED BY <1>0, <1>1, <1>2, <3>1, <3>2, SynAdds
  <2> QED BY <2>2, <2>3, PeerEnd
<1>4. EndSeen'
  <2>1. ASSUME NEW x \in Ends
        PROVE  \/ Shrinks(x)
               \/ \E v : /\ Adds(x, v)
                         /\ \A s \in Sids : \A k \in 1 .. Len(v) :
                            /\ At(v, k, "FIN", s) => Over(Peer(x), s)'
                            /\ x = "C" /\ At(v, k, "PSH", s) => str["C"][s] # "none"
    <3>1. CASE x = e  BY <1>0, <3>1, DropShrinks
    <3>2. CASE x = Peer(e)  BY <1>1, <3>2
    <3> QED BY <3>1, <3>2, PeerEnd
  <2>2. \A s \in Sids : str["C"][s] # "none" => str'["C"][s] # "none"  BY <1>0, <1>2
  <2>3. \A x \in Ends, s \in Sids : Over(x, s) => Over(x, s)'  BY <1>2
  <2>4. \A x \in Ends, s \in Sids : str'[x][s] = "fin" => str[x][s] = "fin" \/ Over(Peer(x), s)'
    BY <1>2, PeerEnd
  <2> QED BY <1>0, <2>1, <2>2, <2>3, <2>4, EndKept
<1>5. Deliver'
  <2> SUFFICES ASSUME NEW x \in Ends, NEW s \in Sids PROVE DeliverAt(x, s)'  BY DEF Deliver
  <2>1. CASE x = e
    <3>1. Drops(x) /\ (Reading(x)' /\ str'[x][s] \in {"none", "live"} => ~At(Chan(x), 1, "PSH", s))
      BY <2>1
    <3> QED BY <1>0, <1>2, <3>1, DeliverDrops, PeerEnd
  <2>2. CASE x = Peer(e)  BY <1>0, <1>1, <1>2, <2>2, DeliverAdds
  <2> QED BY <2>1, <2>2, PeerEnd
<1> QED BY <1>3, <1>4, <1>5

(* The connection is closed: nothing goes to this end any more, and what it *)
(* had sent may be lost with it.                                            *)
LEMMA CloseConnStep ==
  ASSUME StreamInv, NEW e \in Ends, CloseConn(e)
  PROVE  /\ Steady /\ wire' \in [Ends -> Seq(Cell)]
         /\ FormInv' /\ SynSeen' /\ EndSeen' /\ Deliver'
<1>0. Types /\ FormInv /\ StageInv /\ SynSeen /\ EndSeen /\ Deliver /\ Peer(e) \in Ends /\ Peer(Peer(e)) = e
      /\ "C" \in Ends /\ "S" \in Ends /\ e # Peer(e)
  BY PeerEnd DEF StreamInv, Peer
<1>1. /\ die' = [die EXCEPT ![e] = "done"] /\ UNCHANGED <<str, app, streams, buffer, rx, sent, rd>>
      /\ \E kept \in {<<>>, wire[Peer(e)]} : wire' = [wire EXCEPT ![e] = <<>>, ![Peer(e)] = kept]
  BY DEF CloseConn, appVars, bufVars, dataVars
<1>2. /\ die \in [Ends -> {"no", "sweep", "conn", "done"}] /\ wire \in [Ends -> Seq(Cell)]
      /\ buffer \in Seq(Cell) /\ \A x \in Ends : Framed(wire[x]) 
  BY <1>0 DEF Types, TypeOK, FormInv, Framed
<1>3. die'[e] = "done" /\ die'[Peer(e)] = die[Peer(e)]  BY <1>0, <1>1, <1>2
<1>4. Steady  BY <1>0, <1>1, <1>3, PeerEnd DEF Steady
<1>5. PICK kept \in {<<>>, wire[Peer(e)]} : wire' = [wire EXCEPT ![e] = <<>>, ![Peer(e)] = kept]
  BY <1>1
<1>6. kept \in Seq(Cell) /\ Framed(kept) /\ <<>> \in Seq(Cell) /\ Framed(<<>>)
  BY <1>0, <1>2, SilentEmpty DEF Silent
<1>7. wire' \in [Ends -> Seq(Cell)] /\ wire'[e] = <<>> /\ wire'[Peer(e)] = kept
  BY <1>0, <1>2, <1>5, <1>6
<1>8. FormInv'
  <2>1. \A x \in Ends : Framed(wire'[x])  BY <1>6, <1>7, PeerEnd
  <2> QED BY <1>0, <1>1, <2>1 DEF FormInv, Framed
<1>9. /\ \A x \in Ends : /\ die[x] = "done" => die'[x] = "done"
                         /\ Reading(x)' => Reading(x)
      /\ \A s \in Sids : str'["S"][s] = "none" <=> str["S"][s] = "none"
      /\ \A x \in Ends, s \in Sids :
             /\ Over(x, s) => Over(x, s)'
             /\ str[x][s] # "none" => str'[x][s] # "none"
             /\ str'[x][s] \in {"none", "live"} => str[x][s] \in {"none", "live"}
             /\ str'[x][s] = "fin" => str[x][s] = "fin" \/ Over(Peer(x), s)
             /\ Reading(x)' /\ str'[x][s] \in {"none", "live"} => Got(x, s)' = Got(x, s)
             /\ sent'[Peer(x)][s] = sent[Peer(x)][s]
  BY <1>4, SteadyKeeps DEF Keeps
<1>10. ~Reading(e)'  BY <1>3 DEF Reading
(* What is on the way to either end is what was, or the client's buffer.    *)
<1>11. ASSUME NEW x \in Ends, wire'[x] = <<>>
       PROVE  Shrinks(x) /\ \A i \in 1 .. Len(Chan(x)') : Chan(x)'[i].cmd \notin {"PSH", "FIN"}
  <2>1. CASE x = "C"
    <3>1. Chan("C")' = <<>> /\ \A i : ~(i \in 1 .. Len(<<>>))  BY <1>11, <2>1 DEF Chan
    <3> QED BY <2>1, <3>1 DEF Shrinks, Shrunk
  <2>2. CASE x = "S"
    <3>1. Chan("S")' = <<>> \o buffer  BY <1>1, <1>11, <2>2 DEF Chan
    <3>2. Chan("S")' = buffer  BY <1>2, <3>1, ConcatEmptySeq
    <3>3. \A i \in 1 .. Len(buffer) : buffer[i].cmd \notin {"PSH", "FIN"}  BY <1>0 DEF FormInv
    <3>4. PICK w \in Seq(Cell) : w = wire["S"]  BY <1>0, <1>2
    <3>5. /\ Len(w \o buffer) = Len(w) + Len(buffer) /\ Len(w) \in Nat /\ Len(buffer) \in Nat
          /\ \A i \in 1 .. Len(buffer) : (w \o buffer)[Len(w) + i] = buffer[i]
      BY <1>2, JoinedCells
    <3> DEFINE v == w \o buffer
    <3>6. Chan("S") = v  BY <3>4 DEF Chan
    <3>7. /\ Len(v) = Len(w) + Len(buffer)
          /\ \A i \in 1 .. Len(buffer) : v[Len(w) + i] = buffer[i]
      BY <3>5
    <3> HIDE DEF v
    <3>8. \A i \in 1 .. Len(buffer) : i + Len(w) = Len(w) + i /\ i + Len(w) \in 1 .. Len(v)
      BY <3>5, <3>7
    <3>9. Shrunk(buffer, v)  BY <3>5, <3>7, <3>8 DEF Shrunk
    <3> QED BY <2>2, <3>2, <3>3, <3>6, <3>9 DEF Shrinks
  <2> QED BY <2>1, <2>2, PeerEnd
<1>12. ASSUME NEW x \in Ends, wire'[x] = wire[x] PROVE Still(x)
  BY <1>1, <1>12, PeerEnd DEF Still, Chan
<1>13. \A x \in Ends :
          \/ Shrinks(x) /\ \A i \in 1 .. Len(Chan(x)') : Chan(x)'[i].cmd \notin {"PSH", "FIN"}
          \/ x = Peer(e) /\ Still(x)
  BY <1>5, <1>7, <1>11, <1>12, PeerEnd
<1>14. SynSeen'
  <2> SUFFICES ASSUME NEW s \in Sids PROVE SynAt(s)'  BY DEF SynSeen
  <2>1. Onward(s) /\ app'["C"][s] = app["C"][s]  BY <1>1 DEF Onward
  <2>2. str'["S"][s] = "none" <=> str["S"][s] = "none"  BY <1>1
  <2>3. CASE Shrinks("S") /\ \A i \in 1 .. Len(Chan("S")') : Chan("S")'[i].cmd \notin {"PSH", "FIN"}
    <3>1. \A i \in 1 .. Len(Chan("S")') : ~At(Chan("S")', i, "PSH", s)  BY <2>3 DEF At
    <3>2. ~Reading("S")' \/ die'["C"] = "done"  BY <1>3, <1>10, PeerEnd
    <3> QED BY <1>0, <2>1, <2>2, <2>3, <3>1, <3>2, SynShrinks
  <2>4. CASE Still("S")
    <3>1. Adds("S", <<>>) /\ \A k : ~(k \in 1 .. Len(<<>>))  BY <1>0, <2>4, StillAdds
    <3>2. /\ ~(app["C"][s] = "syn" /\ app'["C"][s] \in {"reg", "run"})
          /\ app'["C"][s] \in {"reg", "run"} => app["C"][s] \in {"reg", "run"}
      BY <2>1
    <3>3. (Reading("S")' => Reading("S")) /\ (die["C"] = "done" => die'["C"] = "done")  BY <1>0, <1>9
    <3> QED BY <1>0, <2>1, <2>2, <3>1, <3>2, <3>3, SynAdds
  <2> QED BY <1>0, <1>13, <2>3, <2>4
<1>15. EndSeen'
  <2>1. ASSUME NEW x \in Ends
        PROVE  \/ Shrinks(x)
               \/ \E v : /\ Adds(x, v)
                         /\ \A s \in Sids : \A k \in 1 .. Len(v) :
                            /\ At(v, k, "FIN", s) => Over(Peer(x), s)'
                            /\ x = "C" /\ At(v, k, "PSH", s) => str["C"][s] # "none"
    <3>1. CASE Still(x)
      <4>1. Adds(x, <<>>) /\ \A k : ~(k \in 1 .. Len(<<>>))  BY <1>0, <3>1, StillAdds
      <4> QED BY <4>1
    <3> QED BY <1>13, <3>1
  <2>2. \A s \in Sids : str["C"][s] # "none" => str'["C"][s] # "none"  BY <1>1
  <2>3. \A x \in Ends, s \in Sids : Over(x, s) => Over(x, s)'  BY <1>9
  <2>4. \A x \in Ends, s \in Sids : str'[x][s] = "fin" => str[x][s] = "fin" \/ Over(Peer(x), s)'
    BY <1>1
  <2> QED BY <1>0, <2>1, <2>2, <2>3, <2>4, EndKept
<1>16. Deliver'
  <2> SUFFICES ASSUME NEW x \in Ends, NEW s \in Sids PROVE DeliverAt(x, s)'  BY DEF Deliver
  <2>1. CASE x = e  BY <1>10, <2>1, DeliverNone
  <2>2. CASE x = Peer(e) /\ Still(x)
    <3>1. Adds(x, <<>>) /\ \A k : ~(k \in 1 .. Len(<<>>))  BY <1>0, <2>2, StillAdds
    <3> QED BY <1>0, <1>9, <2>2, <3>1, DeliverAdds, PeerEnd
  <2>3. CASE x = Peer(e) /\ \A i \in 1 .. Len(Chan(x)') : Chan(x)'[i].cmd \notin {"PSH", "FIN"}
    <3>1. die'[Peer(x)] = "done"  BY <1>0, <1>3, <2>3
    <3> QED BY <2>3, <3>1, DeliverNone
  <2> QED BY <1>13, <2>1, <2>2, <2>3, PeerEnd
<1> QED BY <1>4, <1>7, <1>8, <1>14, <1>15, <1>16

-----------------------------------------------------------------------------
(* The types in three parts.                                                *)

ConfTypes ==
    /\ peerVersion \in [Ends -> {0, 2}]
    /\ settings \in BOOLEAN /\ buffering \in BOOLEAN
    /\ streamId \in 0 .. MaxSid /\ synPending \in 0 .. MaxSid
    /\ watch \in [cur : {"none", "armed", "expired", "fired"}, late : BOOLEAN]
    /\ pad \in [Ends -> DOMAIN Schemes]

RowTypes ==
    /\ die \in [Ends -> {"no", "sweep", "conn", "done"}]
    /\ streams \in [Ends -> SUBSET Sids]
    /\ str \in [Ends -> [Sids -> {"none", "live", "dead", "fin"}]]
    /\ app \in [Ends -> [Sids -> {"idle", "syn", "reg", "addr", "run", "fin", "done"}]]
    /\ sent \in [Ends -> [Sids -> Nat]]
    /\ rd \in [Ends -> [Sids -> Seq(Nat \X Nat)]]
    /\ rx \in [Ends -> Reader]

OutTypes ==
    /\ wire \in [Ends -> Seq(Cell)] /\ buffer \in Seq(Cell)
    /\ pkt \in Nat /\ sendPadding \in BOOLEAN

(* The parts are the whole.                                                 *)
LEMMA TypeParts == Types <=> ConfTypes /\ RowTypes /\ OutTypes
<1>1. rx \in [Ends -> Reader] => \A e \in Ends : rx[e].pc \in {"read", "push", "reply", "last", "ended"}
  BY DEF Reader
<1> QED BY <1>1 DEF Types, TypeOK, ConfTypes, RowTypes, OutTypes

(* So they are of the next state.                                           *)
LEMMA TypePartsNext == Types' <=> ConfTypes' /\ RowTypes' /\ OutTypes'
<1>1. rx' \in [Ends -> Reader] => \A e \in Ends : rx'[e].pc \in {"read", "push", "reply", "last", "ended"}
  BY DEF Reader
<1> QED BY <1>1 DEF Types, TypeOK, ConfTypes, RowTypes, OutTypes

(* The watchdog's steps keep its type.                                      *)
LEMMA WatchKept ==
  ASSUME ConfTypes, Watch
  PROVE  watch' \in [cur : {"none", "armed", "expired", "fired"}, late : BOOLEAN]
BY DEF ConfTypes, Watch, TimerExpires, WatchdogFires, LateWatcher

(* So does disarming it.                                                    *)
LEMMA DisarmedType ==
  ASSUME ConfTypes
  PROVE  Disarmed(watch) \in [cur : {"none", "armed", "expired", "fired"}, late : BOOLEAN]
<1>1. (watch.late \/ watch.cur = "expired") \in BOOLEAN  BY Zenon
<1> QED BY <1>1 DEF Disarmed

(* What the settings, schemes and counters may become.                      *)
LEMMA ConfKept ==
  ASSUME Types, FormInv, SynGuarded', Next
  PROVE  ConfTypes'
<1>0. ConfTypes /\ "C" \in Ends /\ "S" \in Ends  BY TypeParts, PeerEnd
<1>1. SUFFICES /\ peerVersion' \in [Ends -> {0, 2}]
               /\ settings' \in BOOLEAN /\ buffering' \in BOOLEAN
               /\ streamId' \in 0 .. MaxSid
               /\ watch' \in [cur : {"none", "armed", "expired", "fired"}, late : BOOLEAN]
               /\ pad' \in [Ends -> DOMAIN Schemes]
  BY MuxAssumption DEF SynGuarded, ConfTypes
<1> DEFINE same == UNCHANGED <<peerVersion, settings, buffering, streamId, watch, pad>>
           Goal == /\ peerVersion' \in [Ends -> {0, 2}]
                   /\ settings' \in BOOLEAN /\ buffering' \in BOOLEAN
                   /\ streamId' \in 0 .. MaxSid
                   /\ watch' \in [cur : {"none", "armed", "expired", "fired"}, late : BOOLEAN]
                   /\ pad' \in [Ends -> DOMAIN Schemes]
<1>2. same => Goal  BY <1>0 DEF ConfTypes
<1>3. ASSUME NEW e \in Ends, CloseSession(e) \/ Closer(e) PROVE same
  BY <1>3 DEF CloseSession, Closer, CloseStreams, CloseConn, cfgVars, synVars
<1>4. ASSUME NEW e \in Ends, NEW s \in Sids,
             StreamWrite(e, s) \/ StreamRead(e, s) \/ StreamClose(e, s) \/ StreamClosed(e, s)
      PROVE  same
  BY <1>4 DEF StreamWrite, StreamRead, StreamClose, StreamClosed, cfgVars, synVars
<1>5. ASSUME NEW s \in Sids, AddrFails(s) \/ SendSyn(s) PROVE same
  BY <1>5 DEF AddrFails, SendSyn, cfgVars, synVars
<1>6. ASSUME NEW s \in Sids, NEW failed \in BOOLEAN, Handshake(s, failed) PROVE same
  BY <1>6 DEF Handshake, cfgVars, synVars
<1>7. CASE Heartbeat  BY <1>2, <1>7 DEF Heartbeat, cfgVars, synVars
<1>8. CASE Watch
  <2>1. UNCHANGED <<peerVersion, settings, buffering, streamId, pad>>
    BY <1>8 DEF Watch, TimerExpires, WatchdogFires, LateWatcher, cfgVars
  <2> QED BY <1>0, <1>8, <2>1, WatchKept DEF ConfTypes
<1>9. ASSUME NEW s \in Sids, OpenStream(s) PROVE Goal
  <2>1. UNCHANGED <<peerVersion, settings, buffering, pad>> /\ streamId' = s
    BY <1>9 DEF OpenStream, cfgVars
  <2>2. s \in 0 .. MaxSid  BY MuxAssumption DEF Sids
  <2>3. watch' = watch \/ watch' = [Disarmed(watch) EXCEPT !.cur = "armed"]
    BY <1>9 DEF OpenStream
  <2>4. watch' \in [cur : {"none", "armed", "expired", "fired"}, late : BOOLEAN]
    BY <1>0, <2>3, DisarmedType DEF ConfTypes
  <2> QED BY <1>0, <2>1, <2>2, <2>4 DEF ConfTypes
<1>10. ASSUME NEW s \in Sids, Register(s) PROVE Goal
  <2>1. UNCHANGED <<peerVersion, settings, streamId, watch, pad>> /\ buffering' = FALSE
    BY <1>10 DEF Register, cfgVars, synVars
  <2> QED BY <1>0, <2>1 DEF ConfTypes
<1>11. ASSUME NEW e \in Ends,
              RecvPSH(e) \/ PushFails(e) \/ RecvFIN(e) \/ RecvHeartRequest(e) \/ RecvIgnored(e)
              \/ Reply(e) \/ RecvEnds(e) \/ RecvSYN
       PROVE  same
  BY <1>11 DEF RecvPSH, PushFails, RecvFIN, RecvHeartRequest, RecvIgnored, Reply, RecvEnds, RecvSYN,
               cfgVars, synVars
<1>12. CASE RecvSettings
  <2>1. UNCHANGED <<buffering, streamId, watch, pad>> /\ settings' = TRUE
        /\ (peerVersion' = peerVersion \/ peerVersion' = [peerVersion EXCEPT !["S"] = 2])
    BY <1>12 DEF RecvSettings, synVars
  <2> QED BY <1>0, <2>1 DEF ConfTypes
<1>13. CASE RecvServerSettings
  <2>1. UNCHANGED <<settings, buffering, streamId, watch, pad>>
        /\ peerVersion' = [peerVersion EXCEPT !["C"] = 2]
    BY <1>13 DEF RecvServerSettings, synVars
  <2> QED BY <1>0, <2>1 DEF ConfTypes
<1>14. CASE RecvSYNACK
  <2>1. UNCHANGED <<peerVersion, settings, buffering, streamId, pad>> /\ Answered
    BY <1>14 DEF RecvSYNACK, cfgVars
  <2>2. watch' = watch \/ watch' = Disarmed(watch)  BY <2>1 DEF Answered
  <2> QED BY <1>0, <2>1, <2>2, DisarmedType DEF ConfTypes
<1>15. CASE RecvUpdatePaddingScheme
  <2>1. UNCHANGED <<peerVersion, settings, buffering, streamId, watch>>
        /\ pad' = [pad EXCEPT !["C"] = Head(wire["C"]).arg]
        /\ wire["C"] # <<>> /\ Head(wire["C"]).cmd = "UpdatePaddingScheme"
    BY <1>15 DEF RecvUpdatePaddingScheme, synVars, Arrived
  <2>2. PICK w \in Seq(Cell) : w = wire["C"]  BY <1>0 DEF Types
  <2>3. Head(w) = w[1] /\ 1 \in 1 .. Len(w) /\ Proper(w)
    BY <1>0, <2>1, <2>2 DEF FormInv
  <2>4. Head(wire["C"]).arg \in DOMAIN Schemes  BY <2>1, <2>2, <2>3 DEF Proper
  <2> QED BY <1>0, <2>1, <2>4 DEF ConfTypes
<1> HIDE DEF same, Goal
<1>16. ASSUME NEW e \in Ends, Recv(e) PROVE Goal
  BY <1>2, <1>11, <1>12, <1>13, <1>14, <1>15, <1>16 DEF Recv, Goal
<1>17. ASSUME NEW s \in Sids, Open(s) \/ AddrFails(s) PROVE Goal
  BY <1>2, <1>5, <1>9, <1>10, <1>17 DEF Open
<1>18. CASE Heartbeat \/ Watch  BY <1>7, <1>8, <1>18 DEF Goal
<1>19. ASSUME NEW e \in Ends, CloseSession(e) \/ Closer(e) \/ Recv(e) PROVE Goal
  BY <1>2, <1>3, <1>16, <1>19
<1>20. ASSUME NEW e \in Ends, NEW s \in Sids,
              StreamWrite(e, s) \/ StreamRead(e, s) \/ StreamClose(e, s) \/ StreamClosed(e, s)
       PROVE  Goal
  BY <1>2, <1>4, <1>20
<1>21. ASSUME NEW s \in Sids, NEW failed \in BOOLEAN, Handshake(s, failed) PROVE Goal
  BY <1>2, <1>6, <1>21
<1>22. Goal  BY <1>17, <1>18, <1>19, <1>20, <1>21 DEF Next, Goal
<1> QED BY <1>22 DEF Goal

-----------------------------------------------------------------------------
(* What is left to show of each kind of step.                               *)

Settled == ConfTypes' /\ RowTypes' /\ ReplyInv' /\ StageInv'

(* The invariant after a steady step that writes and reads nothing.         *)
LEMMA LocalInv ==
  ASSUME StreamInv, Steady, UNCHANGED outVars, \A s \in Sids : AppQuiet(s), Settled
  PROVE  StreamInv'
<1>1. UNCHANGED <<wire, buffer, pkt, sendPadding>>  BY DEF outVars, bufVars
<1>2. OutTypes' /\ Types'  BY <1>1, TypeParts, TypePartsNext DEF StreamInv, OutTypes, Settled
<1>3. FormInv'  BY <1>1 DEF StreamInv, FormInv
<1>4. \A e \in Ends : Still(e)  BY <1>1 DEF Still, Chan
<1>5. SynSeen' /\ EndSeen' /\ Deliver'  BY <1>4, SteadyKeeps, LocalStep
<1>6. Held' /\ StreamIntegrity' /\ FinAfterData'  BY SteadyRest
<1> QED BY <1>2, <1>3, <1>5, <1>6 DEF StreamInv, Settled

(* After one that writes a frame without data.                              *)
LEMMA WriteInv ==
  ASSUME SizesFit, StreamInv, Steady, NEW e \in Ends, NEW f, Sent(e, f), Note(e, f), AppNotes(e, f),
         Settled
  PROVE  StreamInv'
<1>1. /\ wire' \in [Ends -> Seq(Cell)] /\ buffer' \in Seq(Cell)
      /\ pkt' \in Nat /\ sendPadding' \in BOOLEAN
      /\ FormInv' /\ SynSeen' /\ EndSeen' /\ Deliver'
  BY SteadyKeeps, WriteStep
<1>2. Types'  BY <1>1, TypePartsNext DEF OutTypes, Settled
<1>3. Held' /\ StreamIntegrity' /\ FinAfterData'  BY SteadyRest
<1> QED BY <1>1, <1>2, <1>3 DEF StreamInv, Settled

(* After one that takes a frame off.                                        *)
LEMMA ReadInv ==
  ASSUME StreamInv, Steady, NEW e \in Ends, NEW cmd, Arrived(e, cmd), Consumed(e), UNCHANGED bufVars,
         \A s \in Sids : app'["C"][s] = app["C"][s],
         cmd = "SYN" => ~Reading(e)',
         \A s \in Sids : cmd = "PSH" /\ Head(wire[e]).sid = s /\ Reading(e)' =>
            str'[e][s] \notin {"none", "live"},
         Settled
  PROVE  StreamInv'
<1>1. /\ wire' \in [Ends -> Seq(Cell)] /\ buffer' \in Seq(Cell)
      /\ pkt' \in Nat /\ sendPadding' \in BOOLEAN
      /\ FormInv' /\ Drops(e) /\ Still(Peer(e))
      /\ Chan(e)[1] = Head(wire[e]) /\ Chan(e)[1].cmd = cmd
  BY ReadEffect DEF StreamInv
<1>2. Types'  BY <1>1, TypePartsNext DEF OutTypes, Settled
<1>3. Reading(e)' => \A s \in Sids : ~At(Chan(e), 1, "SYN", s)  BY <1>1 DEF At
<1>4. \A s \in Sids : Reading(e)' /\ str'[e][s] \in {"none", "live"} => ~At(Chan(e), 1, "PSH", s)
  BY <1>1 DEF At
<1>5. SynSeen' /\ EndSeen' /\ Deliver'  BY <1>1, <1>3, <1>4, SteadyKeeps, ReadStep
<1>6. Held' /\ StreamIntegrity' /\ FinAfterData'  BY SteadyRest
<1> QED BY <1>1, <1>2, <1>5, <1>6 DEF StreamInv, Settled

-----------------------------------------------------------------------------
(* Steps of Close, of the watchdog and of the streams' goroutines that      *)
(* write nothing.                                                           *)

RxMoves ==
    \A e \in Ends :
        \/ rx'[e] = rx[e]
        \/ rx'[e].pc \in {"last", "ended"}
        \/ /\ rx[e].pc \notin {"last", "ended"}
           /\ rx'[e].pc = "reply" => rx'[e].sid \notin Sids

(* The stages of the streams when only the loop moves.                      *)
LEMMA StageRx ==
  ASSUME StageInv, RxMoves, UNCHANGED <<app, str, streams, buffering, sent, rd>>
  PROVE  StageInv'
<1>1. /\ \A e \in Ends, s \in Sids :
            /\ app[e][s] = "fin" => Over(e, s)
            /\ s \in streams[e] => str[e][s] # "none"
            /\ rx[e].pc \notin {"last", "ended"} /\ str[e][s] = "live" => s \in streams[e]
            /\ rx[e].pc = "reply" /\ rx[e].sid = s => Over(e, s)
      /\ \A e \in Ends, s \in Sids : Over(e, s)' <=> Over(e, s)
  BY DEF StageInv, Over
<1>2. ASSUME NEW e \in Ends, NEW s \in Sids
      PROVE  /\ rx'[e].pc \notin {"last", "ended"} /\ str[e][s] = "live" => s \in streams[e]
             /\ rx'[e].pc = "reply" /\ rx'[e].sid = s => Over(e, s)
  BY <1>1 DEF RxMoves
<1> QED BY <1>1, <1>2 DEF StageInv

(* No new answer is at hand.                                                *)
LEMMA ReplyKept ==
  ASSUME ReplyInv, \A e \in Ends : rx'[e] = rx[e] \/ rx'[e].pc \notin {"reply", "last"}
  PROVE  ReplyInv'
BY DEF ReplyInv

(* The loop before it looks at the next frame.                              *)
LEMMA TopReader ==
  ASSUME RowTypes, NEW e \in Ends
  PROVE  /\ rx[e] \in Reader /\ Top(e) \in Reader
         /\ Top(e).pc \in {"read", "ended"} /\ Top(e).sid = rx[e].sid
<1>1. rx[e] \in Reader  BY DEF RowTypes
<1>2. PICK p \in {"read", "ended"} : Top(e) = [rx[e] EXCEPT !.pc = p]  BY DEF Top
<1> QED BY <1>1, <1>2 DEF Reader

(* Close goes forward only.                                                 *)
LEMMA ShutDie ==
  ASSUME RowTypes, NEW e \in Ends, Shut(e) \/ UNCHANGED die
  PROVE  /\ die' \in [Ends -> {"no", "sweep", "conn", "done"}]
         /\ \A x \in Ends : die[x] = "done" => die'[x] = "done"
BY DEF RowTypes, Shut

(* The goroutines stay where they are.                                      *)
LEMMA AppSame ==
  ASSUME UNCHANGED app
  PROVE  \A s \in Sids : AppQuiet(s) /\ app'["C"][s] = app["C"][s]
BY DEF AppQuiet, Onward

(* The parts the steps rest on.                                             *)
LEMMA InvParts == StreamInv => RowTypes /\ ConfTypes /\ Types /\ FormInv /\ ReplyInv /\ StageInv
BY TypeParts DEF StreamInv

(* Only Close moves.                                                        *)
LEMMA DieOnly ==
  ASSUME StreamInv, ConfTypes', NEW e \in Ends, Shut(e) \/ UNCHANGED die,
         UNCHANGED <<app, str, streams, buffering, sent, rd, rx, outVars>>
  PROVE  StreamInv'
<1>0. RowTypes /\ ReplyInv /\ StageInv  BY InvParts
<1>1. UNCHANGED <<app, str, streams, buffering, sent, rd, rx>> /\ UNCHANGED outVars  OBVIOUS
<1>2. RowTypes'  BY <1>0, <1>1, ShutDie DEF RowTypes
<1>3. Steady  BY <1>0, <1>1, ShutDie DEF Steady
<1>4. ReplyInv'  BY <1>0, <1>1, ReplyKept
<1>5. StageInv'  BY <1>0, <1>1, StageRx DEF RxMoves
<1> QED BY <1>1, <1>2, <1>3, <1>4, <1>5, AppSame, LocalInv DEF Settled

(* Session.Close and the watchdog.                                          *)
LEMMA CloseSteps ==
  ASSUME StreamInv, ConfTypes', NEW e \in Ends, CloseSession(e) \/ Closer(e) \/ Watch
  PROVE  StreamInv'
<1>0. RowTypes /\ ReplyInv /\ StageInv /\ "C" \in Ends  BY InvParts, PeerEnd
<1>1. CASE CloseSession(e)
  BY <1>1, DieOnly DEF CloseSession, appVars, dataVars
<1>2. CASE Watch
  <2>1. Shut("C") \/ UNCHANGED die
    BY <1>2 DEF Watch, TimerExpires, WatchdogFires, LateWatcher
  <2>2. UNCHANGED <<app, str, streams, buffering, sent, rd, rx, outVars>>
    BY <1>2 DEF Watch, TimerExpires, WatchdogFires, LateWatcher, appVars, dataVars
  <2> QED BY <1>0, <2>1, <2>2, DieOnly
<1>3. CASE CloseConn(e)
  <2>1. /\ die' = [die EXCEPT ![e] = "done"]
        /\ UNCHANGED <<str, app, streams, buffering, sent, rd, rx, buffer, pkt, sendPadding>>
    BY <1>3 DEF CloseConn, appVars, bufVars, dataVars
  <2>2. RowTypes'  BY <1>0, <2>1 DEF RowTypes
  <2>3. /\ Steady /\ wire' \in [Ends -> Seq(Cell)]
        /\ FormInv' /\ SynSeen' /\ EndSeen' /\ Deliver'
    BY <1>3, CloseConnStep
  <2>4. OutTypes'  BY <2>1, <2>3, TypeParts DEF StreamInv, OutTypes
  <2>5. ReplyInv'  BY <1>0, <2>1, ReplyKept
  <2>6. StageInv'  BY <1>0, <2>1, StageRx DEF RxMoves
  <2>7. Held' /\ StreamIntegrity' /\ FinAfterData'  BY <2>3, SteadyRest
  <2>8. Types'  BY <2>2, <2>4, TypePartsNext
  <2> QED BY <2>3, <2>5, <2>6, <2>7, <2>8 DEF StreamInv
<1>4. CASE CloseStreams(e)
  <2>1. /\ str' = [str EXCEPT ![e] = [s \in Sids |->
                      IF s \in streams[e] /\ str[e][s] = "live" THEN "dead" ELSE str[e][s]]]
        /\ streams' = [streams EXCEPT ![e] = {}]
        /\ die[e] = "sweep" /\ die' = [die EXCEPT ![e] = "conn"]
        /\ UNCHANGED <<app, outVars, rx, buffering, sent, rd>>
    BY <1>4 DEF CloseStreams, dataVars
  <2> DEFINE row2 == [s \in Sids |->
                        IF s \in streams[e] /\ str[e][s] = "live" THEN "dead" ELSE str[e][s]]
  <2>2. /\ row2 \in [Sids -> {"none", "live", "dead", "fin"}]
        /\ \A s \in Sids : row2[s] = str[e][s] \/ (str[e][s] = "live" /\ row2[s] = "dead")
        /\ \A s \in Sids : row2[s] = "live" => s \notin streams[e] /\ str[e][s] = "live"
    BY <1>0 DEF RowTypes
  <2>3. str' = [str EXCEPT ![e] = row2]  BY <2>1
  <2> HIDE DEF row2
  <2>4. /\ str'[e] = row2 /\ streams'[e] = {} /\ die'[e] = "conn"
        /\ \A x \in Ends : x # e => str'[x] = str[x] /\ streams'[x] = streams[x] /\ die'[x] = die[x]
    BY <1>0, <2>1, <2>3 DEF RowTypes
  <2>5. RowTypes'  BY <1>0, <2>1, <2>2, <2>3 DEF RowTypes
  <2>6. Steady  BY <1>0, <2>1, <2>2, <2>4 DEF Steady
  <2>7. ReplyInv'  BY <1>0, <2>1, ReplyKept
  <2>8. \A x \in Ends, s \in Sids : /\ str'[x][s] = "none" <=> str[x][s] = "none"
                                    /\ Over(x, s) => Over(x, s)'
    BY <2>2, <2>4 DEF Over
  <2>9. \A x \in Ends, s \in Sids :
            /\ s \in streams'[x] => s \in streams[x]
            /\ rx[x].pc \notin {"last", "ended"} /\ str'[x][s] = "live" => s \in streams'[x]
    BY <1>0, <2>2, <2>4 DEF StageInv
  <2>10. StageInv'
    <3>1. /\ \A x \in Ends, s \in Sids :
            /\ app[x][s] = "fin" => Over(x, s)
            /\ s \in streams[x] => str[x][s] # "none"
            /\ rx[x].pc = "reply" /\ rx[x].sid = s => Over(x, s)
          /\ \A s \in Sids :
            /\ app["C"][s] \in {"idle", "syn", "reg"} => str["C"][s] = "none"
            /\ app["C"][s] # "addr"
            /\ buffering => str["C"][s] = "none"
            /\ app["S"][s] = "run" => Len(rd["S"][s]) > 0
            /\ sent["C"][s] > 0 => str["C"][s] # "none"
      BY <1>0 DEF StageInv
    <3>2. UNCHANGED <<app, rx, buffering, sent, rd>>  BY <2>1
    <3> QED BY <1>0, <2>8, <2>9, <3>1, <3>2 DEF StageInv
  <2> QED BY <2>1, <2>5, <2>6, <2>7, <2>10, AppSame, LocalInv DEF Settled
<1> QED BY <1>1, <1>2, <1>3, <1>4 DEF Closer

(* What the stages need of a step that opens no stream.                     *)
LEMMA StageMoves ==
  ASSUME StageInv, Steady, UNCHANGED buffering \/ buffering' = FALSE,
         \A x \in Ends, t \in Sids : app'[x][t] = "fin" => app[x][t] = "fin" \/ Over(x, t)',
         \A x \in Ends, t \in Sids : t \in streams'[x] => t \in streams[x],
         \A x \in Ends, t \in Sids :
            rx'[x].pc \notin {"last", "ended"} /\ str'[x][t] = "live" => t \in streams'[x],
         \A x \in Ends, t \in Sids : rx'[x].pc = "reply" /\ rx'[x].sid = t => Over(x, t)',
         \A t \in Sids : app'["C"][t] \in {"idle", "syn", "reg"} => app["C"][t] \in {"idle", "syn", "reg"},
         \A t \in Sids : app'["C"][t] = "addr" => app["C"][t] = "addr",
         \A t \in Sids : app'["S"][t] = "run" => app["S"][t] = "run"
  PROVE  StageInv'
<1>1. /\ \A e \in Ends, s \in Sids :
            /\ app[e][s] = "fin" => Over(e, s)
            /\ s \in streams[e] => str[e][s] # "none"
      /\ \A s \in Sids :
            /\ app["C"][s] \in {"idle", "syn", "reg"} => str["C"][s] = "none"
            /\ app["C"][s] # "addr"
            /\ buffering => str["C"][s] = "none"
            /\ app["S"][s] = "run" => Len(rd["S"][s]) > 0
            /\ sent["C"][s] > 0 => str["C"][s] # "none"
  BY DEF StageInv
<1>2. /\ \A e \in Ends, s \in Sids : /\ Over(e, s) => Over(e, s)'
                                     /\ str'[e][s] = "none" <=> str[e][s] = "none"
      /\ UNCHANGED <<sent, rd>>
  BY SteadyKeeps DEF Steady
<1>3. \A e \in Ends, s \in Sids :
            /\ app'[e][s] = "fin" => Over(e, s)'
            /\ s \in streams'[e] => str'[e][s] # "none"
  BY <1>1, <1>2
<1>4. \A s \in Sids :
            /\ app'["C"][s] \in {"idle", "syn", "reg"} => str'["C"][s] = "none"
            /\ app'["C"][s] # "addr"
            /\ buffering' => str'["C"][s] = "none"
            /\ app'["S"][s] = "run" => Len(rd'["S"][s]) > 0
            /\ sent'["C"][s] > 0 => str'["C"][s] # "none"
  BY <1>1, <1>2, PeerEnd
<1> QED BY <1>3, <1>4 DEF StageInv

AppSteps == {"idle", "syn", "reg", "addr", "run", "fin", "done"}

PutApp(e, s, v) == app' = [app EXCEPT ![e][s] = v]
PutStr(e, s, v) == str' = [str EXCEPT ![e][s] = v]

(* One goroutine goes on.                                                   *)
LEMMA AppPut ==
  ASSUME RowTypes, NEW e \in Ends, NEW s \in Sids, NEW v \in AppSteps, PutApp(e, s, v)
  PROVE  /\ app' \in [Ends -> [Sids -> AppSteps]] /\ app'[e][s] = v
         /\ \A x \in Ends, t \in Sids : x # e \/ t # s => app'[x][t] = app[x][t]
BY DEF RowTypes, AppSteps, PutApp

(* One stream changes.                                                      *)
LEMMA StrPut ==
  ASSUME RowTypes, NEW e \in Ends, NEW s \in Sids, NEW v \in {"none", "live", "dead", "fin"},
         PutStr(e, s, v)
  PROVE  /\ str' \in [Ends -> [Sids -> {"none", "live", "dead", "fin"}]] /\ str'[e][s] = v
         /\ \A x \in Ends, t \in Sids : x # e \/ t # s => str'[x][t] = str[x][t]
BY DEF RowTypes, PutStr

(* A stream's goroutine goes on, and perhaps closes it; the loop does not.  *)
LEMMA UserMoves ==
  ASSUME RowTypes, StageInv, ReplyInv, NEW e \in Ends, NEW s \in Sids, NEW v \in AppSteps,
         PutApp(e, s, v),
         \/ UNCHANGED str
         \/ str[e][s] = "live" /\ PutStr(e, s, "dead"),
         \/ UNCHANGED streams
         \/ str[e][s] # "live" /\ streams' = [streams EXCEPT ![e] = @ \ {s}],
         Shut(e) \/ UNCHANGED die, UNCHANGED <<sent, rd, rx>>,
         UNCHANGED buffering \/ buffering' = FALSE,
         v = "fin" => Over(e, s)',
         e = "C" /\ v \in {"idle", "syn", "reg"} => app["C"][s] \in {"idle", "syn", "reg"},
         v = "run" => e = "C", v # "addr"
  PROVE  Steady /\ RowTypes' /\ ReplyInv' /\ StageInv'
<1>1. /\ app' \in [Ends -> [Sids -> AppSteps]] /\ app'[e][s] = v
      /\ \A x \in Ends, t \in Sids : x # e \/ t # s => app'[x][t] = app[x][t]
  BY AppPut
<1>2. /\ str' \in [Ends -> [Sids -> {"none", "live", "dead", "fin"}]]
      /\ \A x \in Ends, t \in Sids :
            str'[x][t] = str[x][t] \/ (str[x][t] = "live" /\ str'[x][t] = "dead")
  <2>1. CASE UNCHANGED str  BY <2>1 DEF RowTypes
  <2>2. CASE str[e][s] = "live" /\ PutStr(e, s, "dead")  BY <2>2, StrPut
  <2> QED BY <2>1, <2>2
<1>3. /\ streams' \in [Ends -> SUBSET Sids]
      /\ \A x \in Ends, t \in Sids : t \in streams'[x] => t \in streams[x]
      /\ \A x \in Ends, t \in Sids : t \in streams[x] /\ str[x][t] = "live" => t \in streams'[x]
  <2>1. CASE UNCHANGED streams  BY <2>1 DEF RowTypes
  <2>2. CASE str[e][s] # "live" /\ streams' = [streams EXCEPT ![e] = @ \ {s}]  BY <2>2 DEF RowTypes
  <2> QED BY <2>1, <2>2
<1>4. /\ die' \in [Ends -> {"no", "sweep", "conn", "done"}]
      /\ \A x \in Ends : die[x] = "done" => die'[x] = "done"
  BY ShutDie
<1>5. Steady  BY <1>2, <1>4 DEF Steady
<1>6. RowTypes'  BY <1>1, <1>2, <1>3, <1>4 DEF RowTypes, AppSteps
<1>7. ReplyInv'  BY ReplyKept
<1>8. \A x \in Ends, t \in Sids : Over(x, t) => Over(x, t)'  BY <1>5, SteadyKeeps
<1>9. StageInv'
  <2>1. \A x \in Ends, t \in Sids : app'[x][t] = "fin" => app[x][t] = "fin" \/ Over(x, t)'  BY <1>1
  <2>2. \A x \in Ends, t \in Sids :
            rx'[x].pc \notin {"last", "ended"} /\ str'[x][t] = "live" => t \in streams'[x]
    BY <1>2, <1>3 DEF StageInv
  <2>3. \A x \in Ends, t \in Sids : rx'[x].pc = "reply" /\ rx'[x].sid = t => Over(x, t)'
    BY <1>8 DEF StageInv
  <2>4. \A t \in Sids : app'["C"][t] \in {"idle", "syn", "reg"} => app["C"][t] \in {"idle", "syn", "reg"}
    BY <1>1, PeerEnd
  <2>5. \A t \in Sids : app'["S"][t] = "run" => app["S"][t] = "run"  BY <1>1, PeerEnd
  <2>6. \A t \in Sids : app'["C"][t] = "addr" => app["C"][t] = "addr"  BY <1>1, PeerEnd
  <2> QED BY <1>3, <1>5, <2>1, <2>2, <2>3, <2>4, <2>5, <2>6, StageMoves
<1> QED BY <1>5, <1>6, <1>7, <1>9

(* The same goroutine's move is no news to the server's end of the stream.  *)
LEMMA UserQuiet ==
  ASSUME RowTypes, NEW e \in Ends, NEW s \in Sids, NEW v \in AppSteps, PutApp(e, s, v),
         e = "C" /\ v \in {"idle", "syn"} => app["C"][s] \in {"idle", "syn"},
         e = "C" /\ v \in {"reg", "run"} => app["C"][s] \in {"reg", "run"}
  PROVE  \A t \in Sids : AppQuiet(t)
<1>1. /\ app'[e][s] = v /\ "C" \in Ends
      /\ \A x \in Ends, t \in Sids : x # e \/ t # s => app'[x][t] = app[x][t]
  BY AppPut, PeerEnd
<1> QED BY <1>1 DEF AppQuiet, Onward

-----------------------------------------------------------------------------
(* Steps of the streams' goroutines that move no data.                      *)

(* OpenStream, its SYN, and the closing of streams.                         *)
LEMMA UserSteps ==
  ASSUME SizesFit, StreamInv, ConfTypes', NEW s \in Sids, NEW e \in Ends,
         OpenStream(s) \/ SendSyn(s) \/ AddrFails(s) \/ StreamClose(e, s) \/ StreamClosed(e, s)
  PROVE  StreamInv'
<1>0. /\ RowTypes /\ ReplyInv /\ StageInv /\ "C" \in Ends /\ "S" \in Ends
      /\ "C" # "S" /\ AppSteps = {"idle", "syn", "reg", "addr", "run", "fin", "done"}
  BY InvParts, PeerEnd DEF AppSteps
<1>1. CASE OpenStream(s)
  <2>1. /\ PutApp("C", s, "syn") /\ app["C"][s] = "idle"
        /\ UNCHANGED <<die, str, streams, buffering, sent, rd, rx, outVars>>
    BY <1>1 DEF OpenStream, PutApp, dataVars
  <2>2. Steady /\ RowTypes' /\ ReplyInv' /\ StageInv'
    BY <1>0, <2>1, UserMoves
  <2>3. \A t \in Sids : AppQuiet(t)  BY <1>0, <2>1, UserQuiet
  <2> QED BY <2>1, <2>2, <2>3, LocalInv DEF Settled
<1>2. CASE SendSyn(s)
  <2>1. /\ app["C"][s] = "syn"
        /\ UNCHANGED <<str, streams, buffering, sent, rd, rx>>
    BY <1>2 DEF SendSyn, dataVars
  <2>2. CASE Sent("C", Frame("SYN", s, 0)) /\ PutApp("C", s, "reg") /\ UNCHANGED die
    <3>1. Steady /\ RowTypes' /\ ReplyInv' /\ StageInv'
      BY <1>0, <2>1, <2>2, UserMoves
    <3>2. /\ app'["C"][s] = "reg"
          /\ \A x \in Ends, t \in Sids : x # "C" \/ t # s => app'[x][t] = app[x][t]
      BY <1>0, <2>2, AppPut
    <3>3. Note("C", Frame("SYN", s, 0))  BY <2>1, <3>2 DEF Note
    <3>4. AppNotes("C", Frame("SYN", s, 0))  BY <1>0, <2>1, <3>2 DEF AppNotes, AppQuiet, Onward
    <3> QED BY <1>0, <2>2, <3>1, <3>3, <3>4, WriteInv DEF Settled
  <2>3. CASE Failed("C", Frame("SYN", s, 0)) /\ PutApp("C", s, "done")
    <3>1. Shut("C") /\ UNCHANGED outVars  BY <2>3 DEF Failed
    <3>2. Steady /\ RowTypes' /\ ReplyInv' /\ StageInv'
      BY <1>0, <2>1, <2>3, <3>1, UserMoves
    <3>3. \A t \in Sids : AppQuiet(t)  BY <1>0, <2>3, UserQuiet
    <3> QED BY <3>1, <3>2, <3>3, LocalInv DEF Settled
  <2> QED BY <1>2, <2>2, <2>3 DEF SendSyn, PutApp
<1>3. CASE AddrFails(s)
  <2>1. /\ PutApp("S", s, "done")
        /\ UNCHANGED <<die, str, streams, buffering, sent, rd, rx, outVars>>
    BY <1>3 DEF AddrFails, PutApp, dataVars
  <2>2. Steady /\ RowTypes' /\ ReplyInv' /\ StageInv'
    BY <1>0, <2>1, UserMoves
  <2>3. \A t \in Sids : AppQuiet(t)  BY <1>0, <2>1, UserQuiet
  <2> QED BY <2>1, <2>2, <2>3, LocalInv DEF Settled
<1>4. CASE StreamClose(e, s)
  <2>1. UNCHANGED <<die, streams, buffering, sent, rd, rx, outVars>>
    BY <1>4 DEF StreamClose, dataVars
  <2>2. PICK v \in {"fin", "done"} :
            /\ PutApp(e, s, v)
            /\ \/ UNCHANGED str /\ v = "done"
               \/ str[e][s] = "live" /\ PutStr(e, s, "dead")
    BY <1>4 DEF StreamClose, PutApp, PutStr
  <2>3. v = "fin" => Over(e, s)'
    <3>1. CASE PutStr(e, s, "dead")  BY <1>0, <3>1, StrPut DEF Over
    <3> QED BY <2>2, <3>1
  <2>4. Steady /\ RowTypes' /\ ReplyInv' /\ StageInv'
    BY <1>0, <2>1, <2>2, <2>3, UserMoves
  <2>5. \A t \in Sids : AppQuiet(t)  BY <1>0, <2>2, UserQuiet
  <2> QED BY <2>1, <2>4, <2>5, LocalInv DEF Settled
<1>5. CASE StreamClosed(e, s)
  <2>1. /\ app[e][s] = "fin" /\ PutApp(e, s, "done")
        /\ UNCHANGED <<str, buffering, sent, rd, rx>>
    BY <1>5 DEF StreamClosed, PutApp, dataVars
  <2>2. Over(e, s) /\ str[e][s] # "live"  BY <1>0, <2>1 DEF StageInv, Over
  <2>3. \A t \in Sids : AppQuiet(t)  BY <1>0, <2>1, UserQuiet
  <2>4. CASE UNCHANGED <<die, streams, outVars>>
    <3>1. Steady /\ RowTypes' /\ ReplyInv' /\ StageInv'
      BY <1>0, <2>1, <2>4, UserMoves
    <3> QED BY <2>3, <2>4, <3>1, LocalInv DEF Settled
  <2>5. ASSUME streams' = [streams EXCEPT ![e] = @ \ {s}], Shut(e) \/ UNCHANGED die
        PROVE  Steady /\ RowTypes' /\ ReplyInv' /\ StageInv'
    <3>1. \/ UNCHANGED streams
          \/ str[e][s] # "live" /\ streams' = [streams EXCEPT ![e] = @ \ {s}]
      BY <2>2, <2>5
    <3> QED BY <1>0, <2>1, <2>5, <3>1, UserMoves
  <2>6. CASE /\ streams' = [streams EXCEPT ![e] = @ \ {s}]
             /\ Sent(e, Frame("FIN", s, 0)) /\ UNCHANGED die
    <3>1. Note(e, Frame("FIN", s, 0))  BY <2>2 DEF Note
    <3>2. AppNotes(e, Frame("FIN", s, 0))  BY <2>3 DEF AppNotes
    <3>3. Steady /\ RowTypes' /\ ReplyInv' /\ StageInv'  BY <2>5, <2>6
    <3> QED BY <2>6, <3>1, <3>2, <3>3, WriteInv DEF Settled
  <2>7. CASE streams' = [streams EXCEPT ![e] = @ \ {s}] /\ Failed(e, Frame("FIN", s, 0))
    <3>1. Shut(e) /\ UNCHANGED outVars  BY <2>7 DEF Failed
    <3>2. Steady /\ RowTypes' /\ ReplyInv' /\ StageInv'  BY <2>5, <2>7, <3>1
    <3> QED BY <2>3, <3>1, <3>2, LocalInv DEF Settled
  <2> QED BY <1>5, <2>4, <2>6, <2>7 DEF StreamClosed
<1> QED BY <1>1, <1>2, <1>3, <1>4, <1>5

(* Only a frame of no stream's data is written.                             *)
LEMMA WriteOnly ==
  ASSUME SizesFit, StreamInv, ConfTypes', NEW e \in Ends, NEW f, Silent(f), Sent(e, f),
         UNCHANGED <<die, app, str, streams, buffering, sent, rd, rx>>
  PROVE  StreamInv'
<1>0. RowTypes /\ ReplyInv /\ StageInv  BY InvParts
<1>1. UNCHANGED <<die, app, str, streams, buffering, sent, rd, rx>>  OBVIOUS
<1>2. RowTypes'  BY <1>0, <1>1 DEF RowTypes
<1>3. Steady  BY <1>1 DEF Steady
<1>4. ReplyInv'  BY <1>0, <1>1, ReplyKept
<1>5. StageInv'  BY <1>0, <1>1, StageRx DEF RxMoves
<1>6. Note(e, f)  BY DEF Note
<1>7. AppNotes(e, f)  BY <1>1, AppSame DEF AppNotes
<1> QED BY <1>2, <1>3, <1>4, <1>5, <1>6, <1>7, WriteInv DEF Settled

(* HandshakeSuccess, HandshakeFailure and a keep-alive request.             *)
LEMMA ReportSteps ==
  ASSUME SizesFit, StreamInv, ConfTypes', NEW s \in Sids, NEW failed \in BOOLEAN,
         Handshake(s, failed) \/ Heartbeat
  PROVE  StreamInv'
<1>0. /\ "C" \in Ends /\ "S" \in Ends
      /\ {"SYNACK", "HeartRequest"} \subseteq Cmds \ {"unit", "SYN", "PSH", "FIN"}
      /\ 0 \in Args /\ 1 \in Args /\ s \in Nat
  BY PeerEnd, MuxAssumption DEF Cmds, Args, Sids
<1>1. CASE Heartbeat
  <2>1. Silent(Frame("HeartRequest", 0, 0))  BY <1>0, SilentFrames
  <2>2. /\ Sent("C", Frame("HeartRequest", 0, 0))
        /\ UNCHANGED <<die, app, str, streams, buffering, sent, rd, rx>>
    BY <1>1 DEF Heartbeat, appVars, dataVars
  <2> QED BY <1>0, <2>1, <2>2, WriteOnly
<1>2. CASE Handshake(s, failed)
  <2>1. Silent(Frame("SYNACK", s, 0)) /\ Silent(LongFrame("SYNACK", s, 1))  BY <1>0, SilentFrames
  <2>2. UNCHANGED <<app, str, streams, buffering, sent, rd, rx>>
    BY <1>2 DEF Handshake, appVars, dataVars
  <2>3. PICK f \in {Frame("SYNACK", s, 0), LongFrame("SYNACK", s, 1)} :
            \/ UNCHANGED <<die, outVars>>
            \/ Sent("S", f) /\ UNCHANGED die
            \/ Failed("S", f)
    BY <1>2 DEF Handshake
  <2>4. CASE UNCHANGED <<die, outVars>>  BY <1>0, <2>2, <2>4, DieOnly
  <2>5. CASE Sent("S", f) /\ UNCHANGED die  BY <1>0, <2>1, <2>2, <2>5, WriteOnly
  <2>6. CASE Failed("S", f)
    <3>1. Shut("S") /\ UNCHANGED outVars  BY <2>6 DEF Failed
    <3> QED BY <1>0, <2>2, <3>1, DieOnly
  <2> QED BY <2>3, <2>4, <2>5, <2>6
<1> QED BY <1>1, <1>2

-----------------------------------------------------------------------------
(* What the receive loop writes, and its end.                               *)

(* The loop returns.                                                        *)
LEMMA EndedReader ==
  ASSUME RowTypes, NEW e \in Ends, rx' = [rx EXCEPT ![e].pc = "ended"]
  PROVE  /\ rx' \in [Ends -> Reader] /\ rx'[e].pc = "ended"
         /\ \A x \in Ends : x # e => rx'[x] = rx[x]
<1>1. rx \in [Ends -> Reader] /\ rx[e] \in Reader  BY DEF RowTypes
<1>2. [rx[e] EXCEPT !.pc = "ended"] \in Reader /\ [rx[e] EXCEPT !.pc = "ended"].pc = "ended"
  BY <1>1 DEF Reader
<1>3. rx' = [rx EXCEPT ![e] = [rx[e] EXCEPT !.pc = "ended"]]  OBVIOUS
<1> HIDE DEF Reader
<1> QED BY <1>1, <1>2, <1>3

(* The loop has ended.                                                      *)
LEMMA EndStep ==
  ASSUME StreamInv, ConfTypes', NEW e \in Ends, RecvEnds(e)
  PROVE  StreamInv'
<1>0. RowTypes /\ ReplyInv /\ StageInv  BY InvParts
<1>1. /\ rx' = [rx EXCEPT ![e].pc = "ended"] /\ Shut(e)
      /\ UNCHANGED <<app, str, streams, buffering, sent, rd>> /\ UNCHANGED outVars
  BY DEF RecvEnds, appVars, dataVars
<1>2. /\ rx' \in [Ends -> Reader] /\ rx'[e].pc = "ended"
      /\ \A x \in Ends : x # e => rx'[x] = rx[x]
  BY <1>0, <1>1, EndedReader
<1>3. /\ die' \in [Ends -> {"no", "sweep", "conn", "done"}]
      /\ \A x \in Ends : die[x] = "done" => die'[x] = "done"
  BY <1>0, <1>1, ShutDie
<1>4. RowTypes'  BY <1>0, <1>1, <1>2, <1>3 DEF RowTypes
<1>5. Steady  BY <1>1, <1>2, <1>3 DEF Steady
<1>6. ReplyInv'
  <2>1. \A x \in Ends : rx'[x] = rx[x] \/ rx'[x].pc \notin {"reply", "last"}  BY <1>2
  <2> QED BY <1>0, <2>1, ReplyKept
<1>7. StageInv'
  <2>1. RxMoves  BY <1>2 DEF RxMoves
  <2> QED BY <1>0, <1>1, <2>1, StageRx
<1> QED BY <1>1, <1>4, <1>5, <1>6, <1>7, AppSame, LocalInv DEF Settled

(* The session's own answers are of no stream.                              *)
LEMMA PlainSilent == \A f \in Plain : Silent(f)
<1>1. /\ {"HeartResponse", "Alert", "ServerSettings", "UpdatePaddingScheme"}
           \subseteq Cmds \ {"unit", "SYN", "PSH", "FIN"}
      /\ 0 \in Args /\ 0 \in Nat /\ \A name \in DOMAIN Schemes : name \in Args
  BY DEF Cmds, Args
<1>2. /\ Silent(Frame("HeartResponse", 0, 0)) /\ Silent(LongFrame("Alert", 0, 0))
      /\ Silent(LongFrame("ServerSettings", 0, 0))
      /\ \A name \in DOMAIN Schemes : Silent(LongFrame("UpdatePaddingScheme", 0, name))
  BY <1>1, SilentFrames
<1> QED BY <1>2 DEF Plain

(* What the loop has to write next, and what is left behind it.             *)
LEMMA ReplyHead ==
  ASSUME RowTypes, ReplyInv, StageInv, NEW e \in Ends, rx[e].pc \in {"reply", "last"}
  PROVE  /\ Tail(rx[e].reply) \in Seq(Seq(Cell))
         /\ \/ Silent(Head(rx[e].reply))
            \/ \E s \in Sids : Head(rx[e].reply) = Frame("FIN", s, 0) /\ Over(e, s)
         /\ \A i \in 1 .. Len(Tail(rx[e].reply)) :
              \/ Tail(rx[e].reply)[i] \in Plain
              \/ /\ rx[e].pc = "reply" /\ e = "C" /\ rx[e].sid \in Sids
                 /\ Tail(rx[e].reply)[i] = Frame("FIN", rx[e].sid, 0)
<1> DEFINE q == rx[e].reply
<1>1. q \in Seq(Seq(Cell)) /\ q # <<>>  BY DEF RowTypes, Reader, ReplyInv
<1>2. \A i \in 1 .. Len(q) :
          \/ q[i] \in Plain
          \/ rx[e].pc = "reply" /\ e = "C" /\ rx[e].sid \in Sids /\ q[i] = Frame("FIN", rx[e].sid, 0)
  BY DEF ReplyInv
<1>3. rx[e].pc = "reply" /\ rx[e].sid \in Sids => Over(e, rx[e].sid)  BY DEF StageInv
<1> HIDE DEF q
<1>4. /\ Len(q) \in Nat /\ Len(q) > 0 /\ Head(q) = q[1] /\ Tail(q) \in Seq(Seq(Cell))
      /\ Len(Tail(q)) = Len(q) - 1 /\ \A i \in 1 .. Len(Tail(q)) : Tail(q)[i] = q[i + 1]
  BY <1>1
<1>5. \A f \in Plain : Silent(f)  BY PlainSilent
<1>6. 1 \in 1 .. Len(q) /\ \A i \in 1 .. Len(Tail(q)) : i + 1 \in 1 .. Len(q)  BY <1>4
<1>7. Silent(Head(q)) \/ \E s \in Sids : Head(q) = Frame("FIN", s, 0) /\ Over(e, s)
  BY <1>2, <1>3, <1>4, <1>5, <1>6
<1>8. \A i \in 1 .. Len(Tail(q)) :
          \/ Tail(q)[i] \in Plain
          \/ rx[e].pc = "reply" /\ e = "C" /\ rx[e].sid \in Sids /\ Tail(q)[i] = Frame("FIN", rx[e].sid, 0)
  BY <1>2, <1>4, <1>6
<1> QED BY <1>4, <1>7, <1>8 DEF q

(* The loop's place after it has written a reply.                           *)
LEMMA ReplyNext ==
  ASSUME RowTypes, NEW e \in Ends, rx[e].pc \in {"reply", "last"},
         Tail(rx[e].reply) \in Seq(Seq(Cell)),
         rx' = [rx EXCEPT ![e] =
                  CASE rx[e].pc = "last" -> [rx[e] EXCEPT !.pc = "ended", !.reply = <<>>]
                    [] rx[e].pc # "last" /\ Tail(rx[e].reply) = <<>> ->
                         [Top(e) EXCEPT !.reply = <<>>, !.sid = 0]
                    [] OTHER -> [rx[e] EXCEPT !.reply = Tail(rx[e].reply)]]
  PROVE  /\ rx' \in [Ends -> Reader] /\ \A x \in Ends : x # e => rx'[x] = rx[x]
         /\ \/ rx'[e].pc = "ended"
            \/ rx[e].pc = "reply" /\ rx'[e].pc = "read"
            \/ /\ rx[e].pc = "reply" /\ rx'[e].pc = "reply" /\ rx'[e].sid = rx[e].sid
               /\ rx'[e].reply = Tail(rx[e].reply) /\ Tail(rx[e].reply) # <<>>
<1>1. rx \in [Ends -> Reader] /\ rx[e] \in Reader /\ <<>> \in Seq(Seq(Cell))  BY DEF RowTypes
<1>2. Top(e) \in Reader /\ Top(e).pc \in {"read", "ended"}  BY TopReader
<1>3. CASE rx[e].pc = "last"
  <2>1. rx' = [rx EXCEPT ![e] = [rx[e] EXCEPT !.pc = "ended", !.reply = <<>>]]  BY <1>3
  <2>2. /\ [rx[e] EXCEPT !.pc = "ended", !.reply = <<>>] \in Reader
        /\ [rx[e] EXCEPT !.pc = "ended", !.reply = <<>>].pc = "ended"
    BY <1>1 DEF Reader
  <2> QED BY <1>1, <2>1, <2>2
<1>4. CASE rx[e].pc = "reply" /\ Tail(rx[e].reply) = <<>>
  <2>1. rx' = [rx EXCEPT ![e] = [Top(e) EXCEPT !.reply = <<>>, !.sid = 0]]  BY <1>4
  <2>2. /\ [Top(e) EXCEPT !.reply = <<>>, !.sid = 0] \in Reader
        /\ [Top(e) EXCEPT !.reply = <<>>, !.sid = 0].pc = Top(e).pc
    BY <1>1, <1>2 DEF Reader
  <2> QED BY <1>1, <1>2, <1>4, <2>1, <2>2
<1>5. CASE rx[e].pc = "reply" /\ Tail(rx[e].reply) # <<>>
  <2>1. rx' = [rx EXCEPT ![e] = [rx[e] EXCEPT !.reply = Tail(rx[e].reply)]]  BY <1>5
  <2>2. /\ [rx[e] EXCEPT !.reply = Tail(rx[e].reply)] \in Reader
        /\ [rx[e] EXCEPT !.reply = Tail(rx[e].reply)].pc = rx[e].pc
        /\ [rx[e] EXCEPT !.reply = Tail(rx[e].reply)].sid = rx[e].sid
        /\ [rx[e] EXCEPT !.reply = Tail(rx[e].reply)].reply = Tail(rx[e].reply)
    BY <1>1 DEF Reader
  <2> QED BY <1>1, <1>5, <2>1, <2>2
<1> QED BY <1>3, <1>4, <1>5

(* The loop writes an answer.                                               *)
LEMMA ReplySteps ==
  ASSUME SizesFit, StreamInv, ConfTypes', NEW e \in Ends, Reply(e)
  PROVE  StreamInv'
<1>0. RowTypes /\ ReplyInv /\ StageInv  BY InvParts
<1>1. /\ rx[e].pc \in {"reply", "last"}
      /\ streams' = [streams EXCEPT ![e] = @ \ {rx[e].sid}]
      /\ UNCHANGED <<app, str, buffering, sent, rd>>
  BY DEF Reply, dataVars
<1>2. /\ Tail(rx[e].reply) \in Seq(Seq(Cell))
      /\ \/ Silent(Head(rx[e].reply))
         \/ \E s \in Sids : Head(rx[e].reply) = Frame("FIN", s, 0) /\ Over(e, s)
      /\ \A i \in 1 .. Len(Tail(rx[e].reply)) :
           \/ Tail(rx[e].reply)[i] \in Plain
           \/ /\ rx[e].pc = "reply" /\ e = "C" /\ rx[e].sid \in Sids
              /\ Tail(rx[e].reply)[i] = Frame("FIN", rx[e].sid, 0)
  BY <1>0, <1>1, ReplyHead
<1>3. ASSUME Shut(e) \/ UNCHANGED die,
             rx' \in [Ends -> Reader], \A x \in Ends : x # e => rx'[x] = rx[x],
             \/ rx'[e].pc = "ended"
             \/ rx[e].pc = "reply" /\ rx'[e].pc = "read"
             \/ /\ rx[e].pc = "reply" /\ rx'[e].pc = "reply" /\ rx'[e].sid = rx[e].sid
                /\ rx'[e].reply = Tail(rx[e].reply) /\ Tail(rx[e].reply) # <<>>
      PROVE  Steady /\ RowTypes' /\ ReplyInv' /\ StageInv'
  <2>1. /\ die' \in [Ends -> {"no", "sweep", "conn", "done"}]
        /\ \A x \in Ends : die[x] = "done" => die'[x] = "done"
    BY <1>0, <1>3, ShutDie
  <2>2. /\ streams' \in [Ends -> SUBSET Sids]
        /\ \A x \in Ends, t \in Sids : t \in streams'[x] => t \in streams[x]
        /\ \A x \in Ends, t \in Sids : t \in streams[x] /\ (x # e \/ t # rx[e].sid) => t \in streams'[x]
    BY <1>0, <1>1 DEF RowTypes
  <2>3. RowTypes'  BY <1>0, <1>1, <1>3, <2>1, <2>2 DEF RowTypes
  <2>4. Steady
    <3>1. \A x \in Ends :
            \/ rx'[x] = rx[x] \/ rx'[x].pc = "ended"
            \/ rx[x].pc \notin {"push", "last", "ended"} /\ rx'[x].pc # "push"
      BY <1>3
    <3> QED BY <1>1, <2>1, <3>1 DEF Steady
  <2>5. ReplyInv'
    <3>1. ASSUME NEW x \in Ends
          PROVE  rx'[x].pc \in {"reply", "last"} =>
                   /\ rx'[x].reply # <<>>
                   /\ \A i \in 1 .. Len(rx'[x].reply) :
                        \/ rx'[x].reply[i] \in Plain
                        \/ /\ rx'[x].pc = "reply" /\ x = "C" /\ rx'[x].sid \in Sids
                           /\ rx'[x].reply[i] = Frame("FIN", rx'[x].sid, 0)
      <4>1. CASE x = e  BY <1>2, <1>3, <4>1
      <4>2. CASE x # e  BY <1>0, <1>3, <4>2 DEF ReplyInv
      <4> QED BY <4>1, <4>2
    <3> QED BY <3>1 DEF ReplyInv
  <2>6. /\ \A x \in Ends, t \in Sids :
              rx[x].pc \notin {"last", "ended"} /\ str[x][t] = "live" => t \in streams[x]
        /\ \A x \in Ends, t \in Sids : rx[x].pc = "reply" /\ rx[x].sid = t => Over(x, t)
        /\ \A x \in Ends, t \in Sids : Over(x, t) => str[x][t] # "live"
    BY <1>0 DEF StageInv, Over
  <2>7. \A x \in Ends, t \in Sids : Over(x, t) => Over(x, t)'  BY <2>4, SteadyKeeps
  <2>8. \A x \in Ends, t \in Sids :
            rx'[x].pc \notin {"last", "ended"} /\ str'[x][t] = "live" => t \in streams'[x]
    BY <1>1, <1>3, <2>2, <2>6
  <2>9. \A x \in Ends, t \in Sids : rx'[x].pc = "reply" /\ rx'[x].sid = t => Over(x, t)'
    BY <1>3, <2>6, <2>7
  <2>10. UNCHANGED app /\ UNCHANGED buffering  BY <1>1
  <2>11. StageInv'  BY <1>0, <2>2, <2>4, <2>8, <2>9, <2>10, StageMoves
  <2> QED BY <2>3, <2>4, <2>5, <2>11
<1>4. CASE Failed(e, Head(rx[e].reply)) /\ rx' = [rx EXCEPT ![e].pc = "ended"]
  <2>1. Shut(e) /\ UNCHANGED outVars  BY <1>4 DEF Failed
  <2>2. /\ rx' \in [Ends -> Reader] /\ rx'[e].pc = "ended"
        /\ \A x \in Ends : x # e => rx'[x] = rx[x]
    BY <1>0, <1>4, EndedReader
  <2>3. Steady /\ RowTypes' /\ ReplyInv' /\ StageInv'  BY <1>3, <2>1, <2>2
  <2> QED BY <1>1, <2>1, <2>3, AppSame, LocalInv DEF Settled
<1>5. CASE /\ Sent(e, Head(rx[e].reply))
           /\ rx' = [rx EXCEPT ![e] =
                CASE rx[e].pc = "last" -> [rx[e] EXCEPT !.pc = "ended", !.reply = <<>>]
                  [] rx[e].pc # "last" /\ Tail(rx[e].reply) = <<>> ->
                       [Top(e) EXCEPT !.reply = <<>>, !.sid = 0]
                  [] OTHER -> [rx[e] EXCEPT !.reply = Tail(rx[e].reply)]]
           /\ Shut(e) \/ UNCHANGED die
  <2>1. /\ rx' \in [Ends -> Reader] /\ \A x \in Ends : x # e => rx'[x] = rx[x]
        /\ \/ rx'[e].pc = "ended"
           \/ rx[e].pc = "reply" /\ rx'[e].pc = "read"
           \/ /\ rx[e].pc = "reply" /\ rx'[e].pc = "reply" /\ rx'[e].sid = rx[e].sid
              /\ rx'[e].reply = Tail(rx[e].reply) /\ Tail(rx[e].reply) # <<>>
    BY <1>0, <1>1, <1>2, <1>5, ReplyNext
  <2>2. Steady /\ RowTypes' /\ ReplyInv' /\ StageInv'  BY <1>3, <1>5, <2>1
  <2>3. Note(e, Head(rx[e].reply))  BY <1>2 DEF Note
  <2>4. AppNotes(e, Head(rx[e].reply))  BY <1>1, AppSame DEF AppNotes
  <2> QED BY <1>5, <2>2, <2>3, <2>4, WriteInv DEF Settled
<1> QED BY <1>4, <1>5 DEF Reply

-----------------------------------------------------------------------------
(* Frames of no stream's data.                                              *)

Answers(e, r) ==
    r.pc \in {"reply", "last"} =>
        /\ r.reply # <<>>
        /\ \A i \in 1 .. Len(r.reply) :
             \/ r.reply[i] \in Plain
             \/ /\ r.pc = "reply" /\ e = "C" /\ r.sid \in Sids
                /\ r.reply[i] = Frame("FIN", r.sid, 0)

PutReader(e, r) == rx' = [rx EXCEPT ![e] = r]

(* The loop goes on or answers, and an answer may have closed a stream.     *)
LEMMA LoopMoves ==
  ASSUME RowTypes, ReplyInv, StageInv, NEW e \in Ends, rx[e].pc = "read",
         NEW r \in Reader, PutReader(e, r), r.pc # "push", Answers(e, r),
         \A s \in Sids : r.pc = "reply" /\ r.sid = s => Over(e, s)',
         UNCHANGED <<die, app, streams, buffering, sent, rd>>,
         UNCHANGED str \/ \E s \in Sids : str[e][s] = "live" /\ PutStr(e, s, "dead")
  PROVE  Steady /\ RowTypes' /\ ReplyInv' /\ StageInv'
<1>1. /\ rx' \in [Ends -> Reader] /\ rx'[e] = r
      /\ \A x \in Ends : x # e => rx'[x] = rx[x]
  BY DEF RowTypes, PutReader
<1>2. /\ str' \in [Ends -> [Sids -> {"none", "live", "dead", "fin"}]]
      /\ \A x \in Ends, t \in Sids :
            str'[x][t] = str[x][t] \/ (str[x][t] = "live" /\ str'[x][t] = "dead")
  <2>1. CASE UNCHANGED str  BY <2>1 DEF RowTypes
  <2>2. ASSUME NEW s \in Sids, str[e][s] = "live", PutStr(e, s, "dead")
        PROVE  /\ str' \in [Ends -> [Sids -> {"none", "live", "dead", "fin"}]]
               /\ \A x \in Ends, t \in Sids :
                     str'[x][t] = str[x][t] \/ (str[x][t] = "live" /\ str'[x][t] = "dead")
    BY <2>2, StrPut
  <2> QED BY <2>1, <2>2
<1>3. /\ UNCHANGED <<die, sent, rd>> /\ UNCHANGED app /\ UNCHANGED streams /\ UNCHANGED buffering
  OBVIOUS
<1>4. RowTypes'  BY <1>1, <1>2, <1>3 DEF RowTypes
<1>5. Steady
  <2>1. \A x \in Ends :
            \/ rx'[x] = rx[x] \/ rx'[x].pc = "ended"
            \/ rx[x].pc \notin {"push", "last", "ended"} /\ rx'[x].pc # "push"
    BY <1>1
  <2> QED BY <1>2, <1>3, <2>1 DEF Steady
<1>6. ReplyInv'
  <2>1. \A x \in Ends : Answers(x, rx'[x])  BY <1>1 DEF ReplyInv, Answers
  <2> QED BY <2>1 DEF ReplyInv, Answers
<1>7. StageInv'
  <2>1. \A x \in Ends, t \in Sids : Over(x, t) => Over(x, t)'  BY <1>5, SteadyKeeps
  <2>2. \A x \in Ends, t \in Sids : rx'[x].pc = "reply" /\ rx'[x].sid = t => Over(x, t)'
    BY <1>1, <2>1 DEF StageInv
  <2>3. \A x \in Ends, t \in Sids :
            rx'[x].pc \notin {"last", "ended"} /\ str'[x][t] = "live" => t \in streams'[x]
    BY <1>1, <1>2, <1>3 DEF StageInv
  <2> QED BY <1>3, <1>5, <2>2, <2>3, StageMoves
<1> QED BY <1>4, <1>5, <1>6, <1>7

(* The loop with answers at hand.                                           *)
LEMMA ReplyingReader ==
  ASSUME RowTypes, NEW e \in Ends, NEW sid \in Nat, NEW fs \in Seq(Seq(Cell)), Replying(e, sid, fs)
  PROVE  \E r \in Reader : /\ PutReader(e, r)
                           /\ fs = <<>> => r.pc \in {"read", "ended"}
                           /\ fs # <<>> => r.pc = "reply" /\ r.sid = sid /\ r.reply = fs
<1>1. rx[e] \in Reader /\ Top(e) \in Reader /\ Top(e).pc \in {"read", "ended"}  BY TopReader
<1>2. CASE fs = <<>>  BY <1>1, <1>2 DEF Replying, PutReader
<1>3. CASE fs # <<>>
  <2> DEFINE r == [rx[e] EXCEPT !.pc = "reply", !.sid = sid, !.reply = fs]
  <2>1. r \in Reader /\ r.pc = "reply" /\ r.sid = sid /\ r.reply = fs  BY <1>1 DEF Reader
  <2>2. PutReader(e, r)  BY <1>3 DEF Replying, PutReader
  <2> HIDE DEF r
  <2> QED BY <1>3, <2>1, <2>2
<1> QED BY <1>2, <1>3

(* A frame is taken off that opens no stream and has no open stream's data. *)
LEMMA PlainRead ==
  ASSUME StreamInv, ConfTypes', NEW e \in Ends, NEW cmd, Arrived(e, cmd), Consumed(e),
         NEW r \in Reader, PutReader(e, r), r.pc # "push", Answers(e, r),
         \A s \in Sids : r.pc = "reply" /\ r.sid = s => Over(e, s)',
         UNCHANGED <<die, app, streams, buffering, sent, rd>>, UNCHANGED bufVars,
         UNCHANGED str \/ \E s \in Sids : str[e][s] = "live" /\ PutStr(e, s, "dead"),
         cmd = "SYN" => r.pc = "last",
         cmd = "PSH" => \A s \in Sids : Head(wire[e]).sid = s => Over(e, s)
  PROVE  StreamInv'
<1>0. RowTypes /\ ReplyInv /\ StageInv /\ rx[e].pc = "read"  BY InvParts DEF Arrived
<1>1. Steady /\ RowTypes' /\ ReplyInv' /\ StageInv'  BY <1>0, LoopMoves
<1>2. \A s \in Sids : AppQuiet(s) /\ app'["C"][s] = app["C"][s]  BY AppSame
<1>3. rx'[e] = r  BY <1>0 DEF RowTypes, PutReader
<1>4. cmd = "SYN" => ~Reading(e)'  BY <1>3 DEF Reading
<1>5. \A s \in Sids : Over(e, s) => Over(e, s)'  BY <1>1, SteadyKeeps
<1>6. \A s \in Sids : cmd = "PSH" /\ Head(wire[e]).sid = s /\ Reading(e)' =>
            str'[e][s] \notin {"none", "live"}
  BY <1>5 DEF Over
<1> QED BY <1>1, <1>2, <1>4, <1>6, ReadInv DEF Settled

(* The loop without any.                                                    *)
LEMMA TopAnswers ==
  ASSUME RowTypes, NEW e \in Ends
  PROVE  Top(e) \in Reader /\ Top(e).pc # "push" /\ Answers(e, Top(e)) /\ Top(e).pc # "reply"
BY TopReader DEF Answers

(* The loop looks at the next frame.                                        *)
LEMMA TopRead ==
  ASSUME StreamInv, ConfTypes', NEW e \in Ends, NEW cmd, Arrived(e, cmd), Consumed(e),
         PutReader(e, Top(e)), UNCHANGED <<die, app, str, streams, buffering, sent, rd>>,
         UNCHANGED bufVars, cmd # "SYN",
         cmd = "PSH" => \A s \in Sids : Head(wire[e]).sid = s => Over(e, s)
  PROVE  StreamInv'
<1>1. Top(e) \in Reader /\ Top(e).pc # "push" /\ Answers(e, Top(e)) /\ Top(e).pc # "reply"
  BY InvParts, TopAnswers
<1>2. UNCHANGED <<die, app, streams, buffering, sent, rd>> /\ UNCHANGED str  OBVIOUS
<1> QED BY <1>1, <1>2, PlainRead

(* The loop writes these frames before it looks at the next one.            *)
LEMMA PlainReplies ==
  ASSUME StreamInv, ConfTypes', NEW e \in Ends, NEW cmd, Arrived(e, cmd), Consumed(e),
         NEW fs \in Seq(Seq(Cell)), \A i \in 1 .. Len(fs) : fs[i] \in Plain, Replying(e, 0, fs),
         UNCHANGED <<die, app, str, streams, buffering, sent, rd>>, UNCHANGED bufVars,
         cmd \notin {"SYN", "PSH"}
  PROVE  StreamInv'
<1>0. RowTypes /\ 0 \in Nat /\ 0 \notin Sids  BY InvParts, MuxAssumption DEF Sids
<1>1. PICK r \in Reader : /\ PutReader(e, r)
                          /\ fs = <<>> => r.pc \in {"read", "ended"}
                          /\ fs # <<>> => r.pc = "reply" /\ r.sid = 0 /\ r.reply = fs
  <2>1. PICK z \in Nat : z = 0  OBVIOUS
  <2>2. Replying(e, z, fs)  BY <2>1
  <2>3. \E r \in Reader : /\ PutReader(e, r)
                          /\ fs = <<>> => r.pc \in {"read", "ended"}
                          /\ fs # <<>> => r.pc = "reply" /\ r.sid = z /\ r.reply = fs
    BY <1>0, <2>2, ReplyingReader
  <2> QED BY <2>1, <2>3
<1>2. r.pc # "push" /\ Answers(e, r)  BY <1>1 DEF Answers
<1>3. \A s \in Sids : r.pc = "reply" /\ r.sid = s => Over(e, s)'  BY <1>0, <1>1
<1>4. UNCHANGED <<die, app, streams, buffering, sent, rd>> /\ UNCHANGED str  OBVIOUS
<1> QED BY <1>1, <1>2, <1>3, <1>4, PlainRead

(* The answers to the client's settings.                                    *)
LEMMA PlainFrames ==
  ASSUME NEW a \in Plain, NEW b \in Plain, NEW p \in BOOLEAN, NEW q \in BOOLEAN, NEW fs,
         fs = (IF p THEN <<a>> ELSE <<>>) \o (IF q THEN <<b>> ELSE <<>>)
  PROVE  fs \in Seq(Seq(Cell)) /\ \A i \in 1 .. Len(fs) : fs[i] \in Plain
<1>1. a \in Seq(Cell) /\ b \in Seq(Cell)  BY PlainSilent DEF Silent
<1>2. CASE p /\ q
  <2>1. PICK x : x = <<a>>  OBVIOUS
  <2>2. PICK y : y = <<b>>  OBVIOUS
  <2>3. /\ x \in Seq(Seq(Cell)) /\ Len(x) = 1 /\ x[1] = a
        /\ y \in Seq(Seq(Cell)) /\ Len(y) = 1 /\ y[1] = b
    BY <1>1, <2>1, <2>2
  <2>4. fs = x \o y  BY <1>2, <2>1, <2>2
  <2>5. /\ fs \in Seq(Seq(Cell)) /\ Len(fs) = Len(x) + Len(y)
        /\ \A i \in 1 .. Len(fs) : fs[i] = IF i <= Len(x) THEN x[i] ELSE y[i - Len(x)]
    BY <2>3, <2>4, ConcatProperties
  <2>6. Len(fs) = 2 /\ fs[1] = a /\ fs[2] = b  BY <2>3, <2>5
  <2> QED BY <2>5, <2>6
<1>3. CASE p /\ ~q
  <2>1. fs = <<a>>  BY <1>3
  <2> QED BY <1>1, <2>1
<1>4. CASE ~p /\ q
  <2>1. fs = <<b>>  BY <1>4
  <2> QED BY <1>1, <2>1
<1>5. CASE ~p /\ ~q
  <2>1. fs = <<>>  BY <1>5
  <2> QED BY <2>1
<1> QED BY <1>2, <1>3, <1>4, <1>5

(* A data frame's stream has been opened.                                   *)
LEMMA DataKnown ==
  ASSUME StreamInv, NEW e \in Ends, Arrived(e, "PSH"), Consumed(e), UNCHANGED bufVars
  PROVE  /\ Head(wire[e]).sid \in Sids /\ str[e][Head(wire[e]).sid] # "none"
         /\ At(Chan(e), 1, "PSH", Head(wire[e]).sid)
<1>1. Types /\ FormInv /\ SynSeen /\ EndSeen  BY DEF StreamInv
<1>2. Chan(e)[1] = Head(wire[e]) /\ Chan(e)[1].cmd = "PSH" /\ 1 \in 1 .. Len(Chan(e))
  BY <1>1, ReadEffect
<1>3. Chan(e) \in Seq(Cell) /\ Framed(Chan(e))  BY <1>1, ChanFramed
<1>4. PICK s \in Sids : s = Head(wire[e]).sid  BY <1>2, <1>3 DEF Framed, Proper
<1>5. At(Chan(e), 1, "PSH", s)  BY <1>2, <1>4 DEF At
<1>6. str[e][s] # "none"
  <2>1. CASE e = "C"  BY <1>1, <1>2, <1>5, <2>1 DEF EndSeen
  <2>2. CASE e = "S"
    <3>1. Reading("S")  BY <2>2 DEF Reading, Arrived
    <3>2. ASSUME str["S"][s] = "none" PROVE FALSE
      <4>1. SynAt(s)  BY <1>1 DEF SynSeen
      <4>2. PICK j \in 1 .. Len(Chan("S")) : j < 1
        BY <1>2, <1>5, <2>2, <3>1, <3>2, <4>1 DEF SynAt
      <4> QED BY <4>2
    <3> QED BY <2>2, <3>2
  <2> QED BY <2>1, <2>2, PeerEnd
<1> QED BY <1>4, <1>5, <1>6

(* Settings, keep-alive requests and padding.                               *)
LEMMA FrameSteps ==
  ASSUME StreamInv, ConfTypes', NEW e \in Ends,
         \/ RecvHeartRequest(e) \/ RecvIgnored(e)
         \/ e = "S" /\ RecvSettings
         \/ e = "C" /\ (RecvUpdatePaddingScheme \/ RecvServerSettings)
  PROVE  StreamInv'
<1>1. CASE RecvHeartRequest(e)
  <2>1. /\ Arrived(e, "HeartRequest") /\ Consumed(e)
        /\ Replying(e, 0, <<Frame("HeartResponse", 0, 0)>>)
        /\ UNCHANGED <<die, app, str, streams, buffering, sent, rd>> /\ UNCHANGED bufVars
    BY <1>1 DEF RecvHeartRequest, appVars, dataVars
  <2>2. Frame("HeartResponse", 0, 0) \in Plain  BY DEF Plain
  <2>3. PICK fs : fs = <<Frame("HeartResponse", 0, 0)>>  OBVIOUS
  <2>4. fs \in Seq(Seq(Cell)) /\ \A i \in 1 .. Len(fs) : fs[i] \in Plain
    BY <2>2, <2>3, PlainSilent DEF Silent
  <2>5. Replying(e, 0, fs)  BY <2>1, <2>3
  <2> QED BY <2>1, <2>4, <2>5, PlainReplies
<1>2. CASE RecvIgnored(e)
  <2>1. PICK cmd \in {"Waste", "HeartResponse"} : Arrived(e, cmd)  BY <1>2 DEF RecvIgnored
  <2>2. /\ Consumed(e) /\ PutReader(e, Top(e))
        /\ UNCHANGED <<die, app, str, streams, buffering, sent, rd>> /\ UNCHANGED bufVars
    BY <1>2 DEF RecvIgnored, PutReader, appVars, dataVars
  <2> QED BY <2>1, <2>2, TopRead
<1>3. CASE e = "S" /\ RecvSettings
  <2> DEFINE a == LongFrame("UpdatePaddingScheme", 0, pad["S"])
             b == LongFrame("ServerSettings", 0, 0)
             p == pad["C"] # pad["S"]
             q == Head(wire["S"]).arg = "v2"
  <2>1. PICK fs : fs = (IF p THEN <<a>> ELSE <<>>) \o (IF q THEN <<b>> ELSE <<>>)  OBVIOUS
  <2>2. /\ Arrived(e, "Settings") /\ Consumed(e) /\ Replying(e, 0, fs)
        /\ UNCHANGED <<die, app, str, streams, buffering, sent, rd>> /\ UNCHANGED bufVars
    BY <1>3, <2>1 DEF RecvSettings, appVars, dataVars
  <2>3. a \in Plain /\ b \in Plain /\ p \in BOOLEAN /\ q \in BOOLEAN
    BY <1>3, InvParts DEF Plain, ConfTypes
  <2> HIDE DEF a, b, p, q
  <2>4. fs \in Seq(Seq(Cell)) /\ \A i \in 1 .. Len(fs) : fs[i] \in Plain
    BY <2>1, <2>3, PlainFrames
  <2> QED BY <2>2, <2>4, PlainReplies
<1>4. CASE e = "C" /\ RecvUpdatePaddingScheme
  <2>1. /\ Arrived(e, "UpdatePaddingScheme") /\ Consumed(e) /\ PutReader(e, Top(e))
        /\ UNCHANGED <<die, app, str, streams, buffering, sent, rd>> /\ UNCHANGED bufVars
    BY <1>4 DEF RecvUpdatePaddingScheme, PutReader, appVars, dataVars
  <2> QED BY <2>1, TopRead
<1>5. CASE e = "C" /\ RecvServerSettings
  <2>1. /\ Arrived(e, "ServerSettings") /\ Consumed(e) /\ PutReader(e, Top(e))
        /\ UNCHANGED <<die, app, str, streams, buffering, sent, rd>> /\ UNCHANGED bufVars
    BY <1>5 DEF RecvServerSettings, PutReader, appVars, dataVars
  <2> QED BY <2>1, TopRead
<1> QED BY <1>1, <1>2, <1>3, <1>4, <1>5

(* An answer for a stream, and a SYN before the settings.                   *)
LEMMA AnswerStep ==
  ASSUME StreamInv, ConfTypes', RecvSYNACK
  PROVE  StreamInv'
<1>0. RowTypes /\ "C" \in Ends /\ Types /\ FormInv  BY InvParts, PeerEnd
<1>1. /\ Arrived("C", "SYNACK") /\ Consumed("C")
      /\ UNCHANGED <<die, app, streams, buffering, sent, rd>> /\ UNCHANGED bufVars
  BY DEF RecvSYNACK, dataVars
<1>2. PICK s \in Nat : s = Head(wire["C"]).sid
  <2>1. /\ Chan("C")[1] = Head(wire["C"]) /\ 1 \in 1 .. Len(Chan("C"))
        /\ Chan("C") \in Seq(Cell)
    BY <1>0, <1>1, ReadEffect, ChanFramed
  <2>2. Chan("C")[1] \in Cell  BY <2>1
  <2> QED BY <2>1, <2>2 DEF Cell
<1> DEFINE closes == Head(wire["C"]).len > 0 /\ s \in streams["C"] /\ str["C"][s] = "live"
<1>3. /\ str' = IF closes THEN [str EXCEPT !["C"][s] = "dead"] ELSE str
      /\ Replying("C", s, IF closes /\ ~Closed("C") THEN <<Frame("FIN", s, 0)>> ELSE <<>>)
  BY <1>2 DEF RecvSYNACK
<1>4. closes => s \in Sids  BY <1>0 DEF RowTypes
<1>5. UNCHANGED str \/ \E t \in Sids : str["C"][t] = "live" /\ PutStr("C", t, "dead")
  BY <1>3, <1>4 DEF PutStr
<1>6. closes => Over("C", s)'
  <2>1. ASSUME closes PROVE Over("C", s)'
    <3>1. s \in Sids /\ PutStr("C", s, "dead")  BY <1>3, <1>4, <2>1 DEF PutStr
    <3> QED BY <1>0, <3>1, StrPut DEF Over
  <2> QED BY <2>1
<1> HIDE DEF closes
<1>7. PICK fs : fs = IF closes /\ ~Closed("C") THEN <<Frame("FIN", s, 0)>> ELSE <<>>  OBVIOUS
<1>8. /\ fs \in Seq(Seq(Cell))
      /\ fs # <<>> => /\ closes
                      /\ \A i \in 1 .. Len(fs) : fs[i] = Frame("FIN", s, 0)
  <2>1. CASE closes /\ ~Closed("C")
    <3>1. Frame("FIN", s, 0) \in Seq(Cell)  BY <1>4, <2>1, MarkFrame
    <3> QED BY <1>7, <2>1, <3>1
  <2>2. CASE ~(closes /\ ~Closed("C"))  BY <1>7, <2>2
  <2> QED BY <2>1, <2>2
<1>9. PICK r \in Reader : /\ PutReader("C", r)
                          /\ fs = <<>> => r.pc \in {"read", "ended"}
                          /\ fs # <<>> => r.pc = "reply" /\ r.sid = s /\ r.reply = fs
  <2>1. Replying("C", s, fs)  BY <1>3, <1>7
  <2>2. fs \in Seq(Seq(Cell))  BY <1>8
  <2> QED BY <1>0, <1>2, <2>1, <2>2, ReplyingReader
<1>10. r.pc # "push" /\ Answers("C", r)  BY <1>4, <1>8, <1>9 DEF Answers
<1>11. \A t \in Sids : r.pc = "reply" /\ r.sid = t => Over("C", t)'  BY <1>6, <1>8, <1>9
<1> QED BY <1>0, <1>1, <1>5, <1>9, <1>10, <1>11, PlainRead

(* A SYN before the settings is refused.                                    *)
LEMMA RefuseStep ==
  ASSUME StreamInv, ConfTypes', RecvSYN, ~settings
  PROVE  StreamInv'
<1>0. RowTypes /\ "S" \in Ends  BY InvParts, PeerEnd
<1>9. PICK q : q = <<LongFrame("Alert", 0, 0)>>  OBVIOUS
<1> DEFINE r == [rx["S"] EXCEPT !.pc = "last", !.reply = q]
<1>1. /\ Arrived("S", "SYN") /\ Consumed("S") /\ PutReader("S", r)
      /\ UNCHANGED <<die, app, str, streams, buffering, sent, rd>> /\ UNCHANGED bufVars
  BY <1>9 DEF RecvSYN, PutReader, appVars, dataVars
<1>2. LongFrame("Alert", 0, 0) \in Plain /\ LongFrame("Alert", 0, 0) \in Seq(Cell)
  <2>1. LongFrame("Alert", 0, 0) \in Plain  BY DEF Plain
  <2> QED BY <2>1, PlainSilent DEF Silent
<1>3. rx["S"] \in Reader  BY <1>0, TopReader
<1>4. /\ q \in Seq(Seq(Cell)) /\ Len(q) = 1 /\ q # <<>> /\ q[1] \in Plain
      /\ \A i \in 1 .. Len(q) : i = 1
  BY <1>9, <1>2
<1>5. r \in Reader /\ r.pc = "last" /\ r.reply = q  BY <1>3, <1>4 DEF Reader
<1> HIDE DEF r
<1>8. r.pc # "push" /\ Answers("S", r)  BY <1>4, <1>5 DEF Answers
<1>6. \A s \in Sids : r.pc = "reply" /\ r.sid = s => Over("S", s)'  BY <1>5
<1>7. UNCHANGED <<die, app, streams, buffering, sent, rd>> /\ UNCHANGED str  BY <1>1
<1> QED BY <1>0, <1>1, <1>5, <1>6, <1>7, <1>8, PlainRead

(* A chunk for a stream that is not in the map any more.                    *)
LEMMA DropStep ==
  ASSUME StreamInv, ConfTypes', NEW e \in Ends, RecvPSH(e), Head(wire[e]).sid \notin streams[e]
  PROVE  StreamInv'
<1>0. RowTypes /\ StageInv  BY InvParts
<1>1. /\ Arrived(e, "PSH") /\ Consumed(e) /\ PutReader(e, Top(e))
      /\ UNCHANGED <<die, app, str, streams, buffering, sent, rd>> /\ UNCHANGED bufVars
  BY DEF RecvPSH, PutReader, appVars, dataVars
<1>2. Head(wire[e]).sid \in Sids /\ str[e][Head(wire[e]).sid] # "none"  BY <1>1, DataKnown
<1>3. \A s \in Sids : Head(wire[e]).sid = s => Over(e, s)
  <2> SUFFICES ASSUME NEW s \in Sids, Head(wire[e]).sid = s PROVE Over(e, s)  OBVIOUS
  <2>1. rx[e].pc = "read"  BY <1>1 DEF Arrived
  <2>2. str[e][s] # "live" /\ str[e][s] # "none"  BY <1>0, <1>2, <2>1 DEF StageInv
  <2>3. str[e][s] \in {"none", "live", "dead", "fin"}  BY <1>0 DEF RowTypes
  <2> QED BY <2>2, <2>3 DEF Over
<1> QED BY <1>1, <1>3, TopRead

-----------------------------------------------------------------------------
(* The end of a stream's data, and a chunk that nobody reads any more.      *)

(* The loop is done with a frame.                                           *)
LEMMA PutTop ==
  ASSUME RowTypes, NEW e \in Ends, PutReader(e, Top(e))
  PROVE  /\ rx' \in [Ends -> Reader] /\ rx'[e].pc \in {"read", "ended"}
         /\ \A x \in Ends : x # e => rx'[x] = rx[x]
<1>1. Top(e) \in Reader /\ Top(e).pc \in {"read", "ended"} /\ rx \in [Ends -> Reader]
  BY TopReader DEF RowTypes
<1> QED BY <1>1 DEF PutReader

(* The chunk in hand has lost its reader.                                   *)
LEMMA PushFailsStep ==
  ASSUME StreamInv, ConfTypes', NEW e \in Ends, PushFails(e)
  PROVE  StreamInv'
<1>0. RowTypes /\ ReplyInv /\ StageInv /\ Held  BY InvParts DEF StreamInv
<1>1. /\ rx[e].pc = "push" /\ str[e][rx[e].sid] # "live" /\ PutReader(e, Top(e))
      /\ UNCHANGED <<die, app, str, streams, buffering, sent, rd>> /\ UNCHANGED outVars
  BY DEF PushFails, PutReader, appVars, dataVars
<1>2. /\ rx' \in [Ends -> Reader] /\ rx'[e].pc \in {"read", "ended"}
      /\ \A x \in Ends : x # e => rx'[x] = rx[x]
  BY <1>0, <1>1, PutTop
<1>3. rx[e].sid \in Sids /\ Over(e, rx[e].sid)
  <2>1. PICK s : s = rx[e].sid  OBVIOUS
  <2>2. s \in Sids /\ str[e][s] # "none" /\ str[e][s] # "live"  BY <1>0, <1>1, <2>1 DEF Held
  <2>3. str[e][s] \in {"none", "live", "dead", "fin"}  BY <1>0, <2>2 DEF RowTypes
  <2> QED BY <2>1, <2>2, <2>3 DEF Over
<1>4. RowTypes'  BY <1>0, <1>1, <1>2 DEF RowTypes
<1>5. Steady
  <2>1. \A x \in Ends :
            \/ rx'[x] = rx[x] \/ rx'[x].pc = "ended"
            \/ /\ rx[x].pc \notin {"last", "ended"} /\ rx'[x].pc # "push"
               /\ rx[x].pc = "push" => rx[x].sid \in Sids /\ Over(x, rx[x].sid)
    BY <1>1, <1>2, <1>3
  <2> QED BY <1>1, <2>1 DEF Steady
<1>6. ReplyInv'
  <2>1. \A x \in Ends : rx'[x] = rx[x] \/ rx'[x].pc \notin {"reply", "last"}  BY <1>2
  <2> QED BY <1>0, <2>1, ReplyKept
<1>7. StageInv'
  <2>1. RxMoves  BY <1>1, <1>2 DEF RxMoves
  <2> QED BY <1>0, <1>1, <2>1, StageRx
<1> QED BY <1>1, <1>4, <1>5, <1>6, <1>7, AppSame, LocalInv DEF Settled

(* A FIN's stream is over at its sender, and all its data was before it.    *)
LEMMA EndKnown ==
  ASSUME StreamInv, NEW e \in Ends, Arrived(e, "FIN"), Consumed(e), UNCHANGED bufVars
  PROVE  /\ Head(wire[e]).sid \in Sids /\ Over(Peer(e), Head(wire[e]).sid)
         /\ str[e][Head(wire[e]).sid] = "live" =>
              Len(rd[e][Head(wire[e]).sid]) = sent[Peer(e)][Head(wire[e]).sid]
<1>1. Types /\ FormInv /\ EndSeen /\ Deliver /\ StreamIntegrity  BY DEF StreamInv
<1>2. Chan(e)[1] = Head(wire[e]) /\ Chan(e)[1].cmd = "FIN" /\ 1 \in 1 .. Len(Chan(e))
  BY <1>1, ReadEffect
<1>3. Chan(e) \in Seq(Cell) /\ Framed(Chan(e))  BY <1>1, ChanFramed
<1>4. PICK s \in Sids : s = Head(wire[e]).sid  BY <1>2, <1>3 DEF Framed, Proper
<1>5. At(Chan(e), 1, "FIN", s)  BY <1>2, <1>4 DEF At
<1>6. Over(Peer(e), s)  BY <1>1, <1>2, <1>5 DEF EndSeen
<1>7. ASSUME str[e][s] = "live" PROVE Len(rd[e][s]) = sent[Peer(e)][s]
  <2>1. Reading(e) /\ Got(e, s) = Len(rd[e][s])  BY DEF Reading, Arrived, Got, Holds
  <2>2. InOrder(Chan(e), s, Got(e, s), sent[Peer(e)][s])  BY <1>1, <1>7, <2>1 DEF Deliver, DeliverAt
  <2>3. /\ Got(e, s) \in Nat /\ sent[Peer(e)][s] \in Nat /\ Len(rd[e][s]) <= sent[Peer(e)][s]
    BY <1>1, SentTypes DEF StreamIntegrity
  <2>4. sent[Peer(e)][s] <= Got(e, s)  BY <1>3, <1>5, <2>2, <2>3, OrderEnd
  <2> QED BY <2>1, <2>3, <2>4
<1> QED BY <1>4, <1>6, <1>7

(* A FIN closes its stream.                                                 *)
LEMMA FinStep ==
  ASSUME StreamInv, ConfTypes', NEW e \in Ends, RecvFIN(e)
  PROVE  StreamInv'
<1>0. RowTypes /\ ReplyInv /\ StageInv  BY InvParts
<1>1. /\ Arrived(e, "FIN") /\ Consumed(e) /\ PutReader(e, Top(e))
      /\ UNCHANGED <<die, app, buffering, sent, rd>> /\ UNCHANGED bufVars
  BY DEF RecvFIN, PutReader, dataVars
<1>2. PICK s \in Sids : s = Head(wire[e]).sid  BY <1>1, EndKnown
<1>3. Over(Peer(e), s) /\ (str[e][s] = "live" => Len(rd[e][s]) = sent[Peer(e)][s])
  BY <1>1, <1>2, EndKnown
<1>4. /\ str' = IF s \in streams[e] /\ str[e][s] = "live"
                THEN [str EXCEPT ![e][s] = "fin"] ELSE str
      /\ streams' = [streams EXCEPT ![e] = @ \ {s}]
  BY <1>2 DEF RecvFIN
<1>5. rx[e].pc = "read"  BY <1>1 DEF Arrived
<1>6. str[e][s] = "live" => s \in streams[e]  BY <1>0, <1>5 DEF StageInv
<1>7. /\ str' \in [Ends -> [Sids -> {"none", "live", "dead", "fin"}]] /\ str'[e][s] # "live"
      /\ \A x \in Ends, t \in Sids :
            \/ str'[x][t] = str[x][t]
            \/ x = e /\ t = s /\ str[x][t] = "live" /\ str'[x][t] = "fin"
  <2>1. CASE str[e][s] = "live"
    <3>1. PutStr(e, s, "fin")  BY <1>4, <1>6, <2>1 DEF PutStr
    <3> QED BY <1>0, <2>1, <3>1, StrPut
  <2>2. CASE str[e][s] # "live"
    <3>1. str' = str  BY <1>4, <2>2
    <3> QED BY <1>0, <2>2, <3>1 DEF RowTypes
  <2> QED BY <2>1, <2>2
<1>8. /\ rx' \in [Ends -> Reader] /\ rx'[e].pc \in {"read", "ended"}
      /\ \A x \in Ends : x # e => rx'[x] = rx[x]
  BY <1>0, <1>1, PutTop
<1>9. /\ streams' \in [Ends -> SUBSET Sids]
      /\ \A x \in Ends, t \in Sids : t \in streams'[x] => t \in streams[x]
      /\ \A x \in Ends, t \in Sids : t \in streams[x] /\ (x # e \/ t # s) => t \in streams'[x]
  BY <1>0, <1>4 DEF RowTypes
<1>10. RowTypes'  BY <1>0, <1>1, <1>7, <1>8, <1>9 DEF RowTypes
<1>11. Steady
  <2>1. \A x \in Ends :
            \/ rx'[x] = rx[x] \/ rx'[x].pc = "ended"
            \/ /\ rx[x].pc \notin {"last", "ended"} /\ rx'[x].pc # "push"
               /\ rx[x].pc = "push" => rx[x].sid \in Sids /\ Over(x, rx[x].sid)
    BY <1>5, <1>8
  <2>2. \A x \in Ends, t \in Sids :
            \/ str'[x][t] = str[x][t]
            \/ str[x][t] = "live" /\ str'[x][t] = "dead"
            \/ /\ str[x][t] = "live" /\ str'[x][t] = "fin"
               /\ Over(Peer(x), t) /\ Len(rd[x][t]) = sent[Peer(x)][t]
    BY <1>3, <1>7
  <2> QED BY <1>1, <2>1, <2>2 DEF Steady
<1>12. ReplyInv'
  <2>1. \A x \in Ends : rx'[x] = rx[x] \/ rx'[x].pc \notin {"reply", "last"}  BY <1>8
  <2> QED BY <1>0, <2>1, ReplyKept
<1>13. StageInv'
  <2>1. \A x \in Ends, t \in Sids : Over(x, t) => Over(x, t)'  BY <1>11, SteadyKeeps
  <2>2. /\ \A x \in Ends, t \in Sids :
              rx[x].pc \notin {"last", "ended"} /\ str[x][t] = "live" => t \in streams[x]
        /\ \A x \in Ends, t \in Sids : rx[x].pc = "reply" /\ rx[x].sid = t => Over(x, t)
    BY <1>0 DEF StageInv
  <2>3. \A x \in Ends, t \in Sids :
            rx'[x].pc \notin {"last", "ended"} /\ str'[x][t] = "live" => t \in streams'[x]
    BY <1>5, <1>7, <1>8, <1>9, <2>2
  <2>4. \A x \in Ends, t \in Sids : rx'[x].pc = "reply" /\ rx'[x].sid = t => Over(x, t)'
    BY <1>8, <2>1, <2>2
  <2>5. UNCHANGED app /\ UNCHANGED buffering  BY <1>1
  <2> QED BY <1>0, <1>9, <1>11, <2>3, <2>4, <2>5, StageMoves
<1>14. \A t \in Sids : app'["C"][t] = app["C"][t]  BY <1>1, AppSame
<1> QED BY <1>1, <1>10, <1>11, <1>12, <1>13, <1>14, ReadInv DEF Settled

-----------------------------------------------------------------------------
(* A stream is opened at the client, and a chunk is handed to its reader.   *)

(* The invariant after a step that neither writes nor takes a frame off.    *)
LEMMA StillInv ==
  ASSUME StreamInv, Keeps, UNCHANGED outVars, \A s \in Sids : AppQuiet(s), Settled,
         Held', StreamIntegrity', FinAfterData'
  PROVE  StreamInv'
<1>1. UNCHANGED <<wire, buffer, pkt, sendPadding>>  BY DEF outVars, bufVars
<1>2. OutTypes' /\ Types'  BY <1>1, TypeParts, TypePartsNext DEF StreamInv, OutTypes, Settled
<1>3. FormInv'  BY <1>1 DEF StreamInv, FormInv
<1>4. \A e \in Ends : Still(e)  BY <1>1 DEF Still, Chan
<1>5. SynSeen' /\ EndSeen' /\ Deliver'  BY <1>4, LocalStep
<1> QED BY <1>2, <1>3, <1>5 DEF StreamInv, Settled

(* OpenStream registers its stream.                                         *)
LEMMA RegisterStep ==
  ASSUME StreamInv, ConfTypes', NEW s \in Sids, Register(s)
  PROVE  StreamInv'
<1>0. /\ RowTypes /\ ReplyInv /\ StageInv /\ Held /\ StreamIntegrity /\ FinAfterData
      /\ "C" \in Ends /\ "S" \in Ends /\ "C" # "S"
      /\ AppSteps = {"idle", "syn", "reg", "addr", "run", "fin", "done"}
  BY InvParts, PeerEnd DEF StreamInv, AppSteps
<1>1. /\ app["C"][s] = "reg" /\ buffering' = FALSE
      /\ UNCHANGED <<die, sent, rd, rx>> /\ UNCHANGED outVars
  BY DEF Register, dataVars
<1>2. CASE PutApp("C", s, "done") /\ UNCHANGED <<streams, str>>
  <2>1. Steady /\ RowTypes' /\ ReplyInv' /\ StageInv'
    BY <1>0, <1>1, <1>2, UserMoves
  <2>2. \A t \in Sids : AppQuiet(t)  BY <1>0, <1>2, UserQuiet
  <2> QED BY <1>1, <2>1, <2>2, LocalInv DEF Settled
<1>3. CASE /\ PutApp("C", s, "run") /\ PutStr("C", s, "live")
           /\ streams' = [streams EXCEPT !["C"] = @ \cup {s}]
  <2>1. /\ app' \in [Ends -> [Sids -> AppSteps]] /\ app'["C"][s] = "run"
        /\ \A x \in Ends, t \in Sids : x # "C" \/ t # s => app'[x][t] = app[x][t]
    BY <1>0, <1>3, AppPut
  <2>2. /\ str' \in [Ends -> [Sids -> {"none", "live", "dead", "fin"}]] /\ str'["C"][s] = "live"
        /\ \A x \in Ends, t \in Sids : x # "C" \/ t # s => str'[x][t] = str[x][t]
    BY <1>0, <1>3, StrPut
  <2>3. /\ streams' \in [Ends -> SUBSET Sids] /\ s \in streams'["C"]
        /\ \A x \in Ends, t \in Sids : x # "C" \/ t # s => (t \in streams'[x] <=> t \in streams[x])
    BY <1>0, <1>3 DEF RowTypes
  <2>4. str["C"][s] = "none"  BY <1>0, <1>1 DEF StageInv
  <2>5. RowTypes'  BY <1>0, <1>1, <2>1, <2>2, <2>3 DEF RowTypes, AppSteps
  <2>6. \A x \in Ends, t \in Sids :
            \/ str'[x][t] = str[x][t] /\ (x # "C" \/ t # s)
            \/ x = "C" /\ t = s /\ str[x][t] = "none" /\ str'[x][t] = "live"
    BY <2>2, <2>4
  <2>7. \A x \in Ends, t \in Sids : Over(x, t)' <=> Over(x, t)  BY <2>6 DEF Over
  <2>8. Keeps
    <3>1. \A x \in Ends : die'[x] = die[x] /\ (Reading(x)' => Reading(x))  BY <1>1 DEF Reading
    <3>2. \A x \in Ends, t \in Sids : /\ Got(x, t)' = Got(x, t)
                                      /\ sent'[Peer(x)][t] = sent[Peer(x)][t]
      BY <1>1 DEF Got, Holds
    <3> QED BY <1>0, <2>6, <2>7, <3>1, <3>2 DEF Keeps
  <2>9. \A t \in Sids : AppQuiet(t)  BY <1>0, <1>1, <2>1 DEF AppQuiet, Onward
  <2>10. ReplyInv'
    <3>1. \A x \in Ends : rx'[x] = rx[x] \/ rx'[x].pc \notin {"reply", "last"}  BY <1>1
    <3> QED BY <1>0, <3>1, ReplyKept
  <2>11. StageInv'
    <3>1. /\ \A x \in Ends, t \in Sids :
            /\ app[x][t] = "fin" => Over(x, t)
            /\ t \in streams[x] => str[x][t] # "none"
            /\ rx[x].pc \notin {"last", "ended"} /\ str[x][t] = "live" => t \in streams[x]
            /\ rx[x].pc = "reply" /\ rx[x].sid = t => Over(x, t)
          /\ \A t \in Sids :
            /\ app["C"][t] \in {"idle", "syn", "reg"} => str["C"][t] = "none"
            /\ app["C"][t] # "addr"
            /\ app["S"][t] = "run" => Len(rd["S"][t]) > 0
            /\ sent["C"][t] > 0 => str["C"][t] # "none"
      BY <1>0 DEF StageInv
    <3>2. \A x \in Ends, t \in Sids :
            /\ app'[x][t] = "fin" => Over(x, t)'
            /\ t \in streams'[x] => str'[x][t] # "none"
            /\ rx'[x].pc \notin {"last", "ended"} /\ str'[x][t] = "live" => t \in streams'[x]
            /\ rx'[x].pc = "reply" /\ rx'[x].sid = t => Over(x, t)'
      BY <1>1, <2>1, <2>3, <2>6, <2>7, <3>1
    <3>3. \A t \in Sids :
            /\ app'["C"][t] \in {"idle", "syn", "reg"} => str'["C"][t] = "none"
            /\ app'["C"][t] # "addr"
            /\ app'["S"][t] = "run" => Len(rd'["S"][t]) > 0
            /\ sent'["C"][t] > 0 => str'["C"][t] # "none"
      BY <1>0, <1>1, <2>1, <2>6, <3>1
    <3> QED BY <1>1, <3>2, <3>3 DEF StageInv
  <2>12. Held'
    <3>1. ASSUME NEW x \in Ends, rx'[x].pc = "push", NEW t, t = rx'[x].sid
          PROVE  /\ t \in Sids /\ str'[x][t] # "none"
                 /\ str'[x][t] = "live" => /\ rx'[x].chunk = <<t, Len(rd'[x][t]) + 1>>
                                           /\ Len(rd'[x][t]) < sent'[Peer(x)][t]
      <4>1. /\ t \in Sids /\ str[x][t] # "none"
            /\ str[x][t] = "live" => /\ rx[x].chunk = <<t, Len(rd[x][t]) + 1>>
                                     /\ Len(rd[x][t]) < sent[Peer(x)][t]
        BY <1>0, <1>1, <3>1 DEF Held
      <4>2. str'[x][t] = str[x][t]  BY <2>6, <4>1
      <4> QED BY <1>1, <4>1, <4>2
    <3> QED BY <3>1 DEF Held
  <2>13. StreamIntegrity' /\ FinAfterData'
    BY <1>0, <1>1, <2>6 DEF StreamIntegrity, FinAfterData
  <2> QED BY <1>1, <2>5, <2>8, <2>9, <2>10, <2>11, <2>12, <2>13, StillInv DEF Settled
<1> QED BY <1>2, <1>3 DEF Register, PutApp, PutStr

(* The pipe hands the chunk in hand to the reader.                          *)
LEMMA StreamReadStep ==
  ASSUME StreamInv, ConfTypes', NEW e \in Ends, NEW s \in Sids, StreamRead(e, s)
  PROVE  StreamInv'
<1>0. /\ RowTypes /\ ReplyInv /\ StageInv /\ Held /\ StreamIntegrity /\ FinAfterData
      /\ "C" \in Ends /\ "S" \in Ends /\ "C" # "S"
      /\ AppSteps = {"idle", "syn", "reg", "addr", "run", "fin", "done"}
  BY InvParts, PeerEnd DEF StreamInv, AppSteps
<1>1. /\ rx[e].pc = "push" /\ rx[e].sid = s /\ app[e][s] \in {"addr", "run"} /\ str[e][s] = "live"
      /\ rd' = [rd EXCEPT ![e][s] = Append(@, rx[e].chunk)] /\ PutReader(e, Top(e))
      /\ UNCHANGED <<die, str, streams, buffering, sent>> /\ UNCHANGED outVars
  BY DEF StreamRead, PutReader
<1>2. PICK v \in {"run", "done"} : PutApp(e, s, v) /\ (app[e][s] = "run" => v = "run")
  BY <1>1 DEF StreamRead, PutApp
<1>3. /\ app' \in [Ends -> [Sids -> AppSteps]] /\ app'[e][s] = v
      /\ \A x \in Ends, t \in Sids : x # e \/ t # s => app'[x][t] = app[x][t]
  BY <1>0, <1>2, AppPut
<1>4. /\ rx' \in [Ends -> Reader] /\ rx'[e].pc \in {"read", "ended"}
      /\ \A x \in Ends : x # e => rx'[x] = rx[x]
  BY <1>0, <1>1, PutTop
<1>5. /\ rx[e].chunk = <<s, Len(rd[e][s]) + 1>> /\ Len(rd[e][s]) < sent[Peer(e)][s]
  BY <1>0, <1>1 DEF Held
<1>6. PICK b \in Seq(Nat \X Nat) : b = rd[e][s]  BY <1>0 DEF RowTypes
<1>7. PICK c \in Nat \X Nat : c = rx[e].chunk  BY <1>0 DEF RowTypes, Reader
<1>8. PICK a : a = Append(b, c)  OBVIOUS
<1>9. /\ a \in Seq(Nat \X Nat) /\ Len(b) \in Nat /\ Len(a) = Len(b) + 1 /\ a[Len(b) + 1] = c
      /\ \A i \in 1 .. Len(b) : a[i] = b[i]
  BY <1>8
<1>10. rd' = [rd EXCEPT ![e][s] = a]  BY <1>1, <1>6, <1>7, <1>8
<1>11. /\ rd' \in [Ends -> [Sids -> Seq(Nat \X Nat)]] /\ rd'[e][s] = a
       /\ \A x \in Ends, t \in Sids : x # e \/ t # s => rd'[x][t] = rd[x][t]
  BY <1>0, <1>9, <1>10 DEF RowTypes
<1>12. RowTypes'  BY <1>0, <1>1, <1>3, <1>4, <1>11 DEF RowTypes, AppSteps
<1>13. e = "C" => app[e][s] = "run" /\ v = "run"  BY <1>0, <1>1, <1>2 DEF StageInv
<1>14. \A t \in Sids : AppQuiet(t)  BY <1>0, <1>2, <1>13, UserQuiet
<1>15. ReplyInv'
  <2>1. \A x \in Ends : rx'[x] = rx[x] \/ rx'[x].pc \notin {"reply", "last"}  BY <1>4
  <2> QED BY <1>0, <2>1, ReplyKept
<1>16. Keeps
  <2>1. \A x \in Ends : die'[x] = die[x] /\ (Reading(x)' => Reading(x))
    BY <1>1, <1>4 DEF Reading
  <2>2. \A x \in Ends, t \in Sids : (Over(x, t)' <=> Over(x, t)) /\ str'[x][t] = str[x][t]
    BY <1>1 DEF Over
  <2>3. \A x \in Ends, t \in Sids : sent'[Peer(x)][t] = sent[Peer(x)][t]  BY <1>1
  <2>4. ASSUME NEW x \in Ends, NEW t \in Sids PROVE Got(x, t)' = Got(x, t)
    <3>1. CASE x = e /\ t = s
      <4>1. Holds(e, s) /\ ~Holds(e, s)'  BY <1>1, <1>4 DEF Holds
      <4> QED BY <1>6, <1>9, <1>11, <3>1, <4>1 DEF Got
    <3>2. CASE x = e /\ t # s
      <4>1. ~Holds(e, t) /\ ~Holds(e, t)'  BY <1>1, <1>4, <3>2 DEF Holds
      <4> QED BY <1>11, <3>2, <4>1 DEF Got
    <3>3. CASE x # e  BY <1>4, <1>11, <3>3 DEF Got, Holds
    <3> QED BY <3>1, <3>2, <3>3
  <2> QED BY <1>0, <2>1, <2>2, <2>3, <2>4 DEF Keeps
<1>17. StageInv'
  <2>1. /\ \A x \in Ends, t \in Sids :
            /\ app[x][t] = "fin" => Over(x, t)
            /\ t \in streams[x] => str[x][t] # "none"
            /\ rx[x].pc \notin {"last", "ended"} /\ str[x][t] = "live" => t \in streams[x]
            /\ rx[x].pc = "reply" /\ rx[x].sid = t => Over(x, t)
        /\ \A t \in Sids :
            /\ app["C"][t] \in {"idle", "syn", "reg"} => str["C"][t] = "none"
            /\ app["C"][t] # "addr"
            /\ buffering => str["C"][t] = "none"
            /\ app["S"][t] = "run" => Len(rd["S"][t]) > 0
            /\ sent["C"][t] > 0 => str["C"][t] # "none"
    BY <1>0 DEF StageInv
  <2>2. \A x \in Ends, t \in Sids : Over(x, t)' <=> Over(x, t)  BY <1>1 DEF Over
  <2>3. \A x \in Ends, t \in Sids :
            /\ app'[x][t] = "fin" => Over(x, t)'
            /\ rx'[x].pc \notin {"last", "ended"} /\ str[x][t] = "live" => t \in streams[x]
            /\ rx'[x].pc = "reply" /\ rx'[x].sid = t => Over(x, t)'
    <3> SUFFICES ASSUME NEW x \in Ends, NEW t \in Sids
                 PROVE  /\ app'[x][t] = "fin" => app[x][t] = "fin"
                        /\ rx'[x].pc \notin {"last", "ended"} => rx[x].pc \notin {"last", "ended"}
                        /\ rx'[x].pc = "reply" => rx'[x] = rx[x]
      BY <2>1, <2>2
    <3>1. app'[x][t] = "fin" => app[x][t] = "fin"  BY <1>3
    <3>2. CASE x = e  BY <1>1, <1>4, <3>1, <3>2
    <3>3. CASE x # e  BY <1>4, <3>1, <3>3
    <3> QED BY <3>2, <3>3
  <2>4. \A t \in Sids :
            /\ app'["C"][t] \in {"idle", "syn", "reg"} => str["C"][t] = "none"
            /\ app'["C"][t] # "addr"
    BY <1>0, <1>3, <2>1
  <2>5. ASSUME NEW t \in Sids, app'["S"][t] = "run" PROVE Len(rd'["S"][t]) > 0
    <3>1. CASE e = "S" /\ t = s  BY <1>9, <1>11, <3>1
    <3>2. CASE e # "S" \/ t # s  BY <1>0, <1>3, <1>11, <2>1, <2>5, <3>2
    <3> QED BY <3>1, <3>2
  <2>6. str' = str /\ streams' = streams /\ sent' = sent /\ buffering' = buffering  BY <1>1
  <2> QED BY <2>1, <2>3, <2>4, <2>5, <2>6 DEF StageInv
<1>18. Held'
  <2>1. ASSUME NEW x \in Ends, rx'[x].pc = "push", NEW t, t = rx'[x].sid
        PROVE  /\ t \in Sids /\ str'[x][t] # "none"
               /\ str'[x][t] = "live" => /\ rx'[x].chunk = <<t, Len(rd'[x][t]) + 1>>
                                         /\ Len(rd'[x][t]) < sent'[Peer(x)][t]
    <3>1. x # e /\ rx'[x] = rx[x]  BY <1>4, <2>1
    <3>2. /\ t \in Sids /\ str[x][t] # "none"
          /\ str[x][t] = "live" => /\ rx[x].chunk = <<t, Len(rd[x][t]) + 1>>
                                   /\ Len(rd[x][t]) < sent[Peer(x)][t]
      BY <1>0, <2>1, <3>1 DEF Held
    <3>3. rd'[x][t] = rd[x][t]  BY <1>11, <3>1, <3>2
    <3> QED BY <1>1, <3>1, <3>2, <3>3
  <2> QED BY <2>1 DEF Held
<1>19. StreamIntegrity'
  <2> SUFFICES ASSUME NEW x \in Ends, NEW t \in Sids
               PROVE  /\ Len(rd'[x][t]) <= sent'[Peer(x)][t]
                      /\ \A i \in 1 .. Len(rd'[x][t]) : rd'[x][t][i] = <<t, i>>
    BY DEF StreamIntegrity
  <2>1. /\ Len(rd[x][t]) <= sent[Peer(x)][t] /\ sent[Peer(x)][t] \in Nat
        /\ \A i \in 1 .. Len(rd[x][t]) : rd[x][t][i] = <<t, i>>
    <3>1. Peer(x) \in Ends  BY PeerEnd
    <3> QED BY <1>0, <3>1 DEF StreamIntegrity, RowTypes
  <2>2. CASE x = e /\ t = s
    <3>1. Len(a) <= sent[Peer(e)][s]  BY <1>5, <1>6, <1>9, <2>1, <2>2
    <3>2. ASSUME NEW i \in 1 .. Len(a) PROVE a[i] = <<s, i>>
      <4>1. CASE i = Len(b) + 1  BY <1>5, <1>6, <1>7, <1>9, <4>1
      <4>2. CASE i \in 1 .. Len(b)  BY <1>6, <1>9, <2>1, <2>2, <4>2
      <4>3. PICK n \in Nat : n = Len(b)  BY <1>9
      <4>4. i \in 1 .. (n + 1)  BY <1>9, <4>3
      <4>5. i = n + 1 \/ i \in 1 .. n  BY <4>4
      <4> QED BY <4>1, <4>2, <4>3, <4>5
    <3>3. sent'[Peer(e)][s] = sent[Peer(e)][s] /\ rd'[e][s] = a  BY <1>1, <1>11
    <3> QED BY <2>2, <3>1, <3>2, <3>3
  <2>3. CASE x # e \/ t # s  BY <1>1, <1>11, <2>1, <2>3
  <2> QED BY <2>2, <2>3
<1>20. FinAfterData'
  <2> SUFFICES ASSUME NEW x \in Ends, NEW t \in Sids, str'[x][t] = "fin"
               PROVE  Len(rd'[x][t]) = sent'[Peer(x)][t]
    BY DEF FinAfterData
  <2>1. str[x][t] = "fin" /\ (x # e \/ t # s)  BY <1>1
  <2> QED BY <1>0, <1>1, <1>11, <2>1 DEF FinAfterData
<1> QED BY <1>1, <1>12, <1>14, <1>15, <1>16, <1>17, <1>18, <1>19, <1>20, StillInv DEF Settled

-----------------------------------------------------------------------------
(* A chunk is taken off the connection, and a stream opened at the server.  *)

(* SYNs and FINs once a frame is taken off.                                 *)
LEMMA DropMarks ==
  ASSUME Types, FormInv, SynSeen, EndSeen, NEW e \in Ends, Drops(e), Still(Peer(e)),
         UNCHANGED die, \A t \in Sids : app'["C"][t] = app["C"][t],
         \A x \in Ends : Reading(x)' => Reading(x),
         \A x \in Ends, t \in Sids : /\ Over(x, t) => Over(x, t)'
                                     /\ str[x][t] # "none" => str'[x][t] # "none"
                                     /\ str'[x][t] = "fin" => str[x][t] = "fin",
         \A t \in Sids : str'["S"][t] # "none" =>
            str["S"][t] # "none" \/ (e = "S" /\ At(Chan("S"), 1, "SYN", t)),
         \A t \in Sids : e = "S" /\ At(Chan("S"), 1, "SYN", t) => str'["S"][t] # "none"
  PROVE  SynSeen' /\ EndSeen'
<1>0. Peer(e) \in Ends /\ Peer(Peer(e)) = e /\ "C" \in Ends /\ "S" \in Ends  BY PeerEnd
<1>1. Adds(Peer(e), <<>>) /\ \A k : ~(k \in 1 .. Len(<<>>))  BY <1>0, StillAdds
<1>2. SynSeen'
  <2> SUFFICES ASSUME NEW s \in Sids PROVE SynAt(s)'  BY DEF SynSeen
  <2>1. /\ app'["C"][s] = app["C"][s] /\ Onward(s)
        /\ (Reading("S")' => Reading("S")) /\ (die["C"] = "done" => die'["C"] = "done")
    BY <1>0 DEF Onward
  <2>2. CASE e = "S"
    <3>1. /\ str'["S"][s] = "none" => str["S"][s] = "none"
          /\ str'["S"][s] # "none" => str["S"][s] # "none" \/ At(Chan("S"), 1, "SYN", s)
          /\ Reading("S")' /\ At(Chan("S"), 1, "SYN", s) => str'["S"][s] # "none"
          /\ Drops("S")
      BY <1>0, <2>2
    <3> QED BY <2>1, <3>1, SynDrops
  <2>3. CASE e = "C"
    <3>1. Adds("S", <<>>)  BY <1>1, <2>3, PeerEnd
    <3>2. str'["S"][s] = "none" <=> str["S"][s] = "none"  BY <1>0, <2>3
    <3>3. /\ ~(app["C"][s] = "syn" /\ app'["C"][s] \in {"reg", "run"})
          /\ app'["C"][s] \in {"reg", "run"} => app["C"][s] \in {"reg", "run"}
      BY <2>1
    <3> QED BY <1>1, <2>1, <3>1, <3>2, <3>3, SynAdds
  <2> QED BY <2>2, <2>3, PeerEnd
<1>3. EndSeen'
  <2>1. ASSUME NEW x \in Ends
        PROVE  \/ Shrinks(x)
               \/ \E v : /\ Adds(x, v)
                         /\ \A s \in Sids : \A k \in 1 .. Len(v) :
                            /\ At(v, k, "FIN", s) => Over(Peer(x), s)'
                            /\ x = "C" /\ At(v, k, "PSH", s) => str["C"][s] # "none"
    <3>1. CASE x = e  BY <3>1, DropShrinks
    <3>2. CASE x = Peer(e)  BY <1>1, <3>2
    <3> QED BY <3>1, <3>2, PeerEnd
  <2>2. \A s \in Sids : str["C"][s] # "none" => str'["C"][s] # "none"  BY <1>0
  <2>3. \A x \in Ends, s \in Sids : Over(x, s) => Over(x, s)'  OBVIOUS
  <2>4. \A x \in Ends, s \in Sids : str'[x][s] = "fin" => str[x][s] = "fin" \/ Over(Peer(x), s)'
    OBVIOUS
  <2> QED BY <2>1, <2>2, <2>3, <2>4, EndKept
<1> QED BY <1>2, <1>3

(* A chunk for an open stream is taken into the hand.                       *)
LEMMA TakeStep ==
  ASSUME StreamInv, ConfTypes', NEW e \in Ends, RecvPSH(e), Head(wire[e]).sid \in streams[e]
  PROVE  StreamInv'
<1>0. /\ RowTypes /\ Types /\ FormInv /\ ReplyInv /\ StageInv /\ SynSeen /\ EndSeen /\ Deliver
      /\ Held /\ StreamIntegrity /\ FinAfterData
      /\ Peer(e) \in Ends /\ Peer(Peer(e)) = e /\ "C" \in Ends /\ "S" \in Ends
  BY InvParts, PeerEnd DEF StreamInv
<1>1. /\ Arrived(e, "PSH") /\ Consumed(e)
      /\ UNCHANGED <<die, app, str, streams, buffering, sent, rd>> /\ UNCHANGED bufVars
  BY DEF RecvPSH, appVars, dataVars
<1>2. PICK s \in Sids : /\ s = Head(wire[e]).sid /\ str[e][s] # "none"
                        /\ At(Chan(e), 1, "PSH", s)
  BY <1>1, DataKnown
<1>3. /\ wire' \in [Ends -> Seq(Cell)] /\ buffer' \in Seq(Cell)
      /\ pkt' \in Nat /\ sendPadding' \in BOOLEAN
      /\ FormInv' /\ Drops(e) /\ Still(Peer(e))
      /\ Chan(e)[2] = wire[e][2] /\ 1 \in 1 .. Len(Chan(e))
  BY <1>0, <1>1, ReadEffect
<1>4. PICK w \in Seq(Cell) : w = Chan(e) /\ Framed(w)  BY <1>0, ChanFramed
<1>5. w[2].sid = s /\ Num(w, 1) = w[2].arg /\ Num(w, 1) \in Nat /\ w # <<>>
  BY <1>2, <1>3, <1>4, DataBehind DEF Framed, Proper, At, Num, Drops
<1>6. rx[e].pc = "read" /\ Reading(e)  BY <1>1 DEF Arrived, Reading
<1>7. PICK n \in Nat : n = Num(w, 1)  BY <1>5
<1>8. PICK r : r = [rx[e] EXCEPT !.pc = "push", !.sid = s, !.chunk = <<s, n>>]  OBVIOUS
<1>9. PutReader(e, r)
  <2>1. rx' = [rx EXCEPT ![e] = [rx[e] EXCEPT !.pc = "push", !.sid = s,
                                   !.chunk = <<wire[e][2].sid, wire[e][2].arg>>]]
    BY <1>2 DEF RecvPSH
  <2>2. wire[e][2].sid = s /\ wire[e][2].arg = n  BY <1>3, <1>4, <1>5, <1>7
  <2> QED BY <1>8, <2>1, <2>2 DEF PutReader
<1>10. r \in Reader /\ r.pc = "push" /\ r.sid = s /\ r.chunk = <<s, n>>
  <2>1. rx[e] \in Reader /\ s \in Nat /\ <<s, n>> \in Nat \X Nat  BY <1>0, TopReader DEF Sids
  <2> QED BY <1>8, <2>1 DEF Reader
<1>11. /\ rx' \in [Ends -> Reader] /\ rx'[e] = r /\ \A x \in Ends : x # e => rx'[x] = rx[x]
  BY <1>0, <1>9, <1>10 DEF RowTypes, PutReader
<1>12. RowTypes'  BY <1>0, <1>1, <1>11 DEF RowTypes
<1>13. Types'  BY <1>3, <1>12, TypePartsNext DEF OutTypes
<1>14. ReplyInv'
  <2>1. \A x \in Ends : rx'[x] = rx[x] \/ rx'[x].pc \notin {"reply", "last"}  BY <1>10, <1>11
  <2> QED BY <1>0, <2>1, ReplyKept
<1>15. StageInv'
  <2>1. RxMoves  BY <1>6, <1>10, <1>11 DEF RxMoves
  <2> QED BY <1>0, <1>1, <2>1, StageRx
<1>16. SynSeen' /\ EndSeen'
  <2>1. \A x \in Ends : Reading(x)' => Reading(x)  BY <1>1, <1>6, <1>11 DEF Reading
  <2>2. \A t \in Sids : ~At(Chan(e), 1, "SYN", t)  BY <1>2 DEF At
  <2>3. UNCHANGED die /\ str' = str /\ \A t \in Sids : app'["C"][t] = app["C"][t]  BY <1>1
  <2>4. \A x \in Ends, t \in Sids : Over(x, t)' <=> Over(x, t)  BY <2>3 DEF Over
  <2> QED BY <1>0, <1>3, <2>1, <2>2, <2>3, <2>4, DropMarks
<1>17. str[e][s] \in {"none", "live"} =>
         LET d == SubSeq(w, w[1].len + 2, Len(w))
             b == Len(rd[e][s])
             m == sent[Peer(e)][s]
         IN /\ n = b + 1 /\ b < m /\ InOrder(d, s, b + 1, m)
            /\ die[Peer(e)] # "done" => Complete(d, s, b + 1, m)
  <2> SUFFICES ASSUME str[e][s] \in {"none", "live"}
               PROVE  LET d == SubSeq(w, w[1].len + 2, Len(w))
                          b == Len(rd[e][s])
                          m == sent[Peer(e)][s]
                      IN /\ n = b + 1 /\ b < m /\ InOrder(d, s, b + 1, m)
                         /\ die[Peer(e)] # "done" => Complete(d, s, b + 1, m)
    OBVIOUS
  <2>1. Got(e, s) = Len(rd[e][s])  BY <1>6 DEF Got, Holds
  <2>2. /\ InOrder(w, s, Len(rd[e][s]), sent[Peer(e)][s])
        /\ die[Peer(e)] # "done" => Complete(w, s, Len(rd[e][s]), sent[Peer(e)][s])
    BY <1>0, <1>4, <1>6, <2>1 DEF Deliver, DeliverAt
  <2>3. PICK b \in Nat : b = Len(rd[e][s])  BY <1>0, SentTypes
  <2>4. PICK m \in Nat : m = sent[Peer(e)][s]  BY <1>0, SentTypes
  <2>5. At(w, 1, "PSH", s) /\ InOrder(w, s, b, m)  BY <1>2, <1>4, <2>2, <2>3, <2>4
  <2>6. LET d == SubSeq(w, w[1].len + 2, Len(w)) IN
        /\ Num(w, 1) = b + 1 /\ b < m
        /\ InOrder(d, s, b + 1, m) /\ (Complete(w, s, b, m) => Complete(d, s, b + 1, m))
    BY <1>4, <1>5, <2>5, OrderTake
  <2> QED BY <1>7, <2>2, <2>3, <2>4, <2>6
<1>18. Deliver'
  <2> SUFFICES ASSUME NEW x \in Ends, NEW t \in Sids PROVE DeliverAt(x, t)'  BY DEF Deliver
  <2>1. /\ str'[x][t] = str[x][t] /\ sent'[Peer(x)][t] = sent[Peer(x)][t] /\ die' = die
        /\ rd'[x][t] = rd[x][t] /\ (Reading(x)' => Reading(x))
    BY <1>1, <1>6, <1>11 DEF Reading
  <2>2. CASE x = Peer(e)
    <3>1. Adds(x, <<>>) /\ \A k : ~(k \in 1 .. Len(<<>>))  BY <1>0, <1>3, <2>2, StillAdds
    <3>2. x # e  BY <2>2, PeerEnd DEF Peer
    <3>3. Got(x, t)' = Got(x, t)  BY <1>11, <2>1, <3>2 DEF Got, Holds
    <3> QED BY <1>0, <2>1, <3>1, <3>3, DeliverAdds
  <2>3. CASE x = e /\ t # s
    <3>1. ~At(Chan(x), 1, "PSH", t)  BY <1>2, <2>3 DEF At
    <3>2. ~Holds(x, t) /\ ~Holds(x, t)'  BY <1>6, <1>10, <1>11, <2>3 DEF Holds
    <3>3. Got(x, t)' = Got(x, t)  BY <2>1, <3>2 DEF Got
    <3> QED BY <1>0, <1>3, <2>1, <2>3, <3>1, <3>3, DeliverDrops
  <2>4. CASE x = e /\ t = s
    <3>1. Holds(x, t)'  BY <1>10, <1>11, <2>4 DEF Holds
    <3>2. Got(x, t)' = Len(rd[x][t]) + 1  BY <2>1, <3>1 DEF Got
    <3>3. Chan(x)' = SubSeq(w, w[1].len + 2, Len(w))  BY <1>3, <1>4, <2>4 DEF Drops
    <3> QED BY <1>17, <2>1, <2>4, <3>2, <3>3 DEF DeliverAt
  <2> QED BY <2>2, <2>3, <2>4, PeerEnd
<1>19. Held'
  <2>1. ASSUME NEW x \in Ends, rx'[x].pc = "push", NEW t, t = rx'[x].sid
        PROVE  /\ t \in Sids /\ str'[x][t] # "none"
               /\ str'[x][t] = "live" => /\ rx'[x].chunk = <<t, Len(rd'[x][t]) + 1>>
                                         /\ Len(rd'[x][t]) < sent'[Peer(x)][t]
    <3>1. CASE x = e
      <4>1. t = s /\ rx'[x].chunk = <<s, n>>  BY <1>10, <1>11, <2>1, <3>1
      <4> QED BY <1>1, <1>2, <1>17, <3>1, <4>1
    <3>2. CASE x # e
      <4>1. /\ t \in Sids /\ str[x][t] # "none"
            /\ str[x][t] = "live" => /\ rx[x].chunk = <<t, Len(rd[x][t]) + 1>>
                                     /\ Len(rd[x][t]) < sent[Peer(x)][t]
        BY <1>0, <1>11, <2>1, <3>2 DEF Held
      <4> QED BY <1>1, <1>11, <3>2, <4>1
    <3> QED BY <3>1, <3>2
  <2> QED BY <2>1 DEF Held
<1>20. StreamIntegrity' /\ FinAfterData'
  BY <1>0, <1>1 DEF StreamIntegrity, FinAfterData
<1> QED BY <1>3, <1>13, <1>14, <1>15, <1>16, <1>18, <1>19, <1>20 DEF StreamInv

(* A SYN behind the settings: the server has not had its stream yet.        *)
LEMMA OpenedStep ==
  ASSUME StreamInv, ConfTypes', RecvSYN, settings
  PROVE  StreamInv'
<1>0. /\ RowTypes /\ Types /\ FormInv /\ ReplyInv /\ StageInv /\ SynSeen /\ EndSeen /\ Deliver
      /\ Held /\ StreamIntegrity /\ FinAfterData
      /\ Peer("S") = "C" /\ Peer("C") = "S" /\ "C" \in Ends /\ "S" \in Ends /\ "C" # "S"
      /\ AppSteps = {"idle", "syn", "reg", "addr", "run", "fin", "done"}
  BY InvParts, PeerEnd DEF StreamInv, AppSteps
<1>1. /\ Arrived("S", "SYN") /\ Consumed("S") /\ PutReader("S", Top("S"))
      /\ UNCHANGED <<die, buffering, sent, rd>> /\ UNCHANGED bufVars
  BY DEF RecvSYN, PutReader, dataVars
<1>2. /\ wire' \in [Ends -> Seq(Cell)] /\ buffer' \in Seq(Cell)
      /\ pkt' \in Nat /\ sendPadding' \in BOOLEAN
      /\ FormInv' /\ Drops("S") /\ Still("C")
      /\ Chan("S")[1] = Head(wire["S"]) /\ Chan("S")[1].cmd = "SYN" /\ 1 \in 1 .. Len(Chan("S"))
  BY <1>0, <1>1, ReadEffect
<1>3. Chan("S") \in Seq(Cell) /\ Framed(Chan("S"))  BY <1>0, ChanFramed
<1>4. PICK s \in Sids : s = Head(wire["S"]).sid  BY <1>2, <1>3 DEF Framed, Proper
<1>5. At(Chan("S"), 1, "SYN", s)  BY <1>2, <1>4 DEF At
<1>6. str["S"][s] = "none"
  <2>1. SynAt(s)  BY <1>0 DEF SynSeen
  <2> QED BY <1>2, <1>5, <2>1 DEF SynAt
<1>7. s \notin streams["S"]  BY <1>0, <1>6 DEF StageInv
<1>8. /\ streams' = [streams EXCEPT !["S"] = @ \cup {s}]
      /\ PutStr("S", s, "live") /\ PutApp("S", s, "addr")
  BY <1>4, <1>7 DEF RecvSYN, PutStr, PutApp
<1>9. /\ str' \in [Ends -> [Sids -> {"none", "live", "dead", "fin"}]] /\ str'["S"][s] = "live"
      /\ \A x \in Ends, t \in Sids : x # "S" \/ t # s => str'[x][t] = str[x][t]
  BY <1>0, <1>8, StrPut
<1>10. /\ app' \in [Ends -> [Sids -> AppSteps]] /\ app'["S"][s] = "addr"
       /\ \A x \in Ends, t \in Sids : x # "S" \/ t # s => app'[x][t] = app[x][t]
  BY <1>0, <1>8, AppPut
<1>11. /\ rx' \in [Ends -> Reader] /\ rx'["S"].pc \in {"read", "ended"} /\ rx'["C"] = rx["C"]
  BY <1>0, <1>1, PutTop
<1>12. /\ streams' \in [Ends -> SUBSET Sids]
       /\ streams'["S"] = streams["S"] \cup {s} /\ streams'["C"] = streams["C"]
  BY <1>0, <1>8 DEF RowTypes
<1>13. RowTypes'  BY <1>0, <1>1, <1>9, <1>10, <1>11, <1>12 DEF RowTypes, AppSteps
<1>14. Types'  BY <1>2, <1>13, TypePartsNext DEF OutTypes
<1>15. ReplyInv'
  <2>1. \A x \in Ends : rx'[x] = rx[x] \/ rx'[x].pc \notin {"reply", "last"}  BY <1>11, PeerEnd
  <2> QED BY <1>0, <2>1, ReplyKept
<1>16. rx["S"].pc = "read" /\ Reading("S")  BY <1>1 DEF Arrived, Reading
<1>17. \A x \in Ends, t \in Sids : /\ Over(x, t)' <=> Over(x, t)
                                   /\ str[x][t] # "none" => str'[x][t] # "none"
                                   /\ str'[x][t] = "fin" => str[x][t] = "fin"
                                   /\ str'[x][t] \in {"none", "live"} => str[x][t] \in {"none", "live"}
  BY <1>6, <1>9 DEF Over
<1>18. \A x \in Ends : Reading(x)' => Reading(x)
  <2> SUFFICES ASSUME NEW x \in Ends PROVE Reading(x)' => Reading(x)  OBVIOUS
  <2>1. CASE x = "C"  BY <1>1, <1>11, <2>1 DEF Reading
  <2>2. CASE x = "S"  BY <1>16, <2>2
  <2> QED BY <2>1, <2>2, PeerEnd
<1>19. StageInv'
  <2>1. /\ \A x \in Ends, t \in Sids :
            /\ app[x][t] = "fin" => Over(x, t)
            /\ t \in streams[x] => str[x][t] # "none"
            /\ rx[x].pc \notin {"last", "ended"} /\ str[x][t] = "live" => t \in streams[x]
            /\ rx[x].pc = "reply" /\ rx[x].sid = t => Over(x, t)
        /\ \A t \in Sids :
            /\ app["C"][t] \in {"idle", "syn", "reg"} => str["C"][t] = "none"
            /\ app["C"][t] # "addr"
            /\ buffering => str["C"][t] = "none"
            /\ app["S"][t] = "run" => Len(rd["S"][t]) > 0
            /\ sent["C"][t] > 0 => str["C"][t] # "none"
    BY <1>0 DEF StageInv
  <2>2. \A t \in Sids : str'["C"][t] = str["C"][t] /\ app'["C"][t] = app["C"][t]  BY <1>0, <1>9, <1>10
  <2>3. ASSUME NEW t \in Sids
        PROVE  /\ app'["C"][t] = "fin" => Over("C", t)'
               /\ t \in streams'["C"] => str'["C"][t] # "none"
               /\ rx'["C"].pc \notin {"last", "ended"} /\ str'["C"][t] = "live" => t \in streams'["C"]
               /\ rx'["C"].pc = "reply" /\ rx'["C"].sid = t => Over("C", t)'
    BY <1>0, <1>11, <1>12, <1>17, <2>1, <2>2
  <2>4. ASSUME NEW t \in Sids
        PROVE  /\ app'["S"][t] = "fin" => Over("S", t)'
               /\ t \in streams'["S"] => str'["S"][t] # "none"
               /\ rx'["S"].pc \notin {"last", "ended"} /\ str'["S"][t] = "live" => t \in streams'["S"]
               /\ rx'["S"].pc = "reply" /\ rx'["S"].sid = t => Over("S", t)'
    <3>1. CASE t = s  BY <1>9, <1>10, <1>11, <1>12, <3>1
    <3>2. CASE t # s
      <4>1. str'["S"][t] = str["S"][t] /\ app'["S"][t] = app["S"][t]  BY <1>0, <1>9, <1>10, <3>2
      <4> QED BY <1>0, <1>11, <1>12, <1>16, <1>17, <2>1, <3>2, <4>1
    <3> QED BY <3>1, <3>2
  <2>5. \A x \in Ends, t \in Sids :
            /\ app'[x][t] = "fin" => Over(x, t)'
            /\ t \in streams'[x] => str'[x][t] # "none"
            /\ rx'[x].pc \notin {"last", "ended"} /\ str'[x][t] = "live" => t \in streams'[x]
            /\ rx'[x].pc = "reply" /\ rx'[x].sid = t => Over(x, t)'
    BY <2>3, <2>4, PeerEnd
  <2>6. \A t \in Sids :
            /\ app'["C"][t] \in {"idle", "syn", "reg"} => str'["C"][t] = "none"
            /\ app'["C"][t] # "addr"
            /\ buffering' => str'["C"][t] = "none"
            /\ app'["S"][t] = "run" => Len(rd'["S"][t]) > 0
            /\ sent'["C"][t] > 0 => str'["C"][t] # "none"
    <3>1. \A t \in Sids : app'["S"][t] = "run" => app["S"][t] = "run"  BY <1>0, <1>10
    <3>2. buffering' = buffering /\ rd' = rd /\ sent' = sent  BY <1>1
    <3> QED BY <2>1, <2>2, <3>1, <3>2
  <2> QED BY <2>5, <2>6 DEF StageInv
<1>20. SynSeen' /\ EndSeen'
  <2>1. \A t \in Sids : app'["C"][t] = app["C"][t]  BY <1>0, <1>10
  <2>2. \A t \in Sids : At(Chan("S"), 1, "SYN", t) => t = s  BY <1>2, <1>4 DEF At
  <2>3. \A t \in Sids : str'["S"][t] # "none" =>
            str["S"][t] # "none" \/ ("S" = "S" /\ At(Chan("S"), 1, "SYN", t))
    BY <1>0, <1>5, <1>9
  <2>4. \A t \in Sids : "S" = "S" /\ At(Chan("S"), 1, "SYN", t) => str'["S"][t] # "none"
    BY <1>9, <2>2
  <2>5. die' = die /\ Still(Peer("S"))  BY <1>0, <1>1, <1>2
  <2> QED BY <1>0, <1>2, <1>17, <1>18, <2>1, <2>3, <2>4, <2>5, DropMarks
<1>21. Deliver'
  <2> SUFFICES ASSUME NEW x \in Ends, NEW t \in Sids PROVE DeliverAt(x, t)'  BY DEF Deliver
  <2>1. sent' = sent /\ die' = die /\ rd' = rd  BY <1>1
  <2>2. CASE x = "C"
    <3>1. Adds(x, <<>>) /\ \A k : ~(k \in 1 .. Len(<<>>))  BY <1>0, <1>2, <2>2, StillAdds
    <3>2. Got(x, t)' = Got(x, t)  BY <1>11, <2>1, <2>2 DEF Got, Holds
    <3> QED BY <1>0, <1>17, <1>18, <2>1, <3>1, <3>2, DeliverAdds
  <2>3. CASE x = "S"
    <3>1. ~At(Chan(x), 1, "PSH", t) /\ Drops(x)  BY <1>2, <2>3 DEF At
    <3>2. ~Holds(x, t) /\ ~Holds(x, t)'  BY <1>11, <1>16, <2>3 DEF Holds
    <3>3. Got(x, t)' = Got(x, t)  BY <2>1, <3>2 DEF Got
    <3> QED BY <1>0, <1>17, <1>18, <2>1, <3>1, <3>3, DeliverDrops
  <2> QED BY <2>2, <2>3, PeerEnd
<1>22. Held'
  <2>1. ASSUME NEW x \in Ends, rx'[x].pc = "push", NEW t, t = rx'[x].sid
        PROVE  /\ t \in Sids /\ str'[x][t] # "none"
               /\ str'[x][t] = "live" => /\ rx'[x].chunk = <<t, Len(rd'[x][t]) + 1>>
                                         /\ Len(rd'[x][t]) < sent'[Peer(x)][t]
    <3>1. x = "C" /\ rx'[x] = rx[x]  BY <1>11, <2>1, PeerEnd
    <3>2. /\ t \in Sids /\ str[x][t] # "none"
          /\ str[x][t] = "live" => /\ rx[x].chunk = <<t, Len(rd[x][t]) + 1>>
                                   /\ Len(rd[x][t]) < sent[Peer(x)][t]
      BY <1>0, <2>1, <3>1 DEF Held
    <3>3. str'[x][t] = str[x][t]  BY <1>0, <1>9, <3>1, <3>2
    <3> QED BY <1>1, <3>1, <3>2, <3>3
  <2> QED BY <2>1 DEF Held
<1>23. StreamIntegrity'  BY <1>0, <1>1 DEF StreamIntegrity
<1>24. FinAfterData'
  <2>1. ASSUME NEW x \in Ends, NEW t \in Sids, str'[x][t] = "fin"
        PROVE  Len(rd'[x][t]) = sent'[Peer(x)][t]
    BY <1>0, <1>1, <1>17, <2>1 DEF FinAfterData
  <2> QED BY <2>1 DEF FinAfterData
<1> QED BY <1>2, <1>14, <1>15, <1>19, <1>20, <1>21, <1>22, <1>23, <1>24 DEF StreamInv

-----------------------------------------------------------------------------
(* A chunk is written.                                                      *)

(* What a data frame's write adds: one chunk of its stream.                 *)
Chunk(u, s, n, z) == u = Data(s, n) \o z

(* Its only header is its own.                                              *)
LEMMA DataMarks ==
  ASSUME NEW s \in Sids, NEW n \in Nat, NEW z, Silent(z), NEW u, Chunk(u, s, n, z)
  PROVE  /\ u \in Seq(Cell) /\ Framed(u)
         /\ \A t \in Sids : \A k \in 1 .. Len(u) : /\ ~At(u, k, "SYN", t) /\ ~At(u, k, "FIN", t)
                                                   /\ At(u, k, "PSH", t) => t = s
<1>1. /\ Data(s, n) \in Seq(Cell) /\ Framed(Data(s, n))
      /\ \A k \in 1 .. Len(Data(s, n)), cmd \in {"SYN", "PSH", "FIN"}, t \in Sids :
             At(Data(s, n), k, cmd, t) <=> k = 1 /\ cmd = "PSH" /\ t = s
  BY DataCells
<1>2. PICK f \in Seq(Cell) : f = Data(s, n)  BY <1>1
<1>3. /\ u \in Seq(Cell) /\ Framed(u)
      /\ \A c \in Counted : \A t : \A k \in 1 .. Len(u) :
             At(u, k, c, t) => k \in 1 .. Len(f) /\ At(f, k, c, t)
  BY <1>1, <1>2, FrameMarks DEF Chunk
<1>4. \A k \in 1 .. Len(f), cmd \in {"SYN", "PSH", "FIN"}, t \in Sids :
          At(f, k, cmd, t) => cmd = "PSH" /\ t = s
  BY <1>1, <1>2
<1> QED BY <1>3, <1>4 DEF Counted

(* It is behind what is on the way, and no end of its stream is before it.  *)
LEMMA DataDelivered ==
  ASSUME StreamInv, NEW e \in Ends, NEW s \in Sids, str[e][s] = "live", die[e] # "done",
         NEW z, Silent(z), NEW n \in Nat, n = sent[e][s] + 1,
         Chan(Peer(e))' = Chan(Peer(e)) \o (Data(s, n) \o z),
         UNCHANGED <<die, str, rd, rx>>, sent'[e][s] = n
  PROVE  DeliverAt(Peer(e), s)'
<1>0. /\ Types /\ FormInv /\ EndSeen /\ Deliver /\ Held /\ StreamIntegrity
      /\ Peer(e) \in Ends /\ Peer(Peer(e)) = e
  BY PeerEnd DEF StreamInv
<1> SUFFICES ASSUME Reading(Peer(e)), str[Peer(e)][s] \in {"none", "live"}
             PROVE  /\ InOrder(Chan(Peer(e))', s, Got(Peer(e), s), n)
                    /\ Complete(Chan(Peer(e))', s, Got(Peer(e), s), n)
  BY <1>0 DEF DeliverAt, Got, Holds, Reading
<1>1. PICK w \in Seq(Cell) : w = Chan(Peer(e)) /\ Framed(w)  BY <1>0, ChanFramed
<1>2. PICK b \in Nat : b = Got(Peer(e), s)  BY <1>0, SentTypes
<1>3. PICK m \in Nat : m = sent[e][s] /\ n = m + 1  BY <1>0, SentTypes
<1>4. InOrder(w, s, b, m) /\ Complete(w, s, b, m)
  BY <1>0, <1>1, <1>2, <1>3 DEF Deliver, DeliverAt
<1>5. b <= m
  <2>1. Len(rd[Peer(e)][s]) <= m /\ Len(rd[Peer(e)][s]) \in Nat
    BY <1>0, <1>3, SentTypes DEF StreamIntegrity
  <2>2. CASE Holds(Peer(e), s)
    <3>1. str[Peer(e)][s] = "live" /\ Len(rd[Peer(e)][s]) < m
      BY <1>0, <1>3, <2>2 DEF Held, Holds
    <3> QED BY <1>2, <2>1, <2>2, <3>1 DEF Got
  <2>3. CASE ~Holds(Peer(e), s)  BY <1>2, <2>1, <2>3 DEF Got
  <2> QED BY <2>2, <2>3
<1>6. \A i \in 1 .. Len(w) : ~At(w, i, "FIN", s)
  <2>1. ~Over(e, s)  BY DEF Over
  <2> QED BY <1>0, <1>1, <2>1 DEF EndSeen
<1>7. /\ InOrder(w \o Data(s, m + 1), s, b, m + 1)
      /\ Complete(w \o Data(s, m + 1), s, b, m + 1)
  BY <1>1, <1>4, <1>5, <1>6, OrderData
<1>8. Data(s, n) \in Seq(Cell) /\ Framed(Data(s, n))  BY DataCells
<1>9. PICK v : v = w \o Data(s, n)  OBVIOUS
<1>10. v \in Seq(Cell) /\ Framed(v) /\ InOrder(v, s, b, n) /\ Complete(v, s, b, n)
  BY <1>1, <1>3, <1>7, <1>8, <1>9, FramedJoin, JoinedCells
<1>11. z \in Seq(Cell) /\ Framed(z)
       /\ \A k \in 1 .. Len(z) : ~At(z, k, "PSH", s) /\ ~At(z, k, "FIN", s)
  BY DEF Silent, Unmarked, At
<1>12. InOrder(v \o z, s, b, n) /\ Complete(v \o z, s, b, n)  BY <1>10, <1>11, OrderJoin
<1>13. v \o z = w \o (Data(s, n) \o z)  BY <1>8, <1>9, <1>11, CellsAssociative
<1> QED BY <1>1, <1>2, <1>12, <1>13

(* A chunk is written, or its write fails.                                  *)
LEMMA StreamWriteStep ==
  ASSUME SizesFit, StreamInv, ConfTypes', NEW e \in Ends, NEW s \in Sids, StreamWrite(e, s)
  PROVE  StreamInv'
<1>0. /\ RowTypes /\ Types /\ FormInv /\ ReplyInv /\ StageInv /\ SynSeen /\ EndSeen /\ Deliver
      /\ Held /\ StreamIntegrity /\ FinAfterData
      /\ Peer(e) \in Ends /\ Peer(Peer(e)) = e /\ "C" \in Ends /\ "S" \in Ends
  BY InvParts, PeerEnd DEF StreamInv
<1>1. PICK n \in Nat : n = sent[e][s] + 1  BY <1>0 DEF RowTypes
<1>2. /\ app[e][s] = "run" /\ str[e][s] = "live"
      /\ UNCHANGED <<app, str, streams, buffering, rd, rx>>
  BY DEF StreamWrite, appVars
<1>3. CASE Failed(e, Data(s, n)) /\ UNCHANGED sent
  <2>1. UNCHANGED <<app, str, streams, buffering, sent, rd, rx, outVars>> /\ Shut(e)
    BY <1>2, <1>3 DEF Failed
  <2> QED BY <2>1, DieOnly
<1>4. CASE Sent(e, Data(s, n)) /\ sent' = [sent EXCEPT ![e][s] = n] /\ UNCHANGED die
  <2>1. ~Holding(e)  BY <1>0, <1>2 DEF Holding, StageInv
  <2>2. Data(s, n) \in Seq(Cell) /\ Framed(Data(s, n))  BY DataCells
  <2>3. /\ wire' \in [Ends -> Seq(Cell)] /\ buffer' \in Seq(Cell)
        /\ pkt' \in Nat /\ sendPadding' \in BOOLEAN
        /\ FormInv' /\ Still(e)
        /\ \/ /\ die[e] # "done" /\ die[Peer(e)] # "done"
              /\ \E z : Silent(z) /\ Chan(Peer(e))' = Chan(Peer(e)) \o (Data(s, n) \o z)
           \/ /\ die[e] # "done" /\ die[Peer(e)] = "done" /\ Shrinks(Peer(e))
    BY <1>0, <1>4, <2>1, <2>2, WriteEffect
  <2>4. /\ sent' \in [Ends -> [Sids -> Nat]] /\ sent'[e][s] = n
        /\ \A x \in Ends, t \in Sids : x # e \/ t # s => sent'[x][t] = sent[x][t]
    BY <1>0, <1>4 DEF RowTypes
  <2>5. RowTypes'  BY <1>0, <1>2, <1>4, <2>4 DEF RowTypes
  <2>6. Types'  BY <2>3, <2>5, TypePartsNext DEF OutTypes
  <2>7. ReplyInv'  BY <1>0, <1>2, ReplyKept
  <2>8. /\ str' = str /\ die' = die /\ rd' = rd /\ rx' = rx /\ app' = app
        /\ \A x \in Ends : Reading(x)' <=> Reading(x)
        /\ \A x \in Ends, t \in Sids : (Over(x, t)' <=> Over(x, t)) /\ Got(x, t)' = Got(x, t)
    BY <1>2, <1>4 DEF Reading, Over, Got, Holds
  <2>9. StageInv'
    <3>1. /\ \A x \in Ends, t \in Sids :
              /\ app[x][t] = "fin" => Over(x, t)
              /\ t \in streams[x] => str[x][t] # "none"
              /\ rx[x].pc \notin {"last", "ended"} /\ str[x][t] = "live" => t \in streams[x]
              /\ rx[x].pc = "reply" /\ rx[x].sid = t => Over(x, t)
          /\ \A t \in Sids :
              /\ app["C"][t] \in {"idle", "syn", "reg"} => str["C"][t] = "none"
              /\ app["C"][t] # "addr"
              /\ buffering => str["C"][t] = "none"
              /\ app["S"][t] = "run" => Len(rd["S"][t]) > 0
              /\ sent["C"][t] > 0 => str["C"][t] # "none"
      BY <1>0 DEF StageInv
    <3>2. \A t \in Sids : sent'["C"][t] > 0 => str["C"][t] # "none"
      <4> SUFFICES ASSUME NEW t \in Sids, sent'["C"][t] > 0 PROVE str["C"][t] # "none"  OBVIOUS
      <4>1. CASE e = "C" /\ t = s  BY <1>2, <4>1
      <4>2. CASE e # "C" \/ t # s  BY <1>0, <2>4, <3>1, <4>2
      <4> QED BY <4>1, <4>2
    <3>3. streams' = streams /\ buffering' = buffering  BY <1>2
    <3> QED BY <2>8, <3>1, <3>2, <3>3 DEF StageInv
  <2>10. Adds(e, <<>>) /\ \A k : ~(k \in 1 .. Len(<<>>))  BY <1>0, <2>3, StillAdds
  <2>11. \A t \in Sids :
            /\ Onward(t) /\ (app'["C"][t] \in {"reg", "run"} => app["C"][t] \in {"reg", "run"})
            /\ ~(app["C"][t] = "syn" /\ app'["C"][t] \in {"reg", "run"})
    BY <2>8 DEF Onward
  <2>12. str["C"][s] # "none"
    <3>1. CASE e = "C"  BY <1>2, <3>1
    <3>2. CASE e = "S"
      <4>1. Len(rd["S"][s]) > 0  BY <1>0, <1>2, <3>2 DEF StageInv
      <4>2. Len(rd["S"][s]) <= sent["C"][s]  BY <1>0, <3>2, PeerEnd DEF StreamIntegrity
      <4>3. Len(rd["S"][s]) \in Nat /\ sent["C"][s] \in Nat  BY <1>0, <3>2, SentTypes, PeerEnd
      <4>4. sent["C"][s] > 0  BY <4>1, <4>2, <4>3
      <4> QED BY <1>0, <4>4 DEF StageInv
    <3> QED BY <3>1, <3>2, PeerEnd
  <2>13. SynSeen' /\ EndSeen' /\ Deliver'
    <3>1. ASSUME NEW t \in Sids, e = "S" PROVE SynAt(t)'
      <4>1. Adds("S", <<>>)  BY <2>10, <3>1
      <4> QED BY <1>0, <2>8, <2>10, <2>11, <4>1, SynAdds
    <3>2. ASSUME NEW t \in Sids PROVE DeliverAt(e, t)'
      <4>1. sent'[Peer(e)][t] = sent[Peer(e)][t]
        <5>1. Peer(e) # e  BY PeerEnd DEF Peer
        <5> QED BY <1>0, <2>4, <5>1
      <4> QED BY <1>0, <2>8, <2>10, <4>1, DeliverAdds
    <3>3. ASSUME \/ Shrinks(Peer(e))
                 \/ \E u : /\ Adds(Peer(e), u)
                           /\ \A t \in Sids : \A k \in 1 .. Len(u) :
                                /\ At(u, k, "FIN", t) => Over(e, t)'
                                /\ Peer(e) = "C" /\ At(u, k, "PSH", t) => str["C"][t] # "none"
          PROVE  EndSeen'
      <4>1. ASSUME NEW x \in Ends
            PROVE  \/ Shrinks(x)
                   \/ \E v : /\ Adds(x, v)
                             /\ \A t \in Sids : \A k \in 1 .. Len(v) :
                                /\ At(v, k, "FIN", t) => Over(Peer(x), t)'
                                /\ x = "C" /\ At(v, k, "PSH", t) => str["C"][t] # "none"
        <5>1. CASE x = e  BY <2>10, <5>1
        <5>2. CASE x = Peer(e)
          <6>1. Peer(x) = e  BY <1>0, <5>2
          <6> QED BY <3>3, <5>2, <6>1
        <5> QED BY <5>1, <5>2, PeerEnd
      <4>2. \A t \in Sids : str["C"][t] # "none" => str'["C"][t] # "none"  BY <2>8
      <4>3. \A x \in Ends, t \in Sids : Over(x, t) => Over(x, t)'  BY <2>8
      <4>4. \A x \in Ends, t \in Sids : str'[x][t] = "fin" => str[x][t] = "fin" \/ Over(Peer(x), t)'
        BY <2>8
      <4> QED BY <1>0, <4>1, <4>2, <4>3, <4>4, EndKept
    <3>4. CASE die[e] # "done" /\ die[Peer(e)] = "done" /\ Shrinks(Peer(e))
      <4>1. ~Reading(Peer(e))'  BY <2>8, <3>4 DEF Reading
      <4>2. ASSUME NEW t \in Sids, e = "C" PROVE SynAt(t)'
        <5>1. Shrinks("S") /\ ~Reading("S")'  BY <3>4, <4>1, <4>2, PeerEnd
        <5> QED BY <1>0, <2>8, <2>11, <5>1, SynShrinks
      <4>3. SynSeen'  BY <3>1, <4>2, PeerEnd DEF SynSeen
      <4>4. EndSeen'  BY <3>3, <3>4
      <4>5. \A t \in Sids : DeliverAt(Peer(e), t)'  BY <1>0, <4>1, DeliverNone
      <4>6. Deliver'  BY <3>2, <4>5, PeerEnd DEF Deliver
      <4> QED BY <4>3, <4>4, <4>6
    <3>5. ASSUME die[e] # "done", NEW z, Silent(z),
                 Chan(Peer(e))' = Chan(Peer(e)) \o (Data(s, n) \o z)
          PROVE  SynSeen' /\ EndSeen' /\ Deliver'
      <4>0. PICK u : u = Data(s, n) \o z  OBVIOUS
      <4>1. /\ Adds(Peer(e), u)
            /\ \A t \in Sids : \A k \in 1 .. Len(u) : /\ ~At(u, k, "SYN", t) /\ ~At(u, k, "FIN", t)
                                                      /\ At(u, k, "PSH", t) => t = s
        <5>0. Silent(z) /\ Chunk(u, s, n, z)  BY <3>5, <4>0 DEF Chunk
        <5>1. /\ u \in Seq(Cell) /\ Framed(u)
              /\ \A t \in Sids : \A k \in 1 .. Len(u) : /\ ~At(u, k, "SYN", t) /\ ~At(u, k, "FIN", t)
                                                        /\ At(u, k, "PSH", t) => t = s
          BY <1>1, <5>0, DataMarks
        <5>2. Adds(Peer(e), u)  BY <3>5, <4>0, <5>1 DEF Adds
        <5> QED BY <5>1, <5>2
      <4>2. ASSUME NEW t \in Sids, e = "C" PROVE SynAt(t)'
        <5>1. Adds("S", u) /\ die["C"] # "done" /\ app["C"][s] = "run"  BY <1>2, <3>5, <4>1, <4>2, PeerEnd
        <5>2. \A k \in 1 .. Len(u) : At(u, k, "PSH", t) => app["C"][t] \in {"reg", "run"} /\ die["C"] # "done"
          BY <4>1, <5>1
        <5> QED BY <1>0, <2>8, <2>11, <4>1, <5>1, <5>2, SynAdds
      <4>3. SynSeen'  BY <3>1, <4>2, PeerEnd DEF SynSeen
      <4>4. EndSeen'  BY <2>12, <3>3, <4>1
      <4>5. ASSUME NEW t \in Sids PROVE DeliverAt(Peer(e), t)'
        <5>1. CASE t = s
          <6>1. UNCHANGED <<die, str, rd, rx>>  BY <2>8
          <6> QED BY <1>1, <1>2, <2>4, <3>5, <5>1, <6>1, DataDelivered
        <5>2. CASE t # s
          <6>1. sent'[Peer(Peer(e))][t] = sent[Peer(Peer(e))][t]  BY <1>0, <2>4, <5>2
          <6>2. \A k \in 1 .. Len(u) : ~At(u, k, "PSH", t) /\ ~At(u, k, "FIN", t)  BY <4>1, <5>2
          <6> QED BY <1>0, <2>8, <4>1, <6>1, <6>2, DeliverAdds
        <5> QED BY <5>1, <5>2
      <4>6. Deliver'  BY <3>2, <4>5, PeerEnd DEF Deliver
      <4> QED BY <4>3, <4>4, <4>6
    <3> QED BY <2>3, <3>4, <3>5
  <2>14. \A x \in Ends, t \in Sids : /\ sent[x][t] \in Nat /\ sent'[x][t] \in Nat
                                     /\ sent[x][t] <= sent'[x][t] /\ Len(rd[x][t]) \in Nat
    <3> SUFFICES ASSUME NEW x \in Ends, NEW t \in Sids
                 PROVE  sent[x][t] \in Nat /\ sent[x][t] <= sent'[x][t] /\ Len(rd[x][t]) \in Nat
      BY <2>4
    <3>1. sent[x][t] \in Nat /\ Len(rd[x][t]) \in Nat  BY <1>0, SentTypes DEF RowTypes
    <3>2. CASE x = e /\ t = s  BY <1>1, <2>4, <3>1, <3>2
    <3>3. CASE x # e \/ t # s  BY <2>4, <3>1, <3>3
    <3> QED BY <3>1, <3>2, <3>3
  <2>15. Held'
    <3>1. ASSUME NEW x \in Ends, rx[x].pc = "push", NEW t, t = rx[x].sid
          PROVE  /\ t \in Sids /\ str[x][t] # "none"
                 /\ str[x][t] = "live" => /\ rx[x].chunk = <<t, Len(rd[x][t]) + 1>>
                                          /\ Len(rd[x][t]) < sent'[Peer(x)][t]
      <4>1. /\ t \in Sids /\ str[x][t] # "none"
            /\ str[x][t] = "live" => /\ rx[x].chunk = <<t, Len(rd[x][t]) + 1>>
                                     /\ Len(rd[x][t]) < sent[Peer(x)][t]
        BY <1>0, <3>1 DEF Held
      <4>2. /\ Len(rd[x][t]) \in Nat /\ sent[Peer(x)][t] \in Nat /\ sent'[Peer(x)][t] \in Nat
            /\ sent[Peer(x)][t] <= sent'[Peer(x)][t]
        BY <2>14, <4>1, PeerEnd
      <4> QED BY <4>1, <4>2
    <3> QED BY <2>8, <3>1 DEF Held
  <2>16. StreamIntegrity'
    <3>1. ASSUME NEW x \in Ends, NEW t \in Sids
          PROVE  /\ Len(rd[x][t]) <= sent'[Peer(x)][t]
                 /\ \A i \in 1 .. Len(rd[x][t]) : rd[x][t][i] = <<t, i>>
      <4>1. /\ Len(rd[x][t]) <= sent[Peer(x)][t]
            /\ \A i \in 1 .. Len(rd[x][t]) : rd[x][t][i] = <<t, i>>
        BY <1>0 DEF StreamIntegrity
      <4>2. /\ Len(rd[x][t]) \in Nat /\ sent[Peer(x)][t] \in Nat /\ sent'[Peer(x)][t] \in Nat
            /\ sent[Peer(x)][t] <= sent'[Peer(x)][t]
        BY <2>14, PeerEnd
      <4> QED BY <4>1, <4>2
    <3> QED BY <2>8, <3>1 DEF StreamIntegrity
  <2>17. FinAfterData'
    <3>1. ASSUME NEW x \in Ends, NEW t \in Sids, str[x][t] = "fin"
          PROVE  Len(rd[x][t]) = sent'[Peer(x)][t]
      <4>1. Over(Peer(x), t)  BY <1>0, <3>1 DEF EndSeen
      <4>2. Peer(x) # e \/ t # s  BY <1>2, <4>1 DEF Over
      <4>3. sent'[Peer(x)][t] = sent[Peer(x)][t]  BY <2>4, <4>2, PeerEnd
      <4> QED BY <1>0, <3>1, <4>3 DEF FinAfterData
    <3> QED BY <2>8, <3>1 DEF FinAfterData
  <2> QED BY <2>3, <2>6, <2>7, <2>9, <2>13, <2>15, <2>16, <2>17 DEF StreamInv
<1>5. \/ Sent(e, Data(s, n)) /\ sent' = [sent EXCEPT ![e][s] = n] /\ UNCHANGED die
      \/ Failed(e, Data(s, n)) /\ UNCHANGED sent
  BY <1>1 DEF StreamWrite, Data
<1> QED BY <1>3, <1>4, <1>5

-----------------------------------------------------------------------------
(* The invariant holds from the start and through every step.               *)

(* A new session's buffer holds the client's settings at most.              *)
LEMMA InitBuffer ==
  ASSUME Init
  PROVE  Silent(buffer) /\ \A e \in Ends : wire[e] = <<>>
<1>1. PICK h \in Hellos : buffer = <<>> \/ buffer = LongFrame("Settings", 0, h)  BY DEF Init
<1>2. "Settings" \in Cmds \ {"unit", "SYN", "PSH", "FIN"} /\ "Settings" # "UpdatePaddingScheme"
  BY DEF Cmds
<1>3. PICK o \in Nat : o = 0  OBVIOUS
<1>4. Silent(LongFrame("Settings", o, h))  BY <1>2, SilentFrames DEF Args
<1>5. Silent(buffer)  BY <1>1, <1>3, <1>4, SilentEmpty
<1> QED BY <1>5 DEF Init

(* A new session, or one that has had its first stream.                     *)
LEMMA InitRows ==
  ASSUME Init
  PROVE  /\ RowTypes /\ \A e \in Ends : die[e] = "no" /\ streams[e] = {} /\ rx[e].pc = "read"
         /\ \A e \in Ends, s \in Sids : sent[e][s] = 0 /\ Len(rd[e][s]) = 0
         /\ \A e \in Ends, s \in Sids : \/ app[e][s] = "idle" /\ str[e][s] = "none"
                                        \/ app[e][s] = "done" /\ str[e][s] = "dead" /\ ~buffering
<1>1. PICK reused \in BOOLEAN :
        /\ str = [e \in Ends |-> [s \in Sids |-> IF s = 1 THEN IF reused THEN "dead" ELSE "none"
                                                          ELSE "none"]]
        /\ app = [e \in Ends |-> [s \in Sids |-> IF s = 1 THEN IF reused THEN "done" ELSE "idle"
                                                          ELSE "idle"]]
        /\ reused => ~buffering
  BY Zenon DEF Init
<1>a. PICK st \in {"none", "dead"}, stage \in {"idle", "done"} :
        /\ (st = "none" /\ stage = "idle") \/ (st = "dead" /\ stage = "done" /\ ~buffering)
        /\ str = [e \in Ends |-> [s \in Sids |-> IF s = 1 THEN st ELSE "none"]]
        /\ app = [e \in Ends |-> [s \in Sids |-> IF s = 1 THEN stage ELSE "idle"]]
  <2>1. CASE reused  BY <1>1, <2>1
  <2>2. CASE ~reused  BY <1>1, <2>2
  <2> QED BY <2>1, <2>2
<1>b. PICK none \in Seq(Seq(Cell)) : none = <<>>  BY EmptySeq
<1>c. PICK empty \in Seq(Nat \X Nat) : empty = <<>> /\ Len(empty) = 0  BY EmptySeq
<1>2. /\ die = [e \in Ends |-> "no"] /\ streams = [e \in Ends |-> {}]
      /\ rx = [e \in Ends |-> [pc |-> "read", sid |-> 0, chunk |-> <<0, 0>>, reply |-> none]]
      /\ sent = [e \in Ends |-> [s \in Sids |-> 0]]
      /\ rd = [e \in Ends |-> [s \in Sids |-> empty]]
  BY <1>b, <1>c DEF Init
<1>3. rx \in [Ends -> Reader]  BY <1>2 DEF Reader
<1>4. rd \in [Ends -> [Sids -> Seq(Nat \X Nat)]]  BY <1>2
<1>5. /\ str \in [Ends -> [Sids -> {"none", "live", "dead", "fin"}]]
      /\ app \in [Ends -> [Sids -> {"idle", "syn", "reg", "addr", "run", "fin", "done"}]]
  BY <1>a
<1>6. RowTypes  BY <1>2, <1>3, <1>4, <1>5 DEF RowTypes
<1>7. /\ \A e \in Ends : die[e] = "no" /\ streams[e] = {} /\ rx[e].pc = "read"
      /\ \A e \in Ends, s \in Sids : sent[e][s] = 0 /\ Len(rd[e][s]) = 0
  BY <1>2, <1>c
<1>8. \A e \in Ends, s \in Sids : \/ app[e][s] = "idle" /\ str[e][s] = "none"
                                  \/ app[e][s] = "done" /\ str[e][s] = "dead" /\ ~buffering
  <2> SUFFICES ASSUME NEW e \in Ends, NEW s \in Sids
               PROVE  \/ app[e][s] = "idle" /\ str[e][s] = "none"
                      \/ app[e][s] = "done" /\ str[e][s] = "dead" /\ ~buffering
    OBVIOUS
  <2>1. CASE s = 1  BY <1>a, <2>1
  <2>2. CASE s # 1  BY <1>a, <2>2
  <2> QED BY <2>1, <2>2
<1> QED BY <1>6, <1>7, <1>8

(* The invariant holds at the start.                                        *)
LEMMA InitStream == Init => StreamInv
<1> SUFFICES ASSUME Init PROVE StreamInv  OBVIOUS
<1>0. /\ Silent(buffer) /\ \A e \in Ends : wire[e] = <<>>
      /\ "C" \in Ends /\ "S" \in Ends
  BY InitBuffer, PeerEnd
<1>1. /\ RowTypes /\ \A e \in Ends : die[e] = "no" /\ streams[e] = {} /\ rx[e].pc = "read"
      /\ \A e \in Ends, s \in Sids : sent[e][s] = 0 /\ Len(rd[e][s]) = 0
      /\ \A e \in Ends, s \in Sids : \/ app[e][s] = "idle" /\ str[e][s] = "none"
                                     \/ app[e][s] = "done" /\ str[e][s] = "dead" /\ ~buffering
  BY InitRows
<1>2. OutTypes
  <2>1. wire = [e \in Ends |-> <<>>] /\ pkt = 0 /\ sendPadding \in BOOLEAN  BY DEF Init
  <2>2. buffer \in Seq(Cell) /\ <<>> \in Seq(Cell)  BY <1>0, SilentEmpty DEF Silent
  <2> QED BY <2>1, <2>2 DEF OutTypes
<1>3. ConfTypes
  <2>1. PICK reused \in BOOLEAN :
          /\ streamId = (IF reused THEN 1 ELSE 0)
          /\ peerVersion = [e \in Ends |-> IF reused THEN 2 ELSE 0]
          /\ settings = reused /\ buffering = ~reused
          /\ pad = [C |-> IF reused THEN ServerScheme ELSE "default", S |-> ServerScheme]
          /\ synPending = 0 /\ watch = [cur |-> "none", late |-> FALSE]
    BY DEF Init
  <2>2. streamId \in 0 .. MaxSid /\ synPending \in 0 .. MaxSid  BY <2>1, MuxAssumption
  <2>3. pad \in [Ends -> DOMAIN Schemes]  BY <2>1, MuxAssumption DEF Ends
  <2> QED BY <2>1, <2>2, <2>3 DEF ConfTypes
<1>4. Types  BY <1>1, <1>2, <1>3, TypeParts
<1>5. PICK v : v = <<>> /\ Silent(v) /\ Len(v) = 0  BY SilentEmpty
<1>6. Chan("S") = buffer /\ Chan("C") = v /\ \A e \in Ends : wire[e] = v
  <2>1. buffer \in Seq(Cell)  BY <1>0 DEF Silent
  <2>2. wire["S"] \o buffer = buffer  BY <1>0, <2>1, ConcatEmptySeq
  <2> QED BY <1>0, <1>5, <2>2 DEF Chan
<1>7. \A e \in Ends : Silent(Chan(e))  BY <1>0, <1>5, <1>6, PeerEnd
<1>8. \A e \in Ends : \A i \in 1 .. Len(Chan(e)) : Chan(e)[i].cmd \notin {"SYN", "PSH", "FIN"}
  BY <1>7 DEF Silent, Unmarked
<1>9. FormInv
  <2>1. \A e \in Ends : Whole(wire[e]) /\ Proper(wire[e])  BY <1>5, <1>6 DEF Silent, Framed
  <2> QED BY <1>0, <2>1 DEF FormInv, Silent, Framed, Unmarked
<1>10. ReplyInv  BY <1>1 DEF ReplyInv
<1>11. StageInv  BY <1>0, <1>1 DEF StageInv, Over
<1>12. SynSeen
  <2> SUFFICES ASSUME NEW s \in Sids PROVE SynAt(s)  BY DEF SynSeen
  <2>1. \A i \in 1 .. Len(Chan("S")) : ~At(Chan("S"), i, "SYN", s) /\ ~At(Chan("S"), i, "PSH", s)
    BY <1>0, <1>8 DEF At
  <2>2. app["C"][s] \notin {"reg", "run"}  BY <1>0, <1>1
  <2>3. app["C"][s] \in {"idle", "syn"} => str["S"][s] = "none"
    <3>1. str["S"] = str["C"]
      <4>1. PICK y : str = [e \in Ends |-> y]  BY DEF Init
      <4> QED BY <1>0, <4>1
    <3> QED BY <1>0, <1>1, <3>1
  <2> QED BY <2>1, <2>2, <2>3 DEF SynAt
<1>13. EndSeen
  <2>1. \A e \in Ends, s \in Sids : str[e][s] # "fin"  BY <1>1
  <2> QED BY <1>8, <2>1 DEF EndSeen, At
<1>14. Deliver
  <2> SUFFICES ASSUME NEW e \in Ends, NEW s \in Sids PROVE DeliverAt(e, s)  BY DEF Deliver
  <2>1. Got(e, s) = 0 /\ sent[Peer(e)][s] = 0  BY <1>1, PeerEnd DEF Got, Holds
  <2>2. InOrder(Chan(e), s, 0, 0)
    <3>1. \A i \in 1 .. Len(Chan(e)) : Chan(e)[i].cmd \notin {"PSH", "FIN"}  BY <1>8
    <3> QED BY <3>1, OrderNone
  <2>3. Complete(Chan(e), s, 0, 0)  BY DEF Complete
  <2> QED BY <2>1, <2>2, <2>3 DEF DeliverAt
<1>15. Held  BY <1>1 DEF Held
<1>16. StreamIntegrity /\ FinAfterData  BY <1>1, PeerEnd DEF StreamIntegrity, FinAfterData
<1> QED BY <1>4, <1>9, <1>10, <1>11, <1>12, <1>13, <1>14, <1>15, <1>16 DEF StreamInv

(* Nothing happens.                                                         *)
LEMMA SameInv ==
  ASSUME StreamInv, UNCHANGED vars
  PROVE  StreamInv'
<1>1. /\ UNCHANGED <<die, app, str, streams, buffering, sent, rd, rx>> /\ UNCHANGED outVars
      /\ UNCHANGED <<peerVersion, settings, pad, streamId, synPending, watch>>
  BY DEF vars, appVars, cfgVars, synVars, dataVars
<1>2. ConfTypes'  BY <1>1, InvParts DEF ConfTypes
<1>3. PICK e \in Ends : e = "C"  BY PeerEnd
<1> QED BY <1>1, <1>2, <1>3, DieOnly

(* All steps of the receive loop.                                           *)
LEMMA ReceiveSteps ==
  ASSUME SizesFit, StreamInv, ConfTypes', NEW e \in Ends, Recv(e)
  PROVE  StreamInv'
<1>1. CASE RecvPSH(e)
  <2>1. CASE Head(wire[e]).sid \in streams[e]  BY <1>1, <2>1, TakeStep
  <2>2. CASE Head(wire[e]).sid \notin streams[e]  BY <1>1, <2>2, DropStep
  <2> QED BY <2>1, <2>2
<1>2. CASE PushFails(e)  BY <1>2, PushFailsStep
<1>3. CASE RecvFIN(e)  BY <1>3, FinStep
<1>4. CASE \/ RecvHeartRequest(e) \/ RecvIgnored(e)
           \/ e = "S" /\ RecvSettings
           \/ e = "C" /\ (RecvUpdatePaddingScheme \/ RecvServerSettings)
  BY <1>4, FrameSteps
<1>5. CASE Reply(e)  BY <1>5, ReplySteps
<1>6. CASE RecvEnds(e)  BY <1>6, EndStep
<1>7. CASE RecvSYN
  <2>1. CASE settings  BY <1>7, <2>1, OpenedStep
  <2>2. CASE ~settings  BY <1>7, <2>2, RefuseStep
  <2> QED BY <2>1, <2>2
<1>8. CASE RecvSYNACK  BY <1>8, AnswerStep
<1> QED BY <1>1, <1>2, <1>3, <1>4, <1>5, <1>6, <1>7, <1>8 DEF Recv

(* All steps.                                                               *)
LEMMA StreamStep ==
  ASSUME SizesFit
  PROVE  SynInv /\ StreamInv /\ [Next]_vars => SynInv' /\ StreamInv'
<1> SUFFICES ASSUME SynInv, StreamInv, [Next]_vars PROVE SynInv' /\ StreamInv'  OBVIOUS
<1>1. SynInv'  BY SynStep
<1>2. CASE UNCHANGED vars  BY <1>1, <1>2, SameInv
<1>3. CASE Next
  <2>1. SynGuarded'  BY <1>1 DEF SynInv
  <2>2. ConfTypes'  BY <1>3, <2>1, ConfKept DEF StreamInv
  <2>3. ASSUME NEW e \in Ends, CloseSession(e) \/ Closer(e) PROVE StreamInv'
    BY <2>2, <2>3, CloseSteps
  <2>4. ASSUME NEW e \in Ends, Recv(e) PROVE StreamInv'  BY <2>2, <2>4, ReceiveSteps
  <2>5. ASSUME NEW e \in Ends, NEW s \in Sids, StreamWrite(e, s) PROVE StreamInv'
    BY <2>2, <2>5, StreamWriteStep
  <2>6. ASSUME NEW e \in Ends, NEW s \in Sids, StreamRead(e, s) PROVE StreamInv'
    BY <2>2, <2>6, StreamReadStep
  <2>7. ASSUME NEW e \in Ends, NEW s \in Sids, StreamClose(e, s) \/ StreamClosed(e, s) PROVE StreamInv'
    BY <2>2, <2>7, UserSteps
  <2>8. ASSUME NEW s \in Sids, OpenStream(s) \/ SendSyn(s) \/ AddrFails(s) PROVE StreamInv'
    BY <2>2, <2>8, UserSteps, PeerEnd
  <2>9. ASSUME NEW s \in Sids, Register(s) PROVE StreamInv'  BY <2>2, <2>9, RegisterStep
  <2>10. ASSUME NEW s \in Sids, NEW failed \in BOOLEAN, Handshake(s, failed) PROVE StreamInv'
    BY <2>2, <2>10, ReportSteps
  <2>11. CASE Heartbeat
    <3>1. 1 \in Sids  BY MuxAssumption DEF Sids
    <3>2. PICK s \in Sids : s = 1  BY <3>1
    <3>3. PICK failed \in BOOLEAN : failed = TRUE  OBVIOUS
    <3>4. Handshake(s, failed) \/ Heartbeat  BY <2>11
    <3> QED BY <1>1, <2>2, <3>4, ReportSteps
  <2>12. CASE Watch
    <3>1. PICK e \in Ends : e = "C"  BY PeerEnd
    <3>2. CloseSession(e) \/ Closer(e) \/ Watch  BY <2>12
    <3> QED BY <1>1, <2>2, <3>2, CloseSteps
  <2>13. StreamInv'
    BY <1>3, <2>3, <2>4, <2>5, <2>6, <2>7, <2>8, <2>9, <2>10, <2>11, <2>12 DEF Next, Open
  <2> QED BY <1>1, <2>13
<1> QED BY <1>2, <1>3

(* The types hold, and what one end writes to a stream reaches the stream's *)
(* reader at the other end: frames stay aligned through padding, the        *)
(* client's buffer and its flush, chunks come in their order, each once and *)
(* in no other stream, and a stream that the peer's FIN closed has had all  *)
(* of them (session.go: recvLoop, lockedWrite, streamClosed).               *)
THEOREM StreamsHandOver ==
  ASSUME SizesFit
  PROVE  Spec => []StreamsDeliver
<1>1. Init => SynInv /\ StreamInv  BY SynInit, InitStream
<1>2. SynInv /\ StreamInv /\ [Next]_vars => SynInv' /\ StreamInv'  BY StreamStep
<1>3. StreamInv => StreamsDeliver
  <2> SUFFICES ASSUME StreamInv PROVE StreamsDeliver  OBVIOUS
  <2>1. FramesInSync
    <3> SUFFICES ASSUME NEW e \in Ends, wire[e] # <<>> PROVE Head(wire[e]).cmd # "unit"
      BY DEF FramesInSync
    <3>1. wire[e] \in Seq(Cell) /\ Framed(wire[e])  BY DEF StreamInv, Types, FormInv, Framed
    <3>2. wire[e][1].cmd # "unit"  BY <3>1, FramedLeft
    <3> QED BY <3>1, <3>2
  <2> QED BY <2>1 DEF StreamsDeliver, StreamInv, Types
<1> QED BY <1>1, <1>2, <1>3, PTL DEF Spec
=============================================================================
