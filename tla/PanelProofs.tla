---------------------------- MODULE PanelProofs ----------------------------
(***************************************************************************)
(* Proofs about HotReload, for any configurations and any number of edits: *)
(* the type invariant; and, when the file is not edited before main has    *)
(* started the panel, that one core instance runs every service, that      *)
(* events coalesced in reloadCh lose no setting, and that the nodes of the *)
(* file and no others run when edits only change what settings are set to. *)
(*                                                                         *)
(* Panel.Start does not look whether a server runs, so OneServer rests on  *)
(* who may call it: the reload goroutine right after its own Close, and    *)
(* main while no change can be on its way (Idle).                          *)
(***************************************************************************)
EXTENDS HotReload, TrafficReport, TLAPS, SequenceTheorems

One(b) == IF b THEN 1 ELSE 0

(* A start is paid for by an edit: every change that is on its way to the   *)
(* panel, at the watcher, in the channel or at the goroutine, was written.  *)
Budget ==
    /\ started + One(mpc = "start") + One(rpc \in {"close", "unmarshal", "start"})
               + One(pending) + One(wpc = "callback") + events <= writes + 1
    /\ events <= writes

(* TypeOK in two parts: what Panel.Start and Panel.Close change, and the    *)
(* threads.                                                                 *)
PanelTypeOK ==
    /\ panelConfig \in Seq(Nodes)
    /\ server \in (1 .. started) \cup {None}
    /\ services \in Seq([server : 1 .. started, node : Nodes])
    /\ running \subseteq 1 .. started
    /\ started \in 0 .. MaxWrites + 1

ThreadType ==
    /\ file \in Configs \cup {Broken}
    /\ events \in 0 .. MaxWrites /\ writes \in 0 .. MaxWrites
    /\ seen \in Configs
    /\ wpc \in {"idle", "callback"}
    /\ pending \in BOOLEAN /\ chClosed \in BOOLEAN
    /\ rpc \in {"wait", "close", "unmarshal", "start", "exited"}
    /\ recent \in BOOLEAN
    /\ mpc \in {"start", "run", "closing", "done"}
    /\ crashed \in {"no", "channel", "config"}
    /\ skipped \in BOOLEAN

TypeInv == ReloadTypeOK /\ Budget

(* While main has not started the panel nothing else touches it.            *)
Idle ==
    mpc = "start" => /\ events = 0 /\ wpc = "idle" /\ ~pending /\ ~chClosed /\ rpc = "wait"
                     /\ server = None

(* Between its Close and its Start the goroutine has left the panel empty;  *)
(* main may have closed it as well and ended.                               *)
Stopped ==
    /\ rpc \in {"unmarshal", "start"} => server = None
    /\ server = None => services = <<>>

ServerInv == TypeInv /\ Idle /\ Stopped /\ OneServer

-----------------------------------------------------------------------------
(* Merging two nodes gives a node; decoding into the old configuration      *)
(* gives a list of nodes again.                                             *)
LEMMA MergeType ==
  ASSUME NEW old \in Nodes, NEW new \in Nodes
  PROVE  Merge(old, new) \in Nodes
<1>1. PICK K \in SUBSET Keys : old \in [K -> Values]  BY DEF Nodes
<1>2. PICK L \in SUBSET Keys : new \in [L -> Values]  BY DEF Nodes
<1>3. Merge(old, new) \in [K \cup L -> Values]  BY <1>1, <1>2 DEF Merge
<1>4. K \cup L \in SUBSET Keys  OBVIOUS
<1> QED BY <1>3, <1>4 DEF Nodes

LEMMA UnmarshalType ==
  ASSUME NEW old \in Seq(Nodes), NEW new \in Seq(Nodes)
  PROVE  Unmarshal(old, new) \in Seq(Nodes)
<1> DEFINE n == IF Len(old) > Len(new) THEN Len(old) ELSE Len(new)
           e(i) == IF i > Len(new) THEN old[i]
                   ELSE IF i > Len(old) THEN new[i] ELSE Merge(old[i], new[i])
<1>1. n \in Nat /\ \A i \in 1 .. n : e(i) \in Nodes
  BY LenProperties, ElementOfSeq, MergeType
<1>2. Unmarshal(old, new) = [i \in 1 .. n |-> e(i)]  BY DEF Unmarshal
<1> HIDE DEF n, e
<1>3. [i \in 1 .. n |-> e(i)] \in Seq(Nodes)  BY <1>1, IsASeq
<1> QED BY <1>2, <1>3

(* Panel.Start either panics and leaves the panel alone, or adds a server   *)
(* and the services of the configuration on it.                             *)
StartedServices == [i \in DOMAIN panelConfig |->
                      [server |-> started + 1, node |-> panelConfig[i]]]

LEMMA OneType == \A b : One(b) \in {0, 1}
BY DEF One

LEMMA TypeParts == ReloadTypeOK <=> PanelTypeOK /\ ThreadType
BY Zenon DEF ReloadTypeOK, PanelTypeOK, ThreadType

LEMMA StartType ==
  ASSUME PanelTypeOK, PanelStart, started + 1 <= MaxWrites + 1, panelConfig' = panelConfig
  PROVE  /\ PanelTypeOK'
         /\ started' \in {started, started + 1}
         /\ crashed' \in {crashed, "config"}
<1> USE DEF PanelTypeOK
<1>1. CASE ~Loadable(panelConfig)
  BY <1>1 DEF PanelStart, panelv
<1>2. CASE Loadable(panelConfig)
  <2> DEFINE S == [server : 1 .. started + 1, node : Nodes]
  <2>1. /\ started' = started + 1 /\ server' = started + 1 /\ crashed' = crashed
        /\ running' = running \cup {started + 1}
        /\ services' = services \o StartedServices
    BY <1>2 DEF PanelStart, StartedServices
  <2>2. services \in Seq(S)
    <3>1. [server : 1 .. started, node : Nodes] \subseteq S  OBVIOUS
    <3> QED BY <3>1, SeqMonotonic
  <2>3. StartedServices \in Seq(S)
    <3>1. DOMAIN panelConfig = 1 .. Len(panelConfig) /\ Len(panelConfig) \in Nat
      BY LenProperties
    <3>2. \A i \in 1 .. Len(panelConfig) : panelConfig[i] \in Nodes  BY ElementOfSeq
    <3>3. \A i \in 1 .. Len(panelConfig) : [server |-> started + 1, node |-> panelConfig[i]] \in S
      BY <3>2
    <3> QED BY <3>1, <3>3, IsASeq DEF StartedServices
  <2>4. services' \in Seq(S)  BY <2>1, <2>2, <2>3, ConcatProperties
  <2>5. started' \in 0 .. MaxWrites + 1 /\ running' \subseteq 1 .. started'
    BY <2>1, HotReloadAssumption
  <2> QED BY <2>1, <2>4, <2>5
<1> QED BY <1>1, <1>2

LEMMA CloseType ==
  ASSUME PanelTypeOK, PanelClose, panelConfig' = panelConfig
  PROVE  PanelTypeOK' /\ started' = started
BY EmptySeq DEF PanelTypeOK, PanelClose

LEMMA InitTypeInv == ReloadInit => TypeInv
<1> SUFFICES ASSUME ReloadInit PROVE TypeInv  OBVIOUS
<1>1. services \in Seq([server : 1 .. started, node : Nodes])  BY EmptySeq DEF ReloadInit
<1>2. PanelTypeOK
  <2>1. panelConfig \in Seq(Nodes)  BY HotReloadAssumption DEF ReloadInit
  <2> QED BY <1>1, <2>1, HotReloadAssumption DEF ReloadInit, PanelTypeOK
<1>3. ThreadType
  <2>1. events \in 0 .. MaxWrites /\ writes \in 0 .. MaxWrites
    BY HotReloadAssumption DEF ReloadInit
  <2> QED BY <2>1, Zenon DEF ReloadInit, ThreadType
<1>4. Budget  BY DEF ReloadInit, Budget, One
<1> QED BY <1>2, <1>3, <1>4, TypeParts DEF TypeInv

LEMMA NextTypeInv == TypeInv /\ [ReloadNext]_reloadVars => TypeInv'
<1> SUFFICES ASSUME TypeInv, [ReloadNext]_reloadVars PROVE TypeInv'  OBVIOUS
<1>a. PanelTypeOK /\ ThreadType /\ Budget  BY TypeParts DEF TypeInv
<1>b. ASSUME PanelTypeOK', ThreadType', Budget' PROVE TypeInv'
  <2>1. ReloadTypeOK'  BY <1>b, Zenon DEF ReloadTypeOK, PanelTypeOK, ThreadType
  <2> QED BY <1>b, <2>1 DEF TypeInv
<1>c. /\ events \in Nat /\ writes \in Nat /\ started \in Nat /\ MaxWrites \in Nat
      /\ started <= MaxWrites + 1 /\ events <= MaxWrites /\ writes <= MaxWrites
  BY <1>a, HotReloadAssumption DEF PanelTypeOK, ThreadType
<1>d. UNCHANGED <<panelConfig, panelv>> => PanelTypeOK'  BY <1>a DEF PanelTypeOK, panelv
<1> USE DEF disk, channel, panelv
<1>1. ASSUME NEW c \in Configs \cup {Broken}, Write(c) PROVE TypeInv'
  <2>1. writes' = writes + 1 /\ events' = events + 1 /\ writes < MaxWrites
    BY <1>1 DEF Write
  <2>2. events' \in 0 .. MaxWrites /\ writes' \in 0 .. MaxWrites
    BY <2>1, <1>a, <1>c DEF Budget
  <2>3. ThreadType'  BY <1>1, <1>a, <2>2 DEF Write, ThreadType
  <2>4. Budget'
    <3>1. /\ One(mpc = "start")' = One(mpc = "start")
          /\ One(rpc \in {"close", "unmarshal", "start"})' =
               One(rpc \in {"close", "unmarshal", "start"})
          /\ One(pending)' = One(pending) /\ One(wpc = "callback")' = One(wpc = "callback")
          /\ started' = started
      BY <1>1 DEF Write
    <3> QED BY <3>1, <2>1, <1>a, <1>c, OneType DEF Budget
  <2> QED BY <1>1, <2>3, <2>4, <1>b, <1>d DEF Write
<1>2. CASE WatchRead
  <2>1. ThreadType'  BY <1>2, <1>a, <1>c DEF WatchRead, ThreadType
  <2>2. Budget'  BY <1>2, <1>a, <1>c DEF WatchRead, Budget, One
  <2> QED BY <1>2, <2>1, <2>2, <1>b, <1>d DEF WatchRead
<1>3. CASE OnConfigChange
  <2>1. ThreadType'  BY <1>3, <1>a, <1>c DEF OnConfigChange, ThreadType
  <2>2. Budget'  BY <1>3, <1>a, <1>c DEF OnConfigChange, Budget, One
  <2> QED BY <1>3, <2>1, <2>2, <1>b, <1>d DEF OnConfigChange
<1>4. CASE Receive
  <2>1. ThreadType'  BY <1>4, <1>a, <1>c DEF Receive, ThreadType
  <2>2. Budget'  BY <1>4, <1>a, <1>c DEF Receive, Budget, One
  <2> QED BY <1>4, <2>1, <2>2, <1>b, <1>d DEF Receive
<1>5. CASE RangeEnds
  <2>1. ThreadType'  BY <1>5, <1>a, <1>c DEF RangeEnds, ThreadType
  <2>2. Budget'  BY <1>5, <1>a, <1>c DEF RangeEnds, Budget, One
  <2> QED BY <1>5, <2>1, <2>2, <1>b, <1>d DEF RangeEnds
<1>6. CASE DebounceOver
  <2>1. ThreadType'  BY <1>6, <1>a DEF DebounceOver, ThreadType
  <2>2. Budget'  BY <1>6, <1>a DEF DebounceOver, Budget
  <2> QED BY <1>6, <2>1, <2>2, <1>b, <1>d DEF DebounceOver
<1>7. CASE ReloadClose
  <2>1. PanelTypeOK' /\ started' = started  BY <1>7, <1>a, CloseType DEF ReloadClose
  <2>2. ThreadType'  BY <1>7, <1>a DEF ReloadClose, ThreadType
  <2>3. Budget'  BY <1>7, <1>a, <2>1 DEF ReloadClose, Budget, One
  <2> QED BY <2>1, <2>2, <2>3, <1>b
<1>8. CASE ReloadUnmarshal
  <2>1. panelConfig' \in Seq(Nodes)
    <3>1. panelConfig \in Seq(Nodes) /\ seen \in Seq(Nodes)
      BY <1>a, HotReloadAssumption DEF PanelTypeOK, ThreadType
    <3> QED BY <1>8, <3>1, UnmarshalType DEF ReloadUnmarshal
  <2>2. PanelTypeOK'  BY <1>8, <1>a, <2>1 DEF ReloadUnmarshal, PanelTypeOK
  <2>3. ThreadType'  BY <1>8, <1>a DEF ReloadUnmarshal, ThreadType
  <2>4. Budget'  BY <1>8, <1>a DEF ReloadUnmarshal, Budget, One
  <2> QED BY <2>2, <2>3, <2>4, <1>b
<1>9. CASE ReloadStart
  <2>1. started + 1 <= MaxWrites + 1  BY <1>9, <1>a, <1>c DEF ReloadStart, Budget, One
  <2>2. PanelTypeOK' /\ started' \in {started, started + 1} /\ crashed' \in {crashed, "config"}
    BY <1>9, <1>a, <2>1, StartType DEF ReloadStart
  <2>3. ThreadType'  BY <1>9, <1>a, <2>2 DEF ReloadStart, ThreadType
  <2>4. Budget'
    <3>1. /\ events' = events /\ writes' = writes /\ pending' = pending /\ wpc' = wpc
          /\ rpc = "start" /\ rpc' = "wait" /\ mpc' = mpc
      BY <1>9 DEF ReloadStart
    <3>2. started' \in Nat /\ started' <= started + 1  BY <1>c, <2>2
    <3>3. /\ One(pending)' = One(pending) /\ One(wpc = "callback")' = One(wpc = "callback")
          /\ One(rpc \in {"close", "unmarshal", "start"}) = 1 /\ One(rpc \in {"close", "unmarshal", "start"})' = 0
          /\ One(mpc = "start")' = One(mpc = "start")
      BY <3>1 DEF One
    <3> HIDE DEF One
    <3> QED BY <3>1, <3>2, <3>3, <1>a, <1>c, OneType DEF Budget
  <2> QED BY <2>2, <2>3, <2>4, <1>b
<1>10. CASE MainStart
  <2>1. started + 1 <= MaxWrites + 1  BY <1>10, <1>a, <1>c DEF MainStart, Budget, One
  <2>2. PanelTypeOK' /\ started' \in {started, started + 1} /\ crashed' \in {crashed, "config"}
    BY <1>10, <1>a, <2>1, StartType DEF MainStart
  <2>3. ThreadType'  BY <1>10, <1>a, <2>2 DEF MainStart, ThreadType
  <2>4. Budget'
    <3>1. /\ events' = events /\ writes' = writes /\ pending' = pending /\ wpc' = wpc
          /\ mpc = "start" /\ mpc' = "run" /\ rpc' = rpc
      BY <1>10 DEF MainStart
    <3>2. started' \in Nat /\ started' <= started + 1  BY <1>c, <2>2
    <3>3. /\ One(pending)' = One(pending) /\ One(wpc = "callback")' = One(wpc = "callback")
          /\ One(mpc = "start") = 1 /\ One(mpc = "start")' = 0
          /\ One(rpc \in {"close", "unmarshal", "start"})' = One(rpc \in {"close", "unmarshal", "start"})
      BY <3>1 DEF One
    <3> HIDE DEF One
    <3> QED BY <3>1, <3>2, <3>3, <1>a, <1>c, OneType DEF Budget
  <2> QED BY <2>2, <2>3, <2>4, <1>b
<1>11. CASE Signal
  <2>1. ThreadType'  BY <1>11, <1>a DEF Signal, ThreadType
  <2>2. Budget'  BY <1>11, <1>a, <1>c DEF Signal, Budget, One
  <2> QED BY <1>11, <2>1, <2>2, <1>b, <1>d DEF Signal
<1>12. CASE MainClose
  <2>1. PanelTypeOK' /\ started' = started  BY <1>12, <1>a, CloseType DEF MainClose
  <2>2. ThreadType'  BY <1>12, <1>a DEF MainClose, ThreadType
  <2>3. Budget'  BY <1>12, <1>a, <2>1 DEF MainClose, Budget, One
  <2> QED BY <2>1, <2>2, <2>3, <1>b
<1>13. CASE UNCHANGED reloadVars
  <2>1. ThreadType'  BY <1>13, <1>a DEF reloadVars, ThreadType
  <2>2. Budget'  BY <1>13, <1>a DEF reloadVars, Budget
  <2> QED BY <1>13, <2>1, <2>2, <1>b, <1>d DEF reloadVars
<1> QED BY <1>1, <1>2, <1>3, <1>4, <1>5, <1>6, <1>7, <1>8, <1>9, <1>10, <1>11, <1>12, <1>13
        DEF ReloadNext

(* The panel's state keeps its types whenever the file is edited: no start  *)
(* happens that no edit has asked for.                                      *)
THEOREM ReloadTypeCorrect == ReloadSpec => []ReloadTypeOK
<1>1. TypeInv => ReloadTypeOK  BY DEF TypeInv
<1> QED BY <1>1, InitTypeInv, NextTypeInv, PTL DEF ReloadSpec

-----------------------------------------------------------------------------
(* Panel.Start on an empty panel leaves one server, which all services use. *)
LEMMA StartOne ==
  ASSUME ReloadTypeOK, OneServer, server = None, services = <<>>, PanelStart,
         started + 1 <= MaxWrites + 1
  PROVE  /\ OneServer'
         /\ server' = None => services' = <<>>
<1> USE DEF ReloadTypeOK, OneServer
<1>1. CASE ~Loadable(panelConfig)  BY <1>1 DEF PanelStart, panelv
<1>2. CASE Loadable(panelConfig)
  <2>1. /\ server' = started + 1 /\ running' = running \cup {started + 1}
        /\ services' = services \o StartedServices
    BY <1>2 DEF PanelStart, StartedServices
  <2>2. services' = StartedServices
    <3>1. StartedServices \in Seq([server : 1 .. started + 1, node : Nodes])
      <4>1. DOMAIN panelConfig = 1 .. Len(panelConfig) /\ Len(panelConfig) \in Nat
        BY LenProperties
      <4>2. \A i \in 1 .. Len(panelConfig) :
               [server |-> started + 1, node |-> panelConfig[i]]
                  \in [server : 1 .. started + 1, node : Nodes]
        BY ElementOfSeq
      <4> QED BY <4>1, <4>2, IsASeq DEF StartedServices
    <3> QED BY <2>1, <3>1, ConcatEmptySeq
  <2>3. \A i \in DOMAIN services' : services'[i].server = server'
    BY <2>1, <2>2 DEF StartedServices
  <2>4. server' # None  BY <2>1, HotReloadAssumption
  <2> QED BY <2>1, <2>3, <2>4
<1> QED BY <1>1, <1>2

(* Panel.Close leaves none.                                                 *)
LEMMA CloseNone ==
  ASSUME ReloadTypeOK, OneServer, PanelClose
  PROVE  OneServer' /\ server' = None /\ services' = <<>>
BY DEF ReloadTypeOK, OneServer, PanelClose

LEMMA ServerInit == ReloadInit => ServerInv
BY InitTypeInv DEF ReloadInit, ServerInv, Idle, Stopped, OneServer

LEMMA ServerStep == EarlyWrites = FALSE /\ ServerInv /\ [ReloadNext]_reloadVars => ServerInv'
<1> SUFFICES ASSUME EarlyWrites = FALSE, ServerInv, [ReloadNext]_reloadVars PROVE ServerInv'  OBVIOUS
<1>0. TypeInv'  BY NextTypeInv DEF ServerInv
<1>a. ReloadTypeOK /\ OneServer /\ Idle /\ Stopped  BY DEF ServerInv, TypeInv
<1>b. SUFFICES Idle' /\ Stopped' /\ OneServer'  BY <1>0 DEF ServerInv
<1>1. CASE \/ \E c \in Configs \cup {Broken} : Write(c)
           \/ WatchRead \/ OnConfigChange \/ Receive \/ RangeEnds \/ DebounceOver
           \/ ReloadUnmarshal \/ Signal \/ UNCHANGED reloadVars
  <2>1. UNCHANGED <<server, services, running>>
    BY <1>1 DEF Write, WatchRead, OnConfigChange, Receive, RangeEnds, DebounceOver,
       ReloadUnmarshal, Signal, panelv, reloadVars
  <2>2. rpc' \in {"unmarshal", "start"} => rpc \in {"unmarshal", "start"}
    BY <1>1 DEF Write, WatchRead, OnConfigChange, Receive, RangeEnds, DebounceOver,
       ReloadUnmarshal, Signal, reloadVars
  <2>3. mpc' = "start" =>
          /\ mpc = "start" /\ events' = 0 /\ wpc' = "idle" /\ rpc' = "wait"
          /\ pending' = pending /\ chClosed' = chClosed
    <3>1. CASE UNCHANGED reloadVars  BY <3>1, <1>a DEF reloadVars, Idle
    <3>2. CASE ~ UNCHANGED reloadVars
      <4>1. mpc' # "start" \/ mpc = "start"
        BY <3>2, <1>1 DEF Write, WatchRead, OnConfigChange, Receive, RangeEnds, DebounceOver,
           ReloadUnmarshal, Signal
      <4>2. CASE mpc = "start"
        <5>1. events = 0 /\ wpc = "idle" /\ ~pending /\ ~chClosed /\ rpc = "wait"
          BY <4>2, <1>a DEF Idle
        <5>2. ~Receive /\ ~WatchRead /\ ~OnConfigChange /\ ~ReloadUnmarshal /\ ~RangeEnds
          BY <5>1 DEF Receive, WatchRead, OnConfigChange, ReloadUnmarshal, RangeEnds
        <5>3. ~ \E c \in Configs \cup {Broken} : Write(c)  BY <4>2 DEF Write
        <5> QED BY <3>2, <1>1, <4>2, <5>1, <5>2, <5>3 DEF DebounceOver, Signal, disk, channel
      <4> QED BY <4>1, <4>2
    <3> QED BY <3>1, <3>2
  <2> QED BY <1>a, <2>1, <2>2, <2>3 DEF Idle, Stopped, OneServer
<1>2. CASE ReloadClose
  BY <1>2, <1>a, CloseNone DEF ReloadClose, Idle, Stopped, ReloadTypeOK
<1>3. CASE MainClose
  BY <1>3, <1>a, CloseNone DEF MainClose, Idle, Stopped
<1>4. CASE ReloadStart
  <2>1. started + 1 <= MaxWrites + 1
    BY <1>4, <1>a, HotReloadAssumption DEF ReloadStart, ReloadTypeOK, ServerInv, TypeInv, Budget, One
  <2>2. server = None /\ services = <<>> /\ mpc # "start"
    BY <1>4, <1>a DEF ReloadStart, Stopped, Idle
  <2> QED BY <1>4, <1>a, <2>1, <2>2, StartOne DEF ReloadStart, Idle, Stopped
<1>5. CASE MainStart
  <2>1. started + 1 <= MaxWrites + 1
    BY <1>5, <1>a, HotReloadAssumption DEF MainStart, ReloadTypeOK, ServerInv, TypeInv, Budget, One
  <2>2. server = None /\ services = <<>> /\ rpc = "wait"
    BY <1>5, <1>a DEF MainStart, Stopped, Idle
  <2> QED BY <1>5, <1>a, <2>1, <2>2, StartOne DEF MainStart, Idle, Stopped
<1> QED BY <1>1, <1>2, <1>3, <1>4, <1>5 DEF ReloadNext

(* When the file is not edited before main has started the panel, reloads   *)
(* "cannot interleave p.Close()/p.Start()" (main.go): one core instance     *)
(* runs, every service of the panel runs on it and no instance is forgotten.*)
THEOREM OneServerRuns == EarlyWrites = FALSE => (ReloadSpec => []ReloadInv)
<1> SUFFICES ASSUME EarlyWrites = FALSE PROVE ReloadSpec => []ReloadInv  OBVIOUS
<1>1. ServerInv /\ [ReloadNext]_reloadVars => ServerInv'  BY ServerStep
<1>2. ServerInv => ReloadInv  BY DEF ServerInv, TypeInv, ReloadInv
<1> QED BY <1>1, <1>2, ServerInit, PTL DEF ReloadSpec

-----------------------------------------------------------------------------
(* Coalesced events.                                                        *)

(* What viper holds is what the file holds, unless it is yet to be read.    *)
Read == seen = file \/ file = Broken \/ events > 0

(* What viper holds is loaded, or somebody still has to load it, or the     *)
(* debounce has dropped the signal, or the process is gone.                 *)
Fresh ==
    \/ InForce(panelConfig, seen)
    \/ wpc = "callback" \/ pending \/ rpc \in {"close", "unmarshal"}
    \/ skipped \/ crashed # "no"

(* A panel that runs, runs panelConfig, and it runs outside a reload.       *)
Loaded ==
    /\ server # None => Running = panelConfig
    /\ Alive /\ mpc = "run" /\ rpc \in {"wait", "close"} => server # None

CInv == Read /\ Fresh /\ Loaded

(* A list of nodes is in force in itself, and what is decoded is in force,  *)
(* whatever it is decoded into.                                             *)
LEMMA InForceSame ==
  ASSUME NEW c \in Seq(Nodes)
  PROVE  InForce(c, c)
BY DEF InForce

LEMMA UnmarshalInForce ==
  ASSUME NEW old \in Seq(Nodes), NEW new \in Seq(Nodes)
  PROVE  InForce(Unmarshal(old, new), new)
<1> DEFINE u == Unmarshal(old, new)
<1>1. u \in Seq(Nodes)  BY UnmarshalType
<1>2. Len(old) \in Nat /\ Len(new) \in Nat /\ DOMAIN new = 1 .. Len(new)
  BY LenProperties
<1>3. DOMAIN u = 1 .. (IF Len(old) > Len(new) THEN Len(old) ELSE Len(new))
  BY DEF Unmarshal
<1>4. Len(u) = IF Len(old) > Len(new) THEN Len(old) ELSE Len(new)
  BY <1>1, <1>2, <1>3, LenProperties
<1>5. \A i \in 1 .. Len(new) :
         u[i] = IF i > Len(old) THEN new[i] ELSE Merge(old[i], new[i])
  BY <1>2 DEF Unmarshal
<1>6. ASSUME NEW i \in DOMAIN new, NEW k \in DOMAIN new[i]
      PROVE  k \in DOMAIN u[i] /\ u[i][k] = new[i][k]
  <2>1. CASE i > Len(old)  BY <1>2, <1>5, <2>1
  <2>2. CASE ~(i > Len(old))
    <3>1. u[i] = Merge(old[i], new[i])  BY <1>2, <1>5, <2>2
    <3> HIDE DEF u
    <3> QED BY <3>1 DEF Merge
  <2> QED BY <2>1, <2>2
<1> QED BY <1>2, <1>4, <1>6 DEF InForce

(* Panel.Start on an empty panel panics or runs what is configured.         *)
LEMMA StartLoads ==
  ASSUME ReloadTypeOK, server = None, services = <<>>, PanelStart, panelConfig' = panelConfig,
         started + 1 <= MaxWrites + 1
  PROVE  \/ crashed' = "config" /\ server' = None
         \/ server' # None /\ Running' = panelConfig'
<1> USE DEF ReloadTypeOK
<1>1. CASE ~Loadable(panelConfig)  BY <1>1 DEF PanelStart, panelv
<1>2. CASE Loadable(panelConfig)
  <2>1. server' = started + 1 /\ services' = services \o StartedServices
    BY <1>2 DEF PanelStart, StartedServices
  <2>2. server' # None  BY <2>1, HotReloadAssumption
  <2>3. DOMAIN panelConfig = 1 .. Len(panelConfig) /\ Len(panelConfig) \in Nat
    BY LenProperties
  <2>4. StartedServices \in Seq([server : 1 .. started + 1, node : Nodes])
    <3>1. \A i \in 1 .. Len(panelConfig) :
             [server |-> started + 1, node |-> panelConfig[i]]
                \in [server : 1 .. started + 1, node : Nodes]
      BY ElementOfSeq
    <3> QED BY <2>3, <3>1, IsASeq DEF StartedServices
  <2>5. services' = StartedServices  BY <2>1, <2>4, ConcatEmptySeq
  <2>6. Running' = [i \in DOMAIN panelConfig |-> panelConfig[i]]
    BY <2>5 DEF Running, StartedServices
  <2>7. panelConfig = [i \in DOMAIN panelConfig |-> panelConfig[i]]
    BY LenProperties
  <2> QED BY <2>2, <2>6, <2>7
<1> QED BY <1>1, <1>2

LEMMA InitCInv == ReloadInit => CInv
<1> SUFFICES ASSUME ReloadInit PROVE CInv  OBVIOUS
<1>1. panelConfig \in Seq(Nodes) /\ seen = panelConfig  BY HotReloadAssumption DEF ReloadInit
<1>2. Fresh  BY <1>1, InForceSame DEF Fresh
<1>3. Read /\ Loaded  BY DEF ReloadInit, Read, Loaded
<1> QED BY <1>2, <1>3 DEF CInv

(* No step loses a change.                                                  *)
LEMMA NextCInv ==
  EarlyWrites = FALSE /\ ServerInv /\ ServerInv' /\ CInv /\ [ReloadNext]_reloadVars => CInv'
<1> SUFFICES ASSUME EarlyWrites = FALSE, ServerInv, ServerInv', CInv, [ReloadNext]_reloadVars
             PROVE  CInv'
  OBVIOUS
<1> USE DEF disk, channel, panelv
<1>a. ThreadType /\ PanelTypeOK /\ ReloadTypeOK /\ Idle /\ Stopped /\ Read /\ Fresh /\ Loaded
  BY TypeParts DEF ServerInv, TypeInv, CInv
<1>b. events \in Nat  BY <1>a DEF ThreadType
<1>k. UNCHANGED <<panelConfig, server, services>> /\ (Alive' => Alive)
         /\ (mpc' = "run" => mpc = "run")
         /\ (rpc' \in {"wait", "close"} => rpc \in {"wait", "close"}) => Loaded'
  BY <1>a DEF Loaded, Running
<1>1. ASSUME NEW c \in Configs \cup {Broken}, Write(c) PROVE CInv'
  <2>1. Read'  BY <1>1, <1>b DEF Write, Read
  <2>2. Fresh'  BY <1>1, <1>a DEF Write, Fresh
  <2>3. Loaded'  BY <1>1, <1>k DEF Write, Alive
  <2> QED BY <2>1, <2>2, <2>3 DEF CInv
<1>2. CASE WatchRead
  <2>1. Read'  BY <1>2 DEF WatchRead, Read
  <2>2. Fresh'  BY <1>2 DEF WatchRead, Fresh
  <2>3. Loaded'  BY <1>2, <1>k DEF WatchRead, Alive
  <2> QED BY <2>1, <2>2, <2>3 DEF CInv
<1>3. CASE OnConfigChange
  <2>1. Read'  BY <1>3, <1>a DEF OnConfigChange, Read
  <2>2. Fresh'  BY <1>3 DEF OnConfigChange, Fresh
  <2>3. Loaded'  BY <1>3, <1>k DEF OnConfigChange, Alive
  <2> QED BY <2>1, <2>2, <2>3 DEF CInv
<1>4. CASE Receive
  <2>1. Read'  BY <1>4, <1>a DEF Receive, Read
  <2>2. Fresh'  BY <1>4 DEF Receive, Fresh
  <2>3. Loaded'  BY <1>4, <1>k DEF Receive, Alive
  <2> QED BY <2>1, <2>2, <2>3 DEF CInv
<1>5. CASE RangeEnds
  <2>1. Read'  BY <1>5, <1>a DEF RangeEnds, Read
  <2>2. Fresh'  BY <1>5, <1>a DEF RangeEnds, Fresh
  <2>3. Loaded'  BY <1>5, <1>k DEF RangeEnds, Alive
  <2> QED BY <2>1, <2>2, <2>3 DEF CInv
<1>6. CASE DebounceOver
  <2>1. Read'  BY <1>6, <1>a DEF DebounceOver, Read
  <2>2. Fresh'  BY <1>6, <1>a DEF DebounceOver, Fresh
  <2>3. Loaded'  BY <1>6, <1>k DEF DebounceOver, Alive
  <2> QED BY <2>1, <2>2, <2>3 DEF CInv
<1>7. CASE ReloadClose
  <2>1. Read'  BY <1>7, <1>a DEF ReloadClose, Read
  <2>2. Fresh'  BY <1>7 DEF ReloadClose, Fresh
  <2>3. server' = None /\ rpc' = "unmarshal" /\ panelConfig' = panelConfig
    BY <1>7 DEF ReloadClose, PanelClose
  <2>4. Loaded'  BY <2>3, <1>a DEF Loaded
  <2> QED BY <2>1, <2>2, <2>4 DEF CInv
<1>8. CASE ReloadUnmarshal
  <2>1. Read'  BY <1>8, <1>a DEF ReloadUnmarshal, Read
  <2>2. InForce(panelConfig', seen')
    <3>1. panelConfig \in Seq(Nodes) /\ seen \in Seq(Nodes)
      BY <1>a, HotReloadAssumption DEF PanelTypeOK, ThreadType
    <3> QED BY <1>8, <3>1, UnmarshalInForce DEF ReloadUnmarshal
  <2>3. Fresh'  BY <2>2 DEF Fresh
  <2>4. server' = None /\ rpc' = "start"  BY <1>8, <1>a DEF ReloadUnmarshal, Stopped
  <2>5. Loaded'  BY <2>4 DEF Loaded
  <2> QED BY <2>1, <2>3, <2>5 DEF CInv
<1>9. CASE ReloadStart
  <2>1. Read'  BY <1>9, <1>a DEF ReloadStart, Read
  <2>2. /\ seen' = seen /\ panelConfig' = panelConfig /\ wpc' = wpc /\ pending' = pending
        /\ skipped' = skipped /\ rpc = "start" /\ rpc' = "wait" /\ PanelStart /\ crashed = "no"
    BY <1>9 DEF ReloadStart, Alive
  <2>3. Fresh'  BY <2>2, <1>a DEF Fresh
  <2>4. server = None /\ services = <<>>  BY <2>2, <1>a DEF Stopped
  <2>5. started + 1 <= MaxWrites + 1
    BY <2>2, <1>a, HotReloadAssumption DEF ServerInv, TypeInv, Budget, One, PanelTypeOK, ThreadType
  <2>6. \/ crashed' = "config" /\ server' = None
        \/ server' # None /\ Running' = panelConfig'
    BY <1>a, <2>2, <2>4, <2>5, StartLoads
  <2>7. Loaded'  BY <2>2, <2>6, <1>a DEF Loaded, Alive
  <2> QED BY <2>1, <2>3, <2>7 DEF CInv
<1>10. CASE MainStart
  <2>1. Read'  BY <1>10, <1>a DEF MainStart, Read
  <2>2. /\ seen' = seen /\ panelConfig' = panelConfig /\ wpc' = wpc /\ pending' = pending
        /\ skipped' = skipped /\ mpc = "start" /\ rpc' = rpc /\ PanelStart /\ crashed = "no"
    BY <1>10 DEF MainStart, Alive
  <2>3. Fresh'  BY <2>2, <1>a DEF Fresh
  <2>4. server = None /\ services = <<>>  BY <2>2, <1>a DEF Stopped, Idle
  <2>5. started + 1 <= MaxWrites + 1
    BY <2>2, <1>a, HotReloadAssumption DEF ServerInv, TypeInv, Budget, One, PanelTypeOK, ThreadType
  <2>6. \/ crashed' = "config" /\ server' = None
        \/ server' # None /\ Running' = panelConfig'
    BY <1>a, <2>2, <2>4, <2>5, StartLoads
  <2>7. Loaded'  BY <2>2, <2>6, <1>a DEF Loaded, Alive
  <2> QED BY <2>1, <2>3, <2>7 DEF CInv
<1>11. CASE Signal
  <2>1. Read'  BY <1>11, <1>a DEF Signal, Read
  <2>2. Fresh'  BY <1>11, <1>a DEF Signal, Fresh
  <2>3. Loaded'  BY <1>11, <1>k DEF Signal, Alive
  <2> QED BY <2>1, <2>2, <2>3 DEF CInv
<1>12. CASE MainClose
  <2>1. Read'  BY <1>12, <1>a DEF MainClose, Read
  <2>2. Fresh'  BY <1>12, <1>a DEF MainClose, Fresh
  <2>3. server' = None /\ mpc' = "done" /\ panelConfig' = panelConfig
    BY <1>12 DEF MainClose, PanelClose
  <2>4. Loaded'  BY <2>3, <1>a DEF Loaded
  <2> QED BY <2>1, <2>2, <2>4 DEF CInv
<1>13. CASE UNCHANGED reloadVars
  <2>1. Read'  BY <1>13, <1>a DEF reloadVars, Read
  <2>2. Fresh'  BY <1>13, <1>a DEF reloadVars, Fresh
  <2>3. Loaded'  BY <1>13, <1>k DEF reloadVars, Alive
  <2> QED BY <2>1, <2>2, <2>3 DEF CInv
<1> QED BY <1>1, <1>2, <1>3, <1>4, <1>5, <1>6, <1>7, <1>8, <1>9, <1>10, <1>11, <1>12, <1>13
        DEF ReloadNext

(* A channel of size one loses no change: for every number of edits, adding *)
(* and removing nodes and settings as they like, every setting of the file  *)
(* is in force once all is quiet, unless the debounce dropped a signal.     *)
THEOREM CoalescedReloadsLoseNothing ==
  EarlyWrites = FALSE => (ReloadSpec => []CoalescingLossless)
<1> SUFFICES ASSUME EarlyWrites = FALSE PROVE ReloadSpec => []CoalescingLossless
  OBVIOUS
<1>1. ServerInv /\ [ReloadNext]_reloadVars => ServerInv'  BY ServerStep
<1>2. ServerInv /\ ServerInv' /\ CInv /\ [ReloadNext]_reloadVars => CInv'  BY NextCInv
<1>3. ServerInv /\ CInv => CoalescingLossless
  <2> SUFFICES ASSUME ServerInv, CInv, Settled, ~skipped, file # Broken
               PROVE  InForce(Running, file)
    BY DEF CoalescingLossless
  <2>1. seen = file  BY DEF CInv, Read, Settled
  <2>2. InForce(panelConfig, seen)  BY DEF CInv, Fresh, Settled, Alive
  <2>3. Running = panelConfig  BY DEF CInv, Loaded, Settled
  <2> QED BY <2>1, <2>2, <2>3
<1> QED BY <1>1, <1>2, <1>3, ServerInit, InitCInv, PTL DEF ReloadSpec

-----------------------------------------------------------------------------
(* Edits that neither add nor remove a node or a setting; the empty file an *)
(* editor leaves for a moment is allowed.                                   *)
Alike(c, d) == Len(c) = Len(d) /\ \A i \in DOMAIN c : DOMAIN c[i] = DOMAIN d[i]

SameShape == \A c, d \in Configs \ {<<>>} : Alike(c, d)

(* The configuration in use keeps that shape.                               *)
Shape == \A c \in Configs \ {<<>>} : Alike(panelConfig, c)

(* Intervals from 1 that are equal end at the same number.                  *)
LEMMA SameBound ==
  ASSUME NEW m \in Nat, NEW n \in Nat, 1 .. m = 1 .. n
  PROVE  m = n
<1>1. m <= n
  <2>1. m = 0 \/ m \in 1 .. n  OBVIOUS
  <2> QED BY <2>1
<1>2. n <= m
  <2>1. n = 0 \/ n \in 1 .. m  OBVIOUS
  <2> QED BY <2>1
<1> QED BY <1>1, <1>2

(* Decoding a configuration of the same shape, or an empty one, changes     *)
(* settings only.                                                           *)
LEMMA UnmarshalShape ==
  ASSUME SameShape, NEW old \in Seq(Nodes), NEW new \in Configs,
         \A c \in Configs \ {<<>>} : Alike(old, c)
  PROVE  \A c \in Configs \ {<<>>} : Alike(Unmarshal(old, new), c)
<1> DEFINE u == Unmarshal(old, new)
<1>1. new \in Seq(Nodes)  BY HotReloadAssumption
<1>2. u \in Seq(Nodes)  BY <1>1, UnmarshalType
<1>3. Len(old) \in Nat /\ Len(new) \in Nat /\ DOMAIN old = 1 .. Len(old)
      /\ DOMAIN u = 1 .. Len(u) /\ Len(u) \in Nat
  BY <1>1, <1>2, LenProperties
<1>4. Len(new) <= Len(old) /\ \A i \in 1 .. Len(new) : DOMAIN new[i] = DOMAIN old[i]
  <2>1. CASE new = <<>>  BY <2>1, <1>3
  <2>2. CASE new # <<>>  BY <2>2, <1>1, <1>3, LenProperties DEF Alike
  <2> QED BY <2>1, <2>2
<1>5. DOMAIN u = 1 .. Len(old)  BY <1>3, <1>4 DEF Unmarshal
<1>6. Len(u) = Len(old)  BY <1>3, <1>5, SameBound
<1>7. \A i \in 1 .. Len(old) : u[i] = IF i > Len(new) THEN old[i] ELSE Merge(old[i], new[i])
  BY <1>3, <1>4 DEF Unmarshal
<1>8. ASSUME NEW i \in 1 .. Len(old) PROVE DOMAIN u[i] = DOMAIN old[i]
  <2>1. CASE i > Len(new)  BY <2>1, <1>7
  <2>2. CASE ~(i > Len(new))
    <3>1. u[i] = Merge(old[i], new[i])  BY <1>7, <2>2
    <3>2. DOMAIN new[i] = DOMAIN old[i]  BY <1>3, <1>4, <2>2
    <3> HIDE DEF u
    <3> QED BY <3>1, <3>2 DEF Merge
  <2> QED BY <2>1, <2>2
<1> HIDE DEF u
<1>9. \A c \in Configs \ {<<>>} : Alike(u, c)  BY <1>3, <1>5, <1>6, <1>8 DEF Alike
<1> QED BY <1>9 DEF u

(* A list of the shape of another one that has all its settings in force is *)
(* that list.                                                               *)
LEMMA InForceExact ==
  ASSUME NEW c \in Seq(Nodes), NEW d \in Seq(Nodes), Alike(c, d), InForce(c, d)
  PROVE  c = d
<1>1. Len(c) = Len(d) /\ DOMAIN c = 1 .. Len(c) /\ DOMAIN d = 1 .. Len(c)
  BY LenProperties DEF Alike
<1>2. ASSUME NEW i \in 1 .. Len(c) PROVE c[i] = d[i]
  <2>1. DOMAIN c[i] = DOMAIN d[i] /\ \A k \in DOMAIN d[i] : c[i][k] = d[i][k]
    BY <1>1 DEF Alike, InForce
  <2>2. c[i] \in Nodes /\ d[i] \in Nodes  BY <1>1, ElementOfSeq
  <2>3. PICK K \in SUBSET Keys : c[i] \in [K -> Values]  BY <2>2 DEF Nodes
  <2>4. PICK L \in SUBSET Keys : d[i] \in [L -> Values]  BY <2>2 DEF Nodes
  <2> QED BY <2>1, <2>3, <2>4
<1> QED BY <1>1, <1>2, SeqEqual

(* When edits only change what settings are set to, the nodes that run once *)
(* all is quiet are those of the file and nothing else, unless the debounce *)
(* dropped a signal.                                                        *)
THEOREM ReloadRunsTheFile ==
  EarlyWrites = FALSE /\ SameShape => (ReloadSpec => []FileRuns)
<1> SUFFICES ASSUME EarlyWrites = FALSE, SameShape PROVE ReloadSpec => []FileRuns
  OBVIOUS
<1>1. ReloadInit => Shape  BY DEF ReloadInit, Shape, SameShape
<1>2. ServerInv /\ Shape /\ [ReloadNext]_reloadVars => Shape'
  <2> SUFFICES ASSUME ServerInv, Shape, [ReloadNext]_reloadVars PROVE Shape'  OBVIOUS
  <2>1. CASE ReloadUnmarshal
    <3>1. panelConfig \in Seq(Nodes) /\ seen \in Configs
      BY DEF ServerInv, TypeInv, ReloadTypeOK
    <3>2. \A c \in Configs \ {<<>>} : Alike(Unmarshal(panelConfig, seen), c)
      BY <3>1, UnmarshalShape DEF Shape
    <3> QED BY <2>1, <3>2 DEF ReloadUnmarshal, Shape
  <2>2. CASE ~ReloadUnmarshal
    <3>1. panelConfig' = panelConfig
      BY <2>2 DEF ReloadNext, Write, WatchRead, OnConfigChange, Receive, RangeEnds, DebounceOver,
         ReloadClose, ReloadStart, MainStart, Signal, MainClose, reloadVars
    <3> QED BY <3>1 DEF Shape
  <2> QED BY <2>1, <2>2
<1>3. ServerInv /\ [ReloadNext]_reloadVars => ServerInv'  BY ServerStep
<1>4. ServerInv /\ ServerInv' /\ CInv /\ [ReloadNext]_reloadVars => CInv'  BY NextCInv
<1>5. ServerInv /\ CInv /\ Shape => FileRuns
  <2> SUFFICES ASSUME ServerInv, CInv, Shape, Settled, ~skipped, file \notin {Broken, <<>>}
               PROVE  Running = file
    BY DEF FileRuns
  <2>1. seen = file  BY DEF CInv, Read, Settled
  <2>2. InForce(panelConfig, file)  BY <2>1 DEF CInv, Fresh, Settled, Alive
  <2>3. Running = panelConfig  BY DEF CInv, Loaded, Settled
  <2>4. panelConfig \in Seq(Nodes) /\ file \in Configs /\ file \in Seq(Nodes)
    BY HotReloadAssumption DEF ServerInv, TypeInv, ReloadTypeOK
  <2>5. Alike(panelConfig, file)  BY <2>4 DEF Shape
  <2> QED BY <2>2, <2>3, <2>4, <2>5, InForceExact
<1> QED BY <1>1, <1>2, <1>3, <1>4, <1>5, ServerInit, InitCInv, PTL DEF ReloadSpec

-----------------------------------------------------------------------------
(***************************************************************************)
(* Proofs about TrafficReport, for every set of users, tags and directions *)
(* and every bound: no byte is lost, none is booked twice while no reply   *)
(* is lost, and a report that fails puts back all it took.                 *)
(*                                                                         *)
(* The balance of a counter is not inductive by itself: getTraffic assigns *)
(* drained[c], so a counter about to be drained must have nothing in the   *)
(* report yet, and RestoreDone must find nothing left in it.  Report says  *)
(* so, step by step of the monitor.                                        *)
(***************************************************************************)
(* Where the report under way may hold bytes.                               *)
Report ==
    \A c \in Counters :
        /\ pc \in {"idle", "tag"} => drained[c] = 0
        /\ (pc = "drain" /\ c \in todo) => drained[c] = 0
        /\ (pc = "restore" /\ c \notin todo) => drained[c] = 0

IInv == TypeOK /\ Report /\ NeverLost /\ Conserved

(* The initial states satisfy the inductive invariant.                      *)
LEMMA InitIInv == Init => IInv
  <1> SUFFICES ASSUME Init PROVE IInv
    OBVIOUS
  <1>1. TypeOK
    BY TrafficAssumption DEF Init, TypeOK, Amounts, Zero
  <1>2. Report /\ NeverLost /\ Conserved
    BY DEF Init, Report, NeverLost, Conserved, Unsettled, Zero
  <1> QED
    BY <1>1, <1>2 DEF IInv

(* Every step keeps the types.                                              *)
LEMMA TypeStep == TypeOK /\ [Next]_vars => TypeOK'
  <1> SUFFICES ASSUME TypeOK, [Next]_vars PROVE TypeOK'
    OBVIOUS
  <1> USE TrafficAssumption DEF TypeOK, Amounts
  <1>1. ASSUME NEW c \in Counters, Relay(c) PROVE TypeOK'
    BY <1>1 DEF Relay, monitor
  <1>2. ASSUME NEW t \in Tags, setState(t) PROVE TypeOK'
    BY <1>2 DEF setState, monitor
  <1>3. ASSUME NEW list \in SUBSET Users, setUserList(list) PROVE TypeOK'
    BY <1>3 DEF setUserList, monitor
  <1>4. CASE getUserList
    BY <1>4 DEF getUserList
  <1>5. CASE getTag
    <2>1. {tag} \X snapshot \X Directions \subseteq Counters
      BY DEF Counters
    <2> QED
      BY <1>5, <2>1 DEF getTag
  <1>6. ASSUME NEW c \in Counters, getTraffic(c) PROVE TypeOK'
    BY <1>6 DEF getTraffic
  <1>7. ASSUME NEW c \in Counters, restoreTraffic(c) PROVE TypeOK'
    BY <1>7 DEF restoreTraffic
  <1>8. CASE DrainDone
    BY <1>8 DEF DrainDone, Zero
  <1>9. CASE RestoreDone
    BY <1>9 DEF RestoreDone
  <1>10. CASE PushAccepted
    BY <1>10 DEF PushAccepted, Book, Zero
  <1>11. CASE PushRefused
    BY <1>11 DEF PushRefused, PushFailed, Drained
  <1>12. CASE PushLostRequest
    BY <1>12 DEF PushLostRequest, PushError, PushFailed, Drained
  <1>13. CASE PushLostReply
    BY <1>13 DEF PushLostReply, PushError, PushFailed, Drained, Book
  <1>14. CASE UNCHANGED vars
    BY <1>14 DEF vars
  <1> QED
    BY <1>1, <1>2, <1>3, <1>4, <1>5, <1>6, <1>7, <1>8, <1>9, <1>10, <1>11, <1>12, <1>13,
       <1>14 DEF Next, MonitorStep, PushStep

(* Every step keeps the account of the report under way.                    *)
LEMMA ReportStep == TypeOK /\ Report /\ [Next]_vars => Report'
  <1> SUFFICES ASSUME TypeOK, Report, [Next]_vars, NEW k \in Counters
               PROVE  /\ pc' \in {"idle", "tag"} => drained'[k] = 0
                      /\ (pc' = "drain" /\ k \in todo') => drained'[k] = 0
                      /\ (pc' = "restore" /\ k \notin todo') => drained'[k] = 0
    BY DEF Report
  <1> DEFINE Goal == /\ pc' \in {"idle", "tag"} => drained'[k] = 0
                     /\ (pc' = "drain" /\ k \in todo') => drained'[k] = 0
                     /\ (pc' = "restore" /\ k \notin todo') => drained'[k] = 0
  <1> USE DEF TypeOK, Amounts, Report
  <1>1. ASSUME NEW c \in Counters, Relay(c) PROVE Goal
    BY <1>1 DEF Relay, monitor
  <1>2. ASSUME NEW t \in Tags, setState(t) PROVE Goal
    BY <1>2 DEF setState, monitor
  <1>3. ASSUME NEW list \in SUBSET Users, setUserList(list) PROVE Goal
    BY <1>3 DEF setUserList, monitor
  <1>4. CASE getUserList
    BY <1>4 DEF getUserList
  <1>5. CASE getTag
    BY <1>5 DEF getTag
  <1>6. ASSUME NEW c \in Counters, getTraffic(c) PROVE Goal
    BY <1>6 DEF getTraffic
  <1>7. ASSUME NEW c \in Counters, restoreTraffic(c) PROVE Goal
    BY <1>7 DEF restoreTraffic
  <1>8. CASE DrainDone
    BY <1>8 DEF DrainDone, Zero
  <1>9. CASE RestoreDone
    BY <1>9 DEF RestoreDone
  <1>10. CASE PushAccepted
    BY <1>10 DEF PushAccepted, Zero
  <1>11. CASE PushRefused
    BY <1>11 DEF PushRefused, PushFailed, Drained
  <1>12. CASE PushLostRequest
    BY <1>12 DEF PushLostRequest, PushError, PushFailed, Drained
  <1>13. CASE PushLostReply
    BY <1>13 DEF PushLostReply, PushError, PushFailed, Drained
  <1>14. CASE UNCHANGED vars
    BY <1>14 DEF vars
  <1> QED
    BY <1>1, <1>2, <1>3, <1>4, <1>5, <1>6, <1>7, <1>8, <1>9, <1>10, <1>11, <1>12, <1>13,
       <1>14 DEF Next, MonitorStep, PushStep

(* What a step does to one counter's account: it adds the same amount to    *)
(* both sides, or moves bytes from the left to the right; only a lost reply *)
(* books bytes that stay owed.                                              *)
LEMMA BalanceStep ==
    ASSUME TypeOK, Report, [Next]_vars, ~DisableUploadTraffic, NEW k \in Counters
    PROVE  \/ relayed'[k] - relayed[k]
                = (counters'[k] + drained'[k] + credited'[k])
                    - (counters[k] + drained[k] + credited[k])
           \/ /\ lostReplies' = lostReplies + 1
              /\ relayed'[k] = relayed[k]
              /\ counters'[k] = counters[k]
              /\ drained'[k] = drained[k]
              /\ credited'[k] >= credited[k]
  <1> DEFINE Same == /\ relayed'[k] = relayed[k] /\ counters'[k] = counters[k]
                     /\ drained'[k] = drained[k] /\ credited'[k] = credited[k]
             Goal == relayed'[k] - relayed[k]
                       = (counters'[k] + drained'[k] + credited'[k])
                           - (counters[k] + drained[k] + credited[k])
  <1>0. /\ relayed[k] \in Nat /\ counters[k] \in Nat
        /\ drained[k] \in Nat /\ credited[k] \in Nat
    BY DEF TypeOK, Amounts
  <1>s. Same => Goal
    BY <1>0
  <1> USE DEF TypeOK, Amounts
  <1>1. ASSUME NEW c \in Counters, Relay(c) PROVE Goal
    BY <1>0, <1>1 DEF Relay, monitor
  <1>2. ASSUME NEW t \in Tags, setState(t) PROVE Goal
    BY <1>2, <1>s DEF setState, monitor
  <1>3. ASSUME NEW list \in SUBSET Users, setUserList(list) PROVE Goal
    BY <1>3, <1>s DEF setUserList, monitor
  <1>4. CASE getUserList
    BY <1>4, <1>s DEF getUserList
  <1>5. CASE getTag
    BY <1>5, <1>s DEF getTag
  <1>6. ASSUME NEW c \in Counters, getTraffic(c) PROVE Goal
    <2>1. drained[c] = 0
      BY <1>6 DEF getTraffic, Report
    <2> QED
      BY <1>0, <1>6, <2>1 DEF getTraffic
  <1>7. ASSUME NEW c \in Counters, restoreTraffic(c) PROVE Goal
    BY <1>0, <1>7 DEF restoreTraffic
  <1>8. CASE DrainDone
    BY <1>8, <1>s DEF DrainDone, Zero
  <1>9. CASE RestoreDone
    BY <1>9, <1>s DEF RestoreDone
  <1>10. CASE PushAccepted
    BY <1>0, <1>10 DEF PushAccepted, Book, Zero
  <1>11. CASE PushRefused
    BY <1>11, <1>s DEF PushRefused
  <1>12. CASE PushLostRequest
    BY <1>12, <1>s DEF PushLostRequest
  <1>13. CASE PushLostReply
    BY <1>0, <1>13 DEF PushLostReply, Book
  <1>14. CASE UNCHANGED vars
    BY <1>14, <1>s DEF vars
  <1> QED
    BY <1>1, <1>2, <1>3, <1>4, <1>5, <1>6, <1>7, <1>8, <1>9, <1>10, <1>11, <1>12, <1>13,
       <1>14 DEF Next, MonitorStep, PushStep

(* lostReplies never decreases.                                             *)
LEMMA LostRepliesGrow ==
    ASSUME TypeOK, [Next]_vars
    PROVE  lostReplies' \in Nat /\ lostReplies' >= lostReplies
  BY TrafficAssumption
     DEF TypeOK, vars, Next, MonitorStep, PushStep, Relay, setState, setUserList, getUserList,
         getTag, getTraffic, restoreTraffic, DrainDone, RestoreDone, PushAccepted, PushRefused,
         PushLostRequest, PushLostReply

(* Every step keeps the balance of every counter.                           *)
LEMMA AccountStep == IInv /\ [Next]_vars => NeverLost' /\ Conserved'
  <1> SUFFICES ASSUME IInv, [Next]_vars PROVE NeverLost' /\ Conserved'
    OBVIOUS
  <1>0. TypeOK /\ Report /\ TypeOK'
    BY TypeStep DEF IInv
  <1>1. ASSUME ~DisableUploadTraffic, NEW k \in Counters
        PROVE  /\ relayed'[k] <= counters'[k] + drained'[k] + credited'[k]
               /\ lostReplies' = 0 => relayed'[k] = counters'[k] + drained'[k] + credited'[k]
    <2>1. /\ relayed[k] \in Nat /\ counters[k] \in Nat
          /\ drained[k] \in Nat /\ credited[k] \in Nat
          /\ relayed'[k] \in Nat /\ counters'[k] \in Nat
          /\ drained'[k] \in Nat /\ credited'[k] \in Nat
          /\ lostReplies \in Nat
      BY <1>0, TrafficAssumption DEF TypeOK, Amounts
    <2>2. /\ relayed[k] <= counters[k] + drained[k] + credited[k]
          /\ lostReplies = 0 => relayed[k] = counters[k] + drained[k] + credited[k]
      BY <1>1 DEF IInv, NeverLost, Conserved, Unsettled
    <2>3. lostReplies' \in Nat /\ lostReplies' >= lostReplies
      BY <1>0, LostRepliesGrow
    <2> QED
      BY <1>0, <1>1, <2>1, <2>2, <2>3, BalanceStep
  <1> QED
    BY <1>1 DEF NeverLost, Conserved, Unsettled

(* The induction step.                                                      *)
LEMMA StepIInv == IInv /\ [Next]_vars => IInv'
  BY TypeStep, ReportStep, AccountStep DEF IInv

(* The inductive invariant holds in every reachable state.                  *)
LEMMA AlwaysIInv == Spec => []IInv
  BY InitIInv, StepIInv, PTL DEF Spec

(* Type correctness: among other things userInfoMonitor makes no more       *)
(* attempts of a push than resty is configured for.                         *)
THEOREM TrafficTypeCorrect == Spec => []TypeOK
  <1>1. IInv => TypeOK
    BY DEF IInv
  <1> QED
    BY <1>1, AlwaysIInv, PTL

(* No byte is ever lost: whatever the panel answers, whatever requests and  *)
(* replies the network loses, and whatever the node monitor publishes       *)
(* between the steps of userInfoMonitor, what went over a counter is on it, *)
(* in the report under way, or booked.                                      *)
THEOREM TrafficNeverLost == Spec => []NeverLost
  <1>1. IInv => NeverLost
    BY DEF IInv
  <1> QED
    BY <1>1, AlwaysIInv, PTL

(* Until the first reply is lost, every byte is accounted for exactly once, *)
(* retries and restored reports included (getTraffic, restoreTraffic).      *)
THEOREM TrafficConserved == Spec => []Conserved
  <1>1. IInv => Conserved
    BY DEF IInv
  <1> QED
    BY <1>1, AlwaysIInv, PTL

(* Between two reports userInfoMonitor holds no bytes: a failed push has    *)
(* put everything back on the counters it came from (restoreTraffic).       *)
THEOREM TrafficNothingHeldBack == Spec => []NothingHeldBack
  <1>1. IInv => NothingHeldBack
    <2> SUFFICES ASSUME IInv, pc = "idle" PROVE drained = Zero
      BY DEF NothingHeldBack
    <2>1. \A c \in Counters : drained[c] = 0
      BY DEF IInv, Report
    <2>2. drained \in [Counters -> Nat]
      BY DEF IInv, TypeOK, Amounts
    <2> QED
      BY <2>1, <2>2 DEF Zero
  <1> QED
    BY <1>1, AlwaysIInv, PTL

(* Every step is a step of the ledger, or leaves the ledger alone.          *)
LEMMA LedgerStep ==
    ASSUME IInv, [Next]_vars, ~DisableUploadTraffic
    PROVE  [Ledger!Next]_(Ledger!vars)
  <1> DEFINE owed == [c \in Counters |-> Unsettled(c)]
             Push == /\ \A c \in Counters :
                          /\ credited'[c] >= credited[c]
                          /\ owed'[c] + credited'[c] = owed[c] + credited[c]
                     /\ owed' \in [Counters -> Nat]
                     /\ credited' \in [Counters -> Nat]
             Rebook == /\ MaxLostReplies > 0
                       /\ \A c \in Counters :
                            credited'[c] \in credited[c] .. credited[c] + owed[c]
                       /\ credited' \in [Counters -> Nat]
                       /\ owed' = owed
             RelayOf(c) == owed' = [owed EXCEPT ![c] = @ + 1] /\ UNCHANGED credited
  <1>0. TypeOK /\ Report /\ TypeOK'
    BY TypeStep DEF IInv
  <1>1. lostReplies \in Nat
    BY <1>0, TrafficAssumption DEF TypeOK
  <1>2. owed \in [Counters -> Nat] /\ owed' \in [Counters -> Nat]
    BY <1>0 DEF TypeOK, Amounts, Unsettled
  <1>3. ASSUME NEW c \in Counters, Relay(c) PROVE RelayOf(c)
    <2>1. /\ counters' = [counters EXCEPT ![c] = @ + 1]
          /\ drained' = drained /\ credited' = credited
      BY <1>3 DEF Relay, monitor
    <2>2. ASSUME NEW k \in Counters
          PROVE  counters'[k] + drained'[k]
                   = IF k = c THEN counters[k] + drained[k] + 1 ELSE counters[k] + drained[k]
      BY <1>0, <2>1 DEF TypeOK, Amounts
    <2>3. owed' = [k \in Counters |-> IF k = c THEN owed[k] + 1 ELSE owed[k]]
      BY <2>2 DEF Unsettled
    <2> QED
      BY <2>1, <2>3
  <1>4. ASSUME credited' = credited, relayed' = relayed PROVE owed' = owed
    <2>1. ASSUME NEW k \in Counters
          PROVE  counters'[k] + drained'[k] = counters[k] + drained[k]
      <3>1. relayed'[k] - relayed[k] = (counters'[k] + drained'[k] + credited'[k])
                                         - (counters[k] + drained[k] + credited[k])
        BY <1>0, <1>4, BalanceStep DEF TypeOK, Amounts
      <3> QED
        BY <1>0, <1>4, <3>1 DEF TypeOK, Amounts
    <2> QED
      BY <2>1 DEF Unsettled
  <1>5. ASSUME PushAccepted PROVE Push
    <2>1. ASSUME NEW c \in Counters
          PROVE  /\ credited'[c] >= credited[c]
                 /\ owed'[c] + credited'[c] = owed[c] + credited[c]
      BY <1>0, <1>5 DEF PushAccepted, Book, Zero, Unsettled, TypeOK, Amounts
    <2> QED
      BY <1>0, <1>2, <2>1 DEF TypeOK, Amounts
  <1>6. ASSUME PushLostReply PROVE Rebook
    <2>1. MaxLostReplies > 0
      BY <1>1, <1>6, TrafficAssumption DEF PushLostReply
    <2>2. owed' = owed
      BY <1>6 DEF PushLostReply, Unsettled
    <2>3. ASSUME NEW c \in Counters
          PROVE  credited'[c] \in credited[c] .. credited[c] + owed[c]
      BY <1>0, <1>6 DEF PushLostReply, Book, Unsettled, TypeOK, Amounts
    <2> QED
      BY <1>0, <2>1, <2>2, <2>3 DEF TypeOK, Amounts
  <1>7. \/ \E c \in Counters : Relay(c)
        \/ PushAccepted \/ PushLostReply
        \/ credited' = credited /\ relayed' = relayed
    BY DEF vars, Next, MonitorStep, PushStep, setState, setUserList, getUserList,
                getTag, getTraffic, restoreTraffic, DrainDone, RestoreDone, PushRefused,
                PushLostRequest
  <1>8. \/ \E c \in Counters : RelayOf(c)
        \/ Push \/ Rebook
        \/ owed' = owed /\ credited' = credited
    BY <1>3, <1>4, <1>5, <1>6, <1>7
  <1> QED
    BY <1>8 DEF Ledger!Next, Ledger!vars, Ledger!Relay, Ledger!Push, Ledger!Rebook

(* Drain, push, retry and restore together are the ledger: each byte is     *)
(* owed until it is credited, and credited once unless a reply of the panel *)
(* is lost; such a reply books at most what is owed, and it stays owed      *)
(* (userInfoMonitor with ReportUserTraffic).                                *)
THEOREM TrafficImplementsLedger ==
    ASSUME ~DisableUploadTraffic
    PROVE  Spec => LedgerSpec
  <1>1. Init => Ledger!Init
    BY DEF Init, Ledger!Init, Unsettled, Zero
  <1>2. IInv /\ [Next]_vars => [Ledger!Next]_(Ledger!vars)
    BY LedgerStep
  <1> QED
    BY <1>1, <1>2, AlwaysIInv, PTL DEF Spec, LedgerSpec, Ledger!Spec
=============================================================================
