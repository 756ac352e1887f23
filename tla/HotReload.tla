----------------------------- MODULE HotReload -----------------------------
(***************************************************************************)
(* The program's life (main/main.go) and the panel it starts, closes and   *)
(* reloads (panel/panel.go).                                               *)
(*                                                                         *)
(* Four threads: somebody who edits the configuration file; viper's watcher*)
(* (read the file, then call OnConfigChange); the goroutine that reloads;  *)
(* and main.  A configuration is its list of nodes, a node the settings its *)
(* entry gives; the keys outside Nodes are left out.  Servers               *)
(* (core.Instance) are numbered as they are started.                       *)
(***************************************************************************)
EXTENDS Naturals, Sequences, FiniteSets

CONSTANTS
    Keys, Values,  \* settings of a node and what they may be set to
    PanelType,     \* the key that names the panel
    Supported,     \* the panels Panel.Start knows
    Configs,       \* what the file may hold: sequences of nodes
    Broken,        \* a file that cannot be parsed
    None,
    EarlyWrites,   \* may the file change before main has started the panel?
    MaxWrites      \* bound: changes of the file

(* A node sets some of the keys.                                           *)
Nodes == UNION {[K -> Values] : K \in SUBSET Keys}

ASSUME HotReloadAssumption ==
    /\ PanelType \in Keys /\ Supported \subseteq Values
    /\ Configs \subseteq Seq(Nodes)
    /\ Broken \notin Configs
    /\ EarlyWrites \in BOOLEAN
    /\ MaxWrites \in Nat
    /\ None \notin 1 .. MaxWrites + 1

VARIABLES
    file,          \* content of the configuration file
    events,        \* changes of the file the watcher has not seen
    seen,          \* what viper holds (v.config)
    wpc,           \* the watcher: about to call OnConfigChange?
    pending,       \* an item is in reloadCh
    chClosed,      \* reloadCh is closed
    rpc,           \* the reload goroutine
    recent,        \* lastReload is less than debounceDuration ago
    panelConfig,   \* main's panelConfig, shared with p
    server,        \* p.Server
    services,      \* p.Service: server and node of each
    running,       \* servers that were started and not closed
    mpc,           \* main
    crashed,       \* why the process ended by a panic, if it did
    started, writes,
    skipped        \* history: a change was dropped since the last Unmarshal

reloadVars == <<file, events, seen, wpc, pending, chClosed, rpc, recent, panelConfig, server,
                services, running, mpc, crashed, started, writes, skipped>>
disk    == <<file, events, writes>>
channel == <<pending, chClosed>>
panelv  == <<server, services, running, started>>

Alive == mpc # "done" /\ crashed = "no"

ReloadTypeOK ==
    /\ file \in Configs \cup {Broken}
    /\ events \in 0 .. MaxWrites /\ writes \in 0 .. MaxWrites
    /\ seen \in Configs
    /\ wpc \in {"idle", "callback"}
    /\ pending \in BOOLEAN /\ chClosed \in BOOLEAN
    /\ rpc \in {"wait", "close", "unmarshal", "start", "exited"}
    /\ recent \in BOOLEAN
    /\ panelConfig \in Seq(Nodes)
    /\ server \in (1 .. started) \cup {None}
    /\ services \in Seq([server : 1 .. started, node : Nodes])
    /\ running \subseteq 1 .. started
    /\ mpc \in {"start", "run", "closing", "done"}
    /\ crashed \in {"no", "channel", "config"}
    /\ started \in 0 .. MaxWrites + 1
    /\ skipped \in BOOLEAN

(* getConfig and Unmarshal have run, the watcher and the goroutine are up.  *)
ReloadInit ==
    /\ file \in {c \in Configs : c # <<>>}
    /\ seen = file /\ panelConfig = file
    /\ events = 0 /\ writes = 0 /\ wpc = "idle"
    /\ pending = FALSE /\ chClosed = FALSE
    /\ rpc = "wait" /\ recent = FALSE
    /\ server = None /\ services = <<>> /\ running = {} /\ started = 0
    /\ mpc = "start" /\ crashed = "no" /\ skipped = FALSE

-----------------------------------------------------------------------------
(* mutant: a setting that has a value keeps it                              *)
MergeKeepsOld(old, new) ==
    [k \in DOMAIN old \cup DOMAIN new |-> IF k \in DOMAIN old THEN old[k] ELSE new[k]]

(* mapstructure decodes into the panelConfig that is there.  An entry of    *)
(* the list is decoded into the *NodesConfig at its place: what the new one *)
(* sets is overwritten, the other settings stay.  Entries beyond the old    *)
(* list are appended and none is removed.                                   *)
Merge(old, new) ==
    [k \in DOMAIN old \cup DOMAIN new |-> IF k \in DOMAIN new THEN new[k] ELSE old[k]]

Unmarshal(old, new) ==
    [i \in 1 .. (IF Len(old) > Len(new) THEN Len(old) ELSE Len(new)) |->
        IF i > Len(new) THEN old[i]
        ELSE IF i > Len(old) THEN new[i] ELSE Merge(old[i], new[i])]

(* loadCore and the switch over PanelType: log.Panicf when something in the *)
(* configuration is not understood.                                         *)
Loadable(config) ==
    \A i \in DOMAIN config :
        PanelType \in DOMAIN config[i] /\ config[i][PanelType] \in Supported

(* mutant: the controllers get p.Server before it is assigned               *)
PanelStartStale ==
    IF ~Loadable(panelConfig)
    THEN /\ crashed' = "config"
         /\ UNCHANGED panelv
    ELSE /\ started' = started + 1
         /\ server' = started + 1
         /\ running' = running \cup {started + 1}
         /\ services' = services \o [i \in DOMAIN panelConfig |->
                                       [server |-> server, node |-> panelConfig[i]]]
         /\ UNCHANGED crashed

(* Panel.Start, under p.access; it does not look whether a server runs.     *)
PanelStart ==
    IF ~Loadable(panelConfig)
    THEN /\ crashed' = "config"
         /\ UNCHANGED panelv
    ELSE /\ started' = started + 1
         /\ server' = started + 1
         /\ running' = running \cup {started + 1}
         /\ services' = services \o [i \in DOMAIN panelConfig |->
                                       [server |-> started + 1, node |-> panelConfig[i]]]
         /\ UNCHANGED crashed

(* mutant: the list of services is kept                                     *)
PanelCloseKeepsServices ==
    /\ running' = running \ {server}
    /\ server' = None
    /\ UNCHANGED <<services, started>>

(* Panel.Close, under p.access.                                             *)
PanelClose ==
    /\ services' = <<>>
    /\ running' = running \ {server}
    /\ server' = None
    /\ UNCHANGED started

-----------------------------------------------------------------------------
(* An editor writes the file.                                               *)
Write(c) ==
    /\ Alive
    /\ EarlyWrites \/ mpc # "start"
    /\ writes < MaxWrites
    /\ writes' = writes + 1
    /\ file' = c
    /\ events' = events + 1
    /\ UNCHANGED <<seen, wpc, channel, rpc, recent, panelConfig, panelv, mpc, crashed, skipped>>

(* viper: ReadInConfig keeps what it had when the file cannot be parsed,    *)
(* and OnConfigChange is called in both cases.                              *)
WatchRead ==
    /\ Alive
    /\ wpc = "idle" /\ events > 0
    /\ events' = events - 1
    /\ seen' = IF file = Broken THEN seen ELSE file
    /\ wpc' = "callback"
    /\ UNCHANGED <<file, writes, channel, rpc, recent, panelConfig, panelv, mpc, crashed,
                   skipped>>

(* mutant: an event during a reload is taken for the reload's own           *)
OnConfigChangeIdleOnly ==
    /\ Alive
    /\ wpc = "callback"
    /\ wpc' = "idle"
    /\ pending' = (pending \/ rpc = "wait")
    /\ UNCHANGED <<disk, seen, chClosed, rpc, recent, panelConfig, panelv, mpc, crashed, skipped>>

(* A send that does not block; on a closed channel it panics.               *)
OnConfigChange ==
    /\ Alive
    /\ wpc = "callback"
    /\ wpc' = "idle"
    /\ IF chClosed THEN crashed' = "channel" /\ UNCHANGED pending
                   ELSE pending' = TRUE /\ UNCHANGED crashed
    /\ UNCHANGED <<disk, seen, chClosed, rpc, recent, panelConfig, panelv, mpc, skipped>>

-----------------------------------------------------------------------------
(* The reload goroutine.                                                    *)

(* A signal within debounceDuration of the last reload is dropped.          *)
Receive ==
    /\ Alive
    /\ rpc = "wait" /\ pending
    /\ pending' = FALSE
    /\ IF recent THEN skipped' = TRUE /\ UNCHANGED <<rpc, recent>>
                 ELSE rpc' = "close" /\ recent' = TRUE /\ UNCHANGED skipped
    /\ UNCHANGED <<disk, seen, wpc, chClosed, panelConfig, panelv, mpc, crashed>>

(* range ends when the channel is closed and empty.                         *)
RangeEnds ==
    /\ Alive
    /\ rpc = "wait" /\ ~pending /\ chClosed
    /\ rpc' = "exited"
    /\ UNCHANGED <<disk, seen, wpc, channel, recent, panelConfig, panelv, mpc, crashed, skipped>>

DebounceOver ==
    /\ Alive
    /\ recent
    /\ recent' = FALSE
    /\ UNCHANGED <<disk, seen, wpc, channel, rpc, panelConfig, panelv, mpc, crashed, skipped>>

ReloadClose ==
    /\ Alive
    /\ rpc = "close"
    /\ PanelClose
    /\ rpc' = "unmarshal"
    /\ UNCHANGED <<disk, seen, wpc, channel, recent, panelConfig, mpc, crashed, skipped>>

ReloadUnmarshal ==
    /\ Alive
    /\ rpc = "unmarshal"
    /\ panelConfig' = Unmarshal(panelConfig, seen)
    /\ skipped' = FALSE
    /\ rpc' = "start"
    /\ UNCHANGED <<disk, seen, wpc, channel, recent, panelv, mpc, crashed>>

ReloadStart ==
    /\ Alive
    /\ rpc = "start"
    /\ PanelStart
    /\ rpc' = "wait"
    /\ UNCHANGED <<disk, seen, wpc, channel, recent, panelConfig, mpc, skipped>>

-----------------------------------------------------------------------------
(* main.                                                                    *)

MainStart ==
    /\ Alive
    /\ mpc = "start"
    /\ PanelStart
    /\ mpc' = "run"
    /\ UNCHANGED <<disk, seen, wpc, channel, rpc, recent, panelConfig, skipped>>

(* SIGINT or SIGTERM: close(reloadCh).                                      *)
Signal ==
    /\ Alive
    /\ mpc = "run"
    /\ chClosed' = TRUE
    /\ mpc' = "closing"
    /\ UNCHANGED <<disk, seen, wpc, pending, rpc, recent, panelConfig, panelv, crashed, skipped>>

(* The deferred p.Close, and the end of the process.                        *)
MainClose ==
    /\ Alive
    /\ mpc = "closing"
    /\ PanelClose
    /\ mpc' = "done"
    /\ UNCHANGED <<disk, seen, wpc, channel, rpc, recent, panelConfig, crashed, skipped>>

ReloadNext ==
    \/ \E c \in Configs \cup {Broken} : Write(c)
    \/ WatchRead
    \/ OnConfigChange
    \/ Receive
    \/ RangeEnds
    \/ DebounceOver
    \/ ReloadClose
    \/ ReloadUnmarshal
    \/ ReloadStart
    \/ MainStart
    \/ Signal
    \/ MainClose

ReloadSpec == ReloadInit /\ [][ReloadNext]_reloadVars

-----------------------------------------------------------------------------
(* Reloads are serialised so that they "cannot interleave                   *)
(* p.Close()/p.Start()": there is one core instance, every service of the   *)
(* panel runs on it, and no instance runs that the panel has forgotten.     *)
OneServer ==
    /\ running = {server} \ {None}
    /\ \A i \in DOMAIN services : services[i].server = server

(* The types hold, and one core instance runs every service (main.go:87).   *)
ReloadInv == ReloadTypeOK /\ OneServer

Running == [i \in DOMAIN services |-> services[i].node]

(* No change is on its way and no reload under way.                         *)
Settled ==
    /\ Alive /\ mpc = "run" /\ rpc = "wait"
    /\ events = 0 /\ wpc = "idle" /\ ~pending

(* Every setting of c is in force at its place in the list.                *)
InForce(config, c) ==
    /\ Len(c) <= Len(config)
    /\ \A i \in DOMAIN c : \A k \in DOMAIN c[i] :
          k \in DOMAIN config[i] /\ config[i][k] = c[i][k]

(* A buffered channel of size one is enough: events that are coalesced lose *)
(* nothing.  When all is quiet and no signal was dropped by the debounce    *)
(* since, every setting of every node of the file is in force.  What was    *)
(* taken out of the file may still run (FileRuns).                          *)
CoalescingLossless ==
    (Settled /\ ~skipped /\ file # Broken) => InForce(Running, file)

(* The configuration is hot-reloaded: once all is quiet, the file is in     *)
(* force, however many steps the editor wrote it in.                        *)
LastWriteLoaded ==
    (Settled /\ file # Broken) => InForce(Running, file)

(* The reload "reads the configuration again" (ARCHITECTURE.md): the nodes  *)
(* that run are those of the file, and nothing that was taken out of it.    *)
FileRuns ==
    (Settled /\ ~skipped /\ file \notin {Broken, <<>>}) => Running = file

(* Shutting down lets "the reload goroutine exit cleanly": closing the      *)
(* channel never makes the process panic.                                   *)
CleanShutdown == crashed # "channel"
=============================================================================
