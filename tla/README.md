# A TLA+ model of XrayR4u

XrayR4u is a node agent: it runs one Xray-core instance, follows a panel
(v2board UniProxy) over HTTP, and keeps the core's inbounds, users, limits and
audit rules in line with what the panel says. This directory holds TLA+ modules
that model its parts, TLC configurations that check them on small
instances, and proofs checked by TLAPS that hold for every size.

Everything that is modelled is translated from the Go code; `PROJECT.json`
lists, definition by definition, the lines it stands for.

## 1. The system

### Components, their state and operations

| Component | Code | State | Operations |
|---|---|---|---|
| Process and hot reload | `main/main.go`, `panel/panel.go` | the panel's core instance and services, the configuration in memory, a one-place reload channel, the time of the last reload | start, watcher callback, reload (close, decode, start), signal, close |
| Node controller | `service/controller/controller.go`, `control.go`, `userbuilder.go` | published node, tag and user list; two periodic tasks; `closeCtx` | `Start`, `nodeInfoMonitor` (fetch, compare, add/replace/restore an inbound, diff users, publish), `userInfoMonitor` (reports, kicks), `Close` |
| Limiter | `common/limiter/limiter.go` and its callers in `app/mydispatcher/default.go` | per tag: limits, rate buckets, and per user a table of addresses with reference counts | `AddInboundLimiter`, `UpdateInboundLimiter`, `DeleteInboundLimiter`, `DeleteUsersFromLimiter`, `PruneStaleEntries`, `GetUserBucket`, `RemoveOnlineIP`, `GetOnlineDevice` |
| Audit rules | `common/rule/rule.go`, rule calls of `api/v2board/v2board.go` | per tag: the compiled list and the set of hits; the client's rule cache with its version | `UpdateRule`, `DeleteRule`, `Detect`, `GetDetectResult`, `GetNodeRule`, `ReportIllegal` |
| Traffic accounting | `userInfoMonitor`, `getTraffic`, `restoreTraffic`, `ReportUserTraffic`, `app/mydispatcher/stats.go` | counters per tag, user and direction; the report under way | add, drain, push, retry, restore |
| AnyTLS service | `proxy/anytls/lib/service.go`, `Session.Close` | password table, map of live sessions | `NewConnection`, `trackSession`, `UpdateUsers`, `kickRevokedSessions` |
| AnyTLS mux session | `proxy/anytls/lib/session/session.go`, `stream.go`, `frame.go`, `lib/padding` | per end: stream map, write buffer and packet counter, padding scheme, peer version, SYNACK watchdog | `OpenStream`, `recvLoop` (nine kinds of frames), `writeDataFrame`, `writeControlFrame`, `lockedWrite`, `Close` |
| AnyTLS client pool | `session/client.go`, `lib/skiplist` | map of sessions, skip list of idle ones by age | `CreateStream`, the hooks of stream and session, `idleCleanup`, `Close` |
| AnyTLS pipe | `pipe/io_pipe.go`, `deadline.go`, `util/deadline.go` | one rendezvous, two deadlines, the watcher of a deadline | read, write, close, set deadline |
| AnyTLS inbound | `proxy/anytls/inbound.go`, `fallback.go` | none | `Process`: service, dispatcher, fallback |
| Dispatcher | `app/mydispatcher/default.go`, `sniffer.go`, `fakednssniffer.go`, `common/limiter/rate.go` | per connection: the link's two directions and their wrappers, the sniffing cache, the destinations | `Dispatch`, `DispatchLink`, `sniffer`, `shouldOverride`, `routedDispatch` |
| Settings builders | `inboundbuilder.go`, `outboundbuilder.go`, `stream_resolve.go` | none | decision tables from local configuration and the panel's answer to a core configuration |
| Panel client, parsing | `api/v2board/v2board.go` | cached node answer | `GetNodeInfo`, `GetUserList` |
| Certificates | `common/legocmd` | certificate and account files, process environment | `DNSCert`, `HTTPCert`, `RenewCert`; lego's `run` and `renew` |

### How they interact

The controller of each node runs two periodic tasks in goroutines of their own.
The *node monitor* fetches node and users and changes the core, the limiter, the
rules and the published list. The *user monitor* reads what is published, drains
counters, online addresses and audit hits, reports them, and applies the kick
list the panel returns - to the same core, limiter and list. Every connection
runs in its own goroutine through dispatcher, limiter and rule manager. The
AnyTLS service authenticates sessions while `UpdateUsers`, called by either
monitor, swaps its table; each of its sessions has a receive loop, and each
stream of a session a goroutine that hands it to the dispatcher. Building an
inbound may order a certificate, and a tick of the node monitor that has fetched
node and users and built what changed fires a renewal that nobody waits for; a
tick that fails before returns without it. The reload goroutine replaces all of this while the
file watcher and the main goroutine keep running.

Shared state is guarded piecewise: `sync.Map` entries, a mutex per online state,
a mutex per result set, an `RWMutex` per getter, a mutex around `Panel.Start`
and around `Panel.Close`; the process environment and the certificate files are
guarded by nothing. Nothing makes a *sequence* of these accesses atomic.
That is what is hard here, and it is what the modules represent: each step of a
goroutine is one map access or one critical section.

### What each part has to guarantee

* Limiter: the device limit holds; an address keeps its slot while one of its
  connections lives and loses it afterwards; connections of a user share a bucket.
* Service: a revoked user's sessions end; nobody relays with a revoked password.
* Traffic: every byte is booked, once.
* Controller: between cycles the published node serves, nothing is left of
  another, the users on the inbound are the published ones and have limits; a
  change of the tag interrupts nobody.
* Audit: no hit is lost; what the panel last said is enforced when it is silent.
* Reload: one core instance; every setting of the file is in force.
* Mux session: frames stay aligned under padding; a stream delivers its peer's
  data in order, all of it before the peer's FIN; closing a session ends its
  streams; nothing stands still that could go on; a silent peer is noticed.
* Client pool: a session has one user at a time and is idle, used or closing;
  a closed client closes all of them.
* Dispatcher: sniffing leaves the stream as it was; an abort is not an end;
  slot and counters are settled once; rules, router and dial agree on the
  destination; no connection or pipe is left behind.
* Settings and certificates: what the operator fixed locally stands whatever the
  panel says; a served certificate has its key and does not run out; credentials
  do not stay in the environment.

The hazards behind these, with the line at which each bites, are under
`hazards` in `PROJECT.json`.

## 2. The modules

| Module | Models | Instance | Proofs |
|---|---|---|---|
| `Limiter` | limiter and the dispatcher code around it | `MCLimiter` | `LimiterProofs` |
| `AnyTLSService` | authentication and revocation | `MCAnyTLSService` | `AnyTLSProofs` |
| `TrafficLedger` | abstract: bytes owed and credited | - | - |
| `TrafficReport` | counters, drain-push-restore, panel, network | `MCTrafficReport` | `PanelProofs` |
| `Controller` | Start, node monitor, kick, Close, core managers | `MCController` | `ControllerProofs` |
| `Audit` | rule fetch and cache, Detect, hits, report | `MCAudit` | `AuditProofs` |
| `HotReload` | main, watcher, reload goroutine, panel | `MCHotReload` | `PanelProofs` |
| `Padding` | sizes of a scheme, cutting and lengthening of a packet | with `MuxSession` | with `AnyTLSProofs` |
| `MuxSession` | both ends of a session, streams, pipes, watchdog | `MCMuxSession` | `AnyTLSProofs` |
| `SkipList` | the skip list, pointers and levels | with `SessionPool` | with `PoolProofs` |
| `SessionPool` | the client's sessions, hooks, cleanup, close | `MCSessionPool` | `PoolProofs` |
| `Sniffer` | list of sniffers, FakeDNS, override of the destination | with `Dispatcher` | with `DispatcherProofs` |
| `Dispatcher` | one connection: link, sniffing, routing, outbound, teardown | `MCDispatcher` | `DispatcherProofs` |
| `Settings` | node answer, inbound and stream settings | with `Certificates` | with `CertificateProofs` |
| `Certificates` | building, rebuilding and renewing nodes; files and environment | `MCCertificates` | `CertificateProofs` |

Two of the proof modules serve two components each, which share nothing but the
module: `AnyTLSProofs` (service and mux session) and `PanelProofs` (traffic and
hot reload). Names that both components would use carry the component's:
`ServiceSpec`, `ServiceTypeOK`, `ReloadSpec`, `ReloadTypeOK`.

**Limiter.** One tag and one user: the maps are keyed by tag and composite user
key and users never share an entry. A connection walks through
`trackConnection`, the four map accesses of `GetUserBucket`, `tryAdd` under the
state's mutex, the bucket's `LoadOrStore`, and on close `OnlineMap.RemoveIP` and
the three accesses of `RemoveOnlineIP`. Two monitors perform the registry
operations one access at a time. Heap objects are named by the connection that
allocates them, so that two objects stored under one key at different times are
distinct: an old and a new online state, a bucket that lost the `LoadOrStore`.

**AnyTLSService.** A session authenticates, is registered, gets its close hook,
runs and closes; updaters swap the table, collect the revoked sessions under the
lock and close them. `Session.Close` is split at `dieOnce`, the hook and the
connection, and runs in the session's goroutine or in an updater's.

**TrafficReport.** The user monitor reads list and tag separately, swaps each
counter with zero, pushes, and adds everything back to the *same* counters on an
error. The push is refused, or its request or its reply is lost; `resty` retries
transport errors only. The node monitor may publish another tag or list between
any two steps. The refinement of `TrafficLedger` maps `owed` to what is on the
counter plus what is in the report. The ledger's `Rebook`, crediting bytes that
stay owed, is only allowed where replies may be lost.

**Controller.** State is what the core's managers keep per tag (handler, whether
it listens, user table, outbound), the limiter's and the rule manager's entries,
and what is published. `addNewTag` and `addNewUser` are shared by Start, by a
change of tag, by a same-tag replacement, by its restoration and by the user
diff; `mode` says which caller they return to. The managers are external:
`AddHandler` refuses a taken tag and keeps a handler whose `Start` fails.

**Audit.** A rule is a number and the destination it matches; a pattern that did
not compile matches nothing. The list is concatenated as in `GetNodeRule` (local
rules all numbered -1, the panel's, the routes by index; a panel entry that is
dropped closes the gap, `Nth`), cached by version, installed, and searched by `Detect` for the first match. Result sets are heap
objects like the limiter's.

**HotReload.** A node is the settings its entry gives, a partial function.
`Unmarshal` decodes into the configuration in use, as mapstructure does
(`decodePtr` goes on with the `*NodesConfig` that is there,
`panel/config.go:15`): what an entry sets is overwritten, what it no longer sets
stays (`Merge`), and the list of nodes is never shortened. Viper's watcher, the send on the one-place channel, the debounce, the reload's close,
decode and start, main's own start and close are separate steps.

**Padding, MuxSession.** A frame on the wire is a header followed by its units
of payload, a field has `FieldMod` values, and a padding scheme draws any size
of its range: `FramesInSync` is about the bytes, not about a list of frames. A
packet's sizes are a sequence of sets, one per range (a range without a size
gives `Skipped`), and `Padded` is the set of all that the loop of `lockedWrite`
may put on the connection with them, a recursive function of its turns.
Each end has its receive loop, the users of its streams and whoever runs
`Session.Close`; the client has the watchdog besides. A write waits while the
connection is full, until its deadline closes the session. The server answers
with the outcome of its dial when `Acks` holds.

**SkipList, SessionPool.** The list is a function from nodes to their forward
pointers with the code's height; `randomLevel` may give any. The pool keeps next
to it the set the list stands for, so that `ListExact` compares an
implementation with its specification in every state the pool's goroutines
reach. Hooks are the code's plain fields: setting one and calling it race.

**Sniffer, Dispatcher.** A connection is described once (how it arrives, reader,
user, rate, sniffing, protocol, FakeDNS) and goes through `Dispatch` or
`DispatchLink` from its entry to the end of the outbound. Wrappers are operators:
what a close or an interrupt becomes on its way through them. A sniffer needs a
number of chunks to decide. Sniffing only removes sniffers from its list, so the
list is the set of those left and the fixed order in which they are tried
(`Order`, `FirstOf`). The client sends, closes or aborts at any moment. A
connection has two destinations, the one that is dialled and, under `routeOnly`,
the sniffed one that only the router and the rules are told.

**Settings, Certificates.** `Settings` translates `GetNodeInfo`, the `resolve`
functions, `buildStreamSetting` and `InboundBuilder` into operators that return
a record or `Fail`. `Certificates` builds the nodes in the order of the file
with them, rebuilds a node when the panel's answer changes, and runs the calls of
`legocmd` step by step: environment, account key, account, order, `.crt`, `.key`,
clean-up. A file is absent, torn, or of a generation. A call can fail at each of
its steps and the process can die between any two; a panic of lego is recovered
where the code recovers it. A renewal is fired by a tick of `nodeInfoMonitor`
that has fetched what it needs: of a node that has not changed (`Tick`), or that
has just been built anew (`TickRebuilt`, for the nodes in `due`). A tick whose
fetch or build fails fires none. A day passes when no call is under way, whether
or not a tick came that far.

### Abstractions

Payloads, names, formats, logging and rates beyond equality are left out. A
failed fetch leaves everything as it was and is a stuttering step, except for
rules (`FetchFails`). Time is left out except for the debounce, which may end at
any moment, for timeouts and deadlines, which may pass whenever they are armed,
and for the days of a certificate. `DisableUploadTraffic` is a constant. The limiter is in `Controller`
only as the set of users it knows; its inner races are in `Limiter`. Its verdict
is part of the description of a connection in `Dispatcher`.

## 3. What the runs show

Every configuration sets `CHECK_DEADLOCK FALSE`: the bounds on operations, cycles
and connections let an instance come to its end.

| Run | Instance | Distinct states | Shows |
|---|---|---|---|
| `limiter_churn` | 3 connections, 2 addresses, 2 registry operations of any kind | 3.3 M | `NoLeakedSlot`, `SlotsWithinLimit`, `OnlineMapExact` |
| `limiter_mux` | 4 connections, 2 addresses, no rejections, no operations | 1.0 M | `SlotKeptWhileLive`, `SharedBucket` |
| `service_kick` | 2 sessions, 2 overlapping `UpdateUsers` | 49 596 | `ServiceInv` (`RelayingTracked`), `RevokedTornDown` (liveness) |
| `traffic_report` | 1 user, 2 tags, 2 bytes per counter, 2 changes, 1 retry, 1 lost reply | 9 144 | `NeverLost`, `Conserved`, `NothingHeldBack`, `LedgerSpec` (refinement), `EventuallyBooked` (liveness) |
| `controller_rollback` | 3 nodes on 2 tags, 2 users, 2 cycles, 1 kick, one fault per cycle | 1.3 M | `Serving`, `NothingLeftBehind` (`NoOrphan`, `FailedStartClean`) |
| `controller_sync` | a VLESS and an AnyTLS node, 2 users, 2 UUIDs, 2 cycles, 1 kick, one fault per cycle | 3.7 M | `CycleSettles` (`CleanCycleSyncs`, `NobodyUnlimited`), `NoServiceGap` |
| `audit_rules` | 3 connections (one anonymous), 1 change, 1 report, 1 deletion | 1.6 M | `AuditInv` (`HitsAccounted`), `RulesSurviveBlip`, `MatchedRejected` |
| `reload_coalesce` | 3 writes after the start, 6 files and a broken one | 62 k | `ReloadInv` (`OneServer`), `CoalescingLossless` |
| `mux_session` | 2 streams opened, 2 schemes, 3 kinds of settings, 10 units of connection, 1 close or keep-alive of the environment | 1.8 M | `StreamsDeliver` (`FramesInSync`, `StreamIntegrity`, `FinAfterData`), `SynGuarded` (the count is within its bounds, `WatchdogCovers`), `ClientStreamsClosed`, `RecvNeverStuck` |
| `session_pool` | 2 goroutines, 3 streams, 2 sessions, 2 levels, reserve of 1 | 518 k | `PoolInv` (`ListExact`), `SessionAccounted` (`OneStreamPerSession`, `NoStrandedSession`, `CloseFindsSessions`), `ReserveKept` (action), `ClosedClientDrains` (liveness) |
| `dispatch_link` | 1500 kinds of connections, 3 chunks, pipe of 2 | 1.6 M | `UplinkSound` (`UplinkExact`, `EofMeansClosed`), `SettledOnce` (`ReleasedOnce`, `LinkDisposed`), `SessionOutlivesRouting`, `CountedBeforeDelivered`, `DestinationAgreed` (`AuditSeesRoute`, `FakeAddressResolved`), `AbandonedTornDown` (liveness) |
| `node_build` | 2 nodes, 16 pairs of local configurations, 2 calls at once, 4 calls, 1 crash or fault | 403 k | `KeysMatch` (`ServedPairMatches`, `AccountMatchesKey`), `EnvSound` (`EnvRestored`), `ServedCertRenewed`, `LocalDrives` (action) |

A property in the table is checked with the named parts in brackets as its
conjuncts, and each part has a mutant of the code that breaks it. `TypeOK` is a
property of `limiter_churn` and a part of `ServiceInv`, `NothingLeftBehind`,
`AuditInv`, `ReloadInv`, `StreamsDeliver`, `PoolInv`, `UplinkSound` and `EnvSound`; for
`TrafficReport` it is proved.

*Bounds.* Two connections from one address and one from another are what it
takes to tell a reference count from a flag and to fill a device limit of one;
the fourth connection of `limiter_mux` lets an address leave and return while
another stays. Two operations suffice for delete-then-add and for a prune beside
an update. Two bytes per counter let one arrive between a drain and its restore;
two tag or list changes let a change be undone under a report. Two cycles let a
cycle meet what a failed or kicked one left. Three writes let one arrive during
the reload of another whose signal is still in the channel; the files add and
remove a node, set a limit, change it and take it out. The first packet of
a session is cut, filled up and followed by padding, with sizes on both sides of
a header; the second stream is the first one the watchdog counts, and ten units
fill the connection while a reply is due. Two sessions and three streams let a
session be reused, expire beside a fresh one and die while it is handed out; two
levels let the list grow and shrink. A sniffer that needs two chunks takes both
attempts, a third chunk stays in the pipe, and two chunks fill the payload. A
lifetime of two days with one day left to renew has a day on which nothing is
done, one on which a renewal is due and one on which it is too late, and a
renewal that went well is good for the day after it; four calls
let two nodes be built and renewed, or one be renewed twice at once. The two nodes
with certificates keep their answer; a node whose answer changes, and that is
rebuilt while its renewal runs, is the only one with a certificate.

### Refuted promises

A doc or comment of the repository promises something the code does not do. Each
promise is a property of its module. To see it refuted, start from the named
configuration, change the constants as shown and check the property alone.

| Property | Configuration and constants | Promise and counterexample |
|---|---|---|
| `SlotKeptWhileLive` | `LimiterMux`, 3 connections, `DeviceLimits = {1}`, `Rates = {0}` | `limiter.go:25` "cannot free the device slot early": the close callback is installed before the limiter decides (`default.go:441`), so a rejected connection releases a reference it never took |
| `SlotKeptWhileLive` | `LimiterMux`, 2 connections, `DeviceLimits = {0}`, `Ops = {"prune"}`, `MaxOps = 1` | `limiter.go:257` "race-free, refcounted": `PruneStaleEntries` deletes a state that a connection enters after the emptiness check (`limiter.go:208`) |
| `SlotKeptWhileLive` | `LimiterMux`, 1 connection, `DeviceLimits = {0}`, `Ops = {"add"}`, `MaxOps = 1`, `MaxInfos = 2` | `limiter.go:77` "Device-limit slots stay occupied for live connections": a same-tag node change starts with empty online states |
| `BucketFresh` | `LimiterMux`, 1 connection, `DeviceLimits = {0}`, `Ops = {"update"}`, `MaxOps = 1` | `limiter.go:144` "invalidate stale rate bucket": a bucket built from limits read before the update is stored after it (`limiter.go:281`) |
| `NoRevokedRelay` | `ServiceKick` | `service.go:161` "Register before Run so a concurrent UpdateUsers ... can still find and close the session": the password is checked before the session is registered; an `UpdateUsers` in between finds nothing, and the session relays with a revoked password |
| `FinishedUntracked` | `ServiceKick` | `session.go:115` the hook is "invoked exactly once when the session is closed": it is set after the session is registered (`service.go:107`) |
| `Serving` | `ControllerRollback`, `Faults = {"start"}` | `controller.go:432` "transactional: on any failure the previous inbound + users + limiter are restored": the core keeps a handler whose start failed, and the old one cannot be put back on the taken tag |
| `KickRepaired` | `ControllerRollback`, `Faults = {}`, `MaxCycles = 3` | `controller.go:635` "only drops node-side sessions until the next /user pull": for VLESS a node monitor cycle that overlaps the kick publishes the full list, and no later cycle sees a difference |
| `NoOrphan` | `ControllerSync`, `Faults = {"outbound"}`, `MaxCycles = 1`, `MaxKicks = 0` | `controller.go:438` "roll back the new inbound so the old one keeps serving": the inbound stays when its outbound fails |
| `FailedStartClean` | `ControllerRollback`, `Faults = {"outbound"}` | `controller.go:116` "a failed Start() never leaves orphan inbound/outbound/limiter/rule entries": an error of `addNewTag` returns without the roll-back |
| `MatchedRejected` | `AuditRules`, `Dests = {d1, d2, d3}`, `LocalRules <- LocalD3` | `v2board.go:375` "Local rules still apply": local rules have the number -1, which `Detect` reads as "no rule matched" |
| `LastWriteLoaded` | `HotReloadCoalesce` | `main.go:94` the debounce is for "editors that write config files in two steps": the first step is loaded and the second is dropped for good |
| `FileRuns` | `HotReloadCoalesce` | `ARCHITECTURE.md:618` the reload reads the configuration again: it is decoded into the one in use (`main.go:120`), so that a node or a setting taken out of the file runs on |
| `OneServer` | `HotReloadCoalesce`, `EarlyWrites = TRUE` | `main.go:87` callbacks "cannot interleave p.Close()/p.Start()": a change before main's own start leaves two instances |
| `CleanShutdown` | `HotReloadCoalesce` | `main.go:138` "Close reloadCh so the reload goroutine exits cleanly": the watcher sends on the closed channel |
| `ServerStreamsClosed` | `MuxSession` | `session.go:121` "Close is used to close the session and all streams": the SYN case of `recvLoop` registers its stream after the sweep |
| `WatchdogOnlySilent` | `MuxSession`, `Acks = FALSE` | `session.go:160` the watchdog "fires only if the server stops responding": the inbound never calls `HandshakeSuccess` (`stream.go:152`), so a server that serves every stream is taken for a silent one |
| `NoLateHook` | `SessionPool` | `client.go:98` the hook that puts the session back is set after the stream is registered: a stream that ends in between never runs it and its session is idle for nobody |
| `IdleAlive` | `SessionPool` | `client.go:99` "If Session is not closed, put this Stream to pool": the session is closed between the check and the insertion, and stays on the list |
| `RangeExcludesLast` | `SessionPool` | `skiplist.go:151` "[first, last) (last is not includeed)": `FindRange` ends at the upper bound of `last` |
| `ConnectionKept` | `Dispatcher` | `default.go:503` "we MUST run routedDispatch synchronously": with sniffing disabled it runs in a goroutine (`default.go:468`) and the connection is closed under it |
| `RefusedLinkClosed` | `Dispatcher` | `inbound.go:186` "DispatchLink already closes the link on error": the reader and writer made of a stream have no close behind them |
| `BannedNeverDialled` | `Dispatcher`, `Banned = {"ip"}` | `default.go:600` "Check if domain and protocol hit the rule": under `routeOnly` the rules see the sniffed domain only, and the outbound dials the address, which they ban |
| `EnvAlwaysRestored` | `Certificates` | `lego.go:129` "restores previous values": two calls at once restore each other's values, and a refused variable leaves those set before it |
| `PairAlwaysMatches` | `Certificates` | `controller.go:247` "fire asynchronously": two renewals of one node overlap, and the pair on disk does not match until the next renewal is due |
| `LocalTlsRenewed` | `Certificates` | `inboundbuilder.go:123` "Local ControllerConfig can fully drive TLS": renewal is gated by the panel's `EnableTLS` (`controller.go:248`) |
| `RenewedByTimer` | `Certificates` | `ARCHITECTURE.md:400` a timer renews the certificate: a tick that finds the panel silent or a node it cannot build returns before the renewal (`controller.go:213`, `controller.go:229`); when this goes on for long enough a certificate runs out although nothing failed at the CA, on the network or on disk |

Seen while translating, and stated by no property: the SYNACK of the first,
uncounted stream can disarm the watchdog of the second; a scheme with a size
above 65535 overflows the 16-bit length of a padding frame; `limiter.Writer` has
no `Interrupt` and `limiter.Reader` neither `Interrupt` nor `Close`, so an abort
of a rate-limited user looks like an end (`EofMeansClosed` and `LinkDisposed`
except it); a raw reader skips metadata sniffing; FakeDNS composed with another
sniffer keeps the fake address under `routeOnly`; two first calls for one account
register different keys; a crash between the creation of the account key's file
and its encoding makes every later call panic; `EnableReality` on a VLESS node
whose panel does not answer REALITY settings cannot be built; the comparison of
`networkType` with `"ws"` never meets the normalised `"websocket"`.

The passing runs exclude exactly these cases, through their constants or in the
wording of the property, and show that nothing else goes wrong: `limiter_mux`
has neither rejections nor operations, `CleanCycleSyncs` and `NobodyUnlimited`
cover kicks for AnyTLS only, `controller_rollback` has the faults that are rolled
back, `reload_coalesce` writes after the start, `CoalescingLossless` speaks of
what the file sets and not of what was taken out of it, `AuditSeesRoute` of the
address that is dialled only where `routeOnly` has not split it from the route,
`audit_rules` has no local rule, `NoStrandedSession` and `ClosedClientDrains`
excuse a stream whose hook came late, `EnvRestored` and `ServedPairMatches` calls
that overlapped, `ServedCertRenewed` a certificate whose domain has had no
renewal that went well for more than `--days` days: failed, kept back by the
gate, or never reached by a tick.

### Fairness

* `AnyTLSService`: weak fairness of each session's own steps, of the return of
  `Run` once its connection is closed, and of each updater's steps. Goroutines
  are scheduled, none of these steps waits for a peer, and reads fail on a closed
  connection.
* `TrafficReport!LiveSpec`: weak fairness of the user monitor (a periodic task)
  and of the push as a whole (`resty` has a timeout), strong fairness of a push
  being accepted: a panel that is asked again and again answers at last. Without
  it nothing can be promised; with it the pushes may still fail any number of
  times in between.
* `SessionPool!LiveSpec`: weak fairness of each step of `CreateStream`, of the
  hooks and of closing, and of the end of a stream once it is used: a user of a
  stream is done with it some day. The cleanup and the client's close are not
  forced.
* `Dispatcher!LiveSpec`: weak fairness of the inbound's return, of sniffing (its
  reads time out), of routing and of an outbound that reads on and stops at the
  end of what it reads. Nothing is assumed of the client or of the upstream.

## 4. What is proved

With TLAPS, for every value of the constants that the `ASSUME` of the module
allows and, where a theorem names them, under hypotheses on the constants. Such
a hypothesis leaves out what refutes the property (the exclusions of section 3)
or a case in which the code means to do something else; each is explained with its
theorem. Except for the refinement and the action properties (such as
`CleanupKeepsReserve`, which are `Spec => [][A]_vars`), each theorem is
`Spec => []P`, from an inductive invariant made of named parts.

### Limiter (`LimiterProofs`)

* `LimiterTypeCorrect`, `TypeOK`: among other things, every object a step
  dereferences was allocated.
* `SlotsNeverLeak`, `NoLeakedSlot`: every reference counted in the user's current
  online state belongs to a connection admitted there that has not finished
  closing. The property is not inductive: a closing connection looks tag and
  state up again (`RemoveOnlineIP`) and must find the state it was admitted to
  unless that is retired for good. `IInv` adds that `InboundInfo` objects are
  current in creation order (`Registered`), that a state is published once, in
  the `InboundInfo` its allocator read (`Published`, `Joined`), what a closing
  connection has read already (`Closing`), that reads are of allocated objects
  (`CloseReads`, `MonitorReads`) and that unpublished states are empty.
* `DeviceLimitKept`, `SlotsWithinLimit`: no state records more addresses than the
  strictest limit it was entered under. A connection's limits are fixed before it
  joins a state (`JoinedKept`), and `tryAdd` adds one address (`DevicesStep`).
* `OnlineMapCountsOpen`, `OnlineMapExact`: `AddIP` and `RemoveIP` pair up.
* `OneBucketPerUser`, `SharedBucket`, if `Ops` contains at most the deletion of
  the tag (`BucketsStay`): an update, a removal and a prune reset the stored
  bucket while older connections keep theirs. `HubKept` says that whoever has a
  bucket has the stored one.
* `SlotLastsAsLongAsUsed`, `SlotKeptWhileLive`, if the monitors only update
  limits (`StatesStay`) and every limit has room for all addresses
  (`RoomForAll`), so that nobody is rejected: the three counterexamples of
  section 3 are what these exclude. The counts are not only at most (`IInv`) but
  at least the number of holders (`CountedOnce`), because everybody who closes
  was admitted (`AllAdmitted`) to the one state there is (`OneState`).

### AnyTLS service (`AnyTLSProofs`)

* `RelayingSessionsTracked`, `ServiceInv`. `RelayingTracked` says nothing about
  who may run a close hook; `Dying` and `KickDying` add that a hook runs only
  past `dieOnce`, and `Tracked` that a session enters the map before it relays.
* `ClosesNeverAbandoned`, `CloseInHand`: a session past `dieOnce` has its
  connection closed or somebody in the middle of closing it. This is the safety
  half of `RevokedTornDown`, whose other half is fairness.

### Traffic (`PanelProofs`)

* `TrafficTypeCorrect`, `TrafficNeverLost`, `TrafficConserved`,
  `TrafficNothingHeldBack`: the balance of each counter. `getTraffic` *assigns*
  the drained amount and `RestoreDone` forgets the report, so the balance needs
  `Report`: nothing is in the report for a counter still to be drained, nor for
  one already restored, nor between reports. `BalanceStep` says what any step
  does to one counter's account.
* `TrafficImplementsLedger`: with the upload enabled, `Spec` implements
  `TrafficLedger` under the mapping of section 2.

### Node controller (`ControllerProofs`)

* `ControllerTypeCorrect`, `TypeOK`.
* `NoCycleLeavesEntries`, `NothingLeftBehind`, if only building an inbound,
  fetching the list and adding users fail (`CleanFaults`), any number of times.
  The property speaks of the moments between cycles; `EntriesInv` says for every
  step of a cycle which node it works on (`Stage`), that a handler listens and
  has its outbound (`Shape`), and who owns the entries of each tag (`Owned`).
* `PublishedNodeServes`, `Serving`, if moreover a cycle meets at most one fault:
  a second one makes the restoration fail as well. `ServingInv` adds that the
  published node stays up except while it is built (`Up`), that a new inbound has
  no users yet, so that adding them is not refused (`FreshTable`), and that the
  serving tag is limited (`Limited`).
* `CycleSyncsUsers`, `CycleSettles`, and `SwitchKeepsService`, `NoServiceGap`, if
  every tag belongs to one node (`OneNodePerTag`) and the inbound accepts users
  (`UsersAccepted`), whatever else fails and however often. `SyncInv` follows the
  user table through the steps of a cycle from the published list to the fetched
  one (`TableFollows`), says when it has arrived (`TableSettled`,
  `LimitsSettled`), what stays up meanwhile (`Standing`), and that a cycle
  without a kick saw no half-done one (`KickSeen`). The second hypothesis is
  needed: when adding the users of a diff fails, the code logs the error, goes on
  without them and publishes the fetched list.

### Audit rules (`AuditProofs`)

* `HitsNeverLost`, `AuditInv`. The totals of `HitsAccounted` do not say where
  hits are; `OneSet` adds that unpublished sets are empty, `InHand` that whoever
  is about to use a set uses the published one.
* `AuditSurvivesBlip`, `RulesSurviveBlip`, from `Versions`: the cache is what the
  panel answered last, and a version stands for one list.
* `NumberedRulesReject`, `MatchedRejected`, if no rule has the number -1
  (`AllNumbered`). `Detect` returns the least index that matches; that it exists
  is `LeastElement`, from the library's well-founded order of the naturals.

### Process and hot reload (`PanelProofs`)

* `ReloadTypeCorrect`, `TypeOK`: the number of starts is bounded by the edits
  (`Budget`).
* `OneServerRuns`, `ReloadInv`, if the file changes only after main's own start
  (`EarlyWrites = FALSE`). `Idle` says that nothing else touches the panel before
  main has started it, `Stopped` that the panel is empty between the close and
  the start of a reload.
* `CoalescedReloadsLoseNothing`, `CoalescingLossless`, under the same hypothesis
  and for files with any nodes and settings. What viper holds is what the file holds or an event is on
  its way (`Read`); it is loaded or somebody still has to load it (`Fresh`); a
  panel that runs, runs the configuration in memory (`Loaded`).
* `ReloadRunsTheFile`, `FileRuns`: exactly the nodes of the file run, if moreover
  all non-empty files have equally many nodes and each place of the list sets the
  same keys in all of them (`SameShape`). Without it the configuration in memory
  keeps what was taken out, and the property is refuted above.

### Dispatcher (`DispatcherProofs`)

For any number of chunks, any sizes of pipe and sniffing payload, any rules:

* `SniffedStreamIntact`, `UplinkSound`; `LinksSettleOnce`, `SettledOnce`;
  `LinkOutlivesRouting`, `SessionOutlivesRouting`; `DeliveredIsCounted`,
  `CountedBeforeDelivered`.
* `RulesSeeWhatIsRouted`, `DestinationAgreed`: an outbound serves a user only
  what the rules were asked about and do not ban, and that is what the router was
  given; the outbound dials another destination only under `routeOnly`, and then
  the address the client asked for, which the rules have not seen
  (`BannedNeverDialled` is refuted above). That a fake address is not dialled as
  it came needs that the domain FakeDNS knows is not among the excluded ones: an
  excluded domain is not overridden.

They share one inductive invariant: where the goroutines of inbound and routing
may be together (`Control`), the types of the pipes, that what was read, the
cache and the pipe are consecutive pieces of what was sent (`InOrder`, `Complete`),
what an end of the stream says about the client (`ClosedByClient`), the counter
(`Counter`), the slot and the link for each position of the two goroutines
(`Slots`, `Disposed`), and how the destinations came about (`Destinations`,
`Audited`, `Resolved`).

### AnyTLS mux session (`AnyTLSProofs`)

For any number of streams, padding schemes and sizes of the connection. The
first two theorems do not depend on what is on the wire, the third is about it:

* `ClosedClientHasNoStreams`, `ClientStreamsClosed`. The sweep of `Close` closes
  what the map holds, so every live stream has to be in the map until then
  (`Mapped`), although `StreamClosed`, a FIN and the FIN that answers a failed
  SYNACK take streams out: they are closed by then (`Stages`, `Answering`).
* `WatchdogFollowsSyns`, `SynGuarded`, which is inductive with its types.
* `StreamsHandOver`, `StreamsDeliver`: types, aligned frames, data in order and
  once, a FIN only behind all of it. The hypothesis is `SizesFit`: every size a
  scheme may draw fits the length field. The code does not check it, and padding
  of 2^16 bytes or more is announced modulo 2^16 (section 3).

`StreamsDeliver` speaks of what was read, and is far from inductive. `StreamInv`
follows a chunk from its writer to its reader. The *channel* to an end (`Chan`)
is what the connection carries and, to the server, what the client still buffers
behind it. The channel consists of whole frames (`FormInv`; the buffer holds
neither data nor FINs), as do the loop's replies (`ReplyInv`). A stream's SYN
comes once and before its data, so that the server never drops data of a stream
it does not know yet (`SynSeen`). A FIN is on its way, or has been taken, only
for a stream that is over at its sender (`EndSeen`, with the stages of
`StageInv`). While a loop reads and its stream is open, the channel holds what
was written and is neither read nor in the loop's hand, in order, each once, a
FIN behind all of it (`Deliver`, with `Held` for the chunk in hand). It is
complete while the peer's session is open; a peer that closed may have lost the
end of it, never the middle.

Every action is a write (`WriteStep`: frames appended to a channel, or lost
because the peer is gone), a read (`ReadStep`: the first frame taken off) or
neither (`LocalStep`); these three lemmas say once what each kind does to the
channel and the invariant. Padding is handled by `PaddedSilent`: whatever sizes
are drawn, a write arrives as its own units followed by waste, which no loop
looks at. It is an induction over the turns of `lockedWrite`'s loop. The library's
induction theorems cannot be instantiated here, so it is done by a least
counterexample (`LeastNumber`), which also shows that the recursive function of
the turns is defined.

### AnyTLS client pool (`PoolProofs`)

For any number of sessions, streams and levels, whatever level `randomLevel`
draws for each node:

* `IdleListExact`, `PoolInv`: the list holds the idle sessions, in order, each on
  the levels it was given, and `Len` counts them. `ListOf` says this link by link:
  a link of level `i` leads to the least key above its node that has level `i`.
  The walks of `skiplist.go` (the search of the predecessors, `FindRange`, the
  turns of `idleCleanup`) are recursive functions. Each is shown to exist by giving
  its values in closed form, and to arrive where it should by looking at the
  least or the greatest place where it would not (`LeastElement`,
  `GreatestElement`): this takes the place of an induction over the list.
* `SessionsAccounted`, `SessionAccounted`. Who holds a session changes hands
  between `CreateStream`, the stream and the hook; `OneHolder` follows it through
  all three. `Stage` and `Undialled` say what a call may be in the middle of and
  which sessions nobody has seen yet, `Listed` that what is idle is on the list.
* `CleanupKeepsReserve`, `ReserveKept`: every step of the cleanup leaves the
  reserve, from `CleanInv`, which accounts for the sessions visited so far.

### Certificates (`CertificateProofs`)

For any number of nodes, calls, domains, accounts and faults, and any
configurations:

* `CertificatesMatch`, `KeysMatch`. `AccountInv` says what each call knows of its
  account from the step that told it, as long as no key was generated in a race
  (`KeyHeld`, `CallHeld`). `PairInv` says that a domain that is not spoiled and
  that nobody saves has a whole pair, and that a call that saves alone (`solo`)
  finds the certificate it wrote when it writes the key (`SaverHeld`). What a node
  serves exists because a build found both files and no step takes one away
  (`BuildInv`, `FilesStay`).
* `CertificateLasts`, `ServedCertRenewed`. It is not inductive: one has to know
  how many days are left, not only that some are. A renewal that went well found
  or left more than `RenewDays` (`CallDays`), and each day after it takes one of
  the days and adds one to the days since (`hist.lapse`), so that together they
  stay above `RenewDays` (`DomainDays`). No tick is assumed to come. It needs
  `--days` to be at least 1, which it is (30, `lego.go:279`).
* `CertificateTypes`, `TypeOK`, and `EnvironmentGivenBack`, `EnvSound`. `CallEnv`
  says that what a call has saved are values the variables may hold, and that it
  does not save a name twice; `OneHolder` that before calls cross one of them at
  most holds variables, that it saved what the process started with and that no
  other variable differs. The second theorem is for configurations in which no
  variable is set beside a refused one (`RefusedAlone`): on a refused name
  `applyDNSEnv` returns without the cleanup of those set before it.
* `LocalConfigDrives`, `LocalDrives`: `LocalBuilder` goes through
  `InboundBuilder` and shows that each of its decisions is the configuration's
  when the local fields are there.

### Assumptions on constants

They are the `ASSUME`s of the modules, which TLC evaluates in every run: sets of
connections are finite, nil values are no objects, bounds and limits are
naturals, configurations are sequences of nodes, rule lists are sequences of
rules, nodes that share a tag have the same type, a mux session has at least one
stream id, the length field a natural number of values, the default padding
scheme and the server's exist and give sequences of ranges, the skip list has at
least one level, `--days` is at least one and less than the lifetime of a
certificate, and a node that orders a certificate has a domain and an account.

### Only model-checked

* Liveness (`RevokedTornDown`, `EventuallyBooked`, `ClosedClientDrains`,
  `AbandonedTornDown`) and `RecvNeverStuck`, which speaks of `ENABLED`: out of
  the prover's reach.

## 5. Not modelled

* `outboundbuilder.go`: it copies a send address and a domain strategy into one
  freedom configuration.
* The conversion of the list of users, which copies fields one by one.
* The copying of bytes between a connection and the AnyTLS fallback server, and
  the read and write deadlines of a stream, which nothing in the repository sets.
* The ACME exchange, commands and options of lego that the program never calls
  (CSR, list, revoke, hooks, the recovery of a registration) and the generated
  tables of DNS providers: third-party code, reduced to the CA's verdict.
* Command line tools and server status (I/O), regular expressions (a pattern is
  the destination it matches), the text of a padding scheme.
* The timers of the periodic tasks. The delayed goroutines that start them
  (`controller.go:168`) may do so after `Close` has closed them; only the check
  of `closeCtx` in a tick, which `Controller` has, stops such a task.
* Online-user and node-status reports: they carry no state back.

## 6. Plan

Done: every module of section 2; proofs for `Limiter`, `AnyTLSService`,
`TrafficReport`, `Controller`, `Audit`, `HotReload`, `Dispatcher`,
`MuxSession`, `SessionPool` with `SkipList`, and `Certificates` with `Settings`.

Next, in this order:

1. `LimiterProofs`: weaker hypotheses for the last two theorems, per
   `InboundInfo` instead of per instance.
2. `AuditProofs`: hits across a deletion of the tag.
3. A composition: `Controller` over the limiter's registry in place of its set.
