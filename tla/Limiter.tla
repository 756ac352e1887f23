------------------------------ MODULE Limiter ------------------------------
(***************************************************************************)
(* Device and speed limits of one user on one inbound tag                  *)
(* (common/limiter/limiter.go), together with the dispatcher code that     *)
(* brackets every connection: trackConnection, getLink and DispatchLink    *)
(* (app/mydispatcher/default.go).                                          *)
(*                                                                         *)
(* All limiter maps are sync.Maps keyed by tag and by the composite user   *)
(* key, and users never share an entry, so one tag and one user are        *)
(* modelled.  A connection is one goroutine; each of its steps is one      *)
(* access to a shared map or one critical section of userOnlineState.mu.   *)
(* The controller's two monitors run the registry operations concurrently  *)
(* with the connections, one map access per step.                          *)
(*                                                                         *)
(* Heap objects.  Every call of GetUserBucket allocates a fresh            *)
(* userOnlineState and possibly a fresh bucket before it tries to publish  *)
(* them, so both kinds of object are named by the connection that          *)
(* allocated them.  InboundInfo objects are numbered in creation order;    *)
(* 0 is "no entry for the tag".                                            *)
(***************************************************************************)
EXTENDS Integers, FiniteSets

CONSTANTS
    Conns,         \* connections (streams, for AnyTLS) of the user
    IPs,           \* source addresses
    NoConn,        \* nil: no userOnlineState or bucket stored under the key
    DeviceLimits,  \* device_limit values the panel may send, 0 = unlimited
    Rates,         \* speed limits in bytes per second, 0 = unlimited
    Ops,           \* registry operations the monitors perform in this instance
    MaxInfos,      \* bound: InboundInfo objects ever created
    MaxOps         \* bound: registry operations ever started

ASSUME LimiterAssumption ==
    /\ IsFiniteSet(Conns)
    /\ NoConn \notin Conns
    /\ DeviceLimits \subseteq Nat
    /\ Rates \subseteq Nat
    /\ 0 \in Rates
    /\ MaxInfos \in Nat \ {0}
    /\ MaxOps \in Nat

Monitors == {"node", "user"}     \* nodeInfoMonitor and userInfoMonitor tasks
Infos    == 1 .. MaxInfos
UserInfo == [dev : DeviceLimits, rate : Rates]
NoLimits == [dev |-> 0, rate |-> 0]   \* what GetUserBucket uses for a missing key

VARIABLES
    inboundInfo,   \* tag -> InboundInfo (0: no such tag)
    nInfos,        \* InboundInfo objects created so far
    nodeSpeedLimit,\* per InboundInfo: the node's rate
    userInfo,      \* per InboundInfo: the user's limits
    onlineIPs,     \* per InboundInfo: the user's userOnlineState
    bucketHub,     \* per InboundInfo: the user's rate bucket
    refs,          \* per userOnlineState: ip -> reference count, 0 = not in the map
    bucketRate,    \* per bucket: the rate it was built with
    onlineMap      \* Xray-core's OnlineMap of the tag: ip -> reference count

VARIABLES          \* of a connection's goroutine
    pc,            \* the next step of the connection
    cip,           \* its source address
    cinfo,         \* InboundInfo read by GetUserBucket
    limits,        \* user limits read by GetUserBucket
    state,         \* userOnlineState GetUserBucket got from LoadOrStore
    bucket,        \* bucket its writers wait on
    closeInfo,     \* InboundInfo read by RemoveOnlineIP
    closeState,    \* userOnlineState read by RemoveOnlineIP
    admitted       \* connections whose tryAdd succeeded and whose close has not ended

VARIABLES          \* of a monitor's goroutine
    mpc, minfo, mstate, mnew, ops

registry  == <<inboundInfo, nInfos, nodeSpeedLimit>>
maps      == <<userInfo, onlineIPs, bucketHub>>
connLocal == <<pc, cip, cinfo, limits, state, bucket, closeInfo, closeState, admitted>>
monLocal  == <<mpc, minfo, mstate, mnew, ops>>
vars == <<registry, maps, refs, bucketRate, onlineMap, connLocal, monLocal>>

ConnPC == {"new", "load", "user", "state", "tryAdd", "bucket", "slow", "live",
           "reject", "closeState", "closeRemove", "done"}
MonPC  == {"idle", "updStore", "updBucket", "delUser", "delBucket", "delOnline",
           "pruneRange", "pruneCheck", "pruneBucket", "pruneOnline"}

TypeOK ==
    /\ inboundInfo \in 0 .. MaxInfos
    /\ nInfos \in 0 .. MaxInfos
    /\ nodeSpeedLimit \in [Infos -> Rates]
    /\ userInfo \in [Infos -> UserInfo \cup {NoLimits}]
    /\ onlineIPs \in [Infos -> Conns \cup {NoConn}]
    /\ bucketHub \in [Infos -> Conns \cup {NoConn}]
    /\ refs \in [Conns -> [IPs -> Nat]]
    /\ bucketRate \in [Conns -> Nat]
    /\ onlineMap \in [IPs -> Int]
    /\ pc \in [Conns -> ConnPC]
    /\ cip \in [Conns -> IPs]
    /\ cinfo \in [Conns -> 0 .. MaxInfos]
    /\ limits \in [Conns -> UserInfo \cup {NoLimits}]
    /\ state \in [Conns -> Conns \cup {NoConn}]
    /\ bucket \in [Conns -> Conns \cup {NoConn}]
    /\ closeInfo \in [Conns -> 0 .. MaxInfos]
    /\ closeState \in [Conns -> Conns \cup {NoConn}]
    /\ admitted \in SUBSET Conns
    /\ mpc \in [Monitors -> MonPC]
    /\ minfo \in [Monitors -> 0 .. MaxInfos]
    /\ mstate \in [Monitors -> Conns \cup {NoConn}]
    /\ mnew \in [Monitors -> UserInfo \cup {NoLimits}]
    /\ ops \in 0 .. MaxOps

(* Controller.Start has registered the tag for the user; the addresses are *)
(* given, nothing is connected.                                            *)
Init ==
    /\ inboundInfo = 1
    /\ nInfos = 1
    /\ \E r \in Rates : nodeSpeedLimit = [k \in Infos |-> r]
    /\ \E u \in UserInfo : userInfo = [k \in Infos |-> IF k = 1 THEN u ELSE NoLimits]
    /\ onlineIPs = [k \in Infos |-> NoConn]
    /\ bucketHub = [k \in Infos |-> NoConn]
    /\ refs = [s \in Conns |-> [i \in IPs |-> 0]]
    /\ bucketRate = [b \in Conns |-> 0]
    /\ onlineMap = [i \in IPs |-> 0]
    /\ pc = [c \in Conns |-> "new"]
    /\ cip \in [Conns -> IPs]
    /\ cinfo = [c \in Conns |-> 0]
    /\ limits = [c \in Conns |-> NoLimits]
    /\ state = [c \in Conns |-> NoConn]
    /\ bucket = [c \in Conns |-> NoConn]
    /\ closeInfo = [c \in Conns |-> 0]
    /\ closeState = [c \in Conns |-> NoConn]
    /\ admitted = {}
    /\ mpc = [m \in Monitors |-> "idle"]
    /\ minfo = [m \in Monitors |-> 0]
    /\ mstate = [m \in Monitors |-> NoConn]
    /\ mnew = [m \in Monitors |-> NoLimits]
    /\ ops = 0

Goto(c, label) == pc' = [pc EXCEPT ![c] = label]
Devices(s) == {i \in IPs : refs[s][i] > 0}       \* keys of s.ips

-----------------------------------------------------------------------------
(* The connection.                                                          *)

(* trackConnection: AddIP, and the writer gets its once-only onClose.  A    *)
(* connection without a source address is left out, and so is the return    *)
(* for an online map that could not be registered: stats always has one.    *)
TrackConnection(c) ==
    /\ pc[c] = "new"
    /\ onlineMap' = [onlineMap EXCEPT ![cip[c]] = @ + 1]
    /\ Goto(c, "load")
    /\ UNCHANGED <<registry, maps, refs, bucketRate, cip, cinfo, limits, state,
                   bucket, closeInfo, closeState, admitted, monLocal>>

(* GetUserBucket, first lookup: an unregistered tag is rejected.            *)
LoadInbound(c) ==
    /\ pc[c] = "load"
    /\ cinfo' = [cinfo EXCEPT ![c] = inboundInfo]
    /\ Goto(c, IF inboundInfo = 0 THEN "reject" ELSE "user")
    /\ UNCHANGED <<registry, maps, refs, bucketRate, onlineMap, cip, limits, state,
                   bucket, closeInfo, closeState, admitted, monLocal>>

(* The user's limits; a key that is not there means no limit.               *)
LoadUserInfo(c) ==
    /\ pc[c] = "user"
    /\ limits' = [limits EXCEPT ![c] = userInfo[cinfo[c]]]
    /\ Goto(c, "state")
    /\ UNCHANGED <<registry, maps, refs, bucketRate, onlineMap, cip, cinfo, state,
                   bucket, closeInfo, closeState, admitted, monLocal>>

(* LoadOrStore of a freshly allocated userOnlineState.                      *)
LoadOrStoreState(c) ==
    LET k == cinfo[c]
        s == IF onlineIPs[k] = NoConn THEN c ELSE onlineIPs[k]
    IN /\ pc[c] = "state"
       /\ onlineIPs' = [onlineIPs EXCEPT ![k] = s]
       /\ state' = [state EXCEPT ![c] = s]
       /\ Goto(c, "tryAdd")
       /\ UNCHANGED <<registry, userInfo, bucketHub, refs, bucketRate, onlineMap, cip,
                      cinfo, limits, bucket, closeInfo, closeState, admitted, monLocal>>

(* determineRate: the stricter of the limits that are set.                  *)
determineRate(nodeLimit, userLimit) ==
    IF nodeLimit = 0 THEN userLimit
    ELSE IF userLimit = 0 THEN nodeLimit
    ELSE IF nodeLimit < userLimit THEN nodeLimit ELSE userLimit

RateOf(c) == determineRate(nodeSpeedLimit[cinfo[c]], limits[c].rate)

(* mutant: the limit compared with > instead of >=                          *)
MayAddOffByOne(s, i, limit) ==
    i \in Devices(s) \/ limit = 0 \/ Cardinality(Devices(s)) <= limit

(* tryAdd lets an address in if it is known, or if a slot is free.          *)
MayAdd(s, i, limit) ==
    \/ i \in Devices(s)
    \/ limit = 0
    \/ Cardinality(Devices(s)) < limit

tryAdd(c) ==
    /\ pc[c] = "tryAdd"
    /\ \/ /\ MayAdd(state[c], cip[c], limits[c].dev)
          /\ refs' = [refs EXCEPT ![state[c]][cip[c]] = @ + 1]
          /\ admitted' = admitted \cup {c}
          /\ Goto(c, IF RateOf(c) = 0 THEN "live" ELSE "bucket")
       \/ /\ ~MayAdd(state[c], cip[c], limits[c].dev)
          /\ Goto(c, "reject")
          /\ UNCHANGED <<refs, admitted>>
    /\ UNCHANGED <<registry, maps, bucketRate, onlineMap, cip, cinfo, limits, state,
                   bucket, closeInfo, closeState, monLocal>>

(* Fast path: take the bucket that is there.                                *)
LoadBucket(c) ==
    LET b == bucketHub[cinfo[c]]
    IN /\ pc[c] = "bucket"
       /\ bucket' = [bucket EXCEPT ![c] = b]
       /\ Goto(c, IF b = NoConn THEN "slow" ELSE "live")
       /\ UNCHANGED <<registry, maps, refs, bucketRate, onlineMap, cip, cinfo, limits,
                      state, closeInfo, closeState, admitted, monLocal>>

(* mutant: the new bucket is stored even if another goroutine was faster    *)
StoreBucketAlways(c) ==
    /\ pc[c] = "slow"
    /\ bucketRate' = [bucketRate EXCEPT ![c] = RateOf(c)]
    /\ bucketHub' = [bucketHub EXCEPT ![cinfo[c]] = c]
    /\ bucket' = [bucket EXCEPT ![c] = c]
    /\ Goto(c, "live")
    /\ UNCHANGED <<registry, userInfo, onlineIPs, refs, onlineMap, cip, cinfo, limits,
                   state, closeInfo, closeState, admitted, monLocal>>

(* Slow path: build a bucket, LoadOrStore it, use the winner's.             *)
LoadOrStoreBucket(c) ==
    LET k == cinfo[c]
        b == IF bucketHub[k] = NoConn THEN c ELSE bucketHub[k]
    IN /\ pc[c] = "slow"
       /\ bucketRate' = [bucketRate EXCEPT ![c] = RateOf(c)]
       /\ bucketHub' = [bucketHub EXCEPT ![k] = b]
       /\ bucket' = [bucket EXCEPT ![c] = b]
       /\ Goto(c, "live")
       /\ UNCHANGED <<registry, userInfo, onlineIPs, refs, onlineMap, cip, cinfo, limits,
                      state, closeInfo, closeState, admitted, monLocal>>

(* mutant: getLink returns after a rejection without closing the writer     *)
CloseSkipsRejected(c) ==
    /\ pc[c] \in {"live", "reject"}
    /\ onlineMap' = IF pc[c] = "live" THEN [onlineMap EXCEPT ![cip[c]] = @ - 1]
                    ELSE onlineMap
    /\ closeInfo' = [closeInfo EXCEPT ![c] = inboundInfo]
    /\ Goto(c, "done")
    /\ admitted' = admitted \ {c}
    /\ UNCHANGED <<registry, maps, refs, bucketRate, cip, cinfo, limits, state, bucket,
                   closeState, monLocal>>

(* The writer is closed or interrupted, by the proxy once the connection is *)
(* live or by getLink and DispatchLink after a rejection: onClose runs once *)
(* - RemoveIP, then RemoveOnlineIP, whose first lookup is the tag's.        *)
Close(c) ==
    /\ pc[c] \in {"live", "reject"}
    /\ onlineMap' = [onlineMap EXCEPT ![cip[c]] = @ - 1]
    /\ closeInfo' = [closeInfo EXCEPT ![c] = inboundInfo]
    /\ IF inboundInfo = 0
       THEN Goto(c, "done") /\ admitted' = admitted \ {c}
       ELSE Goto(c, "closeState") /\ UNCHANGED admitted
    /\ UNCHANGED <<registry, maps, refs, bucketRate, cip, cinfo, limits, state, bucket,
                   closeState, monLocal>>

(* RemoveOnlineIP, second lookup: the user's current online state.          *)
CloseLoadState(c) ==
    LET s == onlineIPs[closeInfo[c]]
    IN /\ pc[c] = "closeState"
       /\ closeState' = [closeState EXCEPT ![c] = s]
       /\ IF s = NoConn
          THEN Goto(c, "done") /\ admitted' = admitted \ {c}
          ELSE Goto(c, "closeRemove") /\ UNCHANGED admitted
       /\ UNCHANGED <<registry, maps, refs, bucketRate, onlineMap, cip, cinfo, limits,
                      state, bucket, closeInfo, monLocal>>

(* mutant: the last reference is kept (refs compared with < 0, not <= 0)    *)
removeKeepsLast(s, i) == IF refs[s][i] > 1 THEN refs[s][i] - 1 ELSE refs[s][i]

(* mutant: the address is dropped with its first connection (no refcount)   *)
removeEntry(s, i) == 0

(* mutant: an unknown address is decremented below zero                     *)
removeUnknown(s, i) == refs[s][i] - 1

(* userOnlineState.remove: one reference less, unknown addresses ignored.   *)
remove(s, i) == IF refs[s][i] > 0 THEN refs[s][i] - 1 ELSE 0

CloseRemove(c) ==
    LET s == closeState[c]
    IN /\ pc[c] = "closeRemove"
       /\ refs' = [refs EXCEPT ![s][cip[c]] = remove(s, cip[c])]
       /\ admitted' = admitted \ {c}
       /\ Goto(c, "done")
       /\ UNCHANGED <<registry, maps, bucketRate, onlineMap, cip, cinfo, limits, state,
                      bucket, closeInfo, closeState, monLocal>>

-----------------------------------------------------------------------------
(* The registry operations of the two monitors.                             *)

Busy(m, label) ==
    /\ mpc' = [mpc EXCEPT ![m] = label]
    /\ UNCHANGED <<refs, bucketRate, onlineMap, connLocal>>

Begin(m, op) ==
    /\ mpc[m] = "idle"
    /\ op \in Ops
    /\ ops < MaxOps
    /\ ops' = ops + 1

(* AddInboundLimiter: a new InboundInfo replaces the tag's, whatever the    *)
(* old one held; it is built before it is published.                        *)
AddInboundLimiter(m, u, r) ==
    LET k == nInfos + 1
    IN /\ m = "node"
       /\ Begin(m, "add")
       /\ nInfos < MaxInfos
       /\ nInfos' = k
       /\ inboundInfo' = k
       /\ nodeSpeedLimit' = [nodeSpeedLimit EXCEPT ![k] = r]
       /\ userInfo' = [userInfo EXCEPT ![k] = u]
       /\ Busy(m, "idle")
       /\ UNCHANGED <<onlineIPs, bucketHub, minfo, mstate, mnew>>

DeleteInboundLimiter(m) ==
    /\ m = "node"
    /\ Begin(m, "delInbound")
    /\ inboundInfo' = 0
    /\ Busy(m, "idle")
    /\ UNCHANGED <<nInfos, nodeSpeedLimit, maps, minfo, mstate, mnew>>

(* UpdateInboundLimiter, DeleteUsersFromLimiter and PruneStaleEntries look  *)
(* the tag up first; an unknown tag ends them.                              *)
BeginOnInfo(m, op, label) ==
    /\ Begin(m, op)
    /\ minfo' = [minfo EXCEPT ![m] = inboundInfo]
    /\ Busy(m, IF inboundInfo = 0 THEN "idle" ELSE label)
    /\ UNCHANGED <<registry, maps, mstate>>

UpdateInboundLimiter(m, u) ==
    /\ m = "node"
    /\ BeginOnInfo(m, "update", "updStore")
    /\ mnew' = [mnew EXCEPT ![m] = u]

UpdateStoreUser(m) ==
    /\ mpc[m] = "updStore"
    /\ userInfo' = [userInfo EXCEPT ![minfo[m]] = mnew[m]]
    /\ Busy(m, "updBucket")
    /\ UNCHANGED <<registry, onlineIPs, bucketHub, minfo, mstate, mnew, ops>>

UpdateDeleteBucket(m) ==
    /\ mpc[m] = "updBucket"
    /\ bucketHub' = [bucketHub EXCEPT ![minfo[m]] = NoConn]
    /\ Busy(m, "idle")
    /\ UNCHANGED <<registry, userInfo, onlineIPs, minfo, mstate, mnew, ops>>

(* Called by the node monitor for users the panel dropped and by the user   *)
(* monitor for users the panel kicked.                                      *)
DeleteUsersFromLimiter(m) ==
    /\ BeginOnInfo(m, "delUser", "delUser")
    /\ UNCHANGED mnew

DeleteUserInfo(m) ==
    /\ mpc[m] = "delUser"
    /\ userInfo' = [userInfo EXCEPT ![minfo[m]] = NoLimits]
    /\ Busy(m, "delBucket")
    /\ UNCHANGED <<registry, onlineIPs, bucketHub, minfo, mstate, mnew, ops>>

DeleteUserBucket(m) ==
    /\ mpc[m] = "delBucket"
    /\ bucketHub' = [bucketHub EXCEPT ![minfo[m]] = NoConn]
    /\ Busy(m, "delOnline")
    /\ UNCHANGED <<registry, userInfo, onlineIPs, minfo, mstate, mnew, ops>>

DeleteUserOnline(m) ==
    /\ mpc[m] = "delOnline"
    /\ onlineIPs' = [onlineIPs EXCEPT ![minfo[m]] = NoConn]
    /\ Busy(m, "idle")
    /\ UNCHANGED <<registry, userInfo, bucketHub, minfo, mstate, mnew, ops>>

(* Controller.GetOnlineDevice reads the online states and then prunes.      *)
PruneStaleEntries(m) ==
    /\ m = "user"
    /\ BeginOnInfo(m, "prune", "pruneRange")
    /\ UNCHANGED mnew

PruneRange(m) ==
    LET s == onlineIPs[minfo[m]]
    IN /\ mpc[m] = "pruneRange"
       /\ mstate' = [mstate EXCEPT ![m] = s]
       /\ Busy(m, IF s = NoConn THEN "idle" ELSE "pruneCheck")
       /\ UNCHANGED <<registry, maps, minfo, mnew, ops>>

(* copyAll under the state's mutex, which is released again.                *)
PruneCheck(m) ==
    /\ mpc[m] = "pruneCheck"
    /\ Busy(m, IF Devices(mstate[m]) = {} THEN "pruneBucket" ELSE "idle")
    /\ UNCHANGED <<registry, maps, minfo, mstate, mnew, ops>>

PruneBucket(m) ==
    /\ mpc[m] = "pruneBucket"
    /\ bucketHub' = [bucketHub EXCEPT ![minfo[m]] = NoConn]
    /\ Busy(m, "pruneOnline")
    /\ UNCHANGED <<registry, userInfo, onlineIPs, minfo, mstate, mnew, ops>>

PruneOnline(m) ==
    /\ mpc[m] = "pruneOnline"
    /\ onlineIPs' = [onlineIPs EXCEPT ![minfo[m]] = NoConn]
    /\ Busy(m, "idle")
    /\ UNCHANGED <<registry, userInfo, bucketHub, minfo, mstate, mnew, ops>>

-----------------------------------------------------------------------------
ConnStep(c) ==
    \/ TrackConnection(c)
    \/ LoadInbound(c)
    \/ LoadUserInfo(c)
    \/ LoadOrStoreState(c)
    \/ tryAdd(c)
    \/ LoadBucket(c)
    \/ LoadOrStoreBucket(c)
    \/ Close(c)
    \/ CloseLoadState(c)
    \/ CloseRemove(c)

MonitorStep(m) ==
    \/ \E u \in UserInfo, r \in Rates : AddInboundLimiter(m, u, r)
    \/ DeleteInboundLimiter(m)
    \/ \E u \in UserInfo : UpdateInboundLimiter(m, u)
    \/ UpdateStoreUser(m)
    \/ UpdateDeleteBucket(m)
    \/ DeleteUsersFromLimiter(m)
    \/ DeleteUserInfo(m)
    \/ DeleteUserBucket(m)
    \/ DeleteUserOnline(m)
    \/ PruneStaleEntries(m)
    \/ PruneRange(m)
    \/ PruneCheck(m)
    \/ PruneBucket(m)
    \/ PruneOnline(m)

Next ==
    \/ \E c \in Conns : ConnStep(c)
    \/ \E m \in Monitors : MonitorStep(m)

Spec == Init /\ [][Next]_vars

-----------------------------------------------------------------------------
(* Properties.                                                              *)

(* The online state a new connection of the user would be counted in.       *)
Current == IF inboundInfo = 0 THEN NoConn ELSE onlineIPs[inboundInfo]

(* Connections that entered s from address i and have not finished closing. *)
Holders(s, i) == {c \in admitted : state[c] = s /\ cip[c] = i}

(* A device slot is never leaked: whatever replacements, deletions and      *)
(* prunes race with the connections, every reference counted in the user's  *)
(* current online state (tryAdd, remove) belongs to a connection that was   *)
(* admitted there and has not finished closing.  Otherwise an address would *)
(* occupy a slot for ever and the user would be locked out.                 *)
NoLeakedSlot ==
    Current # NoConn =>
        \A i \in IPs : refs[Current][i] <= Cardinality(Holders(Current, i))

(* A connection that has been admitted and not begun to close.              *)
Live(c) == c \in admitted /\ pc[c] \in {"bucket", "slow", "live"}

(* What the comment on ipEntry promises: as long as a connection of an      *)
(* address lives, the address keeps its slot in the state new connections   *)
(* are checked against.                                                     *)
SlotKeptWhileLive ==
    \A c \in Conns :
        Live(c) => Current # NoConn /\ refs[Current][cip[c]] > 0

(* Check and insert are one critical section in tryAdd: an online state     *)
(* that was only ever entered under limits of at most d devices never       *)
(* records more than d addresses, even while the panel changes the limit.   *)
SlotsWithinLimit ==
    \A s \in Conns, d \in DeviceLimits :
        (\A c \in Conns : state[c] = s => limits[c].dev \in 1 .. d)
            => Cardinality(Devices(s)) <= d

(* All rate-limited connections of the user wait on one bucket, so that     *)
(* opening more connections buys no more bandwidth (bucketHub.LoadOrStore). *)
SharedBucket ==
    \A c, d \in Conns :
        (/\ pc[c] = "live" /\ bucket[c] # NoConn
         /\ pc[d] = "live" /\ bucket[d] # NoConn) => bucket[c] = bucket[d]

(* UpdateInboundLimiter "invalidates the stale rate bucket": between two    *)
(* updates the stored bucket has the rate of the stored limits.             *)
BucketFresh ==
    \A k \in Infos :
        ((\A m \in Monitors : mpc[m] = "idle") /\ bucketHub[k] # NoConn) =>
            bucketRate[bucketHub[k]] = determineRate(nodeSpeedLimit[k], userInfo[k].rate)

(* OnlineMap counts exactly the tracked connections that have not closed,   *)
(* rejected ones included: AddIP and RemoveIP pair up on every path.        *)
OnlineMapExact ==
    \A i \in IPs :
        onlineMap[i] = Cardinality({c \in Conns : cip[c] = i /\
            pc[c] \notin {"new", "closeState", "closeRemove", "done"}})
=============================================================================
