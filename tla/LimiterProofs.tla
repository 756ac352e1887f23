--------------------------- MODULE LimiterProofs ---------------------------
(***************************************************************************)
(* Proofs about Limiter, for any sets of connections and addresses and any *)
(* mix of registry operations: the type invariant, NoLeakedSlot,           *)
(* SlotsWithinLimit and OnlineMapExact; and, where the operations leave    *)
(* the stored objects in place, SharedBucket and SlotKeptWhileLive.        *)
(*                                                                         *)
(* NoLeakedSlot is not inductive by itself.  A connection that closes must *)
(* find the online state it was admitted to, unless that state is retired  *)
(* for good; this rests on InboundInfo objects being used in creation      *)
(* order (Registered), on every online state being published once, by the  *)
(* connection that allocated it, in the InboundInfo that connection read   *)
(* (Published, Joined), and on what a closing connection has already read  *)
(* (Closing).                                                              *)
(***************************************************************************)
EXTENDS Limiter, TLAPS, FiniteSetTheorems

Registered ==
    /\ inboundInfo \in {0, nInfos}
    /\ \A k \in Infos : k > nInfos => onlineIPs[k] = NoConn

Published ==
    \A k \in Infos : onlineIPs[k] # NoConn =>
        state[onlineIPs[k]] = onlineIPs[k] /\ cinfo[onlineIPs[k]] = k

Joined ==
    \A c \in Conns :
        /\ cinfo[c] <= nInfos
        /\ pc[c] \in {"user", "state", "tryAdd", "bucket", "slow", "live"} => cinfo[c] # 0
        /\ pc[c] \in {"new", "load", "user", "state"} => state[c] = NoConn
        /\ pc[c] \in {"tryAdd", "bucket", "slow", "live"} => state[c] # NoConn
        /\ state[c] # NoConn =>
             /\ state[state[c]] = state[c]
             /\ cinfo[c] = cinfo[state[c]]

Closing ==
    \A c \in admitted :
        /\ state[c] # NoConn
        /\ pc[c] \in {"bucket", "slow", "live", "closeState", "closeRemove"}
        /\ pc[c] \in {"closeState", "closeRemove"} =>
             closeInfo[c] >= cinfo[c] /\ closeInfo[c] <= nInfos
        /\ pc[c] = "closeRemove" /\ Current = state[c] => closeState[c] = state[c]

CloseReads ==
    \A c \in Conns :
        /\ pc[c] = "closeState" => closeInfo[c] # 0
        /\ pc[c] = "closeRemove" => closeState[c] # NoConn

MonitorReads ==
    \A m \in Monitors :
        /\ mpc[m] # "idle" => minfo[m] # 0
        /\ mpc[m] = "pruneCheck" => mstate[m] # NoConn

Unpublished ==
    \A s \in Conns : state[s] # s => \A i \in IPs : refs[s][i] = 0

(* The inductive strengthening of NoLeakedSlot.                             *)
IInv ==
    /\ TypeOK
    /\ Registered
    /\ Published
    /\ Joined
    /\ Closing
    /\ CloseReads
    /\ MonitorReads
    /\ Unpublished
    /\ NoLeakedSlot

-----------------------------------------------------------------------------
(* Init establishes the type invariant.                                     *)
LEMMA InitType == Init => TypeOK
  BY LimiterAssumption DEF Init, TypeOK, Infos, UserInfo, NoLimits, Monitors, ConnPC, MonPC

(* tryAdd changes one count of one online state, or none.                   *)
LEMMA TryAddRefs ==
  ASSUME NEW c \in Conns, tryAdd(c)
  PROVE  refs' = refs \/ refs' = [refs EXCEPT ![state[c]] =
                 [refs[state[c]] EXCEPT ![cip[c]] = refs[state[c]][cip[c]] + 1]]
  BY DEF tryAdd

(* A connection's step preserves the type invariant.                        *)
LEMMA ConnType ==
  ASSUME TypeOK, Joined, CloseReads, NEW c \in Conns, ConnStep(c)
  PROVE  TypeOK'
<1> USE LimiterAssumption DEF TypeOK, Infos, ConnPC, Goto, registry, maps, monLocal
<1>0. DeviceLimits \subseteq Nat /\ Rates \subseteq Nat
  OBVIOUS
<1>1. CASE TrackConnection(c)  BY <1>1 DEF TrackConnection
<1>2. CASE LoadInbound(c)      BY <1>2 DEF LoadInbound
<1>3. CASE LoadUserInfo(c)
  <2>1. cinfo[c] \in Infos  BY <1>3 DEF LoadUserInfo, Joined
  <2> QED BY <1>3, <2>1 DEF LoadUserInfo
<1>4. CASE LoadOrStoreState(c)
  <2>1. cinfo[c] \in Infos  BY <1>4 DEF LoadOrStoreState, Joined
  <2> DEFINE s == IF onlineIPs[cinfo[c]] = NoConn THEN c ELSE onlineIPs[cinfo[c]]
  <2>2. s \in Conns \cup {NoConn}  BY <2>1
  <2>3. /\ onlineIPs' = [onlineIPs EXCEPT ![cinfo[c]] = s]
        /\ state' = [state EXCEPT ![c] = s]
        /\ pc' = [pc EXCEPT ![c] = "tryAdd"]
    BY <1>4 DEF LoadOrStoreState
  <2> HIDE DEF s
  <2>4. /\ onlineIPs' \in [Infos -> Conns \cup {NoConn}]
        /\ state' \in [Conns -> Conns \cup {NoConn}]
        /\ pc' \in [Conns -> ConnPC]
    BY <2>2, <2>3
  <2> QED BY <1>4, <2>4 DEF LoadOrStoreState
<1>5. CASE tryAdd(c)
  <2>1. state[c] \in Conns  BY <1>5 DEF tryAdd, Joined
  <2>a. refs[state[c]] \in [IPs -> Nat] /\ cip[c] \in IPs  BY <2>1
  <2> DEFINE row == [refs[state[c]] EXCEPT ![cip[c]] = refs[state[c]][cip[c]] + 1]
  <2>e. refs[state[c]][cip[c]] + 1 \in Nat  BY <2>a
  <2>b. row \in [IPs -> Nat]
    BY <2>a, <2>e, ZenonT(20)
  <2>c. refs' = refs \/ refs' = [refs EXCEPT ![state[c]] = row]
    BY <1>5, TryAddRefs
  <2> HIDE DEF row
  <2>d. refs' \in [Conns -> [IPs -> Nat]]  BY <2>1, <2>b, <2>c
  <2>2. refs' \in [Conns -> [IPs -> Nat]] /\ admitted' \in SUBSET Conns
    BY <1>5, <2>d DEF tryAdd
  <2>3. \E label \in {"live", "bucket", "reject"} : pc' = [pc EXCEPT ![c] = label]
    BY <1>5, Zenon DEF tryAdd
  <2>4. pc' \in [Conns -> ConnPC]  BY <2>3
  <2> QED BY <1>5, <2>2, <2>4 DEF tryAdd
<1>6. CASE LoadBucket(c)
  <2>1. cinfo[c] \in Infos  BY <1>6 DEF LoadBucket, Joined
  <2> QED BY <1>6, <2>1 DEF LoadBucket
<1>7. CASE LoadOrStoreBucket(c)
  <2>1. cinfo[c] \in Infos  BY <1>7 DEF LoadOrStoreBucket, Joined
  <2>2. limits[c].rate \in Nat
    <3>1. limits[c] \in UserInfo \/ limits[c] = NoLimits  OBVIOUS
    <3>2. limits[c] \in UserInfo => limits[c].rate \in Rates  BY DEF UserInfo
    <3>3. NoLimits.rate \in Nat  BY DEF NoLimits
    <3> QED BY <1>0, <3>1, <3>2, <3>3
  <2>3. nodeSpeedLimit[cinfo[c]] \in Nat  BY <1>0, <2>1
  <2>4. RateOf(c) \in Nat  BY <2>2, <2>3 DEF RateOf, determineRate
  <2>5. bucketRate' \in [Conns -> Nat]  BY <1>7, <2>4 DEF LoadOrStoreBucket
  <2>6. /\ bucketHub' \in [Infos -> Conns \cup {NoConn}]
        /\ bucket' \in [Conns -> Conns \cup {NoConn}]
    BY <1>7, <2>1 DEF LoadOrStoreBucket
  <2> QED BY <1>7, <2>5, <2>6 DEF LoadOrStoreBucket
<1>8. CASE Close(c)
  <2>1. pc' \in [Conns -> ConnPC] /\ admitted' \in SUBSET Conns
    BY <1>8 DEF Close
  <2>2. onlineMap' \in [IPs -> Int] /\ closeInfo' \in [Conns -> 0 .. MaxInfos]
    BY <1>8 DEF Close
  <2> QED BY <1>8, <2>1, <2>2 DEF Close
<1>9. CASE CloseLoadState(c)
  <2>1. closeInfo[c] \in Infos  BY <1>9 DEF CloseLoadState, CloseReads
  <2> QED BY <1>9, <2>1 DEF CloseLoadState
<1>10. CASE CloseRemove(c)
  <2>1. closeState[c] \in Conns  BY <1>10 DEF CloseRemove, CloseReads
  <2>2. remove(closeState[c], cip[c]) \in Nat  BY <2>1 DEF remove
  <2>3. refs' \in [Conns -> [IPs -> Nat]]  BY <1>10, <2>1, <2>2 DEF CloseRemove
  <2> QED BY <1>10, <2>3 DEF CloseRemove
<1> QED BY <1>1, <1>2, <1>3, <1>4, <1>5, <1>6, <1>7, <1>8, <1>9, <1>10 DEF ConnStep

(* What a monitor's step does to the state the connections depend on: it    *)
(* registers a fresh InboundInfo, or removes the tag, or unmaps online      *)
(* states; it touches nothing a connection owns.                            *)
MonitorEffect ==
    /\ UNCHANGED <<refs, onlineMap, connLocal>>
    /\ \/ /\ nInfos < MaxInfos
          /\ nInfos' = nInfos + 1
          /\ inboundInfo' = nInfos'
          /\ onlineIPs' = onlineIPs
       \/ nInfos' = nInfos /\ inboundInfo' = 0 /\ onlineIPs' = onlineIPs
       \/ /\ nInfos' = nInfos
          /\ inboundInfo' = inboundInfo
          /\ \A k \in Infos : onlineIPs'[k] \in {onlineIPs[k], NoConn}

(* A monitor's step preserves the type invariant.                           *)
LEMMA MonitorType ==
  ASSUME TypeOK, MonitorReads, NEW m \in Monitors, MonitorStep(m)
  PROVE  TypeOK' /\ MonitorReads' /\ MonitorEffect
<1> USE LimiterAssumption DEF TypeOK, MonitorReads, MonitorEffect, Infos, MonPC, Busy, Begin,
        BeginOnInfo, registry, maps, connLocal
<1>1. CASE \E u \in UserInfo, r \in Rates : AddInboundLimiter(m, u, r)
  BY <1>1 DEF AddInboundLimiter
<1>2. CASE DeleteInboundLimiter(m)  BY <1>2 DEF DeleteInboundLimiter
<1>3. CASE \E u \in UserInfo : UpdateInboundLimiter(m, u)
  BY <1>3 DEF UpdateInboundLimiter
<1>4. CASE UpdateStoreUser(m)  BY <1>4 DEF UpdateStoreUser
<1>5. CASE UpdateDeleteBucket(m)  BY <1>5 DEF UpdateDeleteBucket
<1>6. CASE DeleteUsersFromLimiter(m)  BY <1>6 DEF DeleteUsersFromLimiter
<1>7. CASE DeleteUserInfo(m)  BY <1>7 DEF DeleteUserInfo
<1>8. CASE DeleteUserBucket(m)  BY <1>8 DEF DeleteUserBucket
<1>9. CASE DeleteUserOnline(m)  BY <1>9 DEF DeleteUserOnline
<1>10. CASE PruneStaleEntries(m)  BY <1>10 DEF PruneStaleEntries
<1>11. CASE PruneRange(m)  BY <1>11 DEF PruneRange
<1>12. CASE PruneCheck(m)  BY <1>12 DEF PruneCheck
<1>13. CASE PruneBucket(m)  BY <1>13 DEF PruneBucket
<1>14. CASE PruneOnline(m)  BY <1>14 DEF PruneOnline
<1> QED BY <1>1, <1>2, <1>3, <1>4, <1>5, <1>6, <1>7, <1>8, <1>9, <1>10, <1>11, <1>12,
           <1>13, <1>14 DEF MonitorStep

-----------------------------------------------------------------------------
(* The invariant holds initially: nothing is published, nobody is admitted. *)
LEMMA InitIInv == Init => IInv
<1> SUFFICES ASSUME Init PROVE IInv  OBVIOUS
<1>1. TypeOK  BY InitType
<1>2. Registered /\ Published /\ Joined /\ CloseReads /\ MonitorReads /\ Unpublished
  BY LimiterAssumption DEF Init, Registered, Published, Joined, CloseReads, MonitorReads,
     Unpublished, Infos
<1>3. Closing  BY DEF Init, Closing
<1>4. NoLeakedSlot  BY LimiterAssumption DEF Init, NoLeakedSlot, Current, Infos
<1> QED BY <1>1, <1>2, <1>3, <1>4 DEF IInv

(* A monitor never makes an online state current that was not.              *)
LEMMA MonitorIInv ==
  ASSUME IInv, NEW m \in Monitors, MonitorStep(m)
  PROVE  IInv'
<1>1. TypeOK' /\ MonitorReads' /\ MonitorEffect  BY MonitorType DEF IInv
<1> USE <1>1 DEF IInv, MonitorEffect, connLocal
<1>2. Current' \in {Current, NoConn}
  BY LimiterAssumption DEF Current, Registered, TypeOK, Infos
<1>3. Registered'  BY LimiterAssumption DEF Registered, TypeOK, Infos
<1>4. Published'  BY LimiterAssumption DEF Published, TypeOK, Infos
<1>5. Joined'  BY LimiterAssumption DEF Joined, TypeOK
<1>6. CloseReads' /\ Unpublished'  BY DEF CloseReads, Unpublished
<1>7. Closing'
  <2> SUFFICES ASSUME NEW c \in admitted
               PROVE  /\ state[c] # NoConn
                      /\ pc[c] \in {"bucket", "slow", "live", "closeState", "closeRemove"}
                      /\ pc[c] \in {"closeState", "closeRemove"} =>
                            closeInfo[c] >= cinfo[c] /\ closeInfo[c] <= nInfos'
                      /\ pc[c] = "closeRemove" /\ Current' = state[c] =>
                            closeState[c] = state[c]
    BY DEF Closing
  <2>1. c \in Conns /\ closeInfo[c] \in Nat /\ nInfos \in Nat  BY LimiterAssumption DEF TypeOK
  <2>2. nInfos' >= nInfos  BY <2>1
  <2> QED BY <1>2, <2>1, <2>2 DEF Closing
<1>8. NoLeakedSlot'  BY <1>2 DEF NoLeakedSlot, Holders
<1> QED BY <1>3, <1>4, <1>5, <1>6, <1>7, <1>8

(* Holders are finite sets, whose sizes are natural numbers.                *)
LEMMA HoldersFinite ==
  ASSUME TypeOK, NEW s, NEW i
  PROVE  IsFiniteSet(Holders(s, i)) /\ Cardinality(Holders(s, i)) \in Nat
<1>1. Holders(s, i) \in SUBSET Conns  BY DEF Holders, TypeOK
<1>2. IsFiniteSet(Holders(s, i))  BY <1>1, LimiterAssumption, FS_Subset
<1> QED BY <1>2, FS_CardinalityType

(* A connection admitted to the current online state read the InboundInfo   *)
(* that is registered now.                                                  *)
LEMMA CurrentInfo ==
  ASSUME IInv, NEW c \in Conns, state[c] = Current, Current # NoConn
  PROVE  cinfo[c] = inboundInfo /\ inboundInfo = nInfos /\ inboundInfo \in Infos
<1>1. inboundInfo # 0 /\ inboundInfo \in Infos /\ inboundInfo = nInfos
  BY LimiterAssumption DEF IInv, Current, Registered, TypeOK, Infos
<1>2. Current = onlineIPs[inboundInfo]  BY <1>1 DEF Current
<1>3. cinfo[Current] = inboundInfo  BY <1>1, <1>2 DEF IInv, Published
<1>4. cinfo[c] = cinfo[Current]  BY DEF IInv, Joined
<1> QED BY <1>1, <1>3, <1>4

(* The steps before tryAdd and the bucket steps: no count, no admission and *)
(* no close is involved; LoadOrStoreState publishes a state that is empty.  *)
LEMMA EarlyIInv ==
  ASSUME IInv, NEW c \in Conns,
         \/ TrackConnection(c) \/ LoadInbound(c) \/ LoadUserInfo(c)
         \/ LoadBucket(c) \/ LoadOrStoreBucket(c)
  PROVE  IInv'
<1>1. TypeOK'  BY ConnType DEF IInv, ConnStep
<1> USE DEF IInv, TrackConnection, LoadInbound, LoadUserInfo, LoadBucket, LoadOrStoreBucket,
        registry, maps, monLocal, Goto
<1>2. /\ refs' = refs /\ onlineIPs' = onlineIPs /\ inboundInfo' = inboundInfo
      /\ nInfos' = nInfos /\ state' = state /\ admitted' = admitted /\ cip' = cip
      /\ closeInfo' = closeInfo /\ closeState' = closeState /\ mpc' = mpc
      /\ minfo' = minfo /\ mstate' = mstate
  OBVIOUS
<1>3. /\ pc' = [pc EXCEPT ![c] = pc'[c]]
      /\ pc[c] \in {"new", "load", "user", "bucket", "slow"}
      /\ pc[c] \in {"new", "load"} => pc'[c] \in {"load", "user", "reject"}
      /\ pc[c] = "user" => pc'[c] = "state"
      /\ pc[c] \in {"bucket", "slow"} => pc'[c] \in {"slow", "live"}
  BY DEF TypeOK
<1>4. /\ cinfo' = [cinfo EXCEPT ![c] = cinfo'[c]]
      /\ pc[c] # "load" => cinfo'[c] = cinfo[c]
      /\ pc[c] = "load" => cinfo'[c] = inboundInfo /\ (inboundInfo = 0 => pc'[c] = "reject")
      /\ pc[c] = "new" => pc'[c] = "load"
  BY DEF TypeOK
<1> HIDE DEF TrackConnection, LoadInbound, LoadUserInfo, LoadBucket, LoadOrStoreBucket
<1>5. pc[c] = "load" => state[c] = NoConn /\ \A d \in Conns : state[d] # c
  BY LimiterAssumption DEF Joined, TypeOK
<1>6. Registered'  BY <1>2 DEF Registered
<1>7. Published'  BY <1>2, <1>4, <1>5 DEF Published, TypeOK
<1>8. Joined'
  BY <1>2, <1>3, <1>4, <1>5, LimiterAssumption DEF Joined, TypeOK, Registered
<1>9. Current' = Current  BY <1>2 DEF Current
<1>10. Closing'  BY <1>2, <1>3, <1>4, <1>9 DEF Closing, TypeOK
<1>11. CloseReads' /\ MonitorReads' /\ Unpublished'
  BY <1>2, <1>3 DEF CloseReads, MonitorReads, Unpublished, TypeOK
<1>12. NoLeakedSlot'  BY <1>2, <1>9 DEF NoLeakedSlot, Holders
<1> QED BY <1>1, <1>6, <1>7, <1>8, <1>10, <1>11, <1>12

(* LoadOrStoreState joins the published state, or publishes an empty one.   *)
LEMMA StoreIInv ==
  ASSUME IInv, NEW c \in Conns, LoadOrStoreState(c)
  PROVE  IInv'
<1>1. TypeOK'  BY ConnType DEF IInv, ConnStep
<1> DEFINE k == cinfo[c]
           s == IF onlineIPs[k] = NoConn THEN c ELSE onlineIPs[k]
<1> USE DEF IInv
<1>2. /\ refs' = refs /\ inboundInfo' = inboundInfo /\ nInfos' = nInfos
      /\ admitted' = admitted /\ cip' = cip /\ closeInfo' = closeInfo
      /\ closeState' = closeState /\ cinfo' = cinfo
      /\ mpc' = mpc /\ minfo' = minfo /\ mstate' = mstate
      /\ pc[c] = "state" /\ pc' = [pc EXCEPT ![c] = "tryAdd"]
      /\ onlineIPs' = [onlineIPs EXCEPT ![k] = s] /\ state' = [state EXCEPT ![c] = s]
  BY DEF LoadOrStoreState, Goto, registry, monLocal
<1>3. k \in Infos /\ k <= nInfos /\ state[c] = NoConn
  BY <1>2, LimiterAssumption DEF Joined, TypeOK, Infos
<1>4. s \in Conns /\ s # NoConn
  BY <1>3, LimiterAssumption DEF TypeOK
<1>5. \A d \in Conns : state[d] # c
  <2> SUFFICES ASSUME NEW d \in Conns, state[d] = c PROVE FALSE  OBVIOUS
  <2>1. c # NoConn  BY LimiterAssumption
  <2>2. state[state[d]] = state[d]  BY <2>1 DEF Joined
  <2> QED BY <1>3, <2>1, <2>2
<1>6. c \notin admitted  BY <1>2 DEF Closing
<1>7. s = c \/ (state[s] = s /\ cinfo[s] = k)
  BY <1>3 DEF Published
<1>8. onlineIPs[k] = NoConn => s = c  OBVIOUS
<1>9. onlineIPs[k] # NoConn => s = onlineIPs[k]  OBVIOUS
<1> HIDE DEF s
<1>10. Registered'  BY <1>2, <1>3 DEF Registered, TypeOK, Infos
<1>11. Published'
  <2> SUFFICES ASSUME NEW j \in Infos, onlineIPs'[j] # NoConn
               PROVE  state'[onlineIPs'[j]] = onlineIPs'[j] /\ cinfo[onlineIPs'[j]] = j
    BY <1>2 DEF Published
  <2>1. CASE j = k
    BY <2>1, <1>2, <1>3, <1>4, <1>7 DEF TypeOK
  <2>2. CASE j # k
    <3>1. onlineIPs'[j] = onlineIPs[j]  BY <2>2, <1>2, <1>3 DEF TypeOK
    <3>2. onlineIPs[j] \in Conns /\ state[onlineIPs[j]] = onlineIPs[j] /\ cinfo[onlineIPs[j]] = j
      BY <3>1 DEF Published, TypeOK
    <3>3. onlineIPs[j] # c  BY <3>2, <1>5
    <3> QED BY <3>1, <3>2, <3>3, <1>2 DEF TypeOK
  <2> QED BY <2>1, <2>2
<1>12. Joined'
  BY <1>2, <1>3, <1>4, <1>5, <1>7, LimiterAssumption DEF Joined, TypeOK, Infos
<1>13. Current' = Current \/ Current' = c
  BY <1>2, <1>3, <1>8, <1>9 DEF Current, TypeOK, Registered, Infos
<1>14. Closing'
  <2> SUFFICES ASSUME NEW d \in admitted
               PROVE  /\ state'[d] # NoConn
                      /\ pc'[d] \in {"bucket", "slow", "live", "closeState", "closeRemove"}
                      /\ pc'[d] \in {"closeState", "closeRemove"} =>
                            closeInfo[d] >= cinfo[d] /\ closeInfo[d] <= nInfos
                      /\ pc'[d] = "closeRemove" /\ Current' = state'[d] =>
                            closeState[d] = state'[d]
    BY <1>2 DEF Closing
  <2>1. d \in Conns /\ d # c  BY <1>6 DEF TypeOK
  <2>2. pc'[d] = pc[d] /\ state'[d] = state[d]  BY <1>2, <2>1 DEF TypeOK
  <2>3. state[d] # c  BY <2>1, <1>5
  <2> QED BY <2>1, <2>2, <2>3, <1>13 DEF Closing
<1>15. CloseReads' /\ MonitorReads'
  BY <1>2 DEF CloseReads, MonitorReads, TypeOK
<1>16. Unpublished'  BY <1>2, <1>3, <1>4, LimiterAssumption DEF Unpublished, TypeOK
<1>17. NoLeakedSlot'
  <2> SUFFICES ASSUME Current' # NoConn, NEW i \in IPs
               PROVE  refs[Current'][i] <= Cardinality(Holders(Current, i)')
    BY <1>2 DEF NoLeakedSlot
  <2>1. Holders(Current, i)' = Holders(Current', i)
    BY <1>2, <1>6 DEF Holders, TypeOK
  <2>2. CASE Current' = Current
    BY <2>1, <2>2 DEF NoLeakedSlot
  <2>3. CASE Current' = c
    <3>1. refs[c][i] = 0  BY <1>3, LimiterAssumption DEF Unpublished
    <3> QED BY <3>1, <2>1, <2>3, HoldersFinite
  <2> QED BY <2>2, <2>3, <1>13
<1> QED BY <1>1, <1>10, <1>11, <1>12, <1>14, <1>15, <1>16, <1>17

(* tryAdd counts a reference exactly when it admits a connection.           *)
LEMMA TryAddIInv ==
  ASSUME IInv, NEW c \in Conns, tryAdd(c)
  PROVE  IInv'
<1>1. TypeOK'  BY ConnType DEF IInv, ConnStep
<1> DEFINE s == state[c]
<1> USE DEF IInv
<1>2. /\ onlineIPs' = onlineIPs /\ inboundInfo' = inboundInfo /\ nInfos' = nInfos
      /\ state' = state /\ cip' = cip /\ closeInfo' = closeInfo
      /\ closeState' = closeState /\ cinfo' = cinfo
      /\ mpc' = mpc /\ minfo' = minfo /\ mstate' = mstate
      /\ pc[c] = "tryAdd"
  BY DEF tryAdd, registry, maps, monLocal
<1>3. /\ pc' = [pc EXCEPT ![c] = pc'[c]]
      /\ pc'[c] \in {"live", "bucket", "reject"}
      /\ \/ refs' = refs /\ admitted' = admitted /\ pc'[c] = "reject"
         \/ /\ refs' = [refs EXCEPT ![s][cip[c]] = refs[s][cip[c]] + 1]
            /\ admitted' = admitted \cup {c} /\ pc'[c] \in {"live", "bucket"}
  BY DEF tryAdd, Goto, TypeOK
<1>4. s \in Conns /\ s # NoConn /\ state[s] = s
  BY <1>2, LimiterAssumption DEF Joined, TypeOK
<1>5. c \notin admitted  BY <1>2 DEF Closing
<1>6. Registered' /\ Published'  BY <1>2 DEF Registered, Published
<1>7. Joined'  BY <1>2, <1>3, <1>4 DEF Joined, TypeOK
<1>8. Current' = Current  BY <1>2 DEF Current
<1>9. Closing'  BY <1>2, <1>3, <1>4, <1>8 DEF Closing, TypeOK
<1>10. CloseReads' /\ MonitorReads'  BY <1>2, <1>3 DEF CloseReads, MonitorReads, TypeOK
<1>11. \A t \in Conns, i \in IPs : refs'[t][i] =
          IF c \in admitted' /\ t = s /\ i = cip[c] THEN refs[t][i] + 1 ELSE refs[t][i]
  <2>1. CASE refs' = refs /\ admitted' = admitted  BY <2>1, <1>5
  <2>2. CASE /\ refs' = [refs EXCEPT ![s][cip[c]] = refs[s][cip[c]] + 1]
             /\ admitted' = admitted \cup {c}
    BY <2>2, <1>4 DEF TypeOK
  <2> QED BY <2>1, <2>2, <1>3
<1>12. Unpublished'  BY <1>2, <1>4, <1>11 DEF Unpublished
<1>13. NoLeakedSlot'
  <2> SUFFICES ASSUME Current # NoConn, NEW i \in IPs
               PROVE  refs'[Current][i] <= Cardinality(Holders(Current, i)')
    BY <1>8 DEF NoLeakedSlot
  <2>1. Current \in Conns  BY LimiterAssumption DEF Current, TypeOK, Infos
  <2>2. refs[Current][i] <= Cardinality(Holders(Current, i))  BY DEF NoLeakedSlot
  <2>3. refs[Current][i] \in Nat  BY <2>1 DEF TypeOK
  <2>4. CASE c \in admitted' /\ Current = s /\ i = cip[c]
    <3>1. Holders(Current, i)' = Holders(Current, i) \cup {c}
      BY <2>4, <1>2, <1>3, <1>5, <1>8 DEF Holders
    <3>2. c \notin Holders(Current, i)  BY <1>5 DEF Holders
    <3>3. Cardinality(Holders(Current, i)') = Cardinality(Holders(Current, i)) + 1
      BY <3>1, <3>2, HoldersFinite, FS_AddElement
    <3> QED BY <3>3, <2>1, <2>2, <2>3, <2>4, <1>11, HoldersFinite
  <2>5. CASE ~(c \in admitted' /\ Current = s /\ i = cip[c])
    <3>1. Holders(Current, i)' = Holders(Current, i)
      BY <2>5, <1>2, <1>3, <1>5, <1>8 DEF Holders
    <3> QED BY <3>1, <2>1, <2>2, <2>5, <1>11
  <2> QED BY <2>4, <2>5
<1> QED BY <1>1, <1>6, <1>7, <1>9, <1>10, <1>12, <1>13

(* Closing, before the count is touched: a connection that was admitted to  *)
(* the current online state cannot miss it.                                 *)
LEMMA CloseLookupIInv ==
  ASSUME IInv, NEW c \in Conns, Close(c) \/ CloseLoadState(c)
  PROVE  IInv'
<1>1. TypeOK'  BY ConnType DEF IInv, ConnStep
<1> USE DEF IInv
<1>2. /\ refs' = refs /\ onlineIPs' = onlineIPs /\ inboundInfo' = inboundInfo
      /\ nInfos' = nInfos /\ state' = state /\ cip' = cip /\ cinfo' = cinfo
      /\ mpc' = mpc /\ minfo' = minfo /\ mstate' = mstate
  BY DEF Close, CloseLoadState, registry, maps, monLocal
<1>3. /\ pc' = [pc EXCEPT ![c] = pc'[c]]
      /\ pc'[c] \in {"done", "closeState", "closeRemove"}
      /\ pc'[c] = "done" => admitted' = admitted \ {c}
      /\ pc'[c] # "done" => admitted' = admitted
  BY DEF Close, CloseLoadState, Goto, TypeOK
<1>4. Current' = Current  BY <1>2 DEF Current
<1>5. /\ pc'[c] = "closeState" => /\ closeInfo' = [closeInfo EXCEPT ![c] = inboundInfo]
                                 /\ closeState' = closeState /\ inboundInfo # 0
      /\ pc'[c] = "closeRemove" =>
            /\ closeInfo' = closeInfo /\ pc[c] = "closeState"
            /\ closeState' = [closeState EXCEPT ![c] = onlineIPs[closeInfo[c]]]
            /\ onlineIPs[closeInfo[c]] # NoConn
      /\ pc'[c] = "done" =>
            /\ closeInfo' = [closeInfo EXCEPT ![c] = closeInfo'[c]]
            /\ closeState' = [closeState EXCEPT ![c] = closeState'[c]]
            /\ \/ inboundInfo = 0
               \/ pc[c] = "closeState" /\ onlineIPs[closeInfo[c]] = NoConn
  BY DEF Close, CloseLoadState, Goto, TypeOK
<1>6. c \in admitted /\ state[c] = Current /\ pc[c] = "closeState" =>
         onlineIPs[closeInfo[c]] = Current
  <2> SUFFICES ASSUME c \in admitted, state[c] = Current, pc[c] = "closeState"
               PROVE  onlineIPs[closeInfo[c]] = Current
    OBVIOUS
  <2>1. Current # NoConn  BY DEF Closing
  <2>2. cinfo[c] = inboundInfo /\ inboundInfo = nInfos /\ inboundInfo \in Infos
    BY <2>1, CurrentInfo
  <2>3. closeInfo[c] >= cinfo[c] /\ closeInfo[c] <= nInfos  BY DEF Closing
  <2>5. closeInfo[c] \in Int /\ nInfos \in Int  BY LimiterAssumption DEF TypeOK
  <2>4. closeInfo[c] = inboundInfo  BY <2>2, <2>3, <2>5
  <2> QED BY <2>2, <2>4, LimiterAssumption DEF Current, Infos
<1>7. Registered' /\ Published' /\ Unpublished' /\ MonitorReads'
  BY <1>2 DEF Registered, Published, Unpublished, MonitorReads
<1>8. Joined'  BY <1>2, <1>3 DEF Joined, TypeOK
<1>12. \A d \in Conns \ {c} : /\ closeInfo'[d] = closeInfo[d]
                              /\ closeState'[d] = closeState[d]
                              /\ pc'[d] = pc[d]
  BY DEF Close, CloseLoadState, Goto, TypeOK
<1>13. CloseReads'
  <2> SUFFICES ASSUME NEW d \in Conns
               PROVE  /\ pc'[d] = "closeState" => closeInfo'[d] # 0
                      /\ pc'[d] = "closeRemove" => closeState'[d] # NoConn
    BY DEF CloseReads
  <2>1. CASE d = c  BY <2>1, <1>5 DEF TypeOK
  <2>2. CASE d # c  BY <2>2, <1>12 DEF CloseReads
  <2> QED BY <2>1, <2>2
<1>10. Closing'
  <2> SUFFICES ASSUME NEW d \in admitted'
               PROVE  /\ state[d] # NoConn
                      /\ pc'[d] \in {"bucket", "slow", "live", "closeState", "closeRemove"}
                      /\ pc'[d] \in {"closeState", "closeRemove"} =>
                            closeInfo'[d] >= cinfo[d] /\ closeInfo'[d] <= nInfos
                      /\ pc'[d] = "closeRemove" /\ Current = state[d] =>
                            closeState'[d] = state[d]
    BY <1>2, <1>4 DEF Closing
  <2>1. d \in admitted /\ d \in Conns  BY <1>3 DEF TypeOK
  <2>2. CASE d # c
    <3>1. pc'[d] = pc[d] /\ closeInfo'[d] = closeInfo[d] /\ closeState'[d] = closeState[d]
      BY <2>1, <2>2, <1>12
    <3> QED BY <2>1, <3>1 DEF Closing
  <2>3. CASE d = c /\ pc'[c] = "closeState"
    <3>1. closeInfo'[c] = inboundInfo /\ inboundInfo = nInfos  BY <2>3, <1>5 DEF TypeOK, Registered
    <3>2. cinfo[c] <= nInfos  BY DEF Joined
    <3> QED BY <2>1, <2>3, <3>1, <3>2 DEF Closing, TypeOK
  <2>4. CASE d = c /\ pc'[c] = "closeRemove"
    BY <2>1, <2>4, <1>5, <1>6 DEF Closing, TypeOK
  <2>5. d = c => pc'[c] # "done"  BY <2>1, <1>3
  <2> QED BY <2>2, <2>3, <2>4, <2>5, <1>3
<1>11. NoLeakedSlot'
  <2> SUFFICES ASSUME Current # NoConn, NEW i \in IPs
               PROVE  refs[Current][i] <= Cardinality(Holders(Current, i)')
    BY <1>2, <1>4 DEF NoLeakedSlot
  <2>1. c \notin Holders(Current, i) \/ pc'[c] # "done"
    BY <1>5, <1>6 DEF Holders, Current
  <2>2. Holders(Current, i)' = Holders(Current, i)
    BY <2>1, <1>2, <1>3, <1>4 DEF Holders
  <2> QED BY <2>2 DEF NoLeakedSlot
<1> QED BY <1>1, <1>7, <1>8, <1>10, <1>11, <1>13

(* remove never raises a count.                                             *)
LEMMA RemoveBounds ==
  ASSUME TypeOK, NEW t \in Conns, NEW i \in IPs
  PROVE  /\ refs[t][i] \in Nat
         /\ remove(t, i) \in Nat
         /\ remove(t, i) <= refs[t][i]
<1>1. refs[t][i] \in Nat  BY DEF TypeOK
<1> QED BY <1>1 DEF remove

(* The last step of a close gives back at most one reference, and gives it  *)
(* back to the current online state when the connection was counted there.  *)
LEMMA CloseRemoveIInv ==
  ASSUME IInv, NEW c \in Conns, CloseRemove(c)
  PROVE  IInv'
<1>1. TypeOK'  BY ConnType DEF IInv, ConnStep
<1> DEFINE s == closeState[c]
<1> USE DEF IInv
<1>2. /\ onlineIPs' = onlineIPs /\ inboundInfo' = inboundInfo /\ nInfos' = nInfos
      /\ state' = state /\ cip' = cip /\ closeInfo' = closeInfo
      /\ closeState' = closeState /\ cinfo' = cinfo
      /\ mpc' = mpc /\ minfo' = minfo /\ mstate' = mstate
      /\ pc[c] = "closeRemove" /\ admitted' = admitted \ {c}
      /\ refs' = [refs EXCEPT ![s][cip[c]] = remove(s, cip[c])]
      /\ pc' = [pc EXCEPT ![c] = "done"]
  BY DEF CloseRemove, Goto, registry, maps, monLocal
<1>3. s \in Conns  BY <1>2, LimiterAssumption DEF CloseReads, TypeOK
<1>4. Registered' /\ Published' /\ MonitorReads'
  BY <1>2 DEF Registered, Published, MonitorReads
<1>5. Joined'  BY <1>2 DEF Joined, TypeOK
<1>6. Current' = Current  BY <1>2 DEF Current
<1>7. Closing'  BY <1>2, <1>6 DEF Closing, TypeOK
<1>8. CloseReads'  BY <1>2 DEF CloseReads, TypeOK
<1>9. \A t \in Conns, i \in IPs : refs'[t][i] =
         IF t = s /\ i = cip[c] THEN remove(t, i) ELSE refs[t][i]
  BY <1>2, <1>3 DEF TypeOK
<1>11. Unpublished'
  <2> SUFFICES ASSUME NEW t \in Conns, state[t] # t, NEW i \in IPs
               PROVE  refs'[t][i] = 0
    BY <1>2 DEF Unpublished
  <2>1. refs[t][i] = 0  BY DEF Unpublished
  <2>2. remove(t, i) = 0  BY <2>1 DEF remove
  <2> QED BY <2>1, <2>2, <1>9
<1>12. NoLeakedSlot'
  <2> SUFFICES ASSUME Current # NoConn, NEW i \in IPs
               PROVE  refs'[Current][i] <= Cardinality(Holders(Current, i)')
    BY <1>6 DEF NoLeakedSlot
  <2>1. Current \in Conns  BY LimiterAssumption DEF Current, TypeOK, Infos
  <2>2. refs[Current][i] <= Cardinality(Holders(Current, i))  BY DEF NoLeakedSlot
  <2>3. Holders(Current, i)' = Holders(Current, i) \ {c}
    BY <1>2, <1>6 DEF Holders
  <2>4. CASE c \in Holders(Current, i)
    <3>1. Current = s /\ i = cip[c]
      BY <2>4, <1>2 DEF Holders, Closing
    <3>2. refs'[Current][i] = remove(Current, i)  BY <2>1, <3>1, <1>9
    <3>3. Cardinality(Holders(Current, i)') = Cardinality(Holders(Current, i)) - 1
      BY <2>3, <2>4, HoldersFinite, FS_RemoveElement
    <3>4. Cardinality(Holders(Current, i)) >= 1
      <4>1. Cardinality(Holders(Current, i)) # 0
        BY <2>4, HoldersFinite, FS_EmptySet
      <4> QED BY <4>1, HoldersFinite
    <3>5. remove(Current, i) = 0 \/ remove(Current, i) = refs[Current][i] - 1
      BY DEF remove
    <3>6. refs[Current][i] \in Nat /\ Cardinality(Holders(Current, i)) \in Nat
      BY <2>1, RemoveBounds, HoldersFinite
    <3> QED BY <2>2, <3>2, <3>3, <3>4, <3>5, <3>6
  <2>5. CASE c \notin Holders(Current, i)
    <3>1. Holders(Current, i)' = Holders(Current, i)  BY <2>3, <2>5
    <3>2. refs'[Current][i] <= refs[Current][i] /\ refs'[Current][i] \in Nat
      <4>1. /\ refs[Current][i] \in Nat /\ remove(Current, i) \in Nat
            /\ remove(Current, i) <= refs[Current][i]
        BY <2>1, RemoveBounds
      <4>2. refs'[Current][i] = remove(Current, i) \/ refs'[Current][i] = refs[Current][i]
        BY <2>1, <1>9
      <4> QED BY <4>1, <4>2
    <3>3. refs[Current][i] \in Nat /\ Cardinality(Holders(Current, i)) \in Nat
      BY <2>1, RemoveBounds, HoldersFinite
    <3> QED BY <2>2, <3>1, <3>2, <3>3
  <2> QED BY <2>4, <2>5
<1> QED BY <1>1, <1>4, <1>5, <1>7, <1>8, <1>11, <1>12

-----------------------------------------------------------------------------
(* The strengthened invariant is inductive.                                 *)
LEMMA NextIInv == IInv /\ [Next]_vars => IInv'
<1> SUFFICES ASSUME IInv, [Next]_vars PROVE IInv'  OBVIOUS
<1>1. ASSUME NEW c \in Conns, ConnStep(c) PROVE IInv'
  BY <1>1, EarlyIInv, StoreIInv, TryAddIInv, CloseLookupIInv, CloseRemoveIInv DEF ConnStep
<1>2. ASSUME NEW m \in Monitors, MonitorStep(m) PROVE IInv'
  BY <1>2, MonitorIInv
<1>3. CASE UNCHANGED vars
  <2> USE <1>3 DEF vars, registry, maps, connLocal, monLocal, IInv
  <2>1. TypeOK'  BY DEF TypeOK
  <2>2. Registered' /\ Published' /\ Joined' /\ CloseReads' /\ MonitorReads' /\ Unpublished'
    BY DEF Registered, Published, Joined, CloseReads, MonitorReads, Unpublished
  <2>3. Current' = Current  BY DEF Current
  <2>4. Closing'  BY <2>3 DEF Closing
  <2>5. NoLeakedSlot'  BY <2>3 DEF NoLeakedSlot, Holders
  <2> QED BY <2>1, <2>2, <2>4, <2>5
<1> QED BY <1>1, <1>2, <1>3 DEF Next

(* Limiter keeps its types: in particular no lookup of a missing entry is   *)
(* used, no counter goes below zero.                                        *)
THEOREM LimiterTypeCorrect == Spec => []TypeOK
<1>1. IInv => TypeOK  BY DEF IInv
<1> QED BY <1>1, InitIInv, NextIInv, PTL DEF Spec

(* No device slot is ever leaked, for any number of connections, addresses, *)
(* limits, replacements, deletions and prunes.                              *)
THEOREM SlotsNeverLeak == Spec => []NoLeakedSlot
<1>1. IInv => NoLeakedSlot  BY DEF IInv
<1> QED BY <1>1, InitIInv, NextIInv, PTL DEF Spec

-----------------------------------------------------------------------------
(* The device limit.  A connection reads its limits before it joins an      *)
(* online state and never again, so the limits under which a state was      *)
(* entered do not change behind tryAdd's back.                              *)

(* What a step does to the connections that have joined an online state.    *)
LEMMA JoinedKept ==
  ASSUME IInv, [Next]_vars
  PROVE  \A c \in Conns : state[c] # NoConn => state'[c] = state[c] /\ limits'[c] = limits[c]
<1> USE DEF IInv, connLocal, monLocal, registry, maps
<1>1. ASSUME NEW d \in Conns, ConnStep(d)
      PROVE  \A c \in Conns : state[c] # NoConn => state'[c] = state[c] /\ limits'[c] = limits[c]
  <2>1. CASE LoadUserInfo(d)  BY <2>1 DEF LoadUserInfo, Joined, TypeOK
  <2>2. CASE LoadOrStoreState(d)  BY <2>2 DEF LoadOrStoreState, Joined, TypeOK
  <2>3. CASE /\ ~LoadUserInfo(d)
             /\ ~LoadOrStoreState(d)
    <3>1. state' = state /\ limits' = limits
      BY <1>1, <2>3 DEF ConnStep, TrackConnection, LoadInbound, tryAdd, LoadBucket,
         LoadOrStoreBucket, Close, CloseLoadState, CloseRemove
    <3> QED BY <3>1
  <2> QED BY <2>1, <2>2, <2>3
<1>2. ASSUME NEW m \in Monitors, MonitorStep(m)
      PROVE  state' = state /\ limits' = limits
  BY <1>2, MonitorType DEF MonitorEffect
<1>3. CASE UNCHANGED vars  BY <1>3 DEF vars
<1> QED BY <1>1, <1>2, <1>3 DEF Next

(* tryAdd adds one address, and only under the limit; remove drops one.     *)
LEMMA DevicesStep ==
  ASSUME IInv, [Next]_vars, NEW s \in Conns
  PROVE  \/ Devices(s)' = Devices(s)
         \/ \E i \in IPs : Devices(s)' = Devices(s) \ {i}
         \/ \E c \in Conns :
              /\ state[c] = s
              /\ Devices(s)' = Devices(s) \cup {cip[c]}
              /\ MayAdd(s, cip[c], limits[c].dev)
<1> USE DEF IInv
<1>1. CASE refs' = refs  BY <1>1 DEF Devices
<1>2. ASSUME NEW c \in Conns, tryAdd(c), MayAdd(state[c], cip[c], limits[c].dev),
             refs' = [refs EXCEPT ![state[c]][cip[c]] = @ + 1]
      PROVE  \/ Devices(s)' = Devices(s)
             \/ /\ state[c] = s
                /\ Devices(s)' = Devices(s) \cup {cip[c]}
                /\ MayAdd(s, cip[c], limits[c].dev)
  <2>1. state[c] \in Conns  BY <1>2, LimiterAssumption DEF tryAdd, Joined, TypeOK
  <2>2. \A i \in IPs : refs'[s][i] =
          IF s = state[c] /\ i = cip[c] THEN refs[s][i] + 1 ELSE refs[s][i]
    BY <1>2, <2>1 DEF TypeOK
  <2>3. \A i \in IPs : refs[s][i] \in Nat  BY DEF TypeOK
  <2>4. CASE s = state[c]
    <3>1. cip[c] \in IPs  BY DEF TypeOK
    <3>2. Devices(s)' = Devices(s) \cup {cip[c]}  BY <2>2, <2>3, <2>4, <3>1 DEF Devices
    <3> QED BY <1>2, <2>4, <3>2
  <2>5. CASE s # state[c]  BY <2>2, <2>5 DEF Devices
  <2> QED BY <2>4, <2>5
<1>3. ASSUME NEW c \in Conns, CloseRemove(c)
      PROVE  Devices(s)' = Devices(s) \/ Devices(s)' = Devices(s) \ {cip[c]}
  <2>1. closeState[c] \in Conns  BY <1>3, LimiterAssumption DEF CloseRemove, CloseReads, TypeOK
  <2>2. \A i \in IPs : refs'[s][i] =
          IF s = closeState[c] /\ i = cip[c] THEN remove(s, i) ELSE refs[s][i]
    BY <1>3, <2>1 DEF CloseRemove, TypeOK
  <2>3. \A i \in IPs : remove(s, i) > 0 => refs[s][i] > 0
    BY RemoveBounds DEF TypeOK, remove
  <2>4. Devices(s)' \in SUBSET Devices(s)  BY <2>2, <2>3 DEF Devices
  <2>5. \A i \in Devices(s) : i # cip[c] => i \in Devices(s)'  BY <2>2 DEF Devices
  <2> QED BY <2>4, <2>5
<1>4. ASSUME NEW c \in Conns, ConnStep(c)
      PROVE  \/ refs' = refs
             \/ CloseRemove(c)
             \/ /\ tryAdd(c) /\ MayAdd(state[c], cip[c], limits[c].dev)
                /\ refs' = [refs EXCEPT ![state[c]][cip[c]] = @ + 1]
  BY <1>4, Zenon DEF ConnStep, TrackConnection, LoadInbound, LoadUserInfo, LoadOrStoreState,
     tryAdd, LoadBucket, LoadOrStoreBucket, Close, CloseLoadState, maps, registry
<1>5. ASSUME NEW m \in Monitors, MonitorStep(m) PROVE refs' = refs
  BY <1>5, MonitorType DEF MonitorEffect
<1>6. UNCHANGED vars => refs' = refs  BY DEF vars
<1>7. \A c \in Conns : cip[c] \in IPs  BY DEF TypeOK
<1> QED BY <1>1, <1>2, <1>3, <1>4, <1>5, <1>6, <1>7 DEF Next

(* The inductive form of SlotsWithinLimit: the sets whose sizes it compares *)
(* are finite.                                                              *)
LimitKept ==
    /\ \A s \in Conns : IsFiniteSet(Devices(s))
    /\ SlotsWithinLimit

(* No step of a connection or of a monitor takes a state over its limit.    *)
LEMMA NextLimitKept == IInv /\ LimitKept /\ [Next]_vars => LimitKept'
<1> SUFFICES ASSUME IInv, LimitKept, [Next]_vars PROVE LimitKept'  OBVIOUS
<1>1. ASSUME NEW s \in Conns PROVE IsFiniteSet(Devices(s)')
  <2>1. IsFiniteSet(Devices(s))  BY DEF LimitKept
  <2> QED BY <2>1, DevicesStep, FS_AddElement, FS_RemoveElement
<1>2. ASSUME NEW s \in Conns, NEW d \in DeviceLimits,
             \A c \in Conns : state'[c] = s => limits'[c].dev \in 1 .. d
      PROVE  Cardinality(Devices(s)') <= d
  <2>1. s # NoConn /\ d \in Nat  BY LimiterAssumption
  <2>2. \A c \in Conns : state[c] = s => limits[c].dev \in 1 .. d
    BY <1>2, <2>1, JoinedKept
  <2>3. IsFiniteSet(Devices(s)) /\ Cardinality(Devices(s)) <= d
    BY <2>2 DEF LimitKept, SlotsWithinLimit
  <2>4. Cardinality(Devices(s)) \in Nat  BY <2>3, FS_CardinalityType
  <2>5. ASSUME NEW i \in IPs, Devices(s)' = Devices(s) \ {i} PROVE Cardinality(Devices(s)') <= d
    <3>1. \/ Cardinality(Devices(s)') = Cardinality(Devices(s))
          \/ Cardinality(Devices(s)') = Cardinality(Devices(s)) - 1
      BY <2>3, <2>5, FS_RemoveElement
    <3> QED BY <2>1, <2>3, <2>4, <3>1
  <2>6. ASSUME NEW c \in Conns, state[c] = s, Devices(s)' = Devices(s) \cup {cip[c]},
               MayAdd(s, cip[c], limits[c].dev)
        PROVE  Cardinality(Devices(s)') <= d
    <3>1. Cardinality(Devices(s)') =
             IF cip[c] \in Devices(s) THEN Cardinality(Devices(s)) ELSE Cardinality(Devices(s)) + 1
      BY <2>3, <2>6, FS_AddElement
    <3>2. limits[c].dev \in 1 .. d  BY <2>2, <2>6
    <3>3. cip[c] \in Devices(s) \/ Cardinality(Devices(s)) < limits[c].dev
      BY <2>6, <3>2 DEF MayAdd
    <3> QED BY <2>1, <2>3, <2>4, <3>1, <3>2, <3>3
  <2> QED BY <2>3, <2>5, <2>6, DevicesStep
<1> QED BY <1>1, <1>2 DEF LimitKept, SlotsWithinLimit

(* tryAdd's check and insert never let an online state grow over the        *)
(* strictest limit its connections were admitted under, for any number of   *)
(* connections, addresses and limits and while the panel changes the limit. *)
THEOREM DeviceLimitKept == Spec => []SlotsWithinLimit
<1>1. Init => LimitKept
  <2> SUFFICES ASSUME Init PROVE LimitKept  OBVIOUS
  <2>1. \A s \in Conns : Devices(s) = {}  BY DEF Init, Devices
  <2>2. \A s \in Conns : IsFiniteSet(Devices(s)) /\ Cardinality(Devices(s)) = 0
    BY <2>1, FS_EmptySet
  <2>3. \A d \in DeviceLimits : 0 <= d  BY LimiterAssumption
  <2> QED BY <2>2, <2>3 DEF LimitKept, SlotsWithinLimit
<1>2. LimitKept => SlotsWithinLimit  BY DEF LimitKept
<1> QED BY <1>1, <1>2, InitIInv, NextIInv, NextLimitKept, PTL DEF Spec

-----------------------------------------------------------------------------
(* Xray-core's OnlineMap.                                                   *)

Counted(i) == {c \in Conns : cip[c] = i /\
                 pc[c] \notin {"new", "closeState", "closeRemove", "done"}}

(* AddIP and RemoveIP are the only steps that move a connection into or out *)
(* of the counted ones.                                                     *)
LEMMA NextOnlineMap == IInv /\ OnlineMapExact /\ [Next]_vars => OnlineMapExact'
<1> SUFFICES ASSUME IInv, OnlineMapExact, [Next]_vars, NEW i \in IPs
             PROVE  onlineMap'[i] = Cardinality(Counted(i)')
  BY DEF OnlineMapExact, Counted
<1> USE DEF IInv
<1>1. onlineMap[i] = Cardinality(Counted(i))  BY DEF OnlineMapExact, Counted
<1>2. IsFiniteSet(Counted(i))
  <2>1. Counted(i) \in SUBSET Conns  BY DEF Counted
  <2> QED BY <2>1, LimiterAssumption, FS_Subset
<1>3. ASSUME NEW c \in Conns, TrackConnection(c) PROVE onlineMap'[i] = Cardinality(Counted(i)')
  <2>1. /\ pc[c] = "new" /\ pc' = [pc EXCEPT ![c] = "load"] /\ cip' = cip
        /\ onlineMap' = [onlineMap EXCEPT ![cip[c]] = onlineMap[cip[c]] + 1]
    BY <1>3 DEF TrackConnection, Goto
  <2>2. c \notin Counted(i)  BY <2>1 DEF Counted
  <2>3. CASE cip[c] = i
    <3>1. Counted(i)' = Counted(i) \cup {c}  BY <2>1, <2>3 DEF Counted, TypeOK
    <3>2. Cardinality(Counted(i)') = Cardinality(Counted(i)) + 1
      BY <1>2, <2>2, <3>1, FS_AddElement
    <3>3. onlineMap'[i] = onlineMap[i] + 1  BY <2>1, <2>3 DEF TypeOK
    <3> QED BY <1>1, <3>2, <3>3
  <2>4. CASE cip[c] # i
    <3>1. Counted(i)' = Counted(i)  BY <2>1, <2>4 DEF Counted, TypeOK
    <3> QED BY <1>1, <2>1, <2>4, <3>1 DEF TypeOK
  <2> QED BY <2>3, <2>4
<1>4. ASSUME NEW c \in Conns, Close(c) PROVE onlineMap'[i] = Cardinality(Counted(i)')
  <2>1. /\ pc[c] \in {"live", "reject"} /\ pc' = [pc EXCEPT ![c] = pc'[c]] /\ cip' = cip
        /\ pc'[c] \in {"done", "closeState"}
        /\ onlineMap' = [onlineMap EXCEPT ![cip[c]] = onlineMap[cip[c]] - 1]
    BY <1>4 DEF Close, Goto, TypeOK
  <2>3. CASE cip[c] = i
    <3>1. Counted(i)' = Counted(i) \ {c} /\ c \in Counted(i)
      BY <2>1, <2>3 DEF Counted, TypeOK
    <3>2. Cardinality(Counted(i)') = Cardinality(Counted(i)) - 1
      BY <1>2, <3>1, FS_RemoveElement
    <3>3. onlineMap'[i] = onlineMap[i] - 1  BY <2>1, <2>3 DEF TypeOK
    <3> QED BY <1>1, <3>2, <3>3
  <2>4. CASE cip[c] # i
    <3>1. Counted(i)' = Counted(i)  BY <2>1, <2>4 DEF Counted, TypeOK
    <3> QED BY <1>1, <2>1, <2>4, <3>1 DEF TypeOK
  <2> QED BY <2>3, <2>4
<1>5. ASSUME NEW c \in Conns, ConnStep(c), ~TrackConnection(c), ~Close(c)
      PROVE  onlineMap'[i] = Cardinality(Counted(i)')
  <2>1. onlineMap' = onlineMap /\ cip' = cip
    BY <1>5 DEF ConnStep, LoadInbound, LoadUserInfo, LoadOrStoreState, tryAdd, LoadBucket,
       LoadOrStoreBucket, CloseLoadState, CloseRemove
  <2>2. /\ pc' = [pc EXCEPT ![c] = pc'[c]]
        /\ pc[c] \in {"new", "closeState", "closeRemove", "done"}
              <=> pc'[c] \in {"new", "closeState", "closeRemove", "done"}
    BY <1>5 DEF ConnStep, LoadInbound, LoadUserInfo, LoadOrStoreState, tryAdd, LoadBucket,
       LoadOrStoreBucket, CloseLoadState, CloseRemove, Goto, TypeOK
  <2>3. Counted(i)' = Counted(i)  BY <2>1, <2>2 DEF Counted, TypeOK
  <2> QED BY <1>1, <2>1, <2>3
<1>6. ASSUME NEW m \in Monitors, MonitorStep(m) PROVE onlineMap'[i] = Cardinality(Counted(i)')
  <2>1. onlineMap' = onlineMap /\ cip' = cip /\ pc' = pc
    BY <1>6, MonitorType DEF MonitorEffect, connLocal
  <2> QED BY <1>1, <2>1 DEF Counted
<1>7. CASE UNCHANGED vars
  <2>1. onlineMap' = onlineMap /\ cip' = cip /\ pc' = pc  BY <1>7 DEF vars, connLocal
  <2> QED BY <1>1, <2>1 DEF Counted
<1> QED BY <1>3, <1>4, <1>5, <1>6, <1>7 DEF Next

(* AddIP and RemoveIP pair up on every path of a connection, the rejected   *)
(* ones included: OnlineMap holds the open connections of each address.     *)
THEOREM OnlineMapCountsOpen == Spec => []OnlineMapExact
<1>1. Init => OnlineMapExact
  <2> SUFFICES ASSUME Init, NEW i \in IPs PROVE onlineMap[i] = Cardinality(Counted(i))
    BY DEF OnlineMapExact, Counted
  <2>1. Counted(i) = {}  BY DEF Init, Counted
  <2> QED BY <2>1, FS_EmptySet DEF Init
<1> QED BY <1>1, InitIInv, NextIInv, NextOnlineMap, PTL DEF Spec

-----------------------------------------------------------------------------
(* The shared rate bucket.  An update, a removal of the user and a prune    *)
(* drop the stored bucket, and a new InboundInfo starts without one, while  *)
(* older connections keep theirs; giving the tag up does not part anybody.  *)
BucketsStay == Ops \subseteq {"delInbound"}

HubKept ==
    /\ nInfos = 1
    /\ \A m \in Monitors : mpc[m] = "idle"
    /\ \A c \in Conns : bucket[c] # NoConn => bucketHub[1] = bucket[c]

(* The first bucket that is stored stays, and everybody takes that one.     *)
LEMMA NextHubKept == BucketsStay /\ IInv /\ HubKept /\ [Next]_vars => HubKept'
<1> SUFFICES ASSUME BucketsStay, IInv, HubKept, [Next]_vars PROVE HubKept'  OBVIOUS
<1> USE DEF HubKept
<1>1. ASSUME NEW c \in Conns, LoadBucket(c) \/ LoadOrStoreBucket(c) PROVE HubKept'
  <2>1. UNCHANGED <<nInfos, mpc>>  BY <1>1 DEF LoadBucket, LoadOrStoreBucket, registry, monLocal
  <2>2. cinfo[c] = 1
    <3>1. pc[c] \in {"bucket", "slow"}  BY <1>1 DEF LoadBucket, LoadOrStoreBucket
    <3>2. cinfo[c] # 0 /\ cinfo[c] <= 1  BY <3>1 DEF IInv, Joined
    <3>3. cinfo[c] \in Nat  BY LimiterAssumption DEF IInv, TypeOK
    <3> QED BY <3>2, <3>3
  <2>3. 1 \in Infos /\ c # NoConn /\ bucketHub[1] \in Conns \cup {NoConn}
    BY LimiterAssumption DEF IInv, TypeOK, Infos
  <2>4. CASE LoadBucket(c)
    <3>1. bucketHub' = bucketHub /\ bucket' = [bucket EXCEPT ![c] = bucketHub[1]]
      BY <2>2, <2>4 DEF LoadBucket, maps
    <3> QED BY <2>1, <3>1 DEF IInv, TypeOK
  <2>5. CASE LoadOrStoreBucket(c) /\ bucketHub[1] = NoConn
    <3>1. /\ bucketHub' = [bucketHub EXCEPT ![1] = c]
          /\ bucket' = [bucket EXCEPT ![c] = c]
      BY <2>2, <2>5 DEF LoadOrStoreBucket
    <3>2. bucketHub'[1] = c  BY <2>3, <3>1 DEF IInv, TypeOK
    <3>3. \A d \in Conns : bucket[d] = NoConn  BY <2>5
    <3> QED BY <2>1, <3>1, <3>2, <3>3 DEF IInv, TypeOK
  <2>6. CASE LoadOrStoreBucket(c) /\ bucketHub[1] # NoConn
    <3>1. /\ bucketHub' = [bucketHub EXCEPT ![1] = bucketHub[1]]
          /\ bucket' = [bucket EXCEPT ![c] = bucketHub[1]]
      BY <2>2, <2>6 DEF LoadOrStoreBucket
    <3>2. bucketHub'[1] = bucketHub[1]  BY <2>3, <3>1 DEF IInv, TypeOK
    <3> QED BY <2>1, <3>1, <3>2 DEF IInv, TypeOK
  <2> QED BY <1>1, <2>4, <2>5, <2>6
<1>2. ASSUME NEW c \in Conns, ConnStep(c), ~LoadBucket(c), ~LoadOrStoreBucket(c) PROVE HubKept'
  <2>1. UNCHANGED <<nInfos, mpc, bucket, bucketHub>>
    BY <1>2 DEF ConnStep, TrackConnection, LoadInbound, LoadUserInfo, LoadOrStoreState, tryAdd,
       Close, CloseLoadState, CloseRemove, registry, maps, monLocal
  <2> QED BY <2>1
<1>3. ASSUME NEW m \in Monitors, MonitorStep(m) PROVE HubKept'
  <2>1. mpc[m] = "idle"  OBVIOUS
  <2>2. DeleteInboundLimiter(m)
    <3>1. ~UpdateStoreUser(m) /\ ~UpdateDeleteBucket(m)
      BY <2>1 DEF UpdateStoreUser, UpdateDeleteBucket
    <3>2. ~DeleteUserInfo(m) /\ ~DeleteUserBucket(m) /\ ~DeleteUserOnline(m)
      BY <2>1 DEF DeleteUserInfo, DeleteUserBucket, DeleteUserOnline
    <3>3. ~PruneRange(m) /\ ~PruneCheck(m) /\ ~PruneBucket(m) /\ ~PruneOnline(m)
      BY <2>1 DEF PruneRange, PruneCheck, PruneBucket, PruneOnline
    <3>4. \A op \in {"add", "update", "delUser", "prune"} : ~Begin(m, op)
      BY DEF Begin, BucketsStay
    <3>5. \A u \in UserInfo, r \in Rates : ~AddInboundLimiter(m, u, r)
      BY <3>4 DEF AddInboundLimiter
    <3>6. /\ \A u \in UserInfo : ~UpdateInboundLimiter(m, u)
          /\ ~DeleteUsersFromLimiter(m) /\ ~PruneStaleEntries(m)
      BY <3>4 DEF UpdateInboundLimiter, DeleteUsersFromLimiter, PruneStaleEntries, BeginOnInfo
    <3> QED BY <1>3, <3>1, <3>2, <3>3, <3>5, <3>6 DEF MonitorStep
  <2>3. UNCHANGED <<nInfos, bucketHub, bucket>> /\ mpc' = [mpc EXCEPT ![m] = "idle"]
    BY <2>2 DEF DeleteInboundLimiter, Busy, maps, connLocal
  <2> QED BY <2>3 DEF IInv, TypeOK
<1>4. CASE UNCHANGED vars
  <2>1. UNCHANGED <<nInfos, mpc, bucket, bucketHub>>
    BY <1>4 DEF vars, registry, maps, connLocal, monLocal
  <2> QED BY <2>1
<1> QED BY <1>1, <1>2, <1>3, <1>4 DEF Next

(* However many connections a user opens, those with a rate wait on one     *)
(* bucket, while nothing resets the stored one: the race of two first       *)
(* connections is settled by bucketHub.LoadOrStore (GetUserBucket).         *)
THEOREM OneBucketPerUser == BucketsStay => (Spec => []SharedBucket)
<1> SUFFICES ASSUME BucketsStay PROVE Spec => []SharedBucket  OBVIOUS
<1>1. Init => HubKept  BY DEF Init, HubKept
<1>2. HubKept => SharedBucket  BY DEF HubKept, SharedBucket
<1>3. IInv /\ HubKept /\ [Next]_vars => HubKept'  BY NextHubKept
<1> QED BY <1>1, <1>2, <1>3, InitIInv, NextIInv, PTL DEF Spec

-----------------------------------------------------------------------------
(* A slot lasts as long as its connections.  Replacing the InboundInfo,     *)
(* deleting and pruning retire an online state that is in use, and a        *)
(* rejected connection gives back a reference it never took.  So the        *)
(* monitors may only update limits, and the limits have room for every      *)
(* address.                                                                 *)
StatesStay == Ops \subseteq {"update"}
RoomForAll ==
    IsFiniteSet(IPs) /\ \A d \in DeviceLimits : d = 0 \/ Cardinality(IPs) <= d

(* One online state for all, whose counts are at least the holders.         *)
OneState ==
    /\ inboundInfo = 1 /\ nInfos = 1
    /\ \A m \in Monitors : mpc[m] \in {"idle", "updStore", "updBucket"}
    /\ \A c \in Conns : state[c] # NoConn => onlineIPs[1] = state[c]

AllAdmitted ==
    \A c \in Conns :
        /\ pc[c] # "reject"
        /\ pc[c] \in {"bucket", "slow", "live", "closeState", "closeRemove"} => c \in admitted

CountedOnce ==
    onlineIPs[1] # NoConn =>
        \A i \in IPs : refs[onlineIPs[1]][i] >= Cardinality(Holders(onlineIPs[1], i))

SlotsHeld == OneState /\ AllAdmitted /\ CountedOnce

(* With room for every address tryAdd never refuses.                        *)
LEMMA AlwaysRoom ==
  ASSUME RoomForAll, IInv, NEW c \in Conns, NEW s \in Conns
  PROVE  MayAdd(s, cip[c], limits[c].dev)
<1> SUFFICES ASSUME cip[c] \notin Devices(s), limits[c].dev # 0
             PROVE  Cardinality(Devices(s)) < limits[c].dev
  BY DEF MayAdd
<1>1. limits[c] \in UserInfo \/ limits[c] = NoLimits  BY DEF IInv, TypeOK
<1>2. limits[c].dev \in DeviceLimits  BY <1>1 DEF UserInfo, NoLimits
<1>3. cip[c] \in IPs /\ IsFiniteSet(IPs) /\ Cardinality(IPs) <= limits[c].dev
  BY <1>2 DEF RoomForAll, IInv, TypeOK
<1>4. Devices(s) \in SUBSET (IPs \ {cip[c]})  BY DEF Devices
<1>5. IsFiniteSet(IPs \ {cip[c]}) /\ Cardinality(IPs \ {cip[c]}) = Cardinality(IPs) - 1
  BY <1>3, FS_RemoveElement
<1>6. Cardinality(Devices(s)) <= Cardinality(IPs \ {cip[c]}) /\ IsFiniteSet(Devices(s))
  BY <1>4, <1>5, FS_Subset
<1>7. /\ Cardinality(Devices(s)) \in Nat /\ Cardinality(IPs) \in Nat
      /\ limits[c].dev \in Nat
  BY <1>2, <1>3, <1>6, FS_CardinalityType, LimiterAssumption
<1> QED BY <1>3, <1>5, <1>6, <1>7

(* Steps that neither count nor admit nor publish a state.                  *)
LEMMA HeldQuiet ==
  ASSUME IInv, SlotsHeld, UNCHANGED <<inboundInfo, nInfos, onlineIPs, state, admitted, refs, cip>>,
         \A m \in Monitors : mpc'[m] \in {"idle", "updStore", "updBucket"},
         AllAdmitted'
  PROVE  SlotsHeld'
<1>1. OneState'  BY DEF SlotsHeld, OneState
<1>2. CountedOnce'  BY DEF SlotsHeld, CountedOnce, Holders
<1> QED BY <1>1, <1>2 DEF SlotsHeld

LEMMA HeldStore ==
  ASSUME IInv, SlotsHeld, NEW c \in Conns, LoadOrStoreState(c)
  PROVE  SlotsHeld'
<1>1. /\ UNCHANGED <<inboundInfo, nInfos, admitted, refs, cip, mpc>>
      /\ pc[c] = "state" /\ pc' = [pc EXCEPT ![c] = "tryAdd"]
  BY DEF LoadOrStoreState, Goto, registry, monLocal
<1>2. cinfo[c] = 1 /\ 1 \in Infos /\ c # NoConn
  <2>1. cinfo[c] # 0 /\ cinfo[c] <= 1  BY <1>1 DEF IInv, Joined, SlotsHeld, OneState
  <2>2. cinfo[c] \in Nat  BY LimiterAssumption DEF IInv, TypeOK
  <2> QED BY <2>1, <2>2, LimiterAssumption DEF Infos
<1>3. AllAdmitted'  BY <1>1 DEF SlotsHeld, AllAdmitted, IInv, TypeOK
<1>4. c \notin admitted  BY <1>1 DEF IInv, Closing
<1>5. CASE onlineIPs[1] = NoConn
  <2>1. onlineIPs' = [onlineIPs EXCEPT ![1] = c] /\ state' = [state EXCEPT ![c] = c]
    BY <1>2, <1>5 DEF LoadOrStoreState
  <2>2. onlineIPs'[1] = c  BY <1>2, <2>1 DEF IInv, TypeOK
  <2>3. \A d \in Conns : state[d] = NoConn  BY <1>5 DEF SlotsHeld, OneState
  <2>4. OneState'  BY <1>1, <2>1, <2>2, <2>3 DEF SlotsHeld, OneState, IInv, TypeOK
  <2>5. \A d \in admitted : d \in Conns /\ state[d] # NoConn  BY DEF IInv, TypeOK, Closing
  <2>6. admitted = {}  BY <2>3, <2>5
  <2>7. \A i \in IPs : Holders(onlineIPs[1], i)' = {}  BY <1>1, <2>6 DEF Holders
  <2>8. CountedOnce'
    <3> SUFFICES ASSUME NEW i \in IPs PROVE refs'[c][i] >= Cardinality(Holders(onlineIPs[1], i)')
      BY <2>2 DEF CountedOnce
    <3>1. refs'[c][i] \in Nat  BY <1>1 DEF IInv, TypeOK
    <3> QED BY <2>7, <3>1, FS_EmptySet
  <2> QED BY <1>3, <2>4, <2>8 DEF SlotsHeld
<1>6. CASE onlineIPs[1] # NoConn
  <2>1. /\ onlineIPs' = [onlineIPs EXCEPT ![1] = onlineIPs[1]]
        /\ state' = [state EXCEPT ![c] = onlineIPs[1]]
    BY <1>2, <1>6 DEF LoadOrStoreState
  <2>2. onlineIPs'[1] = onlineIPs[1]  BY <1>2, <2>1 DEF IInv, TypeOK
  <2>3. OneState'  BY <1>1, <2>1, <2>2 DEF SlotsHeld, OneState, IInv, TypeOK
  <2>4. \A i \in IPs : Holders(onlineIPs[1], i)' = Holders(onlineIPs[1], i)
    BY <1>1, <1>4, <2>1, <2>2 DEF Holders, IInv, TypeOK
  <2>5. CountedOnce'  BY <1>1, <2>2, <2>4 DEF SlotsHeld, CountedOnce
  <2> QED BY <1>3, <2>3, <2>5 DEF SlotsHeld
<1> QED BY <1>5, <1>6

LEMMA HeldTryAdd ==
  ASSUME RoomForAll, IInv, SlotsHeld, NEW c \in Conns, tryAdd(c)
  PROVE  SlotsHeld'
<1> DEFINE s == state[c]
<1>1. UNCHANGED <<inboundInfo, nInfos, onlineIPs, state, cip, mpc>> /\ pc[c] = "tryAdd"
  BY DEF tryAdd, registry, maps, monLocal
<1>2. s \in Conns /\ s = onlineIPs[1] /\ s # NoConn
  BY <1>1, LimiterAssumption DEF IInv, Joined, TypeOK, SlotsHeld, OneState
<1>3. /\ refs' = [refs EXCEPT ![s][cip[c]] = refs[s][cip[c]] + 1]
      /\ admitted' = admitted \cup {c}
      /\ pc' = [pc EXCEPT ![c] = pc'[c]] /\ pc'[c] \in {"live", "bucket"}
  <2>1. MayAdd(state[c], cip[c], limits[c].dev)  BY <1>2, AlwaysRoom
  <2> QED BY <2>1 DEF tryAdd, Goto, IInv, TypeOK
<1>4. OneState'  BY <1>1 DEF SlotsHeld, OneState
<1>5. AllAdmitted'  BY <1>3 DEF SlotsHeld, AllAdmitted, IInv, TypeOK
<1>6. c \notin admitted  BY <1>1 DEF IInv, Closing
<1>7. CountedOnce'
  <2> SUFFICES ASSUME NEW i \in IPs PROVE refs'[s][i] >= Cardinality(Holders(s, i)')
    BY <1>1, <1>2 DEF CountedOnce
  <2>1. refs[s][i] >= Cardinality(Holders(s, i))  BY <1>2 DEF SlotsHeld, CountedOnce
  <2>2. refs[s][i] \in Nat /\ Cardinality(Holders(s, i)) \in Nat
    BY <1>2, HoldersFinite DEF IInv, TypeOK
  <2>3. CASE i = cip[c]
    <3>1. Holders(s, i)' = Holders(s, i) \cup {c}  BY <1>1, <1>3, <2>3 DEF Holders
    <3>2. c \notin Holders(s, i)  BY <1>6 DEF Holders
    <3>3. Cardinality(Holders(s, i)') = Cardinality(Holders(s, i)) + 1
      BY <3>1, <3>2, HoldersFinite, FS_AddElement DEF IInv
    <3>4. refs'[s][i] = refs[s][i] + 1  BY <1>2, <1>3, <2>3 DEF IInv, TypeOK
    <3> QED BY <2>1, <2>2, <3>3, <3>4
  <2>4. CASE i # cip[c]
    <3>1. Holders(s, i)' = Holders(s, i)  BY <1>1, <1>3, <2>4 DEF Holders
    <3>2. refs'[s][i] = refs[s][i]  BY <1>2, <1>3, <2>4 DEF IInv, TypeOK
    <3> QED BY <2>1, <3>1, <3>2
  <2> QED BY <2>3, <2>4
<1> QED BY <1>4, <1>5, <1>7 DEF SlotsHeld

LEMMA HeldCloseRemove ==
  ASSUME IInv, SlotsHeld, NEW c \in Conns, CloseRemove(c)
  PROVE  SlotsHeld'
<1> DEFINE s == state[c]
<1>1. /\ UNCHANGED <<inboundInfo, nInfos, onlineIPs, state, cip, mpc>> /\ pc[c] = "closeRemove"
      /\ admitted' = admitted \ {c} /\ pc' = [pc EXCEPT ![c] = "done"]
      /\ refs' = [refs EXCEPT ![closeState[c]][cip[c]] = remove(closeState[c], cip[c])]
  BY DEF CloseRemove, Goto, registry, maps, monLocal
<1>2. c \in admitted  BY <1>1 DEF SlotsHeld, AllAdmitted
<1>3. s # NoConn /\ s \in Conns /\ s = onlineIPs[1] /\ s = Current
  BY <1>2 DEF IInv, Closing, TypeOK, SlotsHeld, OneState, Current
<1>4. closeState[c] = s  BY <1>1, <1>2, <1>3 DEF IInv, Closing
<1>5. OneState'  BY <1>1 DEF SlotsHeld, OneState
<1>6. AllAdmitted'  BY <1>1 DEF SlotsHeld, AllAdmitted, IInv, TypeOK
<1>7. CountedOnce'
  <2> SUFFICES ASSUME NEW i \in IPs PROVE refs'[s][i] >= Cardinality(Holders(s, i)')
    BY <1>1, <1>3 DEF CountedOnce
  <2>1. refs[s][i] >= Cardinality(Holders(s, i))  BY <1>3 DEF SlotsHeld, CountedOnce
  <2>2. refs[s][i] \in Nat /\ Cardinality(Holders(s, i)) \in Nat
    BY <1>3, HoldersFinite DEF IInv, TypeOK
  <2>3. CASE i = cip[c]
    <3>1. Holders(s, i)' = Holders(s, i) \ {c} /\ c \in Holders(s, i)
      BY <1>1, <1>2, <2>3 DEF Holders
    <3>2. Cardinality(Holders(s, i)') = Cardinality(Holders(s, i)) - 1
      BY <3>1, HoldersFinite, FS_RemoveElement DEF IInv
    <3>3. Cardinality(Holders(s, i)) # 0  BY <3>1, HoldersFinite, FS_EmptySet DEF IInv
    <3>4. refs'[s][i] = remove(s, i)  BY <1>1, <1>3, <1>4, <2>3 DEF IInv, TypeOK
    <3>5. remove(s, i) = refs[s][i] - 1  BY <2>1, <2>2, <3>3 DEF remove
    <3> QED BY <2>1, <2>2, <3>2, <3>4, <3>5
  <2>4. CASE i # cip[c]
    <3>1. Holders(s, i)' = Holders(s, i)  BY <1>1, <2>4 DEF Holders
    <3>2. refs'[s][i] = refs[s][i]  BY <1>1, <1>3, <1>4, <2>4 DEF IInv, TypeOK
    <3> QED BY <2>1, <3>1, <3>2
  <2> QED BY <2>3, <2>4
<1> QED BY <1>5, <1>6, <1>7 DEF SlotsHeld

(* A close looks up the tag and the state, and finds both.                  *)
LEMMA HeldCloseLookup ==
  ASSUME IInv, SlotsHeld, NEW c \in Conns, Close(c) \/ CloseLoadState(c)
  PROVE  SlotsHeld'
<1>1. UNCHANGED <<inboundInfo, nInfos, onlineIPs, state, refs, cip, mpc>>
  BY DEF Close, CloseLoadState, registry, maps, monLocal
<1>2. /\ c \in admitted /\ admitted' = admitted
      /\ pc' = [pc EXCEPT ![c] = pc'[c]] /\ pc'[c] \in {"closeState", "closeRemove"}
  <2>1. CASE Close(c)
    BY <2>1 DEF Close, Goto, SlotsHeld, OneState, AllAdmitted, IInv, TypeOK
  <2>2. CASE CloseLoadState(c)
    <3>1. c \in admitted /\ pc[c] = "closeState"
      BY <2>2 DEF CloseLoadState, SlotsHeld, AllAdmitted
    <3>2. state[c] # NoConn /\ closeInfo[c] # 0 /\ closeInfo[c] <= 1
      BY <3>1 DEF IInv, Closing, CloseReads, SlotsHeld, OneState
    <3>3. closeInfo[c] \in Nat  BY LimiterAssumption DEF IInv, TypeOK
    <3>4. closeInfo[c] = 1  BY <3>2, <3>3
    <3>5. onlineIPs[closeInfo[c]] # NoConn  BY <3>2, <3>4 DEF SlotsHeld, OneState
    <3> QED BY <2>2, <3>1, <3>5 DEF CloseLoadState, Goto, IInv, TypeOK
  <2> QED BY <2>1, <2>2
<1>3. AllAdmitted'  BY <1>2 DEF SlotsHeld, AllAdmitted, IInv, TypeOK
<1> QED BY <1>1, <1>2, <1>3, HeldQuiet DEF SlotsHeld, OneState

LEMMA NextSlotsHeld ==
  ASSUME StatesStay, RoomForAll
  PROVE  IInv /\ SlotsHeld /\ [Next]_vars => SlotsHeld'
<1> SUFFICES ASSUME IInv, SlotsHeld, [Next]_vars PROVE SlotsHeld'  OBVIOUS
<1>1. ASSUME NEW c \in Conns,
             \/ TrackConnection(c) \/ LoadInbound(c) \/ LoadUserInfo(c)
             \/ LoadBucket(c) \/ LoadOrStoreBucket(c)
      PROVE  SlotsHeld'
  <2>1. UNCHANGED <<inboundInfo, nInfos, onlineIPs, state, admitted, refs, cip, mpc>>
    BY <1>1 DEF TrackConnection, LoadInbound, LoadUserInfo, LoadBucket, LoadOrStoreBucket,
       registry, maps, monLocal
  <2>2. /\ pc' = [pc EXCEPT ![c] = pc'[c]] /\ pc'[c] # "reject"
        /\ \/ pc'[c] \in {"load", "user", "state"}
           \/ pc[c] \in {"bucket", "slow"} /\ pc'[c] \in {"slow", "live"}
    BY <1>1 DEF TrackConnection, LoadInbound, LoadUserInfo, LoadBucket, LoadOrStoreBucket,
       Goto, IInv, TypeOK, SlotsHeld, OneState
  <2>3. AllAdmitted'  BY <2>1, <2>2 DEF SlotsHeld, AllAdmitted, IInv, TypeOK
  <2> QED BY <2>1, <2>3, HeldQuiet DEF SlotsHeld, OneState
<1>2. ASSUME NEW c \in Conns, ConnStep(c) PROVE SlotsHeld'
  BY <1>1, <1>2, HeldStore, HeldTryAdd, HeldCloseLookup, HeldCloseRemove DEF ConnStep
<1>3. ASSUME NEW m \in Monitors, MonitorStep(m) PROVE SlotsHeld'
  <2>1. mpc[m] \in {"idle", "updStore", "updBucket"}  BY DEF SlotsHeld, OneState
  <2>2. \/ \E u \in UserInfo : UpdateInboundLimiter(m, u)
        \/ UpdateStoreUser(m) \/ UpdateDeleteBucket(m)
    <3>2. ~DeleteUserInfo(m) /\ ~DeleteUserBucket(m) /\ ~DeleteUserOnline(m)
      BY <2>1 DEF DeleteUserInfo, DeleteUserBucket, DeleteUserOnline
    <3>3. ~PruneRange(m) /\ ~PruneCheck(m) /\ ~PruneBucket(m) /\ ~PruneOnline(m)
      BY <2>1 DEF PruneRange, PruneCheck, PruneBucket, PruneOnline
    <3>4. \A op \in {"add", "delInbound", "delUser", "prune"} : ~Begin(m, op)
      BY DEF Begin, StatesStay
    <3>5. /\ \A u \in UserInfo, r \in Rates : ~AddInboundLimiter(m, u, r)
          /\ ~DeleteInboundLimiter(m)
      BY <3>4 DEF AddInboundLimiter, DeleteInboundLimiter
    <3>6. ~DeleteUsersFromLimiter(m) /\ ~PruneStaleEntries(m)
      BY <3>4 DEF DeleteUsersFromLimiter, PruneStaleEntries, BeginOnInfo
    <3> QED BY <1>3, <3>2, <3>3, <3>5, <3>6 DEF MonitorStep
  <2>3. /\ UNCHANGED <<inboundInfo, nInfos, onlineIPs, connLocal, refs>>
        /\ \E label \in {"idle", "updStore", "updBucket"} : mpc' = [mpc EXCEPT ![m] = label]
    BY <2>2 DEF UpdateInboundLimiter, UpdateStoreUser, UpdateDeleteBucket, BeginOnInfo, Busy,
       registry, maps
  <2>4. \A n \in Monitors : mpc'[n] \in {"idle", "updStore", "updBucket"}
    BY <2>3 DEF SlotsHeld, OneState, IInv, TypeOK
  <2>5. UNCHANGED <<pc, admitted, state, cip>>  BY <2>3 DEF connLocal
  <2>6. AllAdmitted'  BY <2>5 DEF SlotsHeld, AllAdmitted
  <2> QED BY <2>3, <2>4, <2>5, <2>6, HeldQuiet
<1>4. CASE UNCHANGED vars
  <2>1. UNCHANGED <<inboundInfo, nInfos, onlineIPs, state, admitted, refs, cip, mpc, pc>>
    BY <1>4 DEF vars, registry, maps, connLocal, monLocal
  <2>2. AllAdmitted'  BY <2>1 DEF SlotsHeld, AllAdmitted
  <2> QED BY <2>1, <2>2, HeldQuiet DEF SlotsHeld, OneState
<1> QED BY <1>2, <1>3, <1>4 DEF Next

(* An address keeps its device slot until the last of its connections       *)
(* closes, for any number of connections and addresses and while the panel  *)
(* changes limits: the counts of tryAdd and remove pair up (limiter.go:25). *)
(* Both hypotheses are needed: other operations retire a state in use, and  *)
(* a rejected connection releases a reference that is not its own.          *)
THEOREM SlotLastsAsLongAsUsed ==
    StatesStay /\ RoomForAll => (Spec => []SlotKeptWhileLive)
<1> SUFFICES ASSUME StatesStay, RoomForAll PROVE Spec => []SlotKeptWhileLive  OBVIOUS
<1>1. Init => SlotsHeld
  <2> SUFFICES ASSUME Init PROVE SlotsHeld  OBVIOUS
  <2>1. OneState /\ AllAdmitted  BY DEF Init, OneState, AllAdmitted
  <2>2. 1 \in Infos  BY LimiterAssumption DEF Infos
  <2>3. onlineIPs[1] = NoConn  BY <2>2 DEF Init
  <2> QED BY <2>1, <2>3 DEF SlotsHeld, CountedOnce
<1>2. IInv /\ SlotsHeld => SlotKeptWhileLive
  <2> SUFFICES ASSUME IInv, SlotsHeld, NEW c \in Conns, Live(c)
               PROVE  Current # NoConn /\ refs[Current][cip[c]] > 0
    BY DEF SlotKeptWhileLive
  <2>1. c \in admitted /\ state[c] # NoConn  BY DEF Live, IInv, Closing
  <2>2. state[c] = onlineIPs[1] /\ Current = state[c] /\ state[c] \in Conns /\ cip[c] \in IPs
    BY <2>1 DEF SlotsHeld, OneState, Current, IInv, TypeOK
  <2>3. c \in Holders(Current, cip[c])  BY <2>1, <2>2 DEF Holders
  <2>4. /\ Cardinality(Holders(Current, cip[c])) \in Nat
        /\ Cardinality(Holders(Current, cip[c])) # 0
    BY <2>3, HoldersFinite, FS_EmptySet DEF IInv
  <2>5. refs[Current][cip[c]] >= Cardinality(Holders(Current, cip[c]))
    BY <2>1, <2>2 DEF SlotsHeld, CountedOnce
  <2>6. refs[Current][cip[c]] \in Nat  BY <2>2 DEF IInv, TypeOK
  <2> QED BY <2>1, <2>2, <2>4, <2>5, <2>6
<1>3. IInv /\ SlotsHeld /\ [Next]_vars => SlotsHeld'  BY NextSlotsHeld
<1> QED BY <1>1, <1>2, <1>3, InitIInv, NextIInv, PTL DEF Spec

=============================================================================
