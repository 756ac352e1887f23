-------------------------- MODULE ControllerProofs --------------------------
(***************************************************************************)
(* Proofs about Controller, for any nodes, tags, users, cycles and kicks:  *)
(* the type invariant; that neither a cycle nor a failed start leaves      *)
(* entries behind; that between cycles the published node serves; that a   *)
(* cycle settles and that a change of the tag interrupts nobody.           *)
(*                                                                         *)
(* The monitor's work is spread over many steps, so each property holds    *)
(* between cycles only because of what each step may assume of the ones    *)
(* before it: Stage says which node is being worked on, Shape, Owned, Up   *)
(* and Limited what the core and the limiter hold meanwhile.               *)
(***************************************************************************)
EXTENDS Controller, TLAPS

(* TypeOK in parts.                                                         *)
CoreType ==
    /\ handler \in [Tags -> Nodes \cup {None}]
    /\ listening \in SUBSET Tags
    /\ outbound \in SUBSET Tags
    /\ table \in [Tags -> Lists]

PublishedType ==
    /\ node \in Nodes
    /\ userList \in Lists

MonitorType ==
    /\ npc \in {"idle", "compare", "removeOld", "inbound", "outbound", "users", "limiter",
                "dropOld", "rules", "diff", "remove", "limDel", "publish", "failed"}
    /\ mode \in {"start", "switch", "replace", "restore", "diff"}
    /\ cur \in Nodes /\ new \in Nodes
    /\ oldUsers \in Lists /\ newUsers \in Lists
    /\ todo \in SUBSET UIDs

LimiterType ==
    /\ limiter \in [Tags -> (SUBSET UIDs) \cup {None}]
    /\ rules \in SUBSET Tags

KickType ==
    /\ kpc \in {"idle", "read", "apply", "remove", "limiter", "publish"}
    /\ ktag \in Tags
    /\ kuids \in SUBSET UIDs
    /\ kusers \in Lists
    /\ ktodo \in SUBSET UIDs

CountType ==
    /\ faults \in 0 .. MaxFaults
    /\ cycles \in 0 .. MaxCycles
    /\ kicks \in 0 .. MaxKicks

FlagType == closed \in BOOLEAN /\ dirty \in BOOLEAN

-----------------------------------------------------------------------------
(* addNewTag and addNewUser are under way.                                  *)
Building == npc \in {"inbound", "outbound", "users", "limiter"}

(* A switch has published the new tag and not yet removed the old one.      *)
Switching == mode = "switch" /\ (Building \/ npc = "dropOld")

(* Which steps belong to which mode, and which node each works on.          *)
Stage ==
    /\ mode = "start" => npc \in {"inbound", "outbound", "users", "limiter", "rules",
                                  "idle", "compare", "failed"}
    /\ mode = "restore" => npc \in {"inbound", "outbound", "users", "limiter", "idle",
                                    "compare"}
    /\ mode = "diff" => npc \in {"users", "limiter", "rules", "diff", "remove", "limDel",
                                 "publish", "idle", "compare"}
    /\ npc = "failed" => mode = "start"
    /\ npc = "dropOld" => mode = "switch"
    /\ npc \in {"diff", "remove", "limDel"} => mode = "diff"
    /\ npc = "removeOld" => mode = "replace" /\ node = cur
    /\ npc \in {"inbound", "outbound", "users", "limiter"} => node = Target
    /\ npc \in {"dropOld", "rules", "diff", "remove", "limDel", "publish"} => node = new
    /\ npc \notin {"idle", "compare"} =>
          /\ mode = "switch" => TagOf[new] # TagOf[cur]
          /\ mode \in {"replace", "restore"} => new # cur /\ TagOf[new] = TagOf[cur]

(* A handler listens, serves its own tag and, except between addInbound and *)
(* addOutbound, comes with an outbound.                                     *)
Shape ==
    /\ \A t \in Tags :
          /\ t \in outbound => handler[t] # None
          /\ handler[t] # None =>
                /\ t \in listening
                /\ t \in outbound \/ (npc = "outbound" /\ t = Tag)
    /\ npc = "outbound" => handler[Tag] # None /\ Tag \notin outbound

(* Only the published tag has entries, and during a switch the old one; a   *)
(* tag that is being built has none until its step adds them.               *)
Owned ==
    /\ \A t \in Tags \ {Tag} :
          handler[t] # None \/ limiter[t] # None \/ t \in rules =>
              Switching /\ t = TagOf[cur]
    /\ npc \in {"inbound", "failed"} => handler[Tag] = None
    /\ (mode \in {"start", "switch"} /\ Building) \/ npc = "failed" =>
          limiter[Tag] = None /\ Tag \notin rules

EntriesInv == TypeOK /\ Stage /\ Shape /\ Owned

(* The published node is up except while it is being built, and a switch    *)
(* keeps the old one up.  The restore of a failed replacement meets no      *)
(* fault, for it took the one of this cycle to get there.                   *)
Up ==
    /\ npc \notin {"inbound", "failed"} => handler[Tag] = node
    /\ Switching => handler[TagOf[cur]] = cur
    /\ mode = "restore" /\ npc = "inbound" => ~(faults < MaxFaults)

(* The users of a new VLESS inbound are not there before they are added.    *)
FreshTable ==
    node \notin AnyTLS =>
        /\ npc = "outbound" => table[Tag] = NoUser
        /\ npc = "users" /\ mode # "diff" => \A u \in todo : table[Tag][u] = None

(* The tag that serves is limited, except in Start and after Close.         *)
LimitsOn ==
    /\ ~Switching /\ npc # "failed" /\ ~(mode = "start" /\ Building) => limiter[Tag] # None
    /\ Switching => limiter[TagOf[cur]] # None
    /\ npc = "dropOld" => limiter[Tag] # None

Limited == ~closed => LimitsOn

ServingInv == EntriesInv /\ Up /\ FreshTable /\ Limited

-----------------------------------------------------------------------------
(* With one node per tag nothing is ever replaced, and the tag that serves  *)
(* stays up whatever fails.                                                 *)
Stands(t) == handler[t] # None /\ t \in listening \cap outbound

Standing ==
    /\ mode \notin {"replace", "restore"}
    /\ ~Switching /\ npc # "failed" /\ ~(mode = "start" /\ Building) => Stands(Tag)
    /\ Switching => Stands(TagOf[cur])
    /\ npc = "outbound" => handler[Tag] # None /\ Tag \in listening
    /\ npc \in {"users", "limiter", "dropOld"} => Stands(Tag)

(* A cycle that no kick disturbed saw the kick at rest.                     *)
KickSeen ==
    /\ kicks = 0 => ~dirty
    /\ ~dirty => kpc = "idle"

(* addNewUser has done its work and the list is not published yet.          *)
UsersSet == npc \in {"limiter", "dropOld", "publish"} \/ (npc = "rules" /\ mode # "diff")

(* As long as nobody was kicked: what the table of the serving tag holds at *)
(* each step of a cycle, on the way from the published list to the fetched. *)
Following ==
    /\ Switching => table[TagOf[cur]] = userList
    /\ npc \in {"idle", "compare", "diff"} \/ (npc = "rules" /\ mode = "diff") =>
          table[Tag] = userList
    /\ npc = "rules" /\ mode = "start" => userList = newUsers
    /\ npc \in {"remove", "limDel"} \/ (npc = "users" /\ mode = "diff") =>
          oldUsers = userList
    /\ node \in AnyTLS /\ (npc = "limDel" \/ (npc = "users" /\ mode = "diff")) =>
          table[Tag] = userList
    /\ npc = "remove" =>
          /\ node \notin AnyTLS
          /\ todo \subseteq Deleted(oldUsers, newUsers)
          /\ \A u \in UIDs : table[Tag][u] =
                IF u \in Deleted(oldUsers, newUsers) \ todo THEN None ELSE oldUsers[u]
    /\ npc = "limDel" /\ node \notin AnyTLS =>
          \A u \in UIDs : table[Tag][u] =
              IF u \in Added(oldUsers, newUsers) THEN None ELSE newUsers[u]
    /\ npc = "outbound" /\ node \notin AnyTLS => table[Tag] = NoUser
    /\ npc = "users" /\ node \notin AnyTLS =>
          \A u \in UIDs : table[Tag][u] = IF u \in todo THEN None ELSE newUsers[u]
    /\ npc = "users" /\ mode = "diff" => todo \subseteq Added(oldUsers, newUsers)

TableFollows == kicks = 0 => Following

(* The fetched users are on the inbound once addNewUser is done: always for *)
(* AnyTLS in a cycle no kick disturbed, for VLESS as long as nobody was     *)
(* kicked; and they have their limits until Close.                          *)
TableSettled ==
    /\ UsersSet /\ (kicks = 0 \/ (node \in AnyTLS /\ ~dirty)) => table[Tag] = newUsers
    /\ npc = "idle" /\ node = new /\ node \in AnyTLS /\ ~dirty => table[Tag] = newUsers

LimitsSettled ==
    ~dirty /\ ~closed /\ ((UsersSet /\ npc # "limiter") \/ (npc = "idle" /\ node = new)) =>
        Listed(newUsers) \subseteq limiter[Tag]

SyncInv ==
    TypeOK /\ Stage /\ Limited /\ Standing /\ KickSeen /\ TableFollows /\ TableSettled
           /\ LimitsSettled
-----------------------------------------------------------------------------
(* Type correctness.                                                        *)
LEMMA TypeParts ==
  TypeOK <=> /\ CoreType /\ PublishedType /\ MonitorType /\ LimiterType /\ KickType
             /\ CountType /\ FlagType
BY Zenon DEF TypeOK, CoreType, PublishedType, MonitorType, LimiterType, KickType,
             CountType, FlagType

LEMMA NoUserType == NoUser \in Lists
BY DEF NoUser, Lists

LEMMA ListedType == \A list : Listed(list) \in SUBSET UIDs
BY DEF Listed

LEMMA FaultType ==
  ASSUME CountType, NEW f, Fault(f)
  PROVE  faults' \in 0 .. MaxFaults
BY ControllerAssumption DEF CountType, Fault

LEMMA AddHandlerType ==
  ASSUME CoreType, NEW t \in Tags, NEW n \in Nodes, NEW b, AddHandler(t, n, b)
  PROVE  CoreType'
<1>1. handler' \in [Tags -> Nodes \cup {None}]  BY DEF CoreType, AddHandler
<1>2. listening' \in SUBSET Tags  BY DEF CoreType, AddHandler
<1>3. table' \in [Tags -> Lists]  BY NoUserType DEF CoreType, AddHandler
<1> QED BY <1>1, <1>2, <1>3 DEF CoreType, AddHandler

LEMMA RemoveOldTagType ==
  ASSUME CoreType, NEW t \in Tags, removeOldTag(t)
  PROVE  CoreType'
<1>1. CASE handler[t] = None  BY <1>1 DEF CoreType, removeOldTag, core
<1>2. CASE handler[t] # None
  <2>1. handler' \in [Tags -> Nodes \cup {None}]  BY <1>2 DEF CoreType, removeOldTag
  <2>2. listening' \in SUBSET Tags /\ outbound' \in SUBSET Tags
    BY <1>2 DEF CoreType, removeOldTag
  <2>3. table' \in [Tags -> Lists]  BY <1>2, NoUserType DEF CoreType, removeOldTag
  <2> QED BY <2>1, <2>2, <2>3 DEF CoreType
<1> QED BY <1>1, <1>2

LEMMA TagFailedType ==
  ASSUME MonitorType, PublishedType, TagFailed
  PROVE  /\ node' \in Nodes
         /\ npc' \in {"failed", "idle", "inbound"}
         /\ mode' \in {"start", "switch", "restore"}
BY DEF MonitorType, PublishedType, TagFailed

LEMMA TargetType ==
  ASSUME MonitorType
  PROVE  Target \in Nodes /\ TargetUsers \in Lists
BY DEF MonitorType, Target, TargetUsers

LEMMA TagType == \A n \in Nodes : TagOf[n] \in Tags
BY ControllerAssumption

LEMMA TableEntryType ==
  ASSUME CoreType, NEW t \in Tags, NEW u \in UIDs, NEW x \in UUIDs \cup {None},
         table' = [table EXCEPT ![t][u] = x]
  PROVE  table' \in [Tags -> Lists]
<1>1. table[t] \in Lists  BY DEF CoreType
<1>2. [table[t] EXCEPT ![u] = x] \in Lists  BY <1>1 DEF Lists
<1> DEFINE row == [table[t] EXCEPT ![u] = x]
<1>3. table' = [table EXCEPT ![t] = row]  OBVIOUS
<1>4. row \in Lists  BY <1>2
<1> HIDE DEF row
<1> QED BY <1>3, <1>4 DEF CoreType

LEMMA InitType == Init => TypeOK
<1> SUFFICES ASSUME Init PROVE TypeOK  OBVIOUS
<1>1. CoreType  BY NoUserType DEF Init, CoreType
<1>2. PublishedType  BY NoUserType DEF Init, PublishedType
<1>3. MonitorType  BY NoUserType DEF Init, MonitorType
<1>4. LimiterType  BY DEF Init, LimiterType
<1>5. KickType  BY NoUserType, TagType DEF Init, KickType
<1>6. CountType  BY ControllerAssumption DEF Init, CountType
<1>7. FlagType  BY Zenon DEF Init, FlagType
<1> QED BY <1>1, <1>2, <1>3, <1>4, <1>5, <1>6, <1>7, TypeParts

LEMMA NextType == TypeOK /\ [Next]_vars => TypeOK'
<1> SUFFICES ASSUME TypeOK, [Next]_vars PROVE TypeOK'  OBVIOUS
<1>a. /\ CoreType /\ PublishedType /\ MonitorType /\ LimiterType /\ KickType
      /\ CountType /\ FlagType
  BY TypeParts
<1>b. ASSUME CoreType', PublishedType', MonitorType', LimiterType', KickType', CountType',
             FlagType'
      PROVE  TypeOK'
  BY <1>b, Zenon DEF TypeOK, CoreType, PublishedType, MonitorType, LimiterType, KickType,
                     CountType, FlagType
<1>c. UNCHANGED core => CoreType'  BY <1>a DEF core, CoreType
<1>p. UNCHANGED <<node, userList>> => PublishedType'  BY <1>a DEF PublishedType
<1>m. UNCHANGED <<npc, mode, monLocal, todo>> => MonitorType'
  BY <1>a DEF MonitorType, monLocal
<1>l. UNCHANGED <<limiter, rules>> => LimiterType'  BY <1>a DEF LimiterType
<1>k. UNCHANGED kickLocal => KickType'  BY <1>a DEF KickType, kickLocal
<1>n. UNCHANGED <<faults, cycles, kicks>> => CountType'  BY <1>a DEF CountType
<1>f. UNCHANGED <<closed, dirty>> => FlagType'  BY <1>a, Zenon DEF FlagType
<1>t. Target \in Nodes /\ TargetUsers \in Lists /\ TagOf[Target] \in Tags /\ Tag \in Tags
  BY <1>a, TargetType, TagType DEF PublishedType, Tag
<1>1. CASE addInbound
  <2>1. CoreType'  BY <1>a, <1>c, <1>t, <1>1, AddHandlerType DEF addInbound
  <2>2. CountType'
    BY <1>a, <1>1, FaultType DEF addInbound, CountType, counts
  <2>3. node' \in Nodes /\ MonitorType'
    <3>1. CASE UNCHANGED <<node, mode>> /\ npc' = "outbound"
      BY <1>a, <1>1, <3>1 DEF addInbound, MonitorType, PublishedType, monLocal
    <3>2. CASE TagFailed
      BY <1>a, <1>1, <3>2, TagFailedType DEF addInbound, MonitorType, monLocal
    <3> QED BY <1>1, <3>1, <3>2 DEF addInbound
  <2>4. PublishedType'  BY <1>a, <1>1, <2>3 DEF addInbound, PublishedType
  <2> QED BY <1>b, <1>l, <1>k, <1>f, <1>1, <2>1, <2>2, <2>3, <2>4 DEF addInbound, counts
<1>2. CASE addOutbound
  <2>1. CoreType'  BY <1>a, <1>t, <1>2 DEF addOutbound, CoreType
  <2>2. CountType'
    BY <1>a, <1>2, FaultType DEF addOutbound, CountType, counts
  <2>3. node' \in Nodes /\ MonitorType'
    <3>1. CASE /\ UNCHANGED <<node, mode>> /\ todo' = Listed(TargetUsers)
               /\ npc' \in {"idle", "users"}
      BY <1>a, <1>2, <3>1, ListedType DEF addOutbound, MonitorType, PublishedType, monLocal
    <3>2. CASE TagFailed /\ UNCHANGED todo
      BY <1>a, <1>2, <3>2, TagFailedType DEF addOutbound, MonitorType, monLocal
    <3> QED BY <1>2, <3>1, <3>2 DEF addOutbound
  <2>4. PublishedType'  BY <1>a, <1>2, <2>3 DEF addOutbound, PublishedType
  <2> QED BY <1>b, <1>l, <1>k, <1>f, <1>2, <2>1, <2>2, <2>3, <2>4 DEF addOutbound, counts
<1>3. CASE AddUsersFails
  <2>1. UsersFailed  BY <1>3 DEF AddUsersFails
  <2>2. CoreType'
    BY <1>a, <1>c, <1>t, <2>1, RemoveOldTagType, TagType DEF UsersFailed, MonitorType
  <2>3. LimiterType'  BY <1>a, <2>1 DEF UsersFailed, LimiterType
  <2>4. CountType'
    BY <1>a, <1>3, FaultType DEF AddUsersFails, CountType, counts
  <2>5. node' \in Nodes /\ npc' \in {"failed", "idle", "inbound", "limiter"}
                        /\ mode' \in {mode, "restore"}
    BY <1>a, <2>1 DEF UsersFailed, MonitorType, PublishedType
  <2>6. PublishedType' /\ MonitorType'
    BY <1>a, <1>3, <2>5 DEF AddUsersFails, PublishedType, MonitorType, monLocal
  <2> QED BY <1>b, <1>k, <1>f, <1>3, <2>2, <2>3, <2>4, <2>6 DEF AddUsersFails, counts
<1>4. ASSUME NEW u \in UIDs, AddUser(u) PROVE TypeOK'
  <2>1. TargetUsers[u] \in UUIDs \cup {None}  BY <1>t DEF Lists
  <2>2. table' \in [Tags -> Lists]
    BY <1>a, <1>t, <1>4, <2>1, TableEntryType DEF AddUser
  <2>3. CoreType'  BY <1>a, <1>4, <2>2 DEF AddUser, CoreType
  <2>4. MonitorType'  BY <1>a, <1>4 DEF AddUser, MonitorType, monLocal
  <2> QED BY <1>b, <1>p, <1>l, <1>k, <1>n, <1>f, <1>4, <2>3, <2>4
          DEF AddUser, counts, published
<1>5. ASSUME NEW u \in UIDs, RemoveUser(u) PROVE TypeOK'
  <2>1. table' \in [Tags -> Lists]
    <3>1. CASE table' = [table EXCEPT ![Tag][u] = None]
      <4>1. None \in UUIDs \cup {None}  OBVIOUS
      <4> QED BY <1>a, <1>t, <3>1, <4>1, TableEntryType
    <3>2. CASE UNCHANGED table  BY <1>a, <3>2 DEF CoreType
    <3> QED BY <1>5, <3>1, <3>2 DEF RemoveUser
  <2>2. CoreType'  BY <1>a, <1>5, <2>1 DEF RemoveUser, CoreType
  <2>3. MonitorType'  BY <1>a, <1>5 DEF RemoveUser, MonitorType, monLocal
  <2> QED BY <1>b, <1>p, <1>l, <1>k, <1>n, <1>f, <1>5, <2>2, <2>3
          DEF RemoveUser, counts, published
<1>6. CASE AddUsersDone
  <2>1. MonitorType'  BY <1>a, <1>6 DEF AddUsersDone, MonitorType, monLocal
  <2> QED BY <1>b, <1>c, <1>p, <1>l, <1>k, <1>n, <1>f, <1>6, <2>1
          DEF AddUsersDone, counts, published
<1>7. CASE UpdateAnyTLSUsers
  <2>1. CoreType'  BY <1>a, <1>t, <1>7 DEF UpdateAnyTLSUsers, CoreType
  <2>2. MonitorType'  BY <1>a, <1>7 DEF UpdateAnyTLSUsers, MonitorType, monLocal
  <2> QED BY <1>b, <1>p, <1>l, <1>k, <1>n, <1>f, <1>7, <2>1, <2>2
          DEF UpdateAnyTLSUsers, counts, published
<1>8. CASE SetLimits
  <2>1. UpdatedLimits(Tag) \in (SUBSET UIDs) \cup {None}
    BY <1>a, <1>t, ListedType DEF UpdatedLimits, LimiterType
  <2>2. LimiterType'  BY <1>a, <1>t, <1>8, <2>1 DEF SetLimits, LimiterType
  <2>3. PublishedType'  BY <1>a, <1>8 DEF SetLimits, PublishedType, MonitorType
  <2>4. MonitorType'  BY <1>a, <1>8 DEF SetLimits, MonitorType, monLocal
  <2> QED BY <1>b, <1>c, <1>k, <1>n, <1>f, <1>8, <2>2, <2>3, <2>4 DEF SetLimits, counts
<1>9. CASE DropOld
  <2>1. TagOf[cur] \in Tags  BY <1>a, TagType DEF MonitorType
  <2>2. CoreType'  BY <1>a, <1>9, <2>1, RemoveOldTagType DEF DropOld
  <2>3. LimiterType'  BY <1>a, <1>9, <2>1 DEF DropOld, LimiterType
  <2>4. MonitorType'  BY <1>a, <1>9 DEF DropOld, MonitorType, monLocal
  <2> QED BY <1>b, <1>p, <1>k, <1>n, <1>f, <1>9, <2>2, <2>3, <2>4
          DEF DropOld, counts, published
<1>10. CASE UpdateRule
  <2>1. LimiterType'  BY <1>a, <1>t, <1>10 DEF UpdateRule, LimiterType
  <2>2. MonitorType'  BY <1>a, <1>10 DEF UpdateRule, MonitorType, monLocal
  <2> QED BY <1>b, <1>c, <1>p, <1>k, <1>n, <1>f, <1>10, <2>1, <2>2
          DEF UpdateRule, counts, published
<1>11. ASSUME NEW n \in Nodes, NEW list \in Lists, Fetch(n, list) PROVE TypeOK'
  <2>1. MonitorType'  BY <1>a, <1>11 DEF Fetch, MonitorType
  <2>2. CountType'  BY <1>a, <1>11, ControllerAssumption DEF Fetch, CountType
  <2>3. FlagType'  BY <1>a, <1>11, Zenon DEF Fetch, FlagType, published
  <2> QED BY <1>b, <1>c, <1>p, <1>l, <1>k, <1>11, <2>1, <2>2, <2>3 DEF Fetch, published
<1>12. CASE Compare
  <2>1. MonitorType'  BY <1>a, <1>12 DEF Compare, MonitorType, PublishedType
  <2>2. PublishedType'  BY <1>a, <1>12 DEF Compare, MonitorType, PublishedType
  <2> QED BY <1>b, <1>c, <1>l, <1>k, <1>n, <1>f, <1>12, <2>1, <2>2 DEF Compare, counts
<1>13. CASE RemoveForReplace
  <2>1. TagOf[cur] \in Tags  BY <1>a, TagType DEF MonitorType
  <2>2. CoreType'  BY <1>a, <1>13, <2>1, RemoveOldTagType DEF RemoveForReplace
  <2>3. MonitorType'  BY <1>a, <1>13 DEF RemoveForReplace, MonitorType, monLocal
  <2>4. PublishedType'  BY <1>a, <1>13 DEF RemoveForReplace, MonitorType, PublishedType
  <2> QED BY <1>b, <1>l, <1>k, <1>n, <1>f, <1>13, <2>2, <2>3, <2>4
          DEF RemoveForReplace, counts
<1>14. CASE Diff
  <2>1. Deleted(userList, newUsers) \in SUBSET UIDs  BY DEF Deleted, Listed
  <2>2. MonitorType'  BY <1>a, <1>14, <2>1 DEF Diff, MonitorType, PublishedType
  <2> QED BY <1>b, <1>c, <1>p, <1>l, <1>k, <1>n, <1>f, <1>14, <2>2
          DEF Diff, counts, published
<1>15. CASE RemoveUsersDone
  <2>1. MonitorType'  BY <1>a, <1>15 DEF RemoveUsersDone, MonitorType, monLocal
  <2> QED BY <1>b, <1>c, <1>p, <1>l, <1>k, <1>n, <1>f, <1>15, <2>1
          DEF RemoveUsersDone, counts, published
<1>16. CASE PurgeDeleted
  <2>1. Added(oldUsers, newUsers) \in SUBSET UIDs  BY DEF Added, Listed
  <2>2. MonitorType'  BY <1>a, <1>16, <2>1 DEF PurgeDeleted, MonitorType, monLocal
  <2>3. Purged(Tag, Deleted(oldUsers, newUsers)) \in (SUBSET UIDs) \cup {None}
    BY <1>a, <1>t DEF Purged, LimiterType
  <2>4. LimiterType'  BY <1>a, <1>t, <1>16, <2>3 DEF PurgeDeleted, LimiterType
  <2> QED BY <1>b, <1>c, <1>p, <1>k, <1>n, <1>f, <1>16, <2>2, <2>4
          DEF PurgeDeleted, counts, published
<1>17. CASE Publish
  <2>1. MonitorType'  BY <1>a, <1>17 DEF Publish, MonitorType, monLocal
  <2>2. PublishedType'  BY <1>a, <1>17 DEF Publish, MonitorType, PublishedType
  <2> QED BY <1>b, <1>c, <1>l, <1>k, <1>n, <1>f, <1>17, <2>1, <2>2 DEF Publish, counts
<1>18. ASSUME NEW uids \in SUBSET UIDs, KickBegin(uids) PROVE TypeOK'
  <2>1. KickType'  BY <1>a, <1>t, <1>18 DEF KickBegin, KickType
  <2>2. CountType'  BY <1>a, <1>18, ControllerAssumption DEF KickBegin, CountType
  <2>3. FlagType'  BY <1>a, <1>18, Zenon DEF KickBegin, FlagType, published
  <2> QED BY <1>b, <1>c, <1>p, <1>m, <1>l, <1>18, <2>1, <2>2, <2>3 DEF KickBegin, published
<1>19. CASE KickRead
  <2>1. KickType'  BY <1>a, <1>19, ListedType DEF KickRead, KickType, PublishedType
  <2> QED BY <1>b, <1>c, <1>p, <1>m, <1>l, <1>n, <1>f, <1>19, <2>1
          DEF KickRead, counts, published
<1>e. Kept \in Lists  BY <1>a DEF Kept, KickType, Lists
<1>20. CASE KickApply
  <2>1. CoreType'  BY <1>a, <1>e, <1>20 DEF KickApply, CoreType, KickType
  <2>2. KickType'  BY <1>a, <1>20 DEF KickApply, KickType
  <2> QED BY <1>b, <1>p, <1>m, <1>l, <1>n, <1>f, <1>20, <2>1, <2>2
          DEF KickApply, counts, published
<1>21. ASSUME NEW u \in UIDs, KickRemove(u) PROVE TypeOK'
  <2>1. table' \in [Tags -> Lists]
    <3>1. CASE table' = [table EXCEPT ![ktag][u] = None]
      <4>1. None \in UUIDs \cup {None} /\ ktag \in Tags  BY <1>a DEF KickType
      <4> QED BY <1>a, <3>1, <4>1, TableEntryType
    <3>2. CASE UNCHANGED table  BY <1>a, <3>2 DEF CoreType
    <3> QED BY <1>21, <3>1, <3>2 DEF KickRemove
  <2>2. CoreType'  BY <1>a, <1>21, <2>1 DEF KickRemove, CoreType
  <2>3. KickType'  BY <1>a, <1>21 DEF KickRemove, KickType
  <2> QED BY <1>b, <1>p, <1>m, <1>l, <1>n, <1>f, <1>21, <2>2, <2>3
          DEF KickRemove, counts, published
<1>22. CASE KickPurge
  <2>1. ktag \in Tags  BY <1>a DEF KickType
  <2>2. Purged(ktag, kuids \cap Listed(kusers)) \in (SUBSET UIDs) \cup {None}
    BY <1>a, <2>1 DEF Purged, LimiterType
  <2>3. LimiterType'  BY <1>a, <1>22, <2>1, <2>2 DEF KickPurge, LimiterType
  <2>4. KickType'  BY <1>a, <1>22 DEF KickPurge, KickType
  <2> QED BY <1>b, <1>c, <1>p, <1>m, <1>n, <1>f, <1>22, <2>3, <2>4
          DEF KickPurge, counts, published
<1>23. CASE KickPublish
  <2>1. PublishedType'  BY <1>a, <1>e, <1>23 DEF KickPublish, PublishedType
  <2>2. KickType'  BY <1>a, <1>23 DEF KickPublish, KickType
  <2> QED BY <1>b, <1>c, <1>m, <1>l, <1>n, <1>f, <1>23, <2>1, <2>2 DEF KickPublish, counts
<1>24. CASE Close
  <2>1. LimiterType'  BY <1>a, <1>t, <1>24 DEF Close, LimiterType
  <2>2. FlagType'  BY <1>a, <1>24, Zenon DEF Close, FlagType, counts
  <2> QED BY <1>b, <1>c, <1>p, <1>m, <1>k, <1>n, <1>24, <2>1, <2>2 DEF Close, counts
<1>25. CASE UNCHANGED vars
  BY <1>b, <1>c, <1>p, <1>m, <1>l, <1>k, <1>n, <1>f, <1>25 DEF vars, counts, published
<1> QED
  BY <1>1, <1>2, <1>3, <1>4, <1>5, <1>6, <1>7, <1>8, <1>9, <1>10, <1>11, <1>12, <1>13,
     <1>14, <1>15, <1>16, <1>17, <1>18, <1>19, <1>20, <1>21, <1>22, <1>23, <1>24, <1>25
     DEF Next, NodeStep, KickStep

(* Every variable keeps its type through every cycle, fault and kick (the   *)
(* state of Controller and of the managers it drives).                      *)
THEOREM ControllerTypeCorrect == Spec => []TypeOK
<1>1. Init => TypeOK  BY InitType
<1>2. TypeOK /\ [Next]_vars => TypeOK'  BY NextType
<1> QED BY <1>1, <1>2, PTL DEF Spec

-----------------------------------------------------------------------------
(* Stage and Limited hold whatever fails.                                   *)

(* Neither the kick nor Close touches the monitor, the handlers or the      *)
(* outbounds.                                                               *)
LEMMA OthersLeave ==
  ASSUME KickStep \/ Close
  PROVE  /\ UNCHANGED <<npc, mode, node, cur, new, oldUsers, newUsers, todo>>
         /\ UNCHANGED <<handler, listening, outbound, faults>>
BY DEF KickStep, KickBegin, KickRead, KickApply, KickRemove, KickPurge, KickPublish, Close,
       published, monLocal, core

LEMMA NextStage == TypeOK /\ Stage /\ [Next]_vars => Stage'
<1> SUFFICES ASSUME TypeOK, Stage, [Next]_vars PROVE Stage'  OBVIOUS
<1>a. MonitorType /\ node \in Nodes  BY TypeParts DEF PublishedType
<1>u. UNCHANGED <<npc, mode, node, cur, new>> => Stage'  BY DEF Stage, Target
<1>f. ASSUME TagFailed, Building, UNCHANGED <<cur, new>> PROVE Stage'
  BY <1>a, <1>f DEF TagFailed, Building, Stage, Target, MonitorType
<1>1. CASE addInbound
  <2>1. CASE npc' = "outbound" /\ UNCHANGED <<node, mode>>
    BY <1>1, <2>1 DEF addInbound, monLocal, Stage, Target
  <2>2. CASE TagFailed  BY <1>f, <1>1, <2>2 DEF addInbound, monLocal, Building
  <2> QED BY <1>1, <2>1, <2>2 DEF addInbound
<1>2. CASE addOutbound
  <2>1. CASE /\ npc' \in {"idle", "users"} /\ (npc' = "idle" => mode = "restore")
             /\ UNCHANGED <<node, mode>>
    BY <1>2, <2>1 DEF addOutbound, monLocal, Stage, Target
  <2>2. CASE TagFailed  BY <1>f, <1>2, <2>2 DEF addOutbound, monLocal, Building
  <2> QED BY <1>2, <2>1, <2>2 DEF addOutbound
<1>3. CASE AddUsersFails
  <2>1. UsersFailed /\ npc = "users" /\ UNCHANGED <<cur, new>>
    BY <1>3 DEF AddUsersFails, monLocal
  <2> QED BY <1>a, <2>1 DEF UsersFailed, Stage, Target, MonitorType
<1>4. ASSUME NEW u \in UIDs, AddUser(u) PROVE Stage'
  BY <1>u, <1>4 DEF AddUser, published, monLocal
<1>5. ASSUME NEW u \in UIDs, RemoveUser(u) PROVE Stage'
  <2>1. /\ npc = "remove" /\ npc' \in {npc, "limDel"}
        /\ UNCHANGED <<node, mode, cur, new>>
    BY <1>5 DEF RemoveUser, published, monLocal
  <2> QED BY <2>1 DEF Stage, Target
<1>6. CASE AddUsersDone  BY <1>6 DEF AddUsersDone, published, monLocal, Stage, Target
<1>7. CASE UpdateAnyTLSUsers
  BY <1>7 DEF UpdateAnyTLSUsers, published, monLocal, Stage, Target
<1>8. CASE SetLimits
  BY <1>a, <1>8 DEF SetLimits, monLocal, Stage, Target, MonitorType
<1>9. CASE DropOld  BY <1>9 DEF DropOld, published, monLocal, Stage, Target
<1>10. CASE UpdateRule
  BY <1>a, <1>10 DEF UpdateRule, published, monLocal, Stage, Target, MonitorType
<1>11. ASSUME NEW n \in Nodes, NEW list \in Lists, Fetch(n, list) PROVE Stage'
  BY <1>a, <1>11 DEF Fetch, published, Stage, Target, MonitorType
<1>12. CASE Compare  BY <1>a, <1>12 DEF Compare, Stage, Target, Tag, MonitorType
<1>13. CASE RemoveForReplace
  BY <1>a, <1>13 DEF RemoveForReplace, monLocal, Stage, Target, MonitorType
<1>14. CASE Diff
  BY <1>14 DEF Diff, published, Stage, Target
<1>15. CASE RemoveUsersDone  BY <1>15 DEF RemoveUsersDone, published, monLocal, Stage, Target
<1>16. CASE PurgeDeleted  BY <1>16 DEF PurgeDeleted, published, monLocal, Stage, Target
<1>17. CASE Publish  BY <1>17 DEF Publish, monLocal, Stage, Target
<1>18. CASE KickStep \/ Close  BY <1>u, <1>18, OthersLeave
<1>19. CASE UNCHANGED vars  BY <1>u, <1>19 DEF vars, published, monLocal
<1> QED
  BY <1>1, <1>2, <1>3, <1>4, <1>5, <1>6, <1>7, <1>8, <1>9, <1>10, <1>11, <1>12, <1>13,
     <1>14, <1>15, <1>16, <1>17, <1>18, <1>19 DEF Next, NodeStep

LEMMA PurgedKeeps ==
  ASSUME NEW t \in Tags, limiter \in [Tags -> (SUBSET UIDs) \cup {None}], NEW uids
  PROVE  Purged(t, uids) = None <=> limiter[t] = None
<1>1. CASE limiter[t] = None  BY <1>1 DEF Purged
<1>2. CASE limiter[t] # None
  <2>1. Purged(t, uids) = limiter[t] \ uids  BY <1>2 DEF Purged
  <2>2. limiter[t] \ uids \in SUBSET UIDs  BY <1>2
  <2> QED BY <1>2, <2>1, <2>2, ControllerAssumption
<1> QED BY <1>1, <1>2

LEMMA NextLimited == TypeOK /\ Stage /\ Limited /\ [Next]_vars => Limited'
<1> SUFFICES ASSUME TypeOK, Stage, Limited, [Next]_vars, ~closed' PROVE LimitsOn'
  BY Zenon DEF Limited
<1>a. MonitorType /\ node \in Nodes /\ LimiterType /\ ktag \in Tags
  BY TypeParts DEF PublishedType, KickType
<1>b. limiter \in [Tags -> (SUBSET UIDs) \cup {None}]  BY <1>a DEF LimiterType
<1>t. Tag \in Tags /\ TagOf[cur] \in Tags  BY <1>a, TagType DEF Tag, MonitorType
<1>c. ~closed
  <2>1. Close => FALSE  BY Zenon DEF Close
  <2>2. closed' = closed \/ Close
    BY DEF Next, NodeStep, addInbound, addOutbound, AddUsersFails, AddUser, RemoveUser,
           AddUsersDone, UpdateAnyTLSUsers, SetLimits, DropOld, UpdateRule, Fetch, Compare,
           RemoveForReplace, Diff, RemoveUsersDone, PurgeDeleted, Publish, KickStep,
           KickBegin, KickRead, KickApply, KickRemove, KickPurge, KickPublish, published, vars
  <2> QED BY <2>1, <2>2, Zenon
<1>d. LimitsOn  BY <1>c, Zenon DEF Limited
<1>u. UNCHANGED <<npc, mode, node, cur, limiter>> => LimitsOn'
  BY <1>d DEF LimitsOn, Switching, Building, Tag
<1>f. ASSUME TagFailed, Building, UNCHANGED <<cur, new, limiter>> PROVE LimitsOn'
  BY <1>a, <1>d, <1>f DEF TagFailed, Building, LimitsOn, Switching, Stage, Target, Tag,
                         MonitorType
<1>1. CASE addInbound
  <2>1. CASE npc' = "outbound" /\ UNCHANGED <<node, mode>>
    BY <1>1, <1>d, <2>1 DEF addInbound, monLocal, LimitsOn, Switching, Building, Tag
  <2>2. CASE TagFailed  BY <1>f, <1>1, <2>2 DEF addInbound, monLocal, Building
  <2> QED BY <1>1, <2>1, <2>2 DEF addInbound
<1>2. CASE addOutbound
  <2>1. CASE /\ npc' \in {"idle", "users"} /\ (npc' = "idle" => mode = "restore")
             /\ UNCHANGED <<node, mode>>
    BY <1>2, <1>d, <2>1 DEF addOutbound, monLocal, LimitsOn, Switching, Building, Tag
  <2>2. CASE TagFailed  BY <1>f, <1>2, <2>2 DEF addOutbound, monLocal, Building
  <2> QED BY <1>2, <2>1, <2>2 DEF addOutbound
<1>3. CASE AddUsersFails
  <2>1. UsersFailed /\ npc = "users" /\ UNCHANGED <<cur, new>>
    BY <1>3 DEF AddUsersFails, monLocal
  <2>2. CASE mode = "start"
    <3>1. npc' = "failed" /\ mode' = mode  BY <2>1, <2>2 DEF UsersFailed
    <3> QED BY <2>2, <3>1 DEF LimitsOn, Switching
  <2>3. CASE mode # "start"
    <3>1. UNCHANGED limiter  BY <2>1, <2>3 DEF UsersFailed
    <3> QED BY <1>a, <1>d, <2>1, <2>3, <3>1
            DEF UsersFailed, LimitsOn, Switching, Building, Stage, Target, Tag, MonitorType
  <2> QED BY <2>2, <2>3
<1>4. ASSUME NEW u \in UIDs, AddUser(u) PROVE LimitsOn'
  BY <1>u, <1>4 DEF AddUser, published, monLocal
<1>5. ASSUME NEW u \in UIDs, RemoveUser(u) PROVE LimitsOn'
  <2>1. /\ npc = "remove" /\ npc' \in {npc, "limDel"}
        /\ UNCHANGED <<node, mode, cur, new, limiter>>
    BY <1>5 DEF RemoveUser, published, monLocal
  <2> QED BY <1>d, <2>1 DEF LimitsOn, Switching, Building, Tag
<1>6. CASE AddUsersDone
  BY <1>d, <1>6 DEF AddUsersDone, published, monLocal, LimitsOn, Switching, Building, Tag
<1>7. CASE UpdateAnyTLSUsers
  BY <1>d, <1>7 DEF UpdateAnyTLSUsers, published, monLocal, LimitsOn, Switching, Building, Tag
<1>8. CASE SetLimits
  <2>1. UpdatedLimits(Tag) # None
    <3>1. CASE mode # "diff"
      BY <3>1, ListedType, ControllerAssumption DEF UpdatedLimits
    <3>2. CASE mode = "diff"
      <4>1. limiter[Tag] # None
        BY <1>d, <1>8, <3>2 DEF LimitsOn, SetLimits, Switching
      <4>2. limiter[Tag] \cup Listed(newUsers) \in SUBSET UIDs
        BY <1>b, <1>t, <4>1, ListedType
      <4>3. UpdatedLimits(Tag) = limiter[Tag] \cup Listed(newUsers)
        BY <3>2, <4>1 DEF UpdatedLimits
      <4> QED BY <4>2, <4>3, ControllerAssumption
    <3> QED BY <3>1, <3>2
  <2>2. limiter'[Tag] # None /\ (limiter[TagOf[cur]] # None => limiter'[TagOf[cur]] # None)
    BY <1>b, <1>t, <1>8, <2>1 DEF SetLimits
  <2>3. /\ npc = "limiter" /\ UNCHANGED <<node, mode, cur, new>>
        /\ mode = "switch" => npc' = "dropOld"
        /\ mode # "switch" => npc' \in {"rules", "idle", "publish"}
    BY <1>a, <1>8 DEF SetLimits, monLocal, MonitorType
  <2> QED BY <1>d, <2>2, <2>3 DEF LimitsOn, Switching, Building, Tag
<1>9. CASE DropOld
  <2>1. TagOf[cur] # Tag  BY <1>9 DEF DropOld, Stage, Tag
  <2>2. limiter'[Tag] = limiter[Tag]  BY <1>b, <1>t, <1>9, <2>1 DEF DropOld
  <2>3. limiter[Tag] # None  BY <1>d, <1>9 DEF LimitsOn, DropOld
  <2>4. npc' = "rules" /\ UNCHANGED node  BY <1>9 DEF DropOld, published
  <2> QED BY <2>2, <2>3, <2>4 DEF LimitsOn, Switching, Building, Tag
<1>10. CASE UpdateRule
  <2>1. /\ npc = "rules" /\ npc' \in {"idle", "diff", "publish"}
        /\ UNCHANGED <<node, mode, cur, new, limiter>>
    BY <1>a, <1>10 DEF UpdateRule, published, monLocal, MonitorType
  <2> QED BY <1>d, <2>1 DEF LimitsOn, Switching, Building, Tag
<1>11. ASSUME NEW n \in Nodes, NEW list \in Lists, Fetch(n, list) PROVE LimitsOn'
  BY <1>d, <1>11 DEF Fetch, published, LimitsOn, Switching, Building, Tag
<1>12. CASE Compare
  BY <1>a, <1>d, <1>12 DEF Compare, LimitsOn, Switching, Building, Tag, MonitorType
<1>13. CASE RemoveForReplace
  BY <1>a, <1>d, <1>13 DEF RemoveForReplace, monLocal, LimitsOn, Switching, Building, Tag,
                           Stage, MonitorType
<1>14. CASE Diff
  <2>1. /\ npc = "diff" /\ npc' \in {"publish", "limDel", "remove"}
        /\ UNCHANGED <<node, mode, limiter>>
    BY <1>14 DEF Diff, published
  <2> QED BY <1>d, <2>1 DEF LimitsOn, Switching, Building, Tag
<1>15. CASE RemoveUsersDone
  BY <1>d, <1>15 DEF RemoveUsersDone, published, monLocal, LimitsOn, Switching, Building, Tag
<1>16. CASE PurgeDeleted
  <2>1. limiter'[Tag] = Purged(Tag, Deleted(oldUsers, newUsers))
    BY <1>b, <1>t, <1>16 DEF PurgeDeleted
  <2>2. limiter[Tag] # None  BY <1>d, <1>16 DEF LimitsOn, PurgeDeleted, Switching, Building
  <2>3. limiter'[Tag] # None  BY <1>b, <1>t, <2>1, <2>2, PurgedKeeps
  <2>4. npc' \in {"limiter", "users"} /\ UNCHANGED <<node, mode>> /\ mode = "diff"
    BY <1>16 DEF PurgeDeleted, published, Stage
  <2> QED BY <2>3, <2>4 DEF LimitsOn, Switching, Building, Tag
<1>17. CASE Publish
  BY <1>d, <1>17 DEF Publish, monLocal, LimitsOn, Switching, Building, Tag
<1>18. CASE KickStep
  <2>1. UNCHANGED <<npc, mode, node, cur>>  BY <1>18, OthersLeave
  <2>2. CASE UNCHANGED limiter  BY <1>u, <2>1, <2>2
  <2>3. CASE KickPurge
    <3>1. \A t \in Tags : limiter[t] # None => limiter'[t] # None
      BY <1>a, <1>b, <2>3, PurgedKeeps DEF KickPurge
    <3> QED BY <1>d, <1>t, <2>1, <3>1 DEF LimitsOn, Switching, Building, Tag
  <2> QED BY <1>18, <2>2, <2>3
          DEF KickStep, KickBegin, KickRead, KickApply, KickRemove, KickPublish
<1>19. CASE Close  BY <1>19, Zenon DEF Close
<1>20. CASE UNCHANGED vars  BY <1>u, <1>20 DEF vars, published, monLocal
<1> QED
  BY <1>1, <1>2, <1>3, <1>4, <1>5, <1>6, <1>7, <1>8, <1>9, <1>10, <1>11, <1>12, <1>13,
     <1>14, <1>15, <1>16, <1>17, <1>18, <1>19, <1>20 DEF Next, NodeStep

-----------------------------------------------------------------------------
(* Nothing is left behind, when neither Start of a handler nor the addition *)
(* of an outbound fails: their errors leave the handler in the manager, and *)
(* the code that follows a failed addNewTag does not remove it.             *)
CleanFaults == Faults \subseteq {"build", "list", "user"}

LEMMA FaultsExcluded ==
  ASSUME CleanFaults
  PROVE  ~Fault("start") /\ ~Fault("outbound")
BY DEF CleanFaults, Fault

LEMMA AddHandlerEffect ==
  ASSUME CoreType, NEW t \in Tags, NEW n, NEW b, AddHandler(t, n, b)
  PROVE  /\ handler[t] = None
         /\ \A s \in Tags : handler'[s] = IF s = t THEN n ELSE handler[s]
         /\ \A s \in Tags : table'[s] = IF s = t THEN NoUser ELSE table[s]
         /\ listening' = IF b THEN listening \cup {t} ELSE listening
         /\ outbound' = outbound
BY DEF CoreType, AddHandler

LEMMA RemoveOldTagEffect ==
  ASSUME CoreType, NEW t \in Tags, removeOldTag(t)
  PROVE  /\ \A s \in Tags : handler'[s] = IF s = t THEN None ELSE handler[s]
         /\ \A s \in Tags : s # t => table'[s] = table[s]
         /\ \A s \in Tags : s # t => (s \in listening' <=> s \in listening)
         /\ \A s \in Tags : s # t => (s \in outbound' <=> s \in outbound)
         /\ t \in outbound' => handler[t] = None /\ t \in outbound
<1>1. CASE handler[t] = None  BY <1>1 DEF CoreType, removeOldTag, core
<1>2. CASE handler[t] # None  BY <1>2 DEF CoreType, removeOldTag
<1> QED BY <1>1, <1>2

LEMMA NextEntries ==
  ASSUME CleanFaults, TypeOK, Stage, Shape, Owned, [Next]_vars
  PROVE  Shape' /\ Owned'
<1>a. MonitorType /\ node \in Nodes /\ LimiterType /\ CoreType /\ ktag \in Tags
  BY TypeParts DEF PublishedType, KickType
<1>b. limiter \in [Tags -> (SUBSET UIDs) \cup {None}]  BY <1>a DEF LimiterType
<1>t. Tag \in Tags /\ TagOf[cur] \in Tags /\ TagOf[new] \in Tags /\ None \notin Nodes
  BY <1>a, TagType, ControllerAssumption DEF Tag, MonitorType
<1>g. Building => TagOf[Target] = Tag  BY DEF Building, Stage, Tag
<1>s. UNCHANGED <<handler, listening, outbound, node>> /\ npc # "outbound" /\ npc' # "outbound"
        => Shape'
  BY DEF Shape, Tag
<1>o. ASSUME UNCHANGED <<handler, node, mode, cur>>,
             \A t \in Tags : /\ limiter[t] = None => limiter'[t] = None
                             /\ t \in rules' => t \in rules,
             ~Building /\ npc # "dropOld",
             npc' \notin {"inbound", "outbound", "users", "limiter", "failed"}
      PROVE  Owned'
  BY <1>o, <1>t DEF Owned, Building, Switching, Tag
<1>u. UNCHANGED <<npc, mode, node, cur, handler, listening, outbound, limiter, rules>> =>
          Shape' /\ Owned'
  <2>1. UNCHANGED <<npc, node, handler, listening, outbound>> => Shape'  BY DEF Shape, Tag
  <2>2. UNCHANGED <<npc, mode, node, cur, handler, limiter, rules>> => Owned'
    BY DEF Owned, Switching, Building, Tag
  <2> QED BY <2>1, <2>2
<1>1. CASE addInbound
  <2>1. npc = "inbound" /\ UNCHANGED <<limiter, rules, cur, new>> /\ Building
    BY <1>1 DEF addInbound, monLocal, Building
  <2>2. handler[Tag] = None  BY <2>1 DEF Owned
  <2>3. CASE AddHandler(TagOf[Target], Target, TRUE) /\ npc' = "outbound"
             /\ UNCHANGED <<node, mode>>
    <3>1. /\ \A s \in Tags : handler'[s] = IF s = Tag THEN node ELSE handler[s]
          /\ listening' = listening \cup {Tag} /\ outbound' = outbound
      <4>1. Target = node  BY <2>1 DEF Stage
      <4>2. AddHandler(Tag, node, TRUE)  BY <2>3, <4>1 DEF Tag
      <4> QED BY <1>a, <1>t, <4>2, AddHandlerEffect
    <3>2. Tag' = Tag  BY <2>3 DEF Tag
    <3>3. Shape'  BY <1>a, <1>t, <2>1, <2>2, <2>3, <3>1, <3>2 DEF Shape
    <3>4. Owned'
      BY <1>t, <2>1, <2>3, <3>1, <3>2 DEF Owned, Building, Switching
    <3> QED BY <3>3, <3>4
  <2>4. CASE TagFailed /\ UNCHANGED core
    <3>1. Shape'
      <4>1. npc' # "outbound" /\ UNCHANGED <<handler, listening, outbound>>
        BY <2>4 DEF TagFailed, core
      <4> QED BY <2>1, <4>1 DEF Shape
    <3>2. CASE mode = "start"
      <4>1. npc' = "failed" /\ UNCHANGED <<node, mode, handler>>
        BY <2>4, <3>2 DEF TagFailed, core
      <4> QED BY <2>1, <2>2, <3>1, <3>2, <4>1 DEF Owned, Building, Switching, Tag
    <3>3. CASE mode = "switch"
      <4>1. npc' = "idle" /\ node' = cur /\ UNCHANGED <<mode, handler>>
        BY <2>4, <3>3 DEF TagFailed, core
      <4>2. limiter[Tag] = None /\ Tag \notin rules  BY <2>1, <3>3 DEF Owned
      <4> QED BY <2>1, <2>2, <3>1, <3>3, <4>1, <4>2 DEF Owned, Building, Switching, Tag
    <3>4. CASE mode = "replace"
      <4>1. /\ npc' = "inbound" /\ node' = cur /\ mode' = "restore" /\ UNCHANGED handler
            /\ TagOf[cur] = Tag
        BY <2>1, <2>4, <3>4 DEF TagFailed, core, Stage, Target, Tag
      <4> QED BY <2>1, <2>2, <3>1, <3>4, <4>1 DEF Owned, Building, Switching, Tag
    <3>5. CASE mode = "restore"
      <4>1. npc' = "idle" /\ UNCHANGED <<node, mode, handler>>
        BY <2>4, <3>5 DEF TagFailed, core
      <4> QED BY <2>1, <2>2, <3>1, <3>5, <4>1 DEF Owned, Building, Switching, Tag
    <3> QED BY <3>2, <3>3, <3>4, <3>5, <2>4 DEF TagFailed
  <2> QED BY <1>1, <2>3, <2>4, FaultsExcluded DEF addInbound
<1>2. CASE addOutbound
  <2>1. npc = "outbound" /\ TagOf[Target] = Tag
    BY <1>2, <1>g DEF addOutbound, Building
  <2>2. Tag \notin outbound  BY <2>1 DEF Shape
  <2>3. /\ outbound' = outbound \cup {Tag} /\ npc' \in {"idle", "users"}
        /\ npc' = "idle" => mode = "restore"
        /\ UNCHANGED <<node, mode, cur, new, handler, listening, limiter, rules>>
    BY <1>2, <2>1, <2>2, FaultsExcluded DEF addOutbound, monLocal
  <2>4. Shape'  BY <1>t, <2>1, <2>3 DEF Shape, Tag
  <2>5. Owned'  BY <1>t, <2>1, <2>3 DEF Owned, Building, Switching, Tag
  <2> QED BY <2>4, <2>5
<1>3. CASE AddUsersFails
  <2>1. UsersFailed /\ npc = "users" /\ UNCHANGED <<cur, new>> /\ TagOf[Target] = Tag
    BY <1>3, <1>g DEF AddUsersFails, monLocal, Building
  <2>2. CASE mode = "start"
    <3>1. /\ removeOldTag(Tag) /\ npc' = "failed" /\ UNCHANGED <<node, mode>>
          /\ limiter' = [limiter EXCEPT ![Tag] = None] /\ rules' = rules \ {Tag}
      BY <2>1, <2>2 DEF UsersFailed
    <3>2. /\ \A s \in Tags : handler'[s] = IF s = Tag THEN None ELSE handler[s]
          /\ \A s \in Tags : s # Tag => (s \in listening' <=> s \in listening)
          /\ \A s \in Tags : s # Tag => (s \in outbound' <=> s \in outbound)
          /\ Tag \in outbound' => handler[Tag] = None /\ Tag \in outbound
      BY <1>a, <1>t, <3>1, RemoveOldTagEffect
    <3>3. Shape'  BY <2>1, <3>1, <3>2 DEF Shape, Tag
    <3>4. \A t \in Tags : limiter'[t] = IF t = Tag THEN None ELSE limiter[t]
      BY <1>b, <3>1
    <3>5. Owned'
      BY <1>t, <2>1, <2>2, <3>1, <3>2, <3>4 DEF Owned, Building, Switching, Tag
    <3> QED BY <3>3, <3>5
  <2>3. CASE mode \in {"switch", "replace"}
    <3>1. /\ removeOldTag(Tag) /\ node' = cur /\ UNCHANGED <<limiter, rules>>
          /\ mode = "switch" => npc' = "idle" /\ mode' = mode
          /\ mode = "replace" => npc' = "inbound" /\ mode' = "restore" /\ TagOf[cur] = Tag
      BY <2>1, <2>3 DEF UsersFailed, Stage, Target, Tag
    <3>2. /\ \A s \in Tags : handler'[s] = IF s = Tag THEN None ELSE handler[s]
          /\ \A s \in Tags : s # Tag => (s \in listening' <=> s \in listening)
          /\ \A s \in Tags : s # Tag => (s \in outbound' <=> s \in outbound)
          /\ Tag \in outbound' => handler[Tag] = None /\ Tag \in outbound
      BY <1>a, <1>t, <3>1, RemoveOldTagEffect
    <3>3. Shape'
      <4>1. npc' # "outbound"  BY <2>3, <3>1
      <4> QED BY <2>1, <3>2, <4>1 DEF Shape
    <3>4. Owned'
      <4>1. CASE mode = "switch"
        <5>1. limiter[Tag] = None /\ Tag \notin rules
          BY <2>1, <4>1 DEF Owned, Building
        <5> QED BY <1>t, <2>1, <3>1, <3>2, <4>1, <5>1 DEF Owned, Building, Switching, Tag
      <4>2. CASE mode = "replace"
        BY <1>t, <2>1, <3>1, <3>2, <4>2 DEF Owned, Building, Switching, Tag
      <4> QED BY <2>3, <4>1, <4>2
    <3> QED BY <3>3, <3>4
  <2>4. CASE mode \in {"restore", "diff"}
    <3>1. npc' = "limiter" /\ UNCHANGED <<core, limiter, rules, node, mode>>
      BY <2>1, <2>4 DEF UsersFailed
    <3>2. Shape'  BY <2>1, <3>1, <1>s DEF core
    <3>3. Owned'  BY <2>1, <2>4, <3>1 DEF Owned, Building, Switching, Tag, core
    <3> QED BY <3>2, <3>3
  <2> QED BY <2>1, <2>2, <2>3, <2>4 DEF UsersFailed
<1>4. ASSUME NEW u \in UIDs, AddUser(u) PROVE Shape' /\ Owned'
  BY <1>u, <1>4 DEF AddUser, published, monLocal
<1>5. ASSUME NEW u \in UIDs, RemoveUser(u) PROVE Shape' /\ Owned'
  <2>1. /\ npc = "remove" /\ npc' \in {npc, "limDel"}
        /\ UNCHANGED <<node, mode, cur, new, limiter, rules, handler, listening, outbound>>
    BY <1>5 DEF RemoveUser, published, monLocal
  <2> QED BY <1>o, <1>s, <2>1 DEF Building
<1>6. CASE AddUsersDone
  <2>1. /\ npc = "users" /\ npc' = "limiter"
        /\ UNCHANGED <<node, mode, cur, new, limiter, rules, handler, listening, outbound>>
    BY <1>6 DEF AddUsersDone, published, monLocal, core
  <2>2. Owned'  BY <2>1 DEF Owned, Building, Switching, Tag
  <2> QED BY <1>s, <2>1, <2>2
<1>7. CASE UpdateAnyTLSUsers
  <2>1. /\ npc = "users" /\ npc' = "limiter"
        /\ UNCHANGED <<node, mode, cur, new, limiter, rules, handler, listening, outbound>>
    BY <1>7 DEF UpdateAnyTLSUsers, published, monLocal
  <2>2. Owned'  BY <2>1 DEF Owned, Building, Switching, Tag
  <2> QED BY <1>s, <2>1, <2>2
<1>8. CASE SetLimits
  <2>1. /\ npc = "limiter"
        /\ mode = "switch" => npc' = "dropOld"
        /\ mode # "switch" => npc' \in {"rules", "idle", "publish"}
        /\ UNCHANGED <<node, mode, cur, new, rules, handler, listening, outbound>>
    BY <1>a, <1>8 DEF SetLimits, monLocal, MonitorType, core
  <2>2. \A t \in Tags \ {Tag} : limiter'[t] = limiter[t]  BY <1>b, <1>8 DEF SetLimits
  <2>3. Owned'  BY <2>1, <2>2 DEF Owned, Building, Switching, Tag
  <2>4. npc' # "outbound"  BY <2>1
  <2> QED BY <1>s, <2>1, <2>3, <2>4
<1>9. CASE DropOld
  <2>1. /\ npc = "dropOld" /\ npc' = "rules" /\ removeOldTag(TagOf[cur])
        /\ rules' = rules \ {TagOf[cur]} /\ UNCHANGED <<node, mode, cur>>
    BY <1>9 DEF DropOld, published, monLocal
  <2>2. \A t \in Tags : limiter'[t] = IF t = TagOf[cur] THEN None ELSE limiter[t]
    BY <1>b, <1>9 DEF DropOld
  <2>3. /\ \A s \in Tags : handler'[s] = IF s = TagOf[cur] THEN None ELSE handler[s]
        /\ \A s \in Tags : s # TagOf[cur] => (s \in listening' <=> s \in listening)
        /\ \A s \in Tags : s # TagOf[cur] => (s \in outbound' <=> s \in outbound)
        /\ TagOf[cur] \in outbound' => handler[TagOf[cur]] = None /\ TagOf[cur] \in outbound
    BY <1>a, <1>t, <2>1, RemoveOldTagEffect
  <2>4. Shape'  BY <2>1, <2>3 DEF Shape, Tag
  <2>5. Owned'  BY <2>1, <2>2, <2>3 DEF Owned, Building, Switching, Tag
  <2> QED BY <2>4, <2>5
<1>10. CASE UpdateRule
  <2>1. /\ npc = "rules" /\ npc' \in {"idle", "diff", "publish"}
        /\ \A t \in Tags \ {Tag} : t \in rules' => t \in rules
        /\ UNCHANGED <<node, mode, cur, new, limiter, handler, listening, outbound>>
    BY <1>a, <1>10 DEF UpdateRule, published, monLocal, MonitorType, core
  <2>2. Shape'
    <3>1. npc' # "outbound"  BY <2>1
    <3> QED BY <1>s, <2>1, <3>1
  <2>3. Owned'  BY <2>1 DEF Owned, Building, Switching, Tag
  <2> QED BY <2>2, <2>3
<1>11. ASSUME NEW n \in Nodes, NEW list \in Lists, Fetch(n, list) PROVE Shape' /\ Owned'
  <2>1. /\ npc = "idle" /\ npc' = "compare"
        /\ UNCHANGED <<node, mode, cur, limiter, rules, handler, listening, outbound>>
    BY <1>11 DEF Fetch, published, core
  <2> QED BY <1>s, <1>o, <2>1 DEF Building
<1>12. CASE Compare
  <2>1. /\ npc = "compare" /\ cur' = node
        /\ UNCHANGED <<limiter, rules, handler, listening, outbound>>
    BY <1>12 DEF Compare, core
  <2>2. Shape'
    <3>1. npc' # "outbound"  BY <1>12 DEF Compare
    <3> QED BY <2>1, <3>1 DEF Shape
  <2>3. CASE npc' \in {"rules", "removeOld"} /\ UNCHANGED node
    BY <2>1, <2>2, <2>3 DEF Owned, Building, Switching, Tag
  <2>4. CASE npc' = "inbound" /\ mode' = "switch" /\ node' = new /\ TagOf[new] # Tag
    BY <1>t, <2>1, <2>2, <2>4 DEF Owned, Building, Switching, Tag
  <2> QED BY <1>12, <2>3, <2>4 DEF Compare
<1>13. CASE RemoveForReplace
  <2>1. /\ npc = "removeOld" /\ removeOldTag(Tag) /\ UNCHANGED <<limiter, rules, mode, cur>>
        /\ mode = "replace" /\ npc' \in {"idle", "inbound"} /\ TagOf[node'] = Tag
    BY <1>13 DEF RemoveForReplace, Stage, monLocal, Tag
  <2>2. /\ \A s \in Tags : handler'[s] = IF s = Tag THEN None ELSE handler[s]
        /\ \A s \in Tags : s # Tag => (s \in listening' <=> s \in listening)
        /\ \A s \in Tags : s # Tag => (s \in outbound' <=> s \in outbound)
        /\ Tag \in outbound' => handler[Tag] = None /\ Tag \in outbound
    BY <1>a, <1>t, <2>1, RemoveOldTagEffect
  <2>3. Shape'
    <3>1. npc' # "outbound"  BY <2>1
    <3> QED BY <2>1, <2>2, <3>1 DEF Shape
  <2>4. Owned'  BY <1>t, <2>1, <2>2 DEF Owned, Building, Switching, Tag
  <2> QED BY <2>3, <2>4
<1>14. CASE Diff
  <2>1. /\ npc = "diff" /\ npc' \in {"publish", "limDel", "remove"}
        /\ UNCHANGED <<node, mode, cur, limiter, rules, handler, listening, outbound>>
    BY <1>14 DEF Diff, published, core
  <2> QED BY <1>s, <1>o, <2>1 DEF Building
<1>15. CASE RemoveUsersDone
  <2>1. /\ npc = "remove" /\ npc' = "limDel"
        /\ UNCHANGED <<node, mode, cur, limiter, rules, handler, listening, outbound>>
    BY <1>15 DEF RemoveUsersDone, published, core, monLocal
  <2> QED BY <1>s, <1>o, <2>1 DEF Building
<1>16. CASE PurgeDeleted
  <2>1. /\ npc = "limDel" /\ npc' \in {"limiter", "users"} /\ mode = "diff"
        /\ UNCHANGED <<node, mode, cur, rules, handler, listening, outbound>>
    BY <1>16 DEF PurgeDeleted, published, core, monLocal, Stage
  <2>2. \A t \in Tags \ {Tag} : limiter'[t] = limiter[t]  BY <1>b, <1>16 DEF PurgeDeleted
  <2>3. Owned'  BY <2>1, <2>2 DEF Owned, Building, Switching, Tag
  <2>4. npc' # "outbound"  BY <2>1
  <2> QED BY <1>s, <2>1, <2>3, <2>4
<1>17. CASE Publish
  <2>1. /\ npc = "publish" /\ npc' = "idle"
        /\ UNCHANGED <<node, mode, cur, limiter, rules, handler, listening, outbound>>
    BY <1>17 DEF Publish, core, monLocal
  <2> QED BY <1>s, <1>o, <2>1 DEF Building
<1>18. CASE KickStep \/ Close
  <2>1. UNCHANGED <<npc, mode, node, cur, handler, listening, outbound>>
    BY <1>18, OthersLeave
  <2>2. \A t \in Tags : limiter[t] = None => limiter'[t] = None
    <3>1. CASE UNCHANGED limiter  BY <3>1
    <3>2. CASE KickPurge  BY <1>a, <1>b, <3>2, PurgedKeeps DEF KickPurge
    <3>3. CASE Close  BY <1>b, <1>t, <3>3 DEF Close
    <3> QED BY <1>18, <3>1, <3>2, <3>3
            DEF KickStep, KickBegin, KickRead, KickApply, KickRemove, KickPublish
  <2>3. \A t \in Tags : t \in rules' => t \in rules
    BY <1>18 DEF KickStep, KickBegin, KickRead, KickApply, KickRemove, KickPublish, KickPurge,
                 Close
  <2>4. Shape'  BY <2>1 DEF Shape, Tag
  <2>5. Owned'  BY <1>t, <2>1, <2>2, <2>3 DEF Owned, Building, Switching, Tag
  <2> QED BY <2>4, <2>5
<1>19. CASE UNCHANGED vars  BY <1>u, <1>19 DEF vars, published, monLocal, core
<1> QED
  BY <1>1, <1>2, <1>3, <1>4, <1>5, <1>6, <1>7, <1>8, <1>9, <1>10, <1>11, <1>12, <1>13,
     <1>14, <1>15, <1>16, <1>17, <1>18, <1>19 DEF Next, NodeStep

LEMMA InitEntries == Init => Stage /\ Shape /\ Owned
<1> SUFFICES ASSUME Init PROVE Stage /\ Shape /\ Owned  OBVIOUS
<1>1. Stage  BY DEF Init, Stage, Target
<1>2. Shape  BY DEF Init, Shape
<1>3. Owned  BY TagType DEF Init, Owned, Building, Tag
<1> QED BY <1>1, <1>2, <1>3

LEMMA InitLimited == Init => Limited
<1> SUFFICES ASSUME Init PROVE LimitsOn  BY Zenon DEF Limited
<1> QED BY DEF Init, LimitsOn, Switching, Building

LEMMA EntriesClean ==
  ASSUME EntriesInv
  PROVE  NothingLeftBehind
<1>1. NoOrphan
  <2> SUFFICES ASSUME npc = "idle", NEW t \in Tags \ {Tag}
               PROVE  handler[t] = None /\ t \notin outbound \cup rules /\ limiter[t] = None
    BY DEF NoOrphan, Resting
  <2>1. ~Switching  BY DEF Switching, Building
  <2>2. handler[t] = None /\ t \notin rules /\ limiter[t] = None
    BY <2>1 DEF EntriesInv, Owned
  <2> QED BY <2>2 DEF EntriesInv, Shape
<1>2. FailedStartClean
  <2> SUFFICES ASSUME npc = "failed", NEW t \in Tags
               PROVE  handler[t] = None /\ t \notin outbound \cup rules /\ limiter[t] = None
    BY DEF FailedStartClean
  <2>1. ~Switching  BY DEF Switching, Building
  <2>2. handler[t] = None /\ t \notin rules /\ limiter[t] = None
    BY <2>1 DEF EntriesInv, Owned
  <2> QED BY <2>2 DEF EntriesInv, Shape
<1> QED BY <1>1, <1>2 DEF NothingLeftBehind, EntriesInv

(* When building an inbound, fetching the list and adding users may fail,   *)
(* any number of times, in any cycle and with kicks and Close in between,   *)
(* neither a cycle nor a failed Start leaves an inbound, an outbound, a     *)
(* limiter or a rule entry under a tag that is not the published one        *)
(* (applyNodeInfoChange, rollbackInbound).                                  *)
THEOREM NoCycleLeavesEntries == CleanFaults => (Spec => []NothingLeftBehind)
<1> SUFFICES ASSUME CleanFaults PROVE Spec => []NothingLeftBehind  OBVIOUS
<1>1. Init => EntriesInv  BY InitType, InitEntries DEF EntriesInv
<1>2. EntriesInv /\ [Next]_vars => EntriesInv'
  BY NextType, NextStage, NextEntries DEF EntriesInv
<1>3. EntriesInv => NothingLeftBehind  BY EntriesClean
<1> QED BY <1>1, <1>2, <1>3, PTL DEF Spec

-----------------------------------------------------------------------------
(* Between cycles the published node serves, when besides a cycle meets one *)
(* fault at most: a second one makes the restore fail too.                  *)

(* What the kick may do to a table: with an AnyTLS inbound, anything; with  *)
(* a VLESS inbound, remove users.                                           *)
LEMMA KickTable ==
  ASSUME TypeOK, KickStep \/ Close, NEW t \in Tags, handler[t] \notin AnyTLS, NEW u \in UIDs
  PROVE  table'[t][u] \in {table[t][u], None}
<1>a. CoreType /\ KickType  BY TypeParts
<1>1. CASE UNCHANGED table  BY <1>1
<1>2. CASE KickApply  BY <1>a, <1>2 DEF KickApply, CoreType, KickType
<1>3. ASSUME NEW v \in UIDs, KickRemove(v) PROVE table'[t][u] \in {table[t][u], None}
  <2>1. CASE UNCHANGED table  BY <2>1
  <2>2. CASE table' = [table EXCEPT ![ktag][v] = None]
    <3>1. CASE t # ktag  BY <1>a, <2>2, <3>1 DEF CoreType, KickType
    <3>2. CASE t = ktag
      <4>1. table'[t] = [table[t] EXCEPT ![v] = None]
        BY <1>a, <2>2, <3>2 DEF CoreType, KickType
      <4>2. table[t] \in Lists  BY <1>a DEF CoreType
      <4> QED BY <4>1, <4>2 DEF Lists
    <3> QED BY <3>1, <3>2
  <2> QED BY <1>3, <2>1, <2>2 DEF KickRemove
<1> QED BY <1>1, <1>2, <1>3
        DEF KickStep, KickBegin, KickRead, KickPurge, KickPublish, Close, core

LEMMA NoUserIs ==
  ASSUME NEW list \in Lists
  PROVE  list = NoUser <=> \A u \in UIDs : list[u] = None
BY DEF Lists, NoUser

LEMMA NextFresh ==
  ASSUME CleanFaults, EntriesInv, Up, FreshTable, [Next]_vars
  PROVE  FreshTable'
<1>a. TypeOK /\ Stage /\ Shape /\ Owned  BY DEF EntriesInv
<1>b. MonitorType /\ node \in Nodes /\ CoreType  BY <1>a, TypeParts DEF PublishedType
<1>t. Tag \in Tags  BY <1>b, TagType DEF Tag
<1>n. npc' \notin {"outbound", "users"} => FreshTable'  BY DEF FreshTable
<1>u. UNCHANGED <<npc, mode, node, todo, table>> => FreshTable'  BY DEF FreshTable, Tag
<1>1. CASE addInbound
  <2>1. CASE AddHandler(TagOf[Target], Target, TRUE) /\ npc' = "outbound"
             /\ UNCHANGED <<node, mode>>
    <3>1. Target = node  BY <1>1, <1>a DEF addInbound, Stage
    <3>2. AddHandler(Tag, node, TRUE)  BY <2>1, <3>1 DEF Tag
    <3>3. table'[Tag] = NoUser  BY <1>b, <1>t, <3>2, AddHandlerEffect
    <3> QED BY <2>1, <3>3 DEF FreshTable, Tag
  <2>2. CASE TagFailed
    <3>1. npc' \notin {"outbound", "users"}  BY <2>2 DEF TagFailed
    <3> QED BY <1>n, <3>1
  <2> QED BY <1>1, <2>1, <2>2, FaultsExcluded DEF addInbound
<1>2. CASE addOutbound
  <2>1. CASE TagFailed
    <3>1. npc' \notin {"outbound", "users"}  BY <2>1 DEF TagFailed
    <3> QED BY <1>n, <3>1
  <2>2. CASE UNCHANGED <<node, mode>> /\ npc' \in {"idle", "users"}
             /\ todo' = Listed(TargetUsers)
    <3>1. npc = "outbound" /\ UNCHANGED table  BY <1>2 DEF addOutbound
    <3>2. node \notin AnyTLS => \A u \in UIDs : table[Tag][u] = None
      BY <3>1 DEF FreshTable, NoUser
    <3>3. todo' \subseteq UIDs  BY <2>2, ListedType
    <3> QED BY <2>2, <3>1, <3>2, <3>3 DEF FreshTable, Tag
  <2> QED BY <1>2, <2>1, <2>2 DEF addOutbound
<1>3. CASE AddUsersFails
  <2>1. npc' \notin {"outbound", "users"}  BY <1>3 DEF AddUsersFails, UsersFailed
  <2> QED BY <1>n, <2>1
<1>4. ASSUME NEW u \in UIDs, AddUser(u) PROVE FreshTable'
  <2>1. /\ npc = "users" /\ todo' = todo \ {u} /\ UNCHANGED <<npc, mode, node>>
        /\ table' = [table EXCEPT ![Tag][u] = TargetUsers[u]]
    BY <1>4 DEF AddUser, published
  <2>2. table'[Tag] = [table[Tag] EXCEPT ![u] = TargetUsers[u]]
    BY <1>b, <1>t, <2>1 DEF CoreType
  <2>3. table[Tag] \in Lists  BY <1>b, <1>t DEF CoreType
  <2>4. \A v \in UIDs \ {u} : table'[Tag][v] = table[Tag][v]  BY <2>2, <2>3 DEF Lists
  <2>5. todo \subseteq UIDs  BY <1>b DEF MonitorType
  <2> QED BY <2>1, <2>4, <2>5 DEF FreshTable, Tag
<1>5. CASE PurgeDeleted
  <2>1. mode = "diff" /\ npc' # "outbound" /\ UNCHANGED mode
    BY <1>5, <1>a DEF PurgeDeleted, Stage
  <2> QED BY <2>1 DEF FreshTable
<1>6. CASE KickStep \/ Close
  <2>1. UNCHANGED <<npc, mode, node, todo>>  BY <1>6, OthersLeave
  <2>2. ASSUME node \notin AnyTLS, npc \in {"outbound", "users"}, NEW u \in UIDs,
               table[Tag][u] = None
        PROVE  table'[Tag][u] = None
    <3>1. handler[Tag] = node  BY <2>2 DEF Up
    <3> QED BY <1>6, <1>a, <1>t, <2>2, <3>1, KickTable
  <2>3. table[Tag] \in Lists /\ table'[Tag] \in Lists
    BY <1>a, <1>b, <1>t, NextType DEF CoreType, TypeOK
  <2>4. node \notin AnyTLS /\ npc = "outbound" => table'[Tag] = NoUser
    BY <2>2, <2>3, NoUserIs DEF FreshTable
  <2>5. todo \subseteq UIDs  BY <1>b DEF MonitorType
  <2> QED BY <2>1, <2>2, <2>4, <2>5 DEF FreshTable, Tag
<1>7. CASE UNCHANGED vars  BY <1>u, <1>7 DEF vars, published, core
<1>8. ASSUME NEW u \in UIDs, RemoveUser(u) PROVE FreshTable'
  BY <1>n, <1>8 DEF RemoveUser
<1>9. CASE \/ AddUsersDone \/ UpdateAnyTLSUsers \/ DropOld \/ Compare \/ RemoveForReplace
           \/ Diff \/ RemoveUsersDone \/ Publish
  BY <1>n, <1>9 DEF AddUsersDone, UpdateAnyTLSUsers, DropOld, Compare, RemoveForReplace, Diff,
                    RemoveUsersDone, Publish
<1>10. CASE SetLimits \/ UpdateRule
  <2>1. npc' \notin {"outbound", "users"}
    BY <1>b, <1>10 DEF SetLimits, UpdateRule, MonitorType
  <2> QED BY <1>n, <2>1
<1>11. ASSUME NEW n \in Nodes, NEW list \in Lists, Fetch(n, list) PROVE FreshTable'
  BY <1>n, <1>11 DEF Fetch
<1> QED
  BY <1>1, <1>2, <1>3, <1>4, <1>5, <1>6, <1>7, <1>8, <1>9, <1>10, <1>11 DEF Next, NodeStep

LEMMA NextUp ==
  ASSUME CleanFaults, MaxFaults <= 1, EntriesInv, Up, FreshTable, [Next]_vars
  PROVE  Up'
<1>a. TypeOK /\ Stage /\ Shape /\ Owned  BY DEF EntriesInv
<1>b. MonitorType /\ node \in Nodes /\ CoreType /\ CountType
  BY <1>a, TypeParts DEF PublishedType
<1>t. Tag \in Tags /\ TagOf[cur] \in Tags /\ TagOf[new] \in Tags /\ None \notin Nodes
      /\ cur \in Nodes
  BY <1>b, TagType, ControllerAssumption DEF Tag, MonitorType
<1>g. Building => Target = node  BY <1>a DEF Building, Stage
<1>x. \A f : Fault(f) => ~(faults' < MaxFaults)
  BY <1>b, ControllerAssumption DEF Fault, CountType
<1>u. UNCHANGED <<npc, mode, node, cur, handler, faults>> => Up'
  BY DEF Up, Switching, Building, Tag
<1>v. ASSUME npc \notin {"inbound", "failed"}, UNCHANGED <<node, mode, cur, handler>>,
             npc' # "inbound", Switching' => Switching
      PROVE  Up'
  BY <1>v DEF Up, Tag
<1>1. CASE addInbound
  <2>1. npc = "inbound" /\ UNCHANGED <<cur, new>> /\ Target = node
    BY <1>1, <1>g DEF addInbound, monLocal, Building
  <2>2. CASE AddHandler(TagOf[Target], Target, TRUE) /\ npc' = "outbound"
             /\ UNCHANGED <<node, mode>>
    <3>1. AddHandler(Tag, node, TRUE)  BY <2>1, <2>2 DEF Tag
    <3>2. \A s \in Tags : handler'[s] = IF s = Tag THEN node ELSE handler[s]
      BY <1>b, <1>t, <3>1, AddHandlerEffect
    <3>3. Switching => TagOf[cur] # Tag
      BY <1>a, <2>1 DEF Switching, Stage, Target, Tag
    <3> QED BY <1>t, <2>1, <2>2, <3>2, <3>3 DEF Up, Switching, Building, Tag
  <2>3. CASE TagFailed /\ UNCHANGED core
    <3>1. Fault("build")
      <4>1. handler[Tag] = None  BY <1>a, <2>1 DEF Owned
      <4> QED BY <1>1, <2>1, <2>3, <4>1, FaultsExcluded
              DEF addInbound, AddHandler, TagFailed, Tag
    <3>2. ~(faults' < MaxFaults)  BY <1>x, <3>1
    <3>3. mode # "restore"  BY <2>1, <3>1 DEF Up, Fault
    <3> QED BY <2>1, <2>3, <3>2, <3>3 DEF Up, TagFailed, Switching, Building, Tag, core
  <2> QED BY <1>1, <2>2, <2>3, FaultsExcluded DEF addInbound
<1>2. CASE addOutbound
  <2>1. npc = "outbound" /\ TagOf[Target] = Tag
    BY <1>2, <1>g DEF addOutbound, Building, Tag
  <2>2. Tag \notin outbound  BY <1>a, <2>1 DEF Shape
  <2>3. /\ npc' \in {"idle", "users"}
        /\ npc' = "idle" => mode = "restore"
        /\ UNCHANGED <<node, mode, cur, handler>>
    BY <1>2, <2>1, <2>2, FaultsExcluded DEF addOutbound, monLocal
  <2> QED BY <2>1, <2>3 DEF Up, Switching, Building, Tag
<1>3. CASE AddUsersFails
  <2>1. UsersFailed /\ npc = "users" /\ UNCHANGED <<cur, new>> /\ Target = node
    BY <1>3, <1>g DEF AddUsersFails, monLocal, Building
  <2>2. handler[Tag] = node  BY <2>1 DEF Up
  <2>3. CASE mode = "start"
    BY <2>1, <2>3 DEF UsersFailed, Up, Switching
  <2>4. CASE mode \in {"switch", "replace"}
    <3>1. Fault("user")
      <4>1. \A u \in todo : node \notin AnyTLS => table[Tag][u] = None
        BY <2>1, <2>4 DEF FreshTable
      <4> QED BY <1>3, <1>b, <1>t, <2>1, <2>2, <2>4, <4>1 DEF AddUsersFails
    <3>2. ~(faults' < MaxFaults)  BY <1>x, <3>1
    <3>3. /\ removeOldTag(Tag) /\ node' = cur
          /\ mode = "switch" => npc' = "idle" /\ mode' = mode /\ TagOf[cur] # Tag
          /\ mode = "replace" => npc' = "inbound" /\ mode' = "restore"
      BY <1>a, <2>1, <2>4 DEF UsersFailed, Stage, Target, Tag
    <3>4. \A s \in Tags : handler'[s] = IF s = Tag THEN None ELSE handler[s]
      BY <1>b, <1>t, <3>3, RemoveOldTagEffect
    <3>5. CASE mode = "switch"
      <4>1. handler[TagOf[cur]] = cur  BY <2>1, <3>5 DEF Up, Switching, Building
      <4>2. handler'[TagOf[cur]] = cur  BY <1>t, <3>3, <3>4, <3>5, <4>1
      <4> QED BY <3>3, <3>5, <4>2, <2>1 DEF Up, Switching, Building, Tag
    <3>6. CASE mode = "replace"
      BY <3>2, <3>3, <3>6 DEF Up, Switching, Building
    <3> QED BY <2>4, <3>5, <3>6
  <2>5. CASE mode \in {"restore", "diff"}
    <3>1. npc' = "limiter" /\ UNCHANGED <<handler, node, mode>>
      BY <2>1, <2>5 DEF UsersFailed, core
    <3> QED BY <2>1, <2>5, <3>1 DEF Up, Switching, Tag
  <2> QED BY <2>1, <2>3, <2>4, <2>5 DEF UsersFailed
<1>4. ASSUME NEW u \in UIDs, AddUser(u) PROVE Up'
  BY <1>u, <1>4 DEF AddUser, published, monLocal
<1>5. ASSUME NEW u \in UIDs, RemoveUser(u) PROVE Up'
  <2>1. /\ npc = "remove" /\ npc' \in {npc, "limDel"}
        /\ UNCHANGED <<node, mode, cur, handler>>
    BY <1>5 DEF RemoveUser, published, monLocal
  <2> QED BY <1>v, <2>1 DEF Switching, Building
<1>6. CASE AddUsersDone \/ UpdateAnyTLSUsers
  <2>1. npc = "users" /\ npc' = "limiter" /\ UNCHANGED <<node, mode, cur, handler>>
    BY <1>6 DEF AddUsersDone, UpdateAnyTLSUsers, published, monLocal, core
  <2> QED BY <1>v, <2>1 DEF Switching, Building
<1>7. CASE SetLimits
  <2>1. /\ npc = "limiter" /\ npc' \in {"dropOld", "rules", "idle", "publish"}
        /\ UNCHANGED <<node, mode, cur, handler>>
    BY <1>b, <1>7 DEF SetLimits, monLocal, core, MonitorType
  <2> QED BY <1>v, <2>1 DEF Switching, Building
<1>8. CASE DropOld
  <2>1. /\ npc = "dropOld" /\ npc' = "rules" /\ removeOldTag(TagOf[cur])
        /\ UNCHANGED <<node, mode, cur>>
    BY <1>8 DEF DropOld, published, monLocal
  <2>2. TagOf[cur] # Tag  BY <1>a, <2>1 DEF Stage, Tag
  <2>3. handler'[Tag] = handler[Tag]  BY <1>b, <1>t, <2>1, <2>2, RemoveOldTagEffect
  <2> QED BY <2>1, <2>3 DEF Up, Switching, Building, Tag
<1>9. CASE UpdateRule
  <2>1. /\ npc = "rules" /\ npc' \in {"idle", "diff", "publish"}
        /\ UNCHANGED <<node, mode, cur, handler>>
    BY <1>b, <1>9 DEF UpdateRule, published, monLocal, MonitorType, core
  <2> QED BY <1>v, <2>1 DEF Switching, Building
<1>10. ASSUME NEW n \in Nodes, NEW list \in Lists, Fetch(n, list) PROVE Up'
  <2>1. npc = "idle" /\ npc' = "compare" /\ UNCHANGED <<node, mode, cur, handler>>
    BY <1>10 DEF Fetch, published, core
  <2> QED BY <1>v, <2>1 DEF Switching, Building
<1>11. CASE Compare
  <2>1. handler[Tag] = node /\ UNCHANGED handler  BY <1>11 DEF Compare, Up, core
  <2> QED BY <1>11, <2>1 DEF Compare, Up, Switching, Building, Tag
<1>12. CASE RemoveForReplace
  <2>1. handler[TagOf[cur]] # None
    BY <1>a, <1>b, <1>t, <1>12 DEF RemoveForReplace, Up, Stage, Tag
  <2>2. npc' = "inbound" /\ mode' = mode /\ mode = "replace"
    BY <1>12, <1>a, <2>1 DEF RemoveForReplace, Stage
  <2> QED BY <2>2 DEF Up, Switching
<1>13. CASE Diff
  <2>1. /\ npc = "diff" /\ npc' \in {"publish", "limDel", "remove"}
        /\ UNCHANGED <<node, mode, cur, handler>>
    BY <1>13 DEF Diff, published, core
  <2> QED BY <1>v, <2>1 DEF Switching, Building
<1>14. CASE RemoveUsersDone \/ Publish
  <2>1. /\ npc \in {"remove", "publish"} /\ npc' \in {"limDel", "idle"}
        /\ UNCHANGED <<node, mode, cur, handler>>
    BY <1>14 DEF RemoveUsersDone, Publish, published, core, monLocal
  <2> QED BY <1>v, <2>1 DEF Switching, Building
<1>15. CASE PurgeDeleted
  <2>1. /\ npc = "limDel" /\ npc' \in {"limiter", "users"} /\ mode = "diff"
        /\ UNCHANGED <<node, mode, cur, handler>>
    BY <1>15, <1>a DEF PurgeDeleted, published, core, monLocal, Stage
  <2> QED BY <1>v, <2>1 DEF Switching, Building
<1>16. CASE KickStep \/ Close  BY <1>u, <1>16, OthersLeave
<1>17. CASE UNCHANGED vars  BY <1>u, <1>17 DEF vars, published, monLocal, core
<1> QED
  BY <1>1, <1>2, <1>3, <1>4, <1>5, <1>6, <1>7, <1>8, <1>9, <1>10, <1>11, <1>12, <1>13,
     <1>14, <1>15, <1>16, <1>17 DEF Next, NodeStep

LEMMA InitUp == Init => Up /\ FreshTable
BY DEF Init, Up, FreshTable, Switching

LEMMA UpServes ==
  ASSUME ServingInv
  PROVE  Serving
<1> SUFFICES ASSUME npc = "idle", ~closed
             PROVE  /\ handler[Tag] = node
                    /\ Tag \in listening \cap outbound
                    /\ limiter[Tag] # None
  BY DEF Serving, Resting
<1>1. handler[Tag] = node  BY DEF ServingInv, Up
<1>2. handler[Tag] # None /\ Tag \in Tags
  BY <1>1, TypeParts, TagType, ControllerAssumption
     DEF ServingInv, EntriesInv, PublishedType, Tag
<1>3. Tag \in listening \cap outbound  BY <1>2 DEF ServingInv, EntriesInv, Shape
<1>4. limiter[Tag] # None
  <2>1. LimitsOn  BY Zenon DEF ServingInv, Limited
  <2> QED BY <2>1 DEF LimitsOn, Switching, Building
<1> QED BY <1>1, <1>3, <1>4

(* When besides a cycle meets at most one fault, the node that is published *)
(* between cycles is the one that is built, listens and is limited: what    *)
(* applyNodeInfoChange's comment calls transactional.                       *)
THEOREM PublishedNodeServes == CleanFaults /\ MaxFaults <= 1 => (Spec => []Serving)
<1> SUFFICES ASSUME CleanFaults, MaxFaults <= 1 PROVE Spec => []Serving  OBVIOUS
<1>1. Init => ServingInv
  BY InitType, InitEntries, InitUp, InitLimited DEF ServingInv, EntriesInv
<1>2. ServingInv /\ [Next]_vars => ServingInv'
  <2> SUFFICES ASSUME ServingInv, [Next]_vars PROVE ServingInv'  OBVIOUS
  <2>1. EntriesInv'  BY NextType, NextStage, NextEntries DEF ServingInv, EntriesInv
  <2>2. Up' /\ FreshTable'  BY NextUp, NextFresh DEF ServingInv
  <2>3. Limited'  BY NextLimited DEF ServingInv, EntriesInv
  <2> QED BY <2>1, <2>2, <2>3 DEF ServingInv
<1>3. ServingInv => Serving  BY UpServes
<1> QED BY <1>1, <1>2, <1>3, PTL DEF Spec

-----------------------------------------------------------------------------
(* A cycle settles and a switch interrupts nobody, with one node per tag    *)
(* and no user refused by the inbound; all else may fail, in any number.    *)
OneNodePerTag == \A m, n \in Nodes : TagOf[m] = TagOf[n] => m = n
UsersAccepted == "user" \notin Faults

(* addNewTag, whatever becomes of it, changes nothing under another tag.    *)
LEMMA BuildLeavesOthers ==
  ASSUME TypeOK, Stage, addInbound \/ addOutbound
  PROVE  \A s \in Tags \ {Tag} : /\ handler'[s] = handler[s] /\ table'[s] = table[s]
                                 /\ Stands(s) => Stands(s)'
<1>a. CoreType /\ Tag \in Tags  BY TypeParts, TagType DEF PublishedType, Tag
<1>1. CASE addInbound
  <2>1. Target = node  BY <1>1 DEF addInbound, Stage
  <2>2. CASE UNCHANGED core  BY <2>2 DEF core, Stands
  <2>3. ASSUME NEW b, AddHandler(TagOf[Target], Target, b)
        PROVE  \A s \in Tags \ {Tag} : /\ handler'[s] = handler[s] /\ table'[s] = table[s]
                                       /\ Stands(s) => Stands(s)'
    <3>1. AddHandler(Tag, node, b)  BY <2>1, <2>3 DEF Tag
    <3>2. /\ \A s \in Tags \ {Tag} : handler'[s] = handler[s] /\ table'[s] = table[s]
          /\ listening \subseteq listening' /\ outbound' = outbound
      BY <1>a, <3>1, AddHandlerEffect
    <3> QED BY <3>2 DEF Stands
  <2> QED BY <1>1, <2>2, <2>3 DEF addInbound
<1>2. CASE addOutbound
  <2>1. /\ UNCHANGED <<handler, listening, table>>
        /\ outbound' = outbound \/ outbound' = outbound \cup {TagOf[Target]}
    BY <1>2 DEF addOutbound
  <2> QED BY <2>1 DEF Stands
<1> QED BY <1>1, <1>2

LEMMA NextStanding ==
  ASSUME OneNodePerTag, TypeOK, Stage, Standing, [Next]_vars
  PROVE  Standing'
<1>b. MonitorType /\ node \in Nodes /\ CoreType  BY TypeParts DEF PublishedType
<1>t. Tag \in Tags /\ TagOf[cur] \in Tags /\ TagOf[new] \in Tags /\ None \notin Nodes
      /\ cur \in Nodes /\ new \in Nodes
  BY <1>b, TagType, ControllerAssumption DEF Tag, MonitorType
<1>g. Building => Target = node  BY DEF Building, Stage
<1>m. mode \in {"start", "switch", "diff"}  BY <1>b DEF Standing, MonitorType
<1>w. Switching => TagOf[cur] # Tag
  BY DEF Switching, Building, Stage, Target, Tag
<1>c. UNCHANGED <<handler, listening, outbound>> => \A t : Stands(t)' <=> Stands(t)
  BY DEF Stands
<1>u. UNCHANGED <<npc, mode, node, cur, handler, listening, outbound>> => Standing'
  BY <1>c DEF Standing, Switching, Building, Tag
<1>v. ASSUME npc \in {"users", "limiter", "rules", "diff", "remove", "limDel", "publish",
                      "idle"},
             UNCHANGED <<node, mode, cur, handler, listening, outbound>>,
             npc' \notin {"inbound", "outbound", "failed"}, Switching' => Switching
      PROVE  Standing'
  <2>1. Stands(Tag)  BY <1>v DEF Standing, Switching, Building
  <2> QED BY <1>c, <1>v, <2>1 DEF Standing, Tag
<1>f. ASSUME addInbound \/ addOutbound, TagFailed PROVE Standing'
  <2>1. Building /\ UNCHANGED <<cur, new>>
    BY <1>f DEF addInbound, addOutbound, Building, monLocal
  <2>2. CASE mode = "start"
    BY <1>f, <2>2 DEF TagFailed, Standing, Switching, Building
  <2>3. CASE mode = "switch"
    <3>1. npc' = "idle" /\ node' = cur /\ mode' = mode  BY <1>f, <2>3 DEF TagFailed
    <3>2. Stands(TagOf[cur]) /\ TagOf[cur] # Tag
      BY <1>w, <2>1, <2>3 DEF Standing, Switching
    <3>3. Stands(TagOf[cur])'  BY <1>f, <1>t, <2>1, <3>2, BuildLeavesOthers
    <3>4. Stands(Tag)'  BY <2>1, <3>1, <3>3 DEF Stands, Tag
    <3> QED BY <2>3, <3>1, <3>4 DEF Standing, Switching, Building
  <2> QED BY <1>f, <1>m, <2>2, <2>3 DEF TagFailed
<1>1. CASE addInbound
  <2>1. npc = "inbound" /\ UNCHANGED <<cur, new>> /\ Target = node
    BY <1>1, <1>g DEF addInbound, monLocal, Building
  <2>2. CASE AddHandler(TagOf[Target], Target, TRUE) /\ npc' = "outbound"
             /\ UNCHANGED <<node, mode>>
    <3>1. AddHandler(Tag, node, TRUE)  BY <2>1, <2>2 DEF Tag
    <3>2. handler'[Tag] # None /\ Tag \in listening'
      BY <1>b, <1>t, <3>1 DEF AddHandler, CoreType
    <3>3. Switching => Stands(TagOf[cur])'
      BY <1>1, <1>t, <1>w, <2>1, BuildLeavesOthers DEF Standing
    <3> QED BY <1>m, <2>1, <2>2, <3>2, <3>3 DEF Standing, Switching, Building, Tag, Stage
  <2> QED BY <1>1, <1>f, <2>2 DEF addInbound
<1>2. CASE addOutbound
  <2>1. npc = "outbound" /\ TagOf[Target] = Tag /\ UNCHANGED <<cur, new>>
    BY <1>2, <1>g DEF addOutbound, Building, Tag, monLocal
  <2>2. CASE outbound' = outbound \cup {Tag} /\ npc' = "users" /\ UNCHANGED <<node, mode>>
    <3>1. Stands(Tag)'  BY <1>2, <2>1, <2>2 DEF addOutbound, Standing, Stands, Tag
    <3>2. Switching => Stands(TagOf[cur])'
      BY <1>2, <1>t, <1>w, <2>1, BuildLeavesOthers DEF Standing
    <3> QED BY <1>m, <2>1, <2>2, <3>1, <3>2 DEF Standing, Switching, Building, Tag
  <2> QED BY <1>2, <1>f, <1>m, <2>1, <2>2 DEF addOutbound
<1>3. CASE AddUsersFails
  <2>1. UsersFailed /\ npc = "users" /\ UNCHANGED <<cur, new>> /\ Target = node
    BY <1>3, <1>g DEF AddUsersFails, monLocal, Building
  <2>2. CASE mode = "start"
    BY <2>1, <2>2 DEF UsersFailed, Standing, Switching, Building
  <2>3. CASE mode = "switch"
    <3>1. removeOldTag(TagOf[new]) /\ node' = cur /\ npc' = "idle" /\ mode' = mode
      BY <2>1, <2>3 DEF UsersFailed
    <3>2. Stands(TagOf[cur]) /\ TagOf[cur] # TagOf[new]
      BY <2>1, <2>3 DEF Standing, Switching, Building, Stage
    <3>3. Stands(TagOf[cur])'  BY <1>b, <1>t, <2>1, <3>1, <3>2, RemoveOldTagEffect DEF Stands
    <3>4. Stands(Tag)'  BY <2>1, <3>1, <3>3 DEF Stands, Tag
    <3> QED BY <2>3, <3>1, <3>4 DEF Standing, Switching, Building
  <2>4. CASE mode = "diff"
    <3>1. npc' = "limiter" /\ UNCHANGED <<handler, listening, outbound, node, mode>>
      BY <2>1, <2>4 DEF UsersFailed, core
    <3> QED BY <1>v, <2>1, <2>4, <3>1 DEF Switching
  <2> QED BY <1>m, <2>2, <2>3, <2>4
<1>4. ASSUME NEW u \in UIDs, AddUser(u) PROVE Standing'
  BY <1>u, <1>4 DEF AddUser, published, monLocal
<1>5. ASSUME NEW u \in UIDs, RemoveUser(u) PROVE Standing'
  <2>1. /\ npc = "remove" /\ npc' \in {npc, "limDel"}
        /\ UNCHANGED <<node, mode, cur, handler, listening, outbound>>
    BY <1>5 DEF RemoveUser, published, monLocal
  <2> QED BY <1>v, <2>1 DEF Switching, Building
<1>6. CASE AddUsersDone \/ UpdateAnyTLSUsers
  <2>1. /\ npc = "users" /\ npc' = "limiter"
        /\ UNCHANGED <<node, mode, cur, handler, listening, outbound>>
    BY <1>6 DEF AddUsersDone, UpdateAnyTLSUsers, published, monLocal, core
  <2> QED BY <1>v, <2>1 DEF Switching, Building
<1>7. CASE SetLimits
  <2>1. /\ npc = "limiter" /\ npc' \in {"dropOld", "rules", "idle", "publish"}
        /\ UNCHANGED <<node, mode, cur, handler, listening, outbound>>
    BY <1>b, <1>7 DEF SetLimits, monLocal, core, MonitorType
  <2> QED BY <1>v, <2>1 DEF Switching, Building
<1>8. CASE DropOld
  <2>1. /\ npc = "dropOld" /\ npc' = "rules" /\ removeOldTag(TagOf[cur])
        /\ UNCHANGED <<node, mode, cur>>
    BY <1>8 DEF DropOld, published, monLocal
  <2>2. TagOf[cur] # Tag /\ Stands(Tag)  BY <2>1 DEF Stage, Standing, Tag
  <2>3. Stands(Tag)'  BY <1>b, <1>t, <2>1, <2>2, RemoveOldTagEffect DEF Stands, Tag
  <2> QED BY <2>1, <2>3 DEF Standing, Switching, Building
<1>9. CASE UpdateRule
  <2>1. /\ npc = "rules" /\ npc' \in {"idle", "diff", "publish"}
        /\ UNCHANGED <<node, mode, cur, handler, listening, outbound>>
    BY <1>b, <1>9 DEF UpdateRule, published, monLocal, MonitorType, core
  <2> QED BY <1>v, <2>1 DEF Switching, Building
<1>10. ASSUME NEW n \in Nodes, NEW list \in Lists, Fetch(n, list) PROVE Standing'
  <2>1. /\ npc = "idle" /\ npc' = "compare"
        /\ UNCHANGED <<node, mode, cur, handler, listening, outbound>>
    BY <1>10 DEF Fetch, published, core
  <2> QED BY <1>v, <2>1 DEF Switching, Building
<1>11. CASE Compare
  <2>1. npc = "compare" /\ cur' = node /\ UNCHANGED <<handler, listening, outbound>>
    BY <1>11 DEF Compare, core
  <2>2. Stands(Tag)  BY <2>1 DEF Standing, Switching, Building
  <2>3. \/ mode' = "diff" /\ npc' = "rules" /\ node' = node
        \/ mode' = "switch" /\ npc' = "inbound"
    BY <1>11, <1>b, <1>t DEF Compare, OneNodePerTag, Tag
  <2> QED BY <1>c, <2>1, <2>2, <2>3 DEF Standing, Switching, Building, Tag
<1>12. CASE RemoveForReplace  BY <1>12 DEF RemoveForReplace, Stage, Standing
<1>13. CASE Diff
  <2>1. /\ npc = "diff" /\ npc' \in {"publish", "limDel", "remove"}
        /\ UNCHANGED <<node, mode, cur, handler, listening, outbound>>
    BY <1>13 DEF Diff, published, core
  <2> QED BY <1>v, <2>1 DEF Switching, Building
<1>14. CASE RemoveUsersDone \/ Publish
  <2>1. /\ npc \in {"remove", "publish"} /\ npc' \in {"limDel", "idle"}
        /\ UNCHANGED <<node, mode, cur, handler, listening, outbound>>
    BY <1>14 DEF RemoveUsersDone, Publish, published, core, monLocal
  <2> QED BY <1>v, <2>1 DEF Switching, Building
<1>15. CASE PurgeDeleted
  <2>1. /\ npc = "limDel" /\ npc' \in {"limiter", "users"} /\ mode = "diff"
        /\ UNCHANGED <<node, mode, cur, handler, listening, outbound>>
    BY <1>15 DEF PurgeDeleted, published, core, monLocal, Stage
  <2> QED BY <1>v, <2>1 DEF Switching, Building
<1>16. CASE KickStep \/ Close  BY <1>u, <1>16, OthersLeave
<1>17. CASE UNCHANGED vars  BY <1>u, <1>17 DEF vars, published, monLocal, core
<1> QED
  BY <1>1, <1>2, <1>3, <1>4, <1>5, <1>6, <1>7, <1>8, <1>9, <1>10, <1>11, <1>12, <1>13,
     <1>14, <1>15, <1>16, <1>17 DEF Next, NodeStep

(* Any step of the kick leaves its trace in kicks and dirty.                *)
LEMMA KickTraced ==
  ASSUME TypeOK, KickSeen, KickStep
  PROVE  kicks' # 0 /\ dirty'
<1>n. kicks \in Nat  BY TypeParts, ControllerAssumption DEF CountType
<1>1. ASSUME NEW uids \in SUBSET UIDs, KickBegin(uids) PROVE kicks' # 0 /\ dirty'
  <2>1. kicks' # 0  BY <1>n, <1>1 DEF KickBegin
  <2>2. dirty'  BY <1>1, Zenon DEF KickBegin
  <2> QED BY <2>1, <2>2
<1>2. CASE kpc # "idle" /\ UNCHANGED counts
  <2>1. kicks' = kicks /\ dirty' = dirty  BY <1>2 DEF counts
  <2>2. dirty  BY <1>2, Zenon DEF KickSeen
  <2>3. kicks # 0  BY <2>2, Zenon DEF KickSeen
  <2>4. kicks' # 0  BY <2>1, <2>3
  <2>5. dirty'  BY <2>1, <2>2, Zenon
  <2> QED BY <2>4, <2>5
<1> QED BY <1>1, <1>2
        DEF KickStep, KickRead, KickApply, KickRemove, KickPurge, KickPublish

(* The monitor does not touch the kick, and only Fetch looks at it.         *)
LEMMA MonitorLeavesKick ==
  ASSUME NodeStep
  PROVE  /\ UNCHANGED <<kpc, kicks, closed>>
         /\ npc = "idle" \/ UNCHANGED dirty
         /\ npc = "idle" => npc' = "compare" /\ dirty' = (kpc # "idle")
BY DEF NodeStep, addInbound, addOutbound, AddUsersFails, AddUser, RemoveUser, AddUsersDone,
       UpdateAnyTLSUsers, SetLimits, DropOld, UpdateRule, Fetch, Compare, RemoveForReplace,
       Diff, RemoveUsersDone, PurgeDeleted, Publish, published, kickLocal, counts

LEMMA NextKickSeen ==
  ASSUME TypeOK, KickSeen, [Next]_vars
  PROVE  KickSeen'
<1>1. CASE NodeStep
  <2>1. UNCHANGED <<kpc, kicks>>  BY <1>1, MonitorLeavesKick
  <2>2. CASE UNCHANGED dirty  BY <2>1, <2>2, Zenon DEF KickSeen
  <2>3. CASE dirty' = (kpc # "idle")
    <3>1. ~dirty' => kpc = "idle"  BY <2>3, Zenon
    <3>2. kicks = 0 => kpc = "idle"  BY Zenon DEF KickSeen
    <3>3. kicks = 0 => ~dirty'  BY <2>3, <3>2, Zenon
    <3> QED BY <2>1, <3>1, <3>3, Zenon DEF KickSeen
  <2> QED BY <1>1, <2>2, <2>3, MonitorLeavesKick
<1>2. CASE KickStep
  <2>1. kicks' # 0 /\ dirty'  BY <1>2, KickTraced
  <2> QED BY <2>1, Zenon DEF KickSeen
<1>3. CASE Close
  <2>1. UNCHANGED <<kpc, kicks, dirty>>  BY <1>3 DEF Close, kickLocal, counts
  <2> QED BY <2>1, Zenon DEF KickSeen
<1>4. CASE UNCHANGED vars
  <2>1. UNCHANGED <<kpc, kicks, dirty>>  BY <1>4 DEF vars, kickLocal, counts
  <2> QED BY <2>1, Zenon DEF KickSeen
<1> QED BY <1>1, <1>2, <1>3, <1>4 DEF Next

(* addNewUser of a diff does not fail on an inbound that is up and holds    *)
(* none of the users that are to be added.                                  *)
LEMMA DiffAddsUsers ==
  ASSUME UsersAccepted, Stage, Standing, mode = "diff", AddUsersFails,
         node \in AnyTLS \/ \A u \in todo : table[Tag][u] = None
  PROVE  FALSE
<1>1. npc = "users" /\ Target = node  BY DEF AddUsersFails, Stage
<1>2. handler[Tag] # None  BY <1>1 DEF Standing, Stands
<1>3. ~Fault("user")  BY DEF UsersAccepted, Fault
<1> QED BY <1>1, <1>2, <1>3 DEF AddUsersFails

LEMMA SameList ==
  ASSUME NEW l \in Lists, NEW m \in Lists, \A u \in UIDs : l[u] = m[u]
  PROVE  l = m
BY DEF Lists

LEMMA NextFollowing ==
  ASSUME OneNodePerTag, UsersAccepted, TypeOK, Stage, Standing, KickSeen, TableFollows,
         TableSettled, [Next]_vars
  PROVE  TableFollows'
<1> SUFFICES ASSUME kicks' = 0 PROVE Following'  BY DEF TableFollows
<1>0. kicks = 0 /\ ~KickStep
  <2>1. ~KickStep  BY KickTraced
  <2>2. UNCHANGED kicks
    <3>1. CASE NodeStep  BY <3>1, MonitorLeavesKick
    <3>2. CASE Close \/ UNCHANGED vars  BY <3>2 DEF Close, counts, vars
    <3> QED BY <2>1, <3>1, <3>2 DEF Next
  <2> QED BY <2>1, <2>2
<1>1. Following  BY <1>0 DEF TableFollows
<1>s. UsersSet => table[Tag] = newUsers  BY <1>0 DEF TableSettled
<1>b. /\ MonitorType /\ node \in Nodes /\ userList \in Lists /\ CoreType
      /\ oldUsers \in Lists /\ newUsers \in Lists /\ todo \subseteq UIDs
  BY TypeParts DEF PublishedType, MonitorType
<1>t. Tag \in Tags /\ TagOf[cur] \in Tags /\ TagOf[new] \in Tags
      /\ table[Tag] \in Lists
  BY <1>b, TagType DEF Tag, MonitorType, CoreType
<1>g. Building => Target = node /\ TargetUsers = newUsers
  BY DEF Building, Stage, Standing, TargetUsers
<1>m. mode \in {"start", "switch", "diff"}  BY <1>b DEF Standing, MonitorType
<1>w. Switching => TagOf[cur] # Tag  BY DEF Switching, Building, Stage, Target, Tag
<1>u. UNCHANGED <<npc, mode, node, cur, todo, table, userList, oldUsers, newUsers>>
        => Following'
  BY <1>1 DEF Following, Switching, Building, Tag
<1>v. ASSUME \/ npc' \in {"inbound", "failed", "publish"}
             \/ npc' \in {"limiter", "dropOld", "rules"} /\ mode' # "start" /\ mode' # "diff"
             \/ npc' = "limiter",
             UNCHANGED <<userList, cur>>, Switching' => Switching,
             Switching => table'[TagOf[cur]] = table[TagOf[cur]]
      PROVE  Following'
  BY <1>1, <1>v DEF Following, Switching
<1>f. ASSUME addInbound \/ addOutbound, TagFailed PROVE Following'
  <2>1. Building /\ UNCHANGED <<cur, new, userList>>
    BY <1>f DEF addInbound, addOutbound, Building, monLocal
  <2>2. CASE mode = "start"
    BY <1>f, <2>2 DEF TagFailed, Following, Switching, Building
  <2>3. CASE mode = "switch"
    <3>1. npc' = "idle" /\ node' = cur /\ mode' = mode  BY <1>f, <2>3 DEF TagFailed
    <3>2. table[TagOf[cur]] = userList /\ TagOf[cur] # Tag
      BY <1>1, <1>w, <2>1, <2>3 DEF Following, Switching
    <3>3. table'[TagOf[cur]] = userList  BY <1>f, <1>t, <3>2, BuildLeavesOthers
    <3> QED BY <2>1, <2>3, <3>1, <3>3 DEF Following, Switching, Building, Tag
  <2> QED BY <1>f, <1>m, <2>2, <2>3 DEF TagFailed
<1>2. CASE addInbound
  <2>1. /\ npc = "inbound" /\ UNCHANGED <<cur, new, oldUsers, newUsers, userList>>
        /\ Target = node
    BY <1>2, <1>g DEF addInbound, monLocal, Building
  <2>2. CASE AddHandler(TagOf[Target], Target, TRUE) /\ npc' = "outbound"
             /\ UNCHANGED <<node, mode>>
    <3>1. AddHandler(Tag, node, TRUE)  BY <2>1, <2>2 DEF Tag
    <3>2. table'[Tag] = NoUser  BY <1>b, <1>t, <3>1, AddHandlerEffect
    <3>3. Switching => table'[TagOf[cur]] = userList
      BY <1>1, <1>2, <1>t, <1>w, BuildLeavesOthers DEF Following
    <3> QED BY <2>1, <2>2, <3>2, <3>3 DEF Following, Switching, Building, Tag
  <2> QED BY <1>2, <1>f, <2>2 DEF addInbound
<1>3. CASE addOutbound
  <2>1. CASE /\ npc' = "users" /\ todo' = Listed(newUsers) /\ UNCHANGED <<node, mode>>
    <3>1. npc = "outbound" /\ UNCHANGED <<cur, table, oldUsers, newUsers, userList>>
      BY <1>3 DEF addOutbound, monLocal
    <3>2. mode # "diff"  BY <3>1 DEF Stage
    <3>3. node \notin AnyTLS => \A u \in UIDs : table[Tag][u] = None
      BY <1>1, <3>1 DEF Following, NoUser
    <3>4. \A u \in UIDs : u \notin todo' => newUsers[u] = None  BY <2>1 DEF Listed
    <3>5. node \notin AnyTLS =>
            \A u \in UIDs : table[Tag][u] = IF u \in todo' THEN None ELSE newUsers[u]
      BY <3>3, <3>4
    <3> QED BY <1>1, <2>1, <3>1, <3>2, <3>5 DEF Following, Switching, Building, Tag
  <2> QED BY <1>3, <1>f, <1>g, <1>m, <2>1 DEF addOutbound, Building
<1>4. CASE AddUsersFails
  <2>1. UsersFailed /\ npc = "users" /\ UNCHANGED <<cur, new, userList>>
    BY <1>4 DEF AddUsersFails, monLocal
  <2>2. CASE mode = "start"
    BY <2>1, <2>2 DEF UsersFailed, Following, Switching, Building
  <2>3. CASE mode = "switch"
    <3>1. removeOldTag(TagOf[new]) /\ node' = cur /\ npc' = "idle" /\ mode' = mode
      BY <2>1, <2>3 DEF UsersFailed
    <3>2. table[TagOf[cur]] = userList /\ TagOf[cur] # TagOf[new]
      BY <1>1, <2>1, <2>3 DEF Following, Switching, Building, Stage
    <3>3. table'[TagOf[cur]] = userList  BY <1>b, <1>t, <3>1, <3>2, RemoveOldTagEffect
    <3> QED BY <2>1, <2>3, <3>1, <3>3 DEF Following, Switching, Building, Tag
  <2>4. CASE mode = "diff"
    <3>1. node \in AnyTLS \/ \A u \in todo : table[Tag][u] = None
      BY <1>1, <1>b, <2>1 DEF Following
    <3> QED BY <1>4, <2>4, <3>1, DiffAddsUsers
  <2> QED BY <1>m, <2>2, <2>3, <2>4
<1>5. ASSUME NEW u \in UIDs, AddUser(u) PROVE Following'
  <2>1. /\ npc = "users" /\ todo' = todo \ {u} /\ u \in todo /\ node \notin AnyTLS
        /\ UNCHANGED <<npc, mode, node, cur, oldUsers, newUsers, userList>>
        /\ table' = [table EXCEPT ![Tag][u] = newUsers[u]]
    BY <1>5, <1>g DEF AddUser, published, monLocal, Building
  <2>2. table'[Tag] = [table[Tag] EXCEPT ![u] = newUsers[u]]
    BY <1>b, <1>t, <2>1 DEF CoreType
  <2>3. \A v \in UIDs : table'[Tag][v] = IF v = u THEN newUsers[u] ELSE table[Tag][v]
    BY <1>t, <2>2 DEF Lists
  <2>4. \A v \in UIDs : table'[Tag][v] = IF v \in todo' THEN None ELSE newUsers[v]
    BY <1>1, <2>1, <2>3 DEF Following
  <2>5. Switching => table'[TagOf[cur]] = table[TagOf[cur]]
    BY <1>b, <1>t, <1>w, <2>1 DEF CoreType
  <2> QED BY <1>1, <2>1, <2>4, <2>5 DEF Following, Switching, Building, Tag
<1>6. ASSUME NEW u \in UIDs, RemoveUser(u) PROVE Following'
  <2>1. /\ npc = "remove" /\ u \in todo
        /\ UNCHANGED <<mode, node, cur, oldUsers, newUsers, userList>>
    BY <1>6 DEF RemoveUser, published, monLocal
  <2>2. handler[Tag] # None
    BY <2>1 DEF Standing, Stands, Switching, Building
  <2>3. table[Tag][u] # None
    BY <1>1, <2>1 DEF Following, Deleted, Listed
  <2>4. table' = [table EXCEPT ![Tag][u] = None] /\ todo' = todo \ {u} /\ UNCHANGED npc
    BY <1>6, <2>2, <2>3 DEF RemoveUser
  <2>5. table'[Tag] = [table[Tag] EXCEPT ![u] = None]  BY <1>b, <1>t, <2>4 DEF CoreType
  <2>6. \A v \in UIDs : table'[Tag][v] = IF v = u THEN None ELSE table[Tag][v]
    BY <1>t, <2>5 DEF Lists
  <2> DEFINE D == Deleted(oldUsers, newUsers)
  <2>7. /\ todo \subseteq D /\ node \notin AnyTLS /\ oldUsers = userList
        /\ \A v \in UIDs : table[Tag][v] = IF v \in D \ todo THEN None ELSE oldUsers[v]
    BY <1>1, <2>1 DEF Following
  <2>8. D' = D  BY <2>1 DEF Deleted, Listed
  <2> HIDE DEF D
  <2>9. \A v \in UIDs : table'[Tag][v] = IF v \in D \ todo' THEN None ELSE oldUsers[v]
    BY <2>1, <2>4, <2>6, <2>7
  <2>10. todo' \subseteq D /\ Tag' = Tag  BY <2>1, <2>4, <2>7 DEF Tag
  <2>11. /\ \A v \in UIDs : table'[Tag'][v] =
               IF v \in Deleted(oldUsers, newUsers)' \ todo' THEN None ELSE oldUsers'[v]
         /\ todo' \subseteq Deleted(oldUsers, newUsers)'
    BY <2>1, <2>8, <2>9, <2>10 DEF D
  <2> QED BY <2>1, <2>4, <2>7, <2>11 DEF Following, Switching, Building
<1>7. CASE AddUsersDone
  <2>1. /\ npc = "users" /\ npc' = "limiter" /\ UNCHANGED <<mode, cur, table, userList>>
    BY <1>7 DEF AddUsersDone, published, monLocal, core
  <2> QED BY <1>v, <2>1 DEF Switching, Building
<1>8. CASE UpdateAnyTLSUsers
  <2>1. /\ npc = "users" /\ npc' = "limiter" /\ UNCHANGED <<mode, cur, userList>>
        /\ table' = [table EXCEPT ![Tag] = TargetUsers]
    BY <1>8 DEF UpdateAnyTLSUsers, published, monLocal
  <2>2. Switching => table'[TagOf[cur]] = table[TagOf[cur]]
    BY <1>b, <1>t, <1>w, <2>1 DEF CoreType
  <2> QED BY <1>v, <2>1, <2>2 DEF Switching, Building
<1>9. CASE SetLimits
  <2>1. /\ npc = "limiter" /\ UNCHANGED <<node, mode, cur, newUsers, table>>
        /\ mode = "switch" => npc' = "dropOld" /\ userList' = userList
        /\ mode = "start" => npc' = "rules" /\ userList' = newUsers
        /\ mode = "diff" => npc' = "publish" /\ userList' = userList
    BY <1>9 DEF SetLimits, monLocal, core
  <2> QED BY <1>1, <1>m, <2>1 DEF Following, Switching, Building, Tag
<1>10. CASE DropOld
  <2>1. npc' = "rules" /\ mode' = "switch"  BY <1>10 DEF DropOld, Stage
  <2> QED BY <2>1 DEF Following, Switching, Building
<1>11. CASE UpdateRule
  <2>1. /\ npc = "rules" /\ UNCHANGED <<node, mode, newUsers, userList, table>>
        /\ mode = "switch" => npc' = "publish"
        /\ mode = "start" => npc' = "idle"
        /\ mode = "diff" => npc' = "diff"
    BY <1>11 DEF UpdateRule, monLocal, core, published
  <2>2. mode # "diff" => table[Tag] = newUsers  BY <1>s, <2>1 DEF UsersSet
  <2> QED BY <1>1, <1>m, <2>1, <2>2 DEF Following, Switching, Building, Tag
<1>12. ASSUME NEW n \in Nodes, NEW list \in Lists, Fetch(n, list) PROVE Following'
  <2>1. npc = "idle" /\ npc' = "compare" /\ UNCHANGED <<node, userList, table>>
    BY <1>12 DEF Fetch, published, core
  <2> QED BY <1>1, <2>1 DEF Following, Switching, Building, Tag
<1>13. CASE Compare
  <2>1. npc = "compare" /\ cur' = node /\ UNCHANGED <<table, userList>>
    BY <1>13 DEF Compare, core
  <2>2. \/ mode' = "diff" /\ npc' = "rules" /\ node' = node
        \/ mode' = "switch" /\ npc' = "inbound"
    BY <1>13, <1>b, <1>t DEF Compare, OneNodePerTag, Tag, MonitorType
  <2>3. table[TagOf[node]] = userList  BY <1>1, <2>1 DEF Following, Tag
  <2> QED BY <2>1, <2>2, <2>3 DEF Following, Switching, Building, Tag
<1>14. CASE RemoveForReplace  BY <1>14 DEF RemoveForReplace, Stage, Standing
<1>15. CASE Diff
  <2>1. /\ npc = "diff" /\ mode = "diff" /\ oldUsers' = userList
        /\ todo' = Deleted(userList, newUsers)
        /\ UNCHANGED <<node, mode, newUsers, userList, table>>
    BY <1>15 DEF Diff, Stage, published, core
  <2>2. handler[Tag] # None  BY <2>1 DEF Standing, Stands, Switching, Building
  <2>3. npc' = IF node \in AnyTLS THEN "limDel" ELSE "remove"
    BY <1>15, <2>2 DEF Diff
  <2>4. table[Tag] = userList  BY <1>1, <2>1 DEF Following
  <2>5. todo' = Deleted(oldUsers, newUsers)'  BY <2>1 DEF Deleted, Listed
  <2> QED BY <2>1, <2>3, <2>4, <2>5 DEF Following, Switching, Building, Tag
<1>16. CASE RemoveUsersDone
  <2>1. /\ npc = "remove" /\ npc' = "limDel" /\ todo = {}
        /\ UNCHANGED <<node, mode, oldUsers, newUsers, userList, table>>
    BY <1>16 DEF RemoveUsersDone, published, core, monLocal
  <2>2. node \notin AnyTLS /\ oldUsers = userList  BY <1>1, <2>1 DEF Following
  <2>3. \A u \in UIDs : table[Tag][u] =
            IF u \in Added(oldUsers, newUsers) THEN None ELSE newUsers[u]
    <3>1. \A u \in UIDs : table[Tag][u] =
            IF u \in Deleted(oldUsers, newUsers) THEN None ELSE oldUsers[u]
      BY <1>1, <2>1 DEF Following
    <3> QED BY <3>1 DEF Added, Deleted, Listed
  <2>4. Added(oldUsers, newUsers)' = Added(oldUsers, newUsers) /\ Tag' = Tag
    BY <2>1 DEF Added, Listed, Tag
  <2> QED BY <2>1, <2>2, <2>3, <2>4 DEF Following, Switching, Building
<1>17. CASE PurgeDeleted
  <2>1. /\ npc = "limDel" /\ npc' \in {"limiter", "users"} /\ mode = "diff"
        /\ todo' = Added(oldUsers, newUsers)
        /\ UNCHANGED <<node, mode, oldUsers, newUsers, userList, table>>
    BY <1>17 DEF PurgeDeleted, published, core, monLocal, Stage
  <2>2. Added(oldUsers, newUsers)' = Added(oldUsers, newUsers) /\ Tag' = Tag
    BY <2>1 DEF Added, Listed, Tag
  <2> QED BY <1>1, <2>1, <2>2 DEF Following, Switching, Building
<1>18. CASE Publish
  <2>1. /\ npc = "publish" /\ npc' = "idle" /\ userList' = newUsers
        /\ UNCHANGED <<node, mode, table>>
    BY <1>18 DEF Publish, core, monLocal
  <2>2. table[Tag] = newUsers  BY <1>s, <2>1 DEF UsersSet
  <2> QED BY <2>1, <2>2 DEF Following, Switching, Building, Tag
<1>19. CASE Close
  <2>1. UNCHANGED <<npc, mode, node, cur, todo, table, userList, oldUsers, newUsers>>
    BY <1>19 DEF Close, core, monLocal
  <2> QED BY <1>u, <2>1
<1>20. CASE UNCHANGED vars
  <2>1. UNCHANGED <<npc, mode, node, cur, todo, table, userList, oldUsers, newUsers>>
    BY <1>20 DEF vars, core, monLocal, published
  <2> QED BY <1>u, <2>1
<1> QED
  BY <1>0, <1>2, <1>3, <1>4, <1>5, <1>6, <1>7, <1>8, <1>9, <1>10, <1>11, <1>12, <1>13,
     <1>14, <1>15, <1>16, <1>17, <1>18, <1>19, <1>20 DEF Next, NodeStep

(* What brings a cycle to an end: at rest on the fetched node only after    *)
(* Start or Publish, for a switch that failed goes back to another node.    *)
LEMMA FailedSwitchGoesBack ==
  ASSUME TypeOK, Stage, Standing, TagFailed \/ UsersFailed, Building, mode # "diff",
         UNCHANGED new
  PROVE  npc' = "failed" \/ (npc' = "idle" /\ node' # new')
<1>1. mode \in {"start", "switch"}
  BY TypeParts DEF MonitorType, Standing
<1>2. mode = "switch" => cur # new  BY DEF Stage, Building
<1> QED BY <1>1, <1>2 DEF TagFailed, UsersFailed

LEMMA NextTableSettled ==
  ASSUME OneNodePerTag, UsersAccepted, TypeOK, Stage, Standing, KickSeen, TableFollows,
         TableSettled, [Next]_vars
  PROVE  TableSettled'
<1> DEFINE Clean == kicks = 0 \/ (node \in AnyTLS /\ ~dirty)
<1>b. /\ MonitorType /\ node \in Nodes /\ CoreType
      /\ newUsers \in Lists /\ todo \subseteq UIDs
  BY TypeParts DEF PublishedType, MonitorType
<1>t. Tag \in Tags /\ TagOf[cur] \in Tags /\ table[Tag] \in Lists
  BY <1>b, TagType DEF Tag, MonitorType, CoreType
<1>g. Building => Target = node /\ TargetUsers = newUsers
  BY DEF Building, Stage, Standing, TargetUsers
<1>m. mode \in {"start", "switch", "diff"}  BY <1>b DEF Standing, MonitorType
<1>q. kicks = 0 => ~dirty  BY Zenon DEF KickSeen
<1>n. ~UsersSet' /\ ~(npc' = "idle" /\ node' = new') => TableSettled'
  BY Zenon DEF TableSettled
<1>r. table'[Tag'] = newUsers' => TableSettled'  BY Zenon DEF TableSettled
<1>k. ASSUME UNCHANGED <<kicks, dirty, node, newUsers>>,
             UsersSet' \/ (npc' = "idle" /\ node' = new'),
             UsersSet, table'[Tag] = table[Tag]
      PROVE  TableSettled'
  <2>1. Clean => table[Tag] = newUsers  BY <1>k, Zenon DEF TableSettled, Clean
  <2>2. Clean' <=> Clean  BY <1>k, Zenon DEF Clean
  <2>3. Clean' => table'[Tag'] = newUsers'
    <3>1. ASSUME Clean' PROVE table'[Tag'] = newUsers'
      <4>1. Clean  BY <2>2, <3>1
      <4>2. table'[Tag'] = table[Tag] /\ newUsers' = newUsers  BY <1>k DEF Tag
      <4> QED BY <2>1, <4>1, <4>2
    <3> QED BY <3>1
  <2> QED BY <2>3, Zenon DEF TableSettled, Clean
<1>1. CASE NodeStep /\ npc # "idle"
  <2>0. UNCHANGED <<kicks, dirty>>  BY <1>1, MonitorLeavesKick
  <2>1. CASE addInbound \/ addOutbound
    <3>1. CASE TagFailed
      <4>1. Building /\ UNCHANGED new /\ mode # "diff"
        BY <2>1 DEF addInbound, addOutbound, Building, monLocal, Stage
      <4>2. npc' = "failed" \/ (npc' = "idle" /\ node' # new')
        BY <3>1, <4>1, FailedSwitchGoesBack
      <4> QED BY <1>n, <4>2 DEF UsersSet
    <3>2. CASE npc' \in {"outbound", "users"}
      BY <1>n, <3>2 DEF UsersSet
    <3> QED BY <2>1, <1>m, <3>1, <3>2 DEF addInbound, addOutbound
  <2>2. CASE AddUsersFails
    <3>1. npc = "users" /\ UsersFailed /\ UNCHANGED <<new, newUsers>>
      BY <2>2 DEF AddUsersFails, monLocal
    <3>2. CASE mode # "diff"
      <4>1. npc' = "failed" \/ (npc' = "idle" /\ node' # new')
        BY <3>1, <3>2, FailedSwitchGoesBack DEF Building
      <4> QED BY <1>n, <4>1 DEF UsersSet
    <3>3. CASE mode = "diff"
      <4>1. node \notin AnyTLS /\ ~(\A u \in todo : table[Tag][u] = None)
        BY <2>2, <3>3, DiffAddsUsers
      <4>2. kicks # 0
        <5>1. kicks = 0 => \A u \in todo : table[Tag][u] = None
          BY <1>b, <3>1, <4>1 DEF TableFollows, Following
        <5> QED BY <4>1, <5>1
      <4>3. node' = node /\ kicks' = kicks  BY <2>0, <3>1, <3>3 DEF UsersFailed
      <4>4. ~Clean' /\ node' \notin AnyTLS  BY <4>1, <4>2, <4>3 DEF Clean
      <4> QED BY <4>4, Zenon DEF TableSettled, Clean
    <3> QED BY <3>2, <3>3
  <2>3. ASSUME NEW u \in UIDs, AddUser(u) \/ RemoveUser(u) PROVE TableSettled'
    <3>1. npc' \in {"users", "remove", "limDel"}  BY <2>3 DEF AddUser, RemoveUser
    <3> QED BY <1>n, <3>1 DEF UsersSet
  <2>4. CASE AddUsersDone
    <3>1. /\ npc = "users" /\ node \notin AnyTLS /\ todo = {}
          /\ UNCHANGED <<node, table, newUsers>>
      BY <2>4, <1>g DEF AddUsersDone, Building, published, core, monLocal
    <3>2. kicks = 0 => table[Tag] = newUsers
      <4>1. kicks = 0 => \A u \in UIDs : table[Tag][u] = newUsers[u]
        BY <3>1 DEF TableFollows, Following
      <4> QED BY <1>b, <1>t, <4>1, SameList
    <3>3. kicks' = 0 => table'[Tag'] = newUsers'  BY <2>0, <3>1, <3>2 DEF Tag
    <3>4. node' \notin AnyTLS  BY <3>1
    <3> QED BY <3>3, <3>4, Zenon DEF TableSettled
  <2>5. CASE UpdateAnyTLSUsers
    <3>1. UNCHANGED <<node, newUsers>> /\ table' = [table EXCEPT ![Tag] = newUsers]
      BY <2>5, <1>g DEF UpdateAnyTLSUsers, Building, published, monLocal
    <3>2. table'[Tag'] = newUsers'  BY <1>b, <1>t, <3>1 DEF CoreType, Tag
    <3> QED BY <1>r, <3>2
  <2>6. CASE SetLimits
    <3>1. /\ npc = "limiter" /\ UNCHANGED <<node, mode, newUsers, table>>
          /\ npc' \in {"dropOld", "rules", "publish"} /\ (npc' = "rules" => mode = "start")
      BY <1>m, <2>6 DEF SetLimits, core, monLocal
    <3> QED BY <1>k, <2>0, <3>1 DEF UsersSet
  <2>7. CASE DropOld
    <3>1. /\ npc = "dropOld" /\ npc' = "rules" /\ mode = "switch"
          /\ UNCHANGED <<node, mode, newUsers>> /\ removeOldTag(TagOf[cur])
      BY <2>7 DEF DropOld, published, monLocal, Stage
    <3>2. TagOf[cur] # Tag  BY <3>1 DEF Stage, Tag
    <3>3. table'[Tag] = table[Tag]  BY <1>b, <1>t, <3>1, <3>2, RemoveOldTagEffect
    <3> QED BY <1>k, <2>0, <3>1, <3>3 DEF UsersSet
  <2>8. CASE UpdateRule
    <3>1. /\ npc = "rules" /\ UNCHANGED <<node, mode, new, newUsers, table>> /\ node = new
          /\ mode = "diff" => npc' = "diff"
          /\ mode = "start" => npc' = "idle"
          /\ mode = "switch" => npc' = "publish"
      BY <2>8 DEF UpdateRule, published, monLocal, core, Stage
    <3>2. CASE mode = "diff"  BY <1>n, <3>1, <3>2 DEF UsersSet
    <3>3. CASE mode # "diff"
      BY <1>k, <1>m, <2>0, <3>1, <3>3 DEF UsersSet
    <3> QED BY <3>2, <3>3
  <2>9. CASE Compare
    <3>1. npc' \in {"inbound", "removeOld"} \/ (npc' = "rules" /\ mode' = "diff")
      BY <2>9 DEF Compare
    <3> QED BY <1>n, <3>1 DEF UsersSet
  <2>10. CASE RemoveForReplace  BY <2>10 DEF RemoveForReplace, Stage, Standing
  <2>11. CASE Diff
    <3>1. npc = "diff" /\ handler[Tag] # None
      BY <2>11 DEF Diff, Standing, Stands, Switching, Building
    <3>2. npc' \in {"limDel", "remove"}  BY <2>11, <3>1 DEF Diff
    <3> QED BY <1>n, <3>2 DEF UsersSet
  <2>12. CASE RemoveUsersDone  BY <1>n, <2>12 DEF RemoveUsersDone, UsersSet
  <2>13. CASE PurgeDeleted
    <3>1. npc = "limDel" /\ UNCHANGED <<node, newUsers, table>>
      BY <2>13 DEF PurgeDeleted, published, core, monLocal
    <3>2. CASE npc' = "users"  BY <1>n, <3>2 DEF UsersSet
    <3>3. CASE npc' = "limiter" /\ Added(oldUsers, newUsers) = {} /\ node \notin AnyTLS
      <4>1. kicks = 0 => table[Tag] = newUsers
        <5>1. kicks = 0 => \A u \in UIDs : table[Tag][u] = newUsers[u]
          BY <3>1, <3>3 DEF TableFollows, Following
        <5> QED BY <1>b, <1>t, <5>1, SameList
      <4>2. kicks' = 0 => table'[Tag'] = newUsers'  BY <2>0, <3>1, <4>1 DEF Tag
      <4>3. node' \notin AnyTLS  BY <3>1, <3>3
      <4> QED BY <4>2, <4>3, Zenon DEF TableSettled
    <3> QED BY <2>13, <3>2, <3>3 DEF PurgeDeleted
  <2>14. CASE Publish
    <3>1. /\ npc = "publish" /\ npc' = "idle" /\ UNCHANGED <<node, new, newUsers, table>>
          /\ node = new
      BY <2>14 DEF Publish, core, monLocal, Stage
    <3> QED BY <1>k, <2>0, <3>1 DEF UsersSet
  <2> QED BY <1>1, <2>1, <2>2, <2>3, <2>4, <2>5, <2>6, <2>7, <2>8, <2>9, <2>10, <2>11,
             <2>12, <2>13, <2>14 DEF NodeStep, Fetch
<1>2. CASE NodeStep /\ npc = "idle"
  <2>1. npc' = "compare"  BY <1>2, MonitorLeavesKick
  <2> QED BY <1>n, <2>1 DEF UsersSet
<1>3. CASE KickStep
  <2>1. kicks' # 0 /\ dirty'  BY <1>3, KickTraced
  <2> QED BY <2>1, Zenon DEF TableSettled
<1>4. CASE Close \/ UNCHANGED vars
  <2>1. UNCHANGED <<npc, mode, node, new, newUsers, table, kicks, dirty>>
    BY <1>4 DEF Close, vars, core, monLocal, published, counts
  <2>2. Tag' = Tag /\ (UsersSet' <=> UsersSet)  BY <2>1 DEF Tag, UsersSet
  <2> QED BY <2>1, <2>2, Zenon DEF TableSettled
<1> QED BY <1>1, <1>2, <1>3, <1>4 DEF Next

LEMMA NextLimitsSettled ==
  ASSUME OneNodePerTag, TypeOK, Stage, Standing, KickSeen, Limited, LimitsSettled,
         [Next]_vars
  PROVE  LimitsSettled'
<1> DEFINE Held == (UsersSet /\ npc # "limiter") \/ (npc = "idle" /\ node = new)
<1>b. MonitorType /\ node \in Nodes /\ limiter \in [Tags -> (SUBSET UIDs) \cup {None}]
  BY TypeParts DEF PublishedType, LimiterType
<1>t. Tag \in Tags /\ TagOf[cur] \in Tags  BY <1>b, TagType DEF Tag, MonitorType
<1>m. mode \in {"start", "switch", "diff"}  BY <1>b DEF Standing, MonitorType
<1>n. ~Held' => LimitsSettled'  BY Zenon DEF LimitsSettled, Held
<1>k. ASSUME UNCHANGED <<closed, dirty, node, newUsers>>, Held, limiter'[Tag] = limiter[Tag]
      PROVE  LimitsSettled'
  <2>1. Listed(newUsers)' = Listed(newUsers) /\ limiter'[Tag'] = limiter[Tag]
    BY <1>k DEF Listed, Tag
  <2>2. ~dirty /\ ~closed => Listed(newUsers) \subseteq limiter[Tag]
    BY <1>k, Zenon DEF LimitsSettled, Held
  <2>3. ~dirty /\ ~closed => Listed(newUsers)' \subseteq limiter'[Tag']
    BY <2>1, <2>2
  <2> QED BY <1>k, <2>3, Zenon DEF LimitsSettled
<1>1. CASE NodeStep /\ npc # "idle"
  <2>0. UNCHANGED <<closed, dirty>>  BY <1>1, MonitorLeavesKick
  <2>1. CASE addInbound \/ addOutbound
    <3>1. CASE TagFailed
      <4>1. Building /\ UNCHANGED new /\ mode # "diff"
        BY <2>1 DEF addInbound, addOutbound, Building, monLocal, Stage
      <4>2. npc' = "failed" \/ (npc' = "idle" /\ node' # new')
        BY <3>1, <4>1, FailedSwitchGoesBack
      <4> QED BY <1>n, <4>2 DEF UsersSet
    <3>2. CASE npc' \in {"outbound", "users"}
      BY <1>n, <3>2 DEF UsersSet
    <3> QED BY <2>1, <1>m, <3>1, <3>2 DEF addInbound, addOutbound
  <2>2. CASE AddUsersFails
    <3>1. npc = "users" /\ UsersFailed /\ UNCHANGED new  BY <2>2 DEF AddUsersFails, monLocal
    <3>2. CASE mode # "diff"
      <4>1. npc' = "failed" \/ (npc' = "idle" /\ node' # new')
        BY <3>1, <3>2, FailedSwitchGoesBack DEF Building
      <4> QED BY <1>n, <4>1 DEF UsersSet
    <3>3. CASE mode = "diff"
      <4>1. npc' = "limiter"  BY <3>1, <3>3 DEF UsersFailed
      <4> QED BY <1>n, <4>1
    <3> QED BY <3>2, <3>3
  <2>3. ASSUME NEW u \in UIDs, AddUser(u) \/ RemoveUser(u) PROVE LimitsSettled'
    <3>1. npc' \in {"users", "remove", "limDel"}  BY <2>3 DEF AddUser, RemoveUser
    <3> QED BY <1>n, <3>1 DEF UsersSet
  <2>4. CASE AddUsersDone \/ UpdateAnyTLSUsers
    <3>1. npc' = "limiter"  BY <2>4 DEF AddUsersDone, UpdateAnyTLSUsers
    <3> QED BY <1>n, <3>1
  <2>5. CASE SetLimits
    <3>1. /\ npc = "limiter" /\ UNCHANGED <<node, mode, newUsers>>
          /\ limiter' = [limiter EXCEPT ![Tag] = UpdatedLimits(Tag)]
      BY <2>5 DEF SetLimits, monLocal
    <3>2. TargetUsers = newUsers  BY DEF TargetUsers, Standing
    <3>3. ASSUME ~closed' PROVE Listed(newUsers) \subseteq UpdatedLimits(Tag)
      <4>1. CASE mode # "diff"  BY <3>2, <4>1 DEF UpdatedLimits
      <4>2. CASE mode = "diff"
        <5>1. LimitsOn  BY <2>0, <3>3, Zenon DEF Limited
        <5>2. limiter[Tag] # None  BY <3>1, <4>2, <5>1 DEF LimitsOn, Switching
        <5> QED BY <4>2, <5>2 DEF UpdatedLimits
      <4> QED BY <4>1, <4>2
    <3>4. Listed(newUsers)' = Listed(newUsers) /\ limiter'[Tag'] = UpdatedLimits(Tag)
      BY <1>b, <1>t, <3>1 DEF Listed, Tag
    <3>5. ~closed' => Listed(newUsers)' \subseteq limiter'[Tag']
      BY <3>3, <3>4
    <3> QED BY <3>5, Zenon DEF LimitsSettled
  <2>6. CASE DropOld
    <3>1. /\ npc = "dropOld" /\ UNCHANGED <<node, newUsers>>
          /\ limiter' = [limiter EXCEPT ![TagOf[cur]] = None]
      BY <2>6 DEF DropOld, published, monLocal
    <3>2. TagOf[cur] # Tag  BY <3>1 DEF Stage, Tag
    <3>3. limiter'[Tag] = limiter[Tag]  BY <1>b, <1>t, <3>1, <3>2
    <3> QED BY <1>k, <2>0, <3>1, <3>3 DEF UsersSet
  <2>7. CASE UpdateRule
    <3>1. /\ npc = "rules" /\ UNCHANGED <<node, newUsers, limiter>>
          /\ mode = "diff" => npc' = "diff"
      BY <2>7 DEF UpdateRule, published, monLocal
    <3>2. CASE mode = "diff"  BY <1>n, <3>1, <3>2 DEF UsersSet
    <3>3. CASE mode # "diff"  BY <1>k, <2>0, <3>1, <3>3 DEF UsersSet
    <3> QED BY <3>2, <3>3
  <2>8. CASE Compare
    <3>1. npc' \in {"inbound", "removeOld"} \/ (npc' = "rules" /\ mode' = "diff")
      BY <2>8 DEF Compare
    <3> QED BY <1>n, <3>1 DEF UsersSet
  <2>9. CASE RemoveForReplace  BY <2>9 DEF RemoveForReplace, Stage, Standing
  <2>10. CASE Diff
    <3>1. npc = "diff" /\ handler[Tag] # None
      BY <2>10 DEF Diff, Standing, Stands, Switching, Building
    <3>2. npc' \in {"limDel", "remove"}  BY <2>10, <3>1 DEF Diff
    <3> QED BY <1>n, <3>2 DEF UsersSet
  <2>11. CASE RemoveUsersDone \/ PurgeDeleted
    <3>1. npc' \in {"limDel", "limiter", "users"}  BY <2>11 DEF RemoveUsersDone, PurgeDeleted
    <3> QED BY <1>n, <3>1 DEF UsersSet
  <2>12. CASE Publish
    <3>1. npc = "publish" /\ UNCHANGED <<node, newUsers, limiter>>
      BY <2>12 DEF Publish, monLocal
    <3> QED BY <1>k, <2>0, <3>1 DEF UsersSet
  <2> QED BY <1>1, <2>1, <2>2, <2>3, <2>4, <2>5, <2>6, <2>7, <2>8, <2>9, <2>10, <2>11,
             <2>12 DEF NodeStep, Fetch
<1>2. CASE NodeStep /\ npc = "idle"
  <2>1. npc' = "compare"  BY <1>2, MonitorLeavesKick
  <2> QED BY <1>n, <2>1 DEF UsersSet
<1>3. CASE KickStep
  <2>1. dirty'  BY <1>3, KickTraced
  <2> QED BY <2>1, Zenon DEF LimitsSettled
<1>4. CASE Close
  <2>1. closed'  BY <1>4, Zenon DEF Close
  <2> QED BY <2>1, Zenon DEF LimitsSettled
<1>5. CASE UNCHANGED vars
  <2>1. UNCHANGED <<npc, mode, node, new, newUsers, limiter, dirty, closed>>
    BY <1>5 DEF vars, monLocal, published, counts
  <2>2. CASE Held  BY <1>k, <2>1, <2>2
  <2>3. CASE ~Held
    <3>1. ~Held'  BY <2>1, <2>3 DEF Held, UsersSet
    <3> QED BY <1>n, <3>1
  <2> QED BY <2>2, <2>3
<1> QED BY <1>1, <1>2, <1>3, <1>4, <1>5 DEF Next

-----------------------------------------------------------------------------
LEMMA InitSync == Init => SyncInv
<1> SUFFICES ASSUME Init PROVE SyncInv  OBVIOUS
<1>1. TypeOK /\ Stage /\ Limited  BY InitType, InitEntries, InitLimited
<1>2. npc = "inbound" /\ mode = "start" /\ kpc = "idle"  BY DEF Init
<1>3. Standing  BY <1>2 DEF Standing, Switching, Building
<1>4. KickSeen  BY Zenon DEF Init, KickSeen
<1>5. TableFollows  BY <1>2 DEF TableFollows, Following, Switching
<1>6. ~UsersSet /\ npc # "idle"  BY <1>2 DEF UsersSet
<1>7. TableSettled /\ LimitsSettled  BY <1>6, Zenon DEF TableSettled, LimitsSettled
<1> QED BY <1>1, <1>3, <1>4, <1>5, <1>7 DEF SyncInv

LEMMA NextSync ==
  ASSUME OneNodePerTag, UsersAccepted, SyncInv, [Next]_vars
  PROVE  SyncInv'
<1>1. TypeOK' /\ Stage' /\ Limited'  BY NextType, NextStage, NextLimited DEF SyncInv
<1>2. Standing' /\ KickSeen'  BY NextStanding, NextKickSeen DEF SyncInv
<1>3. TableFollows'  BY NextFollowing DEF SyncInv
<1>4. TableSettled'  BY NextTableSettled DEF SyncInv
<1>5. LimitsSettled'  BY NextLimitsSettled DEF SyncInv
<1> QED BY <1>1, <1>2, <1>3, <1>4, <1>5 DEF SyncInv

LEMMA SyncSettles ==
  ASSUME SyncInv
  PROVE  CycleSettles
<1> SUFFICES ASSUME node \in AnyTLS \/ kicks = 0, Adopted
             PROVE  table[Tag] = newUsers /\ Listed(newUsers) \subseteq limiter[Tag]
  BY Zenon DEF CycleSettles, CleanCycleSyncs, KickRepaired, NobodyUnlimited
<1>1. npc = "idle" /\ new = node /\ newUsers = userList  BY Zenon DEF Adopted, Resting
<1>2. ~dirty /\ ~closed  BY Zenon DEF Adopted, Resting
<1>3. table[Tag] = newUsers
  <2>1. CASE kicks = 0  BY <1>1, <2>1 DEF SyncInv, TableFollows, Following
  <2>2. CASE node \in AnyTLS  BY <1>1, <1>2, <2>2, Zenon DEF SyncInv, TableSettled
  <2> QED BY <2>1, <2>2
<1>4. Listed(newUsers) \subseteq limiter[Tag]
  BY <1>1, <1>2, Zenon DEF SyncInv, LimitsSettled
<1> QED BY <1>3, <1>4

(* With one node per tag and no user refused, whatever else fails: a cycle  *)
(* of nodeInfoMonitor that adopts the node and the list it fetched, and     *)
(* that no kick disturbed, leaves exactly those users on the inbound, each  *)
(* with its limits; for VLESS as long as nobody was ever kicked.            *)
THEOREM CycleSyncsUsers == OneNodePerTag /\ UsersAccepted => (Spec => []CycleSettles)
<1> SUFFICES ASSUME OneNodePerTag, UsersAccepted PROVE Spec => []CycleSettles  OBVIOUS
<1>1. Init => SyncInv  BY InitSync
<1>2. SyncInv /\ [Next]_vars => SyncInv'  BY NextSync
<1>3. SyncInv => CycleSettles  BY SyncSettles
<1> QED BY <1>1, <1>2, <1>3, PTL DEF Spec

LEMMA SyncServes ==
  ASSUME SyncInv
  PROVE  NoServiceGap
<1> SUFFICES ASSUME NEW u \in UIDs, userList[u] # None, newUsers[u] = userList[u],
                    mode # "start", kicks = 0
             PROVE  \E t \in listening \cap outbound : table[t][u] = userList[u]
  BY DEF NoServiceGap, Stays
<1>1. Following  BY DEF SyncInv, TableFollows
<1>2. CASE Switching
  <2>1. TagOf[cur] \in listening \cap outbound  BY <1>2 DEF SyncInv, Standing, Stands
  <2>2. table[TagOf[cur]] = userList  BY <1>1, <1>2 DEF Following
  <2> QED BY <2>1, <2>2
<1>3. CASE ~Switching
  <2>1. mode \in {"switch", "diff"} /\ npc # "failed"
    BY TypeParts DEF SyncInv, Standing, MonitorType, Stage
  <2>2. Tag \in listening \cap outbound
    BY <1>3, <2>1 DEF SyncInv, Standing, Stands
  <2>3. table[Tag][u] = userList[u]
    <3>1. CASE UsersSet
      <4>1. table[Tag] = newUsers  BY <3>1 DEF SyncInv, TableSettled
      <4> QED BY <4>1
    <3>2. CASE npc \in {"idle", "compare", "diff"} \/ (npc = "rules" /\ mode = "diff")
      BY <1>1, <3>2 DEF Following
    <3>3. CASE npc = "remove"
      BY <1>1, <3>3 DEF Following, Deleted
    <3>4. CASE npc = "limDel"
      BY <1>1, <3>4 DEF Following, Added
    <3>5. CASE npc = "users" /\ mode = "diff"
      BY <1>1, <3>5 DEF Following, Added
    <3> QED
      BY <1>3, <2>1, <3>1, <3>2, <3>3, <3>4, <3>5, TypeParts
         DEF SyncInv, MonitorType, Stage, Switching, Building, UsersSet, Standing
  <2> QED BY <2>2, <2>3
<1> QED BY <1>2, <1>3

(* Under the same conditions nobody who is listed before and after, with    *)
(* the same UUID, is ever without an inbound that listens, has its outbound *)
(* and knows them: neither a diff nor a switch of the tag, failed or not,   *)
(* interrupts service (applyNodeInfoChange).                                *)
THEOREM SwitchKeepsService == OneNodePerTag /\ UsersAccepted => (Spec => []NoServiceGap)
<1> SUFFICES ASSUME OneNodePerTag, UsersAccepted PROVE Spec => []NoServiceGap  OBVIOUS
<1>1. Init => SyncInv  BY InitSync
<1>2. SyncInv /\ [Next]_vars => SyncInv'  BY NextSync
<1>3. SyncInv => NoServiceGap  BY SyncServes
<1> QED BY <1>1, <1>2, <1>3, PTL DEF Spec
=============================================================================
