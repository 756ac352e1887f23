---------------------------- MODULE Controller ----------------------------
(***************************************************************************)
(* One node's controller (service/controller/controller.go, control.go):   *)
(* Start, the node monitor that makes the Xray core follow the panel's     *)
(* node and user list, the part of the user monitor that kicks users       *)
(* (applyIllegalKickUIDs), and Close.                                      *)
(*                                                                         *)
(* The core is what the managers of Xray-core keep per tag: an inbound     *)
(* handler, whether it is listening, its user table, and an outbound; the  *)
(* dispatcher adds the limiter's and the rule manager's entries.  A user   *)
(* list maps a UID to its UUID, None for "not listed".  The panel answers  *)
(* every fetch with any node and any list.                                 *)
(*                                                                         *)
(* Start and the node monitor share addNewTag and addNewUser.  mode says   *)
(* on whose behalf these run: "start", "switch" (the tag changed),         *)
(* "replace" (same tag), "restore" (after a failed replacement) or "diff"  *)
(* (same node, users only).  A failed fetch ends a cycle without effect.   *)
(***************************************************************************)
EXTENDS Naturals, FiniteSets

CONSTANTS
    Nodes, Tags, TagOf,  \* node configurations and their tags (buildNodeTag)
    AnyTLS,        \* the nodes of type anytls; the others are VLESS
    UIDs, UUIDs,
    None,
    Faults,        \* the calls that may fail in this instance
    MaxFaults,     \* bound: failing calls per Start or monitor cycle
    MaxCycles,     \* bound: node monitor cycles
    MaxKicks       \* bound: kick lists received from the panel

ASSUME ControllerAssumption ==
    /\ TagOf \in [Nodes -> Tags]
    /\ \A m, n \in Nodes : TagOf[m] = TagOf[n] => (m \in AnyTLS <=> n \in AnyTLS)
    /\ None \notin Nodes \cup UUIDs \cup Tags
    /\ \A S \in SUBSET UIDs : S # None
    /\ Faults \subseteq {"build", "start", "outbound", "list", "user"}
    /\ MaxFaults \in Nat
    /\ MaxCycles \in Nat
    /\ MaxKicks \in Nat

VARIABLES
    handler,     \* tag -> node its inbound handler was built from
    listening,   \* tags whose handler was started
    outbound,    \* tags with an outbound handler
    table,       \* tag -> user table of the handler
    limiter,     \* tag -> users the limiter knows, None: no such tag
    rules        \* tags with a rule list

VARIABLES
    node,        \* c.state: node and, through TagOf, tag
    userList,    \* c.userList
    closed,      \* closeCtx is cancelled
    npc, mode, cur, new, oldUsers, newUsers, todo,   \* Start, then the node monitor
    kpc, ktag, kuids, kusers, ktodo,                 \* the kick
    faults, cycles, kicks,
    dirty        \* history: a kick overlapped this cycle or came after it

core      == <<handler, listening, outbound, table>>
published == <<node, userList, closed>>
monLocal  == <<cur, new, oldUsers, newUsers>>
kickLocal == <<kpc, ktag, kuids, kusers, ktodo>>
counts    == <<cycles, kicks, dirty>>
vars == <<core, limiter, rules, published, npc, mode, monLocal, todo, kickLocal, faults,
          counts>>

Lists  == [UIDs -> UUIDs \cup {None}]
NoUser == [u \in UIDs |-> None]
Listed(list) == {u \in UIDs : list[u] # None}
Tag == TagOf[node]

TypeOK ==
    /\ handler \in [Tags -> Nodes \cup {None}]
    /\ listening \in SUBSET Tags
    /\ outbound \in SUBSET Tags
    /\ table \in [Tags -> Lists]
    /\ limiter \in [Tags -> (SUBSET UIDs) \cup {None}]
    /\ rules \in SUBSET Tags
    /\ node \in Nodes
    /\ userList \in Lists
    /\ closed \in BOOLEAN
    /\ npc \in {"idle", "compare", "removeOld", "inbound", "outbound", "users", "limiter",
                "dropOld", "rules", "diff", "remove", "limDel", "publish", "failed"}
    /\ mode \in {"start", "switch", "replace", "restore", "diff"}
    /\ cur \in Nodes /\ new \in Nodes
    /\ oldUsers \in Lists /\ newUsers \in Lists
    /\ todo \in SUBSET UIDs
    /\ kpc \in {"idle", "read", "apply", "remove", "limiter", "publish"}
    /\ ktag \in Tags
    /\ kuids \in SUBSET UIDs
    /\ kusers \in Lists
    /\ ktodo \in SUBSET UIDs
    /\ faults \in 0 .. MaxFaults
    /\ cycles \in 0 .. MaxCycles
    /\ kicks \in 0 .. MaxKicks
    /\ dirty \in BOOLEAN

(* Start has fetched the node; the core is empty.                           *)
Init ==
    /\ handler = [t \in Tags |-> None]
    /\ listening = {}
    /\ outbound = {}
    /\ table = [t \in Tags |-> NoUser]
    /\ limiter = [t \in Tags |-> None]
    /\ rules = {}
    /\ node \in Nodes
    /\ userList = NoUser
    /\ closed = FALSE
    /\ npc = "inbound"
    /\ mode = "start"
    /\ cur = node
    /\ new = node
    /\ oldUsers = NoUser
    /\ newUsers \in Lists
    /\ todo = {}
    /\ kpc = "idle"
    /\ ktag = TagOf[node]
    /\ kuids = {}
    /\ kusers = NoUser
    /\ ktodo = {}
    /\ faults = 0
    /\ cycles = 0
    /\ kicks = 0
    /\ dirty = FALSE

Fault(f) ==
    /\ f \in Faults
    /\ faults < MaxFaults
    /\ faults' = faults + 1

-----------------------------------------------------------------------------
(* Xray-core's managers.  AddHandler refuses a tag that is taken, and keeps *)
(* a handler whose Start fails; RemoveHandler of an unknown inbound fails.  *)

AddHandler(t, n, started) ==
    /\ handler[t] = None
    /\ handler' = [handler EXCEPT ![t] = n]
    /\ listening' = IF started THEN listening \cup {t} ELSE listening
    /\ table' = [table EXCEPT ![t] = NoUser]
    /\ UNCHANGED outbound

(* removeOldTag: without an inbound the outbound is not reached.            *)
removeOldTag(t) ==
    IF handler[t] = None THEN UNCHANGED core
    ELSE /\ handler' = [handler EXCEPT ![t] = None]
         /\ listening' = listening \ {t}
         /\ table' = [table EXCEPT ![t] = NoUser]
         /\ outbound' = outbound \ {t}

-----------------------------------------------------------------------------
(* addNewTag.                                                               *)

(* The node that addNewTag and addNewUser work on, and its users.           *)
Target == IF mode = "restore" THEN cur ELSE new
TargetUsers == IF mode = "restore" THEN oldUsers ELSE newUsers

(* mutant: a failed replacement is only logged                              *)
TagFailedNoRestore ==
    /\ npc' = IF mode = "start" THEN "failed" ELSE "idle"
    /\ node' = IF mode \in {"switch", "replace"} THEN cur ELSE node
    /\ UNCHANGED mode

(* What follows an error of addNewTag: Start gives up, a switch keeps the   *)
(* old node, a replacement puts the old node back (restoreOld).             *)
TagFailed ==
    \/ /\ mode = "start"
       /\ npc' = "failed"
       /\ UNCHANGED <<node, mode>>
    \/ /\ mode = "switch"
       /\ npc' = "idle"
       /\ node' = cur
       /\ UNCHANGED mode
    \/ /\ mode = "replace"
       /\ npc' = "inbound"
       /\ node' = cur
       /\ mode' = "restore"
    \/ /\ mode = "restore"
       /\ npc' = "idle"
       /\ UNCHANGED <<node, mode>>

addInbound ==
    /\ npc = "inbound"
    /\ \/ /\ AddHandler(TagOf[Target], Target, TRUE)
          /\ npc' = "outbound"
          /\ UNCHANGED <<node, mode, faults>>
       \/ /\ Fault("start")
          /\ AddHandler(TagOf[Target], Target, FALSE)
          /\ TagFailed
       \/ /\ handler[TagOf[Target]] # None
          /\ TagFailed
          /\ UNCHANGED <<core, faults>>
       \/ /\ Fault("build")
          /\ TagFailed
          /\ UNCHANGED core
    /\ UNCHANGED <<limiter, rules, userList, closed, monLocal, todo, kickLocal, counts>>

(* The outbound is added; then the users, which restoreOld skips, with the  *)
(* limiter, when there are none.                                            *)
addOutbound ==
    LET t == TagOf[Target]
    IN /\ npc = "outbound"
       /\ \/ /\ t \notin outbound
             /\ outbound' = outbound \cup {t}
             /\ npc' = IF mode = "restore" /\ oldUsers = NoUser THEN "idle" ELSE "users"
             /\ todo' = Listed(TargetUsers)
             /\ UNCHANGED <<node, mode, faults>>
          \/ /\ t \in outbound
             /\ TagFailed
             /\ UNCHANGED <<outbound, todo, faults>>
          \/ /\ Fault("outbound")
             /\ TagFailed
             /\ UNCHANGED <<outbound, todo>>
       /\ UNCHANGED <<handler, listening, table, limiter, rules, userList, closed, monLocal,
                      kickLocal, counts>>

-----------------------------------------------------------------------------
(* addNewUser.                                                              *)

(* mutant: the half-built inbound stays                                     *)
UsersFailedKeepsNew ==
    /\ \/ mode = "start" /\ npc' = "failed" /\ UNCHANGED <<node, mode>>
       \/ mode = "switch" /\ npc' = "idle" /\ node' = cur /\ UNCHANGED mode
       \/ mode = "replace" /\ npc' = "inbound" /\ node' = cur /\ mode' = "restore"
       \/ mode \in {"restore", "diff"} /\ npc' = "limiter" /\ UNCHANGED <<node, mode>>
    /\ UNCHANGED <<core, limiter, rules>>

(* What follows an error: Start rolls everything back, a switch and a       *)
(* replacement take the new inbound away, the others go on without.         *)
UsersFailed ==
    \/ /\ mode = "start"
       /\ removeOldTag(Tag)
       /\ limiter' = [limiter EXCEPT ![Tag] = None]
       /\ rules' = rules \ {Tag}
       /\ npc' = "failed"
       /\ UNCHANGED <<node, mode>>
    \/ /\ mode \in {"switch", "replace"}
       /\ removeOldTag(TagOf[new])
       /\ node' = cur
       /\ IF mode = "switch" THEN npc' = "idle" /\ UNCHANGED mode
                             ELSE npc' = "inbound" /\ mode' = "restore"
       /\ UNCHANGED <<limiter, rules>>
    \/ /\ mode \in {"restore", "diff"}
       /\ npc' = "limiter"
       /\ UNCHANGED <<core, limiter, rules, node, mode>>

(* GetUserList fails in Start; a malformed UUID, a user that exists, an     *)
(* inbound that is missing fail in addUsers.                                *)
AddUsersFails ==
    /\ npc = "users"
    /\ \/ mode = "start" /\ Fault("list")
       \/ Target \notin AnyTLS /\ todo # {} /\ Fault("user")
       \/ /\ \/ handler[Tag] = None
             \/ Target \notin AnyTLS /\ \E u \in todo : table[Tag][u] # None
          /\ UNCHANGED faults
    /\ UsersFailed
    /\ UNCHANGED <<userList, closed, monLocal, todo, kickLocal, counts>>

(* VLESS: AddUser, user by user.                                            *)
AddUser(u) ==
    /\ npc = "users"
    /\ Target \notin AnyTLS
    /\ u \in todo
    /\ handler[Tag] # None
    /\ table[Tag][u] = None
    /\ table' = [table EXCEPT ![Tag][u] = TargetUsers[u]]
    /\ todo' = todo \ {u}
    /\ UNCHANGED <<handler, listening, outbound, limiter, rules, published, npc, mode,
                   monLocal, kickLocal, faults, counts>>

AddUsersDone ==
    /\ npc = "users"
    /\ Target \notin AnyTLS
    /\ todo = {}
    /\ npc' = "limiter"
    /\ UNCHANGED <<core, limiter, rules, published, mode, monLocal, todo, kickLocal, faults,
                   counts>>

(* AnyTLS: Service.UpdateUsers replaces the table.                          *)
UpdateAnyTLSUsers ==
    /\ npc = "users"
    /\ Target \in AnyTLS
    /\ handler[Tag] # None
    /\ table' = [table EXCEPT ![Tag] = TargetUsers]
    /\ npc' = "limiter"
    /\ UNCHANGED <<handler, listening, outbound, limiter, rules, published, mode, monLocal,
                   todo, kickLocal, faults, counts>>

-----------------------------------------------------------------------------
(* mutant: the users deleted by this cycle are purged after the update      *)
UpdatedLimitsThenPurged(t) ==
    IF mode # "diff" THEN Listed(TargetUsers)
    ELSE IF limiter[t] = None THEN None
    ELSE (limiter[t] \cup Listed(newUsers)) \ {u \in UIDs : userList[u] # newUsers[u]}

(* AddInboundLimiter installs the users' limits, UpdateInboundLimiter adds  *)
(* to the limits that are there.                                            *)
UpdatedLimits(t) ==
    IF mode # "diff" THEN Listed(TargetUsers)
    ELSE IF limiter[t] = None THEN None ELSE limiter[t] \cup Listed(newUsers)

(* In Start the list is published before the limiter is filled; nobody      *)
(* reads either yet.                                                        *)
SetLimits ==
    /\ npc = "limiter"
    /\ limiter' = [limiter EXCEPT ![Tag] = UpdatedLimits(Tag)]
    /\ userList' = IF mode = "start" THEN newUsers ELSE userList
    /\ npc' = CASE mode = "switch" -> "dropOld"
                [] mode \in {"start", "replace"} -> "rules"
                [] mode = "restore" -> "idle"
                [] mode = "diff" -> "publish"
    /\ UNCHANGED <<core, rules, node, closed, mode, monLocal, todo, kickLocal, faults,
                   counts>>

(* The switch has succeeded: the old tag goes, with its limits and rules.   *)
DropOld ==
    /\ npc = "dropOld"
    /\ removeOldTag(TagOf[cur])
    /\ limiter' = [limiter EXCEPT ![TagOf[cur]] = None]
    /\ rules' = rules \ {TagOf[cur]}
    /\ npc' = "rules"
    /\ UNCHANGED <<published, mode, monLocal, todo, kickLocal, faults, counts>>

(* GetNodeRule and UpdateRule; a failed fetch keeps the rules.              *)
UpdateRule ==
    /\ npc = "rules"
    /\ rules' \in {rules, rules \cup {Tag}}
    /\ npc' = CASE mode = "start" -> "idle"
                [] mode = "diff" -> "diff"
                [] OTHER -> "publish"
    /\ UNCHANGED <<core, limiter, published, mode, monLocal, todo, kickLocal, faults,
                   counts>>

-----------------------------------------------------------------------------
(* nodeInfoMonitor.                                                         *)

Fetch(n, list) ==
    /\ npc = "idle"
    /\ ~closed
    /\ cycles < MaxCycles
    /\ cycles' = cycles + 1
    /\ new' = n
    /\ newUsers' = list
    /\ npc' = "compare"
    /\ faults' = 0
    /\ dirty' = (kpc # "idle")
    /\ UNCHANGED <<core, limiter, rules, published, mode, cur, oldUsers, todo, kickLocal,
                   kicks>>

(* mutant: every change removes the old inbound first                       *)
CompareRemovesFirst ==
    /\ npc = "compare"
    /\ cur' = node
    /\ oldUsers' = userList
    /\ mode' = IF new = node THEN "diff" ELSE IF TagOf[new] = Tag THEN "replace" ELSE "switch"
    /\ npc' = IF new = node THEN "rules" ELSE "removeOld"
    /\ UNCHANGED <<core, limiter, rules, published, new, newUsers, todo, kickLocal, faults,
                   counts>>

(* nodeInfoEqual, and the beginning of applyNodeInfoChange: the user list   *)
(* is saved; a new tag is published before anything is added.               *)
Compare ==
    /\ npc = "compare"
    /\ cur' = node
    /\ oldUsers' = userList
    /\ \/ /\ new = node
          /\ mode' = "diff" /\ npc' = "rules"
          /\ UNCHANGED node
       \/ /\ new # node /\ TagOf[new] # Tag
          /\ mode' = "switch" /\ npc' = "inbound"
          /\ node' = new
       \/ /\ new # node /\ TagOf[new] = Tag
          /\ mode' = "replace" /\ npc' = "removeOld"
          /\ UNCHANGED node
    /\ UNCHANGED <<core, limiter, rules, userList, closed, new, newUsers, todo, kickLocal,
                   faults, counts>>

(* Same tag: the old inbound goes first; if it is missing the change is     *)
(* given up.                                                                *)
RemoveForReplace ==
    /\ npc = "removeOld"
    /\ removeOldTag(TagOf[cur])
    /\ IF handler[TagOf[cur]] = None
       THEN npc' = "idle" /\ UNCHANGED node
       ELSE npc' = "inbound" /\ node' = new
    /\ UNCHANGED <<limiter, rules, userList, closed, mode, monLocal, todo, kickLocal, faults,
                   counts>>

(* mutant: a changed UUID does not count as a new user                      *)
AddedByUID(old, list) == Listed(list) \ Listed(old)

(* compareUserList.                                                         *)
Deleted(old, list) == {u \in Listed(old) : old[u] # list[u]}
Added(old, list)   == {u \in Listed(list) : old[u] # list[u]}

(* The list of this moment is compared with the fetched one; AnyTLS without *)
(* a server is only logged.                                                 *)
Diff ==
    /\ npc = "diff"
    /\ oldUsers' = userList
    /\ todo' = Deleted(userList, newUsers)
    /\ npc' = CASE node \in AnyTLS /\ handler[Tag] = None -> "publish"
                [] node \in AnyTLS /\ handler[Tag] # None -> "limDel"
                [] node \notin AnyTLS -> "remove"
    /\ UNCHANGED <<core, limiter, rules, published, mode, cur, new, newUsers, kickLocal,
                   faults, counts>>

(* removeUsers, user by user, until one is not there; then the limiter.     *)
RemoveUser(u) ==
    /\ npc = "remove"
    /\ u \in todo
    /\ IF handler[Tag] # None /\ table[Tag][u] # None
       THEN /\ table' = [table EXCEPT ![Tag][u] = None]
            /\ todo' = todo \ {u}
            /\ UNCHANGED npc
       ELSE npc' = "limDel" /\ UNCHANGED <<table, todo>>
    /\ UNCHANGED <<handler, listening, outbound, limiter, rules, published, mode, monLocal,
                   kickLocal, faults, counts>>

RemoveUsersDone ==
    /\ npc = "remove"
    /\ todo = {}
    /\ npc' = "limDel"
    /\ UNCHANGED <<core, limiter, rules, published, mode, monLocal, todo, kickLocal, faults,
                   counts>>

Purged(t, uids) == IF limiter[t] = None THEN None ELSE limiter[t] \ uids

(* mutant: AnyTLS, like VLESS, is updated only when somebody was added      *)
PurgeDeletedSkips ==
    LET added == Added(oldUsers, newUsers)
    IN /\ npc = "limDel"
       /\ limiter' = [limiter EXCEPT ![Tag] = Purged(Tag, Deleted(oldUsers, newUsers))]
       /\ todo' = added
       /\ npc' = IF added = {} THEN "limiter" ELSE "users"
       /\ UNCHANGED <<core, rules, published, mode, monLocal, kickLocal, faults, counts>>

(* DeleteUsersFromLimiter; addNewUser is called when somebody was added,    *)
(* for AnyTLS always.                                                       *)
PurgeDeleted ==
    LET added == Added(oldUsers, newUsers)
    IN /\ npc = "limDel"
       /\ limiter' = [limiter EXCEPT ![Tag] = Purged(Tag, Deleted(oldUsers, newUsers))]
       /\ todo' = added
       /\ npc' = IF added = {} /\ node \notin AnyTLS THEN "limiter" ELSE "users"
       /\ UNCHANGED <<core, rules, published, mode, monLocal, kickLocal, faults, counts>>

(* mutant: an empty list is published as nil                                *)
PublishNil ==
    /\ npc = "publish"
    /\ userList' = IF newUsers = NoUser THEN None ELSE newUsers
    /\ npc' = "idle"
    /\ UNCHANGED <<core, limiter, rules, node, closed, mode, monLocal, todo, kickLocal,
                   faults, counts>>

Publish ==
    /\ npc = "publish"
    /\ userList' = newUsers
    /\ npc' = "idle"
    /\ UNCHANGED <<core, limiter, rules, node, closed, mode, monLocal, todo, kickLocal,
                   faults, counts>>

-----------------------------------------------------------------------------
(* applyIllegalKickUIDs, run by the user monitor with the tag it read when  *)
(* its cycle began.                                                         *)

KickBegin(uids) ==
    /\ kpc = "idle"
    /\ mode # "start" \/ npc = "idle"
    /\ ~closed
    /\ kicks < MaxKicks
    /\ kicks' = kicks + 1
    /\ ktag' = Tag
    /\ kuids' = uids
    /\ kpc' = "read"
    /\ dirty' = TRUE
    /\ UNCHANGED <<core, limiter, rules, published, npc, mode, monLocal, todo, kusers, ktodo,
                   faults, cycles>>

KickRead ==
    /\ kpc = "read"
    /\ kusers' = userList
    /\ ktodo' = kuids \cap Listed(userList)
    /\ kpc' = IF kuids \cap Listed(userList) = {} THEN "idle" ELSE "apply"
    /\ UNCHANGED <<core, limiter, rules, published, npc, mode, monLocal, todo, ktag, kuids,
                   faults, counts>>

Kept == [u \in UIDs |-> IF u \in kuids THEN None ELSE kusers[u]]

(* An AnyTLS server gets the remaining users at once.                       *)
KickApply ==
    /\ kpc = "apply"
    /\ IF node \in AnyTLS
       THEN /\ kpc' = "limiter"
            /\ table' = IF handler[ktag] \in AnyTLS
                        THEN [table EXCEPT ![ktag] = Kept] ELSE table
       ELSE kpc' = "remove" /\ UNCHANGED table
    /\ UNCHANGED <<handler, listening, outbound, limiter, rules, published, npc, mode,
                   monLocal, todo, ktag, kuids, kusers, ktodo, faults, counts>>

(* removeUsers on the VLESS inbound.  The code looks the inbound up once    *)
(* before the loop and goes on with it when a rebuild has replaced it; here *)
(* it is looked up for every user.  What a VLESS inbound holds after a kick *)
(* no property relies on (README).                                          *)
KickRemove(u) ==
    /\ kpc = "remove"
    /\ u \in ktodo
    /\ IF /\ handler[ktag] \in Nodes \ AnyTLS
          /\ table[ktag][u] # None
       THEN /\ table' = [table EXCEPT ![ktag][u] = None]
            /\ ktodo' = ktodo \ {u}
            /\ kpc' = IF ktodo = {u} THEN "limiter" ELSE "remove"
       ELSE kpc' = "limiter" /\ UNCHANGED <<table, ktodo>>
    /\ UNCHANGED <<handler, listening, outbound, limiter, rules, published, npc, mode,
                   monLocal, todo, ktag, kuids, kusers, faults, counts>>

KickPurge ==
    /\ kpc = "limiter"
    /\ limiter' = [limiter EXCEPT ![ktag] = Purged(ktag, kuids \cap Listed(kusers))]
    /\ kpc' = "publish"
    /\ UNCHANGED <<core, rules, published, npc, mode, monLocal, todo, ktag, kuids, kusers,
                   ktodo, faults, counts>>

KickPublish ==
    /\ kpc = "publish"
    /\ userList' = Kept
    /\ kpc' = "idle"
    /\ UNCHANGED <<core, limiter, rules, node, closed, npc, mode, monLocal, todo, ktag,
                   kuids, kusers, ktodo, faults, counts>>

(* Controller.Close; cycles under way run to their end.                     *)
Close ==
    /\ ~closed
    /\ mode # "start" \/ npc \in {"idle", "failed"}
    /\ closed' = TRUE
    /\ limiter' = [limiter EXCEPT ![Tag] = None]
    /\ rules' = rules \ {Tag}
    /\ UNCHANGED <<core, node, userList, npc, mode, monLocal, todo, kickLocal, faults,
                   counts>>

-----------------------------------------------------------------------------
NodeStep ==
    \/ addInbound
    \/ addOutbound
    \/ AddUsersFails
    \/ \E u \in UIDs : AddUser(u) \/ RemoveUser(u)
    \/ AddUsersDone
    \/ UpdateAnyTLSUsers
    \/ SetLimits
    \/ DropOld
    \/ UpdateRule
    \/ \E n \in Nodes, list \in Lists : Fetch(n, list)
    \/ Compare
    \/ RemoveForReplace
    \/ Diff
    \/ RemoveUsersDone
    \/ PurgeDeleted
    \/ Publish

KickStep ==
    \/ \E uids \in SUBSET UIDs : KickBegin(uids)
    \/ KickRead
    \/ KickApply
    \/ \E u \in UIDs : KickRemove(u)
    \/ KickPurge
    \/ KickPublish

Next == NodeStep \/ KickStep \/ Close

Spec == Init /\ [][Next]_vars

-----------------------------------------------------------------------------
(* Between two cycles of a controller that runs.                            *)
Resting == npc = "idle" /\ ~closed

(* applyNodeInfoChange is "transactional: on any failure the previous       *)
(* inbound + users + limiter are restored": between cycles the published    *)
(* node is the one that is built, listening and limited.                    *)
Serving ==
    Resting => /\ handler[Tag] = node
               /\ Tag \in listening \cap outbound
               /\ limiter[Tag] # None

(* A cycle leaves nothing behind under another tag than the published one,  *)
(* neither after a switch nor after a switch that failed.                   *)
NoOrphan ==
    Resting => \A t \in Tags \ {Tag} :
                  handler[t] = None /\ t \notin outbound \cup rules /\ limiter[t] = None

(* "A failed Start() never leaves orphan inbound/outbound/limiter/rule      *)
(* entries" (rollbackInbound).                                              *)
FailedStartClean ==
    npc = "failed" => \A t \in Tags :
        handler[t] = None /\ t \notin outbound \cup rules /\ limiter[t] = None

(* The types hold, and neither a cycle nor a failed start leaves entries in *)
(* the core, the limiter or the rule manager that nobody will remove.       *)
NothingLeftBehind == TypeOK /\ NoOrphan /\ FailedStartClean

(* The last cycle adopted the node and the users it fetched, and no kick    *)
(* overlapped it or came after it.                                          *)
Adopted == Resting /\ ~dirty /\ new = node /\ newUsers = userList

(* What a kick changed locally lasts "until next panel /user sync": a cycle *)
(* of the node monitor that adopts what it fetched leaves exactly those     *)
(* users on the inbound (nodeInfoMonitor, applyIllegalKickUIDs).            *)
KickRepaired == Adopted => table[Tag] = newUsers

(* That holds for AnyTLS, whose users are replaced as a whole, whatever the *)
(* kicks before; for VLESS it holds as long as nobody was kicked.           *)
CleanCycleSyncs == (node \in AnyTLS \/ kicks = 0) => KickRepaired

(* After such a cycle nobody on the inbound is without limits: the limiter  *)
(* lets a user it does not know through without any.                        *)
NobodyUnlimited ==
    (node \in AnyTLS \/ kicks = 0) /\ Adopted => Listed(table[Tag]) \subseteq limiter[Tag]

(* A cycle that adopts what it fetched leaves exactly those users on the    *)
(* inbound, each with its limits (nodeInfoMonitor).                         *)
CycleSettles == CleanCycleSyncs /\ NobodyUnlimited

(* A change of the tag interrupts no user's service: a user who is listed   *)
(* before and after it, with the same UUID, can at every moment log in on   *)
(* some listening inbound that has its outbound (applyNodeInfoChange adds   *)
(* the new inbound, then its users, then removes the old).  Stated for runs *)
(* without kicks and with one node per tag.                                 *)
Stays(u) == userList[u] # None /\ newUsers[u] = userList[u]
NoServiceGap ==
    \A u \in UIDs : Stays(u) /\ mode # "start" /\ kicks = 0 =>
        \E t \in listening \cap outbound : table[t][u] = userList[u]
=============================================================================
