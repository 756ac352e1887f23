------------------------------- MODULE Audit -------------------------------
(***************************************************************************)
(* Audit rules of one inbound tag: the panel client that fetches and       *)
(* caches them (GetNodeRule and fetchPanelRules in api/v2board), the rule  *)
(* manager that every connection asks (common/rule), and the report of the *)
(* hits to the panel.                                                      *)
(*                                                                         *)
(* A rule is its number and the destination it matches, NoDest when its    *)
(* pattern did not compile.  Connections, the node monitor (fetch, then    *)
(* update) and the user monitor (drain, then report) run concurrently.     *)
(* Result sets are named by the connection that allocated them.            *)
(***************************************************************************)
EXTENDS Integers, Sequences, FiniteSets, SequencesExt

CONSTANTS
    Conns, Dests, Users,
    None, NoDest,
    Anonymous,     \* connections whose e-mail does not end in a user id
    LocalRules,    \* destinations of the file at RuleListPath
    RouteRules,    \* destinations of "routes" in the node's configuration
    PanelLists,    \* rule lists the panel may serve
    MaxChanges, MaxReports, MaxDeletes   \* bounds

Rules == [id : Int, dest : Dests \cup {NoDest}]

ASSUME AuditAssumption ==
    /\ None \notin Conns
    /\ NoDest \notin Dests
    /\ Anonymous \subseteq Conns
    /\ LocalRules \in Seq(Dests)
    /\ RouteRules \in Seq(Dests)
    /\ \A list \in PanelLists :
          list \in Seq([id : Int, dest : Dests \cup {NoDest}, enable : BOOLEAN])
    /\ {MaxChanges, MaxReports, MaxDeletes} \subseteq Nat

VARIABLES
    panelRules, panelVersion,            \* at the panel
    cacheOK, cacheVersion, cache,        \* panelRulesOK, panelRuleVersion, panelRulesCache
    lastGood,      \* history: rules of the last answer of the panel
    mpc, fetched,  \* the node monitor and the list it is about to install
    inboundRule,   \* the installed list, None: no entry for the tag
    resultSet,     \* inboundDetectResult: the tag's set, None: no entry
    entries,       \* per result set: (user, rule) -> count
    pc, user, dest, hit, cset, rules,    \* of a connection; rules: the list it read
    rpc, rset, drained,                  \* of the user monitor
    hits,          \* history: recorded hits
    settled,       \* history: hits the panel was told of, or that were dropped with a report
    changes, reports, deletes

client == <<cacheOK, cacheVersion, cache, lastGood, mpc, fetched>>
panel  == <<panelRules, panelVersion, changes>>
conn   == <<pc, user, dest, hit, cset, rules>>
report == <<rpc, rset, drained, settled, reports>>
vars == <<panel, client, inboundRule, resultSet, entries, conn, report, hits, deletes>>

(* Rule numbers: the panel's, the index of a route rule, -1 for local ones. *)
RuleIDs == {-1} \cup (0 .. Len(RouteRules))
               \cup UNION {{list[i].id : i \in DOMAIN list} : list \in PanelLists}
Keys    == Users \X RuleIDs
NoHits  == [k \in Keys |-> 0]
Add(a, b) == [k \in Keys |-> a[k] + b[k]]

TypeOK ==
    /\ panelRules \in PanelLists
    /\ panelVersion \in Nat
    /\ cacheOK \in BOOLEAN
    /\ cacheVersion \in Nat
    /\ cache \in Seq(Rules) /\ lastGood \in Seq(Rules)
    /\ mpc \in {"idle", "update"}
    /\ fetched \in Seq(Rules)
    /\ inboundRule \in Seq(Rules) \cup {None}
    /\ resultSet \in Conns \cup {None}
    /\ entries \in [Conns -> [Keys -> Nat]]
    /\ pc \in [Conns -> {"new", "set", "slow", "add", "passed", "rejected"}]
    /\ user \in [Conns -> Users]
    /\ dest \in [Conns -> Dests]
    /\ hit \in [Conns -> RuleIDs]
    /\ cset \in [Conns -> Conns \cup {None}]
    /\ rules \in [Conns -> Seq(Rules)]
    /\ rpc \in {"idle", "drain", "report"}
    /\ rset \in Conns \cup {None}
    /\ drained \in [Keys -> Nat] /\ hits \in [Keys -> Nat] /\ settled \in [Keys -> Nat]
    /\ changes \in 0 .. MaxChanges
    /\ reports \in 0 .. MaxReports
    /\ deletes \in 0 .. MaxDeletes

Init ==
    /\ panelRules \in PanelLists
    /\ panelVersion \in {0, 1}
    /\ cacheOK = FALSE /\ cacheVersion = 0
    /\ cache = <<>> /\ lastGood = <<>>
    /\ mpc = "idle" /\ fetched = <<>>
    /\ inboundRule = None
    /\ resultSet = None
    /\ entries = [s \in Conns |-> NoHits]
    /\ pc = [c \in Conns |-> "new"]
    /\ user \in [Conns -> Users]
    /\ dest \in [Conns -> Dests]
    /\ hit = [c \in Conns |-> -1]
    /\ cset = [c \in Conns |-> None]
    /\ rules = [c \in Conns |-> <<>>]
    /\ rpc = "idle" /\ rset = None
    /\ drained = NoHits /\ hits = NoHits /\ settled = NoHits
    /\ changes = 0 /\ reports = 0 /\ deletes = 0

-----------------------------------------------------------------------------
(* The panel; it numbers its lists, or sends no version, which reads as 0.  *)
PanelPublish(list) ==
    /\ changes < MaxChanges
    /\ changes' = changes + 1
    /\ panelRules' = list
    /\ panelVersion' \in {0, changes + 2}
    /\ UNCHANGED <<client, inboundRule, resultSet, entries, conn, report, hits, deletes>>

(* readLocalRuleList: every local rule has the number -1.                   *)
Local == [i \in DOMAIN LocalRules |-> [id |-> -1, dest |-> LocalRules[i]]]

(* The k-th smallest number of S.                                           *)
Nth(S, k) == CHOOSE i \in S : Cardinality({j \in S : j <= i}) = k

(* parsePanelRuleList: disabled rules are skipped, bad patterns are kept.   *)
parsePanelRuleList(list) ==
    LET on == {i \in DOMAIN list : list[i].enable}
    IN [k \in 1 .. Cardinality(on) |->
          [id |-> list[Nth(on, k)].id, dest |-> list[Nth(on, k)].dest]]

Routes == [i \in DOMAIN RouteRules |-> [id |-> i - 1, dest |-> RouteRules[i]]]

(* GetNodeRule: local rules, the panel's, then the configuration's.         *)
GetNodeRule(panelPart) == Local \o panelPart \o Routes

(* mutant: an answer without a version counts as unchanged                  *)
SameVersionEvenZero == cacheOK /\ panelVersion = cacheVersion

(* The version cache: the same version is not parsed again.                 *)
SameVersion == cacheOK /\ panelVersion # 0 /\ panelVersion = cacheVersion

(* fetchPanelRules, the panel answers.                                      *)
FetchRules ==
    LET out == IF SameVersion THEN cache ELSE parsePanelRuleList(panelRules)
    IN /\ mpc = "idle"
       /\ cacheOK' = TRUE
       /\ cacheVersion' = panelVersion
       /\ cache' = out
       /\ lastGood' = parsePanelRuleList(panelRules)
       /\ fetched' = GetNodeRule(out)
       /\ mpc' = "update"
       /\ UNCHANGED <<panel, inboundRule, resultSet, entries, conn, report, hits, deletes>>

(* mutant: without a cache the list is nil                                  *)
FetchFailsNil ==
    /\ mpc = "idle"
    /\ fetched' = IF cacheOK THEN GetNodeRule(cache) ELSE None
    /\ mpc' = "update"
    /\ UNCHANGED <<panel, cacheOK, cacheVersion, cache, lastGood, inboundRule, resultSet,
                   entries, conn, report, hits, deletes>>

(* The panel does not answer: the last good rules are used, if any.         *)
FetchFails ==
    /\ mpc = "idle"
    /\ fetched' = GetNodeRule(IF cacheOK THEN cache ELSE <<>>)
    /\ mpc' = "update"
    /\ UNCHANGED <<panel, cacheOK, cacheVersion, cache, lastGood, inboundRule, resultSet,
                   entries, conn, report, hits, deletes>>

(* UpdateRule: stored unless it is the same list already.                   *)
UpdateRule ==
    /\ mpc = "update"
    /\ inboundRule' = fetched
    /\ mpc' = "idle"
    /\ UNCHANGED <<panel, cacheOK, cacheVersion, cache, lastGood, fetched, resultSet, entries,
                   conn, report, hits, deletes>>

(* DeleteRule, when the controller gives up the tag.                        *)
DeleteRule ==
    /\ deletes < MaxDeletes
    /\ deletes' = deletes + 1
    /\ inboundRule' = None
    /\ resultSet' = None
    /\ UNCHANGED <<panel, client, entries, conn, report, hits>>

-----------------------------------------------------------------------------
(* RuleManager.Detect.                                                      *)

Matching(list, d) == {i \in DOMAIN list : list[i].dest = d}

(* mutant: the search ends at a rule whose pattern did not compile          *)
hitRuleIDStopsAtBad(list, d) ==
    LET m == {i \in Matching(list, d) : \A j \in 1 .. i : list[j].dest # NoDest}
    IN IF m = {} THEN -1 ELSE list[CHOOSE i \in m : \A j \in m : i <= j].id

(* The number of the first rule that matches; -1 means that none does.      *)
hitRuleID(list, d) ==
    LET m == Matching(list, d)
    IN IF m = {} THEN -1 ELSE list[CHOOSE i \in m : \A j \in m : i <= j].id

Detect(c) ==
    /\ pc[c] = "new"
    /\ \/ /\ inboundRule = None
          /\ pc' = [pc EXCEPT ![c] = "passed"]
          /\ UNCHANGED <<hit, rules>>
       \/ /\ inboundRule # None
          /\ rules' = [rules EXCEPT ![c] = inboundRule]
          /\ LET id == hitRuleID(inboundRule, dest[c])
             IN /\ hit' = [hit EXCEPT ![c] = id]
                /\ pc' = [pc EXCEPT ![c] = IF id = -1 THEN "passed"
                                           ELSE IF c \in Anonymous THEN "rejected"
                                           ELSE "set"]
    /\ UNCHANGED <<panel, client, inboundRule, resultSet, entries, user, dest, cset, report,
                   hits, deletes>>

LoadSet(c) ==
    /\ pc[c] = "set"
    /\ cset' = [cset EXCEPT ![c] = resultSet]
    /\ pc' = [pc EXCEPT ![c] = IF resultSet = None THEN "slow" ELSE "add"]
    /\ UNCHANGED <<panel, client, inboundRule, resultSet, entries, user, dest, hit, rules,
                   report, hits, deletes>>

(* mutant: Store in place of LoadOrStore                                    *)
StoreSet(c) ==
    /\ pc[c] = "slow"
    /\ resultSet' = c
    /\ cset' = [cset EXCEPT ![c] = c]
    /\ pc' = [pc EXCEPT ![c] = "add"]
    /\ UNCHANGED <<panel, client, inboundRule, entries, user, dest, hit, rules, report, hits,
                   deletes>>

LoadOrStoreSet(c) ==
    LET s == IF resultSet = None THEN c ELSE resultSet
    IN /\ pc[c] = "slow"
       /\ resultSet' = s
       /\ cset' = [cset EXCEPT ![c] = s]
       /\ pc' = [pc EXCEPT ![c] = "add"]
       /\ UNCHANGED <<panel, client, inboundRule, entries, user, dest, hit, rules, report,
                      hits, deletes>>

(* detectResultSet.add, under the set's mutex.                              *)
AddHit(c) ==
    LET k == <<user[c], hit[c]>>
    IN /\ pc[c] = "add"
       /\ entries' = [entries EXCEPT ![cset[c]][k] = @ + 1]
       /\ hits' = [hits EXCEPT ![k] = @ + 1]
       /\ pc' = [pc EXCEPT ![c] = "rejected"]
       /\ UNCHANGED <<panel, client, inboundRule, resultSet, user, dest, hit, cset, rules,
                      report, deletes>>

-----------------------------------------------------------------------------
(* GetDetectResult and ReportIllegal in the user monitor.                   *)

GetDetectResult ==
    /\ rpc = "idle"
    /\ resultSet # None
    /\ reports < MaxReports
    /\ reports' = reports + 1
    /\ rset' = resultSet
    /\ rpc' = "drain"
    /\ UNCHANGED <<panel, client, inboundRule, resultSet, entries, conn, drained, settled,
                   hits, deletes>>

(* drainAll, under the set's mutex; without entries nothing is reported.    *)
drainAll ==
    /\ rpc = "drain"
    /\ drained' = entries[rset]
    /\ entries' = [entries EXCEPT ![rset] = NoHits]
    /\ rpc' = IF entries[rset] = NoHits THEN "idle" ELSE "report"
    /\ UNCHANGED <<panel, client, inboundRule, resultSet, conn, rset, settled, reports, hits,
                   deletes>>

(* ReportIllegal succeeds or fails: what was drained is not kept.           *)
ReportIllegal ==
    /\ rpc = "report"
    /\ settled' = Add(settled, drained)
    /\ drained' = NoHits
    /\ rpc' = "idle"
    /\ UNCHANGED <<panel, client, inboundRule, resultSet, entries, conn, rset, reports, hits,
                   deletes>>

-----------------------------------------------------------------------------
Next ==
    \/ \E list \in PanelLists : PanelPublish(list)
    \/ FetchRules
    \/ FetchFails
    \/ UpdateRule
    \/ DeleteRule
    \/ \E c \in Conns : \/ Detect(c)
                        \/ LoadSet(c)
                        \/ LoadOrStoreSet(c)
                        \/ AddHit(c)
    \/ GetDetectResult
    \/ drainAll
    \/ ReportIllegal

Spec == Init /\ [][Next]_vars

-----------------------------------------------------------------------------
(* Every recorded hit is waiting in the set that the next report drains, is *)
(* in the report under way, or was settled by one: first hits that race for *)
(* the set (LoadOrStore) and hits that race with drainAll are not lost and  *)
(* not counted twice, as long as the tag is not given up.                   *)
Pending == IF resultSet = None THEN NoHits ELSE entries[resultSet]
HitsAccounted ==
    deletes = 0 => hits = Add(Add(Pending, drained), settled)

(* The types hold, and no hit is lost or counted twice (rule.go:43, 146).   *)
AuditInv == TypeOK /\ HitsAccounted

(* "Keep last successful panel rules so audit does not silently open after  *)
(* a blip": once the panel has answered, the list about to be installed and *)
(* the one installed since contain what it answered last, whatever fetches  *)
(* fail and whatever the version cache decides.                             *)
RulesSurviveBlip ==
    (mpc = "update" /\ cacheOK) => fetched = GetNodeRule(lastGood)

(* A connection to a destination that a rule of the list it was checked     *)
(* against matches does not pass (Detect).                                  *)
MatchedRejected ==
    \A c \in Conns : pc[c] = "passed" => Matching(rules[c], dest[c]) = {}
=============================================================================
