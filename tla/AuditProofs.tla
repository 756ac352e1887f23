---------------------------- MODULE AuditProofs ----------------------------
(***************************************************************************)
(* Proofs about Audit, for any connections, users, rule lists, failures    *)
(* and reports: no hit is lost or counted twice while the tag is kept, a   *)
(* panel that stops answering does not open the audit, and a destination   *)
(* that a numbered rule matches does not pass.                             *)
(*                                                                         *)
(* HitsAccounted compares totals only.  Its inductive form says where hits *)
(* may be: in the set that is published, and nowhere else (OneSet), which  *)
(* every connection and the report have in hand (InHand).                  *)
(***************************************************************************)
EXTENDS Audit, TLAPS, SequenceTheorems, FiniteSetTheorems, WellFoundedInduction

(* What the lists consist of: rules with a number the reports may carry.    *)
Rule == [id : RuleIDs, dest : Dests \cup {NoDest}]

-----------------------------------------------------------------------------
(* The operators.                                                           *)

(* A set of natural numbers has a least element.                            *)
LEMMA LeastElement ==
  ASSUME NEW T \in SUBSET Nat, T # {}
  PROVE  \E x \in T : \A y \in T : x <= y
<1> DEFINE R == OpToRel(<, Nat)
<1>1. IsWellFoundedOn(R, Nat)  BY NatLessThanWellFounded
<1>2. \A x, y \in Nat : x < y => <<x, y>> \in R  BY DEF OpToRel
<1> HIDE DEF R
<1>3. PICK x \in T : \A y \in T : ~ (<<y, x>> \in R)  BY <1>1, WFMin
<1>4. ASSUME NEW y \in T PROVE x <= y
  <2>1. ~(y < x)  BY <1>2, <1>3
  <2>2. x \in Nat /\ y \in Nat  OBVIOUS
  <2> QED BY <2>1, <2>2
<1> QED BY <1>4

(* A finite set of numbers has a k-th smallest one for every k up to its    *)
(* size: the least m with k of them up to m is one of them.                 *)
LEMMA NthType ==
  ASSUME NEW n \in Nat, NEW S \in SUBSET (1 .. n), NEW k \in 1 .. Cardinality(S)
  PROVE  Nth(S, k) \in S
<1> DEFINE Below(m) == {j \in S : j <= m}
           size(m) == Cardinality(Below(m))
           T == {m \in Nat : k <= size(m)}
<1>0. \A j \in S : j \in Nat /\ 1 <= j /\ j <= n  OBVIOUS
<1>1. IsFiniteSet(S)
  <2>1. IsFiniteSet(1 .. n)  BY FS_Interval
  <2> QED BY <2>1, FS_Subset
<1>2. ASSUME NEW m PROVE IsFiniteSet(Below(m)) /\ size(m) \in Nat
  <2>1. Below(m) \in SUBSET S  OBVIOUS
  <2>2. IsFiniteSet(Below(m))  BY <1>1, <2>1, FS_Subset
  <2> QED BY <2>2, FS_CardinalityType
<1>3. Cardinality(S) \in Nat  BY <1>1, FS_CardinalityType
<1>4. k \in Nat /\ 1 <= k /\ k <= Cardinality(S)  BY <1>3
<1>5. n \in T
  <2>1. Below(n) = S  BY <1>0
  <2> QED BY <2>1, <1>4
<1>6. size(0) = 0
  <2>1. \A j \in S : ~(j <= 0)  BY <1>0
  <2>2. Below(0) = {}  BY <2>1
  <2> QED BY <2>2, FS_EmptySet
<1>7. ASSUME NEW m \in Nat, m # 0
      PROVE  /\ m \in S => size(m) = size(m - 1) + 1
             /\ m \notin S => size(m) = size(m - 1)
  <2>1. \A j \in S : j <= m <=> (j <= m - 1 \/ j = m)  BY <1>0
  <2>2. ASSUME m \notin S PROVE size(m) = size(m - 1)
    <3>1. Below(m) = Below(m - 1)  BY <2>1, <2>2
    <3> QED BY <3>1
  <2>3. ASSUME m \in S PROVE size(m) = size(m - 1) + 1
    <3>1. Below(m) = Below(m - 1) \cup {m}  BY <2>1, <2>3
    <3>2. ~(m <= m - 1)  OBVIOUS
    <3>3. m \notin Below(m - 1)  BY <3>2
    <3>4. IsFiniteSet(Below(m - 1))  BY <1>2
    <3> HIDE DEF Below
    <3> QED BY <3>1, <3>3, <3>4, FS_AddElement
  <2> QED BY <2>2, <2>3
<1>8. \A i \in S : size(i) = Cardinality({j \in S : j <= i})  OBVIOUS
<1>9. \A m \in Nat : size(m) \in Nat /\ (m \in T <=> k <= size(m))  BY <1>2
<1>10. T \in SUBSET Nat  OBVIOUS
<1> HIDE DEF size, T
<1>11. PICK m \in T : \A y \in T : m <= y  BY <1>5, <1>10, LeastElement
<1>12. m \in Nat /\ k <= size(m)  BY <1>9, <1>10
<1>13. m # 0  BY <1>4, <1>6, <1>12
<1>14. m - 1 \in Nat /\ ~(m <= m - 1)  BY <1>12, <1>13
<1>15. m - 1 \notin T  BY <1>11, <1>14
<1>16. size(m - 1) \in Nat /\ ~(k <= size(m - 1))  BY <1>9, <1>14, <1>15
<1>17. m \in S /\ size(m) = k
  BY <1>4, <1>7, <1>9, <1>12, <1>13, <1>16
<1>18. \E i \in S : Cardinality({j \in S : j <= i}) = k  BY <1>8, <1>17
<1> QED BY <1>18 DEF Nth

(* The numbers of the rules are integers, and the panel's are among them.   *)
LEMMA RuleIDsInt == RuleIDs \subseteq Int
<1> SUFFICES ASSUME NEW x \in RuleIDs PROVE x \in Int  OBVIOUS
<1>1. Len(RouteRules) \in Nat  BY AuditAssumption, LenProperties
<1>2. ASSUME NEW list \in PanelLists, NEW i \in DOMAIN list PROVE list[i].id \in Int
  <2>1. list \in Seq([id : Int, dest : Dests \cup {NoDest}, enable : BOOLEAN])
    BY AuditAssumption
  <2>2. list[i] \in [id : Int, dest : Dests \cup {NoDest}, enable : BOOLEAN]
    BY <2>1, LenProperties
  <2> QED BY <2>2
<1> QED BY <1>1, <1>2 DEF RuleIDs

(* What is parsed of a list of the panel is a list of rules.                *)
LEMMA ParseType ==
  ASSUME NEW list \in PanelLists
  PROVE  parsePanelRuleList(list) \in Seq(Rule)
<1> DEFINE on == {i \in DOMAIN list : list[i].enable}
           r(k) == [id |-> list[Nth(on, k)].id, dest |-> list[Nth(on, k)].dest]
<1>1. list \in Seq([id : Int, dest : Dests \cup {NoDest}, enable : BOOLEAN])
  BY AuditAssumption
<1>2. DOMAIN list = 1 .. Len(list) /\ Len(list) \in Nat  BY <1>1, LenProperties
<1>3. on \in SUBSET (1 .. Len(list))  BY <1>2
<1>4. IsFiniteSet(on)
  <2>1. IsFiniteSet(1 .. Len(list))  BY <1>2, FS_Interval
  <2> HIDE DEF on
  <2> QED BY <1>3, <2>1, FS_Subset
<1>5. Cardinality(on) \in Nat  BY <1>4, FS_CardinalityType
<1>6. ASSUME NEW k \in 1 .. Cardinality(on) PROVE r(k) \in Rule
  <2>1. Nth(on, k) \in on  BY <1>2, <1>3, NthType
  <2>2. Nth(on, k) \in DOMAIN list  BY <2>1
  <2>3. ASSUME NEW i \in DOMAIN list
        PROVE  list[i].id \in RuleIDs /\ list[i].dest \in Dests \cup {NoDest}
    <3>1. list[i] \in [id : Int, dest : Dests \cup {NoDest}, enable : BOOLEAN]
      BY <1>1, <1>2, ElementOfSeq
    <3> QED BY <3>1 DEF RuleIDs
  <2> HIDE DEF on
  <2> QED BY <2>2, <2>3 DEF Rule
<1>7. parsePanelRuleList(list) = [k \in 1 .. Cardinality(on) |-> r(k)]
  BY DEF parsePanelRuleList
<1> HIDE DEF on, r
<1>8. [k \in 1 .. Cardinality(on) |-> r(k)] \in Seq(Rule)  BY <1>5, <1>6, IsASeq
<1> QED BY <1>7, <1>8

(* What GetNodeRule puts together is a list of rules.                       *)
LEMMA NodeRuleType ==
  ASSUME NEW part \in Seq(Rule)
  PROVE  GetNodeRule(part) \in Seq(Rule)
<1>1. Local \in Seq(Rule)
  <2>1. DOMAIN LocalRules = 1 .. Len(LocalRules) /\ Len(LocalRules) \in Nat
    BY AuditAssumption, LenProperties
  <2>2. \A i \in 1 .. Len(LocalRules) : [id |-> -1, dest |-> LocalRules[i]] \in Rule
    BY AuditAssumption, ElementOfSeq DEF Rule, RuleIDs
  <2> QED BY <2>1, <2>2, IsASeq DEF Local
<1>2. Routes \in Seq(Rule)
  <2>1. DOMAIN RouteRules = 1 .. Len(RouteRules) /\ Len(RouteRules) \in Nat
    BY AuditAssumption, LenProperties
  <2>2. \A i \in 1 .. Len(RouteRules) : [id |-> i - 1, dest |-> RouteRules[i]] \in Rule
    BY <2>1, AuditAssumption, ElementOfSeq DEF Rule, RuleIDs
  <2> QED BY <2>1, <2>2, IsASeq DEF Routes
<1>3. Local \o part \in Seq(Rule)  BY <1>1, ConcatProperties
<1> QED BY <1>2, <1>3, ConcatProperties DEF GetNodeRule

(* hitRuleID gives the number of a rule that matches, or -1.                *)
LEMMA HitRule ==
  ASSUME NEW list \in Seq(Rule), NEW d \in Dests
  PROVE  /\ hitRuleID(list, d) \in RuleIDs
         /\ \/ hitRuleID(list, d) = -1 /\ Matching(list, d) = {}
            \/ \E i \in Matching(list, d) : hitRuleID(list, d) = list[i].id
<1> DEFINE m == Matching(list, d)
           first == CHOOSE i \in m : \A j \in m : i <= j
<1>1. CASE m = {}  BY <1>1 DEF hitRuleID, RuleIDs
<1>2. CASE m # {}
  <2>1. DOMAIN list = 1 .. Len(list) /\ Len(list) \in Nat  BY LenProperties
  <2>2. m \in SUBSET Nat  BY <2>1 DEF Matching
  <2>3. \E i \in m : \A j \in m : i <= j  BY <1>2, <2>2, LeastElement
  <2>4. first \in m  BY <2>3
  <2>5. hitRuleID(list, d) = list[first].id  BY <1>2 DEF hitRuleID
  <2>6. first \in 1 .. Len(list)  BY <2>1, <2>4 DEF Matching
  <2>7. list[first] \in Rule  BY <2>6, ElementOfSeq
  <2> QED BY <2>4, <2>5, <2>7 DEF Rule
<1> QED BY <1>1, <1>2

-----------------------------------------------------------------------------
(* The state: TypeOK by parts, with the lists made of known rules, and what *)
(* the goroutines have in hand.                                             *)
Lists ==
    /\ panelRules \in PanelLists
    /\ cache \in Seq(Rule) /\ lastGood \in Seq(Rule) /\ fetched \in Seq(Rule)
    /\ inboundRule \in Seq(Rule) \cup {None}
    /\ rules \in [Conns -> Seq(Rule)]

Monitors ==
    /\ panelVersion \in Nat /\ cacheVersion \in Nat
    /\ cacheOK \in BOOLEAN
    /\ mpc \in {"idle", "update"}
    /\ rpc \in {"idle", "drain", "report"}
    /\ rset \in Conns \cup {None}
    /\ rpc = "drain" => rset # None
    /\ changes \in 0 .. MaxChanges
    /\ reports \in 0 .. MaxReports
    /\ deletes \in 0 .. MaxDeletes

Connections ==
    /\ resultSet \in Conns \cup {None}
    /\ pc \in [Conns -> {"new", "set", "slow", "add", "passed", "rejected"}]
    /\ user \in [Conns -> Users]
    /\ dest \in [Conns -> Dests]
    /\ hit \in [Conns -> RuleIDs]
    /\ cset \in [Conns -> Conns \cup {None}]
    /\ \A c \in Conns : pc[c] = "add" => cset[c] # None

Counts ==
    /\ entries \in [Conns -> [Keys -> Nat]]
    /\ drained \in [Keys -> Nat] /\ hits \in [Keys -> Nat] /\ settled \in [Keys -> Nat]

TypeInv == Lists /\ Monitors /\ Connections /\ Counts

LEMMA TypeInvType == TypeInv => TypeOK
<1> SUFFICES ASSUME TypeInv PROVE TypeOK  OBVIOUS
<1>1. Rule \subseteq Rules  BY RuleIDsInt DEF Rule, Rules
<1>2. \A list \in Seq(Rule) : list \in Seq(Rules)  BY <1>1, SeqMonotonic
<1>3. /\ cache \in Seq(Rules) /\ lastGood \in Seq(Rules) /\ fetched \in Seq(Rules)
      /\ inboundRule \in Seq(Rules) \cup {None}
      /\ rules \in [Conns -> Seq(Rules)]
  BY <1>2 DEF TypeInv, Lists
<1> QED BY <1>3, Zenon DEF TypeInv, Lists, Monitors, Connections, Counts, TypeOK

LEMMA InitTypeInv == Init => TypeInv
<1> SUFFICES ASSUME Init PROVE TypeInv  OBVIOUS
<1>1. <<>> \in Seq(Rule)  BY EmptySeq
<1>2. Lists  BY <1>1 DEF Init, Lists
<1>3. Monitors
  <2>1. /\ panelVersion \in Nat /\ cacheVersion \in Nat /\ changes \in 0 .. MaxChanges
        /\ reports \in 0 .. MaxReports /\ deletes \in 0 .. MaxDeletes
    BY AuditAssumption DEF Init
  <2>2. rpc # "drain"  BY DEF Init
  <2> QED BY <2>1, <2>2, Zenon DEF Init, Monitors
<1>4. -1 \in RuleIDs  BY DEF RuleIDs
<1>5. Connections
  <2>1. hit \in [Conns -> RuleIDs]  BY <1>4, Zenon DEF Init
  <2> QED BY <2>1 DEF Init, Connections
<1>6. NoHits \in [Keys -> Nat]  BY DEF NoHits
<1>7. Counts  BY <1>6 DEF Init, Counts
<1> QED BY <1>2, <1>3, <1>5, <1>7 DEF TypeInv

(* Adding up counts gives counts.                                           *)
LEMMA AddType ==
  ASSUME NEW a \in [Keys -> Nat], NEW b \in [Keys -> Nat]
  PROVE  /\ Add(a, b) \in [Keys -> Nat]
         /\ \A k \in Keys : Add(a, b)[k] = a[k] + b[k]
BY DEF Add

(* Recording a hit adds one to one count of one set.                        *)
LEMMA AddHitEffect ==
  ASSUME TypeInv, NEW c \in Conns, AddHit(c)
  PROVE  /\ cset[c] \in Conns /\ <<user[c], hit[c]>> \in Keys
         /\ entries' \in [Conns -> [Keys -> Nat]] /\ hits' \in [Keys -> Nat]
         /\ \A s \in Conns, k \in Keys : entries'[s][k] =
               IF s = cset[c] /\ k = <<user[c], hit[c]>> THEN entries[s][k] + 1 ELSE entries[s][k]
         /\ \A k \in Keys : hits'[k] =
               IF k = <<user[c], hit[c]>> THEN hits[k] + 1 ELSE hits[k]
<1> DEFINE key == <<user[c], hit[c]>>
           s == cset[c]
           row == [entries[s] EXCEPT ![key] = entries[s][key] + 1]
<1>1. s \in Conns  BY AuditAssumption DEF AddHit, TypeInv, Connections
<1>2. key \in Keys  BY DEF Keys, TypeInv, Connections
<1>3. entries' = [entries EXCEPT ![s] = row] /\ hits' = [hits EXCEPT ![key] = hits[key] + 1]
  BY DEF AddHit
<1>4. entries \in [Conns -> [Keys -> Nat]] /\ hits \in [Keys -> Nat]  BY DEF TypeInv, Counts
<1>5. entries[s] \in [Keys -> Nat] /\ entries[s][key] + 1 \in Nat /\ hits[key] + 1 \in Nat
  BY <1>1, <1>2, <1>4
<1> HIDE DEF key, s
<1>6. row \in [Keys -> Nat]  BY <1>5, ZenonT(20)
<1>7. \A k \in Keys : row[k] = IF k = key THEN entries[s][k] + 1 ELSE entries[s][k]
  BY <1>2, <1>5
<1> HIDE DEF row
<1>8. entries' \in [Conns -> [Keys -> Nat]]  BY <1>1, <1>3, <1>4, <1>6
<1>9. hits' \in [Keys -> Nat]  BY <1>2, <1>3, <1>4, <1>5, ZenonT(20)
<1>10. \A t \in Conns, k \in Keys : entries'[t][k] =
          IF t = s /\ k = key THEN entries[t][k] + 1 ELSE entries[t][k]
  BY <1>1, <1>3, <1>4, <1>7
<1>11. \A k \in Keys : hits'[k] = IF k = key THEN hits[k] + 1 ELSE hits[k]
  BY <1>2, <1>3, <1>4
<1> QED BY <1>1, <1>2, <1>8, <1>9, <1>10, <1>11 DEF key, s

LEMMA NextTypeInv == TypeInv /\ [Next]_vars => TypeInv'
<1> SUFFICES ASSUME TypeInv, [Next]_vars PROVE TypeInv'  OBVIOUS
<1>a. Lists /\ Monitors /\ Connections /\ Counts  BY DEF TypeInv
<1>b. {MaxChanges, MaxReports, MaxDeletes} \subseteq Nat  BY AuditAssumption
<1>c. UNCHANGED <<panelRules, cache, lastGood, fetched, inboundRule, rules>> => Lists'
  BY <1>a DEF Lists
<1>d. UNCHANGED <<panelVersion, cacheVersion, cacheOK, mpc, rpc, rset, changes, reports, deletes>>
        => Monitors'
  BY <1>a DEF Monitors
<1>e. UNCHANGED <<resultSet, pc, user, dest, hit, cset>> => Connections'
  BY <1>a DEF Connections
<1>f. UNCHANGED <<entries, drained, hits, settled>> => Counts'  BY <1>a DEF Counts
<1> USE DEF panel, client, conn, report
<1>1. ASSUME NEW list \in PanelLists, PanelPublish(list) PROVE TypeInv'
  <2>1. Lists'  BY <1>1, <1>a DEF PanelPublish, Lists
  <2>2. Monitors'  BY <1>1, <1>a, <1>b DEF PanelPublish, Monitors
  <2> QED BY <1>1, <2>1, <2>2, <1>e, <1>f DEF PanelPublish, TypeInv
<1>2. CASE FetchRules
  <2> DEFINE out == IF SameVersion THEN cache ELSE parsePanelRuleList(panelRules)
  <2>1. parsePanelRuleList(panelRules) \in Seq(Rule)  BY <1>a, ParseType DEF Lists
  <2>2. out \in Seq(Rule)  BY <1>a, <2>1 DEF Lists
  <2>3. GetNodeRule(out) \in Seq(Rule)  BY <2>2, NodeRuleType
  <2>4. /\ cache' = out /\ fetched' = GetNodeRule(out)
        /\ lastGood' = parsePanelRuleList(panelRules)
        /\ UNCHANGED <<panelRules, inboundRule, rules>>
    BY <1>2 DEF FetchRules
  <2> HIDE DEF out
  <2>5. Lists'  BY <1>a, <2>1, <2>2, <2>3, <2>4 DEF Lists
  <2>6. Monitors'  BY <1>2, <1>a DEF FetchRules, Monitors
  <2> QED BY <1>2, <2>5, <2>6, <1>e, <1>f DEF FetchRules, TypeInv
<1>3. CASE FetchFails
  <2>1. GetNodeRule(IF cacheOK THEN cache ELSE <<>>) \in Seq(Rule)
    BY <1>a, NodeRuleType, EmptySeq DEF Lists
  <2>2. Lists'  BY <1>3, <1>a, <2>1 DEF FetchFails, Lists
  <2>3. Monitors'  BY <1>3, <1>a DEF FetchFails, Monitors
  <2> QED BY <1>3, <2>2, <2>3, <1>e, <1>f DEF FetchFails, TypeInv
<1>4. CASE UpdateRule
  <2>1. Lists'  BY <1>4, <1>a DEF UpdateRule, Lists
  <2>2. Monitors'  BY <1>4, <1>a DEF UpdateRule, Monitors
  <2> QED BY <1>4, <2>1, <2>2, <1>e, <1>f DEF UpdateRule, TypeInv
<1>5. CASE DeleteRule
  <2>1. Lists'  BY <1>5, <1>a DEF DeleteRule, Lists
  <2>2. Monitors'  BY <1>5, <1>a, <1>b DEF DeleteRule, Monitors
  <2>3. Connections'  BY <1>5, <1>a DEF DeleteRule, Connections
  <2> QED BY <1>5, <2>1, <2>2, <2>3, <1>f DEF DeleteRule, TypeInv
<1>6. ASSUME NEW c \in Conns, Detect(c) PROVE TypeInv'
  <2>1. inboundRule # None => hitRuleID(inboundRule, dest[c]) \in RuleIDs
    BY <1>a, HitRule DEF Lists, Connections
  <2>2. Lists'  BY <1>6, <1>a DEF Detect, Lists
  <2>3. Connections'
    <3>1. /\ hit' \in [Conns -> RuleIDs]
          /\ \E l \in {"passed", "rejected", "set"} : pc' = [pc EXCEPT ![c] = l]
      BY <1>6, <1>a, <2>1 DEF Detect, Connections
    <3> QED BY <1>6, <1>a, <3>1 DEF Detect, Connections
  <2> QED BY <1>6, <2>2, <2>3, <1>d, <1>f DEF Detect, TypeInv
<1>7. ASSUME NEW c \in Conns, LoadSet(c) PROVE TypeInv'
  <2>1. Connections'  BY <1>7, <1>a DEF LoadSet, Connections
  <2> QED BY <1>7, <2>1, <1>c, <1>d, <1>f DEF LoadSet, TypeInv
<1>8. ASSUME NEW c \in Conns, LoadOrStoreSet(c) PROVE TypeInv'
  <2>1. Connections'  BY <1>8, <1>a, AuditAssumption DEF LoadOrStoreSet, Connections
  <2> QED BY <1>8, <2>1, <1>c, <1>d, <1>f DEF LoadOrStoreSet, TypeInv
<1>9. ASSUME NEW c \in Conns, AddHit(c) PROVE TypeInv'
  <2>1. Connections'  BY <1>9, <1>a DEF AddHit, Connections
  <2>2. Counts'  BY <1>9, <1>a, AddHitEffect DEF AddHit, Counts
  <2> QED BY <1>9, <2>1, <2>2, <1>c, <1>d DEF AddHit, TypeInv
<1>10. CASE GetDetectResult
  <2>1. Monitors'  BY <1>10, <1>a, <1>b DEF GetDetectResult, Monitors, Connections
  <2> QED BY <1>10, <2>1, <1>c, <1>e, <1>f DEF GetDetectResult, TypeInv
<1>11. CASE drainAll
  <2>1. Monitors'  BY <1>11, <1>a DEF drainAll, Monitors
  <2>2. NoHits \in [Keys -> Nat] /\ rset \in Conns
    BY <1>11, <1>a DEF drainAll, Monitors, NoHits
  <2>3. Counts'  BY <1>11, <1>a, <2>2 DEF drainAll, Counts
  <2> QED BY <1>11, <2>1, <2>3, <1>c, <1>e DEF drainAll, TypeInv
<1>12. CASE ReportIllegal
  <2>1. Monitors'  BY <1>12, <1>a DEF ReportIllegal, Monitors
  <2>2. NoHits \in [Keys -> Nat] /\ Add(settled, drained) \in [Keys -> Nat]
    BY <1>a, AddType DEF Counts, NoHits
  <2>3. Counts'  BY <1>12, <1>a, <2>2 DEF ReportIllegal, Counts
  <2> QED BY <1>12, <2>1, <2>3, <1>c, <1>e DEF ReportIllegal, TypeInv
<1>13. CASE UNCHANGED vars  BY <1>13, <1>c, <1>d, <1>e, <1>f DEF vars, TypeInv
<1> QED BY <1>1, <1>2, <1>3, <1>4, <1>5, <1>6, <1>7, <1>8, <1>9, <1>10, <1>11, <1>12, <1>13
        DEF Next

-----------------------------------------------------------------------------
(* Hits.  While the tag is kept there is one result set.                    *)

(* Every other set is empty ...                                             *)
OneSet == \A s \in Conns : s # resultSet => entries[s] = NoHits

(* ... and whoever is about to use a set uses the published one.            *)
InHand ==
    /\ \A c \in Conns : pc[c] = "add" => cset[c] = resultSet
    /\ rpc = "drain" => rset = resultSet

(* HitsAccounted, one key at a time.                                        *)
Balanced ==
    \A k \in Keys :
        hits[k] = (IF resultSet = None THEN 0 ELSE entries[resultSet][k])
                     + drained[k] + settled[k]

Accounted ==
    /\ rpc # "report" => drained = NoHits
    /\ deletes = 0 => OneSet /\ InHand /\ Balanced

LEMMA BalancedAccounted == TypeInv /\ Accounted => HitsAccounted
<1> SUFFICES ASSUME TypeInv, Accounted, deletes = 0
             PROVE  hits = Add(Add(Pending, drained), settled)
  BY DEF HitsAccounted
<1>1. Pending \in [Keys -> Nat]
  BY DEF Pending, NoHits, TypeInv, Counts, Connections
<1>2. \A k \in Keys : Pending[k] = IF resultSet = None THEN 0 ELSE entries[resultSet][k]
  BY DEF Pending, NoHits
<1>3. drained \in [Keys -> Nat] /\ settled \in [Keys -> Nat] /\ hits \in [Keys -> Nat]
  BY DEF TypeInv, Counts
<1>4. /\ Add(Pending, drained) \in [Keys -> Nat]
      /\ \A k \in Keys : Add(Pending, drained)[k] = Pending[k] + drained[k]
  BY <1>1, <1>3, AddType
<1>5. /\ Add(Add(Pending, drained), settled) \in [Keys -> Nat]
      /\ \A k \in Keys : Add(Add(Pending, drained), settled)[k]
                              = Add(Pending, drained)[k] + settled[k]
  BY <1>3, <1>4, AddType
<1>6. \A k \in Keys : hits[k] = Add(Add(Pending, drained), settled)[k]
  BY <1>2, <1>4, <1>5 DEF Accounted, Balanced
<1> QED BY <1>3, <1>5, <1>6

LEMMA InitAccounted == Init => Accounted
BY DEF Init, Accounted, OneSet, InHand, Balanced, NoHits

LEMMA NextAccounted == TypeInv /\ Accounted /\ [Next]_vars => Accounted'
<1> SUFFICES ASSUME TypeInv, Accounted, [Next]_vars PROVE Accounted'  OBVIOUS
<1>a. Lists /\ Monitors /\ Connections /\ Counts  BY DEF TypeInv
<1>b. resultSet \in Conns \cup {None} /\ None \notin Conns
  BY <1>a, AuditAssumption DEF Connections
<1> USE DEF panel, client, conn, report
<1>1. CASE \/ \E list \in PanelLists : PanelPublish(list)
           \/ FetchRules \/ FetchFails \/ UpdateRule
           \/ UNCHANGED vars
  <2>1. UNCHANGED <<resultSet, entries, pc, cset, rpc, rset, drained, settled, hits, deletes>>
    BY <1>1 DEF PanelPublish, FetchRules, FetchFails, UpdateRule, vars
  <2> QED BY <2>1 DEF Accounted, OneSet, InHand, Balanced
<1>2. CASE DeleteRule
  <2>1. deletes' = deletes + 1 /\ rpc' = rpc /\ drained' = drained /\ deletes \in Nat
    BY <1>2, <1>a, AuditAssumption DEF DeleteRule, Monitors
  <2> QED BY <2>1 DEF Accounted
<1>3. ASSUME NEW c \in Conns, Detect(c) \/ LoadSet(c) PROVE Accounted'
  <2>1. UNCHANGED <<resultSet, entries, rpc, rset, drained, settled, hits, deletes>>
    BY <1>3 DEF Detect, LoadSet
  <2>2. \A d \in Conns : pc'[d] = "add" => \/ pc[d] = "add" /\ cset'[d] = cset[d]
                                          \/ cset'[d] = resultSet
    BY <1>3, <1>a DEF Detect, LoadSet, Connections
  <2> QED BY <2>1, <2>2 DEF Accounted, OneSet, InHand, Balanced
<1>4. ASSUME NEW c \in Conns, LoadOrStoreSet(c) PROVE Accounted'
  <2>1. UNCHANGED <<entries, rpc, rset, drained, settled, hits, deletes>>
    BY <1>4 DEF LoadOrStoreSet
  <2>2. /\ resultSet' = (IF resultSet = None THEN c ELSE resultSet)
        /\ cset' = [cset EXCEPT ![c] = resultSet'] /\ pc' = [pc EXCEPT ![c] = "add"]
    BY <1>4 DEF LoadOrStoreSet
  <2>3. ASSUME deletes = 0 PROVE OneSet' /\ InHand' /\ Balanced'
    <3>1. OneSet /\ InHand /\ Balanced  BY <2>3 DEF Accounted
    <3>2. CASE resultSet # None
      <4>1. resultSet' = resultSet  BY <2>2, <3>2
      <4>2. InHand'  BY <2>1, <2>2, <3>1, <4>1, <1>a DEF InHand, Connections
      <4> QED BY <2>1, <3>1, <4>1, <4>2 DEF OneSet, Balanced
    <3>3. CASE resultSet = None
      <4>1. resultSet' = c /\ c # None /\ entries[c] = NoHits
        BY <2>2, <3>1, <3>3, <1>b DEF OneSet
      <4>2. \A d \in Conns : pc[d] # "add"
        BY <3>1, <3>3, <1>a DEF InHand, Connections
      <4>3. rpc # "drain"  BY <3>1, <3>3, <1>a DEF InHand, Monitors
      <4>4. InHand'  BY <2>1, <2>2, <4>2, <4>3, <1>a DEF InHand, Connections
      <4>5. OneSet'  BY <2>1, <3>1, <3>3, <1>b DEF OneSet
      <4>6. \A k \in Keys : entries'[resultSet'][k] = 0  BY <2>1, <4>1 DEF NoHits
      <4>7. Balanced'  BY <2>1, <3>1, <3>3, <4>1, <4>6 DEF Balanced
      <4> QED BY <4>4, <4>5, <4>7
    <3> QED BY <3>2, <3>3
  <2> QED BY <2>1, <2>3 DEF Accounted
<1>5. ASSUME NEW c \in Conns, AddHit(c) PROVE Accounted'
  <2>1. UNCHANGED <<resultSet, cset, rpc, rset, drained, settled, deletes>>
    BY <1>5 DEF AddHit
  <2>2. pc[c] = "add" /\ pc' = [pc EXCEPT ![c] = "rejected"]  BY <1>5 DEF AddHit
  <2>3. ASSUME deletes = 0 PROVE OneSet' /\ InHand' /\ Balanced'
    <3>1. OneSet /\ InHand /\ Balanced  BY <2>3 DEF Accounted
    <3>2. cset[c] = resultSet /\ cset[c] \in Conns
      BY <2>2, <3>1, <1>5, AddHitEffect DEF InHand
    <3>3. InHand'  BY <2>1, <2>2, <3>1, <1>a DEF InHand, Connections
    <3>4. OneSet'
      <4> SUFFICES ASSUME NEW s \in Conns, s # resultSet PROVE entries'[s] = entries[s]
        BY <2>1, <3>1 DEF OneSet
      <4>1. entries'[s] \in [Keys -> Nat] /\ entries[s] \in [Keys -> Nat]
        BY <1>5, <1>a, AddHitEffect DEF Counts
      <4>2. \A k \in Keys : entries'[s][k] =
              IF s = cset[c] /\ k = <<user[c], hit[c]>> THEN entries[s][k] + 1 ELSE entries[s][k]
        BY <1>5, AddHitEffect
      <4>3. \A k \in Keys : entries'[s][k] = entries[s][k]  BY <3>2, <4>2
      <4> QED BY <4>1, <4>3
    <3>5. Balanced'
      <4> SUFFICES ASSUME NEW k \in Keys
                   PROVE  hits'[k] = entries'[resultSet][k] + drained[k] + settled[k]
        BY <2>1, <3>2, <1>b DEF Balanced
      <4>1. hits[k] = entries[resultSet][k] + drained[k] + settled[k]
        BY <3>1, <3>2, <1>b DEF Balanced
      <4>2. /\ entries[resultSet][k] \in Nat /\ drained[k] \in Nat /\ settled[k] \in Nat
            /\ hits[k] \in Nat
        BY <1>a, <3>2 DEF Counts
      <4>3. /\ entries'[resultSet][k] = IF k = <<user[c], hit[c]>>
                                        THEN entries[resultSet][k] + 1 ELSE entries[resultSet][k]
            /\ hits'[k] = IF k = <<user[c], hit[c]>> THEN hits[k] + 1 ELSE hits[k]
        BY <1>5, <3>2, AddHitEffect
      <4> QED BY <4>1, <4>2, <4>3
    <3> QED BY <3>3, <3>4, <3>5
  <2> QED BY <2>1, <2>3 DEF Accounted
<1>6. CASE GetDetectResult
  <2>1. /\ UNCHANGED <<resultSet, entries, pc, cset, drained, settled, hits, deletes>>
        /\ rpc = "idle" /\ rpc' = "drain" /\ rset' = resultSet
    BY <1>6 DEF GetDetectResult
  <2> QED BY <2>1 DEF Accounted, OneSet, InHand, Balanced
<1>7. CASE drainAll
  <2>1. /\ UNCHANGED <<resultSet, pc, cset, rset, settled, hits, deletes>>
        /\ rpc = "drain" /\ rpc' # "drain" /\ drained' = entries[rset]
        /\ rpc' = (IF entries[rset] = NoHits THEN "idle" ELSE "report")
        /\ entries' = [entries EXCEPT ![rset] = NoHits]
    BY <1>7 DEF drainAll
  <2>2. rset \in Conns  BY <2>1, <1>a DEF Monitors
  <2>3. drained = NoHits  BY <2>1 DEF Accounted
  <2>4. ASSUME deletes = 0 PROVE OneSet' /\ InHand' /\ Balanced'
    <3>1. OneSet /\ InHand /\ Balanced  BY <2>4 DEF Accounted
    <3>2. rset = resultSet  BY <2>1, <3>1 DEF InHand
    <3>3. InHand'  BY <2>1, <3>1 DEF InHand
    <3>4. OneSet'  BY <2>1, <2>2, <3>1, <3>2, <1>a DEF OneSet, Counts
    <3>5. Balanced'
      <4> SUFFICES ASSUME NEW k \in Keys
                   PROVE  hits[k] = entries'[resultSet][k] + drained'[k] + settled[k]
        BY <2>1, <2>2, <3>2, <1>b DEF Balanced
      <4>1. hits[k] = entries[resultSet][k] + drained[k] + settled[k]
        BY <3>1, <3>2, <2>2, <1>b DEF Balanced
      <4>2. drained[k] = 0  BY <2>3 DEF NoHits
      <4>3. drained'[k] = entries[resultSet][k]  BY <2>1, <3>2
      <4>4. entries'[resultSet] = NoHits  BY <2>1, <2>2, <3>2, <1>a DEF Counts
      <4>5. entries'[resultSet][k] = 0  BY <4>4 DEF NoHits
      <4>6. entries[resultSet][k] \in Nat /\ settled[k] \in Nat
        BY <1>a, <2>2, <3>2 DEF Counts
      <4> QED BY <4>1, <4>2, <4>3, <4>5, <4>6
    <3> QED BY <3>3, <3>4, <3>5
  <2>5. rpc' # "report" => drained' = NoHits  BY <2>1
  <2> QED BY <2>1, <2>4, <2>5 DEF Accounted
<1>8. CASE ReportIllegal
  <2>1. /\ UNCHANGED <<resultSet, entries, pc, cset, rset, hits, deletes>>
        /\ rpc' = "idle" /\ drained' = NoHits /\ settled' = Add(settled, drained)
    BY <1>8 DEF ReportIllegal
  <2>2. ASSUME deletes = 0 PROVE OneSet' /\ InHand' /\ Balanced'
    <3>1. OneSet /\ InHand /\ Balanced  BY <2>2 DEF Accounted
    <3>2. ASSUME NEW k \in Keys
          PROVE  /\ drained'[k] = 0 /\ settled'[k] = settled[k] + drained[k]
                 /\ settled[k] \in Nat /\ drained[k] \in Nat
                 /\ resultSet # None => entries[resultSet][k] \in Nat
      BY <2>1, <1>a, <1>b, AddType DEF NoHits, Counts
    <3>3. Balanced'
      <4> SUFFICES ASSUME NEW k \in Keys
                   PROVE  hits[k] = (IF resultSet = None THEN 0 ELSE entries[resultSet][k])
                                       + drained'[k] + settled'[k]
        BY <2>1 DEF Balanced
      <4>1. hits[k] = (IF resultSet = None THEN 0 ELSE entries[resultSet][k])
                         + drained[k] + settled[k]
        BY <3>1 DEF Balanced
      <4> QED BY <4>1, <3>2
    <3> QED BY <2>1, <3>1, <3>3 DEF OneSet, InHand
  <2> QED BY <2>1, <2>2 DEF Accounted
<1> QED BY <1>1, <1>2, <1>3, <1>4, <1>5, <1>6, <1>7, <1>8 DEF Next

(* The types hold and every recorded hit is in the set the next report      *)
(* drains, in the report under way, or settled, for any number of           *)
(* connections that race for the set (LoadOrStore) or with drainAll.        *)
THEOREM HitsNeverLost == Spec => []AuditInv
<1>1. TypeInv /\ Accounted => AuditInv
  BY TypeInvType, BalancedAccounted DEF AuditInv
<1> QED BY <1>1, InitTypeInv, NextTypeInv, InitAccounted, NextAccounted, PTL DEF Spec

-----------------------------------------------------------------------------
(* The version cache.  RulesSurviveBlip is about the list to be installed;  *)
(* it rests on the cache being what the panel answered last, and on a       *)
(* version number that the panel never uses for two lists.                  *)
Versions ==
    /\ panelVersion <= changes + 1
    /\ cacheVersion <= changes + 1
    /\ cacheOK => cache = lastGood
    /\ cacheOK /\ cacheVersion # 0 /\ panelVersion = cacheVersion =>
          lastGood = parsePanelRuleList(panelRules)
    /\ RulesSurviveBlip

LEMMA InitVersions == Init => Versions
BY DEF Init, Versions, RulesSurviveBlip

LEMMA NextVersions == TypeInv /\ Versions /\ [Next]_vars => Versions'
<1> SUFFICES ASSUME TypeInv, Versions, [Next]_vars PROVE Versions'  OBVIOUS
<1> USE DEF panel, client, conn, report
<1>a. /\ panelVersion \in Nat /\ cacheVersion \in Nat /\ changes \in Nat
      /\ mpc \in {"idle", "update"}
  BY AuditAssumption DEF TypeInv, Monitors
<1>1. ASSUME NEW list \in PanelLists, PanelPublish(list) PROVE Versions'
  <2>1. /\ changes' = changes + 1 /\ panelVersion' \in {0, changes + 2}
        /\ UNCHANGED <<cacheOK, cacheVersion, cache, lastGood, mpc, fetched>>
    BY <1>1 DEF PanelPublish
  <2>2. ~(cacheVersion # 0 /\ panelVersion' = cacheVersion)
    BY <2>1, <1>a DEF Versions
  <2>3. panelVersion' <= changes' + 1 /\ cacheVersion' <= changes' + 1
    BY <2>1, <1>a DEF Versions
  <2> QED BY <2>1, <2>2, <2>3 DEF Versions, RulesSurviveBlip
<1>2. CASE FetchRules
  <2>1. /\ cacheOK' = TRUE /\ cacheVersion' = panelVersion
        /\ lastGood' = parsePanelRuleList(panelRules)
        /\ cache' = (IF SameVersion THEN cache ELSE parsePanelRuleList(panelRules))
        /\ fetched' = GetNodeRule(cache')
        /\ UNCHANGED <<panelRules, panelVersion, changes>>
    BY <1>2 DEF FetchRules
  <2>2. cache' = parsePanelRuleList(panelRules)
    BY <2>1 DEF SameVersion, Versions
  <2> QED BY <2>1, <2>2 DEF Versions, RulesSurviveBlip
<1>3. CASE FetchFails
  <2>1. /\ fetched' = GetNodeRule(IF cacheOK THEN cache ELSE <<>>)
        /\ UNCHANGED <<panelRules, panelVersion, changes, cacheOK, cacheVersion, cache, lastGood>>
    BY <1>3 DEF FetchFails
  <2> QED BY <2>1 DEF Versions, RulesSurviveBlip
<1>4. CASE UpdateRule
  <2>1. /\ mpc' = "idle"
        /\ UNCHANGED <<panelRules, panelVersion, changes, cacheOK, cacheVersion, cache, lastGood>>
    BY <1>4 DEF UpdateRule
  <2> QED BY <2>1 DEF Versions, RulesSurviveBlip
<1>5. CASE \/ DeleteRule
           \/ \E c \in Conns : Detect(c) \/ LoadSet(c) \/ LoadOrStoreSet(c) \/ AddHit(c)
           \/ GetDetectResult \/ drainAll \/ ReportIllegal
           \/ UNCHANGED vars
  <2>1. UNCHANGED <<panel, client>>
    BY <1>5 DEF DeleteRule, Detect, LoadSet, LoadOrStoreSet, AddHit, GetDetectResult, drainAll,
       ReportIllegal, vars
  <2> QED BY <2>1 DEF Versions, RulesSurviveBlip
<1> QED BY <1>1, <1>2, <1>3, <1>4, <1>5 DEF Next

(* Once the panel has answered, no failing fetch and no answer of the       *)
(* version cache installs anything but the rules it answered last:          *)
(* "Keep last successful panel rules so audit does not silently open".      *)
THEOREM AuditSurvivesBlip == Spec => []RulesSurviveBlip
<1>1. Versions => RulesSurviveBlip  BY DEF Versions
<1> QED BY <1>1, InitTypeInv, NextTypeInv, InitVersions, NextVersions, PTL DEF Spec

-----------------------------------------------------------------------------
(* Detection.  Detect takes the number -1 for "no rule matches", and local  *)
(* rules carry it; the claim is about lists without them.                   *)
AllNumbered ==
    /\ LocalRules = <<>>
    /\ \A list \in PanelLists : \A i \in DOMAIN list : list[i].id # -1

NumberedRule == {r \in Rule : r.id # -1}

NumberedLists ==
    /\ cache \in Seq(NumberedRule) /\ fetched \in Seq(NumberedRule)
    /\ inboundRule \in Seq(NumberedRule) \cup {None}

Detected ==
    \A c \in Conns :
        /\ pc[c] = "new" => rules[c] = <<>>
        /\ pc[c] = "passed" => Matching(rules[c], dest[c]) = {}

(* Parsing keeps the numbers.                                               *)
LEMMA ParseNumbered ==
  ASSUME AllNumbered, NEW list \in PanelLists
  PROVE  parsePanelRuleList(list) \in Seq(NumberedRule)
<1> DEFINE on == {i \in DOMAIN list : list[i].enable}
           out == parsePanelRuleList(list)
<1>1. out \in Seq(Rule)  BY ParseType
<1>2. list \in Seq([id : Int, dest : Dests \cup {NoDest}, enable : BOOLEAN])
  BY AuditAssumption
<1>3. DOMAIN list = 1 .. Len(list) /\ Len(list) \in Nat  BY <1>2, LenProperties
<1>4. on \in SUBSET (1 .. Len(list))  BY <1>3
<1>5. DOMAIN out = 1 .. Cardinality(on)  BY DEF parsePanelRuleList
<1>6. ASSUME NEW k \in DOMAIN out PROVE out[k] \in NumberedRule
  <2>1. Nth(on, k) \in on  BY <1>3, <1>4, <1>5, NthType
  <2>2. out[k].id = list[Nth(on, k)].id  BY <1>5 DEF parsePanelRuleList
  <2>3. Nth(on, k) \in DOMAIN list  BY <2>1
  <2>4. out[k].id # -1  BY <2>2, <2>3 DEF AllNumbered
  <2>5. out[k] \in Rule
    <3> HIDE DEF out
    <3>1. DOMAIN out = 1 .. Len(out)  BY <1>1, LenProperties
    <3> QED BY <1>1, <3>1, ElementOfSeq
  <2> QED BY <2>4, <2>5 DEF NumberedRule
<1> HIDE DEF out
<1>7. DOMAIN out = 1 .. Len(out) /\ Len(out) \in Nat /\ out \in [1 .. Len(out) -> Rule]
  BY <1>1, LenProperties
<1> QED BY <1>6, <1>7 DEF out

(* Without local rules every rule of the node has a number of its own.      *)
LEMMA NodeRuleNumbered ==
  ASSUME AllNumbered, NEW part \in Seq(NumberedRule)
  PROVE  GetNodeRule(part) \in Seq(NumberedRule)
<1>1. Local = <<>> /\ Local \in Seq(NumberedRule)  BY DEF AllNumbered, Local
<1>2. Routes \in Seq(NumberedRule)
  <2>1. DOMAIN RouteRules = 1 .. Len(RouteRules) /\ Len(RouteRules) \in Nat
    BY AuditAssumption, LenProperties
  <2>2. \A i \in 1 .. Len(RouteRules) :
           [id |-> i - 1, dest |-> RouteRules[i]] \in NumberedRule
    BY <2>1, AuditAssumption, ElementOfSeq DEF NumberedRule, Rule, RuleIDs
  <2> QED BY <2>1, <2>2, IsASeq DEF Routes
<1>3. Local \o part \in Seq(NumberedRule)  BY <1>1, ConcatProperties
<1> QED BY <1>2, <1>3, ConcatProperties DEF GetNodeRule

LEMMA NextNumbered == AllNumbered /\ TypeInv /\ NumberedLists /\ [Next]_vars => NumberedLists'
<1> SUFFICES ASSUME AllNumbered, TypeInv, NumberedLists, [Next]_vars PROVE NumberedLists'
  OBVIOUS
<1> USE DEF panel, client, conn, report
<1>1. CASE FetchRules
  <2> DEFINE out == IF SameVersion THEN cache ELSE parsePanelRuleList(panelRules)
  <2>1. out \in Seq(NumberedRule)  BY ParseNumbered DEF TypeInv, Lists, NumberedLists
  <2>2. cache' = out /\ fetched' = GetNodeRule(out) /\ inboundRule' = inboundRule
    BY <1>1 DEF FetchRules
  <2> HIDE DEF out
  <2> QED BY <2>1, <2>2, NodeRuleNumbered DEF NumberedLists
<1>2. CASE FetchFails
  <2>1. (IF cacheOK THEN cache ELSE <<>>) \in Seq(NumberedRule)  BY EmptySeq DEF NumberedLists
  <2>2. /\ cache' = cache /\ inboundRule' = inboundRule
        /\ fetched' = GetNodeRule(IF cacheOK THEN cache ELSE <<>>)
    BY <1>2 DEF FetchFails
  <2> QED BY <2>1, <2>2, NodeRuleNumbered DEF NumberedLists
<1>3. CASE UpdateRule  BY <1>3 DEF UpdateRule, NumberedLists
<1>4. CASE DeleteRule  BY <1>4 DEF DeleteRule, NumberedLists
<1>5. CASE \/ \E list \in PanelLists : PanelPublish(list)
           \/ \E c \in Conns : Detect(c) \/ LoadSet(c) \/ LoadOrStoreSet(c) \/ AddHit(c)
           \/ GetDetectResult \/ drainAll \/ ReportIllegal
           \/ UNCHANGED vars
  <2>1. UNCHANGED <<cache, fetched, inboundRule>>
    BY <1>5 DEF PanelPublish, Detect, LoadSet, LoadOrStoreSet, AddHit, GetDetectResult, drainAll,
       ReportIllegal, vars
  <2> QED BY <2>1 DEF NumberedLists
<1> QED BY <1>1, <1>2, <1>3, <1>4, <1>5 DEF Next

LEMMA NextDetected ==
  AllNumbered /\ TypeInv /\ NumberedLists /\ Detected /\ [Next]_vars => Detected'
<1> SUFFICES ASSUME AllNumbered, TypeInv, NumberedLists, Detected, [Next]_vars PROVE Detected'
  OBVIOUS
<1> USE DEF panel, client, conn, report
<1>a. Connections /\ Lists  BY DEF TypeInv
<1>1. ASSUME NEW c \in Conns, Detect(c) PROVE Detected'
  <2>1. dest' = dest /\ dest[c] \in Dests /\ pc[c] = "new"
    BY <1>1, <1>a DEF Detect, Connections
  <2>2. \A d \in Conns \ {c} : pc'[d] = pc[d] /\ rules'[d] = rules[d]
    BY <1>1, <1>a DEF Detect, Connections, Lists
  <2>3. CASE inboundRule = None
    <3>1. rules' = rules /\ pc'[c] = "passed" /\ rules[c] = <<>>
      BY <1>1, <2>1, <2>3, <1>a DEF Detect, Connections, Detected
    <3>2. Matching(<<>>, dest[c]) = {}  BY DEF Matching
    <3> QED BY <2>1, <2>2, <3>1, <3>2 DEF Detected
  <2>4. CASE inboundRule # None
    <3>1. inboundRule \in Seq(NumberedRule) /\ inboundRule \in Seq(Rule)
      BY <2>4, <1>a DEF NumberedLists, Lists
    <3>2. rules'[c] = inboundRule /\ pc'[c] # "new"
      BY <1>1, <2>4, <1>a DEF Detect, Connections, Lists
    <3>3. pc'[c] = "passed" => hitRuleID(inboundRule, dest[c]) = -1
      BY <1>1, <2>4, <1>a DEF Detect, Connections
    <3>4. \A i \in Matching(inboundRule, dest[c]) : inboundRule[i].id # -1
      BY <3>1, LenProperties, ElementOfSeq DEF Matching, NumberedRule
    <3>5. hitRuleID(inboundRule, dest[c]) = -1 => Matching(inboundRule, dest[c]) = {}
      BY <2>1, <3>1, <3>4, HitRule
    <3> QED BY <2>1, <2>2, <3>2, <3>3, <3>5 DEF Detected
  <2> QED BY <2>3, <2>4
<1>2. ASSUME NEW c \in Conns, LoadSet(c) \/ LoadOrStoreSet(c) \/ AddHit(c) PROVE Detected'
  <2>1. dest' = dest /\ rules' = rules
    BY <1>2 DEF LoadSet, LoadOrStoreSet, AddHit
  <2>2. \A d \in Conns : pc'[d] \in {"new", "passed"} => pc'[d] = pc[d]
    BY <1>2, <1>a DEF LoadSet, LoadOrStoreSet, AddHit, Connections
  <2> QED BY <2>1, <2>2 DEF Detected
<1>3. CASE \/ \E list \in PanelLists : PanelPublish(list)
           \/ FetchRules \/ FetchFails \/ UpdateRule \/ DeleteRule
           \/ GetDetectResult \/ drainAll \/ ReportIllegal
           \/ UNCHANGED vars
  <2>1. UNCHANGED <<pc, dest, rules>>
    BY <1>3 DEF PanelPublish, FetchRules, FetchFails, UpdateRule, DeleteRule, GetDetectResult,
       drainAll, ReportIllegal, vars
  <2> QED BY <2>1 DEF Detected
<1> QED BY <1>1, <1>2, <1>3 DEF Next

(* When no local rule list is configured and the panel numbers its rules,   *)
(* a connection to a destination that a rule of its list matches does not   *)
(* pass, whatever bad patterns and disabled rules stand before that rule    *)
(* and however updates and deletions race with Detect.                      *)
THEOREM NumberedRulesReject == AllNumbered => (Spec => []MatchedRejected)
<1> SUFFICES ASSUME AllNumbered PROVE Spec => []MatchedRejected  OBVIOUS
<1>1. Init => NumberedLists /\ Detected
  <2> SUFFICES ASSUME Init PROVE NumberedLists /\ Detected  OBVIOUS
  <2>1. <<>> \in Seq(NumberedRule)  BY EmptySeq
  <2> QED BY <2>1 DEF Init, NumberedLists, Detected
<1>2. TypeInv /\ NumberedLists /\ [Next]_vars => NumberedLists'  BY NextNumbered
<1>3. TypeInv /\ NumberedLists /\ Detected /\ [Next]_vars => Detected'  BY NextDetected
<1>4. Detected => MatchedRejected  BY DEF Detected, MatchedRejected
<1> QED BY <1>1, <1>2, <1>3, <1>4, InitTypeInv, NextTypeInv, PTL DEF Spec
=============================================================================
