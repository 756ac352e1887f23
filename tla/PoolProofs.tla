---------------------------- MODULE PoolProofs ----------------------------
(***************************************************************************)
(* The client's session pool (client.go) and the skip list it keeps its    *)
(* idle sessions in (skiplist.go), for any number of levels, sessions and  *)
(* streams.                                                                *)
(*                                                                         *)
(* The list is described link by link (ListOf): every link leads to the    *)
(* next key of its level.  The walks are recursive functions; each is      *)
(* shown to exist and to end where it should by looking at the least or    *)
(* greatest place where it would not.  On top of that, the pool: who holds *)
(* a session (OneHolder), that a live session always has a place           *)
(* (NoStrandedSession), and what a call can be in the middle of (Stage,    *)
(* Undialled).                                                             *)
(***************************************************************************)
EXTENDS SessionPool, TLAPS, SequenceTheorems, FiniteSetTheorems, WellFoundedInduction

-----------------------------------------------------------------------------
(* Least and greatest elements, in place of induction.                      *)
LEMMA LeastElement ==
  ASSUME NEW T, T \subseteq Nat, T # {}
  PROVE  \E x \in T : \A y \in T : x <= y
<1>1. PICK x \in T : \A y \in T : ~(<<y, x>> \in OpToRel(<, Nat))
  BY NatLessThanWellFounded, WFMin
<1>2. \A y \in T : ~(y < x)
  BY <1>1 DEF OpToRel
<1> QED BY <1>2

(* A bounded set of naturals has a greatest element.                        *)
LEMMA GreatestElement ==
  ASSUME NEW T, T \subseteq Nat, T # {}, NEW b \in Nat, \A x \in T : x <= b
  PROVE  \E x \in T : \A y \in T : y <= x
<1> DEFINE D == {b - x : x \in T}
<1>1. PICK z \in T : TRUE  OBVIOUS
<1>2. b - z \in D /\ \A d \in D : d \in Nat  OBVIOUS
<1>3. PICK d \in D : \A e \in D : d <= e  BY <1>2, LeastElement
<1>4. PICK x \in T : d = b - x  OBVIOUS
<1>5. \A y \in T : b - y \in D  OBVIOUS
<1>6. \A y \in T : y <= x
  <2> TAKE y \in T
  <2>1. b - x <= b - y  BY <1>3, <1>4, <1>5
  <2> QED BY <2>1
<1> QED BY <1>6

-----------------------------------------------------------------------------
(* The skip list link by link.                                              *)

(* Where the link of p on level i leads: to the next key of that level.     *)
Succ(sl, keys, p, i) ==
    \/ /\ sl.next[p][i] = Nil
       /\ \A k \in keys : k > p => i \notin DOMAIN sl.next[k]
    \/ /\ sl.next[p][i] \in keys
       /\ sl.next[p][i] > p
       /\ i \in DOMAIN sl.next[sl.next[p][i]]
       /\ \A k \in keys : k > p /\ i \in DOMAIN sl.next[k] => sl.next[p][i] <= k

Shape(sl, keys) ==
    /\ \E b \in Nat : keys \subseteq 1 .. b
    /\ sl \in [level : 1 .. MaxLevel, len : Nat, next : [{Head0} \cup keys -> Seq(Int)]]
    /\ DOMAIN sl.next[Head0] = 1 .. MaxLevel
    /\ \A k \in keys : \E h \in 1 .. sl.level : DOMAIN sl.next[k] = 1 .. h

Linked(sl, keys) == \A p \in {Head0} \cup keys : \A i \in DOMAIN sl.next[p] : Succ(sl, keys, p, i)

ListOf(sl, keys) ==
    /\ Shape(sl, keys)
    /\ Linked(sl, keys)
    /\ sl.len = Cardinality(keys)
    /\ sl.level = 1 \/ \E k \in keys : sl.level \in DOMAIN sl.next[k]

(* The last node of level i before key.                                     *)
IsPrev(sl, i, key, q) ==
    /\ q \in NodesAt(sl, i) /\ q < key
    /\ \A r \in NodesAt(sl, i) : r < key => r <= q

(* Keys are above the head.                                                 *)
LEMMA KeysPositive == ASSUME NEW sl, NEW keys, Shape(sl, keys) PROVE keys \subseteq Nat \ {0}
BY DEF Shape

(* The head has a link on every level.                                      *)
LEMMA HeadAt ==
  ASSUME NEW sl, NEW keys, Shape(sl, keys), NEW i \in 1 .. MaxLevel
  PROVE  /\ Head0 \in NodesAt(sl, i)
         /\ NodesAt(sl, i) \subseteq Nat
         /\ NodesAt(sl, i) = {Head0} \cup {k \in keys : i \in DOMAIN sl.next[k]}
BY DEF Shape, NodesAt, Head0

(* On every level there is a last node before a key,                        *)
LEMMA PrevExists ==
  ASSUME NEW sl, NEW keys, Shape(sl, keys), NEW i \in 1 .. MaxLevel, NEW key \in Nat \ {0}
  PROVE  \E q : IsPrev(sl, i, key, q)
<1> DEFINE T == {q \in NodesAt(sl, i) : q < key}
<1>1. T \subseteq Nat /\ T # {} /\ \A q \in T : q <= key  BY HeadAt DEF Head0
<1>2. PICK q \in T : \A r \in T : r <= q  BY <1>1, GreatestElement
<1>3. IsPrev(sl, i, key, q)  BY <1>2 DEF IsPrev
<1> QED BY <1>3

(* and only one.                                                            *)
LEMMA PrevUnique ==
  ASSUME NEW sl, NEW keys, Shape(sl, keys), NEW i \in 1 .. MaxLevel, NEW key \in Nat,
         NEW q, IsPrev(sl, i, key, q), NEW r, IsPrev(sl, i, key, r)
  PROVE  q = r
BY HeadAt DEF IsPrev

(* One link: the next node of the level, or none.                           *)
LEMMA NextAt ==
  ASSUME NEW sl, NEW keys, ListOf(sl, keys), NEW i \in 1 .. MaxLevel, NEW p \in NodesAt(sl, i)
  PROVE  \/ /\ sl.next[p][i] = Nil
            /\ \A r \in NodesAt(sl, i) : r <= p
         \/ /\ sl.next[p][i] \in NodesAt(sl, i) /\ sl.next[p][i] \in keys
            /\ sl.next[p][i] > p
            /\ \A r \in NodesAt(sl, i) : r > p => sl.next[p][i] <= r
<1>1. p \in {Head0} \cup keys /\ i \in DOMAIN sl.next[p]  BY DEF NodesAt, ListOf, Shape
<1>2. Succ(sl, keys, p, i)  BY <1>1 DEF ListOf, Linked
<1>3. NodesAt(sl, i) \subseteq Nat
      /\ NodesAt(sl, i) = {Head0} \cup {k \in keys : i \in DOMAIN sl.next[k]}
  BY HeadAt DEF ListOf
<1>4. CASE /\ sl.next[p][i] = Nil
           /\ \A k \in keys : k > p => i \notin DOMAIN sl.next[k]
  BY <1>4, <1>3 DEF Head0
<1>5. CASE /\ sl.next[p][i] \in keys /\ sl.next[p][i] > p
           /\ i \in DOMAIN sl.next[sl.next[p][i]]
           /\ \A k \in keys : k > p /\ i \in DOMAIN sl.next[k] => sl.next[p][i] <= k
  BY <1>5, <1>3 DEF Head0
<1> QED BY <1>2, <1>4, <1>5 DEF Succ

-----------------------------------------------------------------------------
(* PrevAt: the walk along one level.                                        *)
IsWalk(g, sl, i, key) ==
    g = [p \in NodesAt(sl, i) |->
            IF sl.next[p][i] = Nil \/ sl.next[p][i] >= key THEN p ELSE g[sl.next[p][i]]]

(* The walk is a function: it goes to the last node before the key.         *)
LEMMA WalkExists ==
  ASSUME NEW sl, NEW keys, ListOf(sl, keys), NEW i \in 1 .. MaxLevel, NEW key \in Nat \ {0}
  PROVE  \E g : IsWalk(g, sl, i, key)
<1>1. PICK q : IsPrev(sl, i, key, q)  BY PrevExists DEF ListOf
<1> DEFINE g == [p \in NodesAt(sl, i) |-> IF p < key THEN q ELSE p]
<1>2. ASSUME NEW p \in NodesAt(sl, i)
      PROVE  g[p] = IF sl.next[p][i] = Nil \/ sl.next[p][i] >= key THEN p
                    ELSE g[sl.next[p][i]]
  <2>1. NodesAt(sl, i) \subseteq Nat  BY HeadAt DEF ListOf
  <2>2. CASE sl.next[p][i] = Nil
    <3>1. \A r \in NodesAt(sl, i) : r <= p  BY <2>2, <2>1, NextAt DEF Nil
    <3> QED BY <1>1, <2>1, <2>2, <3>1 DEF IsPrev
  <2>3. CASE sl.next[p][i] # Nil
    <3>1. /\ sl.next[p][i] \in NodesAt(sl, i) /\ sl.next[p][i] > p
          /\ \A r \in NodesAt(sl, i) : r > p => sl.next[p][i] <= r
      BY <2>3, NextAt
    <3> QED BY <1>1, <2>1, <2>3, <3>1 DEF IsPrev
  <2> QED BY <2>2, <2>3
<1>3. IsWalk(g, sl, i, key)  BY <1>2 DEF IsWalk
<1> QED BY <1>3

(* Any walk that satisfies its equation ends there.                         *)
LEMMA WalkEnds ==
  ASSUME NEW sl, NEW keys, ListOf(sl, keys), NEW i \in 1 .. MaxLevel, NEW key \in Nat \ {0},
         NEW g, IsWalk(g, sl, i, key), NEW from \in NodesAt(sl, i), from < key
  PROVE  IsPrev(sl, i, key, g[from])
<1> DEFINE T == {p \in NodesAt(sl, i) : p < key /\ ~IsPrev(sl, i, key, g[p])}
<1>1. NodesAt(sl, i) \subseteq Nat  BY HeadAt DEF ListOf
<1>2. SUFFICES ASSUME T # {} PROVE FALSE  OBVIOUS
<1>3. T \subseteq Nat /\ \A p \in T : p <= key  BY <1>1
<1> HIDE DEF T
<1>4. PICK p \in T : \A r \in T : r <= p  BY <1>2, <1>3, GreatestElement
<1>5. p \in NodesAt(sl, i) /\ p < key /\ ~IsPrev(sl, i, key, g[p])  BY DEF T
<1>6. g[p] = IF sl.next[p][i] = Nil \/ sl.next[p][i] >= key THEN p ELSE g[sl.next[p][i]]
  BY <1>5 DEF IsWalk
<1>7. CASE sl.next[p][i] = Nil
  <2>1. \A r \in NodesAt(sl, i) : r <= p  BY <1>5, <1>7, <1>1, NextAt DEF Nil
  <2> QED BY <1>5, <1>6, <1>7, <2>1 DEF IsPrev
<1>8. CASE sl.next[p][i] # Nil
  <2>1. /\ sl.next[p][i] \in NodesAt(sl, i) /\ sl.next[p][i] > p
        /\ \A r \in NodesAt(sl, i) : r > p => sl.next[p][i] <= r
    BY <1>5, <1>8, NextAt
  <2>2. CASE sl.next[p][i] >= key
    <3>1. g[p] = p  BY <1>6, <2>2
    <3>2. \A r \in NodesAt(sl, i) : r < key => r <= p  BY <2>1, <2>2, <1>1, <1>5
    <3> QED BY <1>5, <3>1, <3>2 DEF IsPrev
  <2>3. CASE ~(sl.next[p][i] >= key)
    <3>1. g[p] = g[sl.next[p][i]]  BY <1>6, <1>8, <2>3
    <3>2. sl.next[p][i] < key  BY <2>1, <2>3, <1>1
    <3>3. sl.next[p][i] \notin T  BY <1>4, <2>1, <1>1, <1>5
    <3> QED BY <3>1, <3>2, <3>3, <2>1, <1>5 DEF T
  <2> QED BY <2>2, <2>3
<1> QED BY <1>7, <1>8

(* PrevAt finds the last node of its level before key, wherever before key  *)
(* it starts.                                                               *)
LEMMA PrevAtFinds ==
  ASSUME NEW sl, NEW keys, ListOf(sl, keys), NEW i \in 1 .. MaxLevel, NEW key \in Nat \ {0},
         NEW from \in NodesAt(sl, i), from < key
  PROVE  IsPrev(sl, i, key, PrevAt(sl, i, from, key))
<1> DEFINE w == CHOOSE g : IsWalk(g, sl, i, key)
<1>1. IsWalk(w, sl, i, key)  BY WalkExists
<1>2. PrevAt(sl, i, from, key) = w[from]  BY DEF PrevAt, IsWalk
<1> HIDE DEF w
<1> QED BY <1>1, <1>2, WalkEnds

(* FindPrevNodes: each level starts where the one above it stopped.         *)
IsDescent(f, sl, key) ==
    f = [i \in 1 .. sl.level |->
            PrevAt(sl, i, IF i = sl.level THEN Head0 ELSE f[i + 1], key)]

(* A node of one level is a node of the level below.                        *)
LEMMA LevelsNest ==
  ASSUME NEW sl, NEW keys, Shape(sl, keys), NEW i \in 1 .. MaxLevel, i + 1 <= MaxLevel
  PROVE  NodesAt(sl, i + 1) \subseteq NodesAt(sl, i)
<1> SUFFICES ASSUME NEW p \in NodesAt(sl, i + 1) PROVE p \in NodesAt(sl, i)  OBVIOUS
<1>1. p \in {Head0} \cup keys /\ i + 1 \in DOMAIN sl.next[p]  BY DEF NodesAt, Shape
<1>2. CASE p = Head0  BY <1>2, HeadAt
<1>3. CASE p \in keys
  <2>1. PICK h \in 1 .. sl.level : DOMAIN sl.next[p] = 1 .. h  BY <1>3 DEF Shape
  <2> QED BY <1>1, <2>1, LevelAssumption DEF NodesAt, Shape
<1> QED BY <1>1, <1>2, <1>3

(* One level of the descent.                                                *)
LEMMA DescentStep ==
  ASSUME NEW sl, NEW keys, ListOf(sl, keys), NEW key \in Nat \ {0}, NEW i \in 1 .. sl.level,
         NEW f, i # sl.level => IsPrev(sl, i + 1, key, f[i + 1])
  PROVE  IsPrev(sl, i, key, PrevAt(sl, i, IF i = sl.level THEN Head0 ELSE f[i + 1], key))
<1>1. sl.level \in 1 .. MaxLevel  BY DEF ListOf, Shape
<1>2. i \in 1 .. MaxLevel  BY <1>1, LevelAssumption
<1>3. Head0 \in NodesAt(sl, i) /\ Head0 < key  BY <1>2, HeadAt DEF ListOf, Head0
<1>4. CASE i = sl.level  BY <1>2, <1>3, <1>4, PrevAtFinds
<1>5. CASE i # sl.level
  <2>1. i + 1 <= MaxLevel  BY <1>1, <1>5, LevelAssumption
  <2>2. f[i + 1] \in NodesAt(sl, i) /\ f[i + 1] < key
    BY <1>2, <1>5, <2>1, LevelsNest DEF IsPrev, ListOf
  <2> QED BY <1>2, <1>5, <2>2, PrevAtFinds
<1> QED BY <1>4, <1>5

(* The descent of findPrevNodes is a function.                              *)
LEMMA DescentExists ==
  ASSUME NEW sl, NEW keys, ListOf(sl, keys), NEW key \in Nat \ {0}
  PROVE  \E f : IsDescent(f, sl, key)
<1> DEFINE f == [i \in 1 .. sl.level |-> CHOOSE q : IsPrev(sl, i, key, q)]
<1>1. sl.level \in 1 .. MaxLevel  BY DEF ListOf, Shape
<1>2. ASSUME NEW i \in 1 .. sl.level PROVE IsPrev(sl, i, key, f[i])
  <2>1. i \in 1 .. MaxLevel  BY <1>1, LevelAssumption
  <2>2. \E q : IsPrev(sl, i, key, q)  BY <2>1, PrevExists DEF ListOf
  <2> QED BY <2>2
<1> HIDE DEF f
<1>3. ASSUME NEW i \in 1 .. sl.level
      PROVE  f[i] = PrevAt(sl, i, IF i = sl.level THEN Head0 ELSE f[i + 1], key)
  <2>1. i \in 1 .. MaxLevel  BY <1>1, LevelAssumption
  <2>2. i # sl.level => i + 1 \in 1 .. sl.level  BY <1>1, LevelAssumption
  <2>3. i # sl.level => IsPrev(sl, i + 1, key, f[i + 1])  BY <1>2, <2>2
  <2>4. IsPrev(sl, i, key, PrevAt(sl, i, IF i = sl.level THEN Head0 ELSE f[i + 1], key))
    BY <2>3, DescentStep
  <2> QED BY <1>2, <2>1, <2>4, PrevUnique DEF ListOf
<1>4. IsDescent(f, sl, key)
  <2>1. f = [i \in 1 .. sl.level |-> f[i]]  BY DEF f
  <2> QED BY <1>3, <2>1 DEF IsDescent
<1> QED BY <1>4

(* It collects the last node before the key of every level.                 *)
LEMMA DescentEnds ==
  ASSUME NEW sl, NEW keys, ListOf(sl, keys), NEW key \in Nat \ {0},
         NEW f, IsDescent(f, sl, key), NEW j \in 1 .. sl.level
  PROVE  IsPrev(sl, j, key, f[j])
<1> DEFINE T == {i \in 1 .. sl.level : ~IsPrev(sl, i, key, f[i])}
<1>1. sl.level \in 1 .. MaxLevel  BY DEF ListOf, Shape
<1>2. SUFFICES ASSUME T # {} PROVE FALSE  OBVIOUS
<1>3. T \subseteq Nat /\ sl.level \in Nat /\ \A i \in T : i <= sl.level
  BY <1>1, LevelAssumption
<1> HIDE DEF T
<1>4. PICK i \in T : \A r \in T : r <= i  BY <1>2, <1>3, GreatestElement
<1>5. i \in 1 .. sl.level /\ ~IsPrev(sl, i, key, f[i])  BY DEF T
<1>6. i # sl.level => i + 1 \in 1 .. sl.level /\ i + 1 \notin T
  BY <1>1, <1>4, <1>5, LevelAssumption
<1>7. i # sl.level => IsPrev(sl, i + 1, key, f[i + 1])  BY <1>6 DEF T
<1>8. f[i] = PrevAt(sl, i, IF i = sl.level THEN Head0 ELSE f[i + 1], key)
  BY <1>5 DEF IsDescent
<1> QED BY <1>5, <1>7, <1>8, DescentStep

(* findPrevNodes returns the last node before the key of every level.       *)
LEMMA FindPrevNodesFinds ==
  ASSUME NEW sl, NEW keys, ListOf(sl, keys), NEW key \in Nat \ {0}, NEW i \in 1 .. sl.level
  PROVE  IsPrev(sl, i, key, FindPrevNodes(sl, key)[i])
<1> DEFINE d == CHOOSE f : IsDescent(f, sl, key)
<1>1. IsDescent(d, sl, key)  BY DescentExists
<1>2. FindPrevNodes(sl, key) = d  BY DEF FindPrevNodes, IsDescent
<1> HIDE DEF d
<1> QED BY <1>1, <1>2, DescentEnds

(* Behind the last node before key comes key, if the level has it.          *)
LEMMA BehindPrev ==
  ASSUME NEW sl, NEW keys, ListOf(sl, keys), NEW key \in Nat \ {0}, NEW i \in 1 .. MaxLevel,
         NEW q, IsPrev(sl, i, key, q)
  PROVE  sl.next[q][i] = key <=> key \in keys /\ i \in DOMAIN sl.next[key]
<1>1. /\ NodesAt(sl, i) \subseteq Nat
      /\ NodesAt(sl, i) = {Head0} \cup {k \in keys : i \in DOMAIN sl.next[k]}
  BY HeadAt DEF ListOf
<1>2. CASE sl.next[q][i] = Nil
  <2>1. \A r \in NodesAt(sl, i) : r <= q  BY <1>1, <1>2, NextAt DEF IsPrev, Nil
  <2> QED BY <1>1, <1>2, <2>1 DEF IsPrev, Nil
<1>3. CASE sl.next[q][i] # Nil
  <2>1. /\ sl.next[q][i] \in NodesAt(sl, i) /\ sl.next[q][i] \in keys
        /\ sl.next[q][i] > q
        /\ \A r \in NodesAt(sl, i) : r > q => sl.next[q][i] <= r
    BY <1>3, NextAt DEF IsPrev
  <2>2. sl.next[q][i] >= key  BY <1>1, <2>1 DEF IsPrev
  <2> QED BY <1>1, <2>1, <2>2 DEF IsPrev, Head0
<1> QED BY <1>2, <1>3

(* FindNode finds exactly the keys of the list.                             *)
LEMMA FindNodeExact ==
  ASSUME NEW sl, NEW keys, ListOf(sl, keys), NEW key \in Nat \ {0}
  PROVE  FindNode(sl, key) # Nil <=> key \in keys
<1> DEFINE prevs == FindPrevNodes(sl, key)
<1>1. sl.level \in 1 .. MaxLevel /\ \A k \in keys : 1 \in DOMAIN sl.next[k]
  BY LevelAssumption DEF ListOf, Shape
<1>2. \A i \in 1 .. sl.level : sl.next[prevs[i]][i] = key <=> key \in keys /\ i \in DOMAIN sl.next[key]
  <2> TAKE i \in 1 .. sl.level
  <2>1. i \in 1 .. MaxLevel  BY <1>1, LevelAssumption
  <2> QED BY <2>1, FindPrevNodesFinds, BehindPrev
<1>3. 1 \in 1 .. sl.level  BY <1>1, LevelAssumption
<1> HIDE DEF prevs
<1>4. FindNode(sl, key) = IF \E i \in 1 .. sl.level : sl.next[prevs[i]][i] = key THEN key ELSE Nil
  BY DEF FindNode, prevs
<1> QED BY <1>1, <1>2, <1>3, <1>4 DEF Nil

-----------------------------------------------------------------------------
(* Chain: what an iterator visits.                                          *)
IsChain(g, sl, i) ==
    g = [p \in NodesAt(sl, i) |->
            IF sl.next[p][i] = Nil THEN <<>> ELSE <<sl.next[p][i]>> \o g[sl.next[p][i]]]

(* The chains of the nodes from m on.                                       *)
NodesFrom(sl, i, m) == {p \in NodesAt(sl, i) : p >= m}
IsPartialChain(g, sl, i, m) ==
    g = [p \in NodesFrom(sl, i, m) |->
            IF sl.next[p][i] = Nil THEN <<>> ELSE <<sl.next[p][i]>> \o g[sl.next[p][i]]]

(* The nodes an iterator visits from a node on are a function.              *)
LEMMA ChainExists ==
  ASSUME NEW sl, NEW keys, ListOf(sl, keys), NEW i \in 1 .. MaxLevel
  PROVE  \E g : IsChain(g, sl, i)
<1>1. PICK b \in Nat : keys \subseteq 1 .. b  BY DEF ListOf, Shape
<1>2. /\ NodesAt(sl, i) \subseteq Nat
      /\ NodesAt(sl, i) = {Head0} \cup {k \in keys : i \in DOMAIN sl.next[k]}
  BY HeadAt DEF ListOf
<1> DEFINE T == {m \in Nat : \E g : IsPartialChain(g, sl, i, m)}
<1>3. b + 1 \in T
  <2>1. NodesFrom(sl, i, b + 1) = {}  BY <1>1, <1>2 DEF NodesFrom, Head0
  <2>2. IsPartialChain([p \in {} |-> 0], sl, i, b + 1)  BY <2>1 DEF IsPartialChain
  <2> QED BY <2>2
<1>4. PICK m \in T : \A n \in T : m <= n  BY <1>3, LeastElement
<1>5. PICK g : IsPartialChain(g, sl, i, m)  OBVIOUS
<1>6. CASE m = 0
  <2>1. NodesFrom(sl, i, m) = NodesAt(sl, i)  BY <1>2, <1>6 DEF NodesFrom
  <2>2. IsChain(g, sl, i)  BY <1>5, <2>1 DEF IsPartialChain, IsChain
  <2> QED BY <2>2
<1>7. CASE m # 0
  <2> DEFINE c(p) == IF sl.next[p][i] = Nil THEN <<>> ELSE <<sl.next[p][i]>> \o g[sl.next[p][i]]
             h == [p \in NodesFrom(sl, i, m - 1) |-> c(p)]
  <2>1. m - 1 \in Nat /\ m - 1 \notin T  BY <1>4, <1>7
  <2>2. ASSUME NEW p \in NodesFrom(sl, i, m) PROVE h[p] = g[p]
    <3>1. p \in NodesFrom(sl, i, m - 1)  BY <1>2, <2>1 DEF NodesFrom
    <3>2. g[p] = c(p)  BY <1>5 DEF IsPartialChain
    <3> QED BY <3>1, <3>2
  <2>3. ASSUME NEW p \in NodesFrom(sl, i, m - 1), sl.next[p][i] # Nil
        PROVE  sl.next[p][i] \in NodesFrom(sl, i, m)
    <3>1. sl.next[p][i] \in NodesAt(sl, i) /\ sl.next[p][i] > p
      BY <2>3, NextAt DEF NodesFrom
    <3> QED BY <1>2, <2>1, <3>1 DEF NodesFrom
  <2>4. ASSUME NEW p \in NodesFrom(sl, i, m - 1)
        PROVE  h[p] = IF sl.next[p][i] = Nil THEN <<>> ELSE <<sl.next[p][i]>> \o h[sl.next[p][i]]
    <3>1. h[p] = c(p)  OBVIOUS
    <3> HIDE DEF h
    <3> QED BY <3>1, <2>2, <2>3
  <2>5. h = [p \in NodesFrom(sl, i, m - 1) |-> h[p]]  OBVIOUS
  <2> HIDE DEF h
  <2>6. IsPartialChain(h, sl, i, m - 1)  BY <2>4, <2>5 DEF IsPartialChain
  <2> QED BY <2>1, <2>6
<1> QED BY <1>6, <1>7

(* A smaller key in front of an ascending sequence.                         *)
LEMMA ConsAscending ==
  ASSUME NEW s \in Seq(Nat), Ascending(s), NEW n \in Nat, \A x \in ToSet(s) : n < x
  PROVE  /\ <<n>> \o s \in Seq(Nat)
         /\ Ascending(<<n>> \o s)
         /\ ToSet(<<n>> \o s) = {n} \cup ToSet(s)
<1> DEFINE t == <<n>> \o s
<1>1. /\ Len(t) = Len(s) + 1 /\ t \in Seq(Nat) /\ Len(s) \in Nat
      /\ DOMAIN t = 1 .. Len(t) /\ DOMAIN s = 1 .. Len(s)
      /\ t[1] = n /\ \A i \in 1 .. Len(s) : t[i + 1] = s[i]
  OBVIOUS
<1> HIDE DEF t
<1>2. \A i \in 2 .. Len(t) : i - 1 \in 1 .. Len(s) /\ t[i] = s[i - 1]
  <2> TAKE i \in 2 .. Len(t)
  <2>1. i - 1 \in 1 .. Len(s) /\ (i - 1) + 1 = i  BY <1>1
  <2> QED BY <1>1, <2>1
<1>3. Ascending(t)
  <2> SUFFICES ASSUME NEW i \in 1 .. (Len(t) - 1) PROVE t[i] < t[i + 1]  BY DEF Ascending
  <2>1. i \in 1 .. Len(s) /\ t[i + 1] = s[i]  BY <1>1
  <2>2. CASE i = 1  BY <1>1, <2>1, <2>2 DEF ToSet
  <2>3. CASE i # 1
    <3>1. i - 1 \in 1 .. (Len(s) - 1) /\ t[i] = s[i - 1] /\ (i - 1) + 1 = i
      BY <1>1, <1>2, <2>1, <2>3
    <3> QED BY <2>1, <3>1 DEF Ascending
  <2> QED BY <2>2, <2>3
<1>4. ToSet(t) = {n} \cup ToSet(s)
  <2>1. ASSUME NEW x \in ToSet(t) PROVE x \in {n} \cup ToSet(s)
    <3>1. PICK i \in 1 .. Len(t) : x = t[i]  BY <1>1 DEF ToSet
    <3>2. CASE i = 1  BY <1>1, <3>1, <3>2
    <3>3. CASE i # 1
      <4>1. i \in 2 .. Len(t)  BY <1>1, <3>1, <3>3
      <4>2. i - 1 \in DOMAIN s /\ x = s[i - 1]  BY <1>1, <1>2, <3>1, <4>1
      <4> QED BY <4>2 DEF ToSet
    <3> QED BY <3>2, <3>3
  <2>2. ASSUME NEW x \in {n} \cup ToSet(s) PROVE x \in ToSet(t)
    <3>1. CASE x = n
      <4>1. 1 \in DOMAIN t  BY <1>1
      <4> QED BY <1>1, <3>1, <4>1 DEF ToSet
    <3>2. CASE x \in ToSet(s)
      <4>1. PICK i \in 1 .. Len(s) : x = s[i]  BY <1>1, <3>2 DEF ToSet
      <4>2. i + 1 \in DOMAIN t /\ t[i + 1] = x  BY <1>1, <4>1
      <4> QED BY <4>2 DEF ToSet
    <3> QED BY <3>1, <3>2
  <2> QED BY <2>1, <2>2
<1> QED BY <1>1, <1>3, <1>4 DEF t

(* The chain behind p visits the nodes of the level behind p, in order.     *)
ChainBehind(sl, i, p, s) ==
    s \in Seq(Nat) /\ Ascending(s) /\ ToSet(s) = {r \in NodesAt(sl, i) : r > p}

(* From a node on, the iterator visits what is behind it, in order.         *)
LEMMA ChainVisits ==
  ASSUME NEW sl, NEW keys, ListOf(sl, keys), NEW i \in 1 .. MaxLevel,
         NEW g, IsChain(g, sl, i), NEW from \in NodesAt(sl, i)
  PROVE  ChainBehind(sl, i, from, g[from])
<1> DEFINE T == {p \in NodesAt(sl, i) : ~ChainBehind(sl, i, p, g[p])}
<1>1. PICK b \in Nat : keys \subseteq 1 .. b  BY DEF ListOf, Shape
<1>2. /\ NodesAt(sl, i) \subseteq Nat
      /\ NodesAt(sl, i) = {Head0} \cup {k \in keys : i \in DOMAIN sl.next[k]}
  BY HeadAt DEF ListOf
<1>3. SUFFICES ASSUME T # {} PROVE FALSE  OBVIOUS
<1>4. T \subseteq Nat /\ \A p \in T : p <= b  BY <1>1, <1>2 DEF Head0
<1> HIDE DEF T
<1>5. PICK p \in T : \A r \in T : r <= p  BY <1>3, <1>4, GreatestElement
<1>6. p \in NodesAt(sl, i) /\ ~ChainBehind(sl, i, p, g[p])  BY DEF T
<1>7. g[p] = IF sl.next[p][i] = Nil THEN <<>> ELSE <<sl.next[p][i]>> \o g[sl.next[p][i]]
  BY <1>6 DEF IsChain
<1>8. CASE sl.next[p][i] = Nil
  <2>1. \A r \in NodesAt(sl, i) : r <= p  BY <1>2, <1>6, <1>8, NextAt DEF Nil
  <2>2. {r \in NodesAt(sl, i) : r > p} = {}  BY <1>2, <1>6, <2>1
  <2>3. <<>> \in Seq(Nat) /\ Ascending(<<>>) /\ ToSet(<<>>) = {}  BY DEF Ascending, ToSet
  <2> QED BY <1>6, <1>7, <1>8, <2>2, <2>3 DEF ChainBehind
<1>9. CASE sl.next[p][i] # Nil
  <2> DEFINE n == sl.next[p][i]
  <2>1. n \in NodesAt(sl, i) /\ n > p /\ \A r \in NodesAt(sl, i) : r > p => n <= r
    BY <1>6, <1>9, NextAt
  <2>2. g[p] = <<n>> \o g[n]  BY <1>7, <1>9
  <2> HIDE DEF n
  <2>3. ChainBehind(sl, i, n, g[n])  BY <1>2, <1>5, <1>6, <2>1 DEF T
  <2>4. {r \in NodesAt(sl, i) : r > p} = {n} \cup {r \in NodesAt(sl, i) : r > n}
    BY <1>2, <1>6, <2>1
  <2>5. /\ <<n>> \o g[n] \in Seq(Nat) /\ Ascending(<<n>> \o g[n])
        /\ ToSet(<<n>> \o g[n]) = {n} \cup ToSet(g[n])
    BY <1>2, <2>1, <2>3, ConsAscending DEF ChainBehind
  <2> QED BY <1>6, <2>2, <2>3, <2>4, <2>5 DEF ChainBehind
<1> QED BY <1>8, <1>9

(* From the head on it visits the keys of the level, in order.              *)
LEMMA ChainExact ==
  ASSUME NEW sl, NEW keys, ListOf(sl, keys), NEW i \in 1 .. MaxLevel
  PROVE  /\ Chain(sl, i) \in Seq(Nat)
         /\ Ascending(Chain(sl, i))
         /\ ToSet(Chain(sl, i)) = {k \in keys : i \in DOMAIN sl.next[k]}
<1> DEFINE c == CHOOSE g : IsChain(g, sl, i)
<1>1. IsChain(c, sl, i)  BY ChainExists
<1>2. Chain(sl, i) = c[Head0]  BY DEF Chain, IsChain
<1> HIDE DEF c
<1>3. /\ Head0 \in NodesAt(sl, i)
      /\ NodesAt(sl, i) = {Head0} \cup {k \in keys : i \in DOMAIN sl.next[k]}
      /\ keys \subseteq Nat \ {0}
  BY HeadAt, KeysPositive DEF ListOf
<1>4. ChainBehind(sl, i, Head0, c[Head0])  BY <1>1, <1>3, ChainVisits
<1>5. {r \in NodesAt(sl, i) : r > Head0} = {k \in keys : i \in DOMAIN sl.next[k]}
  <2>1. ASSUME NEW r \in NodesAt(sl, i), r > Head0 PROVE r \in keys /\ i \in DOMAIN sl.next[r]
    BY <1>3, <2>1 DEF Head0
  <2>2. ASSUME NEW k \in keys PROVE k > Head0  BY <1>3 DEF Head0
  <2> QED BY <1>3, <2>1, <2>2
<1> QED BY <1>2, <1>4, <1>5 DEF ChainBehind

(* A list that is right link by link is right for whoever iterates over it. *)
LEMMA ListRepresents ==
  ASSUME NEW sl, NEW keys, ListOf(sl, keys)
  PROVE  Represents(sl, keys)
<1>1. /\ sl.level \in 1 .. MaxLevel /\ MaxLevel \in Nat /\ 1 \in 1 .. MaxLevel
      /\ keys \subseteq Nat \ {0}
  BY LevelAssumption, KeysPositive DEF ListOf, Shape
<1>2. \A k \in keys : /\ sl.next[k] \in Seq(Int)
                      /\ Len(sl.next[k]) \in 1 .. sl.level
                      /\ DOMAIN sl.next[k] = 1 .. Len(sl.next[k])
  <2> TAKE k \in keys
  <2>1. PICK h \in 1 .. sl.level : DOMAIN sl.next[k] = 1 .. h  BY DEF ListOf, Shape
  <2>2. sl.next[k] \in Seq(Int)  BY DEF ListOf, Shape
  <2>3. Len(sl.next[k]) \in Nat /\ DOMAIN sl.next[k] = 1 .. Len(sl.next[k])  BY <2>2
  <2>4. Len(sl.next[k]) = h  BY <1>1, <2>1, <2>3
  <2> QED BY <2>2, <2>3, <2>4
<1>3. ToSet(Iterate(sl)) = keys
  <2>1. {k \in keys : 1 \in DOMAIN sl.next[k]} = keys
    <3>1. ASSUME NEW k \in keys PROVE 1 \in DOMAIN sl.next[k]
      <4>1. Len(sl.next[k]) \in 1 .. sl.level /\ DOMAIN sl.next[k] = 1 .. Len(sl.next[k])  BY <1>2
      <4>2. 1 \in 1 .. Len(sl.next[k])  BY <1>1, <4>1
      <4> QED BY <4>1, <4>2
    <3> QED BY <3>1
  <2>2. ToSet(Chain(sl, 1)) = {k \in keys : 1 \in DOMAIN sl.next[k]}  BY <1>1, ChainExact
  <2> QED BY <2>1, <2>2 DEF Iterate
<1>4. ASSUME NEW i \in 1 .. MaxLevel
      PROVE  ToSet(Chain(sl, i)) = {k \in keys : Len(sl.next[k]) >= i}
  <2>1. {k \in keys : i \in DOMAIN sl.next[k]} = {k \in keys : Len(sl.next[k]) >= i}
    BY <1>1, <1>2
  <2> QED BY <2>1, ChainExact
<1>5. sl.level = 1 \/ Chain(sl, sl.level) # <<>>
  <2> SUFFICES ASSUME sl.level # 1 PROVE Chain(sl, sl.level) # <<>>  OBVIOUS
  <2>1. PICK k \in keys : sl.level \in DOMAIN sl.next[k]  BY DEF ListOf
  <2>2. k \in ToSet(Chain(sl, sl.level))  BY <1>1, <2>1, ChainExact
  <2> QED BY <2>2 DEF ToSet
<1>6. ASSUME NEW i \in (sl.level + 1) .. MaxLevel PROVE Chain(sl, i) = <<>>
  <2>1. i \in 1 .. MaxLevel  BY <1>1
  <2>2. ToSet(Chain(sl, i)) = {}
    <3>1. \A k \in keys : ~(Len(sl.next[k]) >= i)  BY <1>1, <1>2
    <3>2. ToSet(Chain(sl, i)) = {k \in keys : Len(sl.next[k]) >= i}  BY <1>4, <2>1
    <3> QED BY <3>1, <3>2
  <2>3. Chain(sl, i) \in Seq(Nat)  BY <2>1, ChainExact
  <2>4. \A j \in DOMAIN Chain(sl, i) : Chain(sl, i)[j] \in ToSet(Chain(sl, i))  BY DEF ToSet
  <2>5. DOMAIN Chain(sl, i) = 1 .. Len(Chain(sl, i)) /\ Len(Chain(sl, i)) \in Nat  BY <2>3
  <2>6. 1 \notin DOMAIN Chain(sl, i)  BY <2>2, <2>4
  <2>7. Len(Chain(sl, i)) = 0  BY <2>5, <2>6
  <2> QED BY <2>3, <2>7
<1> QED BY <1>3, <1>4, <1>5, <1>6, ChainExact DEF Represents, ListOf

-----------------------------------------------------------------------------
(* The operations keep the list right.                                      *)

(* init makes the empty list.                                               *)
LEMMA NewListOf == ListOf(NewSkipList, {})
<1> DEFINE sl == NewSkipList
<1>1. /\ sl.level = 1 /\ sl.len = 0 /\ sl.next = [n \in {Head0} |-> sl.next[Head0]]
      /\ sl = [level |-> sl.level, len |-> sl.len, next |-> sl.next]
      /\ sl.next[Head0] = [i \in 1 .. MaxLevel |-> Nil]
  BY DEF NewSkipList, NewNode
<1> HIDE DEF sl
<1>2. sl.next[Head0] \in Seq(Int) /\ DOMAIN sl.next[Head0] = 1 .. MaxLevel
  BY <1>1, LevelAssumption DEF Nil
<1>3. sl.next \in [{Head0} \cup {} -> Seq(Int)]  BY <1>1, <1>2
<1>4. Shape(sl, {})
  <2>1. 1 \in 1 .. MaxLevel  BY LevelAssumption
  <2>2. {} \subseteq 1 .. 0  OBVIOUS
  <2> QED BY <1>1, <1>2, <1>3, <2>1, <2>2 DEF Shape
<1>5. Linked(sl, {})  BY <1>1 DEF Linked, Succ
<1> QED BY <1>1, <1>4, <1>5, FS_EmptySet DEF ListOf, sl

(* A list has finitely many keys.                                           *)
LEMMA ListFinite == ASSUME NEW sl, NEW keys, Shape(sl, keys) PROVE IsFiniteSet(keys)
<1>1. PICK b \in Nat : keys \subseteq 1 .. b  BY DEF Shape
<1>2. IsFiniteSet(1 .. b)  BY FS_Interval
<1> QED BY <1>1, <1>2, FS_Subset

(* A node spliced in behind its predecessor on each level up to its own.    *)
LEMMA SpliceIn ==
  ASSUME NEW sl, NEW keys, ListOf(sl, keys), NEW key \in Nat \ {0}, key \notin keys,
         NEW level \in 1 .. MaxLevel, NEW pred,
         \A i \in 1 .. level : IsPrev(sl, i, key, pred[i]),
         NEW new, DOMAIN new.next[key] = 1 .. level,
         \A i \in 1 .. level : new.next[key][i] = sl.next[pred[i]][i],
         \A n \in {Head0} \cup keys :
            /\ DOMAIN new.next[n] = DOMAIN sl.next[n]
            /\ \A i \in DOMAIN sl.next[n] :
                 new.next[n][i] = IF i <= level /\ pred[i] = n THEN key ELSE sl.next[n][i]
  PROVE  Linked(new, keys \cup {key})
<1>1. keys \subseteq Nat \ {0} /\ level \in Nat  BY KeysPositive, LevelAssumption DEF ListOf
<1> SUFFICES ASSUME NEW p \in {Head0} \cup keys \cup {key}, NEW i \in DOMAIN new.next[p]
             PROVE  Succ(new, keys \cup {key}, p, i)
  BY DEF Linked
<1>2. i \in 1 .. MaxLevel
  <2>1. CASE p = key  BY <2>1, LevelAssumption
  <2>2. CASE p = Head0  BY <2>2 DEF ListOf, Shape
  <2>3. CASE p \in keys
    <3>1. PICK h \in 1 .. sl.level : DOMAIN sl.next[p] = 1 .. h  BY <2>3 DEF ListOf, Shape
    <3>2. sl.level \in 1 .. MaxLevel  BY DEF ListOf, Shape
    <3> QED BY <2>3, <3>1, <3>2, LevelAssumption
  <2> QED BY <2>1, <2>2, <2>3
<1>3. /\ NodesAt(sl, i) \subseteq Nat
      /\ NodesAt(sl, i) = {Head0} \cup {k \in keys : i \in DOMAIN sl.next[k]}
  BY <1>2, HeadAt DEF ListOf
<1>4. \A k \in keys : i \in DOMAIN new.next[k] <=> i \in DOMAIN sl.next[k]  OBVIOUS
<1>5. CASE p = key
  <2> DEFINE q == pred[i]
             v == sl.next[q][i]
  <2>1. IsPrev(sl, i, key, q) /\ new.next[p][i] = v  BY <1>5
  <2>2. q \in NodesAt(sl, i) /\ q < key /\ \A r \in NodesAt(sl, i) : r < key => r <= q
    BY <2>1 DEF IsPrev
  <2>3. \/ v = Nil /\ \A r \in NodesAt(sl, i) : r <= q
        \/ /\ v \in NodesAt(sl, i) /\ v \in keys /\ v > q
           /\ \A r \in NodesAt(sl, i) : r > q => v <= r
    BY <1>2, <2>2, NextAt
  <2> HIDE DEF q, v
  <2>4. CASE v = Nil /\ \A r \in NodesAt(sl, i) : r <= q
    <3>1. \A k \in keys \cup {key} : k > p => i \notin DOMAIN new.next[k]
      BY <1>1, <1>3, <1>4, <1>5, <2>2, <2>4
    <3> QED BY <2>1, <2>4, <3>1 DEF Succ
  <2>5. CASE /\ v \in NodesAt(sl, i) /\ v \in keys /\ v > q
             /\ \A r \in NodesAt(sl, i) : r > q => v <= r
    <3>1. v > p  BY <1>1, <1>3, <1>5, <2>2, <2>5
    <3>2. i \in DOMAIN new.next[v]  BY <1>1, <1>3, <1>4, <2>5 DEF Head0
    <3>3. \A k \in keys \cup {key} : k > p /\ i \in DOMAIN new.next[k] => v <= k
      BY <1>1, <1>3, <1>4, <1>5, <2>2, <2>5
    <3> QED BY <2>1, <2>5, <3>1, <3>2, <3>3 DEF Succ
  <2> QED BY <2>3, <2>4, <2>5
<1>6. ASSUME p # key PROVE /\ p \in NodesAt(sl, i) /\ p \in Nat
                           /\ new.next[p][i] = IF i <= level /\ pred[i] = p THEN key
                                               ELSE sl.next[p][i]
  BY <1>1, <1>3, <1>6 DEF ListOf, Shape, Head0
<1>7. CASE p # key /\ i <= level /\ pred[i] = p
  <2>1. i \in 1 .. level  BY <1>1, <1>2, <1>7, LevelAssumption
  <2>2. p < key /\ \A r \in NodesAt(sl, i) : r < key => r <= p  BY <1>7, <2>1 DEF IsPrev
  <2>3. new.next[p][i] = key /\ p \in Nat  BY <1>6, <1>7
  <2>4. \A k \in keys \cup {key} : k > p /\ i \in DOMAIN new.next[k] => key <= k
    BY <1>1, <1>3, <1>4, <2>2, <2>3
  <2> QED BY <2>1, <2>2, <2>3, <2>4 DEF Succ
<1>8. CASE p # key /\ ~(i <= level /\ pred[i] = p)
  <2> DEFINE v == sl.next[p][i]
  <2>1. new.next[p][i] = v /\ p \in NodesAt(sl, i) /\ p \in Nat  BY <1>6, <1>8
  <2>2. \/ v = Nil /\ \A r \in NodesAt(sl, i) : r <= p
        \/ /\ v \in NodesAt(sl, i) /\ v \in keys /\ v > p
           /\ \A r \in NodesAt(sl, i) : r > p => v <= r
    BY <1>2, <2>1, NextAt
  <2>3. i \in DOMAIN new.next[key] /\ key > p =>
          \E q \in NodesAt(sl, i) : p < q /\ q < key
    <3> SUFFICES ASSUME i \in 1 .. level, key > p PROVE \E q \in NodesAt(sl, i) : p < q /\ q < key
      OBVIOUS
    <3>1. /\ pred[i] \in NodesAt(sl, i) /\ pred[i] < key /\ pred[i] # p
          /\ \A r \in NodesAt(sl, i) : r < key => r <= pred[i]
      BY <1>1, <1>8 DEF IsPrev
    <3> QED BY <1>3, <2>1, <3>1
  <2> HIDE DEF v
  <2>4. CASE v = Nil /\ \A r \in NodesAt(sl, i) : r <= p
    <3>1. \A k \in keys \cup {key} : k > p => i \notin DOMAIN new.next[k]
      BY <1>1, <1>3, <1>4, <2>1, <2>3, <2>4
    <3> QED BY <2>1, <2>4, <3>1 DEF Succ
  <2>5. CASE /\ v \in NodesAt(sl, i) /\ v \in keys /\ v > p
             /\ \A r \in NodesAt(sl, i) : r > p => v <= r
    <3>1. i \in DOMAIN new.next[v]  BY <1>1, <1>3, <1>4, <2>5 DEF Head0
    <3>2. \A k \in keys : k > p /\ i \in DOMAIN new.next[k] => v <= k
      BY <1>1, <1>3, <1>4, <2>1, <2>5
    <3>3. key > p /\ i \in DOMAIN new.next[key] => v <= key
      BY <1>1, <1>3, <2>1, <2>3, <2>5
    <3> QED BY <2>1, <2>5, <3>1, <3>2, <3>3 DEF Succ
  <2> QED BY <2>2, <2>4, <2>5
<1> QED BY <1>5, <1>7, <1>8

(* Insert of a key that is not there adds it, on any level it draws.        *)
LEMMA LinkKeeps ==
  ASSUME NEW sl, NEW keys, ListOf(sl, keys), NEW key \in Nat \ {0}, key \notin keys,
         NEW level \in 1 .. MaxLevel
  PROVE  ListOf(Link(sl, key, level), keys \cup {key})
<1> DEFINE prevs == FindPrevNodes(sl, key)
           low == IF level < sl.level THEN level ELSE sl.level
           pred == [i \in 1 .. level |-> IF i <= low THEN prevs[i] ELSE Head0]
           new == Link(sl, key, level)
<1>1. /\ sl.level \in 1 .. MaxLevel /\ level \in Nat \ {0} /\ sl.level \in Nat \ {0}
      /\ sl.next \in [{Head0} \cup keys -> Seq(Int)] /\ DOMAIN sl.next[Head0] = 1 .. MaxLevel
      /\ low \in 1 .. level /\ low \in 1 .. sl.level
  BY LevelAssumption DEF ListOf, Shape
<1>2. /\ new = [level |-> new.level, len |-> new.len, next |-> new.next]
      /\ new.level = (IF level > sl.level THEN level ELSE sl.level)
      /\ new.len = sl.len + 1
      /\ new.next = [n \in DOMAIN sl.next \cup {key} |->
                       IF n = key THEN [i \in 1 .. level |->
                                          IF i <= low THEN sl.next[prevs[i]][i] ELSE Nil]
                       ELSE [i \in DOMAIN sl.next[n] |->
                               IF i <= level /\ (IF i <= low THEN prevs[i] ELSE Head0) = n
                               THEN key ELSE sl.next[n][i]]]
  BY DEF Link
<1> HIDE DEF new, prevs
<1>3. \A k \in keys : \E h \in 1 .. sl.level : DOMAIN sl.next[k] = 1 .. h
  BY DEF ListOf, Shape
<1>4. ASSUME NEW i \in 1 .. level, ~(i <= low)
      PROVE  NodesAt(sl, i) = {Head0} /\ sl.next[Head0][i] = Nil
  <2>1. i \in 1 .. MaxLevel /\ i > sl.level  BY <1>1, <1>4, LevelAssumption
  <2>2. \A k \in keys : i \notin DOMAIN sl.next[k]
    <3> TAKE k \in keys
    <3>1. PICK h \in 1 .. sl.level : DOMAIN sl.next[k] = 1 .. h  BY <1>3
    <3> QED BY <1>1, <2>1, <3>1
  <2>3. NodesAt(sl, i) = {Head0}  BY <2>1, <2>2, HeadAt DEF ListOf
  <2>4. Head0 \in NodesAt(sl, i)  BY <2>3
  <2>5. \/ sl.next[Head0][i] = Nil
        \/ sl.next[Head0][i] \in NodesAt(sl, i) /\ sl.next[Head0][i] > Head0
    BY <2>1, <2>4, NextAt
  <2> QED BY <2>3, <2>5 DEF Head0
<1>5. ASSUME NEW i \in 1 .. level PROVE IsPrev(sl, i, key, pred[i])
  <2>1. CASE i <= low
    <3>1. i \in 1 .. sl.level  BY <1>1, <2>1
    <3> QED BY <2>1, <3>1, FindPrevNodesFinds DEF prevs
  <2>2. CASE ~(i <= low)  BY <1>4, <2>2 DEF IsPrev, Head0
  <2> QED BY <2>1, <2>2
<1>6. /\ key \in DOMAIN sl.next \cup {key} /\ DOMAIN sl.next = {Head0} \cup keys
      /\ key # Head0
  BY <1>1 DEF Head0
<1>7. /\ new.next[key] = [i \in 1 .. level |-> IF i <= low THEN sl.next[prevs[i]][i] ELSE Nil]
      /\ DOMAIN new.next = {Head0} \cup (keys \cup {key})
  BY <1>2, <1>6
<1>8. \A i \in 1 .. level : new.next[key][i] = sl.next[pred[i]][i]  BY <1>4, <1>7
<1>9. ASSUME NEW n \in {Head0} \cup keys
      PROVE  new.next[n] = [i \in DOMAIN sl.next[n] |->
                              IF i <= level /\ (IF i <= low THEN prevs[i] ELSE Head0) = n
                              THEN key ELSE sl.next[n][i]]
  BY <1>2, <1>6
<1>10. ASSUME NEW n \in {Head0} \cup keys
       PROVE  /\ DOMAIN new.next[n] = DOMAIN sl.next[n]
              /\ \A i \in DOMAIN sl.next[n] :
                   new.next[n][i] = IF i <= level /\ pred[i] = n THEN key ELSE sl.next[n][i]
  <2>1. DOMAIN sl.next[n] \subseteq Nat \ {0}
    <3>1. CASE n = Head0  BY <1>1, <3>1, LevelAssumption
    <3>2. CASE n \in keys
      <4>1. PICK h \in 1 .. sl.level : DOMAIN sl.next[n] = 1 .. h  BY <1>3, <3>2
      <4> QED BY <1>1, <4>1
    <3> QED BY <3>1, <3>2
  <2>2. \A i \in DOMAIN sl.next[n] : i <= level => i \in 1 .. level  BY <1>1, <2>1
  <2> QED BY <1>9, <2>2
<1>11. Linked(new, keys \cup {key})
  <2>1. DOMAIN new.next[key] = 1 .. level  BY <1>7
  <2> HIDE DEF pred
  <2> QED BY <1>5, <1>8, <1>10, <2>1, SpliceIn
<1>12. \A n \in {Head0} \cup keys : sl.next[n] \in Seq(Int)  BY <1>1
<1>13. new.next \in [{Head0} \cup (keys \cup {key}) -> Seq(Int)]
  <2>1. new.next[key] \in Seq(Int)
    <3>1. \A i \in 1 .. level : sl.next[pred[i]][i] \in Int
      <4> TAKE i \in 1 .. level
      <4>1. pred[i] \in NodesAt(sl, i)  BY <1>5 DEF IsPrev
      <4>2. pred[i] \in {Head0} \cup keys /\ i \in DOMAIN sl.next[pred[i]]
        BY <1>6, <4>1 DEF NodesAt
      <4> HIDE DEF pred
      <4> QED BY <1>12, <4>2
    <3>2. \A i \in 1 .. level : new.next[key][i] \in Int  BY <1>8, <3>1
    <3>3. new.next[key] = [i \in 1 .. level |-> new.next[key][i]]  BY <1>7
    <3> QED BY <1>1, <3>2, <3>3
  <2>2. ASSUME NEW n \in {Head0} \cup keys PROVE new.next[n] \in Seq(Int)
    <3>1. sl.next[n] \in Seq(Int)  BY <1>12
    <3>2. Len(sl.next[n]) \in Nat /\ DOMAIN sl.next[n] = 1 .. Len(sl.next[n])  BY <3>1
    <3>3. \A i \in DOMAIN sl.next[n] : new.next[n][i] \in {key, sl.next[n][i]}  BY <1>10
    <3>4. \A i \in DOMAIN sl.next[n] : sl.next[n][i] \in Int  BY <3>1, <3>2
    <3>5. new.next[n] = [i \in 1 .. Len(sl.next[n]) |-> new.next[n][i]]  BY <1>9, <3>2
    <3>6. \A i \in 1 .. Len(sl.next[n]) : new.next[n][i] \in Int  BY <3>2, <3>3, <3>4
    <3> QED BY <3>2, <3>5, <3>6
  <2>3. new.next = [n \in {Head0} \cup (keys \cup {key}) |-> new.next[n]]  BY <1>2, <1>6
  <2> QED BY <2>1, <2>2, <2>3
<1>14. new.len = Cardinality(keys \cup {key}) /\ new.len \in Nat
  <2>1. IsFiniteSet(keys) /\ sl.len = Cardinality(keys) /\ sl.len \in Nat
    BY ListFinite DEF ListOf, Shape
  <2>2. Cardinality(keys \cup {key}) = Cardinality(keys) + 1  BY <2>1, FS_AddElement
  <2> QED BY <1>2, <2>1, <2>2
<1>15. Shape(new, keys \cup {key})
  <2>1. \E b \in Nat : keys \cup {key} \subseteq 1 .. b
    <3>1. PICK b \in Nat : keys \subseteq 1 .. b  BY DEF ListOf, Shape
    <3>2. keys \cup {key} \subseteq 1 .. (b + key) /\ b + key \in Nat  BY <3>1
    <3> QED BY <3>2
  <2>2. new.level \in 1 .. MaxLevel /\ sl.level <= new.level /\ level <= new.level
    BY <1>1, <1>2, LevelAssumption
  <2>3. DOMAIN new.next[Head0] = 1 .. MaxLevel  BY <1>1, <1>10
  <2>4. ASSUME NEW k \in keys \cup {key} PROVE \E h \in 1 .. new.level : DOMAIN new.next[k] = 1 .. h
    <3>1. CASE k = key
      <4>1. DOMAIN new.next[k] = 1 .. level /\ level \in 1 .. new.level
        BY <1>1, <1>7, <2>2, <3>1, LevelAssumption
      <4> QED BY <4>1
    <3>2. CASE k \in keys
      <4>1. PICK h \in 1 .. sl.level : DOMAIN sl.next[k] = 1 .. h  BY <1>3, <3>2
      <4>2. h \in 1 .. new.level /\ DOMAIN new.next[k] = 1 .. h
        BY <1>1, <1>10, <2>2, <3>2, <4>1, LevelAssumption
      <4> QED BY <4>2
    <3> QED BY <3>1, <3>2
  <2> QED BY <1>2, <1>13, <1>14, <2>1, <2>2, <2>3, <2>4 DEF Shape
<1>16. new.level = 1 \/ \E k \in keys \cup {key} : new.level \in DOMAIN new.next[k]
  <2>1. CASE level > sl.level  BY <1>1, <1>2, <1>7, <2>1
  <2>2. CASE ~(level > sl.level) /\ sl.level = 1  BY <1>2, <2>2
  <2>3. CASE ~(level > sl.level) /\ sl.level # 1
    <3>1. PICK k \in keys : sl.level \in DOMAIN sl.next[k]  BY <2>3 DEF ListOf
    <3> QED BY <1>2, <1>10, <2>3, <3>1
  <2> QED BY <2>1, <2>2, <2>3
<1> QED BY <1>11, <1>14, <1>15, <1>16 DEF ListOf, new

(* A node taken out: whoever led to it leads to where it led.               *)
LEMMA SpliceOut ==
  ASSUME NEW sl, NEW keys, ListOf(sl, keys), NEW key \in keys, NEW pred,
         \A i \in DOMAIN sl.next[key] : IsPrev(sl, i, key, pred[i]),
         NEW new,
         \A n \in ({Head0} \cup keys) \ {key} :
            /\ DOMAIN new.next[n] = DOMAIN sl.next[n]
            /\ \A i \in DOMAIN sl.next[n] :
                 new.next[n][i] = IF i \in DOMAIN sl.next[key] /\ pred[i] = n
                                  THEN sl.next[key][i] ELSE sl.next[n][i]
  PROVE  Linked(new, keys \ {key})
<1>1. keys \subseteq Nat \ {0}  BY KeysPositive DEF ListOf
<1> SUFFICES ASSUME NEW p \in {Head0} \cup (keys \ {key}), NEW i \in DOMAIN new.next[p]
             PROVE  Succ(new, keys \ {key}, p, i)
  BY DEF Linked
<1>2. p \in ({Head0} \cup keys) \ {key} /\ i \in DOMAIN sl.next[p] /\ p \in Nat  BY <1>1 DEF Head0
<1>3. i \in 1 .. MaxLevel
  <2>1. CASE p = Head0  BY <1>2, <2>1 DEF ListOf, Shape
  <2>2. CASE p \in keys
    <3>1. PICK h \in 1 .. sl.level : DOMAIN sl.next[p] = 1 .. h  BY <2>2 DEF ListOf, Shape
    <3>2. sl.level \in 1 .. MaxLevel  BY DEF ListOf, Shape
    <3> QED BY <1>2, <3>1, <3>2, LevelAssumption
  <2> QED BY <2>1, <2>2
<1>4. /\ NodesAt(sl, i) \subseteq Nat
      /\ NodesAt(sl, i) = {Head0} \cup {k \in keys : i \in DOMAIN sl.next[k]}
  BY <1>3, HeadAt DEF ListOf
<1>5. \A k \in keys \ {key} : i \in DOMAIN new.next[k] <=> i \in DOMAIN sl.next[k]  OBVIOUS
<1>6. p \in NodesAt(sl, i)
  <2>1. p \in DOMAIN sl.next  BY <1>2 DEF ListOf, Shape
  <2> QED BY <1>2, <2>1 DEF NodesAt
<1>7. CASE i \in DOMAIN sl.next[key] /\ pred[i] = p
  <2> DEFINE v == sl.next[key][i]
  <2>1. new.next[p][i] = v  BY <1>2, <1>7
  <2>2. p < key /\ \A r \in NodesAt(sl, i) : r < key => r <= p  BY <1>7 DEF IsPrev
  <2>3. key \in NodesAt(sl, i)  BY <1>4, <1>7
  <2>4. \/ v = Nil /\ \A r \in NodesAt(sl, i) : r <= key
        \/ /\ v \in NodesAt(sl, i) /\ v \in keys /\ v > key
           /\ \A r \in NodesAt(sl, i) : r > key => v <= r
    BY <1>3, <2>3, NextAt
  <2> HIDE DEF v
  <2>5. CASE v = Nil /\ \A r \in NodesAt(sl, i) : r <= key
    <3>1. \A k \in keys \ {key} : k > p => i \notin DOMAIN new.next[k]
      BY <1>1, <1>2, <1>4, <1>5, <2>2, <2>5
    <3> QED BY <2>1, <2>5, <3>1 DEF Succ
  <2>6. CASE /\ v \in NodesAt(sl, i) /\ v \in keys /\ v > key
             /\ \A r \in NodesAt(sl, i) : r > key => v <= r
    <3>1. v \in keys \ {key} /\ v > p  BY <1>1, <1>2, <2>2, <2>6
    <3>2. i \in DOMAIN new.next[v]  BY <1>1, <1>4, <1>5, <2>6, <3>1 DEF Head0
    <3>3. \A k \in keys \ {key} : k > p /\ i \in DOMAIN new.next[k] => v <= k
      BY <1>1, <1>2, <1>4, <1>5, <2>2, <2>6
    <3> QED BY <2>1, <3>1, <3>2, <3>3 DEF Succ
  <2> QED BY <2>4, <2>5, <2>6
<1>8. CASE ~(i \in DOMAIN sl.next[key] /\ pred[i] = p)
  <2> DEFINE v == sl.next[p][i]
  <2>1. new.next[p][i] = v  BY <1>2, <1>8
  <2>2. \/ v = Nil /\ \A r \in NodesAt(sl, i) : r <= p
        \/ /\ v \in NodesAt(sl, i) /\ v \in keys /\ v > p
           /\ \A r \in NodesAt(sl, i) : r > p => v <= r
    BY <1>3, <1>6, NextAt
  <2> HIDE DEF v
  <2>3. CASE v = Nil /\ \A r \in NodesAt(sl, i) : r <= p
    <3>1. \A k \in keys \ {key} : k > p => i \notin DOMAIN new.next[k]
      BY <1>1, <1>2, <1>4, <1>5, <2>3
    <3> QED BY <2>1, <2>3, <3>1 DEF Succ
  <2>4. CASE /\ v \in NodesAt(sl, i) /\ v \in keys /\ v > p
             /\ \A r \in NodesAt(sl, i) : r > p => v <= r
    <3>1. v # key
      <4> SUFFICES ASSUME v = key PROVE FALSE  OBVIOUS
      <4>1. i \in DOMAIN sl.next[key]  BY <1>1, <1>4, <2>4 DEF Head0
      <4>2. IsPrev(sl, i, key, p)  BY <1>1, <1>2, <1>4, <1>6, <2>4 DEF IsPrev
      <4>3. IsPrev(sl, i, key, pred[i]) /\ key \in Nat  BY <1>1, <4>1
      <4>4. pred[i] = p  BY <1>3, <4>2, <4>3, PrevUnique DEF ListOf
      <4> QED BY <1>8, <4>1, <4>4
    <3>2. i \in DOMAIN new.next[v]  BY <1>1, <1>4, <1>5, <2>4, <3>1 DEF Head0
    <3>3. \A k \in keys \ {key} : k > p /\ i \in DOMAIN new.next[k] => v <= k
      BY <1>1, <1>2, <1>4, <1>5, <2>4
    <3> QED BY <2>1, <2>4, <3>1, <3>2, <3>3 DEF Succ
  <2> QED BY <2>2, <2>3, <2>4
<1> QED BY <1>7, <1>8

(* Remove takes the key out, and shrinks the level if it was the last.      *)
LEMMA RemoveKeeps ==
  ASSUME NEW sl, NEW keys, ListOf(sl, keys), NEW key \in Nat \ {0}
  PROVE  ListOf(SkipRemove(sl, key), keys \ {key})
<1> DEFINE prevs == FindPrevNodes(sl, key)
           next == [n \in DOMAIN sl.next \ {key} |->
                    [i \in DOMAIN sl.next[n] |->
                        IF i \in DOMAIN sl.next[key] /\ prevs[i] = n
                        THEN sl.next[key][i] ELSE sl.next[n][i]]]
           used == {i \in 2 .. sl.level : next[Head0][i] # Nil}
           top == IF used = {} THEN 1 ELSE CHOOSE i \in used : \A j \in used : j <= i
           new == [level |-> top, len |-> sl.len - 1, next |-> next]
<1>1. SkipRemove(sl, key) = IF sl.next[prevs[1]][1] # key THEN sl ELSE new
  BY DEF SkipRemove
<1>2. /\ sl.level \in 1 .. MaxLevel /\ sl.level \in Nat \ {0} /\ 1 \in 1 .. MaxLevel
      /\ DOMAIN sl.next = {Head0} \cup keys /\ DOMAIN sl.next[Head0] = 1 .. MaxLevel
      /\ \A n \in {Head0} \cup keys : sl.next[n] \in Seq(Int)
      /\ 1 \in 1 .. sl.level
  BY LevelAssumption DEF ListOf, Shape
<1>3. \A k \in keys : \E h \in 1 .. sl.level : DOMAIN sl.next[k] = 1 .. h
  BY DEF ListOf, Shape
<1>4. sl.next[prevs[1]][1] = key <=> key \in keys
  <2>1. IsPrev(sl, 1, key, prevs[1])  BY <1>2, FindPrevNodesFinds
  <2> HIDE DEF prevs
  <2>2. sl.next[prevs[1]][1] = key <=> key \in keys /\ 1 \in DOMAIN sl.next[key]
    BY <1>2, <2>1, BehindPrev
  <2>3. key \in keys => 1 \in DOMAIN sl.next[key]  BY <1>2, <1>3
  <2> QED BY <2>2, <2>3
<1>5. CASE key \notin keys
  <2>1. keys \ {key} = keys /\ SkipRemove(sl, key) = sl  BY <1>1, <1>4, <1>5
  <2> QED BY <2>1
<1>6. CASE key \in keys
  <2>1. SkipRemove(sl, key) = new  BY <1>1, <1>4, <1>6
  <2>2. /\ new.level = top /\ new.len = sl.len - 1 /\ new.next = next
        /\ new = [level |-> new.level, len |-> new.len, next |-> new.next]
    OBVIOUS
  <2>3. keys \subseteq Nat \ {0} /\ key # Head0  BY KeysPositive DEF ListOf, Head0
  <2> HIDE DEF new, top, prevs
  <2>4. ASSUME NEW n \in ({Head0} \cup keys) \ {key}
        PROVE  new.next[n] = [i \in DOMAIN sl.next[n] |->
                                IF i \in DOMAIN sl.next[key] /\ prevs[i] = n
                                THEN sl.next[key][i] ELSE sl.next[n][i]]
    BY <1>2, <2>2
  <2>5. ASSUME NEW i \in DOMAIN sl.next[key] PROVE IsPrev(sl, i, key, prevs[i])
    <3>1. PICK h \in 1 .. sl.level : DOMAIN sl.next[key] = 1 .. h  BY <1>3, <1>6
    <3>2. i \in 1 .. sl.level  BY <1>2, <3>1
    <3> QED BY <3>2, FindPrevNodesFinds DEF prevs
  <2>6. Linked(new, keys \ {key})
    <3>1. \A n \in ({Head0} \cup keys) \ {key} :
            /\ DOMAIN new.next[n] = DOMAIN sl.next[n]
            /\ \A i \in DOMAIN sl.next[n] :
                 new.next[n][i] = IF i \in DOMAIN sl.next[key] /\ prevs[i] = n
                                  THEN sl.next[key][i] ELSE sl.next[n][i]
      BY <2>4
    <3> QED BY <1>6, <2>5, <3>1, SpliceOut
  <2>7. next \in [{Head0} \cup (keys \ {key}) -> Seq(Int)]
    <3>1. ASSUME NEW n \in {Head0} \cup (keys \ {key}) PROVE next[n] \in Seq(Int)
      <4>1. n \in ({Head0} \cup keys) \ {key}  BY <2>3
      <4>2. sl.next[n] \in Seq(Int) /\ sl.next[key] \in Seq(Int)  BY <1>2, <1>6, <4>1
      <4>3. Len(sl.next[n]) \in Nat /\ DOMAIN sl.next[n] = 1 .. Len(sl.next[n])  BY <4>2
      <4>4. /\ \A i \in DOMAIN sl.next[n] : sl.next[n][i] \in Int
            /\ \A i \in DOMAIN sl.next[key] : sl.next[key][i] \in Int
        BY <4>2
      <4>5. next[n] = [i \in 1 .. Len(sl.next[n]) |->
                         IF i \in DOMAIN sl.next[key] /\ prevs[i] = n
                         THEN sl.next[key][i] ELSE sl.next[n][i]]
        BY <2>2, <2>4, <4>1, <4>3
      <4>6. \A i \in 1 .. Len(sl.next[n]) :
               (IF i \in DOMAIN sl.next[key] /\ prevs[i] = n
                THEN sl.next[key][i] ELSE sl.next[n][i]) \in Int
        BY <4>3, <4>4
      <4>7. \A i \in 1 .. Len(sl.next[n]) : next[n][i] \in Int  BY <4>5, <4>6
      <4>8. next[n] = [i \in 1 .. Len(sl.next[n]) |-> next[n][i]]  BY <4>5
      <4> HIDE DEF next
      <4> QED BY <4>3, <4>7, <4>8
    <3>2. DOMAIN next = {Head0} \cup (keys \ {key})  BY <1>2, <2>3
    <3>3. next = [n \in {Head0} \cup (keys \ {key}) |-> next[n]]  BY <3>2
    <3> HIDE DEF next
    <3> QED BY <3>1, <3>3
  <2> HIDE DEF next
  <2>8. \/ used = {} /\ top = 1
        \/ top \in used /\ \A j \in used : j <= top
    <3>1. CASE used = {}  BY <3>1 DEF top
    <3>2. CASE used # {}
      <4>1. used \subseteq Nat /\ sl.level \in Nat /\ \A j \in used : j <= sl.level  BY <1>2
      <4>2. \E i \in used : \A j \in used : j <= i  BY <3>2, <4>1, GreatestElement
      <4> HIDE DEF used
      <4> QED BY <3>2, <4>2 DEF top
    <3> QED BY <3>1, <3>2
  <2>9. top \in 1 .. sl.level /\ top \in 1 .. MaxLevel  BY <1>2, <2>8, LevelAssumption
  <2>10. DOMAIN new.next[Head0] = 1 .. MaxLevel  BY <1>2, <2>3, <2>4
  <2>11. ASSUME NEW i \in 2 .. sl.level
         PROVE  i \in used <=> \E k \in keys \ {key} : i \in DOMAIN new.next[k]
    <3>1. i \in DOMAIN new.next[Head0]  BY <1>2, <2>10, LevelAssumption
    <3>2. Succ(new, keys \ {key}, Head0, i)  BY <2>6, <3>1 DEF Linked
    <3>3. i \in used <=> new.next[Head0][i] # Nil  BY <2>2
    <3>4. \A k \in keys \ {key} : k > Head0 /\ k # Nil  BY <2>3 DEF Head0, Nil
    <3> QED BY <3>2, <3>3, <3>4 DEF Succ
  <2> HIDE DEF used
  <2>12. ASSUME NEW k \in keys \ {key} PROVE \E h \in 1 .. top : DOMAIN new.next[k] = 1 .. h
    <3>1. PICK h \in 1 .. sl.level : DOMAIN sl.next[k] = 1 .. h  BY <1>3
    <3>2. DOMAIN new.next[k] = 1 .. h  BY <2>4, <3>1
    <3>3. CASE h = 1  BY <2>9, <3>2, <3>3
    <3>4. CASE h # 1
      <4>1. h \in 2 .. sl.level /\ h \in 1 .. h  BY <1>2, <3>4
      <4>2. h \in used  BY <2>11, <3>2, <4>1
      <4>3. h <= top  BY <2>8, <4>2
      <4> QED BY <1>2, <2>9, <3>2, <4>1, <4>3
    <3> QED BY <3>3, <3>4
  <2>13. top = 1 \/ \E k \in keys \ {key} : top \in DOMAIN new.next[k]
    <3> SUFFICES ASSUME top # 1 PROVE \E k \in keys \ {key} : top \in DOMAIN new.next[k]  OBVIOUS
    <3>1. top \in used /\ top \in 2 .. sl.level  BY <1>2, <2>8, <2>9
    <3> QED BY <2>11, <3>1
  <2>14. new.len = Cardinality(keys \ {key}) /\ new.len \in Nat
    <3>1. IsFiniteSet(keys) /\ sl.len = Cardinality(keys)  BY ListFinite DEF ListOf
    <3>2. Cardinality(keys \ {key}) = Cardinality(keys) - 1 /\ IsFiniteSet(keys \ {key})
      BY <1>6, <3>1, FS_RemoveElement
    <3>3. Cardinality(keys \ {key}) \in Nat  BY <3>2, FS_CardinalityType
    <3> QED BY <2>2, <3>1, <3>2, <3>3
  <2>15. Shape(new, keys \ {key})
    <3>1. \E b \in Nat : keys \ {key} \subseteq 1 .. b  BY DEF ListOf, Shape
    <3> QED BY <2>2, <2>7, <2>9, <2>10, <2>12, <2>14, <3>1 DEF Shape
  <2> QED BY <2>1, <2>2, <2>6, <2>13, <2>14, <2>15 DEF ListOf
<1> QED BY <1>5, <1>6

(* Insert and Remove of the skip list keep it a list of the right keys.     *)
LEMMA InsertKeeps ==
  ASSUME NEW sl, NEW keys, ListOf(sl, keys), NEW key \in Nat \ {0},
         NEW new \in SkipInsert(sl, key)
  PROVE  ListOf(new, keys \cup {key})
<1>1. CASE key \in keys
  <2>1. new = sl /\ keys \cup {key} = keys  BY <1>1, FindNodeExact DEF SkipInsert
  <2> QED BY <2>1
<1>2. CASE key \notin keys
  <2>1. PICK level \in RandomLevel(sl) : new = Link(sl, key, level)
    BY <1>2, FindNodeExact DEF SkipInsert
  <2>2. level \in 1 .. MaxLevel  BY DEF RandomLevel
  <2> QED BY <1>2, <2>1, <2>2, LinkKeeps
<1> QED BY <1>1, <1>2

-----------------------------------------------------------------------------
(* The pool.                                                                *)

Keys(S) == {Key(s) : s \in S}

(* The list holds the idle sessions; only idle sessions expire.             *)
Listed == ListOf(list, Keys(idle)) /\ expired \subseteq idle

(* How far a call and its stream can be together.                           *)
Stage ==
    \A t \in Streams :
        /\ pc[t] \in {"new", "get", "dial", "track", "open"} => stream[t] = "none"
        /\ pc[t] = "hook" => stream[t] # "none" /\ hook[t] = "unset"
        /\ stream[t] = "none" => hook[t] = "unset"
        /\ stream[t] = "live" => hook[t] \in {"unset", "set"}
        /\ stream[t] = "dead" => hook[t] # "set"
        /\ pc[t] \in {"track", "open", "hook"} \/ stream[t] # "none" => on[t] \in 1 .. seq

(* Sessions not dialled yet are nowhere.                                    *)
Undialled ==
    /\ idle \subseteq 1 .. seq
    /\ \A t \in Streams : on[t] <= seq
    /\ \A s \in Sess : s > seq => sess[s] = "none"

(* Who has a session or is going to give it back.                           *)
Holder(t) == pc[t] \in {"track", "open"} \/ stream[t] = "live" \/ hook[t] \in {"check", "insert"}

OneHolder ==
    \A t \in Streams : Holder(t) =>
        /\ on[t] \notin idle
        /\ \A u \in Streams : Holder(u) /\ on[u] = on[t] => u = t

(* Client.Close collects once.                                              *)
CollectedOnce == die \in {"no", "collect"} => toClose["client"] = {}

IInv ==
    /\ TypeOK /\ Listed /\ Stage /\ Undialled /\ OneHolder
    /\ NoStrandedSession /\ CloseFindsSessions /\ CollectedOnce

(* A session and its key determine each other.                              *)
LEMMA KeyFacts ==
  /\ \A s \in Sess : Key(s) \in Nat \ {0} /\ Key(s) \in 1 .. MaxSess /\ MaxSess + 1 - Key(s) = s
  /\ \A s, r \in Sess : Key(s) = Key(r) => s = r
BY PoolAssumption DEF Sess, Key

(* The keys of the idle sessions without one,                               *)
LEMMA KeysRemove ==
  ASSUME NEW S \in SUBSET Sess, NEW s \in Sess PROVE Keys(S \ {s}) = Keys(S) \ {Key(s)}
BY KeyFacts DEF Keys

(* or with one more.                                                        *)
LEMMA KeysAdd ==
  ASSUME NEW S \in SUBSET Sess, NEW s \in Sess PROVE Keys(S \cup {s}) = Keys(S) \cup {Key(s)}
BY DEF Keys

(* There are no more keys than sessions.                                    *)
LEMMA KeysBounded ==
  ASSUME NEW S \in SUBSET Sess
  PROVE  IsFiniteSet(Keys(S)) /\ Cardinality(Keys(S)) \in 0 .. MaxSess
<1>1. Keys(S) \subseteq 1 .. MaxSess  BY KeyFacts DEF Keys
<1>2. IsFiniteSet(1 .. MaxSess) /\ Cardinality(1 .. MaxSess) = MaxSess
  BY PoolAssumption, FS_Interval
<1>3. IsFiniteSet(Keys(S)) /\ Cardinality(Keys(S)) <= Cardinality(1 .. MaxSess)
  BY <1>1, <1>2, FS_Subset
<1> QED BY <1>2, <1>3, FS_CardinalityType, PoolAssumption

(* An ascending sequence repeats nothing.                                   *)
LEMMA AscendingStrict ==
  ASSUME NEW s \in Seq(Nat), Ascending(s), NEW i \in 1 .. Len(s), NEW j \in 1 .. Len(s), i < j
  PROVE  s[i] < s[j]
<1> DEFINE T == {k \in 1 .. Len(s) : i < k /\ ~(s[i] < s[k])}
<1>1. Len(s) \in Nat /\ \A k \in 1 .. Len(s) : s[k] \in Nat  OBVIOUS
<1>2. SUFFICES ASSUME T # {} PROVE FALSE  OBVIOUS
<1>3. T \subseteq Nat  BY <1>1
<1> HIDE DEF T
<1>4. PICK k \in T : \A r \in T : k <= r  BY <1>2, <1>3, LeastElement
<1>5. k \in 1 .. Len(s) /\ i < k /\ ~(s[i] < s[k])  BY DEF T
<1>6. k - 1 \in 1 .. (Len(s) - 1) /\ (k - 1) + 1 = k  BY <1>1, <1>5
<1>7. s[k - 1] < s[k]  BY <1>6 DEF Ascending
<1>8. k - 1 \notin T  BY <1>4, <1>5
<1>9. CASE k - 1 = i  BY <1>5, <1>7, <1>9
<1>10. CASE k - 1 # i
  <2>1. s[i] < s[k - 1]  BY <1>1, <1>5, <1>6, <1>8, <1>10 DEF T
  <2> QED BY <1>1, <1>5, <1>6, <1>7, <2>1
<1> QED BY <1>9, <1>10

(* What the pool reads off the list are the keys of its idle sessions.      *)
LEMMA IdleKeys ==
  ASSUME TypeOK, Listed
  PROVE  /\ Iterate(list) \in Seq(Nat) /\ Ascending(Iterate(list))
         /\ Len(Iterate(list)) \in Nat
         /\ \A i \in 1 .. Len(Iterate(list)) :
               MaxSess + 1 - Iterate(list)[i] \in idle
               /\ Key(MaxSess + 1 - Iterate(list)[i]) = Iterate(list)[i]
         /\ \A s \in idle : \E i \in 1 .. Len(Iterate(list)) : Iterate(list)[i] = Key(s)
         /\ list.len # 0 => 1 \in 1 .. Len(Iterate(list))
<1> DEFINE c == Iterate(list)
<1>1. 1 \in 1 .. MaxLevel /\ ListOf(list, Keys(idle))  BY LevelAssumption DEF Listed
<1>2. c \in Seq(Nat) /\ Ascending(c)  BY <1>1, ChainExact DEF Iterate
<1>3. ToSet(c) = Keys(idle) /\ list.len = Cardinality(Keys(idle))
  BY <1>1, ListRepresents DEF Represents
<1> HIDE DEF c
<1>4. Len(c) \in Nat /\ DOMAIN c = 1 .. Len(c)  BY <1>2
<1>5. ASSUME NEW i \in 1 .. Len(c)
      PROVE  MaxSess + 1 - c[i] \in idle /\ Key(MaxSess + 1 - c[i]) = c[i]
  <2>1. c[i] \in Keys(idle)  BY <1>3, <1>4 DEF ToSet
  <2>2. PICK s \in idle : c[i] = Key(s)  BY <2>1 DEF Keys
  <2> QED BY <2>2, KeyFacts DEF TypeOK
<1>6. ASSUME NEW s \in idle PROVE \E i \in 1 .. Len(c) : c[i] = Key(s)
  <2>1. Key(s) \in ToSet(c)  BY <1>3 DEF Keys
  <2> QED BY <1>4, <2>1 DEF ToSet
<1>7. ASSUME list.len # 0 PROVE 1 \in 1 .. Len(c)
  <2>1. Keys(idle) # {}  BY <1>3, <1>7, FS_EmptySet
  <2>2. idle # {}  BY <2>1 DEF Keys
  <2>3. \E i \in 1 .. Len(c) : TRUE  BY <1>6, <2>2
  <2> QED BY <1>4, <2>3
<1> QED BY <1>2, <1>4, <1>5, <1>6, <1>7 DEF c

-----------------------------------------------------------------------------
(* The cleanup, turn by turn of its loop.                                   *)
CleanStart == [active |-> 0, fresh |-> {}, close |-> {}, list |-> list]

IsTurns(f, keys, n) ==
    f = [i \in 0 .. n |-> IF i = 0 THEN CleanStart ELSE CleanStep(f[i - 1], keys[i])]

(* The loop of the cleanup is a function of the turn.                       *)
LEMMA TurnsExist ==
  ASSUME NEW keys, NEW n \in Nat
  PROVE  \E f : IsTurns(f, keys, n)
<1> DEFINE T == {m \in Nat : m <= n /\ \E f : IsTurns(f, keys, m)}
<1>1. 0 \in T
  <2>1. 0 .. 0 = {0}  OBVIOUS
  <2>2. IsTurns([i \in 0 .. 0 |-> CleanStart], keys, 0)  BY <2>1 DEF IsTurns
  <2> QED BY <2>2
<1>2. PICK m \in T : \A k \in T : k <= m  BY <1>1, GreatestElement
<1>3. CASE m = n  BY <1>3
<1>4. CASE m # n
  <2>1. m \in Nat /\ m + 1 \in Nat /\ m + 1 <= n /\ m + 1 \notin T  BY <1>2, <1>4
  <2>2. PICK f : IsTurns(f, keys, m)  OBVIOUS
  <2> DEFINE g == [i \in 0 .. (m + 1) |-> IF i <= m THEN f[i] ELSE CleanStep(f[m], keys[m + 1])]
  <2>3. ASSUME NEW i \in 0 .. (m + 1)
        PROVE  g[i] = IF i = 0 THEN CleanStart ELSE CleanStep(g[i - 1], keys[i])
    <3>1. CASE i = 0
      <4>1. i \in 0 .. m /\ i <= m  BY <2>1, <3>1
      <4> QED BY <2>2, <3>1, <4>1 DEF IsTurns
    <3>2. CASE i # 0 /\ i <= m
      <4>1. i \in 0 .. m /\ i - 1 \in 0 .. (m + 1) /\ i - 1 <= m  BY <2>1, <3>2
      <4>2. f[i] = CleanStep(f[i - 1], keys[i])  BY <2>2, <3>2, <4>1 DEF IsTurns
      <4>3. g[i] = f[i] /\ g[i - 1] = f[i - 1]  BY <3>2, <4>1
      <4> QED BY <3>2, <4>2, <4>3
    <3>3. CASE i = m + 1
      <4>1. m \in 0 .. (m + 1) /\ m <= m /\ ~(m + 1 <= m) /\ m + 1 # 0 /\ (m + 1) - 1 = m
        BY <2>1
      <4>2. g[m + 1] = CleanStep(f[m], keys[m + 1]) /\ g[m] = f[m]  BY <3>3, <4>1
      <4> HIDE DEF g
      <4> QED BY <3>3, <4>1, <4>2
    <3> QED BY <2>1, <3>1, <3>2, <3>3
  <2>4. g = [i \in 0 .. (m + 1) |-> g[i]]  OBVIOUS
  <2> HIDE DEF g
  <2>5. IsTurns(g, keys, m + 1)  BY <2>3, <2>4 DEF IsTurns
  <2> QED BY <2>1, <2>5
<1> QED BY <1>3, <1>4

(* The sessions the first i turns look at.                                  *)
Visited(keys, i) == {s \in Sess : \E j \in 1 .. i : keys[j] = Key(s)}

(* After i turns: what was closed is off the list and was expired, what was *)
(* kept is counted, and nothing is closed before the reserve is full.       *)
CleanInv(acc, keys, i) ==
    /\ acc = [active |-> acc.active, fresh |-> acc.fresh, close |-> acc.close,
              list |-> acc.list]
    /\ acc.close \subseteq Visited(keys, i) \cap expired
    /\ ListOf(acc.list, Keys(idle \ acc.close))
    /\ acc.active \in Nat /\ acc.active = Cardinality(Visited(keys, i) \ acc.close)
    /\ acc.close # {} => acc.active >= MinIdleSession

(* Sets of sessions are finite.                                             *)
LEMMA SessFinite == ASSUME NEW S \in SUBSET Sess PROVE IsFiniteSet(S) /\ Cardinality(S) \in Nat
<1>1. IsFiniteSet(Sess)  BY FS_Interval, PoolAssumption DEF Sess
<1>2. IsFiniteSet(S)  BY <1>1, FS_Subset
<1> QED BY <1>2, FS_CardinalityType

(* One turn of the loop.                                                    *)
LEMMA CleanTurn ==
  ASSUME TypeOK, Listed, NEW i \in 1 .. Len(Iterate(list)), NEW acc,
         CleanInv(acc, Iterate(list), i - 1)
  PROVE  CleanInv(CleanStep(acc, Iterate(list)[i]), Iterate(list), i)
<1> DEFINE c == Iterate(list)
           key == c[i]
           s == MaxSess + 1 - key
           V == Visited(c, i - 1)
           new == CleanStep(acc, key)
<1>1. /\ c \in Seq(Nat) /\ Ascending(c) /\ Len(c) \in Nat
      /\ s \in idle /\ Key(s) = key /\ idle \subseteq Sess
  BY IdleKeys DEF TypeOK
<1>2. CleanInv(acc, c, i - 1) /\ i \in 1 .. Len(c)  OBVIOUS
<1> HIDE DEF c
<1>3. s \in Sess /\ key \in Nat \ {0}  BY <1>1, KeyFacts
<1>4. s \notin V
  <2> SUFFICES ASSUME NEW j \in 1 .. (i - 1), c[j] = key PROVE FALSE  BY <1>1 DEF Visited
  <2>1. j \in 1 .. Len(c) /\ j < i  BY <1>1, <1>2
  <2>2. c[j] < c[i]  BY <1>1, <1>2, <2>1, AscendingStrict
  <2>3. c[i] \in Nat  BY <1>1, <1>2
  <2> QED BY <2>2, <2>3
<1>5. Visited(c, i) = V \cup {s}
  <2>1. 1 .. i = 1 .. (i - 1) \cup {i}  BY <1>1, <1>2
  <2>2. \A r \in Sess : Key(r) = key <=> r = s  BY <1>1, <1>3, KeyFacts
  <2> QED BY <1>3, <2>1, <2>2 DEF Visited
<1>6. V \in SUBSET Sess /\ acc.close \subseteq V \cap expired /\ s \notin acc.close
  BY <1>2, <1>4 DEF Visited, CleanInv
<1> HIDE DEF key, s, V
<1>7. CASE s \notin expired \/ acc.active < MinIdleSession
  <2>1. /\ new.close = acc.close /\ new.list = acc.list /\ new.active = acc.active + 1
        /\ new = [active |-> new.active, fresh |-> new.fresh, close |-> new.close,
                  list |-> new.list]
    BY <1>2, <1>7 DEF CleanStep, CleanInv, s
  <2> HIDE DEF new
  <2>2. (V \cup {s}) \ acc.close = (V \ acc.close) \cup {s} /\ s \notin V \ acc.close
    BY <1>4, <1>6
  <2>3. IsFiniteSet(V \ acc.close)  BY <1>6, SessFinite
  <2>4. Cardinality((V \cup {s}) \ acc.close) = Cardinality(V \ acc.close) + 1
    BY <2>2, <2>3, FS_AddElement
  <2>5. /\ ListOf(acc.list, Keys(idle \ acc.close))
        /\ acc.active \in Nat /\ acc.active = Cardinality(V \ acc.close)
        /\ acc.close # {} => acc.active >= MinIdleSession
    BY <1>2 DEF CleanInv, V
  <2>6. new.active \in Nat /\ new.active = Cardinality(Visited(c, i) \ new.close)
    BY <1>5, <2>1, <2>4, <2>5
  <2>7. new.close # {} => new.active >= MinIdleSession  BY <2>1, <2>5, PoolAssumption
  <2>8. CleanInv(new, c, i)  BY <1>5, <1>6, <2>1, <2>5, <2>6, <2>7 DEF CleanInv
  <2> QED BY <2>8 DEF new, key, c
<1>8. CASE s \in expired /\ ~(acc.active < MinIdleSession)
  <2>1. /\ new.close = acc.close \cup {s} /\ new.list = SkipRemove(acc.list, key)
        /\ new.active = acc.active
        /\ new = [active |-> new.active, fresh |-> new.fresh, close |-> new.close,
                  list |-> new.list]
    BY <1>2, <1>8 DEF CleanStep, CleanInv, s
  <2> HIDE DEF new
  <2>2. (V \cup {s}) \ (acc.close \cup {s}) = V \ acc.close  BY <1>4
  <2>3. /\ ListOf(acc.list, Keys(idle \ acc.close))
        /\ acc.active \in Nat /\ acc.active = Cardinality(V \ acc.close)
    BY <1>2 DEF CleanInv, V
  <2>4. ListOf(new.list, Keys(idle \ acc.close) \ {key})
    <3>1. ListOf(SkipRemove(acc.list, key), Keys(idle \ acc.close) \ {key})
      BY <1>3, <2>3, RemoveKeeps
    <3> QED BY <2>1, <3>1
  <2>5. Keys(idle \ new.close) = Keys(idle \ acc.close) \ {key}
    <3>1. idle \ new.close = (idle \ acc.close) \ {s}  BY <2>1
    <3>2. idle \ acc.close \in SUBSET Sess  BY <1>1
    <3> QED BY <1>1, <1>3, <3>1, <3>2, KeysRemove
  <2>6. new.active >= MinIdleSession  BY <1>8, <2>1, <2>3, PoolAssumption
  <2>7. new.close \subseteq Visited(c, i) \cap expired  BY <1>5, <1>6, <1>8, <2>1
  <2>8. new.active \in Nat /\ new.active = Cardinality(Visited(c, i) \ new.close)
    BY <1>5, <2>1, <2>2, <2>3
  <2>9. CleanInv(new, c, i)  BY <2>1, <2>4, <2>5, <2>6, <2>7, <2>8 DEF CleanInv
  <2> QED BY <2>9 DEF new, key, c
<1> QED BY <1>7, <1>8

(* What one cleanup does: expired sessions go, the list stays right, and    *)
(* what is left fills the reserve if anything went.                         *)
LEMMA CleanedExact ==
  ASSUME TypeOK, Listed
  PROVE  /\ Cleaned.close \subseteq expired
         /\ ListOf(Cleaned.list, Keys(idle \ Cleaned.close))
         /\ Cleaned.close # {} => Cardinality(idle \ Cleaned.close) >= MinIdleSession
<1> DEFINE c == Iterate(list)
           f == CHOOSE g : IsTurns(g, c, Len(c))
<1>1. Len(c) \in Nat  BY IdleKeys
<1>2. IsTurns(f, c, Len(c))  BY <1>1, TurnsExist
<1>3. Cleaned = f[Len(c)]  BY DEF Cleaned, IsTurns, CleanStart
<1> HIDE DEF f
<1>4. f[0] = CleanStart /\ \A i \in 1 .. Len(c) : f[i] = CleanStep(f[i - 1], c[i])
  <2>1. 0 \in 0 .. Len(c) /\ \A i \in 1 .. Len(c) : i \in 0 .. Len(c) /\ i # 0  BY <1>1
  <2> HIDE DEF c
  <2>2. f[0] = CleanStart  BY <1>2, <2>1 DEF IsTurns
  <2>3. ASSUME NEW i \in 1 .. Len(c) PROVE f[i] = CleanStep(f[i - 1], c[i])
    <3>1. i \in 0 .. Len(c) /\ i # 0  BY <2>1
    <3> QED BY <1>2, <3>1 DEF IsTurns
  <2> QED BY <2>2, <2>3
<1>5. CleanInv(f[0], c, 0)
  <2>1. 1 .. 0 = {}  OBVIOUS
  <2>2. Visited(c, 0) = {}  BY <2>1 DEF Visited
  <2>3. /\ f[0].active = 0 /\ f[0].close = {} /\ f[0].list = list
        /\ f[0] = [active |-> f[0].active, fresh |-> f[0].fresh, close |-> f[0].close,
                   list |-> f[0].list]
    BY <1>4 DEF CleanStart
  <2>4. idle \ {} = idle /\ {} \ {} = {} /\ Cardinality({}) = 0  BY FS_EmptySet
  <2> QED BY <2>2, <2>3, <2>4 DEF CleanInv, Listed
<1>6. CleanInv(f[Len(c)], c, Len(c))
  <2> DEFINE T == {i \in 0 .. Len(c) : ~CleanInv(f[i], c, i)}
  <2>1. SUFFICES ASSUME T # {} PROVE FALSE  BY <1>1
  <2>2. T \subseteq Nat  BY <1>1
  <2> HIDE DEF T
  <2>3. PICK i \in T : \A j \in T : i <= j  BY <2>1, <2>2, LeastElement
  <2>4. i \in 0 .. Len(c) /\ ~CleanInv(f[i], c, i)  BY DEF T
  <2>5. i # 0  BY <1>5, <2>4
  <2>6. i \in 1 .. Len(c) /\ i - 1 \in 0 .. Len(c) /\ i - 1 \notin T
    BY <1>1, <2>3, <2>4, <2>5
  <2>7. CleanInv(f[i - 1], c, i - 1)  BY <2>6 DEF T
  <2>8. CleanInv(CleanStep(f[i - 1], c[i]), c, i)  BY <2>6, <2>7, CleanTurn
  <2> QED BY <1>4, <2>4, <2>6, <2>8
<1>7. Visited(c, Len(c)) = idle
  <2>1. /\ \A i \in 1 .. Len(c) : MaxSess + 1 - c[i] \in idle
                                  /\ Key(MaxSess + 1 - c[i]) = c[i]
        /\ \A s \in idle : \E i \in 1 .. Len(c) : c[i] = Key(s)
        /\ idle \subseteq Sess
    BY IdleKeys DEF TypeOK
  <2> HIDE DEF c
  <2>2. ASSUME NEW s \in Visited(c, Len(c)) PROVE s \in idle
    <3>1. PICK j \in 1 .. Len(c) : c[j] = Key(s) /\ s \in Sess  BY DEF Visited
    <3> QED BY <2>1, <3>1, KeyFacts
  <2> QED BY <2>1, <2>2 DEF Visited
<1> QED BY <1>3, <1>6, <1>7 DEF CleanInv

-----------------------------------------------------------------------------
(* The list in every step.                                                  *)

(* The four steps that touch the list, by what they do to the idle         *)
(* sessions.                                                                *)

(* getIdleSession takes one.                                                *)
LEMMA GetTakes ==
  ASSUME IInv, NEW t \in Streams, GetIdleSession(t), list.len # 0
  PROVE  \E s \in idle : /\ on' = [on EXCEPT ![t] = s]
                         /\ idle' = idle \ {s} /\ expired' = expired \ {s}
                         /\ pc' = [pc EXCEPT ![t] = "open"]
                         /\ ListOf(list', Keys(idle \ {s}))
<1> DEFINE key == Iterate(list)[1]
           s == MaxSess + 1 - key
<1>1. s \in idle /\ Key(s) = key /\ idle \in SUBSET Sess /\ ListOf(list, Keys(idle))
  BY IdleKeys DEF IInv, TypeOK, Listed
<1>2. /\ on' = [on EXCEPT ![t] = s] /\ list' = SkipRemove(list, key)
      /\ idle' = idle \ {s} /\ expired' = expired \ {s}
      /\ pc' = [pc EXCEPT ![t] = "open"]
  BY DEF GetIdleSession
<1> HIDE DEF key, s
<1>3. s \in Sess /\ key \in Nat \ {0}  BY <1>1, KeyFacts
<1>4. ListOf(SkipRemove(list, key), Keys(idle) \ {key})  BY <1>1, <1>3, RemoveKeeps
<1>5. Keys(idle \ {s}) = Keys(idle) \ {key}  BY <1>1, <1>3, KeysRemove
<1> QED BY <1>1, <1>2, <1>4, <1>5

(* A stream's hook puts its session there.                                  *)
LEMMA InsertPuts ==
  ASSUME IInv, NEW t \in Streams, DieHookInserts(t)
  PROVE  on[t] \in Sess /\ ListOf(list', Keys(idle \cup {on[t]}))
<1>1. stream[t] # "none"  BY DEF IInv, Stage, DieHookInserts
<1>2. on[t] \in 1 .. seq  BY <1>1 DEF IInv, Stage
<1>3. on[t] \in Sess /\ idle \in SUBSET Sess  BY <1>2, PoolAssumption DEF IInv, TypeOK, Sess
<1>4. Key(on[t]) \in Nat \ {0}  BY <1>3, KeyFacts
<1>5. ListOf(list, Keys(idle)) /\ list' \in SkipInsert(list, Key(on[t]))
  BY DEF IInv, Listed, DieHookInserts
<1>6. ListOf(list', Keys(idle) \cup {Key(on[t])})  BY <1>4, <1>5, InsertKeeps
<1> QED BY <1>3, <1>6, KeysAdd

(* The close of a session takes it off.                                     *)
LEMMA RemoveTakes ==
  ASSUME IInv, NEW s \in Sess, RemoveIdle(s)
  PROVE  ListOf(list', Keys(idle \ {s}))
<1>1. ListOf(list, Keys(idle)) /\ list' = SkipRemove(list, Key(s)) /\ idle \in SUBSET Sess
  BY DEF IInv, Listed, RemoveIdle, TypeOK
<1>2. Key(s) \in Nat \ {0}  BY KeyFacts
<1>3. ListOf(SkipRemove(list, Key(s)), Keys(idle) \ {Key(s)})  BY <1>1, <1>2, RemoveKeeps
<1> QED BY <1>1, <1>3, KeysRemove

(* The cleanup takes expired ones, and leaves the reserve.                  *)
LEMMA CleanupTakes ==
  ASSUME IInv, IdleCleanup
  PROVE  \E close \in SUBSET expired :
            /\ idle' = idle \ close /\ expired' \subseteq expired \ close
            /\ ListOf(list', Keys(idle \ close))
            /\ toClose["cleaner"] = {} /\ toClose' = [toClose EXCEPT !["cleaner"] = close]
            /\ close # {} => Cardinality(idle \ close) >= MinIdleSession
<1>1. /\ Cleaned.close \subseteq expired
      /\ ListOf(Cleaned.list, Keys(idle \ Cleaned.close))
      /\ Cleaned.close # {} => Cardinality(idle \ Cleaned.close) >= MinIdleSession
  BY CleanedExact DEF IInv
<1>2. /\ list' = Cleaned.list /\ idle' = idle \ Cleaned.close
      /\ expired' = expired \ (Cleaned.close \cup Cleaned.fresh)
      /\ toClose["cleaner"] = {} /\ toClose' = [toClose EXCEPT !["cleaner"] = Cleaned.close]
  BY DEF IdleCleanup
<1> QED BY <1>1, <1>2

(* The list stays the list of the idle sessions.                            *)
LEMMA NextListed == IInv /\ [Next]_vars => Listed'
<1> SUFFICES ASSUME IInv, [Next]_vars PROVE Listed'  OBVIOUS
<1>1. CASE UNCHANGED listVars  BY <1>1 DEF listVars, IInv, Listed
<1>2. ASSUME NEW t \in Streams, GetIdleSession(t), list.len # 0 PROVE Listed'
  BY <1>2, GetTakes DEF IInv, Listed
<1>3. ASSUME NEW t \in Streams, DieHookInserts(t) PROVE Listed'
  <2>1. ListOf(list', Keys(idle \cup {on[t]}))  BY <1>3, InsertPuts
  <2> QED BY <1>3, <2>1 DEF DieHookInserts, IInv, Listed
<1>4. ASSUME NEW s \in Sess, RemoveIdle(s) PROVE Listed'
  <2>1. ListOf(list', Keys(idle \ {s}))  BY <1>4, RemoveTakes
  <2> QED BY <1>4, <2>1 DEF RemoveIdle, IInv, Listed
<1>5. CASE IdleCleanup
  <2>1. PICK close \in SUBSET expired :
            /\ idle' = idle \ close /\ expired' \subseteq expired \ close
            /\ ListOf(list', Keys(idle \ close))
    BY <1>5, CleanupTakes
  <2> QED BY <2>1 DEF IInv, Listed
<1>6. ASSUME NEW s \in Sess, Expire(s) PROVE Listed'
  BY <1>6 DEF Expire, IInv, Listed
<1>7. ASSUME NEW t \in Streams,
             \/ CreateStream(t) \/ (GetIdleSession(t) /\ list.len = 0) \/ Dial(t) \/ TrackSession(t)
             \/ OpenStream(t) \/ SetDieHook(t) \/ Forget(t) \/ StreamDies(t) \/ DieHookChecks(t)
      PROVE  UNCHANGED listVars
  BY <1>7 DEF CreateStream, GetIdleSession, Dial, TrackSession, OpenStream, SetDieHook, Forget,
              StreamDies, DieHookChecks, listVars
<1>8. ASSUME NEW s \in Sess, SessionDies(s) \/ Untrack(s) \/ CloseStreams(s)
      PROVE  UNCHANGED listVars
  BY <1>8 DEF SessionDies, Untrack, CloseStreams, listVars
<1>9. ASSUME \/ \E w \in {"client", "cleaner"}, s \in Sess : CloseOne(w, s)
             \/ CloseClient \/ CollectSessions \/ CleanerEnds
      PROVE  UNCHANGED listVars
  BY <1>9 DEF CloseOne, CloseClient, CollectSessions, CleanerEnds, listVars
<1>10. CASE UNCHANGED vars  BY <1>1, <1>10 DEF vars, listVars
<1> QED BY <1>1, <1>2, <1>3, <1>4, <1>5, <1>6, <1>7, <1>8, <1>9, <1>10
        DEF Next, Call, Hook, Closer, Owner


-----------------------------------------------------------------------------
(* The rest of the invariant in every step.                                 *)

(* The invariant holds at first.                                            *)
LEMMA InitIInv == Init => IInv
<1> SUFFICES ASSUME Init PROVE IInv  OBVIOUS
<1>1. Keys(idle) = {} /\ list = NewSkipList /\ expired = {} /\ idle = {}
  BY DEF Init, Keys
<1>2. Listed  BY <1>1, NewListOf DEF Listed
<1>3. list.len = 0  BY <1>1 DEF NewSkipList
<1>4. TypeOK  BY <1>1, <1>3, PoolAssumption DEF Init, TypeOK
<1>5. Stage  BY DEF Init, Stage
<1>6. Undialled  BY PoolAssumption DEF Init, Undialled, Sess, None
<1>7. OneHolder  BY DEF Init, OneHolder, Holder
<1>8. NoStrandedSession /\ CloseFindsSessions  BY DEF Init, NoStrandedSession, CloseFindsSessions, Live
<1>9. CollectedOnce  BY DEF Init, CollectedOnce
<1> QED BY <1>2, <1>4, <1>5, <1>6, <1>7, <1>8, <1>9 DEF IInv

(* The session of a call that has one was dialled.                          *)
LEMMA HeldSession ==
  ASSUME IInv, NEW t \in Streams,
         pc[t] \in {"track", "open", "hook"} \/ stream[t] # "none" \/ hook[t] # "unset"
  PROVE  on[t] \in Sess /\ on[t] \in 1 .. seq
<1>1. on[t] \in 1 .. seq  BY DEF IInv, Stage
<1> QED BY <1>1, PoolAssumption DEF IInv, TypeOK, Sess

(* Types.                                                                   *)
LEMMA NextTypeOK == IInv /\ [Next]_vars => TypeOK'
<1> SUFFICES ASSUME IInv, [Next]_vars PROVE TypeOK'  OBVIOUS
<1> DEFINE Rest ==
      /\ die' \in {"no", "collect", "close", "done"}
      /\ idle' \subseteq Sess /\ sessions' \subseteq Sess /\ expired' \subseteq Sess
      /\ seq' \in 0 .. MaxSess /\ calls' \in 0 .. MaxCalls
      /\ sess' \in [Sess -> {"none", "live", "unidle", "untrack", "sweep", "dead"}]
      /\ pc' \in [Streams -> {"new", "get", "dial", "track", "open", "hook", "done"}]
      /\ on' \in [Streams -> Sess \cup {None}]
      /\ stream' \in [Streams -> {"none", "live", "dead"}]
      /\ hook' \in [Streams -> {"unset", "set", "check", "insert", "done"}]
      /\ cleaner' \in {"on", "off"}
      /\ toClose' \in [{"client", "cleaner"} -> SUBSET Sess]
<1>1. SUFFICES Rest
  <2>1. ListOf(list', Keys(idle'))  BY NextListed DEF Listed
  <2>2. list'.len = Cardinality(Keys(idle'))  BY <2>1 DEF ListOf, Shape
  <2>3. list'.len \in 0 .. MaxSess
    <3>1. idle' \in SUBSET Sess  OBVIOUS
    <3> QED BY <2>2, <3>1, KeysBounded
  <2> QED BY <2>3 DEF TypeOK
<1>2. TypeOK  BY DEF IInv
<1>3. ASSUME NEW t \in Streams, CreateStream(t) \/ Forget(t) PROVE Rest
  BY <1>2, <1>3, PoolAssumption
     DEF TypeOK, CreateStream, Forget, listVars, callVars, streamVars, ownerVars, None
<1>4. ASSUME NEW t \in Streams, GetIdleSession(t) PROVE Rest
  <2>1. CASE list.len = 0
    BY <1>2, <1>4, <2>1 DEF TypeOK, GetIdleSession, listVars, streamVars, ownerVars
  <2>2. CASE list.len # 0
    <3>1. PICK s \in idle : /\ on' = [on EXCEPT ![t] = s]
                            /\ idle' = idle \ {s} /\ expired' = expired \ {s}
                            /\ pc' = [pc EXCEPT ![t] = "open"]
      BY <1>4, <2>2, GetTakes
    <3>2. UNCHANGED <<sessions, seq, calls, sess, streamVars, ownerVars>>
      BY <1>4 DEF GetIdleSession
    <3> QED BY <1>2, <3>1, <3>2 DEF TypeOK, streamVars, ownerVars
  <2> QED BY <2>1, <2>2
<1>5. ASSUME NEW t \in Streams, Dial(t) PROVE Rest
  <2>1. seq < MaxSess => seq + 1 \in Sess /\ seq + 1 \in 0 .. MaxSess
    BY <1>2, PoolAssumption DEF TypeOK, Sess
  <2> QED BY <1>2, <1>5, <2>1 DEF TypeOK, Dial, listVars, streamVars, ownerVars
<1>6. ASSUME NEW t \in Streams, TrackSession(t) PROVE Rest
  <2>1. on[t] \in Sess  BY <1>6, HeldSession DEF TrackSession
  <2> QED BY <1>2, <1>6, <2>1 DEF TypeOK, TrackSession, listVars, streamVars, ownerVars
<1>7. ASSUME NEW t \in Streams, OpenStream(t) \/ SetDieHook(t) PROVE Rest
  BY <1>2, <1>7 DEF TypeOK, OpenStream, SetDieHook, Closing, listVars, streamVars, ownerVars
<1>8. ASSUME NEW t \in Streams, StreamDies(t) \/ DieHookChecks(t) PROVE Rest
  BY <1>2, <1>8
     DEF TypeOK, StreamDies, DieHookChecks, Called, Closing, listVars, callVars, ownerVars
<1>9. ASSUME NEW t \in Streams, DieHookInserts(t) PROVE Rest
  <2>1. on[t] \in Sess  BY <1>9, InsertPuts
  <2> QED BY <1>2, <1>9, <2>1 DEF TypeOK, DieHookInserts, callVars, ownerVars
<1>10. ASSUME NEW s \in Sess, SessionDies(s) \/ RemoveIdle(s) \/ Untrack(s) \/ Expire(s)
       PROVE  Rest
  BY <1>2, <1>10
     DEF TypeOK, SessionDies, RemoveIdle, Untrack, Expire, Closing, listVars, callVars,
         streamVars, ownerVars
<1>11. ASSUME NEW s \in Sess, CloseStreams(s) PROVE Rest
  BY <1>2, <1>11 DEF TypeOK, CloseStreams, Called, listVars, callVars, ownerVars
<1>12. CASE IdleCleanup
  <2>1. PICK close \in SUBSET expired :
            /\ idle' = idle \ close /\ expired' \subseteq expired \ close
            /\ toClose' = [toClose EXCEPT !["cleaner"] = close]
    BY <1>12, CleanupTakes
  <2>2. UNCHANGED <<die, cleaner, sessions, sess, callVars, streamVars>>
    BY <1>12 DEF IdleCleanup
  <2> QED BY <1>2, <2>1, <2>2 DEF TypeOK, callVars, streamVars
<1>13. CASE CloseClient \/ CollectSessions \/ CleanerEnds
  BY <1>2, <1>13
     DEF TypeOK, CloseClient, CollectSessions, CleanerEnds, listVars, callVars, streamVars
<1>14. ASSUME NEW w \in {"client", "cleaner"}, NEW s \in Sess, CloseOne(w, s) PROVE Rest
  BY <1>2, <1>14 DEF TypeOK, CloseOne, Closing, listVars, callVars, streamVars
<1>15. CASE UNCHANGED vars  BY <1>2, <1>15 DEF TypeOK, vars
<1> HIDE DEF Rest
<1> QED BY <1>3, <1>4, <1>5, <1>6, <1>7, <1>8, <1>9, <1>10, <1>11, <1>12, <1>13, <1>14, <1>15
        DEF Next, Call, Hook, Closer, Owner

(* GetIdleSession by whether the list has a session, and IdleCleanup by the *)
(* sessions it takes off: what the other parts need to know of both.        *)
GetNone(t) ==
    /\ pc[t] = "get" /\ pc' = [pc EXCEPT ![t] = "dial"]
    /\ UNCHANGED <<list, idle, expired, on, sessions, seq, calls, sess, stream, hook, die,
                   cleaner, toClose>>

GetOne(t, s) ==
    /\ pc[t] = "get" /\ pc' = [pc EXCEPT ![t] = "open"]
    /\ on' = [on EXCEPT ![t] = s] /\ idle' = idle \ {s}
    /\ UNCHANGED <<sessions, seq, calls, sess, stream, hook, die, cleaner, toClose>>

Clean(close) ==
    /\ idle' = idle \ close /\ toClose["cleaner"] = {}
    /\ toClose' = [toClose EXCEPT !["cleaner"] = close]
    /\ UNCHANGED <<pc, on, sessions, seq, calls, sess, stream, hook, die, cleaner>>

(* Every step, with the two that read the list in this form.                *)
LEMMA Steps ==
  ASSUME IInv, [Next]_vars
  PROVE  \/ \E t \in Streams :
              \/ CreateStream(t) \/ Forget(t) \/ GetNone(t) \/ \E s \in idle : GetOne(t, s)
              \/ Dial(t) \/ TrackSession(t) \/ OpenStream(t) \/ SetDieHook(t)
              \/ StreamDies(t) \/ DieHookChecks(t) \/ DieHookInserts(t)
         \/ \E s \in Sess :
              \/ SessionDies(s) \/ RemoveIdle(s) \/ Untrack(s) \/ CloseStreams(s) \/ Expire(s)
              \/ \E w \in {"client", "cleaner"} : CloseOne(w, s)
         \/ CloseClient \/ CollectSessions \/ CleanerEnds
         \/ \E close \in SUBSET idle : Clean(close)
         \/ UNCHANGED vars
<1>1. ASSUME NEW t \in Streams, GetIdleSession(t)
      PROVE  GetNone(t) \/ \E s \in idle : GetOne(t, s)
  <2>1. CASE list.len = 0
    BY <1>1, <2>1 DEF GetIdleSession, GetNone, listVars, streamVars, ownerVars
  <2>2. CASE list.len # 0
    <3>1. PICK s \in idle : /\ on' = [on EXCEPT ![t] = s] /\ idle' = idle \ {s}
                            /\ pc' = [pc EXCEPT ![t] = "open"]
      BY <1>1, <2>2, GetTakes
    <3>2. pc[t] = "get" /\ UNCHANGED <<sessions, seq, calls, sess, streamVars, ownerVars>>
      BY <1>1 DEF GetIdleSession
    <3>3. GetOne(t, s)  BY <3>1, <3>2 DEF GetOne, streamVars, ownerVars
    <3> QED BY <3>3
  <2> QED BY <2>1, <2>2
<1>2. ASSUME IdleCleanup PROVE \E close \in SUBSET idle : Clean(close)
  <2>1. PICK close \in SUBSET expired :
            /\ idle' = idle \ close /\ toClose["cleaner"] = {}
            /\ toClose' = [toClose EXCEPT !["cleaner"] = close]
    BY <1>2, CleanupTakes
  <2>2. UNCHANGED <<die, cleaner, sessions, sess, callVars, streamVars>>
    BY <1>2 DEF IdleCleanup
  <2>3. Clean(close)  BY <2>1, <2>2 DEF Clean, callVars, streamVars
  <2>4. close \in SUBSET idle  BY DEF IInv, Listed
  <2> QED BY <2>3, <2>4
<1> QED BY <1>1, <1>2 DEF Next, Call, Hook, Closer, Owner

(* A call and its stream stay in step.                                      *)
LEMMA NextStage == IInv /\ [Next]_vars => Stage'
<1> SUFFICES ASSUME IInv, [Next]_vars PROVE Stage'  OBVIOUS
<1>1. TypeOK /\ Stage  BY DEF IInv
<1>2. ASSUME NEW t \in Streams, CreateStream(t) \/ Forget(t) \/ GetNone(t) PROVE Stage'
  BY <1>1, <1>2 DEF TypeOK, Stage, CreateStream, Forget, GetNone, streamVars
<1>3. ASSUME NEW t \in Streams, NEW s \in idle, GetOne(t, s) PROVE Stage'
  <2>1. s \in 1 .. seq  BY DEF IInv, Undialled
  <2> QED BY <1>1, <1>3, <2>1 DEF TypeOK, Stage, GetOne
<1>4. ASSUME NEW t \in Streams, Dial(t) PROVE Stage'
  <2>1. CASE UNCHANGED <<seq, on>> /\ pc' = [pc EXCEPT ![t] = "done"]
    BY <1>1, <1>4, <2>1 DEF TypeOK, Stage, Dial, streamVars
  <2>2. CASE seq' = seq + 1 /\ on' = [on EXCEPT ![t] = seq + 1] /\ pc' = [pc EXCEPT ![t] = "track"]
    <3>1. \A r \in 1 .. seq : r \in 1 .. seq'  BY <1>1, <2>2 DEF TypeOK
    <3>2. seq + 1 \in 1 .. seq'  BY <1>1, <2>2 DEF TypeOK
    <3> QED BY <1>1, <1>4, <2>2, <3>1, <3>2 DEF TypeOK, Stage, Dial, streamVars
  <2> QED BY <1>4, <2>1, <2>2 DEF Dial
<1>5. ASSUME NEW t \in Streams, TrackSession(t) \/ OpenStream(t) \/ SetDieHook(t) PROVE Stage'
  BY <1>1, <1>5 DEF TypeOK, Stage, TrackSession, OpenStream, SetDieHook, streamVars
<1>6. ASSUME NEW t \in Streams, StreamDies(t) \/ DieHookChecks(t) \/ DieHookInserts(t)
      PROVE  Stage'
  BY <1>1, <1>6
     DEF TypeOK, Stage, StreamDies, DieHookChecks, DieHookInserts, Called, callVars
<1>7. ASSUME NEW s \in Sess, CloseStreams(s) PROVE Stage'
  BY <1>1, <1>7 DEF TypeOK, Stage, CloseStreams, Called, callVars
<1>8. CASE UNCHANGED <<pc, on, seq, stream, hook>>  BY <1>1, <1>8 DEF Stage
<1>9. ASSUME \/ \E s \in Sess : \/ SessionDies(s) \/ RemoveIdle(s) \/ Untrack(s) \/ Expire(s)
                                \/ \E w \in {"client", "cleaner"} : CloseOne(w, s)
             \/ CloseClient \/ CollectSessions \/ CleanerEnds
             \/ \E close \in SUBSET idle : Clean(close)
             \/ UNCHANGED vars
      PROVE  UNCHANGED <<pc, on, seq, stream, hook>>
  BY <1>9 DEF SessionDies, RemoveIdle, Untrack, Expire, CloseOne, CloseClient, CollectSessions,
              CleanerEnds, Clean, callVars, streamVars, vars
<1> QED BY <1>2, <1>3, <1>4, <1>5, <1>6, <1>7, <1>8, <1>9, Steps

(* A session is nowhere before it is dialled.                               *)
LEMMA NextUndialled == IInv /\ [Next]_vars => Undialled'
<1> SUFFICES ASSUME IInv, [Next]_vars PROVE Undialled'  OBVIOUS
<1>1. TypeOK /\ Undialled  BY DEF IInv
<1>2. seq \in Nat  BY <1>1, PoolAssumption DEF TypeOK
<1>3. ASSUME NEW t \in Streams, Forget(t) PROVE Undialled'
  <2>1. /\ UNCHANGED <<idle, seq, sess>>
        /\ \A u \in Streams : on'[u] = on[u] \/ on'[u] = 0
    BY <1>1, <1>3 DEF TypeOK, Forget, None, listVars
  <2> QED BY <1>1, <1>2, <2>1 DEF Undialled
<1>4. ASSUME NEW t \in Streams, NEW s \in idle, GetOne(t, s) PROVE Undialled'
  <2>1. s <= seq  BY <1>1, <1>2 DEF Undialled
  <2> QED BY <1>1, <1>4, <2>1 DEF TypeOK, Undialled, GetOne
<1>5. ASSUME NEW t \in Streams, Dial(t) PROVE Undialled'
  <2>1. CASE UNCHANGED <<seq, sess, on>>
    BY <1>1, <1>5, <2>1 DEF TypeOK, Undialled, Dial, listVars
  <2>2. CASE /\ seq' = seq + 1 /\ on' = [on EXCEPT ![t] = seq + 1]
             /\ sess' = [sess EXCEPT ![seq + 1] = "live"]
    <3>1. idle' = idle /\ idle \subseteq 1 .. seq  BY <1>1, <1>5 DEF Undialled, Dial, listVars
    <3>2. idle' \subseteq 1 .. seq'  BY <1>2, <2>2, <3>1
    <3>3. ASSUME NEW u \in Streams PROVE on'[u] <= seq'
      <4>1. on[u] <= seq /\ on[u] \in Nat  BY <1>1, PoolAssumption DEF Undialled, TypeOK, Sess, None
      <4> QED BY <1>1, <1>2, <2>2, <4>1 DEF TypeOK
    <3>4. ASSUME NEW s \in Sess, s > seq' PROVE sess'[s] = "none"
      <4>1. s > seq /\ s # seq + 1  BY <1>2, <2>2, <3>4 DEF Sess
      <4> QED BY <1>1, <2>2, <4>1 DEF TypeOK, Undialled
    <3> QED BY <3>2, <3>3, <3>4 DEF Undialled
  <2> QED BY <1>5, <2>1, <2>2 DEF Dial
<1>7. ASSUME NEW s \in Sess,
             \/ SessionDies(s) \/ RemoveIdle(s) \/ Untrack(s) \/ CloseStreams(s)
      PROVE  Undialled'
  <2>1. sess[s] # "none" /\ \A r \in Sess : r # s => sess'[r] = sess[r]
    BY <1>1, <1>7 DEF TypeOK, SessionDies, RemoveIdle, Untrack, CloseStreams, Live, Closing
  <2>2. UNCHANGED <<seq, on>> /\ idle' \subseteq idle
    BY <1>7 DEF SessionDies, RemoveIdle, Untrack, CloseStreams, listVars, callVars
  <2> QED BY <1>1, <2>1, <2>2 DEF Undialled
<1>8. ASSUME NEW s \in Sess, sess' = Closing(s), UNCHANGED <<seq, on, idle>> PROVE Undialled'
  BY <1>1, <1>8 DEF TypeOK, Undialled, Closing
<1>9. ASSUME NEW s \in Sess, NEW w \in {"client", "cleaner"}, CloseOne(w, s) PROVE Undialled'
  BY <1>8, <1>9 DEF CloseOne, listVars, callVars
<1>10. ASSUME NEW t \in Streams, OpenStream(t) \/ DieHookChecks(t) PROVE Undialled'
  <2>1. on[t] \in Sess  BY <1>10, HeldSession DEF OpenStream, DieHookChecks
  <2>2. UNCHANGED <<seq, on, idle>> /\ (sess' = sess \/ sess' = Closing(on[t]))
    BY <1>10 DEF OpenStream, DieHookChecks, listVars, callVars
  <2>3. CASE sess' = Closing(on[t])  BY <1>8, <2>1, <2>2, <2>3
  <2>4. CASE sess' = sess  BY <1>1, <2>2, <2>4 DEF Undialled
  <2> QED BY <2>2, <2>3, <2>4
<1>11. ASSUME NEW t \in Streams, DieHookInserts(t) PROVE Undialled'
  <2>1. on[t] \in 1 .. seq  BY <1>11, HeldSession DEF DieHookInserts
  <2> QED BY <1>1, <1>11, <2>1 DEF Undialled, DieHookInserts, callVars
<1>12. CASE UNCHANGED <<sess, seq, on>> /\ idle' \subseteq idle  BY <1>1, <1>12 DEF Undialled
<1>13. ASSUME \/ \E t \in Streams : \/ CreateStream(t) \/ GetNone(t) \/ TrackSession(t)
                                   \/ SetDieHook(t) \/ StreamDies(t)
              \/ \E s \in Sess : Expire(s)
              \/ CloseClient \/ CollectSessions \/ CleanerEnds
              \/ \E close \in SUBSET idle : Clean(close)
              \/ UNCHANGED vars
       PROVE  UNCHANGED <<sess, seq, on>> /\ idle' \subseteq idle
  BY <1>13 DEF CreateStream, GetNone, TrackSession, SetDieHook, StreamDies, Expire, CloseClient,
               CollectSessions, CleanerEnds, Clean, listVars, callVars, vars
<1> QED BY <1>3, <1>4, <1>5, <1>7, <1>9, <1>10, <1>11, <1>12, <1>13, Steps

(* A session has one holder.                                                *)
LEMMA NextOneHolder == IInv /\ [Next]_vars => OneHolder'
<1> SUFFICES ASSUME IInv, [Next]_vars PROVE OneHolder'  OBVIOUS
<1>1. TypeOK /\ Stage /\ OneHolder  BY DEF IInv
<1>2. CASE /\ \A t \in Streams : Holder(t)' => Holder(t) /\ on'[t] = on[t]
           /\ idle' \subseteq idle
  BY <1>1, <1>2 DEF OneHolder
<1>3. ASSUME NEW t \in Streams, CreateStream(t) \/ Forget(t) \/ GetNone(t)
      PROVE  /\ \A u \in Streams : Holder(u)' => Holder(u) /\ on'[u] = on[u]
             /\ idle' \subseteq idle
  BY <1>1, <1>3 DEF TypeOK, Stage, Holder, CreateStream, Forget, GetNone, listVars, streamVars
<1>4. ASSUME NEW t \in Streams, TrackSession(t) \/ OpenStream(t) \/ SetDieHook(t)
      PROVE  /\ \A u \in Streams : Holder(u)' => Holder(u) /\ on'[u] = on[u]
             /\ idle' \subseteq idle
  BY <1>1, <1>4
     DEF TypeOK, Stage, Holder, TrackSession, OpenStream, SetDieHook, listVars, streamVars
<1>5. ASSUME NEW t \in Streams, StreamDies(t) \/ DieHookChecks(t)
      PROVE  /\ \A u \in Streams : Holder(u)' => Holder(u) /\ on'[u] = on[u]
             /\ idle' \subseteq idle
  BY <1>1, <1>5 DEF TypeOK, Stage, Holder, StreamDies, DieHookChecks, Called, listVars, callVars
<1>6. ASSUME NEW s \in Sess, CloseStreams(s)
      PROVE  /\ \A u \in Streams : Holder(u)' => Holder(u) /\ on'[u] = on[u]
             /\ idle' \subseteq idle
  BY <1>1, <1>6 DEF TypeOK, Stage, Holder, CloseStreams, Called, listVars, callVars
<1>7. ASSUME \/ \E s \in Sess : \/ SessionDies(s) \/ RemoveIdle(s) \/ Untrack(s) \/ Expire(s)
                                \/ \E w \in {"client", "cleaner"} : CloseOne(w, s)
             \/ CloseClient \/ CollectSessions \/ CleanerEnds
             \/ \E close \in SUBSET idle : Clean(close)
             \/ UNCHANGED vars
      PROVE  /\ \A u \in Streams : Holder(u)' => Holder(u) /\ on'[u] = on[u]
             /\ idle' \subseteq idle
  <2>1. UNCHANGED <<pc, on, stream, hook>> /\ idle' \subseteq idle
    BY <1>7 DEF SessionDies, RemoveIdle, Untrack, Expire, CloseOne, CloseClient, CollectSessions,
                CleanerEnds, Clean, listVars, callVars, streamVars, vars
  <2> QED BY <2>1 DEF Holder
<1>8. ASSUME NEW t \in Streams, NEW s \in idle, GetOne(t, s) PROVE OneHolder'
  <2>1. ASSUME NEW u \in Streams, u # t, Holder(u)' PROVE Holder(u) /\ on'[u] = on[u]
    BY <1>1, <1>8, <2>1 DEF TypeOK, Holder, GetOne
  <2>2. on'[t] = s /\ s \notin idle' /\ idle' \subseteq idle  BY <1>1, <1>8 DEF TypeOK, GetOne
  <2> QED BY <1>1, <2>1, <2>2 DEF OneHolder
<1>9. ASSUME NEW t \in Streams, Dial(t) PROVE OneHolder'
  <2>1. ASSUME NEW u \in Streams, u # t, Holder(u)' PROVE Holder(u) /\ on'[u] = on[u]
    BY <1>1, <1>9, <2>1 DEF TypeOK, Holder, Dial, streamVars
  <2>2. CASE pc' = [pc EXCEPT ![t] = "done"]
    <3>1. ~Holder(t)'  BY <1>1, <1>9, <2>2 DEF TypeOK, Stage, Holder, Dial, streamVars
    <3>2. idle' = idle  BY <1>9 DEF Dial, listVars
    <3> QED BY <1>1, <2>1, <3>1, <3>2 DEF OneHolder
  <2>3. CASE on' = [on EXCEPT ![t] = seq + 1]
    <3>1. seq \in Nat /\ idle' = idle /\ idle \subseteq 1 .. seq /\ \A u \in Streams : on[u] <= seq
      BY <1>9, PoolAssumption DEF IInv, TypeOK, Undialled, Dial, listVars
    <3>2. on'[t] = seq + 1 /\ seq + 1 \notin idle' /\ \A u \in Streams : on[u] # seq + 1
      BY <1>1, <2>3, <3>1 DEF TypeOK
    <3> QED BY <1>1, <2>1, <3>1, <3>2 DEF OneHolder
  <2> QED BY <1>9, <2>2, <2>3 DEF Dial
<1>10. ASSUME NEW t \in Streams, DieHookInserts(t) PROVE OneHolder'
  <2>1. ASSUME NEW u \in Streams, Holder(u)' PROVE Holder(u) /\ on'[u] = on[u] /\ u # t
    BY <1>1, <1>10, <2>1 DEF TypeOK, Stage, Holder, DieHookInserts, callVars
  <2>2. Holder(t) /\ idle' = idle \cup {on[t]}  BY <1>10 DEF Holder, DieHookInserts
  <2> QED BY <1>1, <2>1, <2>2 DEF OneHolder
<1> QED BY <1>2, <1>3, <1>4, <1>5, <1>6, <1>7, <1>8, <1>9, <1>10, Steps

(* NoStrandedSession in the terms of the steps: a live session has its      *)
(* place.                                                                   *)
Kept(t) == Holder(t) \/ Missed(t)
Placed(s) == \/ \E t \in Streams : on[t] = s /\ Kept(t)
             \/ s \in idle \/ s \in toClose["client"] \/ s \in toClose["cleaner"]

(* The two say the same.                                                    *)
LEMMA StrandedPlaced ==
  ASSUME TypeOK PROVE NoStrandedSession <=> \A s \in Sess : Live(s) => Placed(s)
<1>1. DOMAIN toClose = {"client", "cleaner"}  BY DEF TypeOK
<1> QED BY <1>1 DEF NoStrandedSession, Placed, Kept, Holder, Using

(* Whoever gives up a live session has put it somewhere.                    *)
LEMMA NextStranded == IInv /\ [Next]_vars => NoStrandedSession'
<1> SUFFICES ASSUME IInv, [Next]_vars PROVE NoStrandedSession'  OBVIOUS
<1>1. TypeOK /\ Stage /\ TypeOK'  BY NextTypeOK DEF IInv
<1>2. SUFFICES ASSUME NEW s \in Sess, Live(s)' PROVE Placed(s)'
  <2>1. DOMAIN toClose' = {"client", "cleaner"}  BY <1>1 DEF TypeOK
  <2> QED BY <2>1 DEF NoStrandedSession, Placed, Kept, Holder, Using
<1>3. Live(s) => Placed(s)  BY <1>1, StrandedPlaced DEF IInv
<1>4. CASE /\ Live(s) /\ idle \subseteq idle'
           /\ \A t \in Streams : on[t] = s /\ Kept(t) => on'[t] = s /\ Kept(t)'
           /\ s \in toClose["client"] => s \in toClose'["client"]
           /\ s \in toClose["cleaner"] => s \in toClose'["cleaner"]
  BY <1>3, <1>4 DEF Placed
<1>5. ASSUME NEW t \in Streams, CreateStream(t) \/ Forget(t) \/ GetNone(t) PROVE Placed(s)'
  <2>1. UNCHANGED <<sess, idle, toClose>>
    BY <1>5 DEF CreateStream, Forget, GetNone, listVars, ownerVars
  <2>2. \A u \in Streams : Kept(u) => on'[u] = on[u] /\ Kept(u)'
    BY <1>1, <1>5 DEF TypeOK, Stage, Kept, Holder, Missed, CreateStream, Forget, GetNone, streamVars
  <2> QED BY <1>2, <1>4, <2>1, <2>2 DEF Live
<1>6. ASSUME NEW t \in Streams, NEW r \in idle, GetOne(t, r) PROVE Placed(s)'
  <2>1. UNCHANGED <<sess, toClose>> /\ idle' = idle \ {r} /\ on'[t] = r /\ Kept(t)'
    BY <1>1, <1>6 DEF TypeOK, GetOne, Kept, Holder
  <2>2. \A u \in Streams : u # t /\ Kept(u) => on'[u] = on[u] /\ Kept(u)'
    BY <1>1, <1>6 DEF TypeOK, Kept, Holder, Missed, GetOne
  <2>3. ~Kept(t)  BY <1>1, <1>6 DEF TypeOK, Stage, Kept, Holder, Missed, GetOne
  <2>4. Placed(s)  BY <1>2, <1>3, <2>1 DEF Live
  <2> QED BY <2>1, <2>2, <2>3, <2>4 DEF Placed
<1>7. ASSUME NEW t \in Streams, Dial(t) PROVE Placed(s)'
  <2>1. UNCHANGED <<idle, toClose>>  BY <1>7 DEF Dial, listVars, ownerVars
  <2>2. \A u \in Streams : u # t /\ Kept(u) => on'[u] = on[u] /\ Kept(u)'
    BY <1>1, <1>7 DEF TypeOK, Kept, Holder, Missed, Dial, streamVars
  <2>3. ~Kept(t)  BY <1>1, <1>7 DEF TypeOK, Stage, Kept, Holder, Missed, Dial
  <2>4. Live(s) \/ (on'[t] = s /\ pc'[t] = "track")
    BY <1>1, <1>2, <1>7 DEF TypeOK, Live, Dial
  <2>5. CASE Live(s)  BY <1>4, <2>1, <2>2, <2>3, <2>5
  <2>6. CASE on'[t] = s /\ pc'[t] = "track"  BY <2>6 DEF Placed, Kept, Holder
  <2> QED BY <2>4, <2>5, <2>6
<1>8. ASSUME NEW t \in Streams, TrackSession(t) \/ SetDieHook(t) PROVE Placed(s)'
  <2>1. UNCHANGED <<sess, idle, toClose>>
    BY <1>8 DEF TrackSession, SetDieHook, listVars, ownerVars
  <2>2. \A u \in Streams : Kept(u) => on'[u] = on[u] /\ Kept(u)'
    BY <1>1, <1>8 DEF TypeOK, Stage, Kept, Holder, Missed, TrackSession, SetDieHook, streamVars
  <2> QED BY <1>2, <1>4, <2>1, <2>2 DEF Live
<1>9. ASSUME NEW t \in Streams, OpenStream(t) PROVE Placed(s)'
  <2>1. UNCHANGED <<idle, toClose, on>>  BY <1>9 DEF OpenStream, listVars, ownerVars
  <2>2. on[t] \in Sess  BY <1>9, HeldSession DEF OpenStream
  <2>3. Live(s) /\ (on[t] = s => sess' = sess)
    <3>1. CASE sess' = sess  BY <1>2, <3>1 DEF Live
    <3>2. CASE sess' = Closing(on[t])
      BY <1>1, <1>2, <2>2, <3>2 DEF TypeOK, Closing, Live
    <3> QED BY <1>9, <3>1, <3>2 DEF OpenStream
  <2>4. \A u \in Streams : u # t /\ Kept(u) => Kept(u)'
    BY <1>1, <1>9 DEF TypeOK, Kept, Holder, Missed, OpenStream
  <2>5. on[t] = s => Kept(t)'
    <3> SUFFICES ASSUME on[t] = s PROVE Kept(t)'  OBVIOUS
    <3>1. sess' = sess /\ Live(on[t])  BY <2>3
    <3>2. sess' # Closing(on[t])  BY <1>1, <2>2, <3>1 DEF TypeOK, Closing, Live
    <3> QED BY <1>1, <1>9, <3>2 DEF TypeOK, OpenStream, Kept, Holder
  <2> QED BY <1>4, <2>1, <2>3, <2>4, <2>5
<1>10. ASSUME NEW t \in Streams, StreamDies(t) PROVE Placed(s)'
  <2>1. UNCHANGED <<sess, idle, toClose, on>>  BY <1>10 DEF StreamDies, listVars, callVars, ownerVars
  <2>2. \A u \in Streams : Kept(u) => Kept(u)'
    BY <1>1, <1>10 DEF TypeOK, Stage, Kept, Holder, Missed, StreamDies, Called, callVars
  <2> QED BY <1>2, <1>4, <2>1, <2>2 DEF Live
<1>11. ASSUME NEW t \in Streams, DieHookChecks(t) PROVE Placed(s)'
  <2>1. UNCHANGED <<idle, toClose, on>>  BY <1>11 DEF DieHookChecks, listVars, callVars, ownerVars
  <2>2. on[t] \in Sess  BY <1>11, HeldSession DEF DieHookChecks
  <2>3. Live(s)
    BY <1>1, <1>2, <1>11, <2>2 DEF TypeOK, Live, DieHookChecks, Closing
  <2>4. \A u \in Streams : u # t /\ Kept(u) => Kept(u)'
    BY <1>1, <1>11 DEF TypeOK, Kept, Holder, Missed, DieHookChecks, callVars
  <2>5. on[t] = s => Kept(t)'
    <3> SUFFICES ASSUME on[t] = s PROVE Kept(t)'  OBVIOUS
    <3>1. die = "no"  BY <1>1, <1>2, <1>11, <2>2 DEF TypeOK, Live, DieHookChecks, Closing
    <3> QED BY <1>1, <1>11, <2>3, <3>1 DEF TypeOK, DieHookChecks, Kept, Holder
  <2> QED BY <1>4, <2>1, <2>3, <2>4, <2>5
<1>12. ASSUME NEW t \in Streams, DieHookInserts(t) PROVE Placed(s)'
  <2>1. UNCHANGED <<sess, toClose, on>> /\ idle' = idle \cup {on[t]}
    BY <1>12 DEF DieHookInserts, callVars, ownerVars
  <2>2. \A u \in Streams : u # t /\ Kept(u) => Kept(u)'
    BY <1>1, <1>12 DEF TypeOK, Kept, Holder, Missed, DieHookInserts, callVars
  <2>3. Placed(s)  BY <1>2, <1>3, <2>1 DEF Live
  <2> QED BY <2>1, <2>2, <2>3 DEF Placed
<1>13. ASSUME NEW r \in Sess, SessionDies(r) \/ RemoveIdle(r) \/ Untrack(r) PROVE Placed(s)'
  <2>1. UNCHANGED <<toClose, pc, on, stream, hook>> /\ (r # s /\ s \in idle => s \in idle')
    BY <1>13 DEF SessionDies, RemoveIdle, Untrack, listVars, callVars, streamVars, ownerVars
  <2>2. Live(s) /\ r # s
    BY <1>1, <1>2, <1>13 DEF TypeOK, Live, SessionDies, RemoveIdle, Untrack, Closing
  <2>3. \A u \in Streams : Kept(u)' <=> Kept(u)  BY <2>1 DEF Kept, Holder, Missed
  <2> QED BY <1>3, <2>1, <2>2, <2>3 DEF Placed
<1>14. ASSUME NEW r \in Sess, CloseStreams(r) PROVE Placed(s)'
  <2>1. UNCHANGED <<toClose, idle, on>>  BY <1>14 DEF CloseStreams, listVars, callVars, ownerVars
  <2>2. Live(s) /\ r # s  BY <1>1, <1>2, <1>14 DEF TypeOK, Live, CloseStreams
  <2>3. \A u \in Streams : on[u] = s /\ Kept(u) => Kept(u)'
    BY <1>1, <1>14, <2>2 DEF TypeOK, Kept, Holder, Missed, CloseStreams, callVars
  <2> QED BY <1>4, <2>1, <2>2, <2>3
<1>15. ASSUME NEW r \in Sess, NEW w \in {"client", "cleaner"}, CloseOne(w, r) PROVE Placed(s)'
  <2>1. UNCHANGED <<idle, pc, on, stream, hook>>
    BY <1>15 DEF CloseOne, listVars, callVars, streamVars
  <2>2. Live(s) /\ r # s  BY <1>1, <1>2, <1>15 DEF TypeOK, Live, CloseOne, Closing
  <2>3. \A u \in Streams : Kept(u)' <=> Kept(u)  BY <2>1 DEF Kept, Holder, Missed
  <2>4. \A v \in {"client", "cleaner"} : s \in toClose[v] => s \in toClose'[v]
    BY <1>1, <1>15, <2>2 DEF TypeOK, CloseOne
  <2> QED BY <1>4, <2>1, <2>2, <2>3, <2>4
<1>16. CASE UNCHANGED <<sess, idle, toClose, pc, on, stream, hook>>
  <2>1. \A u \in Streams : Kept(u)' <=> Kept(u)  BY <1>16 DEF Kept, Holder, Missed
  <2> QED BY <1>2, <1>4, <1>16, <2>1 DEF Live
<1>17. ASSUME (\E r \in Sess : Expire(r)) \/ CloseClient \/ CleanerEnds \/ UNCHANGED vars
       PROVE  UNCHANGED <<sess, idle, toClose, pc, on, stream, hook>>
  BY <1>17 DEF Expire, CloseClient, CleanerEnds, listVars, callVars, streamVars, ownerVars, vars
<1>18. CASE CollectSessions
  <2>1. UNCHANGED <<sess, idle, pc, on, stream, hook>> /\ toClose["client"] = {}
    BY <1>18 DEF CollectSessions, listVars, callVars, streamVars, IInv, CollectedOnce
  <2>2. toClose'["cleaner"] = toClose["cleaner"]  BY <1>1, <1>18 DEF TypeOK, CollectSessions
  <2>3. \A u \in Streams : Kept(u)' <=> Kept(u)  BY <2>1 DEF Kept, Holder, Missed
  <2> QED BY <1>2, <1>4, <2>1, <2>2, <2>3 DEF Live
<1>19. ASSUME NEW close \in SUBSET idle, Clean(close) PROVE Placed(s)'
  <2>1. UNCHANGED <<sess, pc, on, stream, hook>> /\ toClose["cleaner"] = {} /\ idle' = idle \ close
    BY <1>19 DEF Clean
  <2>2. toClose'["client"] = toClose["client"] /\ toClose'["cleaner"] = close
    BY <1>1, <1>19 DEF TypeOK, Clean
  <2>3. \A u \in Streams : Kept(u)' <=> Kept(u)  BY <2>1 DEF Kept, Holder, Missed
  <2> QED BY <1>2, <1>3, <2>1, <2>2, <2>3 DEF Placed, Live
<1> QED BY <1>5, <1>6, <1>7, <1>8, <1>9, <1>10, <1>11, <1>12, <1>13, <1>14, <1>15, <1>16, <1>17,
           <1>18, <1>19, Steps

(* A live session is registered until it is collected.                      *)
LEMMA NextCloseFinds == IInv /\ [Next]_vars => CloseFindsSessions'
<1> SUFFICES ASSUME IInv, [Next]_vars PROVE CloseFindsSessions'  OBVIOUS
<1>1. TypeOK /\ CloseFindsSessions  BY DEF IInv
<1>2. SUFFICES ASSUME NEW s \in Sess, Live(s)', die' \in {"no", "collect"}
               PROVE  s \in sessions' \/ \E t \in Streams : on'[t] = s /\ pc'[t] = "track"
  BY DEF CloseFindsSessions
<1>3. CASE /\ Live(s) /\ die \in {"no", "collect"} /\ (s \in sessions => s \in sessions')
           /\ \A t \in Streams : on[t] = s /\ pc[t] = "track" => on'[t] = s /\ pc'[t] = "track"
  BY <1>1, <1>3 DEF CloseFindsSessions
<1>4. ASSUME NEW t \in Streams, CreateStream(t) \/ Forget(t) \/ GetNone(t) \/ SetDieHook(t)
      PROVE  s \in sessions' \/ \E u \in Streams : on'[u] = s /\ pc'[u] = "track"
  <2>1. UNCHANGED <<sess, die, sessions>>
    BY <1>4 DEF CreateStream, Forget, GetNone, SetDieHook, ownerVars
  <2>2. \A u \in Streams : pc[u] = "track" => on'[u] = on[u] /\ pc'[u] = "track"
    BY <1>1, <1>4 DEF TypeOK, CreateStream, Forget, GetNone, SetDieHook
  <2> QED BY <1>2, <1>3, <2>1, <2>2 DEF Live
<1>5. ASSUME NEW t \in Streams, NEW r \in idle, GetOne(t, r)
      PROVE  s \in sessions' \/ \E u \in Streams : on'[u] = s /\ pc'[u] = "track"
  <2>1. UNCHANGED <<sess, die, sessions>>  BY <1>5 DEF GetOne
  <2>2. \A u \in Streams : pc[u] = "track" => on'[u] = on[u] /\ pc'[u] = "track"
    BY <1>1, <1>5 DEF TypeOK, GetOne
  <2> QED BY <1>2, <1>3, <2>1, <2>2 DEF Live
<1>6. ASSUME NEW t \in Streams, Dial(t)
      PROVE  s \in sessions' \/ \E u \in Streams : on'[u] = s /\ pc'[u] = "track"
  <2>1. UNCHANGED <<die, sessions>>  BY <1>6 DEF Dial, ownerVars
  <2>2. \A u \in Streams : pc[u] = "track" => on'[u] = on[u] /\ pc'[u] = "track"
    BY <1>1, <1>6 DEF TypeOK, Dial
  <2>3. Live(s) \/ (on'[t] = s /\ pc'[t] = "track")  BY <1>1, <1>2, <1>6 DEF TypeOK, Live, Dial
  <2> QED BY <1>2, <1>3, <2>1, <2>2, <2>3
<1>7. ASSUME NEW t \in Streams, TrackSession(t)
      PROVE  s \in sessions' \/ \E u \in Streams : on'[u] = s /\ pc'[u] = "track"
  <2>1. UNCHANGED <<sess, die, on>> /\ sessions' = sessions \cup {on[t]}
    BY <1>7 DEF TrackSession, ownerVars
  <2>2. \A u \in Streams : u # t => pc'[u] = pc[u]  BY <1>1, <1>7 DEF TypeOK, TrackSession
  <2> QED BY <1>1, <1>2, <2>1, <2>2 DEF CloseFindsSessions, Live
<1>8. ASSUME NEW t \in Streams, OpenStream(t) \/ DieHookChecks(t)
      PROVE  s \in sessions' \/ \E u \in Streams : on'[u] = s /\ pc'[u] = "track"
  <2>1. UNCHANGED <<die, sessions>>  BY <1>8 DEF OpenStream, DieHookChecks, ownerVars
  <2>2. \A u \in Streams : pc[u] = "track" => on'[u] = on[u] /\ pc'[u] = "track"
    BY <1>1, <1>8 DEF TypeOK, OpenStream, DieHookChecks, callVars
  <2>3. on[t] \in Sess  BY <1>8, HeldSession DEF OpenStream, DieHookChecks
  <2>4. Live(s)  BY <1>1, <1>2, <1>8, <2>3 DEF TypeOK, Live, OpenStream, DieHookChecks, Closing
  <2> QED BY <1>2, <1>3, <2>1, <2>2, <2>4
<1>9. ASSUME NEW r \in Sess,
             \/ SessionDies(r) \/ RemoveIdle(r) \/ Untrack(r) \/ CloseStreams(r)
             \/ \E w \in {"client", "cleaner"} : CloseOne(w, r)
      PROVE  s \in sessions' \/ \E u \in Streams : on'[u] = s /\ pc'[u] = "track"
  <2>1. UNCHANGED <<die, pc, on>> /\ sessions \ {r} \subseteq sessions'
    BY <1>9 DEF SessionDies, RemoveIdle, Untrack, CloseStreams, CloseOne, callVars, ownerVars
  <2>2. Live(s) /\ r # s
    BY <1>1, <1>2, <1>9
       DEF TypeOK, Live, SessionDies, RemoveIdle, Untrack, CloseStreams, CloseOne, Closing
  <2> QED BY <1>2, <1>3, <2>1, <2>2
<1>10. CASE UNCHANGED <<sess, sessions, pc, on>> /\ die \in {"no", "collect"}
  BY <1>2, <1>3, <1>10 DEF Live
<1>11. ASSUME \/ \E t \in Streams : StreamDies(t) \/ DieHookInserts(t)
              \/ \E r \in Sess : Expire(r)
              \/ CloseClient \/ CleanerEnds
              \/ \E close \in SUBSET idle : Clean(close)
              \/ UNCHANGED vars
       PROVE  UNCHANGED <<sess, sessions, pc, on>> /\ die \in {"no", "collect"}
  BY <1>2, <1>11
     DEF StreamDies, DieHookInserts, Expire, CloseClient, CleanerEnds, Clean, callVars, ownerVars,
         vars
<1>12. ~CollectSessions  BY <1>2 DEF CollectSessions
<1> QED BY <1>4, <1>5, <1>6, <1>7, <1>8, <1>9, <1>10, <1>11, <1>12, Steps

(* Nothing is collected before the client is closed.                        *)
LEMMA NextCollectedOnce == IInv /\ [Next]_vars => CollectedOnce'
<1> SUFFICES ASSUME IInv, [Next]_vars, die' \in {"no", "collect"} PROVE toClose'["client"] = {}
  BY DEF CollectedOnce
<1>1. TypeOK /\ CollectedOnce  BY DEF IInv
<1>2. CASE UNCHANGED <<die, toClose>>  BY <1>1, <1>2 DEF CollectedOnce
<1>3. ASSUME NEW t \in Streams, NEW s,
             \/ CreateStream(t) \/ Forget(t) \/ GetNone(t) \/ GetOne(t, s) \/ Dial(t)
             \/ TrackSession(t) \/ OpenStream(t) \/ SetDieHook(t) \/ StreamDies(t)
             \/ DieHookChecks(t) \/ DieHookInserts(t)
      PROVE  UNCHANGED <<die, toClose>>
  BY <1>3 DEF CreateStream, Forget, GetNone, GetOne, Dial, TrackSession, OpenStream, SetDieHook,
              StreamDies, DieHookChecks, DieHookInserts, ownerVars
<1>4. ASSUME NEW s \in Sess,
             \/ SessionDies(s) \/ RemoveIdle(s) \/ Untrack(s) \/ CloseStreams(s) \/ Expire(s)
      PROVE  UNCHANGED <<die, toClose>>
  BY <1>4 DEF SessionDies, RemoveIdle, Untrack, CloseStreams, Expire, ownerVars
<1>5. ASSUME NEW s \in Sess, NEW w \in {"client", "cleaner"}, CloseOne(w, s)
      PROVE  toClose'["client"] = {}
  BY <1>1, <1>5 DEF TypeOK, CollectedOnce, CloseOne
<1>6. CASE CloseClient \/ CleanerEnds
  BY <1>1, <1>6 DEF CloseClient, CleanerEnds, CollectedOnce
<1>7. ~CollectSessions  BY DEF CollectSessions
<1>8. ASSUME NEW close \in SUBSET idle, Clean(close) PROVE toClose'["client"] = {}
  BY <1>1, <1>8 DEF TypeOK, CollectedOnce, Clean
<1>9. ASSUME UNCHANGED vars PROVE UNCHANGED <<die, toClose>>  BY <1>9 DEF vars
<1> QED BY <1>2, <1>3, <1>4, <1>5, <1>6, <1>7, <1>8, <1>9, Steps

(* All of the invariant is kept.                                            *)
LEMMA NextIInv == IInv /\ [Next]_vars => IInv'
<1> SUFFICES ASSUME IInv, [Next]_vars PROVE IInv'  OBVIOUS
<1> QED BY NextTypeOK, NextListed, NextStage, NextUndialled, NextOneHolder, NextStranded,
           NextCloseFinds, NextCollectedOnce DEF IInv

(* And so it always holds.                                                  *)
LEMMA InductiveInvariant == Spec => []IInv
BY InitIInv, NextIInv, PTL DEF Spec

-----------------------------------------------------------------------------
(* The results.                                                             *)

(* The skip list of client.go's idleSession holds exactly the idle          *)
(* sessions, newest first on every level, whatever order inserts, removals  *)
(* and cleanups come in and whatever levels skiplist.go draws: for any      *)
(* number of levels, sessions and streams.                                  *)
THEOREM IdleListExact == Spec => []PoolInv
<1>1. IInv => PoolInv
  <2> SUFFICES ASSUME IInv PROVE PoolInv  OBVIOUS
  <2>1. ListOf(list, Keys(idle))  BY DEF IInv, Listed
  <2>2. Represents(list, Keys(idle))  BY <2>1, ListRepresents
  <2> QED BY <2>2 DEF PoolInv, ListExact, Keys, IInv
<1> QED BY <1>1, InductiveInvariant, PTL

(* A session of client.go serves one stream at a time, is never idle while  *)
(* it serves one, is not forgotten while it lives unless its stream ended   *)
(* before dieHook was set, and is found by Client.Close.                    *)
THEOREM SessionsAccounted == Spec => []SessionAccounted
<1>1. IInv => SessionAccounted
  <2> SUFFICES ASSUME IInv PROVE SessionAccounted  OBVIOUS
  <2>1. ASSUME NEW s \in Sess, NEW t \in Streams, t \in Using(s) PROVE Using(s) = {t} /\ s \notin idle
    BY <2>1 DEF IInv, OneHolder, Holder, Using
  <2>2. ASSUME NEW s \in Sess PROVE Cardinality(Using(s)) <= 1 /\ (s \in idle => Using(s) = {})
    <3>1. CASE Using(s) = {}  BY <3>1, FS_EmptySet
    <3>2. CASE Using(s) # {}
      <4>1. PICK t \in Streams : t \in Using(s)  BY <3>2 DEF Using
      <4>2. Using(s) = {t} /\ s \notin idle  BY <2>1, <4>1
      <4>3. Cardinality({t}) = 1  BY FS_Singleton
      <4> QED BY <4>2, <4>3
    <3> QED BY <3>1, <3>2
  <2> QED BY <2>2 DEF IInv, SessionAccounted, OneStreamPerSession
<1> QED BY <1>1, InductiveInvariant, PTL

(* idleCleanupExpTime takes a session off the list only when minIdleSession *)
(* others stay on it, for every reserve and every choice of expired         *)
(* sessions.                                                                *)
THEOREM CleanupKeepsReserve == Spec => ReserveKept
<1>1. IInv /\ [Next]_vars
      => [IdleCleanup => Cardinality(idle') >= MinIdleSession \/ idle' = idle]_vars
  <2> SUFFICES ASSUME IInv, IdleCleanup
               PROVE  Cardinality(idle') >= MinIdleSession \/ idle' = idle
    OBVIOUS
  <2>1. PICK close \in SUBSET expired :
            /\ idle' = idle \ close
            /\ close # {} => Cardinality(idle \ close) >= MinIdleSession
    BY CleanupTakes
  <2> QED BY <2>1
<1> QED BY <1>1, InductiveInvariant, PTL DEF Spec, ReserveKept

=============================================================================
