----------------------------- MODULE SkipList -----------------------------
(***************************************************************************)
(* The skip list that holds the idle sessions (lib/skiplist), as operators *)
(* on a record [level, len, next]: next maps the head and every node, a    *)
(* node being named by its key, to its sequence of successors by level.    *)
(***************************************************************************)
EXTENDS Integers, Sequences, FiniteSets, SequencesExt

CONSTANT MaxLevel   \* skipListMaxLevel, 40 in the code

ASSUME LevelAssumption == MaxLevel \in Nat \ {0}

Head0 == 0          \* sl.head; keys are positive
Nil == -1

(* newSkipListNode: the links of a node of this level, none set.            *)
NewNode(level) == [i \in 1 .. level |-> Nil]

NewSkipList == [level |-> 1, len |-> 0, next |-> [n \in {Head0} |-> NewNode(MaxLevel)]]

(* The levels a new node may get: beyond 3 only as the list grows.          *)
RandomLevel(sl) == {l \in 1 .. MaxLevel : l <= 3 \/ 2 ^ (l - 3) <= sl.len}

(* The head and the nodes that have a link on level i.                      *)
NodesAt(sl, i) == {p \in DOMAIN sl.next : i \in DOMAIN sl.next[p]}

(* The last node before key on level i, starting at from.                   *)
PrevAt(sl, i, from, key) ==
    LET walk[p \in NodesAt(sl, i)] ==
            LET n == sl.next[p][i] IN IF n = Nil \/ n >= key THEN p ELSE walk[n]
    IN walk[from]

(* Each level goes on where the level above stopped.                        *)
FindPrevNodes(sl, key) ==
    LET prevs[i \in 1 .. sl.level] ==
            PrevAt(sl, i, IF i = sl.level THEN Head0 ELSE prevs[i + 1], key)
    IN prevs

(* The node with the key, met on the highest level it has.                  *)
FindNode(sl, key) ==
    LET prevs == FindPrevNodes(sl, key)
    IN IF \E i \in 1 .. sl.level : sl.next[prevs[i]][i] = key THEN key ELSE Nil

LowerBound(sl, key) ==
    IF FindNode(sl, key) # Nil THEN key
    ELSE sl.next[FindPrevNodes(sl, key)[1]][1]

UpperBound(sl, key) ==
    LET n == LowerBound(sl, key) IN IF n # Nil /\ n = key THEN sl.next[n][1] ELSE n

(* mutant: the links above the old top level are forgotten                  *)
LinkNoTop(sl, key, level) ==
    LET prevs == FindPrevNodes(sl, key)
        low == IF level < sl.level THEN level ELSE sl.level
    IN [level |-> IF level > sl.level THEN level ELSE sl.level,
        len |-> sl.len + 1,
        next |-> [n \in DOMAIN sl.next \cup {key} |->
                    IF n = key THEN [i \in 1 .. level |->
                                       IF i <= low THEN sl.next[prevs[i]][i] ELSE Nil]
                    ELSE [i \in DOMAIN sl.next[n] |->
                            IF i <= low /\ prevs[i] = n THEN key ELSE sl.next[n][i]]]]

(* A new node goes behind prevs on the levels there are, and right behind   *)
(* the head above them.                                                     *)
Link(sl, key, level) ==
    LET prevs == FindPrevNodes(sl, key)
        low == IF level < sl.level THEN level ELSE sl.level
        pred(i) == IF i <= low THEN prevs[i] ELSE Head0
    IN [level |-> IF level > sl.level THEN level ELSE sl.level,
        len |-> sl.len + 1,
        next |-> [n \in DOMAIN sl.next \cup {key} |->
                    IF n = key THEN [i \in 1 .. level |->
                                       IF i <= low THEN sl.next[prevs[i]][i] ELSE Nil]
                    ELSE [i \in DOMAIN sl.next[n] |->
                            IF i <= level /\ pred(i) = n THEN key ELSE sl.next[n][i]]]]

(* A key that is there keeps its node; only the value changes.              *)
SkipInsert(sl, key) ==
    IF FindNode(sl, key) # Nil THEN {sl}
    ELSE {Link(sl, key, level) : level \in RandomLevel(sl)}

(* mutant: a key that is not there is counted off as well                   *)
SkipRemoveCounts(sl, key) == [sl EXCEPT !.len = @ - 1]

(* Unlinked on every level of its own; empty top levels are given up.       *)
SkipRemove(sl, key) ==
    LET prevs == FindPrevNodes(sl, key)
        next == [n \in DOMAIN sl.next \ {key} |->
                    [i \in DOMAIN sl.next[n] |->
                        IF i \in DOMAIN sl.next[key] /\ prevs[i] = n
                        THEN sl.next[key][i] ELSE sl.next[n][i]]]
        used == {i \in 2 .. sl.level : next[Head0][i] # Nil}
    IN IF sl.next[prevs[1]][1] # key THEN sl
       ELSE [level |-> IF used = {} THEN 1 ELSE CHOOSE i \in used : \A j \in used : j <= i,
             len |-> sl.len - 1,
             next |-> next]

(* What an iterator visits: the keys of one level, from the head on.        *)
Chain(sl, i) ==
    LET from[p \in NodesAt(sl, i)] ==
            LET n == sl.next[p][i] IN IF n = Nil THEN <<>> ELSE <<n>> \o from[n]
    IN from[Head0]

Iterate(sl) == Chain(sl, 1)

-----------------------------------------------------------------------------
(* The list agrees with a set of keys: level 1 visits exactly the set in    *)
(* order, every level is the level below without the lower nodes, the       *)
(* lookups find what is there, and len and level are exact.                 *)
Ascending(s) == \A i \in 1 .. (Len(s) - 1) : s[i] < s[i + 1]

Represents(sl, keys) ==
    /\ ToSet(Iterate(sl)) = keys /\ sl.len = Cardinality(keys)
    /\ \A i \in 1 .. MaxLevel :
        /\ Ascending(Chain(sl, i))
        /\ ToSet(Chain(sl, i)) = {k \in keys : Len(sl.next[k]) >= i}
    /\ sl.level = 1 \/ Chain(sl, sl.level) # <<>>
    /\ \A i \in (sl.level + 1) .. MaxLevel : Chain(sl, i) = <<>>

(* FindRange's comment: the range excludes its last key.                    *)
FindRangeExcludesLast(sl, keys) ==
    \A last \in keys : UpperBound(sl, last) = LowerBound(sl, last)
=============================================================================
