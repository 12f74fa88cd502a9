-------------------------- MODULE ReplacementProofs --------------------------
(***************************************************************************)
(* Facts about Replacement for every number of ways and all three          *)
(* policies: a touch keeps the record well formed, and the victim is a way *)
(* of the set.  The pseudo-LRU walk needs neither a power of two nor a     *)
(* warmed-up tree for that.                                                *)
(***************************************************************************)
EXTENDS Replacement, Recency, FiniteSetTheorems, TLAPS

(***************************************************************************)
(* A set of natural numbers that is not empty has a least element.  The    *)
(* intervals below its members are finite sets, which strict inclusion     *)
(* orders well.                                                            *)
(***************************************************************************)
LEMMA LeastElement ==
  ASSUME NEW S \in SUBSET Nat, S # {}
  PROVE  \E m \in S : \A n \in S : m <= n
<1> DEFINE Below(n) == 0 .. n - 1
           T == {Below(n) : n \in S}
           R == StrictSubsetOrdering(Nat)
<1>1. T \subseteq FiniteSubsetsOf(Nat)
  <2> SUFFICES ASSUME NEW n \in S PROVE Below(n) \in FiniteSubsetsOf(Nat)
    OBVIOUS
  <2>1. IsFiniteSet(Below(n))
    BY FS_Interval
  <2> QED BY <2>1 DEF FiniteSubsetsOf
<1>2. T # {}
  OBVIOUS
<1>3. IsWellFoundedOn(R, FiniteSubsetsOf(Nat))
  BY FS_StrictSubsetOrderingWellFounded
<1>4. \E x \in T : \A y \in T : ~ (<<y, x>> \in R)
  <2> HIDE DEF T, R
  <2> QED BY <1>1, <1>2, <1>3, WFMin
<1>5. PICK m \in S : \A y \in T : ~ (<<y, Below(m)>> \in R)
  BY <1>4
<1>6. \A n \in S : ~ (<<Below(n), Below(m)>> \in R)
  BY <1>5
<1>7. ASSUME NEW n \in S, n < m PROVE FALSE
  <2>1. Below(n) \subseteq Below(m)
    BY <1>7
  <2>2. n \in Below(m) /\ n \notin Below(n)
    BY <1>7
  <2>3. Below(n) \in SUBSET Nat /\ Below(m) \in SUBSET Nat
    OBVIOUS
  <2>4. Below(n) # Below(m)
    BY <2>2
  <2>5. <<Below(n), Below(m)>> \in R
    <3> HIDE DEF Below
    <3> QED BY <2>1, <2>3, <2>4 DEF StrictSubsetOrdering
  <2> QED BY <2>5, <1>6
<1> QED BY <1>7

\* The first way with the smallest tick exists (replacement.cpp:36-41).
LEMMA OldestWayIsOldest ==
  ASSUME NEW lru \in [WayIndex -> Nat]
  PROVE  /\ OldestWay(lru) \in WayIndex
         /\ \A v \in WayIndex : lru[OldestWay(lru)] <= lru[v]
<1> DEFINE Ticks == {lru[w] : w \in WayIndex}
<1>1. WayIndex # {} /\ WayIndex \subseteq Nat
  <2>1. 0 \in WayIndex
    BY WaysAssumption DEF WayIndex
  <2> QED BY <2>1, WaysAssumption DEF WayIndex
<1>2. Ticks \in SUBSET Nat /\ Ticks # {}
  BY <1>1
<1>3. PICK least \in Ticks : \A y \in Ticks : least <= y
  <2> HIDE DEF Ticks
  <2> QED BY <1>2, LeastElement
<1>4. PICK u \in WayIndex : \A v \in WayIndex : lru[u] <= lru[v]
  BY <1>3
<1> DEFINE Old == {w \in WayIndex : lru[w] = lru[u]}
<1>5. Old \in SUBSET Nat /\ Old # {}
  BY <1>1
<1>6. PICK w \in Old : \A v \in Old : w <= v
  <2> HIDE DEF Old
  <2> QED BY <1>5, LeastElement
<1> DEFINE First(x) == \A v \in WayIndex :
                          lru[x] < lru[v] \/ (lru[x] = lru[v] /\ x <= v)
<1>7. w \in WayIndex /\ First(w)
  BY <1>1, <1>4, <1>6
<1>8. OldestWay(lru) \in WayIndex /\ First(OldestWay(lru))
  <2>1. OldestWay(lru) = CHOOSE x \in WayIndex : First(x)
    BY DEF OldestWay
  <2> HIDE DEF First
  <2> QED BY <1>7, <2>1
<1> QED BY <1>8

-----------------------------------------------------------------------------
(* The walk of the pseudo-LRU tree.                                        *)

Leaves == Ways .. 2 * Ways - 1

\* The walk is well defined: a node's children have larger numbers, so the
\* walk can be tabulated from the leaves up.
LEMMA WalkIsDefined ==
  ASSUME NEW bits \in [TreeNode -> {0, 1}]
  PROVE  \A n \in AnyNode :
            WalkFrom(bits)[n] = IF n >= Ways THEN n ELSE WalkFrom(bits)[2 * n + bits[n]]
<1> USE WaysAssumption
<1> DEFINE Upper(k) == k .. 2 * Ways - 1
           Tabulates(g, k) == \A n \in Upper(k) :
                                 g[n] = IF n >= Ways THEN n ELSE g[2 * n + bits[n]]
           K == {k \in 1 .. Ways : \E g \in [Upper(k) -> Leaves] : Tabulates(g, k)}
<1>1. Ways \in K
  <2> DEFINE g == [n \in Upper(Ways) |-> n]
  <2>1. g \in [Upper(Ways) -> Leaves]
    BY DEF Leaves
  <2>2. Tabulates(g, Ways)
    OBVIOUS
  <2> HIDE DEF g
  <2> QED BY <2>1, <2>2
<1>2. PICK m \in K : \A k \in K : m <= k
  <2>1. K \in SUBSET Nat /\ K # {}
    BY <1>1
  <2> HIDE DEF K
  <2> QED BY <2>1, LeastElement
<1>3. PICK g \in [Upper(m) -> Leaves] : Tabulates(g, m)
  BY <1>2
<1>4. ASSUME m # 1 PROVE FALSE
  <2> DEFINE c == 2 * (m - 1) + bits[m - 1]
             h == [n \in Upper(m - 1) |-> IF n = m - 1 THEN g[c] ELSE g[n]]
  <2>1. m \in 2 .. Ways
    BY <1>2, <1>4
  <2>2. m - 1 \in TreeNode /\ bits[m - 1] \in {0, 1}
    BY <2>1 DEF TreeNode
  <2>3. c \in Upper(m)
    BY <2>1, <2>2
  <2>4. h \in [Upper(m - 1) -> Leaves]
    <3>1. g[c] \in Leaves
      BY <1>3, <2>3
    <3>2. \A n \in Upper(m - 1) : n # m - 1 => n \in Upper(m)
      BY <2>1
    <3> QED BY <1>3, <3>1, <3>2
  <2>5. ASSUME NEW n \in Upper(m - 1)
        PROVE  h[n] = IF n >= Ways THEN n ELSE h[2 * n + bits[n]]
    <3>1. CASE n = m - 1
      <4>1. c \in Upper(m - 1) /\ c # m - 1
        BY <2>1, <2>3
      <4>2. h[n] = g[c] /\ h[c] = g[c]
        BY <3>1, <4>1
      <4> QED BY <2>1, <3>1, <4>2
    <3>2. CASE n # m - 1
      <4>1. n \in Upper(m) /\ h[n] = g[n]
        BY <3>2, <2>1
      <4>2. CASE n >= Ways
        BY <1>3, <4>1, <4>2
      <4>3. CASE ~(n >= Ways)
        <5>1. n \in TreeNode
          BY <4>1, <4>3, <2>1 DEF TreeNode
        <5>2. 2 * n + bits[n] \in Upper(m) /\ bits[n] \in {0, 1}
          BY <5>1, <4>1, <4>3, <2>1 DEF TreeNode
        <5>3. h[2 * n + bits[n]] = g[2 * n + bits[n]]
          BY <5>2, <2>1
        <5> QED BY <1>3, <4>1, <4>3, <5>3
      <4> QED BY <4>2, <4>3
    <3> QED BY <3>1, <3>2
  <2>6. m - 1 \in K
    <3> HIDE DEF h
    <3> QED BY <2>1, <2>4, <2>5
  <2>7. m <= m - 1
    <3> HIDE DEF K
    <3> QED BY <1>2, <2>6
  <2> QED BY <2>1, <2>7
<1>5. Upper(m) = AnyNode
  BY <1>4 DEF AnyNode
<1> DEFINE Def(f) == [n \in AnyNode |-> IF n >= Ways THEN n ELSE f[2 * n + bits[n]]]
<1>6. g = Def(g)
  BY <1>3, <1>5
<1>7. WalkFrom(bits) = CHOOSE f : f = Def(f)
  BY DEF WalkFrom
<1>8. WalkFrom(bits) = Def(WalkFrom(bits))
  <2> HIDE DEF Def
  <2> QED BY <1>6, <1>7
<1> DEFINE walk == WalkFrom(bits)
<1>9. ASSUME NEW n \in AnyNode
      PROVE  Def(walk)[n] = IF n >= Ways THEN n ELSE walk[2 * n + bits[n]]
  <2> HIDE DEF walk
  <2> QED OBVIOUS
<1>10. \A n \in AnyNode : walk[n] = Def(walk)[n]
  <2> HIDE DEF Def
  <2> QED BY <1>8
<1> HIDE DEF Def
<1> QED BY <1>9, <1>10

\* Wherever the walk starts it ends at a leaf, that is, at a way
\* (replacement.cpp:44-49).
LEMMA TreeVictimIsAWay ==
  ASSUME NEW bits \in [TreeNode -> {0, 1}]
  PROVE  TreeVictim(bits) \in WayIndex
<1> USE WaysAssumption
<1> DEFINE walk == WalkFrom(bits)
           Lost == {n \in AnyNode : walk[n] \notin Leaves}
           Rank == {2 * Ways - n : n \in Lost}
<1>1. \A n \in AnyNode : walk[n] = IF n >= Ways THEN n ELSE walk[2 * n + bits[n]]
  BY WalkIsDefined
<1> HIDE DEF walk
<1>2. ASSUME Lost # {} PROVE FALSE
  <2>1. Rank \in SUBSET Nat /\ Rank # {}
    BY <1>2 DEF AnyNode
  <2>2. PICK r \in Rank : \A q \in Rank : r <= q
    <3> HIDE DEF Rank
    <3> QED BY <2>1, LeastElement
  <2>3. PICK n \in Lost : r = 2 * Ways - n
    BY <2>2
  <2>4. n \in AnyNode /\ walk[n] \notin Leaves
    BY <2>3
  <2>5. n < Ways
    BY <1>1, <2>4 DEF AnyNode, Leaves
  <2>6. n \in TreeNode /\ bits[n] \in {0, 1}
    BY <2>4, <2>5 DEF AnyNode, TreeNode
  <2> DEFINE c == 2 * n + bits[n]
  <2>7. c \in AnyNode /\ c > n
    BY <2>4, <2>5, <2>6 DEF AnyNode
  <2>8. walk[n] = walk[c]
    BY <1>1, <2>4, <2>5, <2>6 DEF AnyNode
  <2>9. 2 * Ways - c \in Rank
    <3> HIDE DEF c
    <3> QED BY <2>4, <2>7, <2>8
  <2>10. r <= 2 * Ways - c
    <3> HIDE DEF Rank, c
    <3> QED BY <2>2, <2>9
  <2> QED BY <2>3, <2>4, <2>7, <2>10 DEF AnyNode
<1>3. 1 \in AnyNode
  BY DEF AnyNode
<1>4. walk[1] \in Leaves
  BY <1>2, <1>3
<1> QED BY <1>4 DEF TreeVictim, walk, Leaves, WayIndex

-----------------------------------------------------------------------------
\* The victim of any policy is a way of the set, so an eviction never indexes
\* outside the storage of its set (replacement.cpp:35-50).
THEOREM VictimIsAWay ==
  ASSUME NEW policy, NEW r \in ReplacementState
  PROVE  Victim(policy, r) \in WayIndex
<1>1. r.lru \in [WayIndex -> Nat] /\ r.plru \in [TreeNode -> {0, 1}]
  BY DEF ReplacementState
<1>2. OldestWay(r.lru) \in WayIndex
  BY <1>1, OldestWayIsOldest
<1>3. TreeVictim(r.plru) \in WayIndex
  BY <1>1, TreeVictimIsAWay
<1> QED BY <1>2, <1>3 DEF Victim

\* Touching a way keeps the bookkeeping well formed (replacement.cpp:12-33).
LEMMA TouchKeepsType ==
  ASSUME NEW policy, NEW r \in ReplacementState, NEW way \in WayIndex
  PROVE  Touch(policy, r, way) \in ReplacementState
<1>1. TouchTree(r.plru, way) \in [TreeNode -> {0, 1}]
  BY DEF TouchTree, ReplacementState
<1>2. [r.lru EXCEPT ![way] = r.tick + 1] \in [WayIndex -> Nat]
  BY DEF ReplacementState
<1>3. r.tick + 1 \in Nat
  BY DEF ReplacementState
<1> QED BY <1>1, <1>2, <1>3 DEF Touch, ReplacementState

\* A fresh set is well formed.
LEMMA NewReplacementType == NewReplacement \in ReplacementState
BY DEF NewReplacement, ReplacementState

-----------------------------------------------------------------------------
(* The paths of the tree.                                                  *)

LEMMA HalfOfNode ==
  ASSUME NEW n \in AnyNode, n # 1
  PROVE  /\ n \div 2 \in AnyNode /\ n \div 2 < n
         /\ n = 2 * (n \div 2) \/ n = 2 * (n \div 2) + 1
BY WaysAssumption DEF AnyNode

\* The path of a node is its own and that of the node above it.
LEMMA UpwardsIsDefined ==
  \A n \in AnyNode : Upwards[n] = IF n = 1 THEN {1} ELSE {n} \cup Upwards[n \div 2]
<1> USE WaysAssumption
<1> DEFINE top == 2 * Ways - 1
           Tabulates(g, k) == \A n \in 1 .. k :
                                 g[n] = IF n = 1 THEN {1} ELSE {n} \cup g[n \div 2]
           Defined(k) == \E g : Tabulates(g, k) /\ g = [n \in 1 .. k |-> g[n]]
           Stuck == {k \in 1 .. top : ~Defined(k)}
<1>1. Stuck = {}
  <2> SUFFICES ASSUME Stuck # {} PROVE FALSE
    OBVIOUS
  <2>1. PICK m \in Stuck : \A k \in Stuck : m <= k
    <3>1. Stuck \in SUBSET Nat
      OBVIOUS
    <3> HIDE DEF Stuck
    <3> QED BY <3>1, LeastElement
  <2>2. m \in 1 .. top /\ ~Defined(m)
    <3> HIDE DEF Defined
    <3> QED BY <2>1
  <2>3. CASE m = 1
    <3> DEFINE g == [n \in 1 .. 1 |-> {1}]
    <3>1. Tabulates(g, 1) /\ g = [n \in 1 .. 1 |-> g[n]]
      OBVIOUS
    <3> HIDE DEF g, Tabulates
    <3> QED BY <2>2, <2>3, <3>1
  <2>4. CASE m # 1
    <3>1. m - 1 \in 1 .. top /\ ~(m <= m - 1)
      BY <2>2, <2>4
    <3>2. Defined(m - 1)
      <4> HIDE DEF Defined
      <4>1. m - 1 \in Stuck => m <= m - 1
        <5> HIDE DEF Stuck
        <5> QED BY <2>1
      <4> QED BY <3>1, <4>1
    <3>3. PICK g : Tabulates(g, m - 1) /\ g = [n \in 1 .. m - 1 |-> g[n]]
      BY <3>2
    <3> DEFINE h == [n \in 1 .. m |-> IF n = m THEN {m} \cup g[m \div 2] ELSE g[n]]
    <3>4. ASSUME NEW n \in 1 .. m
          PROVE  h[n] = IF n = 1 THEN {1} ELSE {n} \cup h[n \div 2]
      <4>1. n # 1 => n \div 2 \in 1 .. m - 1 /\ h[n \div 2] = g[n \div 2]
        <5> SUFFICES ASSUME n # 1 PROVE n \div 2 \in 1 .. m - 1 /\ n \div 2 # m
          BY <2>2
        <5> QED BY <2>2
      <4>2. CASE n = m
        BY <2>4, <4>1, <4>2
      <4>3. CASE n # m
        <5>1. n \in 1 .. m - 1
          BY <2>2, <4>3
        <5>2. h[n] = g[n]
          BY <4>3
        <5> QED BY <3>3, <4>1, <5>1, <5>2
      <4> QED BY <4>2, <4>3
    <3>5. h = [n \in 1 .. m |-> h[n]]
      OBVIOUS
    <3> HIDE DEF h
    <3>6. Defined(m)
      BY <3>4, <3>5
    <3> QED BY <2>2, <3>6
  <2> QED BY <2>3, <2>4
<1>2. AnyNode = 1 .. top /\ top \in 1 .. top
  BY DEF AnyNode
<1>3. Defined(top)
  <2> HIDE DEF Defined, top
  <2> QED BY <1>1, <1>2
<1>4. PICK g : Tabulates(g, top) /\ g = [n \in 1 .. top |-> g[n]]
  BY <1>3
<1> HIDE DEF top
<1> DEFINE Def(f) == [n \in AnyNode |-> IF n = 1 THEN {1} ELSE {n} \cup f[n \div 2]]
<1>5. g = Def(g)
  BY <1>2, <1>4
<1>6. Upwards = CHOOSE f : f = Def(f)
  BY DEF Upwards
<1>7. Upwards = Def(Upwards)
  <2> HIDE DEF Def
  <2> QED BY <1>5, <1>6
<1> DEFINE up == Upwards
<1>8. ASSUME NEW n \in AnyNode
      PROVE  Def(up)[n] = IF n = 1 THEN {1} ELSE {n} \cup up[n \div 2]
  <2> HIDE DEF up
  <2> QED OBVIOUS
<1>9. \A n \in AnyNode : up[n] = Def(up)[n]
  <2> HIDE DEF Def
  <2> QED BY <1>7
<1> HIDE DEF Def
<1> QED BY <1>8, <1>9

LEMMA UpwardsCases ==
  /\ 1 \in AnyNode /\ Upwards[1] = {1}
  /\ \A n \in AnyNode \ {1} : Upwards[n] = {n} \cup Upwards[n \div 2]
<1>1. 1 \in AnyNode
  BY WaysAssumption DEF AnyNode
<1> DEFINE one == 1
<1>2. one \in AnyNode /\ one = 1
  BY <1>1
<1> HIDE DEF one
<1>3. Upwards[one] = {1}
  BY <1>2, UpwardsIsDefined
<1> QED BY <1>1, <1>2, <1>3, UpwardsIsDefined

\* What holds of the root and passes on to the node below holds of every node.
LEMMA DownTheTree ==
  ASSUME NEW S, 1 \in S,
         \A n \in AnyNode \ {1} : n \div 2 \in S => n \in S
  PROVE  AnyNode \subseteq S
<1> DEFINE Lost == {n \in AnyNode : n \notin S}
<1> SUFFICES ASSUME Lost # {} PROVE FALSE
  OBVIOUS
<1>1. PICK m \in Lost : \A k \in Lost : m <= k
  <2>1. Lost \in SUBSET Nat
    BY DEF AnyNode
  <2> HIDE DEF Lost
  <2> QED BY <2>1, LeastElement
<1>2. m \in AnyNode /\ m \notin S /\ m # 1
  BY <1>1
<1>3. m \div 2 \in AnyNode /\ m \div 2 < m
  BY <1>2, HalfOfNode
<1>4. ~(m <= m \div 2)
  BY <1>2, <1>3 DEF AnyNode
<1>5. m \div 2 \notin Lost
  <2> HIDE DEF Lost
  <2> QED BY <1>1, <1>4
<1> QED BY <1>2, <1>3, <1>5

\* A path starts at its node, ends at the root and holds no larger node.
LEMMA PathEnds ==
  ASSUME NEW n \in AnyNode
  PROVE  n \in Upwards[n] /\ 1 \in Upwards[n] /\ Upwards[n] \subseteq 1 .. n
<1> DEFINE S == {k \in AnyNode : k \in Upwards[k] /\ 1 \in Upwards[k] /\ Upwards[k] \subseteq 1 .. k}
<1>1. 1 \in S
  <2>1. 1 \in AnyNode /\ Upwards[1] = {1}
    BY UpwardsCases
  <2> QED BY <2>1
<1>2. ASSUME NEW k \in AnyNode \ {1}, k \div 2 \in S PROVE k \in S
  <2>1. Upwards[k] = {k} \cup Upwards[k \div 2]
    BY UpwardsCases
  <2>2. k \div 2 \in AnyNode /\ k \div 2 < k /\ k \in Nat
    BY HalfOfNode DEF AnyNode
  <2>3. 1 .. (k \div 2) \subseteq 1 .. k /\ k \in 1 .. k
    BY <2>2 DEF AnyNode
  <2> QED BY <1>2, <2>1, <2>3
<1> HIDE DEF S
<1>3. AnyNode \subseteq S
  BY <1>1, <1>2, DownTheTree
<1> QED BY <1>3 DEF S

\* Of two nodes of a path the smaller is above the larger.
LEMMA PathIsChain ==
  ASSUME NEW n \in AnyNode, NEW a \in Upwards[n], NEW b \in Upwards[n]
  PROVE  /\ a \in AnyNode
         /\ a < b => a <= b \div 2
         /\ a <= b => a \in Upwards[b]
         /\ Upwards[b] \subseteq Upwards[n]
<1> DEFINE Chain(k) == \A x, y \in Upwards[k] :
                          /\ x < y => x <= y \div 2
                          /\ x <= y => x \in Upwards[y]
                          /\ Upwards[y] \subseteq Upwards[k]
           S == {k \in AnyNode : Chain(k)}
<1>1. 1 \in S
  <2>1. 1 \in AnyNode /\ Upwards[1] = {1}
    BY UpwardsCases
  <2> QED BY <2>1
<1>2. ASSUME NEW k \in AnyNode \ {1}, k \div 2 \in S PROVE k \in S
  <2> DEFINE half == k \div 2
  <2>1. /\ Upwards[k] = {k} \cup Upwards[half]
        /\ half \in AnyNode /\ half < k /\ k \in Nat /\ half \in Nat
    <3>1. Upwards[k] = {k} \cup Upwards[k \div 2]
      BY UpwardsCases
    <3>2. k \div 2 \in AnyNode /\ k \div 2 < k
      BY HalfOfNode
    <3> QED BY <3>1, <3>2 DEF AnyNode
  <2>2. Chain(half)
    BY <1>2
  <2>3. Upwards[half] \subseteq 1 .. half
    BY <2>1, PathEnds
  <2> SUFFICES ASSUME NEW x \in Upwards[k], NEW y \in Upwards[k]
               PROVE  /\ x < y => x <= y \div 2
                      /\ x <= y => x \in Upwards[y]
                      /\ Upwards[y] \subseteq Upwards[k]
    OBVIOUS
  <2>4. x \in Nat /\ y \in Nat /\ x <= k /\ y <= k
    <3>1. Upwards[k] \subseteq 1 .. k
      BY PathEnds
    <3> QED BY <2>1, <3>1
  <2>5. CASE y = k
    <3>1. x < y => x <= half
      BY <2>1, <2>3, <2>5
    <3> QED BY <2>5, <3>1
  <2>6. CASE y # k
    <3>1. y \in Upwards[half]
      BY <2>1, <2>6
    <3>2. x = k => ~(x <= y)
      BY <2>1, <2>3, <2>4, <3>1
    <3>3. x <= y => x \in Upwards[half]
      BY <2>1, <3>2
    <3>4. x < y => x <= y
      BY <2>4
    <3> HIDE DEF half
    <3> QED BY <2>1, <2>2, <3>1, <3>3, <3>4
  <2> QED BY <2>5, <2>6
<1> HIDE DEF S
<1>3. n \in S
  BY <1>1, <1>2, DownTheTree
<1>4. a \in AnyNode
  <2>1. a \in 1 .. n
    BY PathEnds
  <2> QED BY <2>1, WaysAssumption DEF AnyNode
<1> QED BY <1>3, <1>4 DEF S

\* With a node a path holds the node above it, and one of the nodes below.
LEMMA PathAbove ==
  ASSUME NEW n \in AnyNode, NEW a \in Upwards[n], a # 1
  PROVE  a \div 2 \in Upwards[n]
<1>1. a \in AnyNode /\ Upwards[a] \subseteq Upwards[n]
  BY PathIsChain
<1>2. a \div 2 \in AnyNode /\ Upwards[a] = {a} \cup Upwards[a \div 2]
  BY <1>1, HalfOfNode, UpwardsCases
<1> QED BY <1>1, <1>2, PathEnds

LEMMA PathForks ==
  ASSUME NEW n \in AnyNode, NEW m \in Nat \ {0}
  PROVE  ~(2 * m \in Upwards[n] /\ 2 * m + 1 \in Upwards[n])
<1> SUFFICES ASSUME 2 * m \in Upwards[n], 2 * m + 1 \in Upwards[n] PROVE FALSE
  OBVIOUS
<1>1. 2 * m < 2 * m + 1 /\ (2 * m + 1) \div 2 = m /\ ~(2 * m <= m)
  OBVIOUS
<1> DEFINE a == 2 * m
           b == 2 * m + 1
<1>2. a < b => a <= b \div 2
  <2> HIDE DEF a, b
  <2>1. a \in Upwards[n] /\ b \in Upwards[n]
    BY DEF a, b
  <2> QED BY <2>1, PathIsChain
<1> QED BY <1>1, <1>2

\* What holds of the leaves and passes on to the node above two holds of every node.
LEMMA UpTheTree ==
  ASSUME NEW S, \A n \in AnyNode : n >= Ways => n \in S,
         \A n \in TreeNode : 2 * n \in S /\ 2 * n + 1 \in S => n \in S
  PROVE  AnyNode \subseteq S
<1> DEFINE Lost == {n \in AnyNode : n \notin S}
           Rank == {2 * Ways - n : n \in Lost}
<1> USE WaysAssumption
<1> SUFFICES ASSUME Lost # {} PROVE FALSE
  OBVIOUS
<1>1. Rank \in SUBSET Nat /\ Rank # {}
  BY DEF AnyNode
<1>2. PICK r \in Rank : \A q \in Rank : r <= q
  <2> HIDE DEF Rank
  <2> QED BY <1>1, LeastElement
<1>3. PICK n \in Lost : r = 2 * Ways - n
  BY <1>2
<1>4. n \in AnyNode /\ n \notin S /\ n \in TreeNode
  <2>1. n \in AnyNode /\ n \notin S /\ ~(n >= Ways)
    BY <1>3
  <2> QED BY <2>1 DEF AnyNode, TreeNode
<1>5. ASSUME NEW c \in {2 * n, 2 * n + 1} PROVE c \in S
  <2>1. c \in AnyNode /\ c > n
    BY <1>4 DEF AnyNode, TreeNode
  <2>2. c \in Lost => 2 * Ways - c \in Rank
    OBVIOUS
  <2>3. ~(r <= 2 * Ways - c)
    BY <1>3, <1>4, <2>1 DEF AnyNode
  <2> HIDE DEF Rank
  <2>4. c \notin Lost
    BY <1>2, <2>2, <2>3
  <2> QED BY <2>1, <2>4
<1> QED BY <1>4, <1>5

\* The walk for a victim goes down the path of the leaf where it ends.
LEMMA WalkIsPath ==
  ASSUME NEW bits \in [TreeNode -> {0, 1}]
  PROVE  LET leaf == Ways + TreeVictim(bits)
         IN  /\ leaf \in AnyNode
             /\ \A m \in Upwards[leaf] \ {leaf} :
                    m \in TreeNode /\ 2 * m + bits[m] \in Upwards[leaf]
<1> USE WaysAssumption
<1> DEFINE walk == WalkFrom(bits)
           below(n) == 2 * n + bits[n]
           S == {n \in AnyNode : walk[n] \in Leaves /\ n \in Upwards[walk[n]]}
<1>1. \A n \in AnyNode : walk[n] = IF n >= Ways THEN n ELSE walk[below(n)]
  BY WalkIsDefined
<1> HIDE DEF walk
<1>2. \A n \in TreeNode : /\ n \in AnyNode /\ below(n) \in AnyNode /\ walk[n] = walk[below(n)]
                          /\ below(n) \in {2 * n, 2 * n + 1} /\ below(n) # 1
                          /\ below(n) \div 2 = n /\ n \in Nat \ {0}
  <2> SUFFICES ASSUME NEW n \in TreeNode
               PROVE  /\ n \in AnyNode /\ below(n) \in AnyNode /\ walk[n] = walk[below(n)]
                      /\ below(n) \in {2 * n, 2 * n + 1} /\ below(n) # 1
                      /\ below(n) \div 2 = n /\ n \in Nat \ {0}
    OBVIOUS
  <2>1. bits[n] \in {0, 1}
    OBVIOUS
  <2>2. n \in AnyNode /\ ~(n >= Ways) /\ n \in Nat \ {0}
    BY DEF AnyNode, TreeNode
  <2>3. below(n) \in AnyNode /\ below(n) \in {2 * n, 2 * n + 1} /\ below(n) # 1
        /\ below(n) \div 2 = n
    BY <2>1, <2>2 DEF AnyNode
  <2> QED BY <1>1, <2>2, <2>3
<1>3. \A n \in AnyNode : n >= Ways => n \in S
  BY <1>1, PathEnds DEF AnyNode, Leaves
<1>4. Leaves \subseteq AnyNode
  BY DEF Leaves, AnyNode
<1>5. ASSUME NEW n \in TreeNode, 2 * n \in S, 2 * n + 1 \in S PROVE n \in S
  <2>1. below(n) \in S
    BY <1>2, <1>5
  <2>2. /\ walk[below(n)] \in Leaves /\ below(n) \in Upwards[walk[below(n)]]
        /\ n \in AnyNode /\ walk[n] = walk[below(n)] /\ below(n) # 1 /\ below(n) \div 2 = n
    BY <1>2, <2>1
  <2>3. n \in Upwards[walk[n]]
    <3> DEFINE c == below(n)
    <3> HIDE DEF below
    <3> QED BY <1>4, <2>2, PathAbove
  <2> QED BY <2>2, <2>3
<1>6. AnyNode \subseteq S
  <2> HIDE DEF S
  <2> QED BY <1>3, <1>5, UpTheTree
<1> DEFINE leaf == walk[1]
<1>7. leaf \in Leaves /\ leaf \in AnyNode /\ leaf = Ways + TreeVictim(bits)
  <2>1. 1 \in AnyNode
    BY DEF AnyNode
  <2>2. leaf \in Leaves
    BY <1>6, <2>1
  <2> QED BY <1>4, <2>2 DEF TreeVictim, walk, Leaves
<1> DEFINE Off == {n \in AnyNode : n \in Upwards[leaf] => walk[n] = leaf}
<1>8. AnyNode \subseteq Off
  <2>1. 1 \in Off
    BY DEF AnyNode
  <2>2. ASSUME NEW n \in AnyNode \ {1}, n \div 2 \in Off, n \in Upwards[leaf]
        PROVE  walk[n] = leaf
    <3> DEFINE p == n \div 2
    <3>1. p \in Upwards[leaf] /\ p \in AnyNode /\ (n = 2 * p \/ n = 2 * p + 1)
      BY <1>7, <2>2, PathAbove, HalfOfNode
    <3>2. walk[p] = leaf
      BY <2>2, <3>1
    <3>3. p \in TreeNode
      BY <3>1 DEF TreeNode, AnyNode
    <3> HIDE DEF p
    <3>4. walk[below(p)] = leaf /\ below(p) \in AnyNode /\ below(p) \in {2 * p, 2 * p + 1}
          /\ p \in Nat \ {0}
      BY <1>2, <3>2, <3>3
    <3>5. below(p) \in Upwards[leaf]
      BY <1>6, <3>4
    <3>6. ~(2 * p \in Upwards[leaf] /\ 2 * p + 1 \in Upwards[leaf])
      <4> HIDE DEF leaf
      <4> QED BY <1>7, <3>4, PathForks
    <3>7. n = below(p)
      BY <2>2, <3>1, <3>4, <3>5, <3>6
    <3> QED BY <3>4, <3>7
  <2>3. ASSUME NEW n \in AnyNode \ {1}, n \div 2 \in Off PROVE n \in Off
    BY <2>2, <2>3
  <2> HIDE DEF Off
  <2> QED BY <2>1, <2>3, DownTheTree
<1>9. ASSUME NEW m \in Upwards[leaf], m # leaf
      PROVE  m \in TreeNode /\ below(m) \in Upwards[leaf]
  <2> HIDE DEF leaf
  <2>1. m \in 1 .. leaf /\ m \in AnyNode
    BY <1>7, PathEnds, PathIsChain
  <2>2. m <= leaf \div 2
    <3>1. leaf \in Upwards[leaf]
      BY <1>7, PathEnds
    <3>2. m < leaf
      BY <1>7, <1>9, <2>1 DEF AnyNode
    <3> QED BY <1>7, <3>1, <3>2, PathIsChain
  <2>3. m \in TreeNode
    BY <1>7, <2>1, <2>2 DEF TreeNode, Leaves
  <2>4. walk[m] = leaf
    BY <1>8, <2>1
  <2>5. walk[below(m)] = leaf /\ below(m) \in AnyNode
    BY <1>2, <2>3, <2>4
  <2>6. below(m) \in Upwards[leaf]
    BY <1>6, <2>5
  <2> QED BY <2>3, <2>6
<1> QED BY <1>7, <1>9

\* A leaf with a larger number is at least as deep.
LEMMA PathLength ==
  ASSUME NEW a \in AnyNode, NEW b \in AnyNode, a <= b
  PROVE  /\ IsFiniteSet(Upwards[a]) /\ IsFiniteSet(Upwards[b])
         /\ Cardinality(Upwards[a]) <= Cardinality(Upwards[b])
<1> USE WaysAssumption
<1>1. \A n \in AnyNode : IsFiniteSet(Upwards[n])
  <2> SUFFICES ASSUME NEW n \in AnyNode PROVE IsFiniteSet(Upwards[n])
    OBVIOUS
  <2> DEFINE one == 1
  <2>1. one \in Int /\ n \in Int /\ Upwards[n] \subseteq one .. n
    BY PathEnds DEF AnyNode
  <2> HIDE DEF one
  <2>2. IsFiniteSet(one .. n)
    BY <2>1, FS_Interval
  <2> QED BY <2>1, <2>2, FS_Subset
<1>2. ASSUME NEW n \in AnyNode \ {1}
      PROVE  /\ n \div 2 \in AnyNode
             /\ Cardinality(Upwards[n]) = Cardinality(Upwards[n \div 2]) + 1
             /\ Cardinality(Upwards[n \div 2]) \in Nat
  <2> DEFINE h == n \div 2
  <2>1. h \in AnyNode /\ h < n /\ h \in Nat /\ n \in Nat
    BY HalfOfNode DEF AnyNode
  <2>2. Upwards[n] = Upwards[h] \cup {n}
    BY UpwardsCases
  <2> HIDE DEF h
  <2>3. Upwards[h] \subseteq 1 .. h
    BY <2>1, PathEnds
  <2>4. n \notin Upwards[h]
    BY <2>1, <2>3
  <2>5. IsFiniteSet(Upwards[h])
    BY <1>1, <2>1
  <2>6. Cardinality(Upwards[n]) = Cardinality(Upwards[h]) + 1
    BY <2>2, <2>4, <2>5, FS_AddElement
  <2>7. Cardinality(Upwards[h]) \in Nat
    BY <2>5, FS_CardinalityType
  <2> QED BY <2>1, <2>6, <2>7 DEF h
<1> DEFINE S == {n \in AnyNode : \A k \in AnyNode :
                     k <= n => Cardinality(Upwards[k]) <= Cardinality(Upwards[n])}
<1>3. 1 \in S
  <2> SUFFICES ASSUME NEW k \in AnyNode, k <= 1
               PROVE  Cardinality(Upwards[k]) <= Cardinality(Upwards[1])
    BY UpwardsCases
  <2>1. k = 1
    BY DEF AnyNode
  <2>2. Cardinality(Upwards[k]) \in Nat
    BY <1>1, FS_CardinalityType
  <2> QED BY <2>1, <2>2
<1>4. ASSUME NEW n \in AnyNode \ {1}, n \div 2 \in S PROVE n \in S
  <2> SUFFICES ASSUME NEW k \in AnyNode, k <= n
               PROVE  Cardinality(Upwards[k]) <= Cardinality(Upwards[n])
    OBVIOUS
  <2>1. CASE k = 1
    <3>1. IsFiniteSet(Upwards[n]) /\ Upwards[k] \subseteq Upwards[n]
      BY <1>1, <2>1, PathEnds, UpwardsCases
    <3> QED BY <3>1, FS_Subset
  <2>2. CASE k # 1
    <3>1. k \div 2 <= n \div 2
      BY DEF AnyNode
    <3>2. /\ k \div 2 \in AnyNode
          /\ Cardinality(Upwards[k]) = Cardinality(Upwards[k \div 2]) + 1
          /\ Cardinality(Upwards[n]) = Cardinality(Upwards[n \div 2]) + 1
          /\ Cardinality(Upwards[k \div 2]) \in Nat /\ Cardinality(Upwards[n \div 2]) \in Nat
      BY <1>2, <2>2
    <3>3. Cardinality(Upwards[k \div 2]) <= Cardinality(Upwards[n \div 2])
      BY <1>4, <3>1, <3>2
    <3> QED BY <3>2, <3>3
  <2> QED BY <2>1, <2>2
<1>5. b \in S
  <2> HIDE DEF S
  <2> QED BY <1>3, <1>4, DownTheTree
<1> QED BY <1>1, <1>5

\* If at every node above the victim some way of a set lies on the other side,
\* the set has as many ways as the tree has levels.
LEMMA OneWayPerLevel ==
  ASSUME NEW bits \in [TreeNode -> {0, 1}], NEW After, IsFiniteSet(After), After \subseteq WayIndex,
         \A m \in TreeNode : 2 * m + bits[m] \in LeafToRoot(TreeVictim(bits))
            => \E u \in After : 2 * m + 1 - bits[m] \in LeafToRoot(u)
  PROVE  Cardinality(LeafToRoot(0)) - 1 <= Cardinality(After)
<1> USE WaysAssumption
<1> DEFINE leaf == Ways + TreeVictim(bits)
           Inner == Upwards[leaf] \ {leaf}
           Other(m) == 2 * m + 1 - bits[m]
           Beside(m, u) == Other(m) \in Upwards[Ways + u]
           f == [m \in Inner |-> CHOOSE u \in After : Beside(m, u)]
<1>1. /\ leaf \in AnyNode
      /\ \A m \in Inner : m \in TreeNode /\ 2 * m + bits[m] \in Upwards[leaf]
  BY WalkIsPath
<1>2. leaf >= Ways /\ Ways \in AnyNode /\ leaf \in Nat
  BY TreeVictimIsAWay DEF WayIndex, AnyNode
<1>3. ASSUME NEW m \in Inner PROVE \E u \in After : Beside(m, u)
  BY <1>1 DEF LeafToRoot
<1>4. ASSUME NEW m \in Inner PROVE f[m] \in After /\ Beside(m, f[m])
  <2>1. f[m] = CHOOSE u \in After : Beside(m, u)
    OBVIOUS
  <2> HIDE DEF Beside, f
  <2> QED BY <1>3, <2>1
<1>5. ASSUME NEW m \in Inner, NEW n \in Inner, m < n PROVE f[m] # f[n]
  <2> DEFINE u == f[m]
             c == 2 * m + bits[m]
             path == Upwards[Ways + u]
  <2> SUFFICES ASSUME f[n] = u PROVE FALSE
    OBVIOUS
  <2>1. u \in WayIndex /\ Other(m) \in path /\ Other(n) \in path
    BY <1>4
  <2>2. Ways + u \in AnyNode
    BY <2>1 DEF WayIndex, AnyNode
  <2> HIDE DEF f, u
  <2>3. /\ m \in Nat \ {0} /\ n \in Nat \ {0} /\ bits[m] \in {0, 1} /\ bits[n] \in {0, 1}
        /\ c \in Upwards[leaf] /\ n \in Upwards[leaf]
    BY <1>1 DEF TreeNode
  <2>4. n \in path
    <3> DEFINE o == Other(n)
    <3>1. o # 1 /\ o \div 2 = n
      BY <2>3
    <3>2. o \in path
      BY <2>1
    <3> HIDE DEF o
    <3> QED BY <2>2, <3>1, <3>2, PathAbove
  <2>5. c <= n
    <3> SUFFICES ASSUME n < c PROVE FALSE
      BY <2>3
    <3>1. c \div 2 = m
      BY <2>3
    <3> HIDE DEF c, leaf
    <3>2. n <= c \div 2
      BY <1>1, <2>3, PathIsChain
    <3> QED BY <1>5, <2>3, <3>1, <3>2
  <2>6. c \in path
    <3> HIDE DEF c, leaf
    <3>1. c \in Upwards[n]
      BY <1>1, <2>3, <2>5, PathIsChain
    <3>2. Upwards[n] \subseteq path
      BY <2>2, <2>4, PathIsChain
    <3> QED BY <3>1, <3>2
  <2>7. ~(2 * m \in path /\ 2 * m + 1 \in path)
    BY <2>2, <2>3, PathForks
  <2>8. \/ c = 2 * m /\ Other(m) = 2 * m + 1
        \/ c = 2 * m + 1 /\ Other(m) = 2 * m
    BY <2>3
  <2> QED BY <2>1, <2>6, <2>7, <2>8
<1>6. f \in Injection(Inner, After)
  <2>1. f \in [Inner -> After]
    BY <1>4
  <2>2. \A m, n \in Inner : f[m] = f[n] => m = n
    <3>1. \A m \in Inner : m \in Nat
      BY <1>1 DEF TreeNode
    <3> HIDE DEF f, Inner
    <3> QED BY <1>5, <3>1
  <2> HIDE DEF f
  <2> QED BY <2>1, <2>2 DEF Injection, IsInjective
<1>7. Cardinality(Inner) <= Cardinality(After)
  <2> HIDE DEF f, Inner
  <2> QED BY <1>6, FS_Injection
<1>8. /\ IsFiniteSet(Upwards[leaf])
      /\ Cardinality(Upwards[Ways]) <= Cardinality(Upwards[leaf])
      /\ leaf \in Upwards[leaf]
  <2> HIDE DEF leaf
  <2> QED BY <1>1, <1>2, PathLength, PathEnds
<1>9. Cardinality(Inner) = Cardinality(Upwards[leaf]) - 1
  <2> HIDE DEF leaf
  <2> QED BY <1>8, FS_RemoveElement
<1>10. LeafToRoot(0) = Upwards[Ways] /\ IsFiniteSet(Upwards[Ways])
  <2>1. Ways + 0 = Ways
    OBVIOUS
  <2> QED BY <1>1, <1>2, <2>1, PathLength DEF LeafToRoot
<1>11. /\ Cardinality(Upwards[Ways]) \in Nat /\ Cardinality(Upwards[leaf]) \in Nat
       /\ Cardinality(After) \in Nat
  BY <1>8, <1>10, FS_CardinalityType
<1> HIDE DEF leaf, Inner
<1> QED BY <1>7, <1>8, <1>9, <1>10, <1>11

-----------------------------------------------------------------------------
(* The order of Recency.                                                   *)

\* Things that their ticks order.
Ordered(S, tick) ==
    /\ IsFiniteSet(S)
    /\ TicksDiffer(S, tick)
    /\ \A x \in S : tick[x] \in Nat

\* How many things are newer than one of them says where it stands.
LEMMA NewerDiffer ==
  ASSUME NEW S, NEW tick, Ordered(S, tick)
  PROVE  /\ \A x \in S : Cardinality(Newer(S, tick, x)) + 1 \in 1 .. Cardinality(S)
         /\ \A x, y \in S : Cardinality(Newer(S, tick, x)) = Cardinality(Newer(S, tick, y))
                                => x = y
<1>0. /\ IsFiniteSet(S)
      /\ \A x \in S : tick[x] \in Nat
      /\ \A x, y \in S : tick[x] = tick[y] => x = y
  BY DEF Ordered, TicksDiffer
<1>1. \A x \in S : /\ Newer(S, tick, x) \in SUBSET S
                   /\ x \notin Newer(S, tick, x)
  BY <1>0 DEF Newer
<1>2. \A x \in S : /\ IsFiniteSet(Newer(S, tick, x))
                   /\ Cardinality(Newer(S, tick, x)) \in Nat
                   /\ Cardinality(Newer(S, tick, x)) <= Cardinality(S)
                   /\ Cardinality(Newer(S, tick, x)) # Cardinality(S)
  <2> SUFFICES ASSUME NEW x \in S
               PROVE  /\ IsFiniteSet(Newer(S, tick, x))
                      /\ Cardinality(Newer(S, tick, x)) \in Nat
                      /\ Cardinality(Newer(S, tick, x)) <= Cardinality(S)
                      /\ Cardinality(Newer(S, tick, x)) # Cardinality(S)
    OBVIOUS
  <2>1. /\ IsFiniteSet(Newer(S, tick, x))
        /\ Cardinality(Newer(S, tick, x)) <= Cardinality(S)
        /\ Cardinality(Newer(S, tick, x)) = Cardinality(S) => S = Newer(S, tick, x)
    BY <1>0, <1>1, FS_Subset
  <2> QED BY <1>1, <2>1, FS_CardinalityType
<1>3. ASSUME NEW x \in S, NEW y \in S, tick[x] < tick[y]
      PROVE  Cardinality(Newer(S, tick, x)) # Cardinality(Newer(S, tick, y))
  <2>1. tick[x] \in Nat /\ tick[y] \in Nat /\ \A z \in S : tick[z] \in Nat
    BY <1>0
  <2>2. Newer(S, tick, y) \in SUBSET Newer(S, tick, x) /\ y \in Newer(S, tick, x)
    BY <1>3, <2>1 DEF Newer
  <2>3. Cardinality(Newer(S, tick, x)) = Cardinality(Newer(S, tick, y))
            => Newer(S, tick, x) = Newer(S, tick, y)
    BY <1>2, <2>2, FS_Subset
  <2> QED BY <1>1, <2>2, <2>3
<1>4. Cardinality(S) \in Nat
  BY <1>0, FS_CardinalityType
<1>5. ASSUME NEW x \in S, NEW y \in S, x # y,
             Cardinality(Newer(S, tick, x)) = Cardinality(Newer(S, tick, y))
      PROVE  FALSE
  <2>1. tick[x] \in Nat /\ tick[y] \in Nat /\ tick[x] # tick[y]
    BY <1>0, <1>5
  <2>2. tick[x] < tick[y] \/ tick[y] < tick[x]
    BY <2>1
  <2> QED BY <1>3, <1>5, <2>2
<1>6. ASSUME NEW x \in S PROVE Cardinality(Newer(S, tick, x)) + 1 \in 1 .. Cardinality(S)
  BY <1>2, <1>4
<1> QED BY <1>5, <1>6

\* The order holds every thing of the set, each where its newer ones put it.
LEMMA NewestFirstIsOrder ==
  ASSUME NEW S, NEW tick, Ordered(S, tick)
  PROVE  /\ Cardinality(S) \in Nat
         /\ DOMAIN NewestFirst(S, tick) = 1 .. Cardinality(S)
         /\ \A i \in 1 .. Cardinality(S) :
              /\ NewestFirst(S, tick)[i] \in S
              /\ Cardinality(Newer(S, tick, NewestFirst(S, tick)[i])) = i - 1
<1> DEFINE place == [x \in S |-> Cardinality(Newer(S, tick, x)) + 1]
           n == Cardinality(S)
<1>0. IsFiniteSet(S)
  BY DEF Ordered
<1>1. n \in Nat
  BY <1>0, FS_CardinalityType
<1>2. /\ \A x \in S : Cardinality(Newer(S, tick, x)) + 1 \in 1 .. n
      /\ \A x, y \in S : Cardinality(Newer(S, tick, x)) = Cardinality(Newer(S, tick, y))
                             => x = y
  BY NewerDiffer
<1>3. \A x \in S : Cardinality(Newer(S, tick, x)) \in Nat
  <2> SUFFICES ASSUME NEW x \in S PROVE Cardinality(Newer(S, tick, x)) \in Nat
    OBVIOUS
  <2>1. IsFiniteSet(Newer(S, tick, x))
    <3>1. Newer(S, tick, x) \in SUBSET S
      BY DEF Newer
    <3> QED BY <1>0, <3>1, FS_Subset
  <2> QED BY <2>1, FS_CardinalityType
<1>4. place \in Injection(S, 1 .. n)
  <2>1. place \in [S -> 1 .. n]
    BY <1>2
  <2>2. \A x, y \in S : place[x] = place[y] => x = y
    BY <1>2, <1>3
  <2> QED BY <2>1, <2>2 DEF Injection, IsInjective
<1>5. IsFiniteSet(1 .. n) /\ Cardinality(1 .. n) = n
  BY <1>1, FS_Interval
<1>6. place \in Surjection(S, 1 .. n)
  BY <1>4, <1>5, FS_Injection
<1>7. \A i \in 1 .. n : \E x \in S : place[x] = i
  BY <1>6 DEF Surjection
<1>8. ASSUME NEW i \in 1 .. n
      PROVE  /\ NewestFirst(S, tick)[i] \in S
             /\ Cardinality(Newer(S, tick, NewestFirst(S, tick)[i])) = i - 1
  <2>1. \E x \in S : Cardinality(Newer(S, tick, x)) = i - 1
    BY <1>3, <1>7
  <2>2. NewestFirst(S, tick)[i] = CHOOSE x \in S : Cardinality(Newer(S, tick, x)) = i - 1
    BY DEF NewestFirst
  <2> QED BY <2>1, <2>2
<1>9. DOMAIN NewestFirst(S, tick) = 1 .. n
  BY DEF NewestFirst
<1> QED BY <1>1, <1>8, <1>9

\* And no other thing stands there.
LEMMA PlaceByNewer ==
  ASSUME NEW S, NEW tick, Ordered(S, tick), NEW i \in 1 .. Cardinality(S), NEW x \in S
  PROVE  NewestFirst(S, tick)[i] = x <=> Cardinality(Newer(S, tick, x)) = i - 1
<1> DEFINE y == NewestFirst(S, tick)[i]
<1>1. y \in S /\ Cardinality(Newer(S, tick, y)) = i - 1
  BY NewestFirstIsOrder
<1> HIDE DEF y
<1>2. Cardinality(Newer(S, tick, x)) = Cardinality(Newer(S, tick, y)) => x = y
  BY <1>1, NewerDiffer
<1> QED BY <1>1, <1>2 DEF y

\* Where a thing stands, or where it would if it were the oldest.
PlaceIn(S, tick, x) ==
    IF x \in S THEN Cardinality(Newer(S, tick, x)) + 1 ELSE Cardinality(S) + 1

LEMMA PlaceOfMember ==
  ASSUME NEW S, NEW tick, Ordered(S, tick), NEW x \in S
  PROVE  /\ PlaceIn(S, tick, x) \in 1 .. Cardinality(S)
         /\ \A i \in 1 .. Cardinality(S) : NewestFirst(S, tick)[i] = x <=> i = PlaceIn(S, tick, x)
<1>1. PlaceIn(S, tick, x) = Cardinality(Newer(S, tick, x)) + 1
  BY DEF PlaceIn
<1>2. PlaceIn(S, tick, x) \in 1 .. Cardinality(S)
  BY <1>1, NewerDiffer
<1>3. Cardinality(Newer(S, tick, x)) \in Nat
  <2>1. Newer(S, tick, x) \in SUBSET S
    BY DEF Newer
  <2>2. IsFiniteSet(Newer(S, tick, x))
    BY <2>1, FS_Subset DEF Ordered
  <2> QED BY <2>2, FS_CardinalityType
<1>4. ASSUME NEW i \in 1 .. Cardinality(S)
      PROVE  NewestFirst(S, tick)[i] = x <=> i = PlaceIn(S, tick, x)
  <2>1. NewestFirst(S, tick)[i] = x <=> Cardinality(Newer(S, tick, x)) = i - 1
    BY PlaceByNewer
  <2> QED BY <1>1, <1>3, <2>1
<1> QED BY <1>2, <1>4

\* A thing that is touched comes first; what stood before it moves back by one.
ComesFirst(S, tick, x, T, later) ==
    /\ DOMAIN NewestFirst(T, later) = 1 .. Cardinality(T)
    /\ NewestFirst(T, later)[1] = x
    /\ \A i \in 2 .. Cardinality(T) :
         /\ NewestFirst(T, later)[i] \in S \ {x}
         /\ NewestFirst(T, later)[i] = IF i <= PlaceIn(S, tick, x) THEN NewestFirst(S, tick)[i - 1]
                                       ELSE NewestFirst(S, tick)[i]

TouchAt(S, tick, x, now, T, later) ==
    /\ T = S \cup {x}
    /\ later[x] = now
    /\ \A y \in S \ {x} : later[y] = tick[y]

LEMMA TouchedComesFirst ==
  ASSUME NEW S, NEW tick, Ordered(S, tick), NEW x, NEW now \in Nat, \A y \in S : tick[y] < now,
         NEW T, NEW later, TouchAt(S, tick, x, now, T, later)
  PROVE  /\ Ordered(T, later)
         /\ Cardinality(T) = IF x \in S THEN Cardinality(S) ELSE Cardinality(S) + 1
         /\ PlaceIn(S, tick, x) \in 1 .. Cardinality(T)
         /\ ComesFirst(S, tick, x, T, later)
<1> DEFINE place == PlaceIn(S, tick, x)
           n == Cardinality(S)
           Count(y) == Cardinality(Newer(S, tick, y))
           CountNow(y) == Cardinality(Newer(T, later, y))
<1>1. /\ later[x] = now
      /\ \A y \in S \ {x} : later[y] = tick[y]
      /\ \A y \in S : tick[y] \in Nat
  BY DEF TouchAt, Ordered
<1>0. T = S \cup {x}
  BY DEF TouchAt
<1>2. /\ IsFiniteSet(T)
      /\ Cardinality(T) = IF x \in S THEN n ELSE n + 1
  BY FS_AddElement DEF TouchAt, Ordered
<1>3. /\ n \in Nat
      /\ \A i \in 1 .. n : NewestFirst(S, tick)[i] \in S
      /\ \A i \in 1 .. n : Count(NewestFirst(S, tick)[i]) = i - 1
  BY NewestFirstIsOrder
<1>4. \A y \in S : /\ Newer(S, tick, y) \in SUBSET S
                   /\ IsFiniteSet(Newer(S, tick, y))
                   /\ Count(y) \in Nat
                   /\ Count(y) + 1 \in 1 .. n
  <2> SUFFICES ASSUME NEW y \in S
               PROVE  /\ Newer(S, tick, y) \in SUBSET S
                      /\ IsFiniteSet(Newer(S, tick, y))
                      /\ Count(y) \in Nat
                      /\ Count(y) + 1 \in 1 .. n
    OBVIOUS
  <2>1. Newer(S, tick, y) \in SUBSET S
    BY DEF Newer
  <2>2. IsFiniteSet(Newer(S, tick, y))
    BY <2>1, FS_Subset DEF Ordered
  <2> QED BY <2>1, <2>2, FS_CardinalityType, NewerDiffer
<1>5. Ordered(T, later)
  <2> SUFFICES ASSUME NEW y \in T, NEW z \in T, later[y] = later[z] PROVE y = z
    BY <1>0, <1>1, <1>2 DEF Ordered, TicksDiffer
  <2>1. \A w \in S \ {x} : later[w] = tick[w] /\ later[w] # later[x]
    BY <1>1
  <2> QED BY <1>0, <2>1 DEF Ordered, TicksDiffer
<1>6. ASSUME NEW y \in S, NEW z \in S, tick[y] < tick[z]
      PROVE  Count(z) < Count(y)
  <2>1. Newer(S, tick, z) \in SUBSET Newer(S, tick, y)
    BY <1>1, <1>6 DEF Newer
  <2>2. z \in Newer(S, tick, y) /\ z \notin Newer(S, tick, z)
    BY <1>1, <1>6 DEF Newer
  <2>3. Count(z) <= Count(y) /\ (Count(y) = Count(z) => Newer(S, tick, y) = Newer(S, tick, z))
    BY <1>4, <2>1, FS_Subset
  <2> QED BY <1>4, <2>2, <2>3
<1>7. CountNow(x) = 0
  <2>1. Newer(T, later, x) = {}
    <3>1. \A y \in T : ~(later[y] > later[x])
      BY <1>0, <1>1
    <3> QED BY <3>1 DEF Newer
  <2> QED BY <2>1, FS_EmptySet
<1>8. ASSUME NEW y \in S, y # x, x \in S => tick[x] < tick[y]
      PROVE  CountNow(y) = Count(y) + 1 /\ Count(y) + 1 < place
  <2>1. Newer(T, later, y) = Newer(S, tick, y) \cup {x}
    <3>1. later[y] = tick[y] /\ tick[y] < now /\ later[x] = now /\ tick[y] \in Nat
      BY <1>1, <1>8
    <3>2. \A z \in S : z # x => later[z] = tick[z]
      BY <1>1
    <3>3. now > tick[y]
      BY <3>1
    <3>4. x \in S => ~(tick[x] > tick[y])
      BY <1>1, <1>8
    <3> QED BY <1>0, <3>1, <3>2, <3>3 DEF Newer
  <2>2. x \notin Newer(S, tick, y)
    BY <1>1, <1>8 DEF Newer
  <2>3. CountNow(y) = Count(y) + 1
    BY <1>4, <2>1, <2>2, FS_AddElement
  <2>4. CASE x \in S
    BY <1>4, <1>6, <1>8, <2>3, <2>4 DEF PlaceIn
  <2>5. CASE x \notin S
    BY <1>3, <1>4, <2>3, <2>5 DEF PlaceIn
  <2> QED BY <2>4, <2>5
<1>9. ASSUME NEW y \in S, y # x, x \in S, tick[y] < tick[x]
      PROVE  CountNow(y) = Count(y) /\ Count(y) + 1 > place
  <2>1. Newer(T, later, y) = Newer(S, tick, y)
    <3>1. later[y] = tick[y] /\ tick[y] < now /\ later[x] = now /\ tick[y] \in Nat
      BY <1>1, <1>9
    <3>2. \A z \in S : z # x => later[z] = tick[z]
      BY <1>1
    <3>3. now > tick[y] /\ tick[x] > tick[y]
      BY <1>1, <1>9, <3>1
    <3> QED BY <1>0, <1>9, <3>1, <3>2, <3>3 DEF Newer
  <2> QED BY <1>4, <1>6, <1>9, <2>1 DEF PlaceIn
<1>10. /\ DOMAIN NewestFirst(T, later) = 1 .. Cardinality(T)
       /\ \A i \in 1 .. Cardinality(T) : \A y \in T :
            NewestFirst(T, later)[i] = y <=> CountNow(y) = i - 1
  <2>1. DOMAIN NewestFirst(T, later) = 1 .. Cardinality(T)
    BY <1>5, NewestFirstIsOrder
  <2>2. ASSUME NEW i \in 1 .. Cardinality(T), NEW y \in T
        PROVE  NewestFirst(T, later)[i] = y <=> CountNow(y) = i - 1
    BY <1>5, PlaceByNewer
  <2> QED BY <2>1, <2>2
<1>11. place \in 1 .. Cardinality(T)
  BY <1>2, <1>3, <1>4 DEF PlaceIn
<1>12. ASSUME NEW y \in S, y # x
       PROVE  \/ x \in S => tick[x] < tick[y]
              \/ x \in S /\ tick[y] < tick[x]
  <2>1. x \in S => tick[x] # tick[y]
    BY <1>12 DEF Ordered, TicksDiffer
  <2> QED BY <1>1, <2>1
<1>13. ASSUME NEW i \in 1 .. Cardinality(T)
       PROVE  /\ NewestFirst(T, later)[i] =
                    IF i = 1 THEN x ELSE IF i <= place THEN NewestFirst(S, tick)[i - 1]
                    ELSE NewestFirst(S, tick)[i]
              /\ i # 1 => NewestFirst(T, later)[i] \in S \ {x}
  <2>1. i = 1 => NewestFirst(T, later)[i] = x
    <3>1. x \in T /\ CountNow(x) = 1 - 1
      BY <1>0, <1>7
    <3> QED BY <1>10, <3>1
  <2>2. x \in S => place = Count(x) + 1
    BY DEF PlaceIn
  <2>3. ASSUME i # 1, i <= place
        PROVE  /\ NewestFirst(T, later)[i] = NewestFirst(S, tick)[i - 1]
               /\ NewestFirst(T, later)[i] \in S \ {x}
    <3>1. i - 1 \in 1 .. n
      <4>1. place <= n + 1
        BY <1>3, <1>4 DEF PlaceIn
      <4> QED BY <1>2, <1>3, <1>11, <2>3, <4>1
    <3> DEFINE y == NewestFirst(S, tick)[i - 1]
    <3>2. y \in S /\ Count(y) = i - 2
      <4>1. y \in S
        BY <1>3, <3>1
      <4>2. Count(y) = (i - 1) - 1
        BY <1>3, <3>1, <4>1
      <4> QED BY <4>1, <4>2
    <3> HIDE DEF y
    <3>3. y # x
      BY <1>11, <2>2, <2>3, <3>2
    <3>4. CountNow(y) = Count(y) + 1
      <4>1. ~(Count(y) + 1 > place)
        BY <1>11, <2>3, <3>2
      <4> QED BY <1>8, <1>9, <1>12, <3>2, <3>3, <4>1
    <3>5. CountNow(y) = i - 1
      BY <3>2, <3>4
    <3> QED BY <1>0, <1>10, <3>2, <3>3, <3>5 DEF y
  <2>4. ASSUME i # 1, ~(i <= place)
        PROVE  /\ NewestFirst(T, later)[i] = NewestFirst(S, tick)[i]
               /\ NewestFirst(T, later)[i] \in S \ {x}
    <3>1. i \in 1 .. n /\ x \in S
      BY <1>2, <1>3, <1>11, <2>4 DEF PlaceIn
    <3> DEFINE y == NewestFirst(S, tick)[i]
    <3>2. y \in S /\ Count(y) = i - 1
      BY <1>3, <3>1
    <3> HIDE DEF y
    <3>3. y # x
      BY <1>11, <2>2, <2>4, <3>1, <3>2
    <3>4. CountNow(y) = Count(y)
      <4>1. ~(Count(y) + 1 < place)
        BY <1>11, <2>4, <3>2
      <4> QED BY <1>8, <1>9, <1>12, <3>2, <3>3, <4>1
    <3> QED BY <1>0, <1>10, <3>2, <3>3, <3>4 DEF y
  <2> QED BY <2>1, <2>3, <2>4
<1>14. ComesFirst(S, tick, x, T, later)
  <2>1. 1 \in 1 .. Cardinality(T)
    BY <1>2, <1>3, <1>11
  <2>2. ASSUME NEW i \in 2 .. Cardinality(T)
        PROVE  i \in 1 .. Cardinality(T) /\ i # 1
    OBVIOUS
  <2> HIDE DEF place
  <2>3. ASSUME NEW i \in 1 .. Cardinality(T), i = 1 PROVE NewestFirst(T, later)[i] = x
    BY <1>13, <2>3, Zenon
  <2>4. ASSUME NEW i \in 2 .. Cardinality(T)
        PROVE  /\ NewestFirst(T, later)[i] \in S \ {x}
               /\ NewestFirst(T, later)[i] = IF i <= place THEN NewestFirst(S, tick)[i - 1]
                                             ELSE NewestFirst(S, tick)[i]
    <3>1. i \in 1 .. Cardinality(T) /\ i # 1
      BY <2>2
    <3> QED BY <1>13, <3>1, Zenon
  <2> QED BY <1>10, <2>1, <2>3, <2>4 DEF ComesFirst, place
<1> QED BY <1>2, <1>5, <1>11, <1>14

\* Without the oldest thing the others stand where they stood; and the order
\* depends on the ticks of the things in it only.
Without(S, tick, x, T, later) == T = S \ {x} /\ \A y \in T : later[y] = tick[y]

LEMMA OldestIsLast ==
  ASSUME NEW S, NEW tick, Ordered(S, tick), NEW x \in S, \A y \in S : tick[x] <= tick[y],
         NEW T, NEW later, Without(S, tick, x, T, later)
  PROVE  /\ Ordered(T, later)
         /\ Cardinality(T) = Cardinality(S) - 1
         /\ DOMAIN NewestFirst(T, later) = 1 .. Cardinality(T)
         /\ \A i \in 1 .. Cardinality(T) : NewestFirst(T, later)[i] = NewestFirst(S, tick)[i]
<1>1. IsFiniteSet(T) /\ Cardinality(T) = Cardinality(S) - 1 /\ Cardinality(S) \in Nat
  BY FS_RemoveElement, FS_CardinalityType DEF Without, Ordered
<1>2. Ordered(T, later)
  BY <1>1 DEF Ordered, TicksDiffer, Without
<1>3. \A y \in T : Newer(T, later, y) = Newer(S, tick, y)
  <2> SUFFICES ASSUME NEW y \in T PROVE Newer(T, later, y) = Newer(S, tick, y)
    OBVIOUS
  <2>1. ~(tick[x] > tick[y])
    <3>1. tick[x] \in Nat /\ tick[y] \in Nat /\ tick[x] <= tick[y]
      BY DEF Without, Ordered
    <3> QED BY <3>1
  <2> QED BY <2>1 DEF Newer, Without
<1>4. DOMAIN NewestFirst(T, later) = 1 .. Cardinality(T)
  BY DEF NewestFirst
<1>5. ASSUME NEW i \in 1 .. Cardinality(T)
      PROVE  NewestFirst(T, later)[i] = NewestFirst(S, tick)[i]
  <2> DEFINE y == NewestFirst(T, later)[i]
  <2>1. y \in T /\ Cardinality(Newer(T, later, y)) = i - 1
    <3> HIDE DEF y
    <3>1. /\ NewestFirst(T, later)[i] \in T
          /\ Cardinality(Newer(T, later, NewestFirst(T, later)[i])) = i - 1
      BY <1>2, NewestFirstIsOrder
    <3> QED BY <3>1 DEF y
  <2> HIDE DEF y
  <2>2. y \in S /\ Cardinality(Newer(S, tick, y)) = i - 1
    BY <1>3, <2>1 DEF Without
  <2>3. PlaceIn(S, tick, y) = i
    BY <2>2 DEF PlaceIn
  <2>4. NewestFirst(S, tick)[i] = y
    BY <1>1, <2>2, <2>3, PlaceOfMember
  <2> QED BY <2>4 DEF y
<1> QED BY <1>1, <1>2, <1>4, <1>5
=============================================================================
