----------------------------- MODULE Replacement -----------------------------
(***************************************************************************)
(* The recency bookkeeping of one cache set: class ReplacementState        *)
(* (src/component/dcache/replacement.cpp).  A value of the class is a      *)
(* record: lru holds the last-touch tick of every way, plru the tree bits  *)
(* of the pseudo-LRU policy (0 sends the eviction walk to the left child,  *)
(* 1 to the right one) and tick the number of touches.  LRU and NMRU use   *)
(* lru only, PLRU uses plru only, exactly as the constructor allocates     *)
(* them.  The module has no variables: a cache owns one value per set.     *)
(***************************************************************************)
EXTENDS Integers

CONSTANT Ways     \* entries per set

ASSUME WaysAssumption == Ways \in Nat \ {0}

WayIndex == 0 .. Ways - 1
TreeNode == 1 .. Ways - 1             \* plru_ indices in use
AnyNode  == 1 .. 2 * Ways - 1         \* inner nodes, then one leaf per way

Policy == {"LRU", "PLRU", "NMRU"}

\* PLRU splits the ways in halves down to single ways.
PowerOfTwo(n) == \E k \in 0 .. n : n = 2 ^ k

ReplacementState ==
    [lru : [WayIndex -> Nat], plru : [TreeNode -> {0, 1}], tick : Nat]

NewReplacement ==
    [lru |-> [w \in WayIndex |-> 0], plru |-> [n \in TreeNode |-> 0], tick |-> 0]

UsesTicks(policy) == policy \in {"LRU", "NMRU"}

\* Each node with every node above it.
Upwards[n \in AnyNode] == IF n = 1 THEN {1} ELSE {n} \cup Upwards[n \div 2]

LeafToRoot(way) == Upwards[Ways + way]

\* Mutant of TouchTree: the path points at the touched way.
TouchTreeTowards(bits, way) ==
    [n \in TreeNode |-> IF 2 * n \in LeafToRoot(way) THEN 0
                        ELSE IF 2 * n + 1 \in LeafToRoot(way) THEN 1
                        ELSE bits[n]]

\* On the path to the touched way every node points at the other child.
TouchTree(bits, way) ==
    [n \in TreeNode |-> IF 2 * n \in LeafToRoot(way) THEN 1
                        ELSE IF 2 * n + 1 \in LeafToRoot(way) THEN 0
                        ELSE bits[n]]

Touch(policy, r, way) ==
    IF UsesTicks(policy)
    THEN [r EXCEPT !.tick = @ + 1, !.lru = [@ EXCEPT ![way] = r.tick + 1]]
    ELSE [r EXCEPT !.tick = @ + 1, !.plru = TouchTree(@, way)]

\* Mutant of OldestWay: the comparison the wrong way round.
YoungestWay(lru) ==
    CHOOSE w \in WayIndex :
        \A v \in WayIndex : lru[w] > lru[v] \/ (lru[w] = lru[v] /\ w <= v)

\* The first way with the smallest tick.
OldestWay(lru) ==
    CHOOSE w \in WayIndex :
        \A v \in WayIndex : lru[w] < lru[v] \/ (lru[w] = lru[v] /\ w <= v)

\* The leaf below each node that the walk reaches by following the bits.
WalkFrom(bits) ==
    LET leaf[n \in AnyNode] == IF n >= Ways THEN n ELSE leaf[2 * n + bits[n]]
    IN  leaf

TreeVictim(bits) == WalkFrom(bits)[1] - Ways

Victim(policy, r) ==
    IF UsesTicks(policy) THEN OldestWay(r.lru) ELSE TreeVictim(r.plru)
=============================================================================
