--------------------------- MODULE DCacheRecency ---------------------------
(***************************************************************************)
(* What the replacement policies of DCache promise about which lines stay  *)
(* resident, stated without their bookkeeping.                             *)
(***************************************************************************)
EXTENDS DCache, Recency

\* The ticks of a set, and its ways in use.
Ticks(set) == replacement[set].lru
UsedWays(set) == WayIndex \ FreeWays(set)

\* The resident lines of a set, most recently touched first.
LinesByTick(set) ==
    LET byTick == NewestFirst(UsedWays(set), Ticks(set))
    IN  [i \in DOMAIN byTick |-> LineAt(set, storage[set][byTick[i]].tag)]

Exact == INSTANCE LruSets WITH
            Line <- {LineOf(rec.addr) : rec \in Accesses},
            recency <- [s \in SetIndex |-> LinesByTick(s)],
            requests <- [i \in DOMAIN trace |->
                           [line |-> LineOf(trace[i].addr),
                            allocates |-> trace[i].kind = "Load" \/ cfg.write_allocate]],
            hits <- t["hits"]

\* With the tick policies the cache implements the exact LRU cache of LruSets:
\* it hits exactly when the list of recently used lines holds the line, and
\* keeps exactly the lines of the list (replacement.hpp:16, "LRU is exact").
\* Under the tree policy nothing is said.
ImplementsLru ==
    /\ UsesTicks(cfg.policy) => Exact!Init
    /\ [][UsesTicks(cfg.policy) => Exact!Next]_vars

\* The accesses to a set that left their line resident touched it.
Touches(set) ==
    {i \in DOMAIN trace :
        LET line == LineOf(trace[i].addr)
        IN  /\ IndexOf(line) = set
            /\ trace[i].kind = "Store" /\ ~cfg.write_allocate => line \in ResidentLines}

\* The lines of the last n touches of a set.
LastTouched(set, n) ==
    {LineOf(trace[i].addr) :
        i \in {j \in Touches(set) : Cardinality({k \in Touches(set) : k > j}) < n}}

\* How many of the last touches a policy shields from the next eviction: all
\* but one way for exact LRU, one per level of the tree for PLRU, whose touch
\* turns every node of the path away and whose every other touch turns at
\* most one of them back.
Levels == Cardinality(LeafToRoot(0)) - 1
Shielded == IF UsesTicks(cfg.policy) THEN Ways - 1 ELSE Levels

\* An access never evicts a line its policy shields (replacement.cpp:19-33).
KeepsRecentLines ==
    [][\A s \in SetIndex : LastTouched(s, Shielded) \cap ResidentLines \subseteq ResidentLines']_vars
=============================================================================
