--------------------------- MODULE ICacheRecency ---------------------------
(***************************************************************************)
(* The LRU designs of ICache, stated without ticks: while the blocks of a  *)
(* run are single lines and nothing is prefetched, LRU is the abstract     *)
(* LruSets.                                                                *)
(***************************************************************************)
EXTENDS ICache, Recency

\* The tags in the ways of a set, and when each was last used.
TagsIn(ways) == {ways[i].tag : i \in DOMAIN ways}
UseIn(ways) ==
    [tag \in TagsIn(ways) |-> ways[CHOOSE i \in DOMAIN ways : ways[i].tag = tag].last_use]

\* The resident lines of a set, most recently touched first.
LinesByUse(set) ==
    LET byUse == NewestFirst(TagsIn(cache[set].ways), UseIn(cache[set].ways))
    IN  [i \in DOMAIN byUse |-> byUse[i] * Sets + set]

Exact == INSTANCE LruSets WITH
            Line <- UNION {Lines(id) : id \in BlockId},
            recency <- [s \in SetIndex |-> LinesByUse(s)],
            requests <- [i \in DOMAIN entry_sequence |->
                           [line |-> FirstLine(entry_sequence[i]), allocates |-> TRUE]],
            hits <- t["hits"]

\* Erasing a victim and appending the new line at the end keeps the exact LRU
\* order, which the ticks alone define (icache.cpp:88-91, 103-108, 123).  Every
\* step of such a run is a step of LruSets.
LruApplies == cfg.policy = "LRU" /\ ~cfg.prefetch
ImplementsLru ==
    /\ LruApplies => Exact!Init
    /\ [][LruApplies /\ AllSingle(entry_sequence') => Exact!Next]_vars
=============================================================================
