------------------------------- MODULE ICache -------------------------------
(***************************************************************************)
(* The instruction cache designs: simulate_icache                          *)
(* (src/component/icache/icache.cpp).  The unit of a fetch is a basic      *)
(* block, which spans one or more lines; the profile of a run is the       *)
(* sequence of blocks entered.  Here the sequence is grown one             *)
(* nondeterministic entry at a time: a step is one iteration of the loop   *)
(* over entry_sequence.                                                    *)
(*                                                                         *)
(* A set is a list of at most Ways lines: evict_one erases the victim from *)
(* the list and refill appends, so the lines behind the victim move up one *)
(* way while the tree bits stay where they are.  The tree functions of     *)
(* icache.cpp:23-44 are those of Replacement.                              *)
(***************************************************************************)
EXTENDS Replacement, SequencesExt

CONSTANTS Sets,          \* 1 is a fully associative cache
          LineBytes, MissPenalty,
          Blocks,        \* per block id: entry_pc and instructions per execution
          Designs,       \* configurations to explore, a subset of Design
          MaxEntries     \* bound: block entries of a run

Design == [policy : {"LRU", "PLRU"}, prefetch : BOOLEAN]
BlockId == DOMAIN Blocks

ASSUME ICacheAssumption ==
    /\ Sets \in Nat \ {0}
    /\ LineBytes \in Nat \ {0}
    /\ MissPenalty \in Nat
    /\ MaxEntries \in Nat
    /\ Designs \subseteq Design
    /\ \A id \in BlockId : Blocks[id] \in [entry_pc : Nat, per_exec : Nat \ {0}]
    /\ (\E d \in Designs : d.policy = "PLRU") => PowerOfTwo(Ways)

VARIABLES cfg, entry_sequence,
          cache,        \* per set: its ways, first to last, and its tree bits
          block_seen,   \* blocks that have missed before
          t             \* the counters of ICacheResult

vars == <<cfg, entry_sequence, cache, block_seen, t>>

SetIndex == 0 .. Sets - 1
Set == [ways : Seq([tag : Nat, last_use : Nat]), plru : [TreeNode -> {0, 1}]]
Counters == {"entries", "hits", "misses", "compulsory_misses", "conflict_misses",
             "capacity_misses", "evictions", "prefetches"}

IndexOf(line) == line % Sets
TagOf(line) == line \div Sets

\* The lines a block spans.
FirstLine(id) == Blocks[id].entry_pc \div LineBytes
LastLine(id) == (Blocks[id].entry_pc + Blocks[id].per_exec * 4 - 1) \div LineBytes
Lines(id) == FirstLine(id) .. LastLine(id)

\* The first way of a set that holds a line; 0 if none does.
WayHolding(c, line) ==
    LET ways == c[IndexOf(line)].ways
    IN  SelectInSeq(ways, LAMBDA w : w.tag = TagOf(line))

Resident(c, line) == WayHolding(c, line) # 0

\* Mutant of TouchLine: a hit does not count as a use.
TouchForgets(c, line, tick) == c

\* Way i of the list is leaf i - 1 of the tree.
TouchLine(c, line, tick) ==
    LET i == WayHolding(c, line)
    IN  IF cfg.policy = "LRU"
        THEN [c EXCEPT ![IndexOf(line)].ways[i].last_use = tick]
        ELSE [c EXCEPT ![IndexOf(line)].plru = TouchTree(@, i - 1)]

\* Mutant of VictimOf: the youngest way goes.
YoungestOf(set) ==
    IF cfg.policy = "PLRU" THEN TreeVictim(set.plru) + 1
    ELSE CHOOSE i \in DOMAIN set.ways : \A j \in DOMAIN set.ways :
             \/ set.ways[i].last_use > set.ways[j].last_use
             \/ set.ways[i].last_use = set.ways[j].last_use /\ i >= j

\* evict_one's choice: the first oldest way, or the way the walk leads to.
VictimOf(set) ==
    IF cfg.policy = "PLRU" THEN TreeVictim(set.plru) + 1
    ELSE CHOOSE i \in DOMAIN set.ways : \A j \in DOMAIN set.ways :
             \/ set.ways[i].last_use < set.ways[j].last_use
             \/ set.ways[i].last_use = set.ways[j].last_use /\ i <= j

Evicted(set) == [set EXCEPT !.ways = RemoveAt(@, VictimOf(set))]

IsFull(set) == Len(set.ways) = Ways

\* Mutant of RefillLine: does not look whether the line is already resident.
RefillBlindly(s, line, tick) ==
    LET set == s.cache[IndexOf(line)]
        room == IF IsFull(set) THEN Evicted(set) ELSE set
        ways == Append(room.ways, [tag |-> TagOf(line), last_use |-> tick])
        plru == IF cfg.policy = "PLRU" THEN TouchTree(room.plru, Len(ways) - 1) ELSE room.plru
    IN  [cache |-> [s.cache EXCEPT ![IndexOf(line)] = [ways |-> ways, plru |-> plru]],
         evictions |-> IF IsFull(set) THEN s.evictions + 1 ELSE s.evictions]

\* refill: s is the cache and the evictions so far.
RefillLine(s, line, tick) ==
    LET set == s.cache[IndexOf(line)]
        room == IF IsFull(set) THEN Evicted(set) ELSE set
        ways == Append(room.ways, [tag |-> TagOf(line), last_use |-> tick])
        plru == IF cfg.policy = "PLRU" THEN TouchTree(room.plru, Len(ways) - 1) ELSE room.plru
    IN  IF Resident(s.cache, line) THEN s
        ELSE [cache |-> [s.cache EXCEPT ![IndexOf(line)] = [ways |-> ways, plru |-> plru]],
              evictions |-> IF IsFull(set) THEN s.evictions + 1 ELSE s.evictions]

\* Mutant of MissKind: a miss that finds free ways is taken for the first one.
MissKindByRoom(id) == IF \A line \in Lines(id) : ~IsFull(cache[IndexOf(line)])
                      THEN "compulsory_misses"
                      ELSE IF Sets > 1 THEN "conflict_misses"
                      ELSE "capacity_misses"

MissKind(id) == IF id \notin block_seen THEN "compulsory_misses"
                ELSE IF Sets > 1 THEN "conflict_misses"
                ELSE "capacity_misses"

-----------------------------------------------------------------------------
Init ==
    /\ cfg \in Designs
    /\ entry_sequence = <<>>
    /\ cache = [s \in SetIndex |-> [ways |-> <<>>, plru |-> [n \in TreeNode |-> 0]]]
    /\ block_seen = {}
    /\ t = [k \in Counters |-> 0]

\* The cache when the lines of a block have been touched, first to last.
Touched(id, tick) ==
    LET upto[line \in FirstLine(id) - 1 .. LastLine(id)] ==
            IF line < FirstLine(id) THEN cache ELSE TouchLine(upto[line - 1], line, tick)
    IN  upto[LastLine(id)]

\* The cache and the evictions when the missing lines have been refilled.
Refilled(id, tick) ==
    LET upto[line \in FirstLine(id) - 1 .. LastLine(id)] ==
            IF line < FirstLine(id) THEN [cache |-> cache, evictions |-> t["evictions"]]
            ELSE RefillLine(upto[line - 1], line, tick)
    IN  upto[LastLine(id)]

\* Every line of the block is resident; all are touched.
Hit(id) ==
    /\ \A line \in Lines(id) : Resident(cache, line)
    /\ cache' = Touched(id, t["entries"] + 1)
    /\ t' = [t EXCEPT !["entries"] = @ + 1, !["hits"] = @ + 1]
    /\ UNCHANGED block_seen

\* The missing lines are refilled, and the next line is prefetched.
Miss(id) ==
    LET tick == t["entries"] + 1
        next == LastLine(id) + 1
        fetched == Refilled(id, tick)
        prefetches == cfg.prefetch /\ ~Resident(fetched.cache, next)
        done == IF cfg.prefetch THEN RefillLine(fetched, next, tick) ELSE fetched
    IN  /\ \E line \in Lines(id) : ~Resident(cache, line)
        /\ cache' = done.cache
        /\ block_seen' = block_seen \cup {id}
        /\ t' = [t EXCEPT !["entries"] = @ + 1, !["misses"] = @ + 1, ![MissKind(id)] = @ + 1,
                          !["evictions"] = done.evictions,
                          !["prefetches"] = IF prefetches THEN @ + 1 ELSE @]

Enter(id) ==
    /\ Len(entry_sequence) < MaxEntries
    /\ Hit(id) \/ Miss(id)
    /\ entry_sequence' = Append(entry_sequence, id)
    /\ cfg' = cfg

Next == \E id \in BlockId : Enter(id)

Spec == Init /\ [][Next]_vars

\* The cycles of the run, and of a run in which every entry misses.
Instructions == FoldLeft(LAMBDA n, id : n + Blocks[id].per_exec, 0, entry_sequence)
TotalCycles == Instructions + t["misses"] * MissPenalty
BaselineCycles == Instructions + t["entries"] * MissPenalty

-----------------------------------------------------------------------------
(* Correctness.                                                            *)

\* SetsSound: every variable keeps its type, no set ever holds more than its
\* ways, so the tree bits of a way always exist (icache.cpp:119-126), and a line
\* is held at most once, however refills, prefetches and the lines of overlapping
\* blocks interleave (icache.cpp:113-118, 165-167).
TypeOK ==
    /\ cfg \in Design
    /\ entry_sequence \in Seq(BlockId)
    /\ cache \in [SetIndex -> Set]
    /\ \A s \in SetIndex : Len(cache[s].ways) <= Ways
    /\ block_seen \subseteq BlockId
    /\ t \in [Counters -> Nat]
NoDuplicateLines ==
    \A s \in SetIndex : IsInjective([i \in DOMAIN cache[s].ways |-> cache[s].ways[i].tag])
SetsSound == TypeOK /\ NoDuplicateLines

\* The lines an entry may bring, and the entries that ask for a line no earlier
\* entry brought: they are first entries of their blocks, and misses.
Brings(id) == FirstLine(id) .. LastLine(id) + (IF cfg.prefetch THEN 1 ELSE 0)
ColdEntries ==
    {k \in DOMAIN entry_sequence : \E line \in Lines(entry_sequence[k]) :
        \A j \in 1 .. k - 1 : line \notin Brings(entry_sequence[j])}

\* Every entry hits or misses and every miss has one class.  A miss is compulsory
\* if a block is entered for a line that was never there, and no block misses
\* compulsorily twice, however often its lines are evicted; the others are
\* conflicts, or for lack of capacity if there is one set (icache.cpp:148-162,
\* icache.hpp:34-37).  Which class a re-entry miss has when the first entry of the
\* block found its lines brought by another one is left open: the code counts
\* the first miss of a block as compulsory, the header its first entry.
MissesClassified ==
    /\ t["entries"] = Len(entry_sequence)
    /\ t["entries"] = t["hits"] + t["misses"]
    /\ t["misses"] = t["compulsory_misses"] + t["conflict_misses"] + t["capacity_misses"]
    /\ t[IF Sets > 1 THEN "capacity_misses" ELSE "conflict_misses"] = 0
    /\ Cardinality(ColdEntries) <= t["compulsory_misses"]
    /\ t["compulsory_misses"] <= Cardinality(ToSet(entry_sequence))

Single(id) == FirstLine(id) = LastLine(id)

AllSingle(entries) == \A id \in ToSet(entries) : Single(id)

\* The blocks whose lines fit their sets.
Fits(id) ==
    \A s \in SetIndex : Cardinality({l \in Lines(id) : IndexOf(l) = s}) <= Ways

\* The run ends in n entries of the same block.
EndsInLoop(n) ==
    LET len == Len(entry_sequence)
    IN  len >= n /\ \A i \in len - n + 1 .. len : entry_sequence[i] = entry_sequence[len]

\* A block that fits may evict lines of its own while it is refilled, but under
\* LRU a loop on it settles: entered as often in a row as a set has ways it is
\* resident (icache.cpp:83-97, 99-128, 164-166).  The tree keeps no such promise:
\* with four ways its victim may be a line of the block for ever.
LoopSettles ==
    cfg.policy = "LRU" /\ ~cfg.prefetch /\ EndsInLoop(Ways) /\ Fits(Last(entry_sequence)) =>
        \A line \in Lines(Last(entry_sequence)) : Resident(cache, line)

-----------------------------------------------------------------------------
(* What the documentation says.                                            *)

\* The lines of the last n entries to a set, when blocks are single lines.
LastTouched(set, n) ==
    LET touches == SelectSeq(entry_sequence, LAMBDA id : IndexOf(FirstLine(id)) = set)
    IN  {FirstLine(touches[i]) : i \in {j \in DOMAIN touches : j > Len(touches) - n}}

\* icache.cpp:20-22, pseudo_lru.hpp:7-9: "tree-based pseudo-LRU" replacement,
\* whose tree shields one recently touched line per level.
TreeShieldsRecentLines ==
    [][\A s \in SetIndex : \A k \in 0 .. Ways : 2 ^ k = Ways =>
          \A line \in LastTouched(s, k) : Resident(cache, line) => Resident(cache', line)]_vars
=============================================================================
