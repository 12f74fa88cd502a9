---------------------------- MODULE ICacheProofs ----------------------------
(***************************************************************************)
(* Theorems about ICache, for every geometry, policy, prefetching or not,  *)
(* and every set of blocks, however they overlap.  A block entry touches   *)
(* or refills any number of lines in one step, so the proofs follow the    *)
(* loop over the lines of a block.                                         *)
(***************************************************************************)
EXTENDS ICacheRecency, ReplacementProofs

-----------------------------------------------------------------------------
(* Loops from first to last over numbers, as recursive functions.          *)

\* A property of the start that every iteration keeps holds throughout.
LEMMA KeptThroughout ==
  ASSUME NEW first \in Nat, NEW last \in Nat, NEW S, NEW g, g[first - 1] \in S,
         \A n \in first .. last : g[n - 1] \in S => g[n] \in S
  PROVE  \A n \in first - 1 .. last : g[n] \in S
<1> DEFINE Lost == {n \in 0 .. last + 1 : n - 1 \in first - 1 .. last /\ g[n - 1] \notin S}
<1>1. SUFFICES ASSUME Lost # {} PROVE FALSE
  <2> SUFFICES ASSUME NEW n \in first - 1 .. last, g[n] \notin S PROVE FALSE
    OBVIOUS
  <2>1. n + 1 \in 0 .. last + 1 /\ (n + 1) - 1 = n
    OBVIOUS
  <2>2. n + 1 \in Lost
    BY <2>1
  <2> QED BY <1>1, <2>2
<1>2. PICK m \in Lost : \A k \in Lost : m <= k
  <2>1. Lost \in SUBSET Nat
    OBVIOUS
  <2> HIDE DEF Lost
  <2> QED BY <1>1, <2>1, LeastElement
<1>3. m \in Nat /\ m - 1 \in first - 1 .. last /\ g[m - 1] \notin S
  BY <1>2
<1>4. m - 1 # first - 1
  BY <1>3
<1>5. m - 1 \in first .. last
  BY <1>3, <1>4
<1>6. m - 1 \notin Lost
  <2>1. ~(m <= m - 1)
    BY <1>3
  <2> HIDE DEF Lost
  <2> QED BY <1>2, <2>1
<1>7. m - 1 \in 0 .. last + 1 /\ (m - 1) - 1 \in first - 1 .. last
  BY <1>5
<1>8. g[(m - 1) - 1] \in S
  BY <1>6, <1>7
<1> QED BY <1>3, <1>5, <1>8

\* A loop whose body maps S to S runs to its end; g[n] is what it has after n.
IsBody(body, first, last, S) == \A n \in first .. last : body[n] \in [S -> S]
IsLoop(g, first, last, S, start, body) ==
    /\ g \in [first - 1 .. last -> S]
    /\ g[first - 1] = start
    /\ \A n \in first .. last : g[n] = body[n][g[n - 1]]

LEMMA LoopRuns ==
  ASSUME NEW first \in Nat, NEW last \in Nat, first <= last, NEW S, NEW start \in S,
         NEW body, IsBody(body, first, last, S)
  PROVE  \E g : IsLoop(g, first, last, S, start, body)
<1> DEFINE Runs(m) == \E g \in [first - 1 .. m -> S] :
               g[first - 1] = start /\ \A n \in first .. m : g[n] = body[n][g[n - 1]]
           Stuck == {m \in first .. last + 1 : ~Runs(m - 1)}
<1>1. Runs(last)
  <2>1. SUFFICES ASSUME Stuck # {} PROVE FALSE
    <3>1. last + 1 \in first .. last + 1 /\ (last + 1) - 1 = last
      OBVIOUS
    <3>2. last + 1 \notin Stuck
      BY <2>1
    <3>3. Runs((last + 1) - 1)
      <4> HIDE DEF Runs
      <4> QED BY <3>1, <3>2
    <3> HIDE DEF Runs
    <3> QED BY <3>1, <3>3
  <2>2. PICK m \in Stuck : \A k \in Stuck : m <= k
    <3>1. Stuck \in SUBSET Nat
      OBVIOUS
    <3> HIDE DEF Stuck
    <3> QED BY <2>1, <3>1, LeastElement
  <2>3. m \in first .. last + 1 /\ ~Runs(m - 1)
    <3> HIDE DEF Runs
    <3> QED BY <2>2
  <2>4. ~(m <= m - 1)
    BY <2>3
  <2>5. m - 1 \notin Stuck
    <3> HIDE DEF Stuck
    <3> QED BY <2>2, <2>4
  <2>6. CASE m - 1 < first
    <3> DEFINE g == [n \in first - 1 .. m - 1 |-> start]
    <3>1. /\ g \in [first - 1 .. m - 1 -> S]
          /\ \A n \in first .. m - 1 : g[n] = body[n][g[n - 1]]
      BY <2>3, <2>6
    <3>2. g[first - 1] = start
      BY <2>3, <2>6
    <3> HIDE DEF g
    <3> QED BY <2>3, <3>1, <3>2
  <2>7. CASE m - 1 >= first
    <3>1. m - 1 \in first .. last + 1 /\ m - 1 \in first .. last
      BY <2>3, <2>7
    <3>2. Runs((m - 1) - 1)
      <4> HIDE DEF Runs
      <4> QED BY <2>5, <3>1
    <3>3. PICK g \in [first - 1 .. (m - 1) - 1 -> S] :
              g[first - 1] = start /\ \A n \in first .. (m - 1) - 1 : g[n] = body[n][g[n - 1]]
      BY <3>2
    <3> DEFINE h == [n \in first - 1 .. m - 1 |->
                        IF n = m - 1 THEN body[m - 1][g[(m - 1) - 1]] ELSE g[n]]
    <3>4. (m - 1) - 1 \in first - 1 .. (m - 1) - 1
      BY <3>1
    <3>5. body[m - 1][g[(m - 1) - 1]] \in S
      BY <3>1, <3>3, <3>4 DEF IsBody
    <3>6. h \in [first - 1 .. m - 1 -> S] /\ h[first - 1] = start
      BY <3>1, <3>3, <3>5
    <3>7. ASSUME NEW n \in first .. m - 1 PROVE h[n] = body[n][h[n - 1]]
      <4>1. n - 1 \in first - 1 .. m - 1 /\ n - 1 # m - 1 /\ h[n - 1] = g[n - 1]
        BY <3>1
      <4>2. CASE n = m - 1
        BY <4>1, <4>2
      <4>3. CASE n # m - 1
        <5>1. n \in first .. (m - 1) - 1
          BY <3>1, <4>3
        <5> QED BY <3>3, <4>1, <4>3, <5>1
      <4> QED BY <4>2, <4>3
    <3> HIDE DEF h
    <3> QED BY <2>3, <3>6, <3>7
  <2> QED BY <2>3, <2>6, <2>7
<1> QED BY <1>1 DEF IsLoop

-----------------------------------------------------------------------------
(* Lines and sets.                                                         *)

Way == [tag : Nat, last_use : Nat]
DistinctTags(ways) == \A i, j \in DOMAIN ways : ways[i].tag = ways[j].tag => i = j
SoundSet(set) == set \in Set /\ Len(set.ways) <= Ways /\ DistinctTags(set.ways)
SoundCaches == {c \in [SetIndex -> Set] : \A s \in SetIndex : SoundSet(c[s])}

LEMMA LineType ==
  ASSUME NEW line \in Nat
  PROVE  IndexOf(line) \in SetIndex /\ TagOf(line) \in Nat
BY ICacheAssumption DEF IndexOf, TagOf, SetIndex

LEMMA ProductIsNat ==
  ASSUME NEW a \in Nat, NEW b \in Nat, NEW c \in Nat
  PROVE  a * b + c \in Nat
OBVIOUS

LEMMA QuotientsGrow ==
  ASSUME NEW P \in Nat \ {0}, NEW a \in Nat, NEW b \in Nat, a <= b
  PROVE  a \div P \in Nat /\ b \div P \in Nat /\ a \div P <= b \div P
<1> DEFINE i == a \div P
           j == b \div P
<1>1. /\ i \in Nat /\ j \in Nat
      /\ a = i * P + (a % P) /\ b = j * P + (b % P)
      /\ a % P \in 0 .. P - 1 /\ b % P \in 0 .. P - 1
  OBVIOUS
<1> HIDE DEF i, j
<1>2. i <= j
  <2> SUFFICES ASSUME i >= j + 1 PROVE FALSE
    BY <1>1
  <2>1. i * P >= (j + 1) * P
    BY <1>1
  <2>2. (j + 1) * P = j * P + P
    BY <1>1
  <2> QED BY <1>1, <2>1, <2>2
<1> QED BY <1>1, <1>2 DEF i, j

LEMMA SpanType ==
  ASSUME NEW id \in BlockId
  PROVE  FirstLine(id) \in Nat /\ LastLine(id) \in Nat /\ FirstLine(id) <= LastLine(id)
<1> DEFINE a == Blocks[id].entry_pc
           b == Blocks[id].entry_pc + Blocks[id].per_exec * 4 - 1
<1>1. a \in Nat /\ b \in Nat /\ a <= b /\ LineBytes \in Nat \ {0}
  BY ICacheAssumption
<1>2. FirstLine(id) = a \div LineBytes /\ LastLine(id) = b \div LineBytes
  BY DEF FirstLine, LastLine
<1> HIDE DEF a, b
<1> QED BY <1>1, <1>2, QuotientsGrow

\* The way that holds a line, or 0 when none does.
LEMMA WayHoldingEffect ==
  ASSUME NEW c \in SoundCaches, NEW line \in Nat
  PROVE  LET ways == c[IndexOf(line)].ways
             k == WayHolding(c, line)
         IN  \/ k \in DOMAIN ways /\ ways[k].tag = TagOf(line)
             \/ k = 0 /\ \A i \in DOMAIN ways : ways[i].tag # TagOf(line)
<1> DEFINE ways == c[IndexOf(line)].ways
           I == {i \in 1 .. Len(ways) : ways[i].tag = TagOf(line)}
<1>1. WayHolding(c, line) = IF I # {} THEN Min(I) ELSE 0
  BY DEF WayHolding, SelectInSeq
<1>2. DOMAIN ways = 1 .. Len(ways)
  BY LineType DEF SoundCaches, SoundSet, Set
<1> HIDE DEF ways
<1>3. CASE I = {}
  BY <1>1, <1>2, <1>3 DEF ways
<1>4. CASE I # {}
  <2>1. I \in SUBSET Nat
    OBVIOUS
  <2>2. Min(I) \in I
    <3> HIDE DEF I
    <3>1. \E m \in I : \A n \in I : m <= n
      BY <1>4, <2>1, LeastElement
    <3> QED BY <3>1 DEF Min
  <2> QED BY <1>1, <1>2, <1>4, <2>2 DEF ways
<1> QED BY <1>3, <1>4

LEMMA TreeKeepsType ==
  ASSUME NEW bits \in [TreeNode -> {0, 1}], NEW way
  PROVE  TouchTree(bits, way) \in [TreeNode -> {0, 1}]
BY DEF TouchTree

LEMMA SetFields ==
  ASSUME NEW set, SoundSet(set)
  PROVE  /\ set.ways \in Seq(Way) /\ set.plru \in [TreeNode -> {0, 1}]
         /\ Len(set.ways) \in Nat /\ Len(set.ways) <= Ways /\ Ways \in Nat \ {0}
         /\ set = [ways |-> set.ways, plru |-> set.plru]
         /\ DistinctTags(set.ways)
BY WaysAssumption DEF SoundSet, Set, Way

LEMMA SetOfFields ==
  ASSUME NEW ways \in Seq(Way), NEW plru \in [TreeNode -> {0, 1}], Len(ways) <= Ways,
         DistinctTags(ways)
  PROVE  SoundSet([ways |-> ways, plru |-> plru])
BY DEF SoundSet, Set, Way

LEMMA CacheWithSet ==
  ASSUME NEW c \in SoundCaches, NEW s \in SetIndex, NEW set, SoundSet(set)
  PROVE  [c EXCEPT ![s] = set] \in SoundCaches
BY DEF SoundCaches, SoundSet

\* touch: the recency of the line changes, the lines do not.
LEMMA TouchLineSound ==
  ASSUME NEW c \in SoundCaches, NEW line \in Nat, NEW tick \in Nat
  PROVE  TouchLine(c, line, tick) \in SoundCaches
<1> DEFINE s == IndexOf(line)
           i == WayHolding(c, line)
           ways == c[s].ways
           touched == [ways EXCEPT ![i].last_use = tick]
           set == IF cfg.policy = "LRU" THEN [c[s] EXCEPT !.ways = touched]
                  ELSE [c[s] EXCEPT !.plru = TouchTree(@, i - 1)]
<1>1. s \in SetIndex /\ SoundSet(c[s])
  BY LineType DEF SoundCaches
<1>2. TouchLine(c, line, tick) = [c EXCEPT ![s] = set]
  BY DEF TouchLine
<1>3. /\ ways \in Seq(Way) /\ c[s].plru \in [TreeNode -> {0, 1}] /\ Len(ways) <= Ways
      /\ c[s] = [ways |-> ways, plru |-> c[s].plru] /\ DistinctTags(ways)
  BY <1>1, SetFields
<1> HIDE DEF i, s, ways
<1>4. touched \in Seq(Way) /\ Len(touched) = Len(ways) /\ DistinctTags(touched)
  <2>1. \A k \in DOMAIN ways : ways[k] \in Way
    BY <1>3
  <2>2. /\ \A k \in DOMAIN ways : touched[k] \in Way /\ touched[k].tag = ways[k].tag
        /\ touched = [k \in DOMAIN ways |-> touched[k]]
    BY <2>1 DEF Way
  <2>3. DOMAIN ways = 1 .. Len(ways) /\ Len(ways) \in Nat
    BY <1>3
  <2>4. touched \in Seq(Way) /\ Len(touched) = Len(ways)
    <3> HIDE DEF touched
    <3> QED BY <2>2, <2>3
  <2> HIDE DEF touched
  <2> QED BY <1>3, <2>2, <2>3, <2>4 DEF DistinctTags
<1> HIDE DEF touched
<1>5. SoundSet(set)
  <2>1. CASE cfg.policy = "LRU"
    <3>1. set = [ways |-> touched, plru |-> c[s].plru]
      BY <1>3, <2>1
    <3> QED BY <1>3, <1>4, <3>1, SetOfFields
  <2>2. CASE cfg.policy # "LRU"
    <3>1. set = [ways |-> ways, plru |-> TouchTree(c[s].plru, i - 1)]
      BY <1>3, <2>2
    <3> QED BY <1>3, <3>1, SetOfFields, TreeKeepsType
  <2> QED BY <2>1, <2>2
<1> HIDE DEF set
<1> QED BY <1>1, <1>2, <1>5, CacheWithSet

\* A set with a way in it has a first oldest one.
LEMMA OldestExists ==
  ASSUME NEW ways, NEW D, NEW n \in Nat \ {0}, D = 1 .. n,
         \A i \in D : ways[i].last_use \in Nat
  PROVE  \E i \in D : \A j \in D : \/ ways[i].last_use < ways[j].last_use
                                   \/ ways[i].last_use = ways[j].last_use /\ i <= j
<1> DEFINE Ticks == {ways[i].last_use : i \in D}
<1>1. PICK m \in Ticks : \A k \in Ticks : m <= k
  <2>1. Ticks \in SUBSET Nat /\ Ticks # {}
    OBVIOUS
  <2> HIDE DEF Ticks
  <2> QED BY <2>1, LeastElement
<1> DEFINE First == {i \in D : ways[i].last_use = m}
<1>2. PICK i \in First : \A j \in First : i <= j
  <2>1. First \in SUBSET Nat /\ First # {}
    BY <1>1
  <2> HIDE DEF First
  <2> QED BY <2>1, LeastElement
<1>3. ASSUME NEW j \in D
      PROVE  \/ ways[i].last_use < ways[j].last_use
             \/ ways[i].last_use = ways[j].last_use /\ i <= j
  <2>1. ways[i].last_use = m /\ m <= ways[j].last_use /\ ways[j].last_use \in Nat /\ m \in Nat
    BY <1>1, <1>2
  <2>2. ways[j].last_use = m => i <= j
    BY <1>2
  <2> QED BY <2>1, <2>2
<1> QED BY <1>2, <1>3

\* evict_one finds a way of a full set, whatever the ticks or the tree say.
LEMMA VictimIsHeld ==
  ASSUME NEW set, SoundSet(set), IsFull(set)
  PROVE  VictimOf(set) \in DOMAIN set.ways
<1> DEFINE ways == set.ways
           D == DOMAIN ways
<1>1. ways \in Seq(Way) /\ Len(ways) = Ways /\ Ways \in Nat \ {0}
  BY SetFields DEF IsFull
<1>2. D = 1 .. Ways
  BY <1>1
<1>3. CASE cfg.policy = "PLRU"
  <2>1. TreeVictim(set.plru) \in WayIndex
    BY SetFields, TreeVictimIsAWay
  <2>2. VictimOf(set) = TreeVictim(set.plru) + 1
    BY <1>3 DEF VictimOf
  <2> QED BY <1>1, <1>2, <2>1, <2>2 DEF WayIndex
<1>4. CASE cfg.policy # "PLRU"
  <2> DEFINE Oldest(i) == \A j \in D : \/ ways[i].last_use < ways[j].last_use
                                       \/ ways[i].last_use = ways[j].last_use /\ i <= j
  <2>1. VictimOf(set) = CHOOSE i \in D : Oldest(i)
    BY <1>4 DEF VictimOf
  <2>2. \A i \in D : ways[i].last_use \in Nat
    <3>1. \A i \in D : ways[i] \in Way
      <4> HIDE DEF ways
      <4> QED BY <1>1
    <3> HIDE DEF ways, D
    <3> QED BY <3>1 DEF Way
  <2> HIDE DEF ways, D
  <2>3. \E i \in D : Oldest(i)
    BY <1>1, <1>2, <2>2, OldestExists
  <2> HIDE DEF Oldest
  <2>4. (CHOOSE k \in D : Oldest(k)) \in D
    BY <2>3
  <2> QED BY <2>1, <2>4 DEF D, ways
<1> QED BY <1>3, <1>4

\* erase: one way fewer, and the others as they were.
LEMMA EvictedSound ==
  ASSUME NEW set, SoundSet(set), IsFull(set)
  PROVE  /\ SoundSet(Evicted(set))
         /\ Len(Evicted(set).ways) = Ways - 1
         /\ \A i \in DOMAIN Evicted(set).ways :
                \E j \in DOMAIN set.ways : Evicted(set).ways[i] = set.ways[j]
         /\ \A i \in 1 .. Ways - 1 :
                Evicted(set).ways[i] = set.ways[IF i < VictimOf(set) THEN i ELSE i + 1]
<1> DEFINE ways == set.ways
           v == VictimOf(set)
           left == RemoveAt(ways, v)
<1>1. /\ ways \in Seq(Way) /\ set.plru \in [TreeNode -> {0, 1}] /\ DistinctTags(ways)
      /\ set = [ways |-> ways, plru |-> set.plru]
      /\ Len(ways) = Ways /\ Ways \in Nat \ {0}
  BY SetFields DEF IsFull
<1>2. v \in 1 .. Ways
  <2>1. v \in DOMAIN ways
    BY VictimIsHeld
  <2> QED BY <1>1, <2>1
<1>3. Evicted(set) = [ways |-> left, plru |-> set.plru]
  BY <1>1 DEF Evicted
<1> HIDE DEF ways, v
<1> DEFINE low == SubSeq(ways, 1, v - 1)
           high == SubSeq(ways, v + 1, Len(ways))
<1>4. /\ low \in Seq(Way) /\ Len(low) = v - 1 /\ \A i \in 1 .. v - 1 : low[i] = ways[i]
      /\ high \in Seq(Way) /\ Len(high) = Ways - v
      /\ \A i \in 1 .. Ways - v : high[i] = ways[i + v]
  <2>1. \A i \in 1 .. Ways - v : i + (v + 1) - 1 = i + v
    BY <1>1, <1>2
  <2> QED BY <1>1, <1>2, <2>1
<1>5. left = low \o high
  BY DEF RemoveAt
<1> HIDE DEF low, high, left
<1>6. /\ left \in Seq(Way) /\ Len(left) = Ways - 1
      /\ \A i \in 1 .. Ways - 1 : left[i] = ways[IF i < v THEN i ELSE i + 1]
  <2>1. left \in Seq(Way) /\ Len(left) = Ways - 1
    <3>1. low \in Seq(Way) /\ high \in Seq(Way)
      BY <1>4
    <3>2. left \in Seq(Way) /\ Len(left) = Len(low) + Len(high)
      BY <1>5, <3>1
    <3> QED BY <1>1, <1>2, <1>4, <3>2
  <2>2. ASSUME NEW i \in 1 .. Ways - 1 PROVE left[i] = ways[IF i < v THEN i ELSE i + 1]
    <3>1. CASE i < v
      BY <1>1, <1>2, <1>4, <1>5, <3>1
    <3>2. CASE i >= v
      <4>1. left[i] = high[i - (v - 1)] /\ i - (v - 1) \in 1 .. Ways - v
        BY <1>1, <1>2, <1>4, <1>5, <3>2
      <4>2. (i - (v - 1)) + v = i + 1
        BY <1>2
      <4> QED BY <1>2, <1>4, <3>2, <4>1, <4>2
    <3> QED BY <1>1, <1>2, <3>1, <3>2
  <2> QED BY <2>1, <2>2
<1>7. /\ DOMAIN left = 1 .. Ways - 1 /\ DOMAIN ways = 1 .. Ways
      /\ \A i \in 1 .. Ways - 1 : (IF i < v THEN i ELSE i + 1) \in 1 .. Ways
  BY <1>1, <1>2, <1>6
<1>8. DistinctTags(left)
  <2> SUFFICES ASSUME NEW i \in 1 .. Ways - 1, NEW j \in 1 .. Ways - 1, left[i].tag = left[j].tag
               PROVE  i = j
    BY <1>7 DEF DistinctTags
  <2>1. (IF i < v THEN i ELSE i + 1) = (IF j < v THEN j ELSE j + 1)
    BY <1>1, <1>6, <1>7 DEF DistinctTags
  <2> QED BY <1>1, <1>2, <2>1
<1>9. Len(left) <= Ways
  BY <1>1, <1>6
<1> QED BY <1>1, <1>3, <1>6, <1>7, <1>8, <1>9, SetOfFields DEF ways, v

\* refill: a line that is not resident is appended where there is room.
FillState == [cache : SoundCaches, evictions : Nat]

LEMMA RefillLineSound ==
  ASSUME NEW s \in FillState, NEW line \in Nat, NEW tick \in Nat
  PROVE  RefillLine(s, line, tick) \in FillState
<1> DEFINE i == IndexOf(line)
           tag == TagOf(line)
           set == s.cache[i]
           room == IF IsFull(set) THEN Evicted(set) ELSE set
           new == [tag |-> tag, last_use |-> tick]
           ways == Append(room.ways, new)
           plru == IF cfg.policy = "PLRU" THEN TouchTree(room.plru, Len(ways) - 1) ELSE room.plru
           after == [ways |-> ways, plru |-> plru]
           evictions == IF IsFull(set) THEN s.evictions + 1 ELSE s.evictions
<1>1. /\ s.cache \in SoundCaches /\ s.evictions \in Nat /\ i \in SetIndex /\ tag \in Nat
      /\ SoundSet(set)
  BY LineType DEF FillState, SoundCaches
<1>2. RefillLine(s, line, tick)
        = IF Resident(s.cache, line) THEN s
          ELSE [cache |-> [s.cache EXCEPT ![i] = after], evictions |-> evictions]
  BY DEF RefillLine
<1>3. ASSUME ~Resident(s.cache, line) PROVE SoundSet(after)
  <2>1. \A k \in DOMAIN set.ways : set.ways[k].tag # tag
    <3>1. WayHolding(s.cache, line) = 0
      BY <1>3 DEF Resident
    <3>2. set.ways \in Seq(Way)
      BY <1>1, SetFields
    <3>3. 0 \notin DOMAIN set.ways
      BY <3>2
    <3> QED BY <1>1, <3>1, <3>3, WayHoldingEffect
  <2>2. /\ SoundSet(room) /\ Len(room.ways) + 1 <= Ways
        /\ \A k \in DOMAIN room.ways : room.ways[k].tag # tag
    <3>1. CASE IsFull(set)
      <4>1. /\ SoundSet(Evicted(set)) /\ Len(Evicted(set).ways) = Ways - 1
            /\ \A k \in DOMAIN Evicted(set).ways :
                   \E j \in DOMAIN set.ways : Evicted(set).ways[k] = set.ways[j]
        BY <1>1, <3>1, EvictedSound
      <4> HIDE DEF set
      <4> QED BY <2>1, <3>1, <4>1, WaysAssumption
    <3>2. CASE ~IsFull(set)
      <4>1. Len(set.ways) \in Nat /\ Len(set.ways) <= Ways /\ Len(set.ways) # Ways
        BY <1>1, <3>2, SetFields DEF IsFull
      <4> HIDE DEF set
      <4> QED BY <1>1, <2>1, <3>2, <4>1, WaysAssumption
    <3> QED BY <3>1, <3>2
  <2> HIDE DEF room, set, i, tag
  <2>3. /\ room.ways \in Seq(Way) /\ room.plru \in [TreeNode -> {0, 1}]
        /\ DistinctTags(room.ways)
    BY <2>2, SetFields
  <2>4. new \in Way
    BY <1>1 DEF Way
  <2>5. new.tag = tag
    OBVIOUS
  <2> HIDE DEF new
  <2>6. /\ ways \in Seq(Way) /\ Len(ways) = Len(room.ways) + 1
        /\ \A k \in DOMAIN room.ways : ways[k] = room.ways[k]
        /\ ways[Len(room.ways) + 1] = new
        /\ DOMAIN ways = DOMAIN room.ways \cup {Len(room.ways) + 1}
    BY <2>3, <2>4
  <2> HIDE DEF ways
  <2>7. DistinctTags(ways)
    BY <2>2, <2>3, <2>5, <2>6 DEF DistinctTags
  <2>8. plru \in [TreeNode -> {0, 1}]
    BY <2>3, TreeKeepsType
  <2> HIDE DEF plru
  <2>9. Len(ways) <= Ways
    BY <2>2, <2>6
  <2> QED BY <2>6, <2>7, <2>8, <2>9, SetOfFields
<1>4. evictions \in Nat
  BY <1>1
<1> HIDE DEF after, evictions, i
<1>5. ~Resident(s.cache, line) => [s.cache EXCEPT ![i] = after] \in SoundCaches
  BY <1>1, <1>3, CacheWithSet
<1> QED BY <1>2, <1>4, <1>5 DEF FillState

-----------------------------------------------------------------------------
(* The loops over the lines of a block.                                    *)

\* g[n] is the cache, or the cache and the evictions, when the lines of a block
\* up to line n are done.
TouchesLines(g, id, tick) ==
    /\ g[FirstLine(id) - 1] = cache
    /\ \A n \in Lines(id) : g[n - 1] \in SoundCaches /\ g[n] = TouchLine(g[n - 1], n, tick)
    /\ g[LastLine(id)] \in SoundCaches
    /\ Touched(id, tick) = g[LastLine(id)]
RefillsLines(g, id, tick) ==
    /\ g[FirstLine(id) - 1] = [cache |-> cache, evictions |-> t["evictions"]]
    /\ \A n \in Lines(id) : g[n - 1] \in FillState /\ g[n] = RefillLine(g[n - 1], n, tick)
    /\ g[LastLine(id)] \in FillState
    /\ Refilled(id, tick) = g[LastLine(id)]

LEMMA TouchedRuns ==
  ASSUME cache \in SoundCaches, NEW id \in BlockId, NEW tick \in Nat
  PROVE  \E g : TouchesLines(g, id, tick)
<1> DEFINE first == FirstLine(id)
           last == LastLine(id)
           start == cache
           Step(f) == [line \in first - 1 .. last |->
                          IF line < first THEN start ELSE TouchLine(f[line - 1], line, tick)]
           upto == CHOOSE f : f = Step(f)
           body == [line \in first .. last |-> [c \in SoundCaches |-> TouchLine(c, line, tick)]]
<1>1. first \in Nat /\ last \in Nat /\ first <= last
  BY SpanType
<1>2. start \in SoundCaches
  OBVIOUS
<1>3. Touched(id, tick) = upto[last]
  BY DEF Touched
<1> HIDE DEF first, last, start
<1>4. IsBody(body, first, last, SoundCaches)
  BY <1>1, TouchLineSound DEF IsBody
<1>5. \A n \in first .. last : \A c \in SoundCaches : body[n][c] = TouchLine(c, n, tick)
  OBVIOUS
<1> HIDE DEF body
<1>6. PICK g : IsLoop(g, first, last, SoundCaches, start, body)
  BY <1>1, <1>2, <1>4, LoopRuns
<1>7. g = Step(g)
  <2>1. ASSUME NEW n \in first - 1 .. last PROVE g[n] = Step(g)[n]
    <3>1. CASE n < first
      <4>1. n = first - 1
        BY <1>1, <3>1
      <4> QED BY <1>6, <3>1, <4>1 DEF IsLoop
    <3>2. CASE n >= first
      <4>1. n \in first .. last /\ n - 1 \in first - 1 .. last /\ ~(n < first)
        BY <1>1, <3>2
      <4>2. g[n - 1] \in SoundCaches
        BY <1>6, <4>1 DEF IsLoop
      <4> QED BY <1>5, <1>6, <4>1, <4>2 DEF IsLoop
    <3> QED BY <1>1, <3>1, <3>2
  <2> QED BY <1>6, <2>1 DEF IsLoop
<1>8. upto = Step(upto)
  <2> HIDE DEF Step
  <2> QED BY <1>7
<1> HIDE DEF upto
<1>9. \A n \in first - 1 .. last : Step(upto)[n] =
          IF n < first THEN start ELSE TouchLine(upto[n - 1], n, tick)
  OBVIOUS
<1>10. \A n \in first - 1 .. last : upto[n] =
          IF n < first THEN start ELSE TouchLine(upto[n - 1], n, tick)
  <2> HIDE DEF Step
  <2> QED BY <1>8, <1>9
<1>11. upto[first - 1] \in SoundCaches
  BY <1>1, <1>2, <1>10
<1>12. ASSUME NEW n \in first .. last, upto[n - 1] \in SoundCaches
       PROVE  upto[n] \in SoundCaches
  <2>1. n \in first - 1 .. last /\ n \in Nat /\ ~(n < first)
    BY <1>1
  <2>2. upto[n] = TouchLine(upto[n - 1], n, tick)
    BY <1>10, <2>1
  <2>3. TouchLine(upto[n - 1], n, tick) \in SoundCaches
    BY <1>12, <2>1, TouchLineSound
  <2> QED BY <2>2, <2>3
<1>13. \A n \in first - 1 .. last : upto[n] \in SoundCaches
  BY <1>1, <1>11, <1>12, KeptThroughout
<1>14. upto[first - 1] = start /\ upto[last] \in SoundCaches
  BY <1>1, <1>10, <1>13
<1>15. \A n \in first .. last : upto[n - 1] \in SoundCaches /\ upto[n] = TouchLine(upto[n - 1], n, tick)
  <2>1. \A n \in first .. last : n \in first - 1 .. last /\ n - 1 \in first - 1 .. last /\ ~(n < first)
    BY <1>1
  <2> QED BY <1>10, <1>13, <2>1
<1> QED BY <1>3, <1>14, <1>15 DEF first, last, start, Lines, TouchesLines

LEMMA TouchedSound ==
  ASSUME cache \in SoundCaches, NEW id \in BlockId, NEW tick \in Nat
  PROVE  Touched(id, tick) \in SoundCaches
BY TouchedRuns DEF TouchesLines

LEMMA RefilledRuns ==
  ASSUME cache \in SoundCaches, t \in [Counters -> Nat], NEW id \in BlockId, NEW tick \in Nat
  PROVE  \E g : RefillsLines(g, id, tick)
<1> DEFINE first == FirstLine(id)
           last == LastLine(id)
           start == [cache |-> cache, evictions |-> t["evictions"]]
           Step(f) == [line \in first - 1 .. last |->
                          IF line < first THEN start ELSE RefillLine(f[line - 1], line, tick)]
           upto == CHOOSE f : f = Step(f)
           body == [line \in first .. last |-> [s \in FillState |-> RefillLine(s, line, tick)]]
<1>1. first \in Nat /\ last \in Nat /\ first <= last
  BY SpanType
<1>2. Refilled(id, tick) = upto[last]
  BY DEF Refilled
<1>3. start \in FillState
  BY DEF FillState, Counters
<1> HIDE DEF first, last, start
<1>4. IsBody(body, first, last, FillState)
  BY <1>1, RefillLineSound DEF IsBody
<1>5. \A n \in first .. last : \A s \in FillState : body[n][s] = RefillLine(s, n, tick)
  OBVIOUS
<1> HIDE DEF body
<1>6. PICK g : IsLoop(g, first, last, FillState, start, body)
  BY <1>1, <1>3, <1>4, LoopRuns
<1>7. g = Step(g)
  <2>1. ASSUME NEW n \in first - 1 .. last PROVE g[n] = Step(g)[n]
    <3>1. CASE n < first
      <4>1. n = first - 1
        BY <1>1, <3>1
      <4> QED BY <1>6, <3>1, <4>1 DEF IsLoop
    <3>2. CASE n >= first
      <4>1. n \in first .. last /\ n - 1 \in first - 1 .. last /\ ~(n < first)
        BY <1>1, <3>2
      <4>2. g[n - 1] \in FillState
        BY <1>6, <4>1 DEF IsLoop
      <4> QED BY <1>5, <1>6, <4>1, <4>2 DEF IsLoop
    <3> QED BY <1>1, <3>1, <3>2
  <2> QED BY <1>6, <2>1 DEF IsLoop
<1>8. upto = Step(upto)
  <2> HIDE DEF Step
  <2> QED BY <1>7
<1> HIDE DEF upto
<1>9. \A n \in first - 1 .. last : Step(upto)[n] =
          IF n < first THEN start ELSE RefillLine(upto[n - 1], n, tick)
  OBVIOUS
<1>10. \A n \in first - 1 .. last : upto[n] =
          IF n < first THEN start ELSE RefillLine(upto[n - 1], n, tick)
  <2> HIDE DEF Step
  <2> QED BY <1>8, <1>9
<1>11. upto[first - 1] \in FillState
  BY <1>1, <1>3, <1>10
<1>12. ASSUME NEW n \in first .. last, upto[n - 1] \in FillState
       PROVE  upto[n] \in FillState
  <2>1. n \in first - 1 .. last /\ n \in Nat /\ ~(n < first)
    BY <1>1
  <2>2. upto[n] = RefillLine(upto[n - 1], n, tick)
    BY <1>10, <2>1
  <2>3. RefillLine(upto[n - 1], n, tick) \in FillState
    BY <1>12, <2>1, RefillLineSound
  <2> QED BY <2>2, <2>3
<1>13. \A n \in first - 1 .. last : upto[n] \in FillState
  BY <1>1, <1>11, <1>12, KeptThroughout
<1>14. upto[first - 1] = start /\ upto[last] \in FillState
  BY <1>1, <1>10, <1>13
<1>15. \A n \in first .. last : upto[n - 1] \in FillState /\ upto[n] = RefillLine(upto[n - 1], n, tick)
  <2>1. \A n \in first .. last : n \in first - 1 .. last /\ n - 1 \in first - 1 .. last /\ ~(n < first)
    BY <1>1
  <2> QED BY <1>10, <1>13, <2>1
<1> QED BY <1>2, <1>14, <1>15 DEF first, last, start, Lines, RefillsLines

LEMMA RefilledSound ==
  ASSUME cache \in SoundCaches, t \in [Counters -> Nat], NEW id \in BlockId, NEW tick \in Nat
  PROVE  Refilled(id, tick) \in FillState
BY RefilledRuns DEF RefillsLines

-----------------------------------------------------------------------------
(* Block entries.                                                          *)

Sound ==
    /\ cfg \in Design
    /\ entry_sequence \in Seq(BlockId)
    /\ cache \in SoundCaches
    /\ block_seen \subseteq BlockId
    /\ t \in [Counters -> Nat]

LEMMA SoundIsProperty == Sound => SetsSound
<1> SUFFICES ASSUME Sound PROVE SetsSound
  OBVIOUS
<1>1. TypeOK
  BY DEF Sound, TypeOK, SoundCaches, SoundSet
<1>2. NoDuplicateLines
  <2> SUFFICES ASSUME NEW s \in SetIndex
               PROVE  IsInjective([i \in DOMAIN cache[s].ways |-> cache[s].ways[i].tag])
    BY DEF NoDuplicateLines
  <2>1. DistinctTags(cache[s].ways)
    BY DEF Sound, SoundCaches, SoundSet
  <2> QED BY <2>1 DEF DistinctTags, IsInjective
<1> QED BY <1>1, <1>2 DEF SetsSound

\* The classes of a miss.
Classes == {"compulsory_misses", "conflict_misses", "capacity_misses"}

LEMMA MissKindType == \A id : MissKind(id) \in Classes
BY DEF MissKind, Classes

\* What a block entry counts.
HitCounts ==
    /\ t'["entries"] = t["entries"] + 1
    /\ t'["hits"] = t["hits"] + 1
    /\ \A k \in {"misses"} \cup Classes : t'[k] = t[k]

MissCounts(id) ==
    /\ t'["entries"] = t["entries"] + 1
    /\ t'["hits"] = t["hits"]
    /\ t'["misses"] = t["misses"] + 1
    /\ \A k \in Classes : t'[k] = IF k = MissKind(id) THEN t[k] + 1 ELSE t[k]

LEMMA HitEffect ==
  ASSUME Sound, NEW id \in BlockId, Hit(id)
  PROVE  cache' \in SoundCaches /\ t' \in [Counters -> Nat] /\ HitCounts
         /\ block_seen' = block_seen
<1>1. t \in [Counters -> Nat] /\ t["entries"] + 1 \in Nat
  BY DEF Sound, Counters
<1>2. cache' \in SoundCaches
  BY <1>1, TouchedSound DEF Hit, Sound
<1>3. t' = [t EXCEPT !["entries"] = @ + 1, !["hits"] = @ + 1]
  BY DEF Hit
<1>4. t' \in [Counters -> Nat] /\ HitCounts
  BY <1>1, <1>3 DEF Counters, HitCounts, Classes
<1> QED BY <1>2, <1>4 DEF Hit

LEMMA MissEffect ==
  ASSUME Sound, NEW id \in BlockId, Miss(id)
  PROVE  cache' \in SoundCaches /\ t' \in [Counters -> Nat] /\ MissCounts(id)
         /\ block_seen' = block_seen \cup {id}
<1> DEFINE tick == t["entries"] + 1
           next == LastLine(id) + 1
           fetched == Refilled(id, tick)
           done == IF cfg.prefetch THEN RefillLine(fetched, next, tick) ELSE fetched
           kind == MissKind(id)
           more == IF cfg.prefetch /\ ~Resident(fetched.cache, next) THEN 1 ELSE 0
<1>1. t \in [Counters -> Nat] /\ tick \in Nat
  BY DEF Sound, Counters
<1>2. fetched \in FillState
  <2> HIDE DEF tick
  <2> QED BY <1>1, RefilledSound DEF Sound
<1>3. next \in Nat
  BY SpanType
<1>4. done \in FillState
  <2> HIDE DEF tick, next, fetched
  <2> QED BY <1>1, <1>2, <1>3, RefillLineSound
<1>5. /\ cache' = done.cache
      /\ block_seen' = block_seen \cup {id}
      /\ t' = [t EXCEPT !["entries"] = @ + 1, !["misses"] = @ + 1, ![kind] = @ + 1,
                        !["evictions"] = done.evictions,
                        !["prefetches"] = IF cfg.prefetch /\ ~Resident(fetched.cache, next)
                                          THEN @ + 1 ELSE @]
  BY DEF Miss
<1>6. kind \in Classes
  BY MissKindType
<1>7. done.evictions \in Nat /\ done.cache \in SoundCaches
  BY <1>4 DEF FillState
<1> HIDE DEF tick, next, fetched, done, kind
<1>8. t' \in [Counters -> Nat]
  BY <1>1, <1>5, <1>6, <1>7 DEF Counters, Classes
<1>9. MissCounts(id)
  <2>1. kind = MissKind(id)
    BY DEF kind
  <2>2. CASE kind = "compulsory_misses"
    BY <1>1, <1>5, <2>1, <2>2 DEF Counters, Classes, MissCounts
  <2>3. CASE kind = "conflict_misses"
    BY <1>1, <1>5, <2>1, <2>3 DEF Counters, Classes, MissCounts
  <2>4. CASE kind = "capacity_misses"
    BY <1>1, <1>5, <2>1, <2>4 DEF Counters, Classes, MissCounts
  <2> QED BY <1>6, <2>2, <2>3, <2>4 DEF Classes
<1> QED BY <1>5, <1>7, <1>8, <1>9

LEMMA InitSound == Init => Sound
<1> SUFFICES ASSUME Init PROVE Sound
  OBVIOUS
<1> DEFINE bits == [n \in TreeNode |-> 0]
           set == [ways |-> <<>>, plru |-> bits]
<1>1. SoundSet(set)
  <2>1. <<>> \in Seq(Way) /\ Len(<<>>) <= Ways /\ DistinctTags(<<>>)
    BY WaysAssumption DEF DistinctTags
  <2>2. bits \in [TreeNode -> {0, 1}]
    OBVIOUS
  <2> HIDE DEF bits
  <2> QED BY <2>1, <2>2, SetOfFields
<1>2. cache = [s \in SetIndex |-> set]
  BY DEF Init
<1> HIDE DEF set
<1>3. cache \in SoundCaches
  BY <1>1, <1>2 DEF SoundCaches, SoundSet
<1>4. cfg \in Design
  BY ICacheAssumption DEF Init
<1> QED BY <1>3, <1>4 DEF Init, Sound

LEMMA StepSound == Sound /\ [Next]_vars => Sound'
<1> SUFFICES ASSUME Sound, [Next]_vars PROVE Sound'
  OBVIOUS
<1>1. CASE Next
  <2>1. PICK id \in BlockId : Enter(id)
    BY <1>1 DEF Next
  <2>2. cfg' = cfg /\ entry_sequence' \in Seq(BlockId)
    BY <2>1 DEF Enter, Sound
  <2>3. CASE Hit(id)
    BY <2>2, <2>3, HitEffect DEF Sound
  <2>4. CASE Miss(id)
    BY <2>2, <2>4, MissEffect DEF Sound
  <2> QED BY <2>1, <2>3, <2>4 DEF Enter
<1>2. CASE UNCHANGED vars
  BY <1>2 DEF vars, Sound
<1> QED BY <1>1, <1>2

LEMMA SoundInvariant == Spec => []Sound
BY InitSound, StepSound, PTL DEF Spec

\* Whatever blocks are entered and however their lines overlap, refills and
\* prefetches keep a set within its ways, leave the tree a bit for each of them,
\* and never bring a line in twice (icache.cpp:99-128, 148-167).
THEOREM SetsStaySound == Spec => []SetsSound
BY SoundInvariant, SoundIsProperty, PTL

-----------------------------------------------------------------------------
(* Recency.  The tags of a set in the order of their last use.             *)

\* A loop over the line of a single-line block runs its body once.
LEMMA TouchedSingle ==
  ASSUME NEW id \in BlockId, Single(id), NEW tick
  PROVE  Touched(id, tick) = TouchLine(cache, FirstLine(id), tick)
<1> DEFINE first == FirstLine(id)
           start == cache
           Step(f) == [line \in first - 1 .. first |->
                          IF line < first THEN start ELSE TouchLine(f[line - 1], line, tick)]
           upto == CHOOSE f : f = Step(f)
           g == [line \in first - 1 .. first |->
                    IF line < first THEN start ELSE TouchLine(start, line, tick)]
<1>1. first \in Nat /\ LastLine(id) = first
  BY SpanType DEF Single
<1>2. Touched(id, tick) = upto[first]
  BY <1>1 DEF Touched
<1> HIDE DEF first, start
<1>3. g = Step(g)
  <2>1. \A n \in first - 1 .. first : ~(n < first) => n - 1 = first - 1 /\ first - 1 < first
    BY <1>1
  <2>2. g[first - 1] = start
    BY <1>1
  <2> HIDE DEF g
  <2>3. \A n \in first - 1 .. first : ~(n < first) => g[n - 1] = start
    BY <2>1, <2>2
  <2> QED BY <2>3 DEF g
<1>4. upto = Step(upto)
  <2> HIDE DEF Step, g
  <2> QED BY <1>3
<1> HIDE DEF upto
<1>5. \A n \in first - 1 .. first : upto[n] =
          IF n < first THEN start ELSE TouchLine(upto[n - 1], n, tick)
  <2>1. \A n \in first - 1 .. first : Step(upto)[n] =
            IF n < first THEN start ELSE TouchLine(upto[n - 1], n, tick)
    OBVIOUS
  <2> HIDE DEF Step
  <2> QED BY <1>4, <2>1
<1>6. /\ first - 1 \in first - 1 .. first /\ first - 1 < first
      /\ first \in first - 1 .. first /\ ~(first < first)
  BY <1>1
<1>7. upto[first - 1] = start /\ upto[first] = TouchLine(upto[first - 1], first, tick)
  BY <1>5, <1>6
<1> QED BY <1>2, <1>7 DEF first, start

LEMMA RefilledSingle ==
  ASSUME NEW id \in BlockId, Single(id), NEW tick
  PROVE  Refilled(id, tick) =
           RefillLine([cache |-> cache, evictions |-> t["evictions"]], FirstLine(id), tick)
<1> DEFINE first == FirstLine(id)
           start == [cache |-> cache, evictions |-> t["evictions"]]
           Step(f) == [line \in first - 1 .. first |->
                          IF line < first THEN start ELSE RefillLine(f[line - 1], line, tick)]
           upto == CHOOSE f : f = Step(f)
           g == [line \in first - 1 .. first |->
                    IF line < first THEN start ELSE RefillLine(start, line, tick)]
<1>1. first \in Nat /\ LastLine(id) = first
  BY SpanType DEF Single
<1>2. Refilled(id, tick) = upto[first]
  BY <1>1 DEF Refilled
<1> HIDE DEF first, start
<1>3. g = Step(g)
  <2>1. \A n \in first - 1 .. first : ~(n < first) => n - 1 = first - 1 /\ first - 1 < first
    BY <1>1
  <2>2. g[first - 1] = start
    BY <1>1
  <2> HIDE DEF g
  <2>3. \A n \in first - 1 .. first : ~(n < first) => g[n - 1] = start
    BY <2>1, <2>2
  <2> QED BY <2>3 DEF g
<1>4. upto = Step(upto)
  <2> HIDE DEF Step, g
  <2> QED BY <1>3
<1> HIDE DEF upto
<1>5. \A n \in first - 1 .. first : upto[n] =
          IF n < first THEN start ELSE RefillLine(upto[n - 1], n, tick)
  <2>1. \A n \in first - 1 .. first : Step(upto)[n] =
            IF n < first THEN start ELSE RefillLine(upto[n - 1], n, tick)
    OBVIOUS
  <2> HIDE DEF Step
  <2> QED BY <1>4, <2>1
<1>6. /\ first - 1 \in first - 1 .. first /\ first - 1 < first
      /\ first \in first - 1 .. first /\ ~(first < first)
  BY <1>1
<1>7. upto[first - 1] = start /\ upto[first] = RefillLine(upto[first - 1], first, tick)
  BY <1>5, <1>6
<1> QED BY <1>2, <1>7 DEF first, start

\* The tags of a sound set, each with the tick of its way.
LEMMA UseInEffect ==
  ASSUME NEW ways \in Seq(Way), DistinctTags(ways)
  PROVE  /\ TagsIn(ways) \in SUBSET Nat
         /\ UseIn(ways) \in [TagsIn(ways) -> Nat]
         /\ \A i \in DOMAIN ways : ways[i].tag \in TagsIn(ways)
                                   /\ UseIn(ways)[ways[i].tag] = ways[i].last_use
         /\ IsFiniteSet(TagsIn(ways))
         /\ Cardinality(TagsIn(ways)) = Len(ways)
<1>1. /\ Len(ways) \in Nat
      /\ DOMAIN ways = 1 .. Len(ways)
      /\ \A i \in DOMAIN ways : ways[i].tag \in Nat /\ ways[i].last_use \in Nat
  <2>1. \A i \in DOMAIN ways : ways[i] \in Way
    OBVIOUS
  <2> QED BY <2>1 DEF Way
<1>2. \A i \in DOMAIN ways : (CHOOSE j \in DOMAIN ways : ways[j].tag = ways[i].tag) = i
  BY DEF DistinctTags
<1>3. \A i \in DOMAIN ways : /\ ways[i].tag \in TagsIn(ways)
                             /\ UseIn(ways)[ways[i].tag] = ways[i].last_use
  BY <1>2 DEF UseIn, TagsIn
<1>4. \A tag \in TagsIn(ways) : \E i \in DOMAIN ways : tag = ways[i].tag
  BY DEF TagsIn
<1>5. TagsIn(ways) \in SUBSET Nat
  BY <1>1, <1>4
<1>6. UseIn(ways) \in [TagsIn(ways) -> Nat]
  <2>1. \A tag \in TagsIn(ways) : UseIn(ways)[tag] \in Nat
    BY <1>1, <1>3, <1>4
  <2> QED BY <2>1 DEF UseIn
<1>7. IsFiniteSet(TagsIn(ways)) /\ Cardinality(TagsIn(ways)) = Len(ways)
  <2> DEFINE f == [i \in 1 .. Len(ways) |-> ways[i].tag]
  <2>1. f \in Surjection(1 .. Len(ways), TagsIn(ways))
    BY <1>1, <1>3, <1>4 DEF Surjection
  <2>2. f \in Injection(1 .. Len(ways), TagsIn(ways))
    <3>1. f \in [1 .. Len(ways) -> TagsIn(ways)]
      BY <1>1, <1>3
    <3>2. \A i, j \in 1 .. Len(ways) : f[i] = f[j] => i = j
      BY <1>1 DEF DistinctTags
    <3> QED BY <3>1, <3>2 DEF Injection, IsInjective
  <2>3. IsFiniteSet(1 .. Len(ways)) /\ Cardinality(1 .. Len(ways)) = Len(ways)
    <3> DEFINE one == 1
               n == Len(ways)
    <3>1. one \in Int /\ n \in Nat /\ n \in Int
      BY <1>1
    <3> HIDE DEF one, n
    <3>2. IsFiniteSet(one .. n) /\ Cardinality(one .. n) = IF one > n THEN 0 ELSE n - one + 1
      BY <3>1, FS_Interval
    <3> QED BY <3>1, <3>2 DEF one, n
  <2>4. ExistsBijection(1 .. Len(ways), TagsIn(ways))
    BY <2>1, <2>2 DEF ExistsBijection, Bijection
  <2> QED BY <2>3, <2>4, FS_Bijection
<1> QED BY <1>3, <1>5, <1>6, <1>7

\* Distinct lines in use have ticks of their own, none later than now.
UseOrdered(ways, now) ==
    /\ TicksDiffer(TagsIn(ways), UseIn(ways))
    /\ \A tag \in TagsIn(ways) : UseIn(ways)[tag] <= now

\* later is ways after the line of a tag has been used.
Used(ways, tag, now, later) ==
    TouchAt(TagsIn(ways), UseIn(ways), tag, now, TagsIn(later), UseIn(later))

\* A use of a resident line changes the tick of its way.
LEMMA TouchUses ==
  ASSUME NEW ways \in Seq(Way), DistinctTags(ways), NEW i \in DOMAIN ways, NEW now \in Nat
  PROVE  LET later == [ways EXCEPT ![i].last_use = now]
         IN  /\ later \in Seq(Way) /\ DistinctTags(later)
             /\ Used(ways, ways[i].tag, now, later)
<1> DEFINE later == [ways EXCEPT ![i].last_use = now]
<1>1. /\ Len(ways) \in Nat
      /\ DOMAIN ways = 1 .. Len(ways)
      /\ \A j \in DOMAIN ways : ways[j] \in Way
  OBVIOUS
<1>2. /\ \A j \in DOMAIN ways : /\ later[j] \in Way
                                /\ later[j].tag = ways[j].tag
                                /\ j # i => later[j].last_use = ways[j].last_use
      /\ later[i].last_use = now
      /\ later = [j \in DOMAIN ways |-> later[j]]
  BY <1>1 DEF Way
<1> HIDE DEF later
<1>3. later \in Seq(Way) /\ DOMAIN later = DOMAIN ways
  BY <1>1, <1>2
<1>4. DistinctTags(later)
  BY <1>2, <1>3 DEF DistinctTags
<1>5. TagsIn(later) = TagsIn(ways)
  BY <1>2, <1>3 DEF TagsIn
<1>6. /\ \A j \in DOMAIN ways : /\ ways[j].tag \in TagsIn(ways)
                                /\ UseIn(ways)[ways[j].tag] = ways[j].last_use
      /\ \A j \in DOMAIN ways : UseIn(later)[ways[j].tag] = later[j].last_use
  BY <1>2, <1>3, <1>4, UseInEffect
<1>7. ASSUME NEW tag \in TagsIn(ways) \ {ways[i].tag}
      PROVE  UseIn(later)[tag] = UseIn(ways)[tag]
  <2>1. PICK j \in DOMAIN ways : tag = ways[j].tag
    BY DEF TagsIn
  <2>2. j # i
    BY <1>7, <2>1
  <2> QED BY <1>2, <1>6, <2>1, <2>2
<1>8. Used(ways, ways[i].tag, now, later)
  BY <1>2, <1>5, <1>6, <1>7 DEF Used, TouchAt
<1> QED BY <1>3, <1>4, <1>8 DEF later

\* And so does a new way at the end.
LEMMA AppendUses ==
  ASSUME NEW ways \in Seq(Way), DistinctTags(ways), NEW tag \in Nat, NEW now \in Nat,
         \A i \in DOMAIN ways : ways[i].tag # tag
  PROVE  LET later == Append(ways, [tag |-> tag, last_use |-> now])
         IN  /\ later \in Seq(Way) /\ DistinctTags(later) /\ Len(later) = Len(ways) + 1
             /\ Used(ways, tag, now, later)
<1> DEFINE new == [tag |-> tag, last_use |-> now]
           later == Append(ways, new)
<1>1. new \in Way /\ new.tag = tag /\ new.last_use = now
  BY DEF Way
<1> HIDE DEF new
<1>2. /\ later \in Seq(Way) /\ Len(later) = Len(ways) + 1
      /\ DOMAIN later = DOMAIN ways \cup {Len(ways) + 1}
      /\ \A j \in DOMAIN ways : later[j] = ways[j]
      /\ later[Len(ways) + 1] = new
  BY <1>1
<1> HIDE DEF later
<1>3. DistinctTags(later)
  BY <1>1, <1>2 DEF DistinctTags
<1>4. TagsIn(later) = TagsIn(ways) \cup {tag}
  BY <1>1, <1>2 DEF TagsIn
<1>5. /\ \A j \in DOMAIN ways : /\ ways[j].tag \in TagsIn(ways)
                                /\ UseIn(ways)[ways[j].tag] = ways[j].last_use
      /\ \A j \in DOMAIN later : UseIn(later)[later[j].tag] = later[j].last_use
  BY <1>2, <1>3, UseInEffect
<1>6. UseIn(later)[tag] = now
  BY <1>1, <1>2, <1>5
<1>7. ASSUME NEW other \in TagsIn(ways) \ {tag}
      PROVE  UseIn(later)[other] = UseIn(ways)[other]
  <2>1. PICK j \in DOMAIN ways : other = ways[j].tag
    BY DEF TagsIn
  <2> QED BY <1>2, <1>5, <2>1
<1>8. Used(ways, tag, now, later)
  BY <1>4, <1>6, <1>7 DEF Used, TouchAt
<1> QED BY <1>2, <1>3, <1>8 DEF later, new

\* The victim of LRU is the line used longest ago.
LEMMA VictimIsOldest ==
  ASSUME NEW set, SoundSet(set), IsFull(set), cfg.policy = "LRU"
  PROVE  \A j \in DOMAIN set.ways : set.ways[VictimOf(set)].last_use <= set.ways[j].last_use
<1> DEFINE ways == set.ways
           D == DOMAIN ways
           Oldest(i) == \A j \in D : \/ ways[i].last_use < ways[j].last_use
                                     \/ ways[i].last_use = ways[j].last_use /\ i <= j
<1>1. ways \in Seq(Way) /\ Len(ways) = Ways /\ Ways \in Nat \ {0}
  BY SetFields DEF IsFull
<1>2. D = 1 .. Ways
  BY <1>1
<1>3. \A i \in D : ways[i].last_use \in Nat
  <2>1. \A i \in D : ways[i] \in Way
    <3> HIDE DEF ways
    <3> QED BY <1>1
  <2> HIDE DEF ways, D
  <2> QED BY <2>1 DEF Way
<1>4. VictimOf(set) = CHOOSE i \in D : Oldest(i)
  BY DEF VictimOf
<1> HIDE DEF ways, D
<1>5. \E i \in D : Oldest(i)
  BY <1>1, <1>2, <1>3, OldestExists
<1> HIDE DEF Oldest
<1>6. (CHOOSE i \in D : Oldest(i)) \in D /\ Oldest(CHOOSE i \in D : Oldest(i))
  BY <1>5
<1>7. VictimOf(set) \in D /\ Oldest(VictimOf(set))
  BY <1>4, <1>6
<1>8. \A j \in D : ways[VictimOf(set)].last_use <= ways[j].last_use
  BY <1>3, <1>7 DEF Oldest
<1> QED BY <1>8 DEF D, ways

\* Without it the others keep their ticks.
LEMMA EvictionRemoves ==
  ASSUME NEW set, SoundSet(set), IsFull(set), cfg.policy = "LRU"
  PROVE  LET ways == set.ways
             left == Evicted(set).ways
             tag == ways[VictimOf(set)].tag
         IN  /\ tag \in TagsIn(ways)
             /\ \A other \in TagsIn(ways) : UseIn(ways)[tag] <= UseIn(ways)[other]
             /\ Without(TagsIn(ways), UseIn(ways), tag, TagsIn(left), UseIn(left))
<1> DEFINE ways == set.ways
           left == Evicted(set).ways
           v == VictimOf(set)
           At(i) == IF i < v THEN i ELSE i + 1
<1>1. /\ ways \in Seq(Way) /\ DistinctTags(ways)
      /\ Len(ways) = Ways /\ Ways \in Nat \ {0}
  BY SetFields DEF IsFull
<1>2. /\ left \in Seq(Way) /\ DistinctTags(left)
      /\ Len(left) = Ways - 1
      /\ \A i \in 1 .. Ways - 1 : left[i] = ways[At(i)]
  BY EvictedSound, SetFields
<1>3. v \in DOMAIN ways /\ \A j \in DOMAIN ways : ways[v].last_use <= ways[j].last_use
  BY VictimIsHeld, VictimIsOldest
<1> HIDE DEF ways, left, v
<1>4. DOMAIN ways = 1 .. Ways /\ DOMAIN left = 1 .. Ways - 1
  BY <1>1, <1>2
<1>5. /\ \A i \in DOMAIN ways : ways[i].tag \in TagsIn(ways)
      /\ \A i \in DOMAIN ways : UseIn(ways)[ways[i].tag] = ways[i].last_use
  BY <1>1, UseInEffect
<1>6. \A i \in DOMAIN left : UseIn(left)[left[i].tag] = left[i].last_use
  BY <1>2, UseInEffect
<1>7. /\ \A i \in 1 .. Ways - 1 : At(i) \in (1 .. Ways) \ {v}
      /\ \A j \in (1 .. Ways) \ {v} : \E i \in 1 .. Ways - 1 : At(i) = j
  <2>1. v \in 1 .. Ways
    BY <1>3, <1>4
  <2>2. ASSUME NEW j \in (1 .. Ways) \ {v} PROVE \E i \in 1 .. Ways - 1 : At(i) = j
    <3>1. CASE j < v
      <4>1. j \in 1 .. Ways - 1 /\ At(j) = j
        BY <1>1, <2>1, <3>1
      <4> QED BY <4>1
    <3>2. CASE j > v
      <4>1. j - 1 \in 1 .. Ways - 1 /\ At(j - 1) = j
        BY <1>1, <2>1, <3>2
      <4> QED BY <4>1
    <3> QED BY <2>1, <3>1, <3>2
  <2> QED BY <1>1, <2>1, <2>2
<1> HIDE DEF At
<1>8. \A other \in TagsIn(ways) : \E j \in DOMAIN ways : other = ways[j].tag
  BY DEF TagsIn
<1>9. TagsIn(left) = TagsIn(ways) \ {ways[v].tag}
  <2>1. ASSUME NEW other \in TagsIn(left) PROVE other \in TagsIn(ways) \ {ways[v].tag}
    <3>1. PICK i \in 1 .. Ways - 1 : other = left[i].tag
      BY <1>4 DEF TagsIn
    <3>2. other = ways[At(i)].tag /\ At(i) \in DOMAIN ways /\ At(i) # v
      BY <1>2, <1>4, <1>7, <3>1
    <3> QED BY <1>1, <1>3, <1>5, <3>2 DEF DistinctTags
  <2>2. ASSUME NEW other \in TagsIn(ways) \ {ways[v].tag} PROVE other \in TagsIn(left)
    <3>1. PICK j \in DOMAIN ways : other = ways[j].tag
      BY <1>8
    <3>2. PICK i \in 1 .. Ways - 1 : At(i) = j
      BY <1>4, <1>7, <3>1
    <3>3. other = left[i].tag /\ i \in DOMAIN left
      BY <1>2, <1>4, <3>1, <3>2
    <3> QED BY <3>3 DEF TagsIn
  <2> QED BY <2>1, <2>2
<1>10. ASSUME NEW other \in TagsIn(left) PROVE UseIn(left)[other] = UseIn(ways)[other]
  <2>1. PICK i \in 1 .. Ways - 1 : other = left[i].tag
    BY <1>4 DEF TagsIn
  <2>2. left[i] = ways[At(i)] /\ At(i) \in DOMAIN ways /\ i \in DOMAIN left
    BY <1>2, <1>4, <1>7
  <2> QED BY <1>5, <1>6, <2>1, <2>2
<1>11. Without(TagsIn(ways), UseIn(ways), ways[v].tag, TagsIn(left), UseIn(left))
  BY <1>9, <1>10 DEF Without
<1>12. \A other \in TagsIn(ways) : UseIn(ways)[ways[v].tag] <= UseIn(ways)[other]
  BY <1>3, <1>5, <1>8
<1> QED BY <1>3, <1>5, <1>11, <1>12 DEF ways, left, v

\* The tags of a set, and its lines, most recently used first.
Order(ways) == NewestFirst(TagsIn(ways), UseIn(ways))
LineList(s, ways) == [i \in DOMAIN Order(ways) |-> Order(ways)[i] * Sets + s]
LineIn(s, tag) == tag * Sets + s

\* An eviction takes the last of the order.
LEMMA EvictionKeepsOrder ==
  ASSUME NEW set, SoundSet(set), IsFull(set), cfg.policy = "LRU", NEW before,
         UseOrdered(set.ways, before)
  PROVE  LET left == Evicted(set).ways
         IN  /\ UseOrdered(left, before)
             /\ \A i \in 1 .. Len(left) : Order(left)[i] = Order(set.ways)[i]
<1> DEFINE ways == set.ways
           left == Evicted(set).ways
           x == ways[VictimOf(set)].tag
           S == TagsIn(ways)
           tick == UseIn(ways)
           T == TagsIn(left)
           stay == UseIn(left)
<1>1. ways \in Seq(Way) /\ DistinctTags(ways) /\ left \in Seq(Way) /\ DistinctTags(left)
  BY EvictedSound, SetFields
<1>2. tick \in [S -> Nat] /\ IsFiniteSet(S)
  BY <1>1, UseInEffect
<1>3. Cardinality(T) = Len(left)
  BY <1>1, UseInEffect
<1>4. TicksDiffer(S, tick) /\ \A y \in S : tick[y] <= before
  BY DEF UseOrdered
<1>5. x \in S /\ (\A y \in S : tick[x] <= tick[y]) /\ Without(S, tick, x, T, stay)
  BY EvictionRemoves
<1>6. Order(ways) = NewestFirst(S, tick) /\ Order(left) = NewestFirst(T, stay)
  BY DEF Order
<1>7. UseOrdered(left, before) <=> TicksDiffer(T, stay) /\ \A y \in T : stay[y] <= before
  BY DEF UseOrdered
<1> HIDE DEF ways, left, x, S, tick, T, stay
<1>8. /\ TicksDiffer(T, stay)
      /\ \A i \in 1 .. Cardinality(T) : NewestFirst(T, stay)[i] = NewestFirst(S, tick)[i]
  <2>1. Ordered(S, tick)
    BY <1>2, <1>4 DEF Ordered
  <2>2. /\ Ordered(T, stay)
        /\ \A i \in 1 .. Cardinality(T) : NewestFirst(T, stay)[i] = NewestFirst(S, tick)[i]
    BY <1>5, <2>1, OldestIsLast
  <2> QED BY <2>2 DEF Ordered
<1>9. \A y \in T : stay[y] <= before
  BY <1>4, <1>5 DEF Without
<1>10. \A i \in 1 .. Len(left) : Order(left)[i] = Order(ways)[i]
  BY <1>3, <1>6, <1>8, Zenon
<1> QED BY <1>7, <1>8, <1>9, <1>10 DEF ways, left

LEMMA LineListType ==
  ASSUME NEW s \in SetIndex, NEW ways \in Seq(Way), DistinctTags(ways), NEW now,
         UseOrdered(ways, now)
  PROVE  /\ Len(ways) \in Nat
         /\ DOMAIN Order(ways) = 1 .. Len(ways)
         /\ \A i \in 1 .. Len(ways) : Order(ways)[i] \in TagsIn(ways)
         /\ LineList(s, ways) \in Seq(Nat)
         /\ Len(LineList(s, ways)) = Len(ways)
         /\ DOMAIN LineList(s, ways) = 1 .. Len(ways)
         /\ \A i \in 1 .. Len(ways) : LineList(s, ways)[i] = LineIn(s, Order(ways)[i])
<1> DEFINE tags == TagsIn(ways)
           use == UseIn(ways)
           n == Len(ways)
<1>1. /\ tags \in SUBSET Nat /\ Ordered(tags, use)
      /\ Cardinality(tags) = n /\ n \in Nat
  BY UseInEffect DEF UseOrdered, Ordered
<1>2. Order(ways) = NewestFirst(tags, use)
  BY DEF Order
<1> HIDE DEF tags, use, n
<1>3. DOMAIN NewestFirst(tags, use) = 1 .. n
      /\ \A i \in 1 .. n : NewestFirst(tags, use)[i] \in tags
  BY <1>1, NewestFirstIsOrder
<1>4. s \in Nat /\ Sets \in Nat
  BY ICacheAssumption DEF SetIndex
<1>5. \A i \in 1 .. n : LineIn(s, Order(ways)[i]) \in Nat
  <2> SUFFICES ASSUME NEW i \in 1 .. n PROVE LineIn(s, Order(ways)[i]) \in Nat
    OBVIOUS
  <2>1. Order(ways)[i] \in Nat
    BY <1>1, <1>2, <1>3
  <2> QED BY <1>4, <2>1, ProductIsNat DEF LineIn
<1>6. LineList(s, ways) = [i \in 1 .. n |-> LineIn(s, Order(ways)[i])]
  BY <1>2, <1>3 DEF LineList, LineIn
<1>7. LineList(s, ways) \in Seq(Nat) /\ Len(LineList(s, ways)) = n
      /\ DOMAIN LineList(s, ways) = 1 .. n
  BY <1>1, <1>5, <1>6
<1> QED BY <1>1, <1>2, <1>3, <1>6, <1>7 DEF tags, n

\* A used line comes first in the list.
Placed(ways, tag) == PlaceIn(TagsIn(ways), UseIn(ways), tag)

LEMMA UsedLineComesFirst ==
  ASSUME NEW s \in SetIndex, NEW ways \in Seq(Way), DistinctTags(ways), NEW before \in Nat,
         UseOrdered(ways, before), NEW now \in Nat, before < now,
         NEW tag \in Nat, NEW later \in Seq(Way), DistinctTags(later),
         Used(ways, tag, now, later)
  PROVE  /\ UseOrdered(later, now)
         /\ Placed(ways, tag) \in 1 .. Len(later)
         /\ Len(later) = IF tag \in TagsIn(ways) THEN Len(ways) ELSE Len(ways) + 1
         /\ LineList(s, later) =
              [i \in 1 .. Len(later) |-> IF i = 1 THEN LineIn(s, tag)
                                         ELSE IF i <= Placed(ways, tag) THEN LineList(s, ways)[i - 1]
                                         ELSE LineList(s, ways)[i]]
<1> DEFINE S == TagsIn(ways)
           tick == UseIn(ways)
           T == TagsIn(later)
           use == UseIn(later)
           place == Placed(ways, tag)
           n == Len(ways)
           m == Len(later)
<1>1. /\ tick \in [S -> Nat] /\ IsFiniteSet(S) /\ Cardinality(S) = n
      /\ Cardinality(T) = m
      /\ n \in Nat /\ m \in Nat
  BY UseInEffect
<1>2. Ordered(S, tick) /\ \A y \in S : tick[y] < now
  <2>1. TicksDiffer(S, tick) /\ \A y \in S : tick[y] <= before
    BY DEF UseOrdered
  <2> HIDE DEF S, tick
  <2>2. \A y \in S : tick[y] \in Nat
    BY <1>1
  <2> QED BY <1>1, <2>1, <2>2 DEF Ordered
<1>3. TouchAt(S, tick, tag, now, T, use) /\ place = PlaceIn(S, tick, tag)
  BY DEF Used, Placed
<1>4. Order(ways) = NewestFirst(S, tick) /\ Order(later) = NewestFirst(T, use)
  BY DEF Order
<1> HIDE DEF S, tick, T, use, place, n, m
<1>5. /\ Ordered(T, use)
      /\ Cardinality(T) = IF tag \in S THEN Cardinality(S) ELSE Cardinality(S) + 1
      /\ place \in 1 .. Cardinality(T)
      /\ ComesFirst(S, tick, tag, T, use)
  BY <1>2, <1>3, TouchedComesFirst
<1>6. ASSUME NEW y \in T PROVE use[y] <= now
  <2>1. T = S \cup {tag} /\ use[tag] = now /\ \A z \in S \ {tag} : use[z] = tick[z]
    BY <1>3 DEF TouchAt
  <2>2. CASE y = tag
    BY <2>1, <2>2
  <2>3. CASE y # tag
    <3>1. y \in S /\ use[y] = tick[y]
      BY <2>1, <2>3
    <3>2. tick[y] < now /\ tick[y] \in Nat
      BY <1>1, <1>2, <3>1
    <3> QED BY <3>1, <3>2
  <2> QED BY <2>2, <2>3
<1>7. UseOrdered(later, now)
  BY <1>5, <1>6 DEF UseOrdered, Ordered, T, use
<1>8. /\ DOMAIN Order(later) = 1 .. m
      /\ Order(later)[1] = tag
      /\ \A i \in 2 .. m : Order(later)[i] = IF i <= place THEN Order(ways)[i - 1]
                                             ELSE Order(ways)[i]
  <2>1. /\ DOMAIN Order(later) = 1 .. Cardinality(T)
        /\ Order(later)[1] = tag
        /\ \A i \in 2 .. Cardinality(T) :
             Order(later)[i] = IF i <= PlaceIn(S, tick, tag) THEN Order(ways)[i - 1]
                               ELSE Order(ways)[i]
    BY <1>4, <1>5, Zenon DEF ComesFirst
  <2>2. Cardinality(T) = m /\ PlaceIn(S, tick, tag) = place
    BY <1>1, <1>3
  <2> QED BY <2>1, <2>2, Zenon
<1>9. /\ \A i \in 1 .. n : LineList(s, ways)[i] = LineIn(s, Order(ways)[i])
      /\ LineList(s, later) = [i \in 1 .. m |-> LineIn(s, Order(later)[i])]
  <2>1. \A i \in 1 .. n : LineList(s, ways)[i] = LineIn(s, Order(ways)[i])
    BY LineListType DEF n
  <2>2. LineList(s, later) = [i \in 1 .. m |-> LineIn(s, Order(later)[i])]
    BY <1>8 DEF LineList, LineIn
  <2> QED BY <2>1, <2>2
<1>10. tag \notin S => place = n + 1
  BY <1>1, <1>3 DEF PlaceIn
<1>11. ASSUME NEW i \in 1 .. m
       PROVE  LineIn(s, Order(later)[i]) =
                 IF i = 1 THEN LineIn(s, tag)
                 ELSE IF i <= place THEN LineList(s, ways)[i - 1]
                 ELSE LineList(s, ways)[i]
  <2>1. CASE i = 1
    BY <1>8, <2>1
  <2>2. CASE i # 1 /\ i <= place
    <3>1. i \in 2 .. m /\ i - 1 \in 1 .. n
      BY <1>1, <1>5, <2>2
    <3>2. Order(later)[i] = Order(ways)[i - 1]
      BY <1>8, <2>2, <3>1
    <3>3. LineList(s, ways)[i - 1] = LineIn(s, Order(ways)[i - 1])
      BY <1>9, <3>1
    <3> QED BY <2>2, <3>2, <3>3
  <2>3. CASE i # 1 /\ ~(i <= place)
    <3>1. i \in 2 .. m /\ i \in 1 .. n
      BY <1>1, <1>5, <1>10, <2>3
    <3>2. Order(later)[i] = Order(ways)[i]
      BY <1>8, <2>3, <3>1
    <3>3. LineList(s, ways)[i] = LineIn(s, Order(ways)[i])
      BY <1>9, <3>1
    <3> QED BY <2>3, <3>2, <3>3
  <2> QED BY <2>1, <2>2, <2>3
<1>12. LineList(s, later) = [i \in 1 .. m |-> IF i = 1 THEN LineIn(s, tag)
                                ELSE IF i <= place THEN LineList(s, ways)[i - 1]
                                ELSE LineList(s, ways)[i]]
  <2> DEFINE F(i) == IF i = 1 THEN LineIn(s, tag)
                     ELSE IF i <= place THEN LineList(s, ways)[i - 1]
                     ELSE LineList(s, ways)[i]
             G(i) == LineIn(s, Order(later)[i])
  <2>1. \A i \in 1 .. m : G(i) = F(i)
    BY <1>11
  <2>2. LineList(s, later) = [i \in 1 .. m |-> G(i)]
    BY <1>9
  <2> HIDE DEF F, G
  <2>3. LineList(s, later) = [i \in 1 .. m |-> F(i)]
    BY <2>1, <2>2
  <2> QED BY <2>3 DEF F
<1> QED BY <1>1, <1>5, <1>7, <1>12 DEF m, n, S, place

\* The entry the abstract cache gives a line.
LEMMA LineCoordinates ==
  ASSUME NEW s \in SetIndex, NEW tag \in Nat
  PROVE  IndexOf(LineIn(s, tag)) = s /\ TagOf(LineIn(s, tag)) = tag
BY ICacheAssumption DEF IndexOf, TagOf, LineIn, SetIndex

LEMMA LineOfCoordinates ==
  ASSUME NEW line \in Nat
  PROVE  LineIn(IndexOf(line), TagOf(line)) = line
BY ICacheAssumption DEF IndexOf, TagOf, LineIn

LEMMA ListPlace ==
  ASSUME NEW s \in SetIndex, NEW ways \in Seq(Way), DistinctTags(ways), NEW now,
         UseOrdered(ways, now), NEW tag \in Nat
  PROVE  LET list == LineList(s, ways)
             line == LineIn(s, tag)
         IN  /\ (\E i \in DOMAIN list : list[i] = line) <=> tag \in TagsIn(ways)
             /\ tag \in TagsIn(ways) => Exact!PlaceOf(list, line) = Placed(ways, tag)
             /\ tag \notin TagsIn(ways) => Exact!PlaceOf(list, line) =
                                             IF Len(ways) < Ways THEN Len(ways) + 1 ELSE Ways
<1> DEFINE S == TagsIn(ways)
           tick == UseIn(ways)
           n == Len(ways)
           list == LineList(s, ways)
           line == LineIn(s, tag)
           place == Placed(ways, tag)
<1>1. /\ S \in SUBSET Nat /\ Ordered(S, tick)
      /\ Cardinality(S) = n /\ n \in Nat
  BY UseInEffect DEF UseOrdered, Ordered
<1>2. /\ \A i \in 1 .. n : Order(ways)[i] \in S
      /\ Len(list) = n /\ DOMAIN list = 1 .. n
      /\ \A i \in 1 .. n : list[i] = LineIn(s, Order(ways)[i])
  BY LineListType
<1>3. Order(ways) = NewestFirst(S, tick) /\ place = PlaceIn(S, tick, tag)
  BY DEF Order, Placed
<1> HIDE DEF S, tick, n, list, place
<1>4. ASSUME NEW i \in 1 .. n PROVE list[i] = line <=> Order(ways)[i] = tag
  <2> DEFINE other == Order(ways)[i]
  <2>1. other \in Nat /\ list[i] = LineIn(s, other)
    BY <1>1, <1>2
  <2> HIDE DEF other
  <2>2. TagOf(LineIn(s, other)) = other /\ TagOf(LineIn(s, tag)) = tag
    BY <2>1, LineCoordinates
  <2> QED BY <2>1, <2>2 DEF other
<1>5. ASSUME tag \in S
      PROVE  place \in 1 .. n /\ \A i \in 1 .. n : Order(ways)[i] = tag <=> i = place
  <2>1. PICK x \in S : x = tag
    BY <1>5
  <2>2. Ordered(S, tick)
    BY <1>1
  <2>3. /\ PlaceIn(S, tick, x) \in 1 .. Cardinality(S)
        /\ \A i \in 1 .. Cardinality(S) : NewestFirst(S, tick)[i] = x <=> i = PlaceIn(S, tick, x)
    BY <2>2, PlaceOfMember
  <2> QED BY <1>1, <1>3, <2>1, <2>3, Zenon
<1> HIDE DEF line
<1>6. (\E i \in DOMAIN list : list[i] = line) <=> tag \in S
  BY <1>2, <1>4, <1>5
<1>7. ASSUME tag \in S PROVE Exact!PlaceOf(list, line) = place
  <2>1. \A i \in DOMAIN list : list[i] = line <=> i = place
    BY <1>2, <1>4, <1>5, <1>7
  <2>2. place \in DOMAIN list
    BY <1>2, <1>5, <1>7
  <2>3. (CHOOSE i \in DOMAIN list : list[i] = line) = place
    BY <2>1, <2>2
  <2> QED BY <1>6, <1>7, <2>3 DEF Exact!PlaceOf
<1>8. ASSUME tag \notin S
      PROVE  Exact!PlaceOf(list, line) = IF n < Ways THEN n + 1 ELSE Ways
  BY <1>2, <1>6, <1>8 DEF Exact!PlaceOf
<1> QED BY <1>6, <1>7, <1>8 DEF S, list, line, place, n

LEMMA TouchMovesToFront ==
  ASSUME NEW s \in SetIndex, NEW ways \in Seq(Way), DistinctTags(ways), NEW before \in Nat,
         UseOrdered(ways, before), NEW now \in Nat, before < now, NEW i \in DOMAIN ways
  PROVE  LET later == [ways EXCEPT ![i].last_use = now]
             line == LineIn(s, ways[i].tag)
         IN  /\ UseOrdered(later, now)
             /\ \E k \in DOMAIN LineList(s, ways) : LineList(s, ways)[k] = line
             /\ LineList(s, later) = Exact!MovedToFront(LineList(s, ways), line)
<1> DEFINE later == [ways EXCEPT ![i].last_use = now]
           tag == ways[i].tag
           list == LineList(s, ways)
           line == LineIn(s, tag)
           place == Placed(ways, tag)
<1>1. tag \in TagsIn(ways) /\ tag \in Nat
  BY UseInEffect
<1>2. later \in Seq(Way) /\ DistinctTags(later) /\ Used(ways, tag, now, later)
  BY TouchUses
<1> HIDE DEF later, tag
<1>3. /\ UseOrdered(later, now)
      /\ place \in 1 .. Len(later)
      /\ Len(later) = Len(ways)
      /\ LineList(s, later) =
           [k \in 1 .. Len(later) |-> IF k = 1 THEN line
                                      ELSE IF k <= place THEN list[k - 1]
                                      ELSE list[k]]
  BY <1>1, <1>2, UsedLineComesFirst
<1>4. /\ \E k \in DOMAIN list : list[k] = line
      /\ Exact!PlaceOf(list, line) = place
  BY <1>1, ListPlace
<1>5. DOMAIN list = 1 .. Len(ways)
  BY LineListType
<1> HIDE DEF list, line, place
<1>6. DOMAIN list \cup {place} = 1 .. Len(later)
  BY <1>3, <1>5
<1>7. LineList(s, later) = Exact!MovedToFront(list, line)
  BY <1>3, <1>4, <1>6 DEF Exact!MovedToFront
<1> QED BY <1>3, <1>4, <1>7 DEF later, tag, list, line

LEMMA RefillMovesToFront ==
  ASSUME NEW s \in SetIndex, NEW set, SoundSet(set), cfg.policy = "LRU", NEW before \in Nat,
         UseOrdered(set.ways, before), NEW now \in Nat, before < now,
         NEW tag \in Nat, \A i \in DOMAIN set.ways : set.ways[i].tag # tag
  PROVE  LET room == IF IsFull(set) THEN Evicted(set) ELSE set
             later == Append(room.ways, [tag |-> tag, last_use |-> now])
             line == LineIn(s, tag)
         IN  /\ UseOrdered(later, now)
             /\ ~ \E k \in DOMAIN LineList(s, set.ways) : LineList(s, set.ways)[k] = line
             /\ LineList(s, later) = Exact!MovedToFront(LineList(s, set.ways), line)
<1> DEFINE ways == set.ways
           room == (IF IsFull(set) THEN Evicted(set) ELSE set).ways
           later == Append(room, [tag |-> tag, last_use |-> now])
           list == LineList(s, ways)
           kept == LineList(s, room)
           line == LineIn(s, tag)
           n == Len(ways)
           m == Len(room)
<1>1. /\ ways \in Seq(Way) /\ DistinctTags(ways)
      /\ n \in Nat /\ n <= Ways /\ Ways \in Nat \ {0}
  BY SetFields
<1>2. tag \notin TagsIn(ways)
  BY DEF TagsIn
<1>3. /\ ~ \E k \in DOMAIN list : list[k] = line
      /\ Exact!PlaceOf(list, line) = IF n < Ways THEN n + 1 ELSE Ways
  BY <1>1, <1>2, ListPlace
<1>4. DOMAIN list = 1 .. n
  BY <1>1, LineListType
<1>5. /\ room \in Seq(Way) /\ DistinctTags(room)
      /\ m = IF n = Ways THEN n - 1 ELSE n
      /\ UseOrdered(room, before)
      /\ \A i \in DOMAIN room : room[i].tag # tag
      /\ \A i \in 1 .. m : kept[i] = list[i]
  <2>1. CASE ~IsFull(set)
    <3>1. room = ways /\ n # Ways
      BY <2>1 DEF IsFull
    <3> QED BY <1>1, <3>1
  <2>2. CASE IsFull(set)
    <3>1. room = Evicted(set).ways /\ n = Ways
      BY <2>2 DEF IsFull
    <3>2. /\ room \in Seq(Way) /\ DistinctTags(room) /\ m = Ways - 1
          /\ \A i \in DOMAIN room : \E j \in DOMAIN ways : room[i] = ways[j]
      BY <2>2, <3>1, EvictedSound, SetFields
    <3>3. UseOrdered(room, before) /\ \A i \in 1 .. m : Order(room)[i] = Order(ways)[i]
      BY <2>2, <3>1, EvictionKeepsOrder
    <3> HIDE DEF room, ways
    <3>4. ASSUME NEW i \in 1 .. m PROVE kept[i] = list[i]
      <4>1. i \in 1 .. n
        BY <1>1, <3>1, <3>2
      <4>2. kept[i] = LineIn(s, Order(room)[i])
        BY <3>2, <3>3, LineListType
      <4>3. list[i] = LineIn(s, Order(ways)[i])
        BY <1>1, <4>1, LineListType DEF ways
      <4> QED BY <3>3, <4>2, <4>3
    <3>5. \A i \in DOMAIN room : room[i].tag # tag
      BY <3>2 DEF ways
    <3> QED BY <3>1, <3>2, <3>3, <3>4, <3>5
  <2> QED BY <2>1, <2>2
<1>6. /\ later \in Seq(Way) /\ DistinctTags(later) /\ Len(later) = m + 1
      /\ Used(room, tag, now, later)
  BY <1>5, AppendUses
<1>7. tag \notin TagsIn(room)
  BY <1>5 DEF TagsIn
<1>8. Placed(room, tag) = m + 1
  <2>1. Cardinality(TagsIn(room)) = m
    BY <1>5, UseInEffect
  <2> QED BY <1>7, <2>1 DEF Placed, PlaceIn
<1> HIDE DEF later, room, line, list, kept, n, m, ways
<1>9. /\ UseOrdered(later, now)
      /\ LineList(s, later) =
           [k \in 1 .. Len(later) |-> IF k = 1 THEN LineIn(s, tag)
                                      ELSE IF k <= Placed(room, tag) THEN LineList(s, room)[k - 1]
                                      ELSE LineList(s, room)[k]]
  BY <1>5, <1>6, UsedLineComesFirst
<1> DEFINE place == Exact!PlaceOf(list, line)
<1>10. /\ m \in Nat
       /\ place = m + 1
       /\ DOMAIN list \cup {place} = 1 .. m + 1
  BY <1>1, <1>3, <1>4, <1>5
<1> HIDE DEF place
<1>11. LineList(s, later) =
         [k \in 1 .. m + 1 |-> IF k = 1 THEN line ELSE IF k <= place THEN list[k - 1] ELSE list[k]]
  <2> DEFINE F(k) == IF k = 1 THEN line ELSE IF k <= place THEN list[k - 1] ELSE list[k]
             G(k) == IF k = 1 THEN line ELSE IF k <= m + 1 THEN kept[k - 1] ELSE kept[k]
  <2>1. LineList(s, later) = [k \in 1 .. m + 1 |-> G(k)]
    BY <1>6, <1>8, <1>9 DEF line, kept
  <2>2. ASSUME NEW k \in 1 .. m + 1 PROVE F(k) = G(k)
    <3>1. k <= place /\ k <= m + 1
      BY <1>10
    <3>2. k # 1 => k - 1 \in 1 .. m
      BY <1>10
    <3>3. k # 1 => kept[k - 1] = list[k - 1]
      BY <1>5, <3>2
    <3> QED BY <3>1, <3>3
  <2> HIDE DEF F, G
  <2>3. LineList(s, later) = [k \in 1 .. m + 1 |-> F(k)]
    BY <2>1, <2>2
  <2> QED BY <2>3 DEF F
<1>12. LineList(s, later) = Exact!MovedToFront(list, line)
  BY <1>10, <1>11 DEF Exact!MovedToFront, place
<1> QED BY <1>3, <1>9, <1>12 DEF later, room, line, list, ways

\* What an entry of a single-line block does to the lists: its line moves to the
\* front of its set.
UseInv == \A s \in SetIndex : UseOrdered(cache[s].ways, t["entries"])
ListsOfSets == [s \in SetIndex |-> LinesByUse(s)]

Moves(s, line) ==
    /\ UseOrdered(cache'[s].ways, t["entries"] + 1)
    /\ LineList(s, cache'[s].ways) = Exact!MovedToFront(LineList(s, cache[s].ways), line)
    /\ \A other \in SetIndex \ {s} : cache'[other].ways = cache[other].ways

LEMMA UseOrderedLater ==
  ASSUME NEW ways \in Seq(Way), DistinctTags(ways), NEW now \in Nat, UseOrdered(ways, now)
  PROVE  UseOrdered(ways, now + 1)
<1>1. \A tag \in TagsIn(ways) : UseIn(ways)[tag] \in Nat
  BY UseInEffect
<1> QED BY <1>1 DEF UseOrdered

LEMMA MovesLists ==
  ASSUME Sound, UseInv, NEW s \in SetIndex, NEW line, Moves(s, line),
         t'["entries"] = t["entries"] + 1
  PROVE  /\ UseInv'
         /\ ListsOfSets' = [ListsOfSets EXCEPT ![s] = Exact!MovedToFront(ListsOfSets[s], line)]
<1>1. ASSUME NEW other \in SetIndex
      PROVE  LinesByUse(other) = LineList(other, cache[other].ways)
             /\ LinesByUse(other)' = LineList(other, cache'[other].ways)
  BY DEF LinesByUse, LineList, Order
<1>2. UseInv'
  <2> SUFFICES ASSUME NEW other \in SetIndex
               PROVE  UseOrdered(cache'[other].ways, t'["entries"])
    BY DEF UseInv
  <2>1. CASE other = s
    BY <2>1 DEF Moves
  <2>2. CASE other # s
    <3>1. cache'[other].ways = cache[other].ways
      BY <2>2 DEF Moves
    <3>2. cache[other].ways \in Seq(Way) /\ DistinctTags(cache[other].ways)
          /\ t["entries"] \in Nat
      BY SetFields DEF Sound, SoundCaches, Counters
    <3>3. UseOrdered(cache[other].ways, t["entries"])
      BY DEF UseInv
    <3>4. UseOrdered(cache[other].ways, t["entries"] + 1)
      BY <3>2, <3>3, UseOrderedLater
    <3> QED BY <3>1, <3>4
  <2> QED BY <2>1, <2>2
<1> DEFINE front == Exact!MovedToFront(LineList(s, cache[s].ways), line)
<1>3. LineList(s, cache'[s].ways) = front
      /\ \A other \in SetIndex \ {s} : cache'[other].ways = cache[other].ways
  BY DEF Moves
<1>4. ListsOfSets[s] = LineList(s, cache[s].ways)
  BY <1>1 DEF ListsOfSets
<1> DEFINE after == Exact!MovedToFront(ListsOfSets[s], line)
<1>5. after = front
  BY <1>4
<1> HIDE DEF front, after
<1>6. ASSUME NEW other \in SetIndex
      PROVE  LinesByUse(other)' = IF other = s THEN after ELSE LinesByUse(other)
  BY <1>1, <1>3, <1>5
<1>7. ListsOfSets' = [other \in SetIndex |-> LinesByUse(other)']
  BY DEF ListsOfSets
<1>8. [ListsOfSets EXCEPT ![s] = after]
        = [other \in SetIndex |-> IF other = s THEN after ELSE LinesByUse(other)]
  BY DEF ListsOfSets
<1> QED BY <1>2, <1>6, <1>7, <1>8 DEF after

LEMMA HitMoves ==
  ASSUME Sound, UseInv, LruApplies, NEW id \in BlockId, Single(id), Hit(id)
  PROVE  LET line == FirstLine(id)
             s == IndexOf(line)
         IN  /\ Moves(s, line)
             /\ \E k \in DOMAIN LineList(s, cache[s].ways) : LineList(s, cache[s].ways)[k] = line
<1> DEFINE line == FirstLine(id)
           s == IndexOf(line)
           tag == TagOf(line)
           i == WayHolding(cache, line)
           ways == cache[s].ways
           now == t["entries"] + 1
<1>1. /\ line \in Nat /\ s \in SetIndex /\ tag \in Nat
      /\ line = LineIn(s, tag)
  <2>1. line \in Nat
    BY SpanType
  <2> HIDE DEF line
  <2> QED BY <2>1, LineType, LineOfCoordinates
<1>2. cache \in SoundCaches /\ t["entries"] \in Nat /\ now \in Nat /\ t["entries"] < now
  BY DEF Sound, Counters
<1>3. ways \in Seq(Way) /\ DistinctTags(ways) /\ SoundSet(cache[s])
  BY <1>1, <1>2, SetFields DEF SoundCaches
<1>4. i \in DOMAIN ways /\ ways[i].tag = tag
  <2>1. line \in Lines(id)
    BY <1>1 DEF Lines, Single
  <2>2. i # 0
    BY <2>1 DEF Hit, Resident
  <2> QED BY <1>1, <1>2, <2>2, WayHoldingEffect
<1>5. cache' = [cache EXCEPT ![s].ways[i].last_use = now]
  <2>1. cache' = TouchLine(cache, line, now)
    BY TouchedSingle DEF Hit
  <2> QED BY <2>1 DEF TouchLine, LruApplies
<1>6. /\ cache'[s].ways = [ways EXCEPT ![i].last_use = now]
      /\ \A other \in SetIndex \ {s} : cache'[other] = cache[other]
  <2>1. cache \in [SetIndex -> Set] /\ cache[s] \in [ways : Seq(Way), plru : [TreeNode -> {0, 1}]]
    BY <1>1, <1>2 DEF SoundCaches, Set, Way
  <2> DEFINE touched == [ways EXCEPT ![i].last_use = now]
  <2>2. cache' = [cache EXCEPT ![s] = [cache[s] EXCEPT !.ways = touched]]
    BY <1>5
  <2> HIDE DEF touched, s, ways, i
  <2> QED BY <1>1, <2>1, <2>2 DEF touched
<1>7. UseOrdered(ways, t["entries"])
  BY <1>1 DEF UseInv
<1> HIDE DEF line, s, tag, i, ways, now
<1>8. /\ UseOrdered([ways EXCEPT ![i].last_use = now], now)
      /\ \E k \in DOMAIN LineList(s, ways) : LineList(s, ways)[k] = LineIn(s, ways[i].tag)
      /\ LineList(s, [ways EXCEPT ![i].last_use = now])
           = Exact!MovedToFront(LineList(s, ways), LineIn(s, ways[i].tag))
  BY <1>1, <1>2, <1>3, <1>4, <1>7, TouchMovesToFront
<1>9. /\ UseOrdered(cache'[s].ways, now)
      /\ \E k \in DOMAIN LineList(s, ways) : LineList(s, ways)[k] = line
      /\ LineList(s, cache'[s].ways) = Exact!MovedToFront(LineList(s, ways), line)
  BY <1>1, <1>4, <1>6, <1>8
<1> QED BY <1>6, <1>9 DEF Moves, line, s, ways, now

LEMMA MissMoves ==
  ASSUME Sound, UseInv, LruApplies, NEW id \in BlockId, Single(id), Miss(id)
  PROVE  LET line == FirstLine(id)
             s == IndexOf(line)
         IN  /\ Moves(s, line)
             /\ ~ \E k \in DOMAIN LineList(s, cache[s].ways) :
                      LineList(s, cache[s].ways)[k] = line
<1> DEFINE line == FirstLine(id)
           s == IndexOf(line)
           tag == TagOf(line)
           set == cache[s]
           now == t["entries"] + 1
           room == IF IsFull(set) THEN Evicted(set) ELSE set
           later == Append(room.ways, [tag |-> tag, last_use |-> now])
<1>1. /\ line \in Nat /\ s \in SetIndex /\ tag \in Nat
      /\ line = LineIn(s, tag)
  <2>1. line \in Nat
    BY SpanType
  <2> HIDE DEF line
  <2> QED BY <2>1, LineType, LineOfCoordinates
<1>2. cache \in SoundCaches /\ t["entries"] \in Nat /\ now \in Nat /\ t["entries"] < now
  BY DEF Sound, Counters
<1>3. set.ways \in Seq(Way) /\ SoundSet(set)
  BY <1>1, <1>2, SetFields DEF SoundCaches
<1>4. Lines(id) = {line}
  BY <1>1 DEF Lines, Single
<1>5. ~Resident(cache, line)
  BY <1>4 DEF Miss
<1>6. \A i \in DOMAIN set.ways : set.ways[i].tag # tag
  <2>1. WayHolding(cache, line) = 0 /\ 0 \notin DOMAIN set.ways
    BY <1>3, <1>5 DEF Resident
  <2> QED BY <1>1, <1>2, <2>1, WayHoldingEffect
<1>7. \E plru : cache' = [cache EXCEPT ![s] = [ways |-> later, plru |-> plru]]
  <2>1. cache' = RefillLine([cache |-> cache, evictions |-> t["evictions"]], line, now).cache
    BY RefilledSingle DEF Miss, LruApplies
  <2> DEFINE fill == [cache |-> cache, evictions |-> t["evictions"]]
  <2>2. fill.cache = cache
    OBVIOUS
  <2> HIDE DEF fill
  <2>3. RefillLine(fill, line, now).cache = [cache EXCEPT ![s] = [ways |-> later, plru |-> room.plru]]
    BY <1>5, <2>2 DEF RefillLine, LruApplies
  <2> QED BY <2>1, <2>3 DEF fill
<1>8. /\ cache'[s].ways = later
      /\ \A other \in SetIndex \ {s} : cache'[other] = cache[other]
  <2>1. DOMAIN cache = SetIndex
    BY <1>2 DEF SoundCaches
  <2> HIDE DEF later, s
  <2> QED BY <1>1, <1>7, <2>1
<1>9. UseOrdered(set.ways, t["entries"]) /\ cfg.policy = "LRU"
  BY <1>1 DEF UseInv, LruApplies
<1> HIDE DEF line, s, tag, now, set
<1>10. /\ UseOrdered(later, now)
       /\ ~ \E k \in DOMAIN LineList(s, set.ways) : LineList(s, set.ways)[k] = LineIn(s, tag)
       /\ LineList(s, later) = Exact!MovedToFront(LineList(s, set.ways), LineIn(s, tag))
  BY <1>1, <1>2, <1>3, <1>6, <1>9, RefillMovesToFront
<1> HIDE DEF later
<1> QED BY <1>1, <1>8, <1>10 DEF Moves, line, s, now, set

\* The requests, as the abstract cache sees them.
AskedFor(id) == [line |-> FirstLine(id), allocates |-> TRUE]
Asked(entries) == [i \in DOMAIN entries |-> AskedFor(entries[i])]

LEMMA AskedAppend ==
  ASSUME NEW entries \in Seq(BlockId), NEW id \in BlockId
  PROVE  /\ Asked(Append(entries, id)) = Append(Asked(entries), AskedFor(id))
         /\ AllSingle(Append(entries, id)) => AllSingle(entries) /\ Single(id)
<1>1. /\ Len(Append(entries, id)) = Len(entries) + 1
      /\ DOMAIN entries = 1 .. Len(entries)
      /\ DOMAIN Append(entries, id) = 1 .. Len(entries) + 1
      /\ \A i \in 1 .. Len(entries) : Append(entries, id)[i] = entries[i]
      /\ Append(entries, id)[Len(entries) + 1] = id
      /\ Len(entries) \in Nat
  OBVIOUS
<1>2. Asked(Append(entries, id)) = Append(Asked(entries), AskedFor(id))
  BY <1>1 DEF Asked
<1>3. ToSet(Append(entries, id)) = ToSet(entries) \cup {id}
  BY <1>1 DEF ToSet
<1> QED BY <1>2, <1>3 DEF AllSingle

LEMMA ExactStep ==
  ASSUME Sound, AllSingle(entry_sequence) => UseInv, LruApplies, NEW id \in BlockId, Enter(id),
         AllSingle(entry_sequence')
  PROVE  Exact!Next /\ UseInv'
<1> DEFINE line == FirstLine(id)
           s == IndexOf(line)
<1>1. /\ entry_sequence' = Append(entry_sequence, id)
      /\ entry_sequence \in Seq(BlockId)
  BY DEF Enter, Sound
<1>2. Single(id) /\ UseInv
  BY <1>1, AskedAppend
<1>3. Asked(entry_sequence') = Append(Asked(entry_sequence), AskedFor(id))
  BY <1>1, AskedAppend
<1>4. line \in Nat /\ s \in SetIndex
  BY SpanType, LineType
<1>5. line \in UNION {Lines(other) : other \in BlockId}
  <2>1. line \in Lines(id)
    BY <1>2, <1>4 DEF Lines, Single
  <2> QED BY <2>1
<1>6. ListsOfSets[s] = LineList(s, cache[s].ways)
  BY <1>4 DEF ListsOfSets, LinesByUse, LineList, Order
<1>7. ASSUME Moves(s, line), t'["entries"] = t["entries"] + 1
      PROVE  /\ UseInv'
             /\ ListsOfSets' = [ListsOfSets EXCEPT ![s] =
                                  Exact!MovedToFront(ListsOfSets[s], line)]
  BY <1>2, <1>4, <1>7, MovesLists
<1> PICK b \in BOOLEAN : b = TRUE
  OBVIOUS
<1>8. CASE Hit(id)
  <2>1. /\ Moves(s, line)
        /\ \E k \in DOMAIN ListsOfSets[s] : ListsOfSets[s][k] = line
    BY <1>2, <1>6, <1>8, HitMoves
  <2>2. t'["entries"] = t["entries"] + 1 /\ t'["hits"] = t["hits"] + 1
    BY <1>8, HitEffect DEF HitCounts
  <2>3. /\ UseInv'
        /\ ListsOfSets' = [ListsOfSets EXCEPT ![s] = Exact!MovedToFront(ListsOfSets[s], line)]
    BY <1>7, <2>1, <2>2
  <2> HIDE DEF line
  <2>4. Exact!Use(line, b)
    BY <1>3, <2>1, <2>2, <2>3 DEF Exact!Use, Exact!Holds, Exact!SetOf, IndexOf, ListsOfSets, Asked,
                                  AskedFor, Exact!Request, line
  <2> QED BY <1>5, <2>3, <2>4, Zenon DEF Exact!Next
<1>9. CASE Miss(id)
  <2>1. /\ Moves(s, line)
        /\ ~ \E k \in DOMAIN ListsOfSets[s] : ListsOfSets[s][k] = line
    BY <1>2, <1>6, <1>9, MissMoves
  <2>2. t'["entries"] = t["entries"] + 1 /\ t'["hits"] = t["hits"]
    BY <1>9, MissEffect DEF MissCounts
  <2>3. /\ UseInv'
        /\ ListsOfSets' = [ListsOfSets EXCEPT ![s] = Exact!MovedToFront(ListsOfSets[s], line)]
    BY <1>7, <2>1, <2>2
  <2> HIDE DEF line
  <2>4. Exact!Use(line, b)
    BY <1>3, <2>1, <2>2, <2>3 DEF Exact!Use, Exact!Holds, Exact!SetOf, IndexOf, ListsOfSets, Asked,
                                  AskedFor, Exact!Request, line
  <2> QED BY <1>5, <2>3, <2>4, Zenon DEF Exact!Next
<1> QED BY <1>8, <1>9 DEF Enter

\* While blocks are single lines and nothing is prefetched, erasing the oldest
\* way and appending at the end is the exact LRU cache, for every geometry and
\* every sequence of entries (icache.cpp:83-128, 148-167).
THEOREM LruDesignsAreExact == Spec => ImplementsLru
<1> DEFINE UseKept == LruApplies /\ AllSingle(entry_sequence) => UseInv
<1>1. Init => (LruApplies => Exact!Init)
  <2> SUFFICES ASSUME Init PROVE Exact!Init
    OBVIOUS
  <2>1. ASSUME NEW s \in SetIndex PROVE LinesByUse(s) = <<>>
    <3>1. TagsIn(cache[s].ways) = {}
      BY DEF Init, TagsIn
    <3>2. Cardinality(TagsIn(cache[s].ways)) = 0
      BY <3>1, FS_EmptySet
    <3>3. DOMAIN NewestFirst(TagsIn(cache[s].ways), UseIn(cache[s].ways)) = {}
      BY <3>2 DEF NewestFirst
    <3> QED BY <3>3 DEF LinesByUse
  <2>2. entry_sequence = <<>> /\ t["hits"] = 0
    BY DEF Init, Counters
  <2> QED BY <2>1, <2>2 DEF Exact!Init, Exact!SetIndex, SetIndex
<1>2. Init => UseKept
  <2> SUFFICES ASSUME Init, NEW s \in SetIndex PROVE UseOrdered(cache[s].ways, t["entries"])
    BY DEF UseInv
  <2>1. TagsIn(cache[s].ways) = {}
    BY DEF Init, TagsIn
  <2> QED BY <2>1 DEF UseOrdered, TicksDiffer
<1>3. Sound /\ UseKept /\ [Next]_vars
        => UseKept' /\ [LruApplies /\ AllSingle(entry_sequence') => Exact!Next]_vars
  <2> SUFFICES ASSUME Sound, UseKept, [Next]_vars
               PROVE  UseKept' /\ [LruApplies /\ AllSingle(entry_sequence') => Exact!Next]_vars
    OBVIOUS
  <2>1. CASE Next
    <3>1. PICK id \in BlockId : Enter(id)
      BY <2>1 DEF Next
    <3>2. cfg' = cfg
      BY <3>1 DEF Enter
    <3>3. LruApplies' <=> LruApplies
      BY <3>2 DEF LruApplies
    <3>4. AllSingle(entry_sequence)' <=> AllSingle(entry_sequence')
      BY DEF AllSingle, Single, FirstLine, LastLine
    <3>5. LruApplies /\ AllSingle(entry_sequence') => Exact!Next /\ UseInv'
      BY <3>1, ExactStep
    <3> QED BY <3>3, <3>4, <3>5
  <2>2. CASE UNCHANGED vars
    BY <2>2 DEF vars, LruApplies, AllSingle, Single, FirstLine, LastLine, UseInv
  <2> QED BY <2>1, <2>2
<1> HIDE DEF UseKept
<1> QED BY <1>1, <1>2, <1>3, SoundInvariant, PTL DEF Spec, ImplementsLru

-----------------------------------------------------------------------------
(* Misses.  What is resident was brought by an entry, so an entry that asks *)
(* for a line nobody brought misses.                                       *)

LEMMA ResidentTags ==
  ASSUME NEW c \in SoundCaches, NEW line \in Nat
  PROVE  Resident(c, line) <=> TagOf(line) \in TagsIn(c[IndexOf(line)].ways)
<1> DEFINE ways == c[IndexOf(line)].ways
           k == WayHolding(c, line)
<1>1. SoundSet(c[IndexOf(line)])
  BY LineType DEF SoundCaches
<1>2. ways \in Seq(Way)
  BY <1>1, SetFields
<1>3. \/ k \in DOMAIN ways /\ ways[k].tag = TagOf(line)
      \/ k = 0 /\ \A i \in DOMAIN ways : ways[i].tag # TagOf(line)
  BY WayHoldingEffect
<1>4. 0 \notin DOMAIN ways
  BY <1>2
<1> HIDE DEF ways, k
<1>5. k # 0 <=> TagOf(line) \in TagsIn(ways)
  BY <1>3, <1>4 DEF TagsIn
<1> QED BY <1>5 DEF ways, k, Resident

HoldsOnly(c, lines) == \A line \in Nat : Resident(c, line) => line \in lines

\* Touching a line changes no tag.
LEMMA TouchHolds ==
  ASSUME NEW c \in SoundCaches, NEW line \in Nat, NEW tick \in Nat, NEW lines,
         HoldsOnly(c, lines)
  PROVE  HoldsOnly(TouchLine(c, line, tick), lines)
<1> DEFINE after == TouchLine(c, line, tick)
           s == IndexOf(line)
           i == WayHolding(c, line)
<1>1. s \in SetIndex /\ after \in SoundCaches /\ c \in [SetIndex -> Set]
  BY LineType, TouchLineSound DEF SoundCaches
<1>2. after = [c EXCEPT ![s] = IF cfg.policy = "LRU"
                               THEN [c[s] EXCEPT !.ways = [c[s].ways EXCEPT ![i].last_use = tick]]
                               ELSE [c[s] EXCEPT !.plru = TouchTree(@, i - 1)]]
  BY DEF TouchLine
<1> HIDE DEF after, i, s
<1>3. ASSUME NEW q \in SetIndex PROVE TagsIn(after[q].ways) = TagsIn(c[q].ways)
  <2>1. SoundSet(c[q])
    BY DEF SoundCaches
  <2>2. /\ c[q].ways \in Seq(Way)
        /\ c[q] = [ways |-> c[q].ways, plru |-> c[q].plru]
    BY <2>1, SetFields
  <2>3. \A k \in DOMAIN c[q].ways : c[q].ways[k] \in Way
    BY <2>2
  <2>4. CASE q # s
    BY <1>1, <1>2, <2>4
  <2>5. CASE q = s /\ cfg.policy = "LRU"
    <3>1. after[q].ways = [c[q].ways EXCEPT ![i].last_use = tick]
      BY <1>1, <1>2, <2>2, <2>5
    <3>2. /\ DOMAIN after[q].ways = DOMAIN c[q].ways
          /\ \A k \in DOMAIN c[q].ways : after[q].ways[k].tag = c[q].ways[k].tag
      BY <2>3, <3>1 DEF Way
    <3> QED BY <3>2 DEF TagsIn
  <2>6. CASE q = s /\ cfg.policy # "LRU"
    <3>1. after[q].ways = c[q].ways
      BY <1>1, <1>2, <2>2, <2>6
    <3> QED BY <3>1
  <2> QED BY <2>4, <2>5, <2>6
<1>4. ASSUME NEW l \in Nat, Resident(after, l) PROVE Resident(c, l)
  <2>1. IndexOf(l) \in SetIndex
    BY LineType
  <2>2. TagOf(l) \in TagsIn(after[IndexOf(l)].ways)
    BY <1>1, <1>4, ResidentTags
  <2>3. TagOf(l) \in TagsIn(c[IndexOf(l)].ways)
    BY <1>3, <2>1, <2>2
  <2> QED BY <2>3, ResidentTags
<1> QED BY <1>4 DEF HoldsOnly, after

\* Refilling a line brings that line only.
LEMMA RefillHolds ==
  ASSUME NEW s \in FillState, NEW line \in Nat, NEW tick \in Nat, NEW lines,
         HoldsOnly(s.cache, lines), line \in lines
  PROVE  HoldsOnly(RefillLine(s, line, tick).cache, lines)
<1> DEFINE c == s.cache
           q == IndexOf(line)
           set == c[q]
           room == IF IsFull(set) THEN Evicted(set) ELSE set
           new == [tag |-> TagOf(line), last_use |-> tick]
           ways == Append(room.ways, new)
           plru == IF cfg.policy = "PLRU" THEN TouchTree(room.plru, Len(ways) - 1) ELSE room.plru
           after == RefillLine(s, line, tick).cache
<1>1. /\ c \in SoundCaches /\ c \in [SetIndex -> Set] /\ q \in SetIndex /\ SoundSet(set)
      /\ after \in SoundCaches
  BY LineType, RefillLineSound DEF FillState, SoundCaches
<1>2. CASE Resident(c, line)
  BY <1>2 DEF RefillLine
<1>3. CASE ~Resident(c, line)
  <2>1. after = [c EXCEPT ![q] = [ways |-> ways, plru |-> plru]]
    BY <1>3 DEF RefillLine
  <2>2. room.ways \in Seq(Way) /\ TagsIn(room.ways) \subseteq TagsIn(set.ways)
    <3>1. CASE IsFull(set)
      <4>1. /\ SoundSet(Evicted(set))
            /\ \A k \in DOMAIN Evicted(set).ways :
                   \E j \in DOMAIN set.ways : Evicted(set).ways[k] = set.ways[j]
        BY <1>1, <3>1, EvictedSound
      <4>2. Evicted(set).ways \in Seq(Way)
        BY <4>1, SetFields
      <4> HIDE DEF set
      <4> QED BY <3>1, <4>1, <4>2 DEF TagsIn
    <3>2. CASE ~IsFull(set)
      <4>1. set.ways \in Seq(Way)
        BY <1>1, SetFields
      <4> QED BY <3>2, <4>1
    <3> QED BY <3>1, <3>2
  <2>3. new \in Way /\ new.tag = TagOf(line)
    BY LineType DEF Way
  <2> HIDE DEF room, new, set
  <2>4. TagsIn(ways) \subseteq TagsIn(room.ways) \cup {TagOf(line)}
    BY <2>2, <2>3 DEF TagsIn
  <2> HIDE DEF ways, plru, after, c, q
  <2>5. after[q].ways = ways /\ \A p \in SetIndex : p # q => after[p] = c[p]
    BY <1>1, <2>1
  <2>6. ASSUME NEW l \in Nat, Resident(after, l) PROVE Resident(c, l) \/ l = line
    <3>1. IndexOf(l) \in SetIndex /\ TagOf(l) \in TagsIn(after[IndexOf(l)].ways)
      BY <1>1, <2>6, LineType, ResidentTags
    <3>2. CASE IndexOf(l) # q
      <4>1. TagOf(l) \in TagsIn(c[IndexOf(l)].ways)
        BY <2>5, <3>1, <3>2
      <4> QED BY <1>1, <4>1, ResidentTags
    <3>3. CASE IndexOf(l) = q /\ TagOf(l) = TagOf(line)
      <4>1. LineIn(IndexOf(l), TagOf(l)) = l /\ LineIn(IndexOf(line), TagOf(line)) = line
        BY LineOfCoordinates
      <4> QED BY <3>3, <4>1 DEF q
    <3>4. CASE IndexOf(l) = q /\ TagOf(l) # TagOf(line)
      <4>1. TagOf(l) \in TagsIn(c[IndexOf(l)].ways)
        BY <2>2, <2>4, <2>5, <3>1, <3>4 DEF set
      <4> QED BY <1>1, <4>1, ResidentTags
    <3> QED BY <3>2, <3>3, <3>4
  <2>7. HoldsOnly(after, lines)
    BY <2>6 DEF HoldsOnly, c
  <2> QED BY <2>7 DEF after
<1> QED BY <1>2, <1>3

\* An entry leaves nothing in the cache but what was there and what it brings.
LEMMA HitHolds ==
  ASSUME Sound, NEW id \in BlockId, Hit(id), NEW lines, HoldsOnly(cache, lines)
  PROVE  HoldsOnly(cache', lines)
<1> DEFINE tick == t["entries"] + 1
           S == {c \in SoundCaches : HoldsOnly(c, lines)}
           first == FirstLine(id)
           last == LastLine(id)
<1>1. tick \in Nat /\ first \in Nat /\ last \in Nat /\ first <= last /\ cache \in S
  BY SpanType DEF Sound, Counters
<1>2. cache' = Touched(id, tick)
  BY DEF Hit
<1> HIDE DEF tick
<1>3. PICK g : TouchesLines(g, id, tick)
  BY <1>1, TouchedRuns
<1>4. ASSUME NEW n \in first .. last, g[n - 1] \in S PROVE g[n] \in S
  <2>1. n \in Nat /\ n \in Lines(id)
    BY <1>1 DEF Lines
  <2>2. g[n] = TouchLine(g[n - 1], n, tick)
    BY <1>3, <2>1 DEF TouchesLines
  <2> QED BY <1>1, <1>4, <2>1, <2>2, TouchHolds, TouchLineSound
<1>5. g[first - 1] \in S
  BY <1>1, <1>3 DEF TouchesLines
<1> HIDE DEF S, first, last
<1>6. g[last] \in S
  <2>1. \A n \in first .. last : g[n - 1] \in S => g[n] \in S
    BY <1>4
  <2>2. \A n \in first - 1 .. last : g[n] \in S
    BY <1>1, <1>5, <2>1, KeptThroughout
  <2> QED BY <1>1, <2>2
<1> QED BY <1>2, <1>3, <1>6 DEF TouchesLines, S, last

LEMMA MissHolds ==
  ASSUME Sound, NEW id \in BlockId, Miss(id), NEW lines, HoldsOnly(cache, lines),
         Brings(id) \subseteq lines
  PROVE  HoldsOnly(cache', lines)
<1> DEFINE tick == t["entries"] + 1
           S == {s \in FillState : HoldsOnly(s.cache, lines)}
           first == FirstLine(id)
           last == LastLine(id)
           start == [cache |-> cache, evictions |-> t["evictions"]]
           next == LastLine(id) + 1
           fetched == Refilled(id, tick)
           done == IF cfg.prefetch THEN RefillLine(fetched, next, tick) ELSE fetched
<1>1. /\ tick \in Nat /\ first \in Nat /\ last \in Nat /\ first <= last /\ next = last + 1
      /\ start \in S
  BY SpanType DEF Sound, Counters, FillState
<1>2. cache' = done.cache
  BY DEF Miss
<1>3. /\ first .. last \subseteq lines
      /\ cfg.prefetch => next \in lines
  BY <1>1 DEF Brings
<1> HIDE DEF tick, start
<1>4. PICK g : RefillsLines(g, id, tick)
  BY <1>1, RefilledRuns DEF Sound
<1>5. ASSUME NEW n \in first .. last, g[n - 1] \in S PROVE g[n] \in S
  <2>1. n \in Nat /\ n \in Lines(id) /\ n \in lines
    BY <1>1, <1>3 DEF Lines
  <2>2. g[n] = RefillLine(g[n - 1], n, tick)
    BY <1>4, <2>1 DEF RefillsLines
  <2>3. g[n - 1] \in FillState /\ HoldsOnly(g[n - 1].cache, lines)
    BY <1>5
  <2>4. tick \in Nat
    BY <1>1
  <2> HIDE DEF first, last
  <2>5. g[n] \in FillState
    BY <2>1, <2>2, <2>3, <2>4, RefillLineSound
  <2>6. HoldsOnly(g[n].cache, lines)
    BY <2>1, <2>2, <2>3, <2>4, RefillHolds
  <2> QED BY <2>5, <2>6
<1>6. g[first - 1] \in S
  BY <1>1, <1>4 DEF RefillsLines, start
<1>7. g[last] \in S
  <2> HIDE DEF S, first, last
  <2>1. \A n \in first .. last : g[n - 1] \in S => g[n] \in S
    BY <1>5
  <2>2. \A n \in first - 1 .. last : g[n] \in S
    BY <1>1, <1>6, <2>1, KeptThroughout
  <2> QED BY <1>1, <2>2
<1>8. fetched \in S
  BY <1>4, <1>7 DEF RefillsLines
<1>9. HoldsOnly(done.cache, lines)
  <2> HIDE DEF fetched, first, last
  <2>1. CASE cfg.prefetch
    <3>1. next \in Nat /\ next \in lines
      BY <1>1, <1>3, <2>1
    <3> HIDE DEF next
    <3> QED BY <1>1, <1>8, <2>1, <3>1, RefillHolds
  <2>2. CASE ~cfg.prefetch
    BY <1>8, <2>2
  <2> QED BY <2>1, <2>2
<1> QED BY <1>2, <1>9

\* The counters, and why a cold entry misses compulsorily: its line was never
\* in the cache, and had its block missed before it would have been brought.
Brought == UNION {Brings(entry_sequence[j]) : j \in DOMAIN entry_sequence}
UnusedClass == IF Sets > 1 THEN "capacity_misses" ELSE "conflict_misses"

Counted ==
    /\ t["entries"] = Len(entry_sequence)
    /\ t["entries"] = t["hits"] + t["misses"]
    /\ t["misses"] = t["compulsory_misses"] + t["conflict_misses"] + t["capacity_misses"]
    /\ t["compulsory_misses"] = Cardinality(block_seen)
    /\ t[UnusedClass] = 0
SeenEntered ==
    /\ IsFiniteSet(ToSet(entry_sequence))
    /\ block_seen \subseteq ToSet(entry_sequence)
ColdCounted ==
    /\ IsFiniteSet(ColdEntries)
    /\ Cardinality(ColdEntries) <= Cardinality(block_seen)
    /\ HoldsOnly(cache, Brought)
Classified == Counted /\ SeenEntered /\ ColdCounted

LEMMA ClassifiedIsProperty == Sound /\ Classified => MissesClassified
<1> SUFFICES ASSUME Sound, Classified PROVE MissesClassified
  OBVIOUS
<1>1. Cardinality(block_seen) <= Cardinality(ToSet(entry_sequence))
  BY FS_Subset DEF Classified, SeenEntered
<1> QED BY <1>1 DEF Classified, Counted, ColdCounted, MissesClassified, UnusedClass

\* An entry is cold if one of its lines was not brought yet.
LEMMA EntriesGrow ==
  ASSUME Sound, NEW id \in BlockId, Enter(id)
  PROVE  /\ Len(entry_sequence') = Len(entry_sequence) + 1
         /\ ToSet(entry_sequence)' = ToSet(entry_sequence) \cup {id}
         /\ Brought' = Brought \cup Brings(id)
         /\ ColdEntries' = ColdEntries \cup
              (IF Lines(id) \subseteq Brought THEN {} ELSE {Len(entry_sequence) + 1})
<1> DEFINE n == Len(entry_sequence)
           later == entry_sequence'
<1>1. /\ n \in Nat /\ DOMAIN entry_sequence = 1 .. n
      /\ later = Append(entry_sequence, id) /\ cfg' = cfg
  BY DEF Sound, Enter
<1>2. /\ Len(later) = n + 1 /\ DOMAIN later = 1 .. n + 1
      /\ later[n + 1] = id /\ \A k \in 1 .. n : later[k] = entry_sequence[k]
  BY <1>1 DEF Sound
<1>3. \A k : Brings(k)' = Brings(k)
  BY <1>1 DEF Brings, FirstLine, LastLine
<1>4. /\ n + 1 \in DOMAIN later /\ n + 1 \notin 1 .. n
      /\ \A k \in DOMAIN later : k \in 1 .. n \/ k = n + 1
      /\ \A k \in 1 .. n : k \in DOMAIN later
  BY <1>1, <1>2
<1>5. ToSet(later) = ToSet(entry_sequence) \cup {id}
  BY <1>1, <1>2, <1>4 DEF ToSet
<1>6. Brought' = Brought \cup Brings(id)
  <2>1. Brought' = UNION {Brings(later[j]) : j \in DOMAIN later}
    BY <1>3 DEF Brought
  <2>2. {Brings(later[j]) : j \in DOMAIN later}
          = {Brings(entry_sequence[j]) : j \in DOMAIN entry_sequence} \cup {Brings(id)}
    BY <1>1, <1>2, <1>4
  <2> QED BY <2>1, <2>2 DEF Brought
<1> DEFINE Cold(s, k) == \E line \in Lines(s[k]) : \A j \in 1 .. k - 1 : line \notin Brings(s[j])
<1>7. /\ ColdEntries = {k \in DOMAIN entry_sequence : Cold(entry_sequence, k)}
      /\ ColdEntries' = {k \in DOMAIN later : Cold(later, k)}
  BY <1>3 DEF ColdEntries, Lines, FirstLine, LastLine
<1>8. ASSUME NEW k \in 1 .. n PROVE Cold(later, k) <=> Cold(entry_sequence, k)
  <2>1. \A j \in 1 .. k - 1 : j \in 1 .. n
    BY <1>1
  <2> QED BY <1>2, <2>1
<1>9. Cold(later, n + 1) <=> ~(Lines(id) \subseteq Brought)
  <2>1. 1 .. (n + 1) - 1 = 1 .. n
    BY <1>1
  <2>2. Cold(later, n + 1)
          <=> \E line \in Lines(id) : \A j \in 1 .. n : line \notin Brings(entry_sequence[j])
    BY <1>2, <2>1
  <2> QED BY <1>1, <2>2 DEF Brought
<1> HIDE DEF Cold
<1>10. ColdEntries' = ColdEntries \cup
           (IF Lines(id) \subseteq Brought THEN {} ELSE {n + 1})
  BY <1>1, <1>4, <1>7, <1>8, <1>9
<1> QED BY <1>2, <1>5, <1>6, <1>10

LEMMA EnterCounted ==
  ASSUME Sound, Counted, IsFiniteSet(block_seen), NEW id \in BlockId, Enter(id)
  PROVE  Counted'
<1>1. /\ t \in [Counters -> Nat]
      /\ t["entries"] = Len(entry_sequence)
      /\ t["entries"] = t["hits"] + t["misses"]
      /\ t["misses"] = t["compulsory_misses"] + t["conflict_misses"] + t["capacity_misses"]
      /\ t["compulsory_misses"] = Cardinality(block_seen)
      /\ t[UnusedClass] = 0 /\ UnusedClass \in Classes
  BY DEF Sound, Counted, UnusedClass, Classes
<1>2. /\ \A k \in Counters : t[k] \in Nat
      /\ t["hits"] \in Nat /\ t["misses"] \in Nat /\ t["entries"] \in Nat
  BY <1>1 DEF Counters
<1>3. Len(entry_sequence') = Len(entry_sequence) + 1
  BY EntriesGrow
<1>6. /\ t["entries"] + 1 = Len(entry_sequence')
      /\ t["entries"] + 1 = (t["hits"] + 1) + t["misses"]
      /\ t["entries"] + 1 = t["hits"] + (t["misses"] + 1)
  <2>1. t["entries"] = Len(entry_sequence) /\ t["entries"] = t["hits"] + t["misses"]
    BY <1>1
  <2> QED BY <1>2, <1>3, <2>1
<1>4. CASE Hit(id)
  <2>1. HitCounts /\ block_seen' = block_seen
    BY <1>4, HitEffect
  <2>2. /\ t'["entries"] = t["entries"] + 1
        /\ t'["hits"] = t["hits"] + 1
        /\ t'["misses"] = t["misses"]
        /\ \A k \in Classes : t'[k] = t[k]
    BY <2>1 DEF HitCounts
  <2>3. t'["entries"] = Len(entry_sequence') /\ t'["entries"] = t'["hits"] + t'["misses"]
    BY <1>6, <2>2
  <2>4. /\ t'["misses"]
            = t'["compulsory_misses"] + t'["conflict_misses"] + t'["capacity_misses"]
        /\ t'["compulsory_misses"] = Cardinality(block_seen')
    BY <1>1, <2>1, <2>2 DEF Classes
  <2> QED BY <1>1, <2>2, <2>3, <2>4 DEF Counted, UnusedClass
<1>5. CASE Miss(id)
  <2>1. MissCounts(id) /\ block_seen' = block_seen \cup {id}
    BY <1>5, MissEffect
  <2>2. Cardinality(block_seen') = IF id \in block_seen THEN Cardinality(block_seen)
                                   ELSE Cardinality(block_seen) + 1
    BY <2>1, FS_AddElement
  <2>3. /\ MissKind(id) = "compulsory_misses" <=> id \notin block_seen
        /\ MissKind(id) # UnusedClass
    BY DEF MissKind, UnusedClass
  <2>4. /\ t'["compulsory_misses"] = Cardinality(block_seen')
        /\ t'[UnusedClass] = 0
    BY <1>1, <2>1, <2>2, <2>3 DEF MissCounts, Classes
  <2>5. t'["misses"]
          = t'["compulsory_misses"] + t'["conflict_misses"] + t'["capacity_misses"]
    BY <1>1, <1>2, <2>1, MissKindType DEF MissCounts, Classes, Counters
  <2>6. t'["entries"] = Len(entry_sequence') /\ t'["entries"] = t'["hits"] + t'["misses"]
    <3>1. /\ t'["entries"] = t["entries"] + 1
          /\ t'["hits"] = t["hits"]
          /\ t'["misses"] = t["misses"] + 1
      BY <2>1 DEF MissCounts
    <3> QED BY <1>6, <3>1
  <2> QED BY <2>4, <2>5, <2>6 DEF Counted, UnusedClass
<1> QED BY <1>4, <1>5 DEF Enter

\* A cold entry is a miss of a block that has not missed: one block more has.
LEMMA EnterClassified ==
  ASSUME Sound, Classified, NEW id \in BlockId, Enter(id)
  PROVE  Classified'
<1> DEFINE n == Len(entry_sequence)
<1>1. /\ IsFiniteSet(ToSet(entry_sequence)) /\ block_seen \subseteq ToSet(entry_sequence)
      /\ IsFiniteSet(block_seen) /\ IsFiniteSet(ColdEntries)
      /\ Cardinality(ColdEntries) <= Cardinality(block_seen)
      /\ Cardinality(ColdEntries) \in Nat /\ Cardinality(block_seen) \in Nat
      /\ HoldsOnly(cache, Brought)
  BY FS_Subset, FS_CardinalityType DEF Classified, SeenEntered, ColdCounted
<1>2. /\ ToSet(entry_sequence)' = ToSet(entry_sequence) \cup {id}
      /\ Brought' = Brought \cup Brings(id)
      /\ ColdEntries' = ColdEntries \cup (IF Lines(id) \subseteq Brought THEN {} ELSE {n + 1})
  BY EntriesGrow
<1>3. block_seen' = IF Hit(id) THEN block_seen ELSE block_seen \cup {id}
  BY HitEffect, MissEffect DEF Enter
<1>4. /\ IsFiniteSet(block_seen')
      /\ Cardinality(block_seen') = IF Hit(id) \/ id \in block_seen THEN Cardinality(block_seen)
                                    ELSE Cardinality(block_seen) + 1
  BY <1>1, <1>3, FS_AddElement
<1>5. Counted'
  BY <1>1, EnterCounted DEF Classified
<1>6. SeenEntered'
  <2>1. IsFiniteSet(ToSet(entry_sequence) \cup {id})
    BY <1>1, FS_AddElement
  <2> QED BY <1>1, <1>2, <1>3, <2>1 DEF SeenEntered
<1>7. HoldsOnly(cache', Brought')
  <2>1. HoldsOnly(cache, Brought') /\ Brings(id) \subseteq Brought'
    BY <1>1, <1>2 DEF HoldsOnly
  <2> QED BY <2>1, HitHolds, MissHolds DEF Enter
<1>8. /\ IsFiniteSet(ColdEntries')
      /\ Cardinality(ColdEntries') <= Cardinality(block_seen')
  <2>1. CASE Lines(id) \subseteq Brought
    <3>1. ColdEntries' = ColdEntries
      BY <1>2, <2>1
    <3> QED BY <1>1, <1>4, <3>1
  <2>2. CASE ~(Lines(id) \subseteq Brought)
    <3>1. ~Hit(id)
      <4>1. PICK line \in Lines(id) : line \notin Brought
        BY <2>2
      <4>2. line \in Nat
        BY SpanType DEF Lines
      <4> QED BY <1>1, <4>1, <4>2 DEF Hit, HoldsOnly
    <3>2. id \notin block_seen
      <4>1. Lines(id) \subseteq Brings(id)
        BY SpanType DEF Lines, Brings
      <4>2. id \in ToSet(entry_sequence) => Brings(id) \subseteq Brought
        BY DEF ToSet, Brought
      <4> QED BY <1>1, <2>2, <4>1, <4>2
    <3>3. Cardinality(block_seen') = Cardinality(block_seen) + 1
      BY <1>4, <3>1, <3>2
    <3>4. PICK k : ColdEntries' = ColdEntries \cup {k}
      BY <1>2, <2>2
    <3>5. /\ IsFiniteSet(ColdEntries \cup {k})
          /\ Cardinality(ColdEntries \cup {k}) = IF k \in ColdEntries THEN Cardinality(ColdEntries)
                                                 ELSE Cardinality(ColdEntries) + 1
      BY <1>1, FS_AddElement
    <3>6. IsFiniteSet(ColdEntries') /\ Cardinality(ColdEntries') <= Cardinality(ColdEntries) + 1
      BY <1>1, <3>4, <3>5
    <3>7. Cardinality(ColdEntries') \in Nat
      BY <3>6, FS_CardinalityType
    <3> QED BY <1>1, <3>3, <3>6, <3>7
  <2> QED BY <2>1, <2>2
<1> QED BY <1>5, <1>6, <1>7, <1>8 DEF Classified, ColdCounted

\* Every entry of a block is a hit or a miss of one class, the one the geometry
\* leaves unused counts nothing, the entries that ask for a line nobody brought
\* are no more than the compulsory misses, and no block misses compulsorily
\* twice, however often lines are evicted (icache.cpp:148-162).
THEOREM MissesAreClassified == Spec => []MissesClassified
<1>1. Init => Classified
  <2> SUFFICES ASSUME Init PROVE Classified
    OBVIOUS
  <2>1. entry_sequence = <<>> /\ block_seen = {} /\ \A k \in Counters : t[k] = 0
    BY DEF Init
  <2>2. DOMAIN entry_sequence = {} /\ Len(entry_sequence) = 0
    BY <2>1
  <2>3. IsFiniteSet({}) /\ Cardinality({}) = 0
    BY FS_EmptySet
  <2>4. ToSet(entry_sequence) = {} /\ ColdEntries = {}
    BY <2>2 DEF ToSet, ColdEntries
  <2>5. HoldsOnly(cache, Brought)
    <3>1. \A s \in SetIndex : TagsIn(cache[s].ways) = {}
      BY DEF Init, TagsIn
    <3>2. cache \in SoundCaches
      BY InitSound DEF Sound
    <3> QED BY <3>1, <3>2, LineType, ResidentTags DEF HoldsOnly
  <2>6. Counted
    BY <2>1, <2>2, <2>3 DEF Counted, UnusedClass, Counters
  <2>7. SeenEntered
    BY <2>1, <2>3, <2>4 DEF SeenEntered
  <2>8. Cardinality(ColdEntries) = 0 /\ Cardinality(block_seen) = 0 /\ IsFiniteSet(ColdEntries)
    BY <2>1, <2>3, <2>4, Zenon
  <2>9. ColdCounted
    BY <2>5, <2>8 DEF ColdCounted
  <2> QED BY <2>6, <2>7, <2>9 DEF Classified
<1>2. Sound /\ Classified /\ [Next]_vars => Classified'
  <2>1. ASSUME Classified, UNCHANGED vars PROVE Classified'
    <3>1. Counted' /\ SeenEntered'
      BY <2>1 DEF vars, Classified, Counted, SeenEntered
    <3>2. /\ Brought' = Brought /\ ColdEntries' = ColdEntries
          /\ HoldsOnly(cache', Brought) <=> HoldsOnly(cache, Brought)
      BY <2>1 DEF vars, Brought, ColdEntries, Brings, Lines, FirstLine, LastLine
    <3>3. ColdCounted'
      BY <2>1, <3>2 DEF vars, Classified, ColdCounted
    <3> QED BY <3>1, <3>3 DEF Classified
  <2> QED BY <2>1, EnterClassified DEF Next
<1> QED BY <1>1, <1>2, ClassifiedIsProperty, SoundInvariant, PTL DEF Spec

-----------------------------------------------------------------------------
(* A loop on a block that fits settles under LRU.  The lines used since the *)
(* loop began are lines of the block, and the oldest go first, so none of   *)
(* them is evicted while others are left; every set that lacks a line of    *)
(* the block gains one with every entry.                                    *)

\* The tags used after a tick, and those of a block's lines in a set.
Fresh(ways, since) == {ways[i].tag : i \in {j \in DOMAIN ways : ways[j].last_use > since}}
BlockTags(id, s) == {TagOf(l) : l \in {k \in Lines(id) : IndexOf(k) = s}}

LEMMA FreshIsIn ==
  ASSUME NEW ways, NEW since
  PROVE  Fresh(ways, since) \subseteq TagsIn(ways)
BY DEF Fresh, TagsIn

LEMMA FreshType ==
  ASSUME NEW c \in SoundCaches, NEW s \in SetIndex
  PROVE  /\ c[s].ways \in Seq(Way) /\ DistinctTags(c[s].ways)
         /\ IsFiniteSet(TagsIn(c[s].ways))
         /\ \A since : IsFiniteSet(Fresh(c[s].ways, since))
<1>1. SoundSet(c[s])
  BY DEF SoundCaches
<1>2. c[s].ways \in Seq(Way) /\ DistinctTags(c[s].ways)
  BY <1>1, SetFields
<1>3. IsFiniteSet(TagsIn(c[s].ways))
  BY <1>2, UseInEffect
<1>4. \A since : Fresh(c[s].ways, since) \subseteq TagsIn(c[s].ways)
  BY FreshIsIn
<1> QED BY <1>2, <1>3, <1>4, FS_Subset

LEMMA TouchFresh ==
  ASSUME NEW c \in SoundCaches, NEW line \in Nat, NEW tick \in Nat, cfg.policy = "LRU",
         NEW s \in SetIndex
  PROVE  LET d == TouchLine(c, line, tick)
         IN  /\ TagsIn(d[s].ways) = TagsIn(c[s].ways)
             /\ \A since \in Nat : Fresh(d[s].ways, since) \subseteq
                    Fresh(c[s].ways, since) \cup (IF tick > since /\ IndexOf(line) = s
                                                  THEN {TagOf(line)} ELSE {})
<1> DEFINE r == IndexOf(line)
           k == WayHolding(c, line)
           d == TouchLine(c, line, tick)
           old == c[s].ways
           new == d[s].ways
<1>1. r \in SetIndex /\ c \in [SetIndex -> Set] /\ d = [c EXCEPT ![r].ways[k].last_use = tick]
  BY LineType DEF TouchLine, SoundCaches
<1>2. CASE r # s
  BY <1>1, <1>2
<1>3. CASE r = s
  <2>1. new = [old EXCEPT ![k].last_use = tick]
    <3>1. c[s] \in Set
      BY <1>1
    <3> HIDE DEF k
    <3> QED BY <1>1, <1>3, <3>1 DEF Set
  <2>2. k \in DOMAIN old => old[k].tag = TagOf(line)
    BY <1>3, WayHoldingEffect, FreshType
  <2>3. \A i \in DOMAIN old : old[i] \in Way
    BY FreshType
  <2> HIDE DEF old, new, k, d, r
  <2>4. /\ DOMAIN new = DOMAIN old
        /\ \A i \in DOMAIN old : /\ new[i].tag = old[i].tag
                                 /\ new[i].last_use = IF i = k THEN tick ELSE old[i].last_use
    BY <2>1, <2>3 DEF Way
  <2>5. TagsIn(new) = TagsIn(old)
    BY <2>4 DEF TagsIn
  <2>6. ASSUME NEW since \in Nat, NEW tag \in Fresh(new, since)
        PROVE  tag \in Fresh(old, since) \/ (tick > since /\ tag = TagOf(line))
    <3>1. PICK i \in DOMAIN new : new[i].last_use > since /\ tag = new[i].tag
      BY <2>6 DEF Fresh
    <3>2. CASE i = k
      BY <2>2, <2>4, <3>1, <3>2
    <3>3. CASE i # k
      BY <2>4, <3>1, <3>3 DEF Fresh
    <3> QED BY <3>2, <3>3
  <2> QED BY <1>3, <2>5, <2>6 DEF old, new, d, r
<1> QED BY <1>2, <1>3

\* What a refill leaves in the set of its line.
RefillKeeps(old, new, tag, tick) ==
    /\ TagsIn(new) \subseteq TagsIn(old) \cup {tag}
    /\ \A since \in Nat :
          /\ Fresh(new, since) \subseteq Fresh(old, since) \cup (IF tick > since THEN {tag} ELSE {})
          /\ tick > since => tag \in Fresh(new, since)
          /\ \A B : IsFiniteSet(B) /\ Cardinality(B) <= Ways /\ tag \in B
                      /\ Fresh(old, since) \subseteq B
                        => Fresh(old, since) \subseteq Fresh(new, since)

\* An eviction spares the fresh ways as long as another is left.
LEMMA EvictionSparesFresh ==
  ASSUME NEW set, SoundSet(set), IsFull(set), cfg.policy = "LRU", NEW since \in Nat,
         NEW B, IsFiniteSet(B), Cardinality(B) <= Ways, NEW tag \in B,
         tag \notin TagsIn(set.ways), Fresh(set.ways, since) \subseteq B
  PROVE  ~ (set.ways[VictimOf(set)].last_use > since)
<1> DEFINE ways == set.ways
           v == VictimOf(set)
<1>1. /\ ways \in Seq(Way) /\ DistinctTags(ways) /\ Len(ways) = Ways /\ Ways \in Nat
  BY SetFields DEF IsFull
<1> SUFFICES ASSUME ways[v].last_use > since PROVE FALSE
  OBVIOUS
<1>2. v \in DOMAIN ways
  BY VictimIsHeld
<1>3. \A i \in DOMAIN ways : ways[i].last_use \in Nat
  <2>1. \A i \in DOMAIN ways : ways[i] \in Way
    BY <1>1
  <2> QED BY <2>1 DEF Way
<1>4. /\ ways[v].tag \in TagsIn(ways) /\ UseIn(ways)[ways[v].tag] = ways[v].last_use
      /\ \A i \in DOMAIN ways : ways[i].tag \in TagsIn(ways)
                                /\ UseIn(ways)[ways[i].tag] = ways[i].last_use
      /\ IsFiniteSet(TagsIn(ways)) /\ Cardinality(TagsIn(ways)) = Ways
  <2> HIDE DEF ways, v
  <2> QED BY <1>1, <1>2, UseInEffect
<1>5. \A other \in TagsIn(ways) : UseIn(ways)[ways[v].tag] <= UseIn(ways)[other]
  BY EvictionRemoves
<1> HIDE DEF ways, v
<1>6. \A i \in DOMAIN ways : ways[i].last_use > since
  BY <1>2, <1>3, <1>4, <1>5
<1>7. TagsIn(ways) \subseteq Fresh(ways, since)
  BY <1>6 DEF TagsIn, Fresh
<1>8. Fresh(ways, since) \subseteq B /\ tag \notin TagsIn(ways)
  BY DEF ways
<1>9. TagsIn(ways) \cup {tag} \subseteq B
  BY <1>7, <1>8
<1>10. Cardinality(TagsIn(ways) \cup {tag}) = Ways + 1
  BY <1>4, <1>8, FS_AddElement
<1>11. Cardinality(TagsIn(ways) \cup {tag}) <= Cardinality(B) /\ Cardinality(B) \in Nat
  BY <1>9, FS_Subset, FS_CardinalityType
<1> QED BY <1>1, <1>10, <1>11

LEMMA RefillFresh ==
  ASSUME NEW f \in FillState, NEW line \in Nat, NEW tick \in Nat, cfg.policy = "LRU",
         ~Resident(f.cache, line)
  PROVE  LET d == RefillLine(f, line, tick).cache
             s == IndexOf(line)
         IN  /\ \A r \in SetIndex \ {s} : d[r] = f.cache[r]
             /\ RefillKeeps(f.cache[s].ways, d[s].ways, TagOf(line), tick)
<1> DEFINE d == RefillLine(f, line, tick).cache
           s == IndexOf(line)
           tag == TagOf(line)
           set == f.cache[s]
           old == set.ways
           room == IF IsFull(set) THEN Evicted(set) ELSE set
           entry == [tag |-> tag, last_use |-> tick]
           new == Append(room.ways, entry)
<1>1. /\ f.cache \in SoundCaches /\ f.cache \in [SetIndex -> Set] /\ s \in SetIndex
      /\ tag \in Nat /\ SoundSet(set)
  BY LineType DEF FillState, SoundCaches
<1>2. /\ \A r \in SetIndex \ {s} : d[r] = f.cache[r]
      /\ d[s].ways = new
  BY <1>1 DEF RefillLine
<1>3. tag \notin TagsIn(old)
  BY <1>1, ResidentTags
<1>4. /\ old \in Seq(Way) /\ Ways \in Nat \ {0} /\ Len(old) <= Ways
  BY <1>1, SetFields
<1>5. /\ room.ways \in Seq(Way)
      /\ \A i \in DOMAIN room.ways : \E j \in DOMAIN old : room.ways[i] = old[j]
      /\ \A j \in DOMAIN old : \/ IsFull(set) /\ j = VictimOf(set)
                               \/ \E i \in DOMAIN room.ways : room.ways[i] = old[j]
  <2>1. CASE ~IsFull(set)
    BY <1>4, <2>1
  <2>2. CASE IsFull(set)
    <3> DEFINE v == VictimOf(set)
               left == Evicted(set).ways
    <3>1. /\ SoundSet(Evicted(set)) /\ Len(left) = Ways - 1
          /\ \A i \in DOMAIN left : \E j \in DOMAIN old : left[i] = old[j]
          /\ \A i \in 1 .. Ways - 1 : left[i] = old[IF i < v THEN i ELSE i + 1]
      BY <1>1, <2>2, EvictedSound
    <3>2. left \in Seq(Way)
      BY <3>1, SetFields
    <3>3. v \in DOMAIN old /\ DOMAIN old = 1 .. Ways /\ DOMAIN left = 1 .. Ways - 1
      BY <1>1, <1>4, <2>2, <3>1, <3>2, VictimIsHeld DEF IsFull
    <3> HIDE DEF v, left, old
    <3>4. ASSUME NEW j \in DOMAIN old, j # v PROVE \E i \in DOMAIN left : left[i] = old[j]
      <4>1. CASE j < v
        <5>1. j \in 1 .. Ways - 1 /\ left[j] = old[j]
          BY <1>4, <3>1, <3>3, <4>1
        <5> QED BY <3>3, <5>1
      <4>2. CASE j > v
        <5>1. j - 1 \in 1 .. Ways - 1 /\ ~(j - 1 < v) /\ (j - 1) + 1 = j
          BY <1>4, <3>3, <4>2
        <5>2. left[j - 1] = old[j]
          BY <3>1, <5>1
        <5> QED BY <3>3, <5>1, <5>2
      <4> QED BY <3>3, <3>4, <4>1, <4>2
    <3>5. room.ways = left
      BY <2>2 DEF left
    <3> HIDE DEF room
    <3> QED BY <2>2, <3>1, <3>2, <3>4, <3>5 DEF v
  <2> QED BY <2>1, <2>2
<1>6. entry \in Way /\ entry.tag = tag /\ entry.last_use = tick
  BY <1>1 DEF Way
<1> DEFINE kept == room.ways
<1>7. kept \in Seq(Way) /\ new = Append(kept, entry)
  BY <1>5
<1>8. /\ \A i \in DOMAIN kept : \E j \in DOMAIN old : kept[i] = old[j]
      /\ \A j \in DOMAIN old : \/ IsFull(set) /\ j = VictimOf(set)
                               \/ \E i \in DOMAIN kept : kept[i] = old[j]
  BY <1>5
<1> HIDE DEF entry, kept, room, new
<1>9. /\ DOMAIN new = DOMAIN kept \cup {Len(kept) + 1}
      /\ \A i \in DOMAIN kept : new[i] = kept[i]
      /\ new[Len(kept) + 1] = entry
  BY <1>6, <1>7
<1> DEFINE n == Len(kept) + 1
<1>10. DOMAIN new = DOMAIN kept \cup {n} /\ new[n] = entry
  BY <1>9
<1> HIDE DEF n, old
<1>11. TagsIn(new) \subseteq TagsIn(old) \cup {tag}
  BY <1>6, <1>8, <1>9, <1>10 DEF TagsIn
<1>12. ASSUME NEW since \in Nat
       PROVE  /\ Fresh(new, since) \subseteq Fresh(old, since) \cup (IF tick > since THEN {tag} ELSE {})
              /\ tick > since => tag \in Fresh(new, since)
  BY <1>6, <1>8, <1>9, <1>10 DEF Fresh
<1>13. ASSUME NEW since \in Nat, NEW B, IsFiniteSet(B), Cardinality(B) <= Ways, tag \in B,
              Fresh(old, since) \subseteq B
       PROVE  Fresh(old, since) \subseteq Fresh(new, since)
  <2> SUFFICES ASSUME NEW j \in DOMAIN old, old[j].last_use > since
               PROVE  old[j].tag \in Fresh(new, since)
    BY DEF Fresh
  <2>1. ~ (IsFull(set) /\ j = VictimOf(set))
    <3> SUFFICES ASSUME IsFull(set) PROVE j # VictimOf(set)
      OBVIOUS
    <3>1. ~ (old[VictimOf(set)].last_use > since)
      <4> HIDE DEF set, tag
      <4> QED BY <1>1, <1>3, <1>13, EvictionSparesFresh DEF old
    <3> QED BY <3>1
  <2>2. PICK i \in DOMAIN kept : kept[i] = old[j]
    BY <1>8, <2>1
  <2>3. i \in DOMAIN new /\ new[i] = old[j]
    BY <1>9, <2>2
  <2> QED BY <2>3 DEF Fresh
<1>14. RefillKeeps(old, new, tag, tick)
  <2> HIDE DEF tag
  <2> QED BY <1>11, <1>12, <1>13 DEF RefillKeeps
<1> QED BY <1>2, <1>14 DEF old

LEMMA BlockTagsFit ==
  ASSUME NEW id \in BlockId, NEW s \in SetIndex
  PROVE  /\ IsFiniteSet(BlockTags(id, s))
         /\ Fits(id) => Cardinality(BlockTags(id, s)) <= Ways
<1> DEFINE here == {l \in Lines(id) : IndexOf(l) = s}
           tags == BlockTags(id, s)
           f == [l \in here |-> TagOf(l)]
<1>1. IsFiniteSet(here)
  <2>1. FirstLine(id) \in Int /\ LastLine(id) \in Int
    BY SpanType
  <2>2. IsFiniteSet(Lines(id))
    BY <2>1, FS_Interval DEF Lines
  <2>3. here \in SUBSET Lines(id)
    OBVIOUS
  <2> HIDE DEF here
  <2> QED BY <2>2, <2>3, FS_Subset
<1>2. f \in Surjection(here, tags)
  BY DEF BlockTags, Surjection
<1>3. Fits(id) => Cardinality(here) <= Ways
  BY DEF Fits
<1> HIDE DEF here, tags, f
<1>4. IsFiniteSet(tags) /\ Cardinality(tags) <= Cardinality(here)
  BY <1>1, <1>2, FS_Surjection
<1>5. Cardinality(tags) \in Nat /\ Cardinality(here) \in Nat /\ Ways \in Nat
  BY <1>1, <1>4, FS_CardinalityType, WaysAssumption
<1> QED BY <1>3, <1>4, <1>5 DEF tags

\* Touching a block makes no line fresh but its own, and moves none.
Moderate(c, id, s) ==
    /\ TagsIn(c[s].ways) = TagsIn(cache[s].ways)
    /\ \A since \in Nat : Fresh(c[s].ways, since) \subseteq
                              Fresh(cache[s].ways, since) \cup BlockTags(id, s)

LEMMA TouchedFresh ==
  ASSUME cache \in SoundCaches, NEW id \in BlockId, NEW tick \in Nat, cfg.policy = "LRU",
         NEW s \in SetIndex
  PROVE  /\ Moderate(Touched(id, tick), id, s)
         /\ \A since \in Nat : tick <= since =>
                Fresh(Touched(id, tick)[s].ways, since) \subseteq Fresh(cache[s].ways, since)
<1> DEFINE first == FirstLine(id)
           last == LastLine(id)
           Old(c) == \A since \in Nat : tick <= since =>
                         Fresh(c[s].ways, since) \subseteq Fresh(cache[s].ways, since)
           Good(c) == Moderate(c, id, s) /\ Old(c)
<1>1. first \in Nat /\ last \in Nat /\ first <= last
  BY SpanType
<1>2. PICK g : TouchesLines(g, id, tick)
  BY TouchedRuns
<1> DEFINE G == {c \in SoundCaches : Good(c)}
           h == [n \in first - 1 .. last |-> g[n]]
<1>3. /\ g[first - 1] = cache /\ g[last] \in SoundCaches /\ Touched(id, tick) = g[last]
      /\ \A n \in first .. last : g[n - 1] \in SoundCaches /\ g[n] = TouchLine(g[n - 1], n, tick)
  BY <1>2 DEF TouchesLines, Lines
<1>4. g[first - 1] \in G
  BY <1>3 DEF Moderate
<1>5. ASSUME NEW n \in first .. last, g[n - 1] \in G
      PROVE  g[n] \in G
  <2> DEFINE c == g[n - 1]
             d == g[n]
  <2>1. n \in Nat /\ n \in Lines(id)
    BY <1>1 DEF Lines
  <2>2. c \in SoundCaches /\ Good(c) /\ d = TouchLine(c, n, tick)
    BY <1>3, <1>5
  <2>3. d \in SoundCaches
    BY <2>1, <2>2, TouchLineSound
  <2>4. /\ TagsIn(d[s].ways) = TagsIn(c[s].ways)
        /\ \A since \in Nat : Fresh(d[s].ways, since) \subseteq
               Fresh(c[s].ways, since) \cup (IF tick > since /\ IndexOf(n) = s
                                             THEN {TagOf(n)} ELSE {})
    <3> HIDE DEF c, d, first, last
    <3> QED BY <2>1, <2>2, TouchFresh
  <2>5. IndexOf(n) = s => TagOf(n) \in BlockTags(id, s)
    BY <2>1 DEF BlockTags
  <2> HIDE DEF c, d
  <2>6. Moderate(d, id, s)
    BY <2>2, <2>4, <2>5 DEF Moderate
  <2>7. Old(d)
    <3> SUFFICES ASSUME NEW since \in Nat, tick <= since
                 PROVE  Fresh(d[s].ways, since) \subseteq Fresh(cache[s].ways, since)
      OBVIOUS
    <3>1. ~(tick > since)
      OBVIOUS
    <3>2. Fresh(c[s].ways, since) \subseteq Fresh(cache[s].ways, since)
      BY <2>2
    <3> QED BY <2>4, <3>1, <3>2
  <2>8. d \in G
    <3> HIDE DEF Old
    <3> QED BY <2>3, <2>6, <2>7
  <2> QED BY <2>8 DEF d
<1> HIDE DEF G, first, last
<1>6. \A n \in first - 1 .. last : g[n] \in G
  BY <1>1, <1>4, <1>5, KeptThroughout
<1>7. g[last] \in G
  BY <1>1, <1>6
<1> QED BY <1>3, <1>7 DEF G

\* What the refill of the lines of a block up to n has done to a set.
RefilledUpTo(c, id, s, tick, n) ==
    LET was == cache[s].ways
        now == c[s].ways
    IN  /\ TagsIn(now) \subseteq
               TagsIn(was) \cup {TagOf(l) : l \in {k \in FirstLine(id) .. n : IndexOf(k) = s}}
        /\ \A since \in Nat : Fresh(now, since) \subseteq
               Fresh(was, since) \cup (IF tick > since THEN BlockTags(id, s) ELSE {})
        /\ \A since \in Nat : tick > since /\ Fits(id) /\ Fresh(was, since) \subseteq BlockTags(id, s) =>
               /\ Fresh(was, since) \subseteq Fresh(now, since)
               /\ \A l \in FirstLine(id) .. n : IndexOf(l) = s /\ TagOf(l) \notin TagsIn(was)
                                                    => TagOf(l) \in Fresh(now, since)
        /\ BlockTags(id, s) \subseteq TagsIn(was) => c[s] = cache[s]

LEMMA RefilledStep ==
  ASSUME cache \in SoundCaches, NEW id \in BlockId, NEW tick \in Nat, cfg.policy = "LRU",
         NEW s \in SetIndex, NEW n \in Lines(id), NEW f \in FillState,
         RefilledUpTo(f.cache, id, s, tick, n - 1)
  PROVE  RefilledUpTo(RefillLine(f, n, tick).cache, id, s, tick, n)
<1> DEFINE c == f.cache
           d == RefillLine(f, n, tick).cache
           B == BlockTags(id, s)
           tag == TagOf(n)
           before == FirstLine(id) .. n - 1
           upto == FirstLine(id) .. n
           was == cache[s].ways
           mid == c[s].ways
           now == d[s].ways
           Seen(L) == {TagOf(l) : l \in {k \in L : IndexOf(k) = s}}
<1>1. /\ n \in Nat /\ upto = before \cup {n} /\ before \subseteq upto
  <2>1. FirstLine(id) \in Nat /\ LastLine(id) \in Nat
    BY SpanType
  <2> QED BY <2>1 DEF Lines
<1>2. IndexOf(n) = s => tag \in B
  BY DEF BlockTags
<1>3. IsFiniteSet(B) /\ (Fits(id) => Cardinality(B) <= Ways)
  BY BlockTagsFit
<1>4. c \in SoundCaches
  BY DEF FillState
<1>5. /\ TagsIn(mid) \subseteq TagsIn(was) \cup Seen(before)
      /\ \A since \in Nat : Fresh(mid, since) \subseteq
             Fresh(was, since) \cup (IF tick > since THEN B ELSE {})
      /\ \A since \in Nat : tick > since /\ Fits(id) /\ Fresh(was, since) \subseteq B =>
             /\ Fresh(was, since) \subseteq Fresh(mid, since)
             /\ \A l \in before : IndexOf(l) = s /\ TagOf(l) \notin TagsIn(was)
                                                  => TagOf(l) \in Fresh(mid, since)
      /\ B \subseteq TagsIn(was) => c[s] = cache[s]
  BY DEF RefilledUpTo
<1>6. Resident(c, n) <=> tag \in TagsIn(c[IndexOf(n)].ways)
  BY <1>1, <1>4, ResidentTags
<1> SUFFICES /\ TagsIn(now) \subseteq TagsIn(was) \cup Seen(upto)
             /\ \A since \in Nat : Fresh(now, since) \subseteq
                    Fresh(was, since) \cup (IF tick > since THEN B ELSE {})
             /\ \A since \in Nat : tick > since /\ Fits(id) /\ Fresh(was, since) \subseteq B =>
                    /\ Fresh(was, since) \subseteq Fresh(now, since)
                    /\ \A l \in upto : IndexOf(l) = s /\ TagOf(l) \notin TagsIn(was)
                                                         => TagOf(l) \in Fresh(now, since)
             /\ B \subseteq TagsIn(was) => d[s] = cache[s]
  BY DEF RefilledUpTo
<1>7. Seen(upto) = Seen(before) \cup (IF IndexOf(n) = s THEN {tag} ELSE {})
  <2> HIDE DEF upto, before
  <2> QED BY <1>1
<1>8. ASSUME d[s] = c[s], IndexOf(n) = s => tag \in TagsIn(mid)
      PROVE  /\ \A since \in Nat : tick > since /\ Fits(id) /\ Fresh(was, since) \subseteq B =>
                    /\ Fresh(was, since) \subseteq Fresh(now, since)
                    /\ \A l \in upto : IndexOf(l) = s /\ TagOf(l) \notin TagsIn(was)
                                                         => TagOf(l) \in Fresh(now, since)
             /\ TagsIn(now) \subseteq TagsIn(was) \cup Seen(upto)
             /\ \A since \in Nat : Fresh(now, since) \subseteq
                    Fresh(was, since) \cup (IF tick > since THEN B ELSE {})
             /\ B \subseteq TagsIn(was) => d[s] = cache[s]
  <2>1. now = mid
    BY <1>8
  <2>2. ASSUME NEW since \in Nat, tick > since, Fits(id), Fresh(was, since) \subseteq B,
               IndexOf(n) = s, tag \notin TagsIn(was)
        PROVE  tag \in Fresh(mid, since)
    <3>1. tag \in Seen(before)
      BY <1>5, <1>8, <2>2
    <3>2. PICK l \in before : IndexOf(l) = s /\ TagOf(l) = tag
      BY <3>1
    <3> HIDE DEF before, tag, B, mid, was
    <3> QED BY <1>5, <2>2, <3>2
  <2> HIDE DEF upto, before, B, tag, was, mid, now, c, d
  <2>3. TagsIn(now) \subseteq TagsIn(was) \cup Seen(upto)
    <3> HIDE DEF Seen
    <3> QED BY <1>5, <1>7, <2>1
  <2> HIDE DEF Seen
  <2>4. ASSUME NEW since \in Nat, tick > since, Fits(id), Fresh(was, since) \subseteq B
        PROVE  /\ Fresh(was, since) \subseteq Fresh(now, since)
               /\ \A l \in upto : IndexOf(l) = s /\ TagOf(l) \notin TagsIn(was)
                                                         => TagOf(l) \in Fresh(now, since)
    <3>1. /\ Fresh(was, since) \subseteq Fresh(mid, since)
          /\ \A l \in before : IndexOf(l) = s /\ TagOf(l) \notin TagsIn(was)
                                                  => TagOf(l) \in Fresh(mid, since)
      BY <1>5, <2>4
    <3>2. IndexOf(n) = s /\ TagOf(n) \notin TagsIn(was) => TagOf(n) \in Fresh(mid, since)
      BY <2>2, <2>4 DEF tag
    <3> QED BY <1>1, <2>1, <3>1, <3>2
  <2>5. B \subseteq TagsIn(was) => d[s] = cache[s]
    BY <1>5, <1>8
  <2> QED BY <1>5, <2>1, <2>3, <2>4, <2>5
<1>9. CASE Resident(c, n)
  <2>1. d = c
    BY <1>9 DEF RefillLine
  <2>2. IndexOf(n) = s => tag \in TagsIn(mid)
    BY <1>6, <1>9
  <2> QED BY <1>8, <2>1, <2>2
<1>10. CASE ~Resident(c, n) /\ IndexOf(n) # s
  <2>1. d[s] = c[s]
    BY <1>1, <1>10, RefillFresh
  <2> QED BY <1>8, <1>10, <2>1
<1>11. CASE ~Resident(c, n) /\ IndexOf(n) = s
  <2>1. RefillKeeps(mid, now, tag, tick)
    BY <1>1, <1>11, RefillFresh
  <2>2. tag \in B
    BY <1>2, <1>11
  <2>3. tag \notin TagsIn(mid)
    BY <1>6, <1>11
  <2> HIDE DEF upto, before, B, tag, was, mid, now, d
  <2>4. TagsIn(now) \subseteq TagsIn(was) \cup Seen(upto)
    <3>1. TagsIn(now) \subseteq TagsIn(mid) \cup {tag}
      BY <2>1 DEF RefillKeeps
    <3> HIDE DEF Seen
    <3> QED BY <1>5, <1>7, <1>11, <3>1
  <2>5. \A since \in Nat : Fresh(now, since) \subseteq
             Fresh(was, since) \cup (IF tick > since THEN B ELSE {})
    <3> SUFFICES ASSUME NEW since \in Nat
                 PROVE  Fresh(now, since) \subseteq
                            Fresh(was, since) \cup (IF tick > since THEN B ELSE {})
      OBVIOUS
    <3>1. Fresh(now, since) \subseteq Fresh(mid, since) \cup (IF tick > since THEN {tag} ELSE {})
      BY <2>1 DEF RefillKeeps
    <3> QED BY <1>5, <2>2, <3>1
  <2>6. ASSUME NEW since \in Nat, tick > since, Fits(id), Fresh(was, since) \subseteq B
        PROVE  /\ Fresh(was, since) \subseteq Fresh(now, since)
               /\ \A l \in upto : IndexOf(l) = s /\ TagOf(l) \notin TagsIn(was)
                                                         => TagOf(l) \in Fresh(now, since)
    <3>1. Fresh(mid, since) \subseteq B
      BY <1>5, <2>6
    <3>2. Fresh(mid, since) \subseteq Fresh(now, since)
      BY <1>3, <2>1, <2>2, <2>6, <3>1 DEF RefillKeeps
    <3>3. tag \in Fresh(now, since)
      BY <2>1, <2>6 DEF RefillKeeps
    <3>4. /\ Fresh(was, since) \subseteq Fresh(mid, since)
          /\ \A l \in before : IndexOf(l) = s /\ TagOf(l) \notin TagsIn(was)
                                                  => TagOf(l) \in Fresh(mid, since)
      BY <1>5, <2>6
    <3>5. TagOf(n) \in Fresh(now, since)
      BY <3>3 DEF tag
    <3> QED BY <1>1, <3>2, <3>4, <3>5
  <2>7. ~(B \subseteq TagsIn(was))
    <3> SUFFICES ASSUME B \subseteq TagsIn(was) PROVE FALSE
      OBVIOUS
    <3>1. mid = was
      BY <1>5 DEF mid, was
    <3> QED BY <2>2, <2>3, <3>1
  <2> HIDE DEF Seen
  <2> QED BY <2>4, <2>5, <2>6, <2>7
<1> QED BY <1>8, <1>9, <1>10, <1>11

LEMMA RefilledFresh ==
  ASSUME cache \in SoundCaches, t \in [Counters -> Nat], NEW id \in BlockId, NEW tick \in Nat,
         cfg.policy = "LRU", NEW s \in SetIndex
  PROVE  RefilledUpTo(Refilled(id, tick).cache, id, s, tick, LastLine(id))
<1> DEFINE first == FirstLine(id)
           last == LastLine(id)
           start == [cache |-> cache, evictions |-> t["evictions"]]
           Done(n, f) == f \in FillState /\ RefilledUpTo(f.cache, id, s, tick, n)
<1>1. first \in Nat /\ last \in Nat /\ first <= last
  BY SpanType
<1>2. PICK g : RefillsLines(g, id, tick)
  BY RefilledRuns
<1>3. /\ g[first - 1] = start /\ g[last] \in FillState /\ Refilled(id, tick) = g[last]
      /\ \A n \in first .. last : g[n - 1] \in FillState /\ g[n] = RefillLine(g[n - 1], n, tick)
  BY <1>2 DEF RefillsLines, Lines
<1>4. Done(first - 1, g[first - 1])
  <2>1. first .. first - 1 = {}
    BY <1>1
  <2>2. start.cache = cache /\ start \in FillState
    BY DEF FillState, Counters
  <2>3. RefilledUpTo(cache, id, s, tick, first - 1)
    BY <2>1 DEF RefilledUpTo
  <2> QED BY <1>3, <2>2, <2>3
<1>5. ASSUME NEW n \in first .. last, Done(n - 1, g[n - 1])
      PROVE  Done(n, g[n])
  <2>1. n \in Nat /\ n \in Lines(id)
    BY <1>1 DEF Lines
  <2>2. g[n - 1] \in FillState /\ g[n] = RefillLine(g[n - 1], n, tick)
    BY <1>3
  <2>3. g[n] \in FillState
    BY <2>1, <2>2, RefillLineSound
  <2>4. RefilledUpTo(RefillLine(g[n - 1], n, tick).cache, id, s, tick, n)
    <3> HIDE DEF first, last
    <3> QED BY <1>5, <2>1, <2>2, RefilledStep
  <2> QED BY <2>2, <2>3, <2>4
<1> DEFINE h == [n \in first - 1 .. last |-> n]
           S == {n \in first - 1 .. last : Done(n, g[n])}
<1> HIDE DEF first, last, Done
<1>6. \A n \in first - 1 .. last : h[n] \in S
  <2>1. h[first - 1] \in S
    BY <1>1, <1>4
  <2>2. ASSUME NEW n \in first .. last, h[n - 1] \in S PROVE h[n] \in S
    <3>1. n - 1 \in first - 1 .. last /\ n \in first - 1 .. last
      BY <1>1
    <3>2. Done(n - 1, g[n - 1])
      BY <2>2, <3>1
    <3> QED BY <1>5, <3>1, <3>2
  <2> HIDE DEF h, S
  <2> QED BY <1>1, <2>1, <2>2, KeptThroughout
<1>7. Done(last, g[last])
  BY <1>1, <1>6
<1> QED BY <1>3, <1>7 DEF Done, last

\* The run ends in k entries of a block.
LoopedFor(id, k) ==
    LET len == Len(entry_sequence)
    IN  k <= len /\ \A i \in len - k + 1 .. len : entry_sequence[i] = id

\* After k entries in a row, the lines a set used meanwhile are of the block, and
\* all of the block's are there or k of them were brought.
Settling(id, k, s) ==
    LET ways == cache[s].ways
        fresh == Fresh(ways, t["entries"] - k)
    IN  /\ fresh \subseteq BlockTags(id, s)
        /\ BlockTags(id, s) \subseteq TagsIn(ways) \/ k <= Cardinality(fresh)

NoneFromTheFuture == \A s \in SetIndex : Fresh(cache[s].ways, t["entries"]) = {}
SettlesLater ==
    \A id \in BlockId, k \in Nat, s \in SetIndex :
        Fits(id) /\ LoopedFor(id, k) => Settling(id, k, s)
SettleInv == cfg.policy = "LRU" /\ ~cfg.prefetch => NoneFromTheFuture /\ SettlesLater

\* What an entry does to a set in which only lines of the block are fresh.
EntrySettles(id, s) ==
    LET was == cache[s].ways
        now == cache'[s].ways
        tick == t["entries"] + 1
        B == BlockTags(id, s)
    IN  \A since \in Nat : since < tick /\ Fresh(was, since) \subseteq B =>
            /\ Fresh(now, since) \subseteq B
            /\ \/ B \subseteq TagsIn(now)
               \/ /\ ~(B \subseteq TagsIn(was))
                  /\ Cardinality(Fresh(now, since)) >= Cardinality(Fresh(was, since)) + 1

LEMMA NothingLater ==
  ASSUME NEW c \in SoundCaches, NEW s \in SetIndex, NEW tick \in Nat,
         Fresh(c[s].ways, tick) = {}
  PROVE  Fresh(c[s].ways, tick + 1) = {}
<1> DEFINE ways == c[s].ways
<1>1. ways \in Seq(Way)
  BY FreshType
<1> HIDE DEF ways
<1>2. \A i \in DOMAIN ways : ways[i] \in Way
  BY <1>1
<1>3. \A i \in DOMAIN ways : ways[i].last_use > tick + 1 => ways[i].last_use > tick
  BY <1>2 DEF Way
<1>4. Fresh(ways, tick + 1) \subseteq Fresh(ways, tick)
  BY <1>3 DEF Fresh
<1> QED BY <1>4 DEF ways

LEMMA HitSettles ==
  ASSUME Sound, cfg.policy = "LRU", NEW id \in BlockId, Hit(id), NEW s \in SetIndex,
         Fresh(cache[s].ways, t["entries"]) = {}
  PROVE  EntrySettles(id, s) /\ Fresh(cache'[s].ways, t["entries"] + 1) = {}
<1> DEFINE tick == t["entries"] + 1
           d == Touched(id, tick)
           B == BlockTags(id, s)
<1>1. cache \in SoundCaches /\ t["entries"] \in Nat /\ tick \in Nat
  BY DEF Sound, Counters
<1>2. cache' = d /\ \A line \in Lines(id) : Resident(cache, line)
  BY DEF Hit
<1>3. /\ Moderate(d, id, s)
      /\ \A since \in Nat : tick <= since =>
             Fresh(d[s].ways, since) \subseteq Fresh(cache[s].ways, since)
  <2> HIDE DEF tick
  <2> QED BY <1>1, TouchedFresh
<1>4. B \subseteq TagsIn(cache[s].ways)
  <2> SUFFICES ASSUME NEW line \in Lines(id), IndexOf(line) = s
               PROVE  TagOf(line) \in TagsIn(cache[s].ways)
    BY DEF BlockTags
  <2>1. line \in Nat
    BY SpanType DEF Lines
  <2> QED BY <1>1, <1>2, <2>1, ResidentTags
<1>5. Fresh(cache[s].ways, tick) = {}
  BY <1>1, NothingLater
<1> HIDE DEF d, B
<1>6. Fresh(d[s].ways, tick) = {}
  BY <1>1, <1>3, <1>5
<1> QED BY <1>2, <1>3, <1>4, <1>6 DEF Moderate, EntrySettles, B

LEMMA MissSettles ==
  ASSUME Sound, cfg.policy = "LRU", ~cfg.prefetch, NEW id \in BlockId, Miss(id),
         NEW s \in SetIndex, Fresh(cache[s].ways, t["entries"]) = {}
  PROVE  (Fits(id) => EntrySettles(id, s)) /\ Fresh(cache'[s].ways, t["entries"] + 1) = {}
<1> DEFINE tick == t["entries"] + 1
           d == Refilled(id, tick).cache
           B == BlockTags(id, s)
           was == cache[s].ways
           now == d[s].ways
<1>1. cache \in SoundCaches /\ t["entries"] \in Nat /\ tick \in Nat /\ t \in [Counters -> Nat]
  BY DEF Sound, Counters
<1>2. cache' = d
  BY DEF Miss
<1>3. RefilledUpTo(d, id, s, tick, LastLine(id))
  <2> HIDE DEF tick
  <2> QED BY <1>1, RefilledFresh
<1>4. d \in SoundCaches
  <2> HIDE DEF tick
  <2> QED BY <1>1, RefilledSound DEF FillState
<1>5. ASSUME Fits(id), NEW since \in Nat, since < tick, Fresh(was, since) \subseteq B
      PROVE  /\ Fresh(now, since) \subseteq B
             /\ \/ B \subseteq TagsIn(now)
                \/ /\ ~(B \subseteq TagsIn(was))
                   /\ Cardinality(Fresh(now, since)) >= Cardinality(Fresh(was, since)) + 1
  <2>1. tick > since
    BY <1>1, <1>5
  <2>2. /\ Fresh(now, since) \subseteq Fresh(was, since) \cup B
        /\ Fresh(was, since) \subseteq Fresh(now, since)
        /\ \A l \in Lines(id) : IndexOf(l) = s /\ TagOf(l) \notin TagsIn(was)
                                    => TagOf(l) \in Fresh(now, since)
        /\ B \subseteq TagsIn(was) => d[s] = cache[s]
    <3> HIDE DEF tick, d
    <3> QED BY <1>3, <1>5, <2>1 DEF RefilledUpTo, Lines
  <2>3. CASE B \subseteq TagsIn(was)
    <3>1. now = was
      BY <2>2, <2>3
    <3> QED BY <1>5, <2>3, <3>1
  <2>4. CASE ~(B \subseteq TagsIn(was))
    <3>1. PICK l \in Lines(id) : IndexOf(l) = s /\ TagOf(l) \notin TagsIn(was)
      BY <2>4 DEF BlockTags
    <3>2. TagOf(l) \in Fresh(now, since) /\ TagOf(l) \notin Fresh(was, since)
      BY <2>2, <3>1, FreshIsIn
    <3> DEFINE old == Fresh(was, since)
               new == Fresh(now, since)
               tag == TagOf(l)
    <3>3. IsFiniteSet(old) /\ IsFiniteSet(new)
      BY <1>1, <1>4, FreshType
    <3>4. old \cup {tag} \subseteq new /\ tag \notin old /\ new \subseteq B
      BY <1>5, <2>2, <3>2
    <3> HIDE DEF old, new, tag
    <3>5. Cardinality(old \cup {tag}) = Cardinality(old) + 1
      BY <3>3, <3>4, FS_AddElement
    <3>6. Cardinality(old \cup {tag}) <= Cardinality(new)
      BY <3>3, <3>4, FS_Subset
    <3>7. Cardinality(old) \in Nat /\ Cardinality(new) \in Nat
      BY <3>3, FS_CardinalityType
    <3>8. Cardinality(new) >= Cardinality(old) + 1
      BY <3>5, <3>6, <3>7
    <3> QED BY <2>4, <3>4, <3>8 DEF old, new
  <2> QED BY <2>3, <2>4
<1>6. Fresh(now, tick) = {}
  <2>1. Fresh(was, tick) = {}
    BY <1>1, NothingLater
  <2>2. Fresh(now, tick) \subseteq Fresh(was, tick) \cup (IF tick > tick THEN B ELSE {})
    <3> HIDE DEF tick, d, B
    <3> QED BY <1>1, <1>3 DEF RefilledUpTo, B
  <2>3. ~(tick > tick)
    BY <1>1
  <2> QED BY <2>1, <2>2, <2>3
<1> HIDE DEF d, B, tick
<1> QED BY <1>2, <1>5, <1>6 DEF EntrySettles, tick, B

LEMMA LoopedForAppend ==
  ASSUME NEW k \in Nat, NEW id \in BlockId, NEW last \in BlockId,
         entry_sequence \in Seq(BlockId), entry_sequence' = Append(entry_sequence, last),
         LoopedFor(id, k + 1)'
  PROVE  id = last /\ LoopedFor(id, k)
<1> DEFINE len == Len(entry_sequence)
           seq == entry_sequence
<1>1. len \in Nat /\ Len(seq') = len + 1 /\ seq'[len + 1] = last
      /\ \A i \in 1 .. len : seq'[i] = seq[i]
  OBVIOUS
<1>2. k + 1 <= len + 1 /\ \A i \in (len + 1) - (k + 1) + 1 .. len + 1 : seq'[i] = id
  BY <1>1 DEF LoopedFor
<1>3. k <= len /\ len + 1 \in (len + 1) - (k + 1) + 1 .. len + 1
  BY <1>1, <1>2
<1>4. ASSUME NEW i \in len - k + 1 .. len PROVE seq[i] = id
  <2>1. i \in (len + 1) - (k + 1) + 1 .. len + 1 /\ i \in 1 .. len
    BY <1>1, <1>3
  <2> QED BY <1>1, <1>2, <2>1
<1> QED BY <1>1, <1>2, <1>3, <1>4 DEF LoopedFor

LEMMA SettleStep ==
  ASSUME Sound, t["entries"] = Len(entry_sequence), cfg.policy = "LRU", ~cfg.prefetch,
         NoneFromTheFuture, SettlesLater, NEW last \in BlockId, Enter(last)
  PROVE  NoneFromTheFuture' /\ SettlesLater'
<1> DEFINE now == t["entries"]
<1>1. /\ now \in Nat /\ entry_sequence \in Seq(BlockId) /\ now = Len(entry_sequence)
      /\ entry_sequence' = Append(entry_sequence, last)
  BY DEF Sound, Enter, Counters
<1>2. t'["entries"] = now + 1 /\ cache' \in SoundCaches
  BY HitEffect, MissEffect DEF Enter, HitCounts, MissCounts
<1>3. ASSUME NEW s \in SetIndex
      PROVE  (Fits(last) => EntrySettles(last, s)) /\ Fresh(cache'[s].ways, now + 1) = {}
  BY HitSettles, MissSettles DEF Enter, NoneFromTheFuture
<1>4. NoneFromTheFuture'
  BY <1>2, <1>3 DEF NoneFromTheFuture, Fresh, SetIndex
<1>5. ASSUME NEW id \in BlockId, NEW k \in Nat, NEW s \in SetIndex, Fits(id), LoopedFor(id, k)'
      PROVE  LET ways == cache'[s].ways
                 fresh == Fresh(ways, (now + 1) - k)
             IN  /\ fresh \subseteq BlockTags(id, s)
                 /\ BlockTags(id, s) \subseteq TagsIn(ways) \/ k <= Cardinality(fresh)
  <2> DEFINE ways == cache'[s].ways
  <2>1. CASE k = 0
    <3>1. (now + 1) - k = now + 1
      BY <1>1, <2>1
    <3>2. Fresh(ways, (now + 1) - k) = {}
      BY <1>3, <3>1
    <3> DEFINE fresh == Fresh(ways, (now + 1) - k)
    <3>3. fresh = {} /\ Cardinality({}) = 0
      BY <3>2, FS_EmptySet
    <3> HIDE DEF fresh
    <3>4. Cardinality(fresh) = 0
      BY <3>3, Zenon
    <3>5. fresh \subseteq BlockTags(id, s) /\ k <= Cardinality(fresh)
      BY <2>1, <3>3, <3>4
    <3> QED BY <3>5 DEF fresh
  <2>2. CASE k # 0
    <3> DEFINE j == k - 1
               since == now - j
               old == Fresh(cache[s].ways, since)
               new == Fresh(ways, since)
    <3>1. j \in Nat /\ k = j + 1 /\ (now + 1) - k = since
      BY <1>1, <2>2
    <3>2. id = last /\ LoopedFor(id, j)
      <4>1. LoopedFor(id, j + 1)'
        BY <1>5, <3>1
      <4> HIDE DEF j
      <4> QED BY <1>1, <3>1, <4>1, LoopedForAppend
    <3>3. Settling(id, j, s)
      BY <1>5, <3>1, <3>2 DEF SettlesLater
    <3>4. j <= now
      BY <1>1, <3>2 DEF LoopedFor
    <3>5. since \in Nat /\ since < now + 1
      BY <1>1, <3>1, <3>4
    <3>6. /\ old \subseteq BlockTags(id, s)
          /\ BlockTags(id, s) \subseteq TagsIn(cache[s].ways) \/ j <= Cardinality(old)
      BY <3>3 DEF Settling
    <3>7. EntrySettles(last, s)
      BY <1>3, <1>5, <3>2
    <3>8. /\ new \subseteq BlockTags(id, s)
          /\ \/ BlockTags(id, s) \subseteq TagsIn(ways)
             \/ /\ ~(BlockTags(id, s) \subseteq TagsIn(cache[s].ways))
                /\ Cardinality(new) >= Cardinality(old) + 1
      <4> HIDE DEF since
      <4> QED BY <3>2, <3>5, <3>6, <3>7 DEF EntrySettles
    <3>9. IsFiniteSet(old) /\ IsFiniteSet(new)
      BY <1>2, FreshType DEF Sound
    <3>10. Cardinality(old) \in Nat /\ Cardinality(new) \in Nat
      BY <3>9, FS_CardinalityType
    <3> HIDE DEF old, new, since, j
    <3>11. \/ BlockTags(id, s) \subseteq TagsIn(ways)
           \/ k <= Cardinality(new)
      BY <3>1, <3>6, <3>8, <3>10
    <3>12. new = Fresh(ways, (now + 1) - k)
      BY <3>1 DEF new
    <3> QED BY <3>8, <3>11, <3>12
  <2> QED BY <2>1, <2>2
<1>6. SettlesLater'
  <2> SUFFICES ASSUME NEW id \in BlockId, NEW k \in Nat, NEW s \in SetIndex, Fits(id),
                      LoopedFor(id, k)'
               PROVE  Settling(id, k, s)'
    BY DEF SettlesLater, SetIndex, Fits, Lines, FirstLine, LastLine, IndexOf
  <2>1. BlockTags(id, s)' = BlockTags(id, s)
    BY DEF BlockTags, Lines, FirstLine, LastLine, IndexOf, TagOf
  <2> QED BY <1>2, <1>5, <2>1 DEF Settling, Fresh, TagsIn
<1> QED BY <1>4, <1>6

\* A loop on a block that fits leaves it resident after as many entries as a set
\* has ways, for every geometry and every history before the loop, whatever lines
\* of its own the refill of the block evicts meanwhile (icache.cpp:83-97, 99-128,
\* 164-166).
THEOREM LoopsSettle == Spec => []LoopSettles
<1>1. Init => SettleInv
  <2> SUFFICES ASSUME Init PROVE NoneFromTheFuture /\ SettlesLater
    BY DEF SettleInv
  <2>1. Len(entry_sequence) = 0 /\ t["entries"] = 0
    BY DEF Init, Counters
  <2>2. ASSUME NEW s \in SetIndex, NEW since PROVE Fresh(cache[s].ways, since) = {}
    BY DEF Init, Fresh
  <2>3. ASSUME NEW id \in BlockId, NEW k \in Nat, NEW s \in SetIndex, LoopedFor(id, k)
        PROVE  Settling(id, k, s)
    <3>1. k = 0
      BY <2>1, <2>3 DEF LoopedFor
    <3> DEFINE fresh == Fresh(cache[s].ways, t["entries"] - k)
    <3>2. fresh = {} /\ Cardinality({}) = 0
      BY <2>2, FS_EmptySet
    <3> HIDE DEF fresh
    <3>3. Cardinality(fresh) = 0
      BY <3>2, Zenon
    <3>4. fresh \subseteq BlockTags(id, s) /\ k <= Cardinality(fresh)
      BY <3>1, <3>2, <3>3
    <3> QED BY <3>4 DEF fresh, Settling
  <2> QED BY <2>2, <2>3 DEF NoneFromTheFuture, SettlesLater
<1>2. Sound /\ MissesClassified /\ SettleInv /\ [Next]_vars => SettleInv'
  <2> SUFFICES ASSUME Sound, MissesClassified, SettleInv, [Next]_vars
               PROVE  SettleInv'
    OBVIOUS
  <2>1. CASE Next
    <3>1. PICK id \in BlockId : Enter(id)
      BY <2>1 DEF Next
    <3>2. cfg' = cfg
      BY <3>1 DEF Enter
    <3>3. cfg.policy = "LRU" /\ ~cfg.prefetch => NoneFromTheFuture' /\ SettlesLater'
      BY <3>1, SettleStep DEF SettleInv, MissesClassified
    <3> QED BY <3>2, <3>3 DEF SettleInv
  <2>2. CASE UNCHANGED vars
    <3>1. NoneFromTheFuture' <=> NoneFromTheFuture
      BY <2>2 DEF vars, NoneFromTheFuture, Fresh, SetIndex
    <3>2. ASSUME NEW id \in BlockId, NEW k \in Nat, NEW s \in SetIndex
          PROVE  /\ LoopedFor(id, k)' <=> LoopedFor(id, k)
                 /\ Settling(id, k, s)' <=> Settling(id, k, s)
                 /\ Fits(id)' <=> Fits(id)
      BY <2>2 DEF vars, LoopedFor, Settling, Fresh, BlockTags, TagsIn, Fits, Lines, FirstLine,
                  LastLine, IndexOf, TagOf, SetIndex
    <3>3. SettlesLater => SettlesLater'
      BY <3>2 DEF SettlesLater, SetIndex
    <3> QED BY <2>2, <3>1, <3>3 DEF SettleInv, vars
  <2> QED BY <2>1, <2>2
<1>3. Sound /\ MissesClassified /\ SettleInv => LoopSettles
  <2> SUFFICES ASSUME Sound, SettleInv, cfg.policy = "LRU", ~cfg.prefetch, EndsInLoop(Ways),
                      Fits(Last(entry_sequence)), NEW line \in Lines(Last(entry_sequence))
               PROVE  Resident(cache, line)
    BY DEF LoopSettles
  <2> DEFINE id == Last(entry_sequence)
             s == IndexOf(line)
             ways == cache[s].ways
             fresh == Fresh(ways, t["entries"] - Ways)
             B == BlockTags(id, s)
  <2>1. Ways \in Nat \ {0}
    BY WaysAssumption
  <2>2. id \in BlockId /\ LoopedFor(id, Ways)
    <3>1. Len(entry_sequence) >= Ways /\ Len(entry_sequence) \in Nat
          /\ entry_sequence \in Seq(BlockId)
      BY DEF EndsInLoop, Sound
    <3>2. id = entry_sequence[Len(entry_sequence)]
      BY DEF Last
    <3>3. Len(entry_sequence) \in 1 .. Len(entry_sequence)
      BY <2>1, <3>1
    <3> HIDE DEF id
    <3> QED BY <2>1, <3>1, <3>2, <3>3 DEF EndsInLoop, LoopedFor
  <2> HIDE DEF id
  <2>3. line \in Nat /\ s \in SetIndex /\ TagOf(line) \in B
    <3>1. line \in Nat /\ line \in Lines(id)
      BY <2>2, SpanType DEF Lines, id
    <3> QED BY <3>1, LineType DEF BlockTags
  <2>4. Fits(id)
    BY DEF id
  <2>5. fresh \subseteq B /\ (B \subseteq TagsIn(ways) \/ Ways <= Cardinality(fresh))
    <3> HIDE DEF s
    <3> QED BY <2>1, <2>2, <2>3, <2>4 DEF SettleInv, SettlesLater, Settling
  <2>6. IsFiniteSet(B) /\ Cardinality(B) <= Ways
    BY <2>2, <2>3, <2>4, BlockTagsFit
  <2>7. fresh \subseteq TagsIn(ways)
    BY FreshIsIn
  <2> HIDE DEF fresh, B
  <2>8. B \subseteq TagsIn(ways)
    <3>1. CASE Ways <= Cardinality(fresh)
      <4>1. Cardinality(fresh) <= Cardinality(B) /\ IsFiniteSet(fresh)
            /\ (Cardinality(B) = Cardinality(fresh) => B = fresh)
        BY <2>5, <2>6, FS_Subset
      <4>2. Cardinality(B) \in Nat /\ Cardinality(fresh) \in Nat
        BY <2>6, <4>1, FS_CardinalityType
      <4>3. Cardinality(B) = Cardinality(fresh)
        BY <2>1, <2>6, <3>1, <4>1, <4>2
      <4> QED BY <2>7, <4>1, <4>3
    <3> QED BY <2>5, <3>1
  <2> QED BY <2>3, <2>8, ResidentTags DEF Sound
<1> QED BY <1>1, <1>2, <1>3, SoundInvariant, MissesAreClassified, PTL DEF Spec
=============================================================================
