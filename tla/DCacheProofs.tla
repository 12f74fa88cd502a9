---------------------------- MODULE DCacheProofs ----------------------------
(***************************************************************************)
(* Theorems about DCache, for every geometry, latency, buffer depth, set   *)
(* of configurations and set of addresses; and about DCacheMemory, which   *)
(* lets data follow it.                                                    *)
(***************************************************************************)
EXTENDS DCacheMemory, DCacheRecency, ReplacementProofs

LEMMA FirstWayInSet ==
  ASSUME NEW S \in SUBSET WayIndex, S # {}
  PROVE  FirstWay(S) \in S
<1>1. S \in SUBSET Nat
  BY DEF WayIndex
<1>2. \E w \in S : \A v \in S : w <= v
  BY <1>1, LeastElement
<1> QED BY <1>2 DEF FirstWay

-----------------------------------------------------------------------------
(* Arithmetic of addresses and counters.                                   *)

LEMMA ProductType == \A a, b \in Nat : a * b \in Nat
OBVIOUS

\* The coordinates of a line in the cache determine the line.
LEMMA LineCoordinates ==
  ASSUME NEW line \in Nat
  PROVE  /\ IndexOf(line) \in SetIndex
         /\ TagOf(line) \in Nat
         /\ LineAt(IndexOf(line), TagOf(line)) = line
BY DCacheAssumption DEF IndexOf, TagOf, LineAt, SetIndex

\* And back.
LEMMA LineAtCoordinates ==
  ASSUME NEW s \in SetIndex, NEW tag \in Nat
  PROVE  IndexOf(LineAt(s, tag)) = s /\ TagOf(LineAt(s, tag)) = tag
BY DCacheAssumption DEF IndexOf, TagOf, LineAt, SetIndex

LEMMA LineOfType ==
  ASSUME NEW addr \in Nat
  PROVE  LineOf(addr) \in Nat
BY DCacheAssumption DEF LineOf

LEMMA RaiseType ==
  ASSUME NEW c \in [Counters -> Nat], NEW by, \A k \in DOMAIN by : by[k] \in Nat
  PROVE  Raise(c, by) \in [Counters -> Nat]
<1>1. \A k \in Counters : (IF k \in DOMAIN by THEN c[k] + by[k] ELSE c[k]) \in Nat
  OBVIOUS
<1> QED BY <1>1 DEF Raise

LEMMA OneType == \A c \in BOOLEAN : One(c) \in {0, 1}
BY DEF One

LEMMA CountAccessEffect ==
  ASSUME TypeOK, NEW kind \in Kind, NEW outcome \in {"hits", "misses"}
  PROVE  /\ CountAccess(kind, outcome) \in [Counters -> Nat]
         /\ \A k \in Counters : CountAccess(kind, outcome)[k] =
              t[k] + One(k \in {"accesses", outcome, IF kind = "Load" THEN "loads" ELSE "stores"})
<1> DEFINE by == [k \in {"accesses", outcome, IF kind = "Load" THEN "loads" ELSE "stores"} |-> 1]
<1>1. t \in [Counters -> Nat]
  BY DEF TypeOK
<1>2. CountAccess(kind, outcome) = Raise(t, by)
  BY DEF CountAccess
<1>3. \A k \in DOMAIN by : by[k] \in Nat
  OBVIOUS
<1>4. Raise(t, by) \in [Counters -> Nat]
  <2> HIDE DEF by
  <2> QED BY <1>1, <1>3, RaiseType
<1>5. \A k \in Counters : Raise(t, by)[k] =
        t[k] + One(k \in {"accesses", outcome, IF kind = "Load" THEN "loads" ELSE "stores"})
  BY <1>1 DEF Raise, One
<1> QED BY <1>2, <1>4, <1>5

LEMMA CountBufferedEffect ==
  ASSUME NEW c \in [Counters -> Nat], NEW buffered \in BOOLEAN, pending_writes \in Nat
  PROVE  /\ CountBuffered(c, buffered) \in [Counters -> Nat]
         /\ CountBuffered(c, buffered)["write_buffer_drains"] =
              c["write_buffer_drains"] + One(Drains(buffered))
         /\ CountBuffered(c, buffered)["write_stalls"] =
              c["write_stalls"] + One(Drains(buffered)) * MissPenalty
         /\ \A k \in Counters \ {"write_buffer_drains", "write_stalls"} :
              CountBuffered(c, buffered)[k] = c[k]
<1> DEFINE d == One(Drains(buffered))
           by == [write_buffer_drains |-> d, write_stalls |-> d * MissPenalty]
<1>1. d \in Nat /\ d * MissPenalty \in Nat
  <2>1. Drains(buffered) \in BOOLEAN
    BY DEF Drains
  <2>2. d \in {0, 1}
    BY <2>1, OneType
  <2> QED BY <2>2, DCacheAssumption
<1>2. CountBuffered(c, buffered) = Raise(c, by)
  BY DEF CountBuffered
<1> HIDE DEF d
<1>3. DOMAIN by = {"write_buffer_drains", "write_stalls"}
  OBVIOUS
<1>4. by["write_buffer_drains"] = d /\ by["write_stalls"] = d * MissPenalty
  OBVIOUS
<1> HIDE DEF by
<1>5. Raise(c, by) \in [Counters -> Nat]
  BY <1>1, <1>3, <1>4, RaiseType
<1>6. \A k \in Counters : Raise(c, by)[k] = IF k \in DOMAIN by THEN c[k] + by[k] ELSE c[k]
  BY DEF Raise
<1>7. {"write_buffer_drains", "write_stalls"} \subseteq Counters
  BY DEF Counters
<1> QED BY <1>2, <1>3, <1>4, <1>5, <1>6, <1>7 DEF d

LEMMA ForwardType ==
  ASSUME NEW stream \in Seq(Record), NEW kind \in Kind, NEW addr \in Nat
  PROVE  Forward(stream, kind, addr) \in Seq(Record)
<1>1. [kind |-> kind, addr |-> addr] \in Record
  BY DEF Record
<1> HIDE DEF Record
<1>2. Append(stream, [kind |-> kind, addr |-> addr]) \in Seq(Record)
  BY <1>1
<1> QED BY <1>2 DEF Forward

LEMMA BufferStoreType ==
  ASSUME pending_writes \in Nat, NEW buffered \in BOOLEAN, BufferStore(buffered)
  PROVE  pending_writes' \in Nat
BY DEF BufferStore, One

LEMMA StorageWithEffect ==
  ASSUME TypeOK, NEW set \in SetIndex, NEW way \in WayIndex, NEW entry \in Way
  PROVE  /\ StorageWith(set, way, entry) \in [SetIndex -> [WayIndex -> Way]]
         /\ StorageWith(set, way, entry)[set][way] = entry
         /\ \A s \in SetIndex, w \in WayIndex :
              s # set \/ w # way => StorageWith(set, way, entry)[s][w] = storage[s][w]
<1> HIDE DEF Way
<1>1. storage \in [SetIndex -> [WayIndex -> Way]]
  BY DEF TypeOK
<1> DEFINE row == [storage[set] EXCEPT ![way] = entry]
<1>2. /\ row \in [WayIndex -> Way]
      /\ row[way] = entry
      /\ \A w \in WayIndex : w # way => row[w] = storage[set][w]
  BY <1>1
<1>3. StorageWith(set, way, entry) = [storage EXCEPT ![set] = row]
  BY DEF StorageWith
<1> HIDE DEF row
<1> QED BY <1>1, <1>2, <1>3

LEMMA HoldersAreWays ==
  \A set \in SetIndex, tag \in Nat : Holders(set, tag) \in SUBSET WayIndex
BY DEF Holders

LEMMA SlotType ==
  ASSUME TypeOK, NEW set \in SetIndex
  PROVE  SlotFor(set) \in WayIndex
<1>1. FreeWays(set) # {} => FirstWay(FreeWays(set)) \in WayIndex
  <2>1. FreeWays(set) \in SUBSET WayIndex
    BY DEF FreeWays
  <2> QED BY <2>1, FirstWayInSet
<1>2. Victim(cfg.policy, replacement[set]) \in WayIndex
  BY VictimIsAWay DEF TypeOK
<1> QED BY <1>1, <1>2 DEF SlotFor

\* What a refill adds to every counter.
RefillCounters(kind, line, set) ==
    Raise(Raise(CountAccess(kind, "misses"), [k \in {MissKind(line)} |-> 1]),
          [evictions |-> One(Evicts(set)),
           writebacks |-> One(WritesBack(set)),
           miss_stalls |-> MissPenalty,
           writeback_stalls |-> One(WritesBack(set)) * MissPenalty])

LEMMA RefillCountersEffect ==
  ASSUME TypeOK, NEW kind \in Kind, NEW line \in Nat, NEW set \in SetIndex
  PROVE  /\ RefillCounters(kind, line, set) \in [Counters -> Nat]
         /\ LET c == RefillCounters(kind, line, set)
            IN  /\ c["evictions"] = t["evictions"] + One(Evicts(set))
                /\ c["writebacks"] = t["writebacks"] + One(WritesBack(set))
                /\ c["miss_stalls"] = t["miss_stalls"] + MissPenalty
                /\ c["writeback_stalls"] = t["writeback_stalls"] + One(WritesBack(set)) * MissPenalty
                /\ c["accesses"] = t["accesses"] + 1
                /\ c["hits"] = t["hits"]
                /\ c["misses"] = t["misses"] + 1
                /\ c["loads"] = t["loads"] + One(kind = "Load")
                /\ c["stores"] = t["stores"] + One(kind = "Store")
                /\ c["no_allocate_store_misses"] = t["no_allocate_store_misses"]
                /\ c["write_stalls"] = t["write_stalls"]
                /\ c["write_buffer_drains"] = t["write_buffer_drains"]
                /\ \A k \in {"compulsory_misses", "conflict_misses", "capacity_misses"} :
                     c[k] = t[k] + One(k = MissKind(line))
<1> DEFINE by1 == [k \in {MissKind(line)} |-> 1]
           e == One(Evicts(set))
           w == One(WritesBack(set))
           by2 == [evictions |-> e, writebacks |-> w, miss_stalls |-> MissPenalty,
                   writeback_stalls |-> w * MissPenalty]
           c0 == CountAccess(kind, "misses")
           c1 == Raise(c0, by1)
           c2 == Raise(c1, by2)
<1>1. /\ c0 \in [Counters -> Nat]
      /\ \A k \in Counters : c0[k] =
           t[k] + One(k \in {"accesses", "misses", IF kind = "Load" THEN "loads" ELSE "stores"})
  BY CountAccessEffect
<1>2. e \in Nat /\ w \in Nat /\ w * MissPenalty \in Nat
  <2>1. Evicts(set) \in BOOLEAN
    BY DEF Evicts
  <2>2. WritesBack(set) \in BOOLEAN
    BY <2>1, SlotType DEF WritesBack, TypeOK, Way
  <2>3. e \in {0, 1} /\ w \in {0, 1}
    BY <2>1, <2>2, OneType
  <2> HIDE DEF e, w
  <2> QED BY <2>3, DCacheAssumption
<1> HIDE DEF c0
<1>3. /\ DOMAIN by1 = {MissKind(line)}
      /\ by1[MissKind(line)] = 1
  OBVIOUS
<1> HIDE DEF by1
<1>4. /\ c1 \in [Counters -> Nat]
      /\ \A k \in Counters : c1[k] = IF k = MissKind(line) THEN c0[k] + 1 ELSE c0[k]
  <2>1. c1 \in [Counters -> Nat]
    BY <1>1, <1>3, RaiseType
  <2>2. \A k \in Counters : c1[k] = IF k \in DOMAIN by1 THEN c0[k] + by1[k] ELSE c0[k]
    BY DEF Raise
  <2> QED BY <2>1, <2>2, <1>3
<1> HIDE DEF c1, e, w
<1>5. /\ DOMAIN by2 = {"evictions", "writebacks", "miss_stalls", "writeback_stalls"}
      /\ by2["evictions"] = e
      /\ by2["writebacks"] = w
      /\ by2["miss_stalls"] = MissPenalty
      /\ by2["writeback_stalls"] = w * MissPenalty
  OBVIOUS
<1> HIDE DEF by2
<1>6. /\ c2 \in [Counters -> Nat]
      /\ \A k \in Counters : c2[k] = IF k \in DOMAIN by2 THEN c1[k] + by2[k] ELSE c1[k]
  <2>1. \A k \in DOMAIN by2 : by2[k] \in Nat
    BY <1>2, <1>5, DCacheAssumption
  <2>2. c2 \in [Counters -> Nat]
    BY <1>4, <2>1, RaiseType
  <2> QED BY <2>2 DEF Raise
<1>7. RefillCounters(kind, line, set) = c2
  BY DEF RefillCounters, c0, c1, by1, by2, e, w
<1> HIDE DEF c2
<1>8. MissKind(line) \in {"compulsory_misses", "conflict_misses", "capacity_misses"}
  BY DEF MissKind
<1>9. \A k \in Counters :
        c2[k] = IF k \in DOMAIN by2 THEN c1[k] + by2[k]
                ELSE IF k = MissKind(line) THEN c0[k] + 1 ELSE c0[k]
  BY <1>4, <1>6
<1>10. \A k \in {"evictions", "writebacks", "miss_stalls", "writeback_stalls"} :
         c2[k] = t[k] + by2[k]
  <2>1. \A k \in {"evictions", "writebacks", "miss_stalls", "writeback_stalls"} :
          k \in Counters /\ c0[k] = t[k] + 0 /\ k # MissKind(line)
    BY <1>1, <1>8 DEF Counters, One
  <2> QED BY <2>1, <1>9, <1>4, <1>5 DEF TypeOK
<1>11. \A k \in {"compulsory_misses", "conflict_misses", "capacity_misses"} :
         c2[k] = t[k] + One(k = MissKind(line))
  <2>1. \A k \in {"compulsory_misses", "conflict_misses", "capacity_misses"} :
          k \in Counters /\ c0[k] = t[k] + 0 /\ k \notin DOMAIN by2
    BY <1>1, <1>5 DEF Counters, One
  <2> QED BY <2>1, <1>9, <1>1 DEF One, TypeOK
<1>12. \A k \in {"accesses", "hits", "misses", "loads", "stores", "no_allocate_store_misses",
                 "write_stalls", "write_buffer_drains"} :
         c2[k] = t[k] + One(k \in {"accesses", "misses", IF kind = "Load" THEN "loads" ELSE "stores"})
  BY <1>1, <1>5, <1>8, <1>9 DEF Counters
<1>13. kind = "Load" \/ kind = "Store"
  BY DEF Kind
<1>14. t \in [Counters -> Nat]
  BY DEF TypeOK
<1> QED BY <1>5, <1>6, <1>7, <1>10, <1>11, <1>12, <1>13, <1>14 DEF One, e, w, Counters

-----------------------------------------------------------------------------
(* What every action does to the counters.                                 *)

LEMMA HitCounters ==
  ASSUME TypeOK, NEW kind \in Kind, NEW addr \in Nat, Hit(kind, addr)
  PROVE  /\ t' \in [Counters -> Nat]
         /\ \A k \in Counters \ {"write_buffer_drains", "write_stalls"} :
              t'[k] = t[k] + One(k \in {"accesses", "hits",
                                        IF kind = "Load" THEN "loads" ELSE "stores"})
         /\ LET d == One(Drains(kind = "Store" /\ ~WriteBack))
            IN  /\ t'["write_buffer_drains"] = t["write_buffer_drains"] + d
                /\ t'["write_stalls"] = t["write_stalls"] + d * MissPenalty
<1> DEFINE b == kind = "Store" /\ ~WriteBack
           c == CountAccess(kind, "hits")
<1>1. t' = CountBuffered(c, b)
  BY DEF Hit
<1>2. /\ c \in [Counters -> Nat]
      /\ \A k \in Counters : c[k] = t[k] + One(k \in {"accesses", "hits",
                                        IF kind = "Load" THEN "loads" ELSE "stores"})
  BY CountAccessEffect
<1>3. b \in BOOLEAN /\ pending_writes \in Nat
  BY DEF TypeOK
<1> HIDE DEF b, c
<1>4. /\ t' \in [Counters -> Nat]
      /\ t'["write_buffer_drains"] = c["write_buffer_drains"] + One(Drains(b))
      /\ t'["write_stalls"] = c["write_stalls"] + One(Drains(b)) * MissPenalty
      /\ \A k \in Counters \ {"write_buffer_drains", "write_stalls"} : t'[k] = c[k]
  BY <1>1, <1>2, <1>3, CountBufferedEffect
<1>5. \A k \in {"write_buffer_drains", "write_stalls"} : k \in Counters /\ c[k] = t[k]
  <2>1. \A k \in {"write_buffer_drains", "write_stalls"} :
          k \in Counters /\ c[k] = t[k] + 0
    BY <1>2 DEF Counters, One
  <2> QED BY <2>1 DEF TypeOK
<1> QED BY <1>2, <1>4, <1>5 DEF b

LEMMA NoAllocateStoreCounters ==
  ASSUME TypeOK, NEW kind \in Kind, NEW addr \in Nat, NoAllocateStore(kind, addr)
  PROVE  /\ t' \in [Counters -> Nat]
         /\ \A k \in Counters \ {"write_buffer_drains", "write_stalls", "miss_stalls"} :
              t'[k] = t[k] + One(k \in {"accesses", "misses", "stores",
                                        "no_allocate_store_misses"})
         /\ t'["miss_stalls"] = t["miss_stalls"] + (IF WriteBack THEN MissPenalty ELSE 0)
         /\ t'["write_buffer_drains"] = t["write_buffer_drains"] + One(Drains(~WriteBack))
         /\ t'["write_stalls"] = t["write_stalls"] + One(Drains(~WriteBack)) * MissPenalty
<1> DEFINE b == ~WriteBack
           stall == One(~b) * MissPenalty
           by == [no_allocate_store_misses |-> 1, miss_stalls |-> stall]
           c == CountAccess(kind, "misses")
           counted == Raise(c, by)
<1>1. t' = CountBuffered(counted, b)
  BY DEF NoAllocateStore
<1>2. /\ c \in [Counters -> Nat]
      /\ \A k \in Counters : c[k] = t[k] + One(k \in {"accesses", "misses", "stores"})
  <2>1. kind # "Load"
    BY DEF NoAllocateStore
  <2> QED BY <2>1, CountAccessEffect
<1>3. b \in BOOLEAN /\ pending_writes \in Nat
  BY DEF TypeOK
<1>4. stall \in Nat /\ stall = IF WriteBack THEN MissPenalty ELSE 0
  BY DCacheAssumption DEF One
<1> HIDE DEF b, c, stall
<1>5. /\ DOMAIN by = {"no_allocate_store_misses", "miss_stalls"}
      /\ by["no_allocate_store_misses"] = 1
      /\ by["miss_stalls"] = stall
  OBVIOUS
<1> HIDE DEF by
<1>6. /\ counted \in [Counters -> Nat]
      /\ \A k \in Counters : counted[k] = IF k \in DOMAIN by THEN c[k] + by[k] ELSE c[k]
  <2>1. counted \in [Counters -> Nat]
    BY <1>2, <1>4, <1>5, RaiseType
  <2> QED BY <2>1 DEF Raise
<1> HIDE DEF counted
<1>7. /\ t' \in [Counters -> Nat]
      /\ t'["write_buffer_drains"] = counted["write_buffer_drains"] + One(Drains(b))
      /\ t'["write_stalls"] = counted["write_stalls"] + One(Drains(b)) * MissPenalty
      /\ \A k \in Counters \ {"write_buffer_drains", "write_stalls"} : t'[k] = counted[k]
  BY <1>1, <1>3, <1>6, CountBufferedEffect
<1>8. \A k \in {"write_buffer_drains", "write_stalls"} : k \in Counters /\ counted[k] = t[k]
  <2>1. \A k \in {"write_buffer_drains", "write_stalls"} :
          k \in Counters /\ k \notin DOMAIN by /\ c[k] = t[k] + 0
    BY <1>2, <1>5 DEF Counters, One
  <2> QED BY <2>1, <1>6 DEF TypeOK
<1>9. \A k \in Counters \ {"write_buffer_drains", "write_stalls", "miss_stalls"} :
        counted[k] = t[k] + One(k \in {"accesses", "misses", "stores",
                                       "no_allocate_store_misses"})
  <2>1. "no_allocate_store_misses" \in Counters
    BY DEF Counters
  <2> QED BY <2>1, <1>2, <1>5, <1>6 DEF One, TypeOK
<1>10. "miss_stalls" \in Counters /\ counted["miss_stalls"] = t["miss_stalls"] + stall
  BY <1>2, <1>5, <1>6 DEF Counters, One, TypeOK
<1> QED BY <1>4, <1>7, <1>8, <1>9, <1>10 DEF b

LEMMA RefillStepCounters ==
  ASSUME TypeOK, NEW kind \in Kind, NEW addr \in Nat, Refill(kind, addr)
  PROVE  LET line == LineOf(addr)
             set == IndexOf(line)
             c == RefillCounters(kind, line, set)
             d == One(Drains(kind = "Store" /\ ~WriteBack))
         IN  /\ t' \in [Counters -> Nat]
             /\ \A k \in Counters \ {"write_buffer_drains", "write_stalls"} : t'[k] = c[k]
             /\ t'["write_buffer_drains"] = t["write_buffer_drains"] + d
             /\ t'["write_stalls"] = t["write_stalls"] + d * MissPenalty
<1> DEFINE line == LineOf(addr)
           set == IndexOf(line)
           c == RefillCounters(kind, line, set)
           b == kind = "Store" /\ ~WriteBack
<1>1. t' = CountBuffered(c, b)
  BY DEF Refill, RefillCounters
<1>2. line \in Nat /\ set \in SetIndex
  BY LineOfType, LineCoordinates
<1> HIDE DEF line, set
<1>3. /\ c \in [Counters -> Nat]
      /\ c["write_buffer_drains"] = t["write_buffer_drains"]
      /\ c["write_stalls"] = t["write_stalls"]
  BY <1>2, RefillCountersEffect
<1>4. b \in BOOLEAN /\ pending_writes \in Nat
  BY DEF TypeOK
<1> HIDE DEF b, c
<1>5. /\ t' \in [Counters -> Nat]
      /\ t'["write_buffer_drains"] = c["write_buffer_drains"] + One(Drains(b))
      /\ t'["write_stalls"] = c["write_stalls"] + One(Drains(b)) * MissPenalty
      /\ \A k \in Counters \ {"write_buffer_drains", "write_stalls"} : t'[k] = c[k]
  BY <1>1, <1>3, <1>4, CountBufferedEffect
<1> QED BY <1>3, <1>5 DEF b, c, line, set

-----------------------------------------------------------------------------
(* Type correctness.                                                       *)

LEMMA HitKeepsType ==
  ASSUME TypeOK, NEW kind \in Kind, NEW addr \in Nat, Hit(kind, addr)
  PROVE  /\ storage' \in [SetIndex -> [WayIndex -> Way]]
         /\ replacement' \in [SetIndex -> ReplacementState]
         /\ pending_writes' \in Nat
<1> DEFINE set == IndexOf(LineOf(addr))
           held == Holders(set, TagOf(LineOf(addr)))
           way == FirstWay(held)
<1>1. set \in SetIndex /\ TagOf(LineOf(addr)) \in Nat
  BY LineOfType, LineCoordinates
<1>2. way \in WayIndex
  <2>1. held \in SUBSET WayIndex /\ held # {}
    BY <1>1, HoldersAreWays DEF Hit
  <2> QED BY <2>1, FirstWayInSet
<1>3. /\ replacement' = [replacement EXCEPT ![set] = Touch(cfg.policy, @, way)]
      /\ \/ storage' = storage
         \/ storage' = StorageWith(set, way, [storage[set][way] EXCEPT !.dirty = TRUE])
      /\ BufferStore(kind = "Store" /\ ~WriteBack)
  BY DEF Hit
<1> HIDE DEF set, way
<1>4. replacement[set] \in ReplacementState /\ storage[set][way] \in Way
  BY <1>1, <1>2 DEF TypeOK
<1>5. Touch(cfg.policy, replacement[set], way) \in ReplacementState
  BY <1>2, <1>4, TouchKeepsType
<1>6. replacement' \in [SetIndex -> ReplacementState]
  BY <1>3, <1>5 DEF TypeOK
<1>7. [storage[set][way] EXCEPT !.dirty = TRUE] \in Way
  BY <1>4 DEF Way
<1>8. storage' \in [SetIndex -> [WayIndex -> Way]]
  BY <1>1, <1>2, <1>3, <1>7, StorageWithEffect DEF TypeOK
<1>9. pending_writes' \in Nat
  BY <1>3, BufferStoreType DEF TypeOK
<1> QED BY <1>6, <1>8, <1>9

LEMMA RefillKeepsType ==
  ASSUME TypeOK, NEW kind \in Kind, NEW addr \in Nat, Refill(kind, addr)
  PROVE  /\ storage' \in [SetIndex -> [WayIndex -> Way]]
         /\ replacement' \in [SetIndex -> ReplacementState]
         /\ pending_writes' \in Nat
         /\ seen_lines' \subseteq Nat
         /\ miss_stream' \in Seq(Record)
<1> DEFINE line == LineOf(addr)
           set == IndexOf(line)
           slot == SlotFor(set)
           filled == [tag |-> TagOf(line), valid |-> TRUE, dirty |-> RefillDirties(kind)]
           victim_addr == LineAt(set, storage[set][slot].tag) * LineBytes
           written_back == IF WritesBack(set)
                           THEN Forward(miss_stream, "Store", victim_addr) ELSE miss_stream
<1>1. line \in Nat /\ set \in SetIndex /\ TagOf(line) \in Nat
  BY LineOfType, LineCoordinates
<1>2. slot \in WayIndex
  BY <1>1, SlotType
<1>3. /\ storage' = StorageWith(set, slot, filled)
      /\ replacement' = [replacement EXCEPT ![set] = Touch(cfg.policy, @, slot)]
      /\ seen_lines' = seen_lines \cup {line}
      /\ BufferStore(kind = "Store" /\ ~WriteBack)
      /\ miss_stream' = Forward(written_back, "Load", addr)
  BY DEF Refill
<1>4. filled \in Way
  BY <1>1 DEF Way, RefillDirties
<1>5. written_back \in Seq(Record)
  <2>1. storage[set][slot].tag \in Nat
    BY <1>1, <1>2 DEF TypeOK, Way
  <2>2. LineAt(set, storage[set][slot].tag) \in Nat
    BY <1>1, <2>1, ProductType, DCacheAssumption DEF LineAt, SetIndex
  <2>3. victim_addr \in Nat
    BY <2>2, ProductType, DCacheAssumption
  <2>4. "Store" \in Kind /\ miss_stream \in Seq(Record)
    BY DEF Kind, TypeOK
  <2> HIDE DEF victim_addr
  <2> QED BY <2>3, <2>4, ForwardType
<1>6. miss_stream' \in Seq(Record)
  <2>1. "Load" \in Kind
    BY DEF Kind
  <2> HIDE DEF written_back
  <2> QED BY <1>3, <1>5, <2>1, ForwardType
<1> HIDE DEF line, set, slot, filled
<1>7. replacement[set] \in ReplacementState
  BY <1>1 DEF TypeOK
<1>8. Touch(cfg.policy, replacement[set], slot) \in ReplacementState
  BY <1>2, <1>7, TouchKeepsType
<1>9. replacement' \in [SetIndex -> ReplacementState]
  BY <1>3, <1>8 DEF TypeOK
<1>10. storage' \in [SetIndex -> [WayIndex -> Way]]
  BY <1>1, <1>2, <1>3, <1>4, StorageWithEffect
<1>11. pending_writes' \in Nat
  BY <1>3, BufferStoreType DEF TypeOK
<1> QED BY <1>1, <1>3, <1>6, <1>9, <1>10, <1>11 DEF TypeOK

LEMMA SimulateKeepsType ==
  ASSUME TypeOK, NEW rec \in Record, Simulate(rec)
  PROVE  TypeOK'
<1>1. rec \in Record /\ rec.kind \in Kind /\ rec.addr \in Nat
  BY DEF Record
<1>2. trace' \in Seq(Record) /\ cfg' \in Config
  BY <1>1 DEF Simulate, TypeOK
<1>3. CASE Hit(rec.kind, rec.addr)
  <2>1. seen_lines' = seen_lines /\ miss_stream' = miss_stream
    BY <1>3 DEF Hit
  <2> QED BY <1>1, <1>2, <1>3, <2>1, HitKeepsType, HitCounters DEF TypeOK
<1>4. CASE NoAllocateStore(rec.kind, rec.addr)
  <2>1. /\ storage' = storage /\ replacement' = replacement /\ seen_lines' = seen_lines
        /\ BufferStore(~WriteBack)
        /\ miss_stream' = Forward(miss_stream, rec.kind, rec.addr)
    BY <1>4 DEF NoAllocateStore
  <2>2. miss_stream' \in Seq(Record)
    BY <1>1, <2>1, ForwardType DEF TypeOK
  <2>3. pending_writes' \in Nat
    BY <2>1, BufferStoreType DEF TypeOK
  <2>4. t' \in [Counters -> Nat]
    BY <1>1, <1>4, NoAllocateStoreCounters
  <2> QED BY <1>2, <2>1, <2>2, <2>3, <2>4 DEF TypeOK
<1>5. CASE Refill(rec.kind, rec.addr)
  <2>1. t' \in [Counters -> Nat]
    BY <1>1, <1>5, RefillStepCounters
  <2> QED BY <1>1, <1>2, <1>5, <2>1, RefillKeepsType DEF TypeOK
<1> QED BY <1>3, <1>4, <1>5 DEF Simulate

\* Every reachable state is well typed: no victim lies outside its set, no
\* counter wraps below zero, no forwarded record is malformed.
THEOREM TypeCorrect == Spec => []TypeOK
<1>1. Init => TypeOK
  <2> SUFFICES ASSUME Init PROVE TypeOK
    OBVIOUS
  <2>1. cfg \in Config
    BY DCacheAssumption DEF Init
  <2>2. storage \in [SetIndex -> [WayIndex -> Way]]
    BY DEF Init, Way
  <2>3. replacement \in [SetIndex -> ReplacementState]
    BY NewReplacementType DEF Init
  <2> QED BY <2>1, <2>2, <2>3 DEF Init, TypeOK
<1>2. TypeOK /\ [Next]_vars => TypeOK'
  <2> SUFFICES ASSUME TypeOK, [Next]_vars PROVE TypeOK'
    OBVIOUS
  <2>1. CASE Next
    BY <2>1, SimulateKeepsType, DCacheAssumption DEF Next
  <2>2. CASE UNCHANGED vars
    BY <2>2 DEF vars, TypeOK
  <2> QED BY <2>1, <2>2
<1> QED BY <1>1, <1>2, PTL DEF Spec
-----------------------------------------------------------------------------
(* Safety.  The properties the runs check, made inductive by TypeOK and by *)
(* the finiteness of seen_lines, without which its cardinality means       *)
(* nothing.                                                                *)

Safety ==
    /\ NoDuplicateLines
    /\ MissesClassified
    /\ CompulsoryOncePerLine
    /\ StallsPriced
    /\ StoresBuffered

SafetyInv ==
    /\ TypeOK
    /\ IsFiniteSet(seen_lines)
    /\ Safety

LEMMA LinesInMembers ==
  \A st, line : line \in LinesIn(st) <=>
      \E s \in SetIndex, w \in WayIndex : st[s][w].valid /\ line = LineAt(s, st[s][w].tag)
<1> SUFFICES ASSUME NEW st, NEW line
             PROVE  line \in LinesIn(st) <=>
                      \E s \in SetIndex, w \in WayIndex :
                         st[s][w].valid /\ line = LineAt(s, st[s][w].tag)
  OBVIOUS
<1>1. ASSUME line \in LinesIn(st)
      PROVE  \E s \in SetIndex, w \in WayIndex :
                st[s][w].valid /\ line = LineAt(s, st[s][w].tag)
  BY <1>1 DEF LinesIn
<1>2. ASSUME NEW s \in SetIndex, NEW w \in WayIndex, st[s][w].valid
      PROVE  LineAt(s, st[s][w].tag) \in LinesIn(st)
  <2>1. <<s, w>> \in {x \in SetIndex \X WayIndex : st[x[1]][x[2]].valid}
    BY <1>2
  <2> QED BY <2>1 DEF LinesIn
<1> QED BY <1>1, <1>2

\* A hit changes at most a dirty bit of storage.
LEMMA HitKeepsLines ==
  ASSUME TypeOK, NEW kind \in Kind, NEW addr \in Nat, Hit(kind, addr)
  PROVE  \A s \in SetIndex, w \in WayIndex :
           storage'[s][w].valid = storage[s][w].valid /\ storage'[s][w].tag = storage[s][w].tag
<1> DEFINE set == IndexOf(LineOf(addr))
           held == Holders(set, TagOf(LineOf(addr)))
           way == FirstWay(held)
           entry == [storage[set][way] EXCEPT !.dirty = TRUE]
<1>1. set \in SetIndex /\ TagOf(LineOf(addr)) \in Nat
  BY LineOfType, LineCoordinates
<1>2. way \in WayIndex
  <2>1. held \in SUBSET WayIndex /\ held # {}
    BY <1>1, HoldersAreWays DEF Hit
  <2> QED BY <2>1, FirstWayInSet
<1>3. storage' = storage \/ storage' = StorageWith(set, way, entry)
  BY DEF Hit
<1> HIDE DEF set, way
<1>4. storage[set][way] \in Way
  BY <1>1, <1>2 DEF TypeOK
<1>5. /\ entry \in Way
      /\ entry.valid = storage[set][way].valid
      /\ entry.tag = storage[set][way].tag
  BY <1>4 DEF Way
<1> HIDE DEF entry
<1>6. ASSUME storage' = StorageWith(set, way, entry), NEW s \in SetIndex, NEW w \in WayIndex
      PROVE  storage'[s][w].valid = storage[s][w].valid /\ storage'[s][w].tag = storage[s][w].tag
  <2>1. /\ StorageWith(set, way, entry)[set][way] = entry
        /\ s # set \/ w # way => StorageWith(set, way, entry)[s][w] = storage[s][w]
    BY <1>1, <1>2, <1>5, StorageWithEffect
  <2> QED BY <1>5, <1>6, <2>1
<1> QED BY <1>3, <1>6

\* A refill puts its line into one way and leaves every other way alone.
LEMMA RefillStorage ==
  ASSUME TypeOK, NEW kind \in Kind, NEW addr \in Nat, Refill(kind, addr)
  PROVE  LET line == LineOf(addr)
             set == IndexOf(line)
             slot == SlotFor(set)
         IN  /\ set \in SetIndex /\ slot \in WayIndex /\ line \in Nat
             /\ storage'[set][slot].valid
             /\ storage'[set][slot].tag = TagOf(line)
             /\ storage'[set][slot].dirty = RefillDirties(kind)
             /\ \A s \in SetIndex, w \in WayIndex :
                  s # set \/ w # slot => storage'[s][w] = storage[s][w]
             /\ \A w \in WayIndex :
                  ~(storage[set][w].valid /\ storage[set][w].tag = TagOf(line))
<1> DEFINE line == LineOf(addr)
           set == IndexOf(line)
           slot == SlotFor(set)
           filled == [tag |-> TagOf(line), valid |-> TRUE, dirty |-> RefillDirties(kind)]
<1>1. line \in Nat /\ set \in SetIndex /\ TagOf(line) \in Nat
  BY LineOfType, LineCoordinates
<1>2. slot \in WayIndex
  BY <1>1, SlotType
<1>3. /\ storage' = StorageWith(set, slot, filled)
      /\ Holders(set, TagOf(line)) = {}
  BY DEF Refill
<1>4. /\ filled \in Way /\ filled.valid /\ filled.tag = TagOf(line)
      /\ filled.dirty = RefillDirties(kind)
  BY <1>1 DEF Way, RefillDirties
<1>5. \A w \in WayIndex : ~(storage[set][w].valid /\ storage[set][w].tag = TagOf(line))
  BY <1>3 DEF Holders
<1> HIDE DEF line, set, slot, filled
<1>6. /\ storage'[set][slot] = filled
      /\ \A s \in SetIndex, w \in WayIndex :
           s # set \/ w # slot => storage'[s][w] = storage[s][w]
  BY <1>1, <1>2, <1>3, <1>4, StorageWithEffect
<1> QED BY <1>1, <1>2, <1>4, <1>5, <1>6 DEF line, set, slot

\* One more buffered store either waits or completes a transaction.
LEMMA BufferArithmetic ==
  ASSUME NEW stores \in Nat, NEW drains \in Nat, NEW pending \in Nat,
         stores = drains * BufferDepth + pending, pending < BufferDepth
  PROVE  LET full == pending + 1 >= BufferDepth
             p == IF full THEN 0 ELSE pending + 1
             n == IF full THEN drains + 1 ELSE drains
         IN  stores + 1 = n * BufferDepth + p /\ p < BufferDepth
BY DCacheAssumption

LEMMA BufferedStep ==
  ASSUME TypeOK, TypeOK', StoresBuffered, WriteBack' = WriteBack,
         NEW b \in BOOLEAN, b => ~WriteBack, BufferStore(b),
         t'["write_buffer_drains"] = t["write_buffer_drains"] + One(Drains(b)),
         ~WriteBack => t'["stores"] = t["stores"] + One(b)
  PROVE  StoresBuffered'
<1>1. /\ pending_writes \in Nat
      /\ t["stores"] \in Nat
      /\ t["write_buffer_drains"] \in Nat
  BY DEF TypeOK, Counters
<1>2. CASE b
  <2> DEFINE full == pending_writes + 1 >= BufferDepth
             p == IF full THEN 0 ELSE pending_writes + 1
             n == IF full THEN t["write_buffer_drains"] + 1 ELSE t["write_buffer_drains"]
  <2>1. pending_writes' = p /\ t'["write_buffer_drains"] = n
    BY <1>1, <1>2 DEF BufferStore, Drains, One
  <2>2. t'["stores"] = t["stores"] + 1 /\ ~WriteBack
    BY <1>2 DEF One
  <2>3. /\ t["stores"] = t["write_buffer_drains"] * BufferDepth + pending_writes
        /\ pending_writes < BufferDepth
    BY <2>2 DEF StoresBuffered
  <2>4. t["stores"] + 1 = n * BufferDepth + p /\ p < BufferDepth
    BY <1>1, <2>3, BufferArithmetic
  <2> HIDE DEF p, n
  <2> QED BY <2>1, <2>2, <2>4 DEF StoresBuffered
<1>3. CASE ~b
  <2>1. One(Drains(b)) = 0 /\ One(b) = 0 /\ pending_writes' = pending_writes + 0
    BY <1>3 DEF BufferStore, Drains, One
  <2>2. t'["write_buffer_drains"] = t["write_buffer_drains"] /\ pending_writes' = pending_writes
    BY <1>1, <2>1
  <2>3. ~WriteBack => t'["stores"] = t["stores"]
    BY <1>1, <2>1
  <2> QED BY <2>2, <2>3 DEF StoresBuffered
<1> QED BY <1>2, <1>3

\* A refill displaces a line exactly if the way it fills is in use.
LEMMA SlotInUse ==
  ASSUME TypeOK, NEW set \in SetIndex
  PROVE  Evicts(set) <=> storage[set][SlotFor(set)].valid
<1>1. CASE FreeWays(set) = {}
  BY <1>1, SlotType DEF Evicts, FreeWays
<1>2. CASE FreeWays(set) # {}
  <2>1. FreeWays(set) \in SUBSET WayIndex
    BY DEF FreeWays
  <2>2. SlotFor(set) \in FreeWays(set)
    BY <1>2, <2>1, FirstWayInSet DEF SlotFor
  <2> QED BY <1>2, <2>2 DEF Evicts, FreeWays
<1> QED BY <1>1, <1>2

LEMMA HitKeepsSafety ==
  ASSUME SafetyInv, NEW kind \in Kind, NEW addr \in Nat, Hit(kind, addr), cfg' = cfg, TypeOK'
  PROVE  Safety' /\ IsFiniteSet(seen_lines')
<1> DEFINE b == kind = "Store" /\ ~WriteBack
           d == One(Drains(b))
<1>0. TypeOK /\ Safety /\ WriteBack' = WriteBack
  BY DEF SafetyInv, WriteBack
<1>1. seen_lines' = seen_lines
  BY DEF Hit
<1>2. \A s \in SetIndex, w \in WayIndex :
        storage'[s][w].valid = storage[s][w].valid /\ storage'[s][w].tag = storage[s][w].tag
  BY <1>0, HitKeepsLines
<1>3. /\ t \in [Counters -> Nat]
      /\ \A k \in Counters \ {"write_buffer_drains", "write_stalls"} :
           t'[k] = t[k] + One(k \in {"accesses", "hits",
                                     IF kind = "Load" THEN "loads" ELSE "stores"})
      /\ t'["write_buffer_drains"] = t["write_buffer_drains"] + d
      /\ t'["write_stalls"] = t["write_stalls"] + d * MissPenalty
  BY <1>0, HitCounters DEF TypeOK
<1>4. /\ t'["accesses"] = t["accesses"] + 1
      /\ t'["hits"] = t["hits"] + 1
      /\ t'["loads"] = t["loads"] + One(kind = "Load")
      /\ t'["stores"] = t["stores"] + One(kind = "Store")
      /\ \A k \in {"misses", "compulsory_misses", "conflict_misses", "capacity_misses",
                   "no_allocate_store_misses", "writebacks", "miss_stalls", "writeback_stalls"} :
            t'[k] = t[k]
  BY <1>3 DEF Counters, One, Kind
<1>5. /\ BufferStore(b)
      /\ d = IF Drains(b) THEN 1 ELSE 0
  BY DEF Hit, One
<1>6. NoDuplicateLines'
  BY <1>0, <1>2 DEF Safety, NoDuplicateLines
<1>7. MissesClassified'
  <2>1. One(kind = "Load") + One(kind = "Store") = 1
    BY DEF One, Kind
  <2> QED BY <1>0, <1>3, <1>4, <2>1 DEF Safety, MissesClassified, Counters, One
<1>8. CompulsoryOncePerLine'
  <2>1. ResidentLines' = ResidentLines
    <3>1. \A line : line \in LinesIn(storage') <=> line \in LinesIn(storage)
      BY <1>2, LinesInMembers
    <3> QED BY <3>1 DEF ResidentLines, LinesIn
  <2> QED BY <1>0, <1>1, <1>4, <2>1 DEF Safety, CompulsoryOncePerLine
<1> HIDE DEF d
<1>9. StallsPriced'
  <2>1. d \in Nat
    BY <1>5
  <2> QED BY <1>0, <1>3, <1>4, <2>1, DCacheAssumption DEF Safety, StallsPriced, Counters
<1>10. StoresBuffered'
  <2>1. ~WriteBack => One(kind = "Store") = One(b)
    BY DEF One
  <2>2. b \in BOOLEAN /\ (b => ~WriteBack)
    BY <1>0 DEF TypeOK
  <2>3. StoresBuffered /\ t'["write_buffer_drains"] = t["write_buffer_drains"] + One(Drains(b))
    BY <1>0, <1>3 DEF Safety, d
  <2> HIDE DEF b
  <2> QED BY <1>0, <1>4, <1>5, <2>1, <2>2, <2>3, BufferedStep
<1> QED BY <1>1, <1>6, <1>7, <1>8, <1>9, <1>10 DEF Safety, SafetyInv

LEMMA NoAllocateStoreKeepsSafety ==
  ASSUME SafetyInv, NEW kind \in Kind, NEW addr \in Nat, NoAllocateStore(kind, addr),
         cfg' = cfg, TypeOK'
  PROVE  Safety' /\ IsFiniteSet(seen_lines')
<1> DEFINE b == ~WriteBack
           d == One(Drains(b))
           stall == IF WriteBack THEN MissPenalty ELSE 0
<1>0. TypeOK /\ Safety /\ WriteBack' = WriteBack /\ t \in [Counters -> Nat]
  BY DEF SafetyInv, WriteBack, TypeOK
<1>1. /\ storage' = storage /\ seen_lines' = seen_lines /\ BufferStore(b)
      /\ kind = "Store" /\ ~cfg.write_allocate
  BY DEF NoAllocateStore
<1>2. /\ \A k \in Counters \ {"write_buffer_drains", "write_stalls", "miss_stalls"} :
           t'[k] = t[k] + One(k \in {"accesses", "misses", "stores",
                                     "no_allocate_store_misses"})
      /\ t'["miss_stalls"] = t["miss_stalls"] + stall
      /\ t'["write_buffer_drains"] = t["write_buffer_drains"] + d
      /\ t'["write_stalls"] = t["write_stalls"] + d * MissPenalty
  BY <1>0, NoAllocateStoreCounters
<1>3. /\ \A k \in {"accesses", "misses", "stores", "no_allocate_store_misses"} :
            t'[k] = t[k] + 1
      /\ \A k \in {"hits", "loads", "compulsory_misses", "conflict_misses", "capacity_misses",
                   "writebacks", "writeback_stalls"} :
            t'[k] = t[k]
  BY <1>0, <1>2 DEF Counters, One
<1>4. \A k \in {"accesses", "hits", "misses", "loads", "stores", "no_allocate_store_misses",
                "compulsory_misses", "conflict_misses", "capacity_misses", "miss_stalls",
                "write_stalls", "write_buffer_drains", "writebacks", "writeback_stalls"} :
         t[k] \in Nat
  BY <1>0 DEF Counters
<1>5. NoDuplicateLines'
  BY <1>0, <1>1 DEF Safety, NoDuplicateLines
<1>6. MissesClassified'
  BY <1>0, <1>1, <1>3, <1>4 DEF Safety, MissesClassified
<1>7. CompulsoryOncePerLine'
  BY <1>0, <1>1, <1>3 DEF Safety, CompulsoryOncePerLine, ResidentLines
<1>8. StallsPriced'
  <2>1. d \in Nat
    BY DEF One
  <2> HIDE DEF d
  <2>2. CASE WriteBack
    BY <1>0, <1>2, <1>3, <1>4, <2>1, <2>2, DCacheAssumption DEF Safety, StallsPriced
  <2>3. CASE ~WriteBack
    BY <1>0, <1>2, <1>3, <1>4, <2>1, <2>3, DCacheAssumption DEF Safety, StallsPriced
  <2> QED BY <2>2, <2>3
<1>9. StoresBuffered'
  <2>1. b \in BOOLEAN /\ (~WriteBack => One(b) = 1)
    BY DEF One, WriteBack
  <2>2. StoresBuffered /\ t'["write_buffer_drains"] = t["write_buffer_drains"] + One(Drains(b))
    BY <1>0, <1>2 DEF Safety
  <2>3. (b => ~WriteBack) /\ (~WriteBack => t'["stores"] = t["stores"] + One(b))
    BY <1>3, <2>1
  <2> HIDE DEF b
  <2> QED BY <1>0, <1>1, <2>1, <2>2, <2>3, BufferedStep
<1> QED BY <1>1, <1>5, <1>6, <1>7, <1>8, <1>9 DEF Safety, SafetyInv

LEMMA RefillKeepsSafety ==
  ASSUME SafetyInv, NEW kind \in Kind, NEW addr \in Nat, Refill(kind, addr),
         cfg' = cfg, TypeOK'
  PROVE  Safety' /\ IsFiniteSet(seen_lines')
<1> DEFINE line == LineOf(addr)
           set == IndexOf(line)
           slot == SlotFor(set)
           b == kind = "Store" /\ ~WriteBack
           d == One(Drains(b))
           w == One(WritesBack(set))
           c == RefillCounters(kind, line, set)
<1>0. TypeOK /\ Safety /\ WriteBack' = WriteBack
  BY DEF SafetyInv, WriteBack
<1>1. /\ seen_lines' = seen_lines \cup {line} /\ BufferStore(b)
      /\ kind = "Load" \/ cfg.write_allocate
  BY DEF Refill
<1>2. /\ set \in SetIndex /\ slot \in WayIndex /\ line \in Nat
      /\ storage'[set][slot].valid
      /\ storage'[set][slot].tag = TagOf(line)
      /\ \A s \in SetIndex, v \in WayIndex :
           s # set \/ v # slot => storage'[s][v] = storage[s][v]
      /\ \A v \in WayIndex :
           ~(storage[set][v].valid /\ storage[set][v].tag = TagOf(line))
  BY <1>0, RefillStorage
<1>3. LineAt(set, TagOf(line)) = line
  BY <1>2, LineCoordinates
<1>4. /\ \A k \in Counters \ {"write_buffer_drains", "write_stalls"} : t'[k] = c[k]
      /\ t'["write_buffer_drains"] = t["write_buffer_drains"] + d
      /\ t'["write_stalls"] = t["write_stalls"] + d * MissPenalty
  BY <1>0, RefillStepCounters
<1> HIDE DEF line, set, slot
<1>5. /\ c["writebacks"] = t["writebacks"] + w
      /\ c["miss_stalls"] = t["miss_stalls"] + MissPenalty
      /\ c["writeback_stalls"] = t["writeback_stalls"] + w * MissPenalty
      /\ c["accesses"] = t["accesses"] + 1
      /\ c["hits"] = t["hits"]
      /\ c["misses"] = t["misses"] + 1
      /\ c["loads"] = t["loads"] + One(kind = "Load")
      /\ c["stores"] = t["stores"] + One(kind = "Store")
      /\ c["no_allocate_store_misses"] = t["no_allocate_store_misses"]
      /\ \A k \in {"compulsory_misses", "conflict_misses", "capacity_misses"} :
           c[k] = t[k] + One(k = MissKind(line))
  BY <1>0, <1>2, RefillCountersEffect
<1> HIDE DEF c
<1>6. /\ t'["writebacks"] = t["writebacks"] + w
      /\ t'["miss_stalls"] = t["miss_stalls"] + MissPenalty
      /\ t'["writeback_stalls"] = t["writeback_stalls"] + w * MissPenalty
      /\ t'["accesses"] = t["accesses"] + 1
      /\ t'["hits"] = t["hits"]
      /\ t'["misses"] = t["misses"] + 1
      /\ t'["loads"] = t["loads"] + One(kind = "Load")
      /\ t'["stores"] = t["stores"] + One(kind = "Store")
      /\ t'["no_allocate_store_misses"] = t["no_allocate_store_misses"]
      /\ \A k \in {"compulsory_misses", "conflict_misses", "capacity_misses"} :
           t'[k] = t[k] + One(k = MissKind(line))
  BY <1>4, <1>5 DEF Counters
<1>7. \A k \in {"accesses", "hits", "misses", "loads", "stores", "no_allocate_store_misses",
                "compulsory_misses", "conflict_misses", "capacity_misses", "miss_stalls",
                "write_stalls", "write_buffer_drains", "writebacks", "writeback_stalls"} :
         t[k] \in Nat
  BY <1>0 DEF Counters, TypeOK
<1>8. NoDuplicateLines'
  <2> SUFFICES ASSUME NEW s \in SetIndex, NEW u \in WayIndex, NEW v \in WayIndex,
                      storage'[s][u].valid, storage'[s][v].valid,
                      storage'[s][u].tag = storage'[s][v].tag
               PROVE  u = v
    BY DEF NoDuplicateLines
  <2>1. CASE s # set
    BY <1>0, <1>2, <2>1 DEF Safety, NoDuplicateLines
  <2>2. CASE s = set /\ u # slot /\ v # slot
    BY <1>0, <1>2, <2>2 DEF Safety, NoDuplicateLines
  <2>3. CASE s = set /\ u = slot /\ v # slot
    BY <1>2, <2>3
  <2>4. CASE s = set /\ v = slot /\ u # slot
    BY <1>2, <2>4
  <2> QED BY <2>1, <2>2, <2>3, <2>4
<1>9. MissesClassified'
  <2>1. One(kind = "Load") + One(kind = "Store") = 1
    BY DEF One, Kind
  <2>2. /\ One(kind = "Load") \in Nat /\ One(kind = "Store") \in Nat
    BY DEF One
  <2>3. \/ MissKind(line) = "compulsory_misses"
        \/ MissKind(line) = "conflict_misses" /\ Sets > 1
        \/ MissKind(line) = "capacity_misses" /\ ~(Sets > 1)
    BY DEF MissKind
  <2>4. Sets \in Nat
    BY DCacheAssumption
  <2>5. /\ t'["accesses"] = t'["hits"] + t'["misses"]
        /\ t'["accesses"] = t'["loads"] + t'["stores"]
    BY <1>0, <1>6, <1>7, <2>1, <2>2 DEF Safety, MissesClassified
  <2>6. /\ t'["misses"] = t'["compulsory_misses"] + t'["conflict_misses"]
                        + t'["capacity_misses"] + t'["no_allocate_store_misses"]
        /\ Sets = 1 => t'["conflict_misses"] = 0
        /\ Sets > 1 => t'["capacity_misses"] = 0
    <3>0. /\ t["misses"] = t["compulsory_misses"] + t["conflict_misses"]
                          + t["capacity_misses"] + t["no_allocate_store_misses"]
          /\ Sets = 1 => t["conflict_misses"] = 0
          /\ Sets > 1 => t["capacity_misses"] = 0
          /\ t["misses"] \in Nat /\ t["compulsory_misses"] \in Nat
          /\ t["conflict_misses"] \in Nat /\ t["capacity_misses"] \in Nat
          /\ t["no_allocate_store_misses"] \in Nat
          /\ t'["misses"] = t["misses"] + 1
          /\ t'["no_allocate_store_misses"] = t["no_allocate_store_misses"]
      BY <1>0, <1>6, <1>7 DEF Safety, MissesClassified
    <3>1. CASE MissKind(line) = "compulsory_misses"
      <4>1. /\ t'["compulsory_misses"] = t["compulsory_misses"] + 1
            /\ t'["conflict_misses"] = t["conflict_misses"] + 0
            /\ t'["capacity_misses"] = t["capacity_misses"] + 0
        BY <1>6, <3>1 DEF One
      <4> QED BY <3>0, <4>1
    <3>2. CASE MissKind(line) = "conflict_misses" /\ Sets > 1
      <4>1. /\ t'["compulsory_misses"] = t["compulsory_misses"] + 0
            /\ t'["conflict_misses"] = t["conflict_misses"] + 1
            /\ t'["capacity_misses"] = t["capacity_misses"] + 0
        BY <1>6, <3>2 DEF One
      <4>2. t["capacity_misses"] = 0
        BY <3>0, <3>2
      <4>3. t'["capacity_misses"] = 0 /\ Sets # 1
        BY <2>4, <3>2, <4>1, <4>2
      <4>4. t'["misses"] = t'["compulsory_misses"] + t'["conflict_misses"]
                         + t'["capacity_misses"] + t'["no_allocate_store_misses"]
        BY <3>0, <4>1
      <4> QED BY <4>3, <4>4
    <3>3. CASE MissKind(line) = "capacity_misses" /\ ~(Sets > 1)
      <4>1. /\ t'["compulsory_misses"] = t["compulsory_misses"] + 0
            /\ t'["conflict_misses"] = t["conflict_misses"] + 0
            /\ t'["capacity_misses"] = t["capacity_misses"] + 1
        BY <1>6, <3>3 DEF One
      <4> QED BY <2>4, <3>0, <3>3, <4>1
    <3> QED BY <2>3, <3>1, <3>2, <3>3
  <2>7. cfg'.write_allocate => t'["no_allocate_store_misses"] = 0
    BY <1>0, <1>6 DEF Safety, MissesClassified
  <2> QED BY <2>5, <2>6, <2>7 DEF MissesClassified
<1>10. CompulsoryOncePerLine' /\ IsFiniteSet(seen_lines')
  <2>1. IsFiniteSet(seen_lines)
    BY DEF SafetyInv
  <2>2. /\ IsFiniteSet(seen_lines')
        /\ Cardinality(seen_lines') =
             IF line \in seen_lines THEN Cardinality(seen_lines) ELSE Cardinality(seen_lines) + 1
    BY <1>1, <2>1, FS_AddElement
  <2>3. t'["compulsory_misses"] = t["compulsory_misses"] + (IF line \in seen_lines THEN 0 ELSE 1)
    BY <1>6 DEF MissKind, One
  <2>4. t'["compulsory_misses"] = Cardinality(seen_lines')
    BY <1>0, <1>7, <2>2, <2>3 DEF Safety, CompulsoryOncePerLine
  <2>5. ASSUME NEW l \in LinesIn(storage') PROVE l \in seen_lines'
    <3>1. PICK s \in SetIndex, v \in WayIndex :
            storage'[s][v].valid /\ l = LineAt(s, storage'[s][v].tag)
      BY <2>5, LinesInMembers
    <3>2. CASE s = set /\ v = slot
      BY <1>1, <1>2, <1>3, <3>1, <3>2
    <3>3. CASE ~(s = set /\ v = slot)
      <4>1. storage'[s][v] = storage[s][v]
        BY <1>2, <3>3
      <4>2. l \in ResidentLines
        BY <3>1, <4>1, LinesInMembers DEF ResidentLines
      <4> QED BY <1>0, <1>1, <4>2 DEF Safety, CompulsoryOncePerLine
    <3> QED BY <3>2, <3>3
  <2> QED BY <2>2, <2>4, <2>5 DEF CompulsoryOncePerLine, ResidentLines
<1>11. StallsPriced'
  <2>1. d \in Nat /\ w \in Nat
    BY DEF One
  <2> HIDE DEF d, w
  <2>2. /\ t'["write_stalls"] = t'["write_buffer_drains"] * MissPenalty
        /\ t'["writeback_stalls"] = t'["writebacks"] * MissPenalty
    BY <1>0, <1>4, <1>6, <1>7, <2>1, DCacheAssumption DEF Safety, StallsPriced
  <2>3. CASE WriteBack
    <3>1. t'["miss_stalls"] = t'["misses"] * MissPenalty
      BY <1>0, <1>6, <1>7, <2>3, DCacheAssumption DEF Safety, StallsPriced
    <3> QED BY <1>0, <1>6, <1>7, <2>2, <2>3, <3>1 DEF StallsPriced
  <2>4. CASE ~WriteBack
    BY <1>0, <1>6, <1>7, <2>2, <2>4, DCacheAssumption DEF Safety, StallsPriced
  <2> QED BY <2>3, <2>4
<1>12. StoresBuffered'
  <2>1. ~WriteBack => One(kind = "Store") = One(b)
    BY DEF One
  <2>2. b \in BOOLEAN /\ (b => ~WriteBack)
    BY <1>0 DEF TypeOK
  <2>3. StoresBuffered /\ t'["write_buffer_drains"] = t["write_buffer_drains"] + One(Drains(b))
    BY <1>0, <1>4 DEF Safety
  <2> HIDE DEF b
  <2> QED BY <1>0, <1>1, <1>6, <2>1, <2>2, <2>3, BufferedStep
<1> QED BY <1>8, <1>9, <1>10, <1>11, <1>12 DEF Safety

-----------------------------------------------------------------------------
LEMMA InitSafety ==
  ASSUME Init
  PROVE  SafetyInv
<1>1. TypeOK
  <2>1. cfg \in Config
    BY DCacheAssumption DEF Init
  <2>2. storage \in [SetIndex -> [WayIndex -> Way]]
    BY DEF Init, Way
  <2>3. replacement \in [SetIndex -> ReplacementState]
    BY NewReplacementType DEF Init
  <2> QED BY <2>1, <2>2, <2>3 DEF Init, TypeOK
<1>2. \A s \in SetIndex, w \in WayIndex : ~storage[s][w].valid
  BY DEF Init
<1>3. \A k \in Counters : t[k] = 0
  BY DEF Init
<1>4. NoDuplicateLines
  BY <1>2 DEF NoDuplicateLines
<1>5. MissesClassified
  BY <1>3 DEF MissesClassified, Counters
<1>6. CompulsoryOncePerLine /\ IsFiniteSet(seen_lines)
  <2>1. seen_lines = {} /\ IsFiniteSet(seen_lines) /\ Cardinality(seen_lines) = 0
    BY FS_EmptySet DEF Init
  <2>2. ResidentLines = {}
    BY <1>2, LinesInMembers DEF ResidentLines
  <2> QED BY <1>3, <2>1, <2>2 DEF CompulsoryOncePerLine, Counters
<1>7. StallsPriced
  BY <1>3, DCacheAssumption DEF StallsPriced, Counters
<1>8. StoresBuffered
  BY <1>3, DCacheAssumption DEF StoresBuffered, Counters, Init
<1> QED BY <1>1, <1>4, <1>5, <1>6, <1>7, <1>8 DEF SafetyInv, Safety

LEMMA SimulateKeepsSafety ==
  ASSUME SafetyInv, NEW rec \in Record, Simulate(rec)
  PROVE  SafetyInv'
<1>1. rec.kind \in Kind /\ rec.addr \in Nat
  BY DEF Record
<1>2. cfg' = cfg /\ TypeOK'
  BY SimulateKeepsType DEF Simulate, SafetyInv
<1>3. Safety' /\ IsFiniteSet(seen_lines')
  BY <1>1, <1>2, HitKeepsSafety, NoAllocateStoreKeepsSafety, RefillKeepsSafety DEF Simulate
<1> QED BY <1>2, <1>3 DEF SafetyInv

LEMMA StutterKeepsSafety ==
  ASSUME SafetyInv, UNCHANGED vars
  PROVE  SafetyInv'
BY DEF vars, SafetyInv, TypeOK, Safety, NoDuplicateLines, MissesClassified,
       CompulsoryOncePerLine, ResidentLines, StallsPriced, StoresBuffered, WriteBack

LEMMA SafetyInvariant == Spec => []SafetyInv
<1>1. SafetyInv /\ [Next]_vars => SafetyInv'
  BY SimulateKeepsSafety, StutterKeepsSafety, DCacheAssumption DEF Next
<1> QED BY <1>1, InitSafety, PTL DEF Spec

\* No set ever holds two copies of a line, whatever the policy, the geometry
\* and the trace: find_way cannot pick a stale copy (dcache.cpp:35-41); and with
\* TypeCorrect no victim lies outside its set.
THEOREM LinesUnique == Spec => []SetsSound
<1>1. SafetyInv => SetsSound
  BY DEF SafetyInv, Safety, SetsSound
<1> QED BY <1>1, SafetyInvariant, PTL

\* Hits and the four kinds of misses add up to the accesses, and the
\* compulsory misses are exactly the lines ever fetched (dcache.hpp:40-48).
THEOREM MissesAddUp == Spec => []MissesExplained
<1>1. SafetyInv => MissesExplained
  BY DEF SafetyInv, Safety, MissesExplained
<1> QED BY <1>1, SafetyInvariant, PTL

\* Every stall cycle is accounted for by a counted event, and under
\* write-through every store by a drain or by the buffer (dcache.hpp:45-48).
THEOREM CyclesAddUp == Spec => []StallsExplained
<1>1. SafetyInv => StallsExplained
  BY DEF SafetyInv, Safety, StallsExplained
<1> QED BY <1>1, SafetyInvariant, PTL

-----------------------------------------------------------------------------
(* Conservation.  What was brought in is resident or was evicted, and what *)
(* must go down the hierarchy is in the miss stream.  The counts of the    *)
(* stream are inductive only together with its length.                     *)

LEMMA ResidentsFinite ==
  ASSUME SafetyInv
  PROVE  IsFiniteSet(ResidentLines)
BY FS_Subset DEF SafetyInv, Safety, CompulsoryOncePerLine

LEMMA HitResidents ==
  ASSUME TypeOK, NEW kind \in Kind, NEW addr \in Nat, Hit(kind, addr)
  PROVE  ResidentLines' = ResidentLines
<1>1. \A line : line \in LinesIn(storage') <=> line \in LinesIn(storage)
  BY HitKeepsLines, LinesInMembers
<1> QED BY <1>1 DEF ResidentLines, LinesIn

\* A refill adds a line that was not resident, in place of the one it evicts.
LEMMA RefillResidents ==
  ASSUME TypeOK, NoDuplicateLines, NEW kind \in Kind, NEW addr \in Nat, Refill(kind, addr)
  PROVE  LET line == LineOf(addr)
             set == IndexOf(line)
             victim == LineAt(set, storage[set][SlotFor(set)].tag)
         IN  /\ line \notin ResidentLines
             /\ Evicts(set) => victim \in ResidentLines
             /\ ResidentLines' = (IF Evicts(set) THEN ResidentLines \ {victim}
                                  ELSE ResidentLines) \cup {line}
<1> DEFINE line == LineOf(addr)
           set == IndexOf(line)
           slot == SlotFor(set)
           victim == LineAt(set, storage[set][slot].tag)
           kept == IF Evicts(set) THEN ResidentLines \ {victim} ELSE ResidentLines
<1>1. /\ set \in SetIndex /\ slot \in WayIndex /\ line \in Nat
      /\ storage'[set][slot].valid
      /\ storage'[set][slot].tag = TagOf(line)
      /\ \A s \in SetIndex, w \in WayIndex :
           s # set \/ w # slot => storage'[s][w] = storage[s][w]
      /\ \A w \in WayIndex : ~(storage[set][w].valid /\ storage[set][w].tag = TagOf(line))
  BY RefillStorage
<1>2. LineAt(set, TagOf(line)) = line
  BY <1>1, LineCoordinates
<1>3. Evicts(set) <=> storage[set][slot].valid
  BY <1>1, SlotInUse
<1>4. set = IndexOf(line)
  OBVIOUS
<1>5. \A s \in SetIndex, w \in WayIndex : storage[s][w].tag \in Nat
  BY DEF TypeOK, Way
<1> HIDE DEF line, set, slot
<1>6. line \notin ResidentLines
  <2> SUFFICES ASSUME NEW s \in SetIndex, NEW w \in WayIndex,
                      storage[s][w].valid, line = LineAt(s, storage[s][w].tag)
               PROVE  FALSE
    BY LinesInMembers DEF ResidentLines
  <2>1. s = set /\ TagOf(line) = storage[s][w].tag
    BY <1>4, <1>5, LineAtCoordinates
  <2> QED BY <1>1, <2>1
<1>7. Evicts(set) => victim \in ResidentLines
  BY <1>1, <1>3, LinesInMembers DEF ResidentLines
<1>8. ASSUME NEW l \in LinesIn(storage') PROVE l \in kept \cup {line}
  <2>1. PICK s \in SetIndex, w \in WayIndex :
          storage'[s][w].valid /\ l = LineAt(s, storage'[s][w].tag)
    BY <1>8, LinesInMembers
  <2>2. CASE s = set /\ w = slot
    BY <1>1, <1>2, <2>1, <2>2
  <2>3. CASE ~(s = set /\ w = slot)
    <3>1. storage[s][w].valid /\ l = LineAt(s, storage[s][w].tag)
      BY <1>1, <2>1, <2>3
    <3>2. l \in ResidentLines
      BY <3>1, LinesInMembers DEF ResidentLines
    <3>3. Evicts(set) => l # victim
      <4> SUFFICES ASSUME Evicts(set), l = victim PROVE FALSE
        OBVIOUS
      <4>1. IndexOf(l) = s /\ TagOf(l) = storage[s][w].tag
        BY <1>5, <3>1, LineAtCoordinates
      <4>2. IndexOf(l) = set /\ TagOf(l) = storage[set][slot].tag
        BY <1>1, <1>5, LineAtCoordinates
      <4> QED BY <1>1, <1>3, <2>3, <3>1, <4>1, <4>2 DEF NoDuplicateLines
    <3> QED BY <3>2, <3>3
  <2> QED BY <2>2, <2>3
<1>9. ASSUME NEW l \in kept \cup {line} PROVE l \in LinesIn(storage')
  <2>1. CASE l = line
    BY <1>1, <1>2, <2>1, LinesInMembers
  <2>2. CASE l \in kept
    <3>1. PICK s \in SetIndex, w \in WayIndex :
            storage[s][w].valid /\ l = LineAt(s, storage[s][w].tag)
      BY <2>2, LinesInMembers DEF ResidentLines
    <3>2. ~(s = set /\ w = slot)
      BY <1>3, <2>2, <3>1
    <3>3. storage'[s][w] = storage[s][w]
      BY <1>1, <3>2
    <3> QED BY <3>1, <3>3, LinesInMembers
  <2> QED BY <2>1, <2>2
<1>10. ResidentLines' = kept \cup {line}
  BY <1>8, <1>9 DEF ResidentLines
<1> QED BY <1>6, <1>7, <1>10 DEF line, set, slot

\* The records of a stream of one kind.
CountOf(stream, kind) == Cardinality({i \in DOMAIN stream : stream[i].kind = kind})

LEMMA CountOfAppend ==
  ASSUME NEW stream \in Seq(Record), NEW rec \in Record, NEW kind
  PROVE  /\ CountOf(stream, kind) \in Nat
         /\ CountOf(Append(stream, rec), kind) = CountOf(stream, kind) + One(rec.kind = kind)
<1> DEFINE n == Len(stream)
           S == {i \in DOMAIN stream : stream[i].kind = kind}
           T == {i \in DOMAIN Append(stream, rec) : Append(stream, rec)[i].kind = kind}
<1> HIDE DEF Record
<1>1. /\ n \in Nat
      /\ DOMAIN stream = 1 .. n
      /\ DOMAIN Append(stream, rec) = 1 .. n + 1
      /\ \A i \in 1 .. n : Append(stream, rec)[i] = stream[i]
      /\ Append(stream, rec)[n + 1] = rec
  OBVIOUS
<1>2. IsFiniteSet(S) /\ Cardinality(S) \in Nat
  <2>1. IsFiniteSet(1 .. n)
    BY <1>1, FS_Interval
  <2>2. S \in SUBSET (1 .. n)
    BY <1>1
  <2>3. IsFiniteSet(S)
    BY <2>1, <2>2, FS_Subset
  <2> QED BY <2>3, FS_CardinalityType
<1>3. T = IF rec.kind = kind THEN S \cup {n + 1} ELSE S
  <2> HIDE DEF n
  <2>1. \A i : i \in T <=> i \in 1 .. n + 1 /\ Append(stream, rec)[i].kind = kind
    BY <1>1
  <2>2. \A i : i \in S <=> i \in 1 .. n /\ stream[i].kind = kind
    BY <1>1
  <2> HIDE DEF S, T
  <2>3. ASSUME NEW i PROVE i \in T <=> i \in S \/ (i = n + 1 /\ rec.kind = kind)
    <3>1. CASE i \in 1 .. n
      BY <1>1, <2>1, <2>2, <3>1
    <3>2. CASE i = n + 1
      BY <1>1, <2>1, <2>2, <3>2
    <3>3. CASE i \notin 1 .. n + 1
      BY <1>1, <2>1, <2>2, <3>3
    <3> QED BY <1>1, <3>1, <3>2, <3>3
  <2> QED BY <2>3
<1>4. n + 1 \notin S
  BY <1>1
<1> HIDE DEF S, T, n
<1>5. Cardinality(S \cup {n + 1}) = Cardinality(S) + 1
  BY <1>2, <1>4, FS_AddElement
<1>6. Cardinality(T) = Cardinality(S) + One(rec.kind = kind)
  BY <1>2, <1>3, <1>5 DEF One
<1> QED BY <1>2, <1>6 DEF CountOf, S, T

\* Below its cap a stream records everything.
LEMMA ForwardEffect ==
  ASSUME NEW stream \in Seq(Record), NEW kind \in Kind, NEW addr \in Nat, NEW k
  PROVE  /\ Len(stream) <= MaxRecords => Len(Forward(stream, kind, addr)) <= MaxRecords
         /\ Len(stream) < MaxRecords =>
              /\ Len(Forward(stream, kind, addr)) = Len(stream) + 1
              /\ CountOf(Forward(stream, kind, addr), k) = CountOf(stream, k) + One(kind = k)
<1> DEFINE rec == [kind |-> kind, addr |-> addr]
<1>1. rec \in Record /\ rec.kind = kind
  BY DEF Record
<1> HIDE DEF Record, rec
<1>2. Len(Append(stream, rec)) = Len(stream) + 1 /\ Len(stream) \in Nat
  BY <1>1
<1>3. Forward(stream, kind, addr) = IF Len(stream) < MaxRecords THEN Append(stream, rec) ELSE stream
  BY DEF Forward, rec
<1>4. One(rec.kind = k) = One(kind = k)
  BY <1>1
<1>5. CountOf(Append(stream, rec), k) = CountOf(stream, k) + One(kind = k)
  BY <1>1, <1>4, CountOfAppend
<1> QED BY <1>2, <1>3, <1>5, DCacheAssumption

StreamExact ==
    /\ Len(miss_stream) <= MaxRecords
    /\ t["misses"] + t["writebacks"] <= MaxRecords =>
         /\ Len(miss_stream) = t["misses"] + t["writebacks"]
         /\ CountOf(miss_stream, "Load") = t["misses"] - t["no_allocate_store_misses"]
         /\ CountOf(miss_stream, "Store") = t["no_allocate_store_misses"] + t["writebacks"]

ConservationInv == SafetyInv /\ RefillsConserved /\ StreamExact

\* The counts are numbers, and differences of numbers move with them.
LEMMA Difference ==
  ASSUME NEW a \in Nat, NEW b \in Nat, NEW d \in Nat
  PROVE  /\ a - b \in Int
         /\ (a + d) - b = (a - b) + d
         /\ (a + d) - (b + d) = a - b
OBVIOUS

LEMMA HitConserves ==
  ASSUME ConservationInv, NEW kind \in Kind, NEW addr \in Nat, Hit(kind, addr)
  PROVE  RefillsConserved' /\ StreamExact'
<1>1. TypeOK /\ RefillsConserved /\ StreamExact
  BY DEF ConservationInv, SafetyInv
<1>2. \A k \in {"misses", "no_allocate_store_misses", "evictions", "writebacks"} : t'[k] = t[k]
  <2>1. \A k \in {"misses", "no_allocate_store_misses", "evictions", "writebacks"} :
          t'[k] = t[k] + 0 /\ t[k] \in Nat
    BY <1>1, HitCounters DEF Counters, One, TypeOK
  <2> QED BY <2>1
<1>3. ResidentLines' = ResidentLines
  BY <1>1, HitResidents
<1>4. miss_stream' = miss_stream
  BY DEF Hit
<1> QED BY <1>1, <1>2, <1>3, <1>4 DEF RefillsConserved, StreamExact

LEMMA NoAllocateStoreConserves ==
  ASSUME ConservationInv, NEW kind \in Kind, NEW addr \in Nat, NoAllocateStore(kind, addr)
  PROVE  RefillsConserved' /\ StreamExact'
<1>1. TypeOK /\ RefillsConserved /\ StreamExact /\ miss_stream \in Seq(Record)
  BY DEF ConservationInv, SafetyInv, TypeOK
<1>2. /\ t'["misses"] = t["misses"] + 1
      /\ t'["no_allocate_store_misses"] = t["no_allocate_store_misses"] + 1
      /\ t'["evictions"] = t["evictions"] + 0
      /\ t'["writebacks"] = t["writebacks"] + 0
  BY <1>1, NoAllocateStoreCounters DEF Counters, One
<1>3. /\ t["misses"] \in Nat /\ t["no_allocate_store_misses"] \in Nat
      /\ t["evictions"] \in Nat /\ t["writebacks"] \in Nat
  BY <1>1 DEF TypeOK, Counters
<1>4. RefillsConserved'
  <2>1. ResidentLines' = ResidentLines
    BY DEF NoAllocateStore, ResidentLines
  <2>2. t'["misses"] - t'["no_allocate_store_misses"] = t["misses"] - t["no_allocate_store_misses"]
    BY <1>2, <1>3
  <2> QED BY <1>1, <1>2, <1>3, <2>1, <2>2 DEF RefillsConserved
<1>5. StreamExact'
  <2>1. kind = "Store" /\ miss_stream' = Forward(miss_stream, kind, addr)
    BY DEF NoAllocateStore
  <2>2. Len(miss_stream') <= MaxRecords
    BY <1>1, <2>1, ForwardEffect DEF StreamExact
  <2>3. ASSUME t'["misses"] + t'["writebacks"] <= MaxRecords
        PROVE  /\ Len(miss_stream') = t'["misses"] + t'["writebacks"]
               /\ CountOf(miss_stream', "Load") = t'["misses"] - t'["no_allocate_store_misses"]
               /\ CountOf(miss_stream', "Store") = t'["no_allocate_store_misses"] + t'["writebacks"]
    <3>1. Len(miss_stream) < MaxRecords /\ t["misses"] + t["writebacks"] <= MaxRecords
      BY <1>1, <1>2, <1>3, <2>3, DCacheAssumption DEF StreamExact
    <3>2. /\ Len(miss_stream') = Len(miss_stream) + 1
          /\ CountOf(miss_stream', "Load") = CountOf(miss_stream, "Load") + 0
          /\ CountOf(miss_stream', "Store") = CountOf(miss_stream, "Store") + 1
      BY <1>1, <2>1, <3>1, ForwardEffect DEF One
    <3>3. /\ Len(miss_stream) = t["misses"] + t["writebacks"]
          /\ CountOf(miss_stream, "Load") = t["misses"] - t["no_allocate_store_misses"]
          /\ CountOf(miss_stream, "Store") = t["no_allocate_store_misses"] + t["writebacks"]
      BY <1>1, <3>1 DEF StreamExact
    <3>4. t'["misses"] - t'["no_allocate_store_misses"] = t["misses"] - t["no_allocate_store_misses"]
      BY <1>2, <1>3, Difference
    <3>5. CountOf(miss_stream', "Load") = t["misses"] - t["no_allocate_store_misses"]
      BY <1>3, <3>2, <3>3, Difference
    <3>6. t'["writebacks"] = t["writebacks"]
      BY <1>2, <1>3
    <3>7. Len(miss_stream') = t'["misses"] + t'["writebacks"]
      BY <1>2, <1>3, <3>2, <3>3, <3>6
    <3>8. CountOf(miss_stream', "Store") = t'["no_allocate_store_misses"] + t'["writebacks"]
      BY <1>2, <1>3, <3>2, <3>3, <3>6
    <3> QED BY <3>4, <3>5, <3>7, <3>8
  <2> QED BY <2>2, <2>3 DEF StreamExact
<1> QED BY <1>4, <1>5

LEMMA RefillConserves ==
  ASSUME ConservationInv, NEW kind \in Kind, NEW addr \in Nat, Refill(kind, addr)
  PROVE  RefillsConserved' /\ StreamExact'
<1> DEFINE line == LineOf(addr)
           set == IndexOf(line)
           victim == LineAt(set, storage[set][SlotFor(set)].tag)
           c == RefillCounters(kind, line, set)
           written_back == IF WritesBack(set)
                           THEN Forward(miss_stream, "Store", victim * LineBytes) ELSE miss_stream
           e == One(Evicts(set))
           w == One(WritesBack(set))
<1>1. /\ TypeOK /\ NoDuplicateLines /\ RefillsConserved /\ StreamExact
      /\ miss_stream \in Seq(Record)
  BY DEF ConservationInv, SafetyInv, Safety, TypeOK
<1>2. line \in Nat /\ set \in SetIndex
  BY LineOfType, LineCoordinates
<1>3. /\ line \notin ResidentLines
      /\ Evicts(set) => victim \in ResidentLines
      /\ ResidentLines' = (IF Evicts(set) THEN ResidentLines \ {victim}
                           ELSE ResidentLines) \cup {line}
  BY <1>1, RefillResidents
<1>4. \A k \in {"misses", "no_allocate_store_misses", "evictions", "writebacks"} : t'[k] = c[k]
  BY <1>1, RefillStepCounters DEF Counters
<1>5. miss_stream' = Forward(written_back, "Load", addr)
  BY DEF Refill
<1>6. victim * LineBytes \in Nat
  <2>1. storage[set][SlotFor(set)].tag \in Nat
    BY <1>1, <1>2, SlotType DEF TypeOK, Way
  <2>2. victim \in Nat
    BY <1>2, <2>1, ProductType, DCacheAssumption DEF LineAt, SetIndex
  <2> HIDE DEF victim
  <2> QED BY <2>2, ProductType, DCacheAssumption
<1>7. written_back = miss_stream \/ WritesBack(set)
  OBVIOUS
<1> HIDE DEF line, set
<1>8. /\ t'["misses"] = t["misses"] + 1
      /\ t'["no_allocate_store_misses"] = t["no_allocate_store_misses"]
      /\ t'["evictions"] = t["evictions"] + e
      /\ t'["writebacks"] = t["writebacks"] + w
  BY <1>1, <1>2, <1>4, RefillCountersEffect
<1>9. /\ t["misses"] \in Nat /\ t["no_allocate_store_misses"] \in Nat
      /\ t["evictions"] \in Nat /\ t["writebacks"] \in Nat
  BY <1>1 DEF TypeOK, Counters
<1> HIDE DEF victim, c
<1>10. t'["misses"] - t'["no_allocate_store_misses"]
         = (t["misses"] - t["no_allocate_store_misses"]) + 1
  BY <1>8, <1>9, Difference
<1>11. RefillsConserved'
  <2>1. IsFiniteSet(ResidentLines) /\ Cardinality(ResidentLines) \in Nat
    BY ResidentsFinite, FS_CardinalityType DEF ConservationInv
  <2>2. CASE Evicts(set)
    <3>1. /\ IsFiniteSet(ResidentLines \ {victim})
          /\ Cardinality(ResidentLines \ {victim}) = Cardinality(ResidentLines) - 1
      BY <1>3, <2>1, <2>2, FS_RemoveElement
    <3>2. Cardinality((ResidentLines \ {victim}) \cup {line})
            = Cardinality(ResidentLines \ {victim}) + 1
      BY <1>3, <3>1, FS_AddElement
    <3>3. Cardinality(ResidentLines') = Cardinality(ResidentLines) /\ e = 1
      BY <1>3, <2>1, <2>2, <3>1, <3>2 DEF One
    <3>4. t'["evictions"] = t["evictions"] + 1
      BY <1>8, <3>3
    <3> QED BY <1>1, <1>9, <1>10, <2>1, <3>3, <3>4 DEF RefillsConserved
  <2>3. CASE ~Evicts(set)
    <3>1. Cardinality(ResidentLines') = Cardinality(ResidentLines) + 1 /\ e = 0
      BY <1>3, <2>1, <2>3, FS_AddElement DEF One
    <3>2. t'["evictions"] = t["evictions"] + 0
      BY <1>8, <3>1
    <3> QED BY <1>1, <1>9, <1>10, <2>1, <3>1, <3>2 DEF RefillsConserved
  <2> QED BY <2>2, <2>3
<1>12. "Load" \in Kind /\ "Store" \in Kind /\ addr \in Nat
  BY DEF Kind
<1>13. /\ written_back \in Seq(Record)
       /\ Len(written_back) <= MaxRecords
       /\ Len(miss_stream) + w <= MaxRecords =>
            /\ Len(written_back) = Len(miss_stream) + w
            /\ CountOf(written_back, "Load") = CountOf(miss_stream, "Load")
            /\ CountOf(written_back, "Store") = CountOf(miss_stream, "Store") + w
  <2>1. CountOf(miss_stream, "Load") \in Nat /\ CountOf(miss_stream, "Store") \in Nat
    <3>1. [kind |-> "Load", addr |-> 0] \in Record
      BY DEF Record, Kind
    <3> QED BY <1>1, <3>1, CountOfAppend
  <2>2. Len(miss_stream) <= MaxRecords /\ Len(miss_stream) \in Nat
    <3> HIDE DEF Record
    <3> QED BY <1>1 DEF StreamExact
  <2>3. CASE WritesBack(set)
    <3> DEFINE s == Forward(miss_stream, "Store", victim * LineBytes)
    <3>1. written_back = s /\ w = 1
      BY <2>3 DEF One
    <3>2. s \in Seq(Record) /\ Len(s) <= MaxRecords
      BY <1>1, <1>6, <1>12, <2>2, ForwardType, ForwardEffect
    <3>3. Len(miss_stream) < MaxRecords =>
            /\ Len(s) = Len(miss_stream) + 1
            /\ CountOf(s, "Load") = CountOf(miss_stream, "Load") + 0
            /\ CountOf(s, "Store") = CountOf(miss_stream, "Store") + 1
      BY <1>1, <1>6, <1>12, ForwardEffect DEF One
    <3> HIDE DEF s, w, written_back
    <3> QED BY <2>1, <2>2, <3>1, <3>2, <3>3, DCacheAssumption
  <2>4. CASE ~WritesBack(set)
    <3>1. written_back = miss_stream /\ w = 0
      BY <2>4 DEF One
    <3> HIDE DEF w, written_back
    <3> QED BY <1>1, <2>1, <2>2, <3>1
  <2> QED BY <2>3, <2>4
<1>14. w \in Nat
  BY DEF One
<1> HIDE DEF written_back, w
<1>15. StreamExact'
  <2>1. Len(miss_stream') <= MaxRecords
    BY <1>5, <1>12, <1>13, ForwardEffect
  <2>2. ASSUME t'["misses"] + t'["writebacks"] <= MaxRecords
        PROVE  /\ Len(miss_stream') = t'["misses"] + t'["writebacks"]
               /\ CountOf(miss_stream', "Load") = t'["misses"] - t'["no_allocate_store_misses"]
               /\ CountOf(miss_stream', "Store") = t'["no_allocate_store_misses"] + t'["writebacks"]
    <3>1. /\ t["misses"] + t["writebacks"] <= MaxRecords
          /\ t["misses"] + t["writebacks"] + w < MaxRecords
      BY <1>8, <1>9, <1>14, <2>2, DCacheAssumption
    <3>2. /\ Len(miss_stream) = t["misses"] + t["writebacks"]
          /\ CountOf(miss_stream, "Load") = t["misses"] - t["no_allocate_store_misses"]
          /\ CountOf(miss_stream, "Store") = t["no_allocate_store_misses"] + t["writebacks"]
      BY <1>1, <3>1 DEF StreamExact
    <3>3. /\ Len(written_back) = Len(miss_stream) + w
          /\ CountOf(written_back, "Load") = CountOf(miss_stream, "Load")
          /\ CountOf(written_back, "Store") = CountOf(miss_stream, "Store") + w
          /\ Len(written_back) < MaxRecords
      BY <1>9, <1>13, <1>14, <3>1, <3>2, DCacheAssumption
    <3>4. /\ Len(miss_stream') = Len(written_back) + 1
          /\ CountOf(miss_stream', "Load") = CountOf(written_back, "Load") + 1
          /\ CountOf(miss_stream', "Store") = CountOf(written_back, "Store") + 0
      BY <1>5, <1>12, <1>13, <3>3, ForwardEffect DEF One
    <3>5. CountOf(miss_stream', "Load") = (t["misses"] - t["no_allocate_store_misses"]) + 1
      BY <3>2, <3>3, <3>4
    <3>6. CountOf(miss_stream', "Store") = t["no_allocate_store_misses"] + t["writebacks"] + w
      BY <1>9, <1>14, <3>2, <3>3, <3>4
    <3>7. Len(miss_stream') = t'["misses"] + t'["writebacks"]
      <4>1. Len(miss_stream') = (t["misses"] + t["writebacks"] + w) + 1
        BY <3>2, <3>3, <3>4
      <4> QED BY <1>8, <1>9, <1>14, <4>1
    <3>8. CountOf(miss_stream', "Store") = t'["no_allocate_store_misses"] + t'["writebacks"]
      BY <1>8, <1>9, <1>14, <3>6
    <3> QED BY <1>10, <3>5, <3>7, <3>8
  <2> QED BY <2>1, <2>2 DEF StreamExact
<1> QED BY <1>11, <1>15

LEMMA ConservationInvariant == Spec => []ConservationInv
<1>1. Init => ConservationInv
  <2> SUFFICES ASSUME Init PROVE ConservationInv
    OBVIOUS
  <2>1. \A k \in Counters : t[k] = 0
    BY DEF Init
  <2>2. RefillsConserved
    <3>1. ResidentLines = {}
      BY LinesInMembers DEF Init, ResidentLines
    <3> QED BY <2>1, <3>1, FS_EmptySet DEF RefillsConserved, Counters
  <2>3. StreamExact
    <3>1. miss_stream = <<>> /\ DOMAIN miss_stream = {} /\ Len(miss_stream) = 0
      BY DEF Init
    <3>2. \A k : CountOf(miss_stream, k) = 0
      BY <3>1, FS_EmptySet DEF CountOf
    <3> QED BY <2>1, <3>1, <3>2, DCacheAssumption DEF StreamExact, Counters
  <2> QED BY <2>2, <2>3, InitSafety DEF ConservationInv
<1>2. ConservationInv /\ [Next]_vars => ConservationInv'
  <2> SUFFICES ASSUME ConservationInv, [Next]_vars PROVE ConservationInv'
    OBVIOUS
  <2>1. CASE Next
    <3>1. PICK rec \in Accesses : Simulate(rec)
      BY <2>1 DEF Next
    <3>2. rec.kind \in Kind /\ rec.addr \in Nat
      BY DCacheAssumption DEF Record
    <3>3. SafetyInv'
      BY <3>1, SimulateKeepsSafety, DCacheAssumption DEF ConservationInv
    <3>4. RefillsConserved' /\ StreamExact'
      BY <3>1, <3>2, HitConserves, NoAllocateStoreConserves, RefillConserves DEF Simulate
    <3> QED BY <3>3, <3>4 DEF ConservationInv
  <2>2. CASE UNCHANGED vars
    <3>1. SafetyInv'
      BY <2>2, StutterKeepsSafety DEF ConservationInv
    <3> QED BY <2>2, <3>1 DEF vars, ConservationInv, RefillsConserved, ResidentLines, StreamExact
  <2> QED BY <2>1, <2>2
<1> QED BY <1>1, <1>2, PTL DEF Spec

\* No line appears or vanishes: the lines brought in are those evicted and
\* those resident, however long the trace (dcache.cpp:46-73).
THEOREM LinesConserved == Spec => []RefillsConserved
<1>1. ConservationInv => RefillsConserved
  BY DEF ConservationInv
<1> QED BY <1>1, ConservationInvariant, PTL

\* Until the stream is full the next level is told of every refill, direct
\* write and write-back, each once; the stream never exceeds its cap
\* (dcache.hpp:73-76).
THEOREM TrafficComplete == Spec => []ForwardsComplete
<1>1. ConservationInv => ForwardsComplete
  BY DEF ConservationInv, StreamExact, ForwardsComplete, Forwarded, CountOf
<1> QED BY <1>1, ConservationInvariant, PTL

-----------------------------------------------------------------------------
(* DCacheMemory implements Memory: the cache is invisible to the program.  *)
(* The inductive invariant.  A resident line is one the program asked for, *)
(* and a line that is not dirty has the value of the level below, so that  *)
(* it may be dropped.                                                      *)

MemType ==
    /\ data \in [SetIndex -> [WayIndex -> Value]]
    /\ below \in [Line -> Value]
    /\ result \in Value

ResidentsAskedFor ==
    \A s \in SetIndex, w \in WayIndex :
        storage[s][w].valid => LineAt(s, storage[s][w].tag) \in Line

CleanAgrees ==
    \A s \in SetIndex, w \in WayIndex :
        storage[s][w].valid /\ ~storage[s][w].dirty
            => data[s][w] = below[LineAt(s, storage[s][w].tag)]

MemInv ==
    /\ SafetyInv
    /\ MemType
    /\ ResidentsAskedFor
    /\ CleanAgrees

-----------------------------------------------------------------------------
(* Where the value of a line is.                                           *)

LEMMA LinesAreNumbers == Line \subseteq Nat
BY LineOfType, DCacheAssumption DEF Line, Record

LEMMA UpdateEffect ==
  ASSUME NEW D, NEW f \in [SetIndex -> [WayIndex -> D]], NEW set \in SetIndex,
         NEW way \in WayIndex, NEW v \in D
  PROVE  LET g == [f EXCEPT ![set] = [@ EXCEPT ![way] = v]]
         IN  /\ g \in [SetIndex -> [WayIndex -> D]]
             /\ g[set][way] = v
             /\ \A s \in SetIndex, w \in WayIndex : s # set \/ w # way => g[s][w] = f[s][w]
<1> DEFINE row == [f[set] EXCEPT ![way] = v]
<1>1. /\ row \in [WayIndex -> D]
      /\ row[way] = v
      /\ \A w \in WayIndex : w # way => row[w] = f[set][w]
  OBVIOUS
<1> HIDE DEF row
<1>2. LET g == [f EXCEPT ![set] = row]
      IN  /\ g \in [SetIndex -> [WayIndex -> D]]
          /\ g[set] = row
          /\ \A s \in SetIndex : s # set => g[s] = f[s]
  BY <1>1
<1> QED BY <1>1, <1>2 DEF row

\* Seen and Holders as functions of the state, to speak of two states at once.
HeldIn(st, line, w) == st[IndexOf(line)][w].valid /\ st[IndexOf(line)][w].tag = TagOf(line)
SeenIn(st, d, b, line) ==
    LET held == {w \in WayIndex : HeldIn(st, line, w)}
    IN  IF held # {} THEN d[IndexOf(line)][FirstWay(held)] ELSE b[line]

LEMMA SeenNowAndNext ==
  ASSUME NEW line
  PROVE  /\ Seen(line) = SeenIn(storage, data, below, line)
         /\ Seen(line)' = SeenIn(storage', data', below', line)
BY DEF Seen, SeenIn, HeldIn, Holders

\* The one copy of a resident line is what the program sees; of any other
\* line it sees what the level below has.
LEMMA SeenCases ==
  ASSUME NEW st, NEW d, NEW b, NEW line,
         \A v, w \in WayIndex : HeldIn(st, line, v) /\ HeldIn(st, line, w) => v = w
  PROVE  /\ \A w \in WayIndex :
               HeldIn(st, line, w) => SeenIn(st, d, b, line) = d[IndexOf(line)][w]
         /\ (\A w \in WayIndex : ~HeldIn(st, line, w)) => SeenIn(st, d, b, line) = b[line]
<1> DEFINE held == {w \in WayIndex : HeldIn(st, line, w)}
<1>1. ASSUME NEW w \in WayIndex, HeldIn(st, line, w)
      PROVE  SeenIn(st, d, b, line) = d[IndexOf(line)][w]
  <2>1. held # {} /\ held \in SUBSET WayIndex
    BY <1>1
  <2>2. FirstWay(held) \in held
    <3> HIDE DEF held
    <3> QED BY <2>1, FirstWayInSet
  <2>3. FirstWay(held) = w
    BY <1>1, <2>2
  <2> QED BY <2>1, <2>3 DEF SeenIn
<1>2. ASSUME \A w \in WayIndex : ~HeldIn(st, line, w)
      PROVE  SeenIn(st, d, b, line) = b[line]
  BY <1>2 DEF SeenIn
<1> QED BY <1>1, <1>2

LEMMA OneHolder ==
  ASSUME NEW line \in Nat
  PROVE  /\ NoDuplicateLines =>
              \A v, w \in WayIndex : HeldIn(storage, line, v) /\ HeldIn(storage, line, w) => v = w
         /\ NoDuplicateLines' =>
              \A v, w \in WayIndex : HeldIn(storage', line, v) /\ HeldIn(storage', line, w) => v = w
BY LineCoordinates DEF NoDuplicateLines, HeldIn

\* A way holds the line at its coordinates and no other.
LEMMA HolderIsAtLine ==
  ASSUME TypeOK, NEW s \in SetIndex, NEW w \in WayIndex, storage[s][w].valid, NEW line \in Nat
  PROVE  LineAt(s, storage[s][w].tag) = line <=> s = IndexOf(line) /\ HeldIn(storage, line, w)
<1>1. storage[s][w].tag \in Nat
  BY DEF TypeOK, Way
<1> QED BY <1>1, LineAtCoordinates, LineCoordinates DEF HeldIn

-----------------------------------------------------------------------------
(* What an access does to the values the program sees.                     *)

Effect(kind, line, value) ==
    IF kind = "Load"
    THEN /\ result' = Seen(line)
         /\ \A l \in Line : Seen(l)' = Seen(l)
    ELSE /\ result' = value
         /\ \A l \in Line : Seen(l)' = IF l = line THEN value ELSE Seen(l)

DataInv == MemType /\ ResidentsAskedFor /\ CleanAgrees

LEMMA HitMovesData ==
  ASSUME MemInv, SafetyInv', cfg' = cfg, NEW kind \in Kind, NEW addr \in Nat, NEW value \in Value,
         LineOf(addr) \in Line, Hit(kind, addr), HitData(LineOf(addr), kind, value)
  PROVE  DataInv' /\ Effect(kind, LineOf(addr), value)
<1> DEFINE line == LineOf(addr)
           set == IndexOf(line)
           held == Holders(set, TagOf(line))
           way == FirstWay(held)
           dirtied == [storage[set][way] EXCEPT !.dirty = TRUE]
<1>0. /\ TypeOK /\ NoDuplicateLines /\ TypeOK' /\ NoDuplicateLines'
      /\ MemType /\ ResidentsAskedFor /\ CleanAgrees
  BY DEF MemInv, SafetyInv, Safety
<1>1. line \in Nat /\ set \in SetIndex /\ TagOf(line) \in Nat
  BY LineOfType, LineCoordinates
<1>2. way \in WayIndex /\ HeldIn(storage, line, way)
  <2>1. held \in SUBSET WayIndex /\ held # {}
    BY <1>1, HoldersAreWays DEF Hit
  <2>2. way \in held
    BY <2>1, FirstWayInSet
  <2> QED BY <2>1, <2>2 DEF Holders, HeldIn
<1>3. \A s \in SetIndex, w \in WayIndex :
        storage'[s][w].valid = storage[s][w].valid /\ storage'[s][w].tag = storage[s][w].tag
  BY <1>0, HitKeepsLines
<1>4. \A l \in Nat, w \in WayIndex : HeldIn(storage', l, w) <=> HeldIn(storage, l, w)
  BY <1>3, LineCoordinates DEF HeldIn
<1>5. kind = "Load" => /\ result' = data[set][way] /\ data' = data /\ below' = below
                       /\ storage' = storage
  BY DEF HitData, Hit
<1>6. kind # "Load" => /\ result' = value
                       /\ data' = [data EXCEPT ![set] = [@ EXCEPT ![way] = value]]
                       /\ below' = IF WriteBack THEN below ELSE [below EXCEPT ![line] = value]
                       /\ storage' = IF WriteBack
                            THEN StorageWith(set, way, dirtied) ELSE storage
  BY DEF HitData, Hit, Kind
<1>7. Seen(line) = data[set][way]
  BY <1>0, <1>1, <1>2, OneHolder, SeenCases, SeenNowAndNext
<1>10. dirtied \in Way /\ dirtied.dirty
  <2>1. storage[set][way] \in Way
    BY <1>0, <1>1, <1>2 DEF TypeOK
  <2> HIDE DEF set, way
  <2> QED BY <2>1 DEF Way
<1>11. /\ WriteBack => StorageWith(set, way, dirtied)[set][way] = dirtied
       /\ \A s \in SetIndex, w \in WayIndex :
            s # set \/ w # way => StorageWith(set, way, dirtied)[s][w] = storage[s][w]
  <2> HIDE DEF set, way, dirtied
  <2> QED BY <1>0, <1>1, <1>2, <1>10, StorageWithEffect
<1>12. line \in Line /\ set = IndexOf(line)
  OBVIOUS
<1> HIDE DEF line, set, way, dirtied
<1>8. CASE kind = "Load"
  <2>1. MemType' /\ ResidentsAskedFor' /\ CleanAgrees'
    BY <1>0, <1>1, <1>2, <1>5, <1>8 DEF MemType, ResidentsAskedFor, CleanAgrees
  <2>2. \A l : Seen(l)' = Seen(l)
    BY <1>5, <1>8, SeenNowAndNext
  <2> QED BY <1>5, <1>7, <1>8, <2>1, <2>2 DEF DataInv, Effect, line
<1>9. CASE kind # "Load"
  <2>1. /\ data' \in [SetIndex -> [WayIndex -> Value]]
        /\ data'[set][way] = value
        /\ \A s \in SetIndex, w \in WayIndex : s # set \/ w # way => data'[s][w] = data[s][w]
    <3>1. /\ data \in [SetIndex -> [WayIndex -> Value]]
          /\ data' = [data EXCEPT ![set] = [@ EXCEPT ![way] = value]]
      BY <1>0, <1>6, <1>9 DEF MemType
    <3> QED BY <1>1, <1>2, <3>1, UpdateEffect
  <2>2. /\ below' \in [Line -> Value]
        /\ \A l \in Line : l # line => below'[l] = below[l]
        /\ ~WriteBack => below'[line] = value
    BY <1>0, <1>6, <1>9, <1>12 DEF MemType
  <2>3. ResidentsAskedFor'
    BY <1>0, <1>3 DEF ResidentsAskedFor
  <2>4. CleanAgrees'
    <3> SUFFICES ASSUME NEW s \in SetIndex, NEW w \in WayIndex,
                        storage'[s][w].valid, ~storage'[s][w].dirty
                 PROVE  data'[s][w] = below'[LineAt(s, storage'[s][w].tag)]
      BY DEF CleanAgrees
    <3>1. CASE s = set /\ w = way
      <4>1. LineAt(s, storage'[s][w].tag) = line
        BY <1>0, <1>1, <1>2, <1>3, <1>12, <3>1, HolderIsAtLine
      <4>2. ~WriteBack
        BY <1>6, <1>9, <1>10, <1>11, <3>1
      <4> QED BY <2>1, <2>2, <3>1, <4>1, <4>2
    <3>2. CASE ~(s = set /\ w = way)
      <4>1. storage'[s][w] = storage[s][w]
        BY <1>6, <1>9, <1>11, <3>2
      <4>2. LineAt(s, storage[s][w].tag) # line
        BY <1>0, <1>1, <1>2, <1>12, <3>2, <4>1, HolderIsAtLine, OneHolder
      <4>3. LineAt(s, storage[s][w].tag) \in Line
        BY <1>0, <4>1 DEF ResidentsAskedFor
      <4> QED BY <1>0, <2>1, <2>2, <3>2, <4>1, <4>2, <4>3 DEF CleanAgrees
    <3> QED BY <3>1, <3>2
  <2>5. Seen(line)' = value
    BY <1>0, <1>1, <1>2, <1>4, <1>12, <2>1, OneHolder, SeenCases, SeenNowAndNext
  <2>6. ASSUME NEW l \in Line, l # line
        PROVE  Seen(l)' = Seen(l)
    <3>1. l \in Nat /\ IndexOf(l) \in SetIndex
      BY LinesAreNumbers, LineCoordinates
    <3>2. \A w \in WayIndex : HeldIn(storage, l, w) => IndexOf(l) # set \/ w # way
      BY <1>1, <1>2, <1>12, <2>6, <3>1, LineCoordinates DEF HeldIn
    <3>3. CASE \E w \in WayIndex : HeldIn(storage, l, w)
      <4>1. PICK w \in WayIndex : HeldIn(storage, l, w)
        BY <3>3
      <4>2. Seen(l) = data[IndexOf(l)][w] /\ Seen(l)' = data'[IndexOf(l)][w]
        BY <1>0, <1>4, <3>1, <4>1, OneHolder, SeenCases, SeenNowAndNext
      <4> QED BY <2>1, <3>1, <3>2, <4>1, <4>2
    <3>4. CASE ~\E w \in WayIndex : HeldIn(storage, l, w)
      <4>1. Seen(l) = below[l] /\ Seen(l)' = below'[l]
        BY <1>0, <1>4, <3>1, <3>4, OneHolder, SeenCases, SeenNowAndNext
      <4> QED BY <2>2, <2>6, <4>1
    <3> QED BY <3>3, <3>4
  <2>7. MemType'
    BY <1>6, <1>9, <2>1, <2>2 DEF MemType
  <2> QED BY <1>6, <1>9, <2>3, <2>4, <2>5, <2>6, <2>7 DEF DataInv, Effect, line
<1> QED BY <1>8, <1>9

LEMMA BypassMovesData ==
  ASSUME MemInv, SafetyInv', cfg' = cfg, NEW kind \in Kind, NEW addr \in Nat, NEW value \in Value,
         LineOf(addr) \in Line, NoAllocateStore(kind, addr), BypassData(LineOf(addr), value)
  PROVE  DataInv' /\ Effect(kind, LineOf(addr), value)
<1> DEFINE line == LineOf(addr)
           set == IndexOf(line)
<1>0. /\ TypeOK /\ NoDuplicateLines /\ MemType /\ ResidentsAskedFor /\ CleanAgrees
  BY DEF MemInv, SafetyInv, Safety
<1>1. line \in Nat /\ line \in Line
  BY LineOfType
<1>2. /\ kind # "Load" /\ storage' = storage /\ data' = data
      /\ result' = value /\ below' = [below EXCEPT ![line] = value]
  BY DEF NoAllocateStore, BypassData
<1>3. \A w \in WayIndex : ~HeldIn(storage, line, w)
  BY DEF NoAllocateStore, Holders, HeldIn
<1> HIDE DEF line
<1>4. /\ below' \in [Line -> Value] /\ below'[line] = value
      /\ \A l \in Line : l # line => below'[l] = below[l]
  BY <1>0, <1>1, <1>2 DEF MemType
<1>5. MemType' /\ ResidentsAskedFor'
  BY <1>0, <1>2, <1>4 DEF MemType, ResidentsAskedFor
<1>6. CleanAgrees'
  <2> SUFFICES ASSUME NEW s \in SetIndex, NEW w \in WayIndex,
                      storage[s][w].valid, ~storage[s][w].dirty
               PROVE  data[s][w] = below'[LineAt(s, storage[s][w].tag)]
    BY <1>2 DEF CleanAgrees
  <2>1. LineAt(s, storage[s][w].tag) # line
    BY <1>0, <1>1, <1>3, HolderIsAtLine
  <2> QED BY <1>0, <1>4, <2>1 DEF CleanAgrees, ResidentsAskedFor
<1>7. Seen(line)' = value
  <2>1. Seen(line)' = SeenIn(storage, data, below', line)
    BY <1>2, SeenNowAndNext
  <2>2. SeenIn(storage, data, below', line) = below'[line]
    BY <1>3, SeenCases
  <2> QED BY <1>4, <2>1, <2>2
<1>8. ASSUME NEW l \in Line, l # line PROVE Seen(l)' = Seen(l)
  <2>1. below'[l] = below[l]
    BY <1>4, <1>8
  <2> QED BY <1>2, <2>1, SeenNowAndNext DEF SeenIn
<1> QED BY <1>2, <1>5, <1>6, <1>7, <1>8 DEF DataInv, Effect, line

LEMMA RefillMovesData ==
  ASSUME MemInv, SafetyInv', cfg' = cfg, NEW kind \in Kind, NEW addr \in Nat, NEW value \in Value,
         LineOf(addr) \in Line, Refill(kind, addr), RefillData(LineOf(addr), kind, value)
  PROVE  DataInv' /\ Effect(kind, LineOf(addr), value)
<1> DEFINE line == LineOf(addr)
           set == IndexOf(line)
           slot == SlotFor(set)
           victim == LineAt(set, storage[set][slot].tag)
           written_back == IF WritesBack(set)
                           THEN [below EXCEPT ![victim] = data[set][slot]] ELSE below
           got == IF kind = "Load" THEN written_back[line] ELSE value
<1>0. /\ TypeOK /\ NoDuplicateLines /\ TypeOK' /\ NoDuplicateLines'
      /\ MemType /\ ResidentsAskedFor /\ CleanAgrees
  BY DEF MemInv, SafetyInv, Safety
<1>1. /\ set \in SetIndex /\ slot \in WayIndex /\ line \in Nat
      /\ storage'[set][slot].valid
      /\ storage'[set][slot].tag = TagOf(line)
      /\ storage'[set][slot].dirty = RefillDirties(kind)
      /\ \A s \in SetIndex, w \in WayIndex :
           s # set \/ w # slot => storage'[s][w] = storage[s][w]
  BY <1>0, RefillStorage
<1>2. \A w \in WayIndex : ~HeldIn(storage, line, w)
  BY DEF Refill, Holders, HeldIn
<1>3. /\ result' = got
      /\ data' = [data EXCEPT ![set] = [@ EXCEPT ![slot] = got]]
      /\ below' = IF kind # "Load" /\ ~WriteBack
                  THEN [written_back EXCEPT ![line] = value] ELSE written_back
  BY DEF RefillData, Kind
<1>4. WritesBack(set) <=> storage[set][slot].valid /\ storage[set][slot].dirty
  BY <1>0, <1>1, SlotInUse DEF WritesBack
<1>5. line \in Line /\ set = IndexOf(line)
  OBVIOUS
<1>6. storage[set][slot].valid => victim \in Line /\ victim # line
  BY <1>0, <1>1, <1>2, HolderIsAtLine DEF ResidentsAskedFor
<1> HIDE DEF line, set, slot
\* What the level below has after the write-back.
<1>7. /\ written_back \in [Line -> Value]
      /\ written_back[line] = below[line]
      /\ \A l \in Line : l # victim \/ ~WritesBack(set) => written_back[l] = below[l]
      /\ WritesBack(set) => written_back[victim] = data[set][slot]
  <2>1. below \in [Line -> Value] /\ data[set][slot] \in Value
    BY <1>0, <1>1 DEF MemType
  <2> HIDE DEF victim
  <2> QED BY <1>4, <1>5, <1>6, <2>1
<1>8. got \in Value
  BY <1>5, <1>7
<1> HIDE DEF written_back, got
<1>9. /\ below' \in [Line -> Value]
      /\ kind # "Load" /\ ~WriteBack => below'[line] = value
      /\ kind = "Load" => below'[line] = below[line]
      /\ \A l \in Line : l # line => below'[l] = written_back[l]
  BY <1>3, <1>5, <1>7
<1>10. /\ data' \in [SetIndex -> [WayIndex -> Value]]
       /\ data'[set][slot] = got
       /\ \A s \in SetIndex, w \in WayIndex : s # set \/ w # slot => data'[s][w] = data[s][w]
  <2>1. data \in [SetIndex -> [WayIndex -> Value]]
    BY <1>0 DEF MemType
  <2> QED BY <1>1, <1>3, <1>8, <2>1, UpdateEffect
<1>11. kind = "Load" => got = below[line] /\ Seen(line) = below[line]
  BY <1>0, <1>1, <1>2, <1>7, SeenCases, SeenNowAndNext DEF got
<1>12. kind # "Load" => got = value
  BY DEF got
<1>13. HeldIn(storage', line, slot)
  BY <1>1, <1>5 DEF HeldIn
<1>14. Seen(line)' = got
  BY <1>0, <1>1, <1>5, <1>10, <1>13, OneHolder, SeenCases, SeenNowAndNext
<1>15. MemType'
  BY <1>3, <1>8, <1>9, <1>10 DEF MemType
<1>16. LineAt(set, storage'[set][slot].tag) = line
  BY <1>1, <1>5, LineCoordinates
<1>17. ResidentsAskedFor'
  <2> SUFFICES ASSUME NEW s \in SetIndex, NEW w \in WayIndex, storage'[s][w].valid
               PROVE  LineAt(s, storage'[s][w].tag) \in Line
    BY DEF ResidentsAskedFor
  <2>1. CASE s = set /\ w = slot
    BY <1>5, <1>16, <2>1
  <2>2. CASE ~(s = set /\ w = slot)
    BY <1>0, <1>1, <2>2 DEF ResidentsAskedFor
  <2> QED BY <2>1, <2>2
<1>18. CleanAgrees'
  <2> SUFFICES ASSUME NEW s \in SetIndex, NEW w \in WayIndex,
                      storage'[s][w].valid, ~storage'[s][w].dirty
               PROVE  data'[s][w] = below'[LineAt(s, storage'[s][w].tag)]
    BY DEF CleanAgrees
  <2>1. CASE s = set /\ w = slot
    <3>1. kind = "Load" \/ ~WriteBack
      BY <1>1, <2>1 DEF RefillDirties, Kind
    <3> QED BY <1>9, <1>10, <1>11, <1>12, <1>16, <2>1, <3>1
  <2>2. CASE ~(s = set /\ w = slot)
    <3> DEFINE l == LineAt(s, storage[s][w].tag)
    <3>1. storage'[s][w] = storage[s][w] /\ data'[s][w] = data[s][w]
      BY <1>1, <1>10, <2>2
    <3>2. l \in Line /\ l # line /\ data[s][w] = below[l]
      BY <1>0, <1>1, <1>2, <3>1, HolderIsAtLine DEF ResidentsAskedFor, CleanAgrees
    <3>3. WritesBack(set) => l # victim
      <4>1. storage[set][slot].tag \in Nat /\ storage[s][w].tag \in Nat
        BY <1>0, <1>1 DEF TypeOK, Way
      <4> QED BY <1>0, <1>1, <1>4, <2>2, <3>1, <4>1, LineAtCoordinates DEF NoDuplicateLines
    <3> HIDE DEF l, victim
    <3>4. below'[l] = below[l]
      BY <1>7, <1>9, <3>2, <3>3
    <3> QED BY <3>1, <3>2, <3>4 DEF l
  <2> QED BY <2>1, <2>2
<1>19. ASSUME NEW l \in Line, l # line PROVE Seen(l)' = Seen(l)
  <2>1. l \in Nat /\ IndexOf(l) \in SetIndex
    BY LinesAreNumbers, LineCoordinates
  <2>2. ~(IndexOf(l) = set /\ HeldIn(storage', l, slot))
    BY <1>1, <1>5, <1>19, <2>1, LineCoordinates DEF HeldIn
  <2>3. \A w \in WayIndex : IndexOf(l) # set \/ w # slot =>
           /\ HeldIn(storage', l, w) <=> HeldIn(storage, l, w)
           /\ data'[IndexOf(l)][w] = data[IndexOf(l)][w]
    BY <1>1, <1>10, <2>1 DEF HeldIn
  <2>4. CASE IndexOf(l) = set /\ HeldIn(storage, l, slot)
    <3>1. victim = l /\ storage[set][slot].valid
      BY <1>0, <1>1, <2>1, <2>4, HolderIsAtLine DEF HeldIn
    <3>2. \A w \in WayIndex : ~HeldIn(storage', l, w)
      BY <1>0, <1>1, <2>1, <2>2, <2>3, <2>4, OneHolder
    <3>3. Seen(l)' = below'[l] /\ Seen(l) = data[set][slot]
      BY <1>0, <1>1, <2>1, <2>4, <3>2, OneHolder, SeenCases, SeenNowAndNext
    <3>4. ~storage[set][slot].dirty => data[set][slot] = below[l]
      BY <1>0, <1>1, <3>1 DEF CleanAgrees
    <3> HIDE DEF victim
    <3> QED BY <1>4, <1>7, <1>9, <1>19, <3>1, <3>3, <3>4
  <2>5. CASE \E w \in WayIndex : HeldIn(storage, l, w) /\ (IndexOf(l) # set \/ w # slot)
    <3>1. PICK w \in WayIndex : HeldIn(storage, l, w) /\ (IndexOf(l) # set \/ w # slot)
      BY <2>5
    <3>2. Seen(l) = data[IndexOf(l)][w] /\ Seen(l)' = data'[IndexOf(l)][w]
      BY <1>0, <2>1, <2>3, <3>1, OneHolder, SeenCases, SeenNowAndNext
    <3> QED BY <2>3, <3>1, <3>2
  <2>6. CASE \A w \in WayIndex : ~HeldIn(storage, l, w)
    <3>1. \A w \in WayIndex : ~HeldIn(storage', l, w)
      BY <2>2, <2>3, <2>6
    <3>2. Seen(l) = below[l] /\ Seen(l)' = below'[l]
      BY <1>0, <2>1, <2>6, <3>1, OneHolder, SeenCases, SeenNowAndNext
    <3>3. WritesBack(set) => l # victim
      BY <1>0, <1>1, <1>4, <2>1, <2>6, HolderIsAtLine
    <3> HIDE DEF victim
    <3> QED BY <1>7, <1>9, <1>19, <3>2, <3>3
  <2> QED BY <2>4, <2>5, <2>6
<1>20. CASE kind = "Load"
  <2>1. \A l \in Line : Seen(l)' = Seen(l)
    BY <1>11, <1>14, <1>19, <1>20
  <2> QED BY <1>3, <1>11, <1>15, <1>17, <1>18, <1>20, <2>1 DEF DataInv, Effect, line
<1>21. CASE kind # "Load"
  BY <1>3, <1>12, <1>14, <1>15, <1>17, <1>18, <1>19, <1>21 DEF DataInv, Effect, line
<1> QED BY <1>20, <1>21

-----------------------------------------------------------------------------
(* The refinement.                                                         *)

MemVars == <<vars, data, below, result>>

LEMMA MemAccessEffect ==
  ASSUME MemInv, NEW rec \in Accesses, NEW value \in Value, MemAccess(rec, value)
  PROVE  /\ MemInv'
         /\ Effect(rec.kind, LineOf(rec.addr), value)
         /\ LineOf(rec.addr) \in Line
         /\ rec \in Record
<1>1. /\ rec \in Record /\ rec.kind \in Kind /\ rec.addr \in Nat
      /\ LineOf(rec.addr) \in Line
  BY DCacheAssumption DEF Record, Line
<1>2. Simulate(rec) /\ cfg' = cfg
  BY DEF MemAccess, Simulate
<1>3. SafetyInv'
  BY <1>2, SimulateKeepsSafety, DCacheAssumption DEF MemInv
<1>4. DataInv' /\ Effect(rec.kind, LineOf(rec.addr), value)
  <2>1. \/ Hit(rec.kind, rec.addr) /\ HitData(LineOf(rec.addr), rec.kind, value)
        \/ NoAllocateStore(rec.kind, rec.addr) /\ BypassData(LineOf(rec.addr), value)
        \/ Refill(rec.kind, rec.addr) /\ RefillData(LineOf(rec.addr), rec.kind, value)
    BY DEF MemAccess
  <2> QED BY <1>1, <1>2, <1>3, <2>1, HitMovesData, BypassMovesData, RefillMovesData
<1> QED BY <1>1, <1>3, <1>4 DEF MemInv, DataInv

\* Storing and loading in the cache is inductive: every way that may be
\* dropped without a write-back agrees with the level below.
LEMMA MemInvariant == MemSpec => []MemInv
<1>1. MemInit => MemInv
  <2> SUFFICES ASSUME MemInit PROVE MemInv
    OBVIOUS
  <2>1. SafetyInv
    BY InitSafety DEF MemInit
  <2>2. MemType
    BY ValueAssumption DEF MemInit, MemType
  <2>3. \A s \in SetIndex, w \in WayIndex : ~storage[s][w].valid
    BY DEF MemInit, Init
  <2> QED BY <2>1, <2>2, <2>3 DEF MemInv, ResidentsAskedFor, CleanAgrees
<1>2. MemInv /\ [MemNext]_MemVars => MemInv'
  <2> SUFFICES ASSUME MemInv, [MemNext]_MemVars PROVE MemInv'
    OBVIOUS
  <2>1. CASE MemNext
    BY <2>1, MemAccessEffect DEF MemNext
  <2>2. CASE UNCHANGED MemVars
    <3>1. UNCHANGED vars /\ UNCHANGED <<data, below, result, storage>>
      BY <2>2 DEF MemVars, vars
    <3>2. SafetyInv'
      BY <3>1, StutterKeepsSafety DEF MemInv
    <3> QED BY <3>1, <3>2 DEF MemInv, MemType, ResidentsAskedFor, CleanAgrees
  <2> QED BY <2>1, <2>2
<1> QED BY <1>1, <1>2, PTL DEF MemSpec, MemVars

\* The requests of the abstract memory are the accesses of the trace.
Request(rec) == [kind |-> rec.kind, line |-> LineOf(rec.addr)]
Requests(tr) == [i \in DOMAIN tr |-> [kind |-> tr[i].kind, line |-> LineOf(tr[i].addr)]]

LEMMA RequestsAppend ==
  ASSUME NEW tr \in Seq(Record), NEW rec \in Record
  PROVE  Requests(Append(tr, rec)) = Append(Requests(tr), Request(rec))
<1> HIDE DEF Record
<1>1. /\ Len(Append(tr, rec)) = Len(tr) + 1
      /\ DOMAIN tr = 1 .. Len(tr)
      /\ DOMAIN Append(tr, rec) = 1 .. Len(tr) + 1
      /\ \A i \in 1 .. Len(tr) : Append(tr, rec)[i] = tr[i]
      /\ Append(tr, rec)[Len(tr) + 1] = rec
  OBVIOUS
<1> QED BY <1>1 DEF Requests, Request

\* The cache is invisible: for every geometry, policy, configuration and trace,
\* every load returns the value of the last store to its line and no
\* eviction loses one (dcache.cpp:43-73, 102-158).
THEOREM CacheIsInvisible == MemSpec => ImplementsMemory
<1> DEFINE mem == [line \in Line |-> Seen(line)]
<1>1. MemInit /\ MemInv => Promise!Init
  <2> SUFFICES ASSUME MemInit, MemInv PROVE Promise!Init
    OBVIOUS
  <2>1. \A line \in Line : Seen(line) \in Value
    <3> SUFFICES ASSUME NEW line \in Line PROVE Seen(line) \in Value
      OBVIOUS
    <3>1. \A w \in WayIndex : ~HeldIn(storage, line, w)
      BY LinesAreNumbers, LineCoordinates DEF MemInit, Init, HeldIn
    <3>2. Seen(line) = below[line]
      BY <3>1, SeenCases, SeenNowAndNext
    <3> QED BY <3>2 DEF MemInv, MemType
  <2>2. trace = <<>>
    BY DEF MemInit, Init
  <2> QED BY <2>1, <2>2 DEF Promise!Init, MemInv, MemType
<1>2. MemInv /\ [MemNext]_MemVars => [Promise!Next]_<<mem, result, Requests(trace)>>
  <2> SUFFICES ASSUME MemInv, [MemNext]_MemVars
               PROVE  [Promise!Next]_<<mem, result, Requests(trace)>>
    OBVIOUS
  <2>1. CASE MemNext
    <3>1. PICK rec \in Accesses, value \in Value : MemAccess(rec, value)
      BY <2>1 DEF MemNext
    <3> DEFINE line == LineOf(rec.addr)
    <3>2. Effect(rec.kind, line, value) /\ line \in Line /\ rec \in Record
      BY <3>1, MemAccessEffect
    <3>3. Requests(trace') = Append(Requests(trace), Request(rec))
      BY <3>1, <3>2, RequestsAppend DEF MemAccess, MemInv, SafetyInv, TypeOK
    <3>4. CASE rec.kind = "Load"
      <4>1. Promise!Load(line)
        BY <3>2, <3>3, <3>4 DEF Promise!Load, Effect, Requests, Request
      <4> QED BY <3>2, <4>1 DEF Promise!Next
    <3>5. CASE rec.kind # "Load"
      <4>1. rec.kind = "Store"
        BY <3>2, <3>5 DEF Record, Kind
      <4>2. Promise!Store(line, value)
        BY <3>2, <3>3, <3>5, <4>1 DEF Promise!Store, Effect, Requests, Request
      <4> QED BY <3>2, <4>2 DEF Promise!Next
    <3> QED BY <3>4, <3>5
  <2>2. CASE UNCHANGED MemVars
    BY <2>2 DEF MemVars, vars, Seen, Holders, Requests
  <2> QED BY <2>1, <2>2
<1> QED BY <1>1, <1>2, MemInvariant, PTL DEF MemSpec, MemVars, ImplementsMemory, Promise!Spec, Requests

\* The data only follow: with or without them the cache takes the same steps,
\* so that what is proved of Spec holds of MemSpec.
THEOREM DataFollows == MemSpec => Spec
<1>1. MemInit => Init
  BY DEF MemInit
<1>2. [MemNext]_MemVars => [Next]_vars
  <2>1. MemNext => Next
    BY DEF MemNext, MemAccess, Next, Simulate
  <2> QED BY <2>1 DEF MemVars
<1> QED BY <1>1, <1>2, PTL DEF MemSpec, MemVars, Spec

-----------------------------------------------------------------------------
(* Recency.  Under the tick policies the ways in use have ticks of their   *)
(* own, none of the future, so that the ticks order them.                  *)

TicksInv ==
    \A s \in SetIndex :
        /\ TicksDiffer(UsedWays(s), Ticks(s))
        /\ \A w \in UsedWays(s) : Ticks(s)[w] <= replacement[s].tick

RecencyInv == SafetyInv /\ (UsesTicks(cfg.policy) => TicksInv)

LEMMA UsedWaysAreFinite ==
  ASSUME NEW s \in SetIndex
  PROVE  /\ UsedWays(s) \in SUBSET WayIndex
         /\ IsFiniteSet(UsedWays(s))
         /\ \A w \in WayIndex : w \in UsedWays(s) <=> storage[s][w].valid
         /\ Cardinality(WayIndex) = Ways
         /\ IsFiniteSet(WayIndex)
<1>1. UsedWays(s) \in SUBSET WayIndex
  BY DEF UsedWays
<1>2. IsFiniteSet(WayIndex) /\ Cardinality(WayIndex) = Ways
  <2>1. 0 \in Int /\ Ways - 1 \in Int /\ Ways \in Nat \ {0}
    BY WaysAssumption
  <2>2. IsFiniteSet(0 .. Ways - 1)
        /\ Cardinality(0 .. Ways - 1) = IF 0 > Ways - 1 THEN 0 ELSE (Ways - 1) - 0 + 1
    BY <2>1, FS_Interval
  <2> QED BY <2>1, <2>2 DEF WayIndex
<1>3. IsFiniteSet(UsedWays(s))
  BY <1>1, <1>2, FS_Subset
<1> QED BY <1>1, <1>2, <1>3 DEF UsedWays, FreeWays

LEMMA TicksType ==
  ASSUME TypeOK, NEW s \in SetIndex
  PROVE  Ticks(s) \in [WayIndex -> Nat] /\ replacement[s].tick \in Nat
<1>1. replacement[s] \in ReplacementState
  BY DEF TypeOK
<1> QED BY <1>1 DEF Ticks, ReplacementState

\* The list of a set: its lines, each once.
LEMMA LinesByTickList ==
  ASSUME TypeOK, TicksInv, NEW s \in SetIndex
  PROVE  /\ LinesByTick(s) \in Seq(Nat)
         /\ Len(LinesByTick(s)) = Cardinality(UsedWays(s))
         /\ Cardinality(UsedWays(s)) \in Nat
         /\ DOMAIN LinesByTick(s) = 1 .. Cardinality(UsedWays(s))
         /\ \A i \in 1 .. Cardinality(UsedWays(s)) :
              /\ NewestFirst(UsedWays(s), Ticks(s))[i] \in UsedWays(s)
              /\ LinesByTick(s)[i] =
                   LineAt(s, storage[s][NewestFirst(UsedWays(s), Ticks(s))[i]].tag)
<1> DEFINE byTick == NewestFirst(UsedWays(s), Ticks(s))
           n == Cardinality(UsedWays(s))
<1>1. /\ n \in Nat
      /\ DOMAIN byTick = 1 .. n
      /\ \A i \in 1 .. n : byTick[i] \in UsedWays(s)
  <2>1. Ordered(UsedWays(s), Ticks(s))
    BY UsedWaysAreFinite, TicksType DEF TicksInv, Ordered
  <2> QED BY <2>1, NewestFirstIsOrder
<1> HIDE DEF byTick, n
<1>2. LinesByTick(s) = [i \in 1 .. n |-> LineAt(s, storage[s][byTick[i]].tag)]
  BY <1>1 DEF LinesByTick, byTick
<1>3. \A i \in 1 .. n : LineAt(s, storage[s][byTick[i]].tag) \in Nat
  <2> SUFFICES ASSUME NEW i \in 1 .. n PROVE LineAt(s, storage[s][byTick[i]].tag) \in Nat
    OBVIOUS
  <2>1. byTick[i] \in WayIndex
    BY <1>1, UsedWaysAreFinite
  <2>2. storage[s][byTick[i]].tag \in Nat
    BY <2>1 DEF TypeOK, Way
  <2>3. s \in Nat /\ Sets \in Nat
    BY DCacheAssumption DEF SetIndex
  <2> QED BY <2>2, <2>3, ProductType DEF LineAt
<1>4. LinesByTick(s) \in Seq(Nat) /\ Len(LinesByTick(s)) = n /\ DOMAIN LinesByTick(s) = 1 .. n
  BY <1>1, <1>2, <1>3
<1> QED BY <1>1, <1>2, <1>4 DEF byTick, n

\* What a hit and a refill do to a set: a way is touched, and from then on holds
\* the line of a tag.
Holding(set, way, tag) ==
    /\ replacement' = [replacement EXCEPT ![set] = Touch(cfg.policy, @, way)]
    /\ storage'[set][way].valid
    /\ storage'[set][way].tag = tag
    /\ \A s \in SetIndex, w \in WayIndex :
          s # set \/ w # way =>
              /\ storage'[s][w].valid = storage[s][w].valid
              /\ storage'[s][w].tag = storage[s][w].tag

LEMMA HoldingTouches ==
  ASSUME TypeOK, UsesTicks(cfg.policy), NEW set \in SetIndex, NEW way \in WayIndex, NEW tag \in Nat,
         Holding(set, way, tag)
  PROVE  /\ TouchAt(UsedWays(set), Ticks(set), way, replacement[set].tick + 1,
                    UsedWays(set)', Ticks(set)')
         /\ Ticks(set)' \in [WayIndex -> Nat]
         /\ UsedWays(set)' \in SUBSET WayIndex
         /\ replacement'[set].tick = replacement[set].tick + 1
         /\ \A s \in SetIndex \ {set} :
              /\ UsedWays(s)' = UsedWays(s)
              /\ Ticks(s)' = Ticks(s)
              /\ replacement'[s].tick = replacement[s].tick
<1>1. /\ replacement \in [SetIndex -> ReplacementState]
      /\ replacement' = [replacement EXCEPT ![set] = Touch(cfg.policy, replacement[set], way)]
  BY DEF Holding, TypeOK
<1>2. /\ Touch(cfg.policy, replacement[set], way).tick = replacement[set].tick + 1
      /\ Touch(cfg.policy, replacement[set], way).lru =
           [replacement[set].lru EXCEPT ![way] = replacement[set].tick + 1]
  <2>1. replacement[set] \in ReplacementState
    BY <1>1
  <2> QED BY <2>1 DEF Touch, ReplacementState
<1> DEFINE after == Touch(cfg.policy, replacement[set], way)
<1> HIDE DEF after
<1>3. Ticks(set) \in [WayIndex -> Nat]
  BY TicksType
<1>4. replacement'[set] = after /\ \A s \in SetIndex \ {set} : replacement'[s] = replacement[s]
  BY <1>1 DEF after
<1>5. \A s \in SetIndex : UsedWays(s)' = {w \in WayIndex : storage'[s][w].valid}
  BY DEF UsedWays, FreeWays
<1>6. \A s \in SetIndex : UsedWays(s) = {w \in WayIndex : storage[s][w].valid}
  BY DEF UsedWays, FreeWays
<1>7. UsedWays(set)' = UsedWays(set) \cup {way}
  BY <1>5, <1>6 DEF Holding
<1>8. ASSUME NEW s \in SetIndex \ {set} PROVE UsedWays(s)' = UsedWays(s)
  <2>1. \A w \in WayIndex : storage'[s][w].valid = storage[s][w].valid
    BY DEF Holding
  <2> QED BY <1>5, <1>6, <2>1
<1>9. Ticks(set)' = [Ticks(set) EXCEPT ![way] = replacement[set].tick + 1]
  BY <1>2, <1>4 DEF Ticks, after
<1>10. /\ Ticks(set)'[way] = replacement[set].tick + 1
       /\ \A w \in WayIndex \ {way} : Ticks(set)'[w] = Ticks(set)[w]
       /\ Ticks(set)' \in [WayIndex -> Nat]
  BY <1>3, <1>9, TicksType
<1>11. TouchAt(UsedWays(set), Ticks(set), way, replacement[set].tick + 1,
               UsedWays(set)', Ticks(set)')
  BY <1>6, <1>7, <1>10 DEF TouchAt
<1> QED BY <1>2, <1>4, <1>6, <1>7, <1>8, <1>10, <1>11 DEF Ticks, after

\* The list of the set changes by moving one line to the front.
Moved(set, way, line) ==
    LET place == PlaceIn(UsedWays(set), Ticks(set), way)
    IN  LinesByTick(set)' =
            [i \in DOMAIN LinesByTick(set) \cup {place} |->
                IF i = 1 THEN line
                ELSE IF i <= place THEN LinesByTick(set)[i - 1]
                ELSE LinesByTick(set)[i]]

LEMMA HoldingKeepsTicks ==
  ASSUME TypeOK, TicksInv, UsesTicks(cfg.policy), NEW set \in SetIndex, NEW way \in WayIndex,
         NEW tag \in Nat, Holding(set, way, tag)
  PROVE  /\ TicksInv'
         /\ PlaceIn(UsedWays(set), Ticks(set), way) \in 1 .. Cardinality(UsedWays(set)')
         /\ Cardinality(UsedWays(set)') = IF way \in UsedWays(set) THEN Cardinality(UsedWays(set))
                                          ELSE Cardinality(UsedWays(set)) + 1
         /\ ComesFirst(UsedWays(set), Ticks(set), way, UsedWays(set)', Ticks(set)')
<1> DEFINE S == UsedWays(set)
           tick == Ticks(set)
           now == replacement[set].tick + 1
           T == UsedWays(set)'
           later == Ticks(set)'
<1>1. /\ S \in SUBSET WayIndex /\ IsFiniteSet(S)
      /\ tick \in [WayIndex -> Nat]
      /\ now \in Nat
      /\ Ordered(S, tick)
      /\ \A w \in S : tick[w] < now
  <2>1. S \in SUBSET WayIndex /\ IsFiniteSet(S) /\ tick \in [WayIndex -> Nat]
        /\ replacement[set].tick \in Nat
    BY UsedWaysAreFinite, TicksType
  <2>2. TicksDiffer(S, tick) /\ \A w \in S : tick[w] <= replacement[set].tick
    BY DEF TicksInv
  <2>3. ASSUME NEW w \in S PROVE tick[w] < now
    <3>1. tick[w] \in Nat /\ tick[w] <= replacement[set].tick
      BY <2>1, <2>2
    <3> QED BY <2>1, <3>1
  <2> QED BY <2>1, <2>2, <2>3 DEF Ordered
<1>2. /\ TouchAt(S, tick, way, now, T, later)
      /\ later \in [WayIndex -> Nat] /\ T \in SUBSET WayIndex
      /\ replacement'[set].tick = now
      /\ \A s \in SetIndex \ {set} :
           /\ UsedWays(s)' = UsedWays(s)
           /\ Ticks(s)' = Ticks(s)
           /\ replacement'[s].tick = replacement[s].tick
  BY HoldingTouches
<1> HIDE DEF S, tick, now, T, later
<1>3. /\ Ordered(T, later)
      /\ Cardinality(T) = IF way \in S THEN Cardinality(S) ELSE Cardinality(S) + 1
      /\ PlaceIn(S, tick, way) \in 1 .. Cardinality(T)
      /\ ComesFirst(S, tick, way, T, later)
  BY <1>1, <1>2, TouchedComesFirst
<1>4. \A w \in T : later[w] <= now
  <2> SUFFICES ASSUME NEW w \in T PROVE later[w] <= now
    OBVIOUS
  <2>1. T = S \cup {way} /\ later[way] = now /\ \A v \in S \ {way} : later[v] = tick[v]
    BY <1>2 DEF TouchAt
  <2>2. w = way => later[w] = now
    BY <1>1, <2>1
  <2>3. w # way => later[w] = tick[w] /\ tick[w] < now /\ tick[w] \in Nat
    BY <1>1, <2>1
  <2> QED BY <1>1, <2>2, <2>3
<1>5. ASSUME NEW s \in SetIndex
      PROVE  /\ TicksDiffer(UsedWays(s)', Ticks(s)')
             /\ \A w \in UsedWays(s)' : Ticks(s)'[w] <= replacement'[s].tick
  <2>1. CASE s = set
    BY <1>2, <1>3, <1>4, <2>1 DEF Ordered, T, later
  <2>2. CASE s # set
    BY <1>2, <2>2 DEF TicksInv
  <2> QED BY <2>1, <2>2
<1>6. TicksInv'
  BY <1>5 DEF TicksInv
<1> QED BY <1>3, <1>6 DEF S, tick, T, later

LEMMA HoldingReorders ==
  ASSUME TypeOK, TicksInv, UsesTicks(cfg.policy), NEW set \in SetIndex, NEW way \in WayIndex,
         NEW tag \in Nat, Holding(set, way, tag)
  PROVE  /\ Moved(set, way, LineAt(set, tag))
         /\ \A s \in SetIndex \ {set} : LinesByTick(s)' = LinesByTick(s)
<1> DEFINE S == UsedWays(set)
           byTick == NewestFirst(S, Ticks(set))
           T == UsedWays(set)'
           byTickNow == NewestFirst(T, Ticks(set)')
           place == PlaceIn(S, Ticks(set), way)
           list == LinesByTick(set)
           n == Cardinality(S)
           m == Cardinality(T)
<1>1. /\ n \in Nat
      /\ DOMAIN list = 1 .. n
      /\ \A i \in 1 .. n : list[i] = LineAt(set, storage[set][byTick[i]].tag)
  BY LinesByTickList
<1>2. /\ place \in 1 .. m
      /\ m = IF way \in S THEN n ELSE n + 1
      /\ ComesFirst(S, Ticks(set), way, T, Ticks(set)')
  BY HoldingKeepsTicks
<1>3. way \in S \/ place = n + 1
  BY DEF PlaceIn
<1>4. /\ DOMAIN byTickNow = 1 .. m
      /\ byTickNow[1] = way
      /\ \A i \in 2 .. m : byTickNow[i] \in S \ {way}
      /\ \A i \in 2 .. m : byTickNow[i] = IF i <= place THEN byTick[i - 1] ELSE byTick[i]
  BY <1>2 DEF ComesFirst
<1>5. /\ storage'[set][way].tag = tag
      /\ \A w \in WayIndex \ {way} : storage'[set][w].tag = storage[set][w].tag
      /\ \A s \in SetIndex \ {set} : \A w \in WayIndex : storage'[s][w].tag = storage[s][w].tag
  BY DEF Holding
<1>6. S \in SUBSET WayIndex
  BY UsedWaysAreFinite
<1>7. LinesByTick(set)' = [i \in 1 .. m |-> LineAt(set, storage'[set][byTickNow[i]].tag)]
  BY <1>4 DEF LinesByTick, LineAt
<1> HIDE DEF S, byTick, T, byTickNow, place, list, n, m
<1>8. DOMAIN list \cup {place} = 1 .. m
  BY <1>1, <1>2, <1>3
<1>9. ASSUME NEW i \in 1 .. m
      PROVE  LineAt(set, storage'[set][byTickNow[i]].tag) =
                IF i = 1 THEN LineAt(set, tag)
                ELSE IF i <= place THEN list[i - 1] ELSE list[i]
  <2>1. CASE i = 1
    BY <1>4, <1>5, <2>1
  <2>2. CASE i # 1
    <3>1. i \in 2 .. m
      BY <1>1, <1>2, <2>2
    <3>2. storage'[set][byTickNow[i]].tag = storage[set][byTickNow[i]].tag
      BY <1>4, <1>5, <1>6, <3>1
    <3>3. CASE i <= place
      <4>1. i - 1 \in 1 .. n
        BY <1>1, <1>2, <3>1, <3>3
      <4>2. list[i - 1] = LineAt(set, storage[set][byTick[i - 1]].tag)
        BY <1>1, <4>1
      <4> QED BY <1>4, <2>2, <3>1, <3>2, <3>3, <4>2
    <3>4. CASE ~(i <= place)
      <4>1. i \in 1 .. n
        BY <1>1, <1>2, <1>3, <3>1, <3>4
      <4>2. list[i] = LineAt(set, storage[set][byTick[i]].tag)
        BY <1>1, <4>1
      <4> QED BY <1>4, <2>2, <3>1, <3>2, <3>4, <4>2
    <3> QED BY <3>3, <3>4
  <2> QED BY <2>1, <2>2
<1>10. Moved(set, way, LineAt(set, tag))
  <2>1. LinesByTick(set)' = [i \in DOMAIN list \cup {place} |->
                IF i = 1 THEN LineAt(set, tag)
                ELSE IF i <= place THEN list[i - 1] ELSE list[i]]
    BY <1>7, <1>8, <1>9
  <2> QED BY <2>1 DEF Moved, list, place, S
<1>11. ASSUME NEW s \in SetIndex \ {set} PROVE LinesByTick(s)' = LinesByTick(s)
  <2>1. UsedWays(s)' = UsedWays(s) /\ Ticks(s)' = Ticks(s)
    BY HoldingTouches
  <2> DEFINE order == NewestFirst(UsedWays(s), Ticks(s))
  <2>2. /\ DOMAIN order = 1 .. Cardinality(UsedWays(s))
        /\ \A i \in DOMAIN order : order[i] \in WayIndex
    BY LinesByTickList, UsedWaysAreFinite DEF LinesByTick
  <2>3. LinesByTick(s) = [i \in DOMAIN order |-> LineAt(s, storage[s][order[i]].tag)]
    BY DEF LinesByTick
  <2>4. LinesByTick(s)' = [i \in DOMAIN order |-> LineAt(s, storage'[s][order[i]].tag)]
    BY <2>1 DEF LinesByTick, LineAt
  <2> HIDE DEF order
  <2>5. \A i \in DOMAIN order : storage'[s][order[i]].tag = storage[s][order[i]].tag
    BY <1>5, <2>2
  <2> QED BY <2>3, <2>4, <2>5
<1> QED BY <1>10, <1>11

LEMMA HitHolds ==
  ASSUME TypeOK, NEW kind \in Kind, NEW addr \in Nat, Hit(kind, addr)
  PROVE  LET line == LineOf(addr)
             set == IndexOf(line)
             way == FirstWay(Holders(set, TagOf(line)))
         IN  /\ set \in SetIndex /\ way \in WayIndex /\ TagOf(line) \in Nat
             /\ LineAt(set, TagOf(line)) = line
             /\ way \in UsedWays(set) /\ storage[set][way].tag = TagOf(line)
             /\ Holding(set, way, TagOf(line))
<1> DEFINE line == LineOf(addr)
           set == IndexOf(line)
           held == Holders(set, TagOf(line))
           way == FirstWay(held)
<1>1. set \in SetIndex /\ TagOf(line) \in Nat /\ LineAt(set, TagOf(line)) = line
  BY LineOfType, LineCoordinates
<1>2. way \in held
  <2>1. held \in SUBSET WayIndex /\ held # {}
    BY <1>1, HoldersAreWays DEF Hit
  <2> QED BY <2>1, FirstWayInSet
<1>3. way \in WayIndex /\ storage[set][way].valid /\ storage[set][way].tag = TagOf(line)
  BY <1>2 DEF Holders
<1>4. replacement' = [replacement EXCEPT ![set] = Touch(cfg.policy, @, way)]
  BY DEF Hit
<1>5. \A s \in SetIndex, w \in WayIndex :
        storage'[s][w].valid = storage[s][w].valid /\ storage'[s][w].tag = storage[s][w].tag
  BY HitKeepsLines
<1> HIDE DEF line, set, held, way
<1>6. way \in UsedWays(set)
  BY <1>1, <1>3, UsedWaysAreFinite
<1>7. Holding(set, way, TagOf(line))
  BY <1>1, <1>3, <1>4, <1>5 DEF Holding
<1> QED BY <1>1, <1>3, <1>6, <1>7 DEF line, set, held, way

LEMMA RefillHolds ==
  ASSUME TypeOK, NEW kind \in Kind, NEW addr \in Nat, Refill(kind, addr)
  PROVE  LET line == LineOf(addr)
             set == IndexOf(line)
             slot == SlotFor(set)
         IN  /\ set \in SetIndex /\ slot \in WayIndex /\ TagOf(line) \in Nat
             /\ LineAt(set, TagOf(line)) = line
             /\ \A w \in WayIndex :
                  ~(storage[set][w].valid /\ storage[set][w].tag = TagOf(line))
             /\ Holding(set, slot, TagOf(line))
<1> DEFINE line == LineOf(addr)
           set == IndexOf(line)
           slot == SlotFor(set)
<1>1. set \in SetIndex /\ TagOf(line) \in Nat /\ LineAt(set, TagOf(line)) = line
  BY LineOfType, LineCoordinates
<1>2. /\ slot \in WayIndex
      /\ storage'[set][slot].valid
      /\ storage'[set][slot].tag = TagOf(line)
      /\ \A s \in SetIndex, w \in WayIndex :
           s # set \/ w # slot => storage'[s][w] = storage[s][w]
      /\ \A w \in WayIndex :
           ~(storage[set][w].valid /\ storage[set][w].tag = TagOf(line))
  BY RefillStorage
<1>3. replacement' = [replacement EXCEPT ![set] = Touch(cfg.policy, @, slot)]
  BY DEF Refill
<1> HIDE DEF line, set, slot
<1>4. Holding(set, slot, TagOf(line))
  BY <1>2, <1>3 DEF Holding
<1> QED BY <1>1, <1>2, <1>4 DEF line, set, slot

\* Where the way of a line is among the ticks, the line is in the list.
LEMMA HitPlace ==
  ASSUME SafetyInv, TicksInv, NEW set \in SetIndex, NEW way \in UsedWays(set), NEW tag \in Nat,
         storage[set][way].tag = tag
  PROVE  /\ \E i \in DOMAIN LinesByTick(set) : LinesByTick(set)[i] = LineAt(set, tag)
         /\ Exact!PlaceOf(LinesByTick(set), LineAt(set, tag))
              = PlaceIn(UsedWays(set), Ticks(set), way)
<1> DEFINE S == UsedWays(set)
           byTick == NewestFirst(S, Ticks(set))
           place == PlaceIn(S, Ticks(set), way)
           list == LinesByTick(set)
           line == LineAt(set, tag)
           n == Cardinality(S)
<1>1. /\ n \in Nat
      /\ DOMAIN list = 1 .. n
      /\ \A i \in 1 .. n : /\ byTick[i] \in S
                           /\ list[i] = LineAt(set, storage[set][byTick[i]].tag)
  BY LinesByTickList DEF SafetyInv
<1>2. /\ S \in SUBSET WayIndex /\ IsFiniteSet(S)
      /\ Ordered(S, Ticks(set))
      /\ \A w \in S : storage[set][w].valid
  BY UsedWaysAreFinite, TicksType DEF TicksInv, SafetyInv, Ordered
<1>3. way \in S
  OBVIOUS
<1> HIDE DEF S, byTick, place, list
<1>5. place \in 1 .. n
  BY <1>2, <1>3, PlaceOfMember DEF place
<1>6. \A i \in 1 .. n : byTick[i] = way <=> i = place
  BY <1>2, <1>3, PlaceOfMember DEF byTick, place
<1>7. \A i \in 1 .. n : list[i] = line <=> i = place
  <2> SUFFICES ASSUME NEW i \in 1 .. n PROVE list[i] = line <=> i = place
    OBVIOUS
  <2>1. byTick[i] \in S /\ byTick[i] \in WayIndex /\ way \in WayIndex
    BY <1>1, <1>2, <1>3
  <2>2. storage[set][byTick[i]].tag \in Nat
    BY <2>1 DEF SafetyInv, TypeOK, Way
  <2>3. list[i] = line => storage[set][byTick[i]].tag = tag
    <3> DEFINE other == storage[set][byTick[i]].tag
    <3>1. other \in Nat /\ list[i] = LineAt(set, other)
      BY <1>1, <2>2
    <3> HIDE DEF other
    <3>2. TagOf(LineAt(set, other)) = other /\ TagOf(LineAt(set, tag)) = tag
      BY <3>1, LineAtCoordinates
    <3> QED BY <3>1, <3>2 DEF other
  <2>4. storage[set][byTick[i]].tag = tag => byTick[i] = way
    BY <1>2, <1>3, <2>1 DEF SafetyInv, Safety, NoDuplicateLines
  <2>5. i = place => list[i] = line
    BY <1>1, <1>6
  <2> QED BY <1>6, <2>3, <2>4, <2>5
<1> HIDE DEF line, n
<1>8. \E i \in DOMAIN list : list[i] = line
  BY <1>1, <1>5, <1>7
<1>9. (CHOOSE i \in DOMAIN list : list[i] = line) = place
  BY <1>1, <1>5, <1>7
<1>10. Exact!PlaceOf(list, line) = place
  BY <1>8, <1>9 DEF Exact!PlaceOf
<1> QED BY <1>8, <1>10 DEF line, list, S, place

\* A line that is not resident takes the entry of the way that is free, or of
\* the oldest of a full set, which is the last.
LEMMA MissPlace ==
  ASSUME SafetyInv, TicksInv, UsesTicks(cfg.policy), NEW set \in SetIndex, NEW tag \in Nat,
         \A w \in WayIndex : ~(storage[set][w].valid /\ storage[set][w].tag = tag)
  PROVE  /\ ~ \E i \in DOMAIN LinesByTick(set) : LinesByTick(set)[i] = LineAt(set, tag)
         /\ Exact!PlaceOf(LinesByTick(set), LineAt(set, tag))
              = PlaceIn(UsedWays(set), Ticks(set), SlotFor(set))
<1> DEFINE S == UsedWays(set)
           byTick == NewestFirst(S, Ticks(set))
           slot == SlotFor(set)
           place == PlaceIn(S, Ticks(set), slot)
           list == LinesByTick(set)
           line == LineAt(set, tag)
           n == Cardinality(S)
<1>1. /\ n \in Nat
      /\ Len(list) = n
      /\ DOMAIN list = 1 .. n
      /\ \A i \in 1 .. n : /\ byTick[i] \in S
                           /\ list[i] = LineAt(set, storage[set][byTick[i]].tag)
  BY LinesByTickList DEF SafetyInv
<1>2. /\ S \in SUBSET WayIndex /\ IsFiniteSet(S)
      /\ \A w \in WayIndex : w \in S <=> storage[set][w].valid
      /\ IsFiniteSet(WayIndex) /\ Cardinality(WayIndex) = Ways
      /\ Ticks(set) \in [WayIndex -> Nat]
      /\ TicksDiffer(S, Ticks(set))
  BY UsedWaysAreFinite, TicksType DEF TicksInv, SafetyInv
<1>3. ASSUME NEW i \in 1 .. n PROVE list[i] # line
  <2> DEFINE other == storage[set][byTick[i]].tag
  <2>1. byTick[i] \in S /\ byTick[i] \in WayIndex
    BY <1>1, <1>2
  <2>2. other \in Nat /\ other # tag
    BY <1>2, <2>1 DEF SafetyInv, TypeOK, Way
  <2>3. list[i] = LineAt(set, other)
    BY <1>1
  <2> HIDE DEF other
  <2>4. TagOf(LineAt(set, other)) = other /\ TagOf(LineAt(set, tag)) = tag
    BY <2>2, LineAtCoordinates
  <2> QED BY <2>2, <2>3, <2>4
<1>4. ~ \E i \in DOMAIN list : list[i] = line
  BY <1>1, <1>3
<1>5. slot \in WayIndex
  BY SlotType DEF SafetyInv
<1>6. Exact!PlaceOf(list, line) = IF n < Ways THEN n + 1 ELSE Ways
  <2> HIDE DEF list, line, n
  <2> QED BY <1>1, <1>4 DEF Exact!PlaceOf
<1>7. Ways \in Nat \ {0}
  BY WaysAssumption
<1>8. CASE FreeWays(set) # {}
  <2>1. FreeWays(set) \in SUBSET WayIndex
    BY DEF FreeWays
  <2>2. slot \in FreeWays(set)
    BY <1>8, <2>1, FirstWayInSet DEF SlotFor
  <2>3. slot \notin S
    BY <2>2 DEF UsedWays
  <2>4. n < Ways
    <3>1. n <= Ways /\ (n = Ways => WayIndex = S)
      BY <1>2, FS_Subset
    <3>2. n # Ways
      BY <1>5, <2>3, <3>1
    <3> HIDE DEF n
    <3> QED BY <1>1, <1>7, <3>1, <3>2
  <2>5. place = n + 1
    BY <2>3 DEF PlaceIn
  <2> QED BY <1>4, <1>6, <2>4, <2>5
<1>9. CASE FreeWays(set) = {}
  <2>1. S = WayIndex /\ n = Ways
    BY <1>2, <1>9 DEF UsedWays
  <2>2. slot = OldestWay(Ticks(set))
    BY <1>9 DEF SlotFor, Victim, Ticks
  <2>3. \A w \in WayIndex : Ticks(set)[slot] <= Ticks(set)[w]
    BY <1>2, <2>2, OldestWayIsOldest
  <2>4. Newer(S, Ticks(set), slot) = WayIndex \ {slot}
    <3>1. ASSUME NEW w \in WayIndex \ {slot} PROVE Ticks(set)[w] > Ticks(set)[slot]
      <4>1. Ticks(set)[w] # Ticks(set)[slot]
        BY <1>2, <1>5, <2>1, <3>1 DEF TicksDiffer
      <4>2. Ticks(set)[slot] \in Nat /\ Ticks(set)[w] \in Nat /\ Ticks(set)[slot] <= Ticks(set)[w]
        BY <1>2, <1>5, <2>3
      <4> QED BY <4>1, <4>2
    <3>2. ~(Ticks(set)[slot] > Ticks(set)[slot])
      BY <1>2, <1>5
    <3> QED BY <2>1, <3>1, <3>2 DEF Newer
  <2>5. Cardinality(WayIndex \ {slot}) = Ways - 1
    BY <1>2, <1>5, FS_RemoveElement
  <2>6. place = (Ways - 1) + 1
    BY <1>5, <2>1, <2>4, <2>5 DEF PlaceIn
  <2> QED BY <1>4, <1>6, <1>7, <2>1, <2>6
<1> QED BY <1>8, <1>9

\* The lists of all sets, and the requests, as the abstract cache sees them.
Lists == [s \in SetIndex |-> LinesByTick(s)]
Asked(tr, c) == [i \in DOMAIN tr |-> [line |-> LineOf(tr[i].addr),
                                      allocates |-> tr[i].kind = "Load" \/ c.write_allocate]]
Ask(rec, c) == [line |-> LineOf(rec.addr), allocates |-> rec.kind = "Load" \/ c.write_allocate]

LEMMA AskedAppend ==
  ASSUME NEW tr \in Seq(Record), NEW rec \in Record, NEW c
  PROVE  Asked(Append(tr, rec), c) = Append(Asked(tr, c), Ask(rec, c))
<1> HIDE DEF Record
<1>1. /\ Len(Append(tr, rec)) = Len(tr) + 1
      /\ DOMAIN tr = 1 .. Len(tr)
      /\ DOMAIN Append(tr, rec) = 1 .. Len(tr) + 1
      /\ \A i \in 1 .. Len(tr) : Append(tr, rec)[i] = tr[i]
      /\ Append(tr, rec)[Len(tr) + 1] = rec
  OBVIOUS
<1> QED BY <1>1 DEF Asked, Ask

LEMMA ListsMove ==
  ASSUME SafetyInv, TicksInv, UsesTicks(cfg.policy), NEW set \in SetIndex, NEW way \in WayIndex,
         NEW tag \in Nat, Holding(set, way, tag),
         Exact!PlaceOf(LinesByTick(set), LineAt(set, tag))
             = PlaceIn(UsedWays(set), Ticks(set), way)
  PROVE  Lists' = [Lists EXCEPT ![set] = Exact!MovedToFront(Lists[set], LineAt(set, tag))]
<1>1. /\ Moved(set, way, LineAt(set, tag))
      /\ \A s \in SetIndex \ {set} : LinesByTick(s)' = LinesByTick(s)
  BY HoldingReorders DEF SafetyInv
<1>2. LinesByTick(set)' = Exact!MovedToFront(LinesByTick(set), LineAt(set, tag))
  BY <1>1 DEF Moved, Exact!MovedToFront
<1>3. Lists' = [s \in SetIndex |-> LinesByTick(s)'] /\ Lists[set] = LinesByTick(set)
  BY DEF Lists
<1> DEFINE front == Exact!MovedToFront(LinesByTick(set), LineAt(set, tag))
<1>4. [Lists EXCEPT ![set] = front] = [s \in SetIndex |-> IF s = set THEN front ELSE LinesByTick(s)]
  <2> HIDE DEF front
  <2> QED BY DEF Lists
<1> HIDE DEF front
<1>5. \A s \in SetIndex : LinesByTick(s)' = IF s = set THEN front ELSE LinesByTick(s)
  BY <1>1, <1>2 DEF front
<1> QED BY <1>3, <1>4, <1>5 DEF front

\* What the abstract cache does on an access.
LEMMA HitUses ==
  ASSUME SafetyInv, TicksInv, UsesTicks(cfg.policy), NEW rec \in Record, Hit(rec.kind, rec.addr)
  PROVE  /\ \E i \in DOMAIN Lists[IndexOf(LineOf(rec.addr))] :
              Lists[IndexOf(LineOf(rec.addr))][i] = LineOf(rec.addr)
         /\ Lists' = [Lists EXCEPT ![IndexOf(LineOf(rec.addr))] =
                        Exact!MovedToFront(Lists[IndexOf(LineOf(rec.addr))], LineOf(rec.addr))]
         /\ t'["hits"] = t["hits"] + 1
         /\ TicksInv'
<1> DEFINE line == LineOf(rec.addr)
           set == IndexOf(line)
           tag == TagOf(line)
           way == FirstWay(Holders(set, tag))
<1>0. rec.kind \in Kind /\ rec.addr \in Nat /\ TypeOK
  BY DEF Record, SafetyInv
<1>1. /\ set \in SetIndex /\ way \in WayIndex /\ tag \in Nat
      /\ LineAt(set, tag) = line
      /\ way \in UsedWays(set) /\ storage[set][way].tag = tag
      /\ Holding(set, way, tag)
  BY <1>0, HitHolds
<1>2. t'["hits"] = t["hits"] + 1
  BY <1>0, HitCounters DEF Counters, One
<1> HIDE DEF line, set, tag, way
<1>3. /\ \E i \in DOMAIN LinesByTick(set) : LinesByTick(set)[i] = LineAt(set, tag)
      /\ Exact!PlaceOf(LinesByTick(set), LineAt(set, tag))
           = PlaceIn(UsedWays(set), Ticks(set), way)
  BY <1>1, HitPlace
<1>4. Lists' = [Lists EXCEPT ![set] = Exact!MovedToFront(Lists[set], LineAt(set, tag))]
  BY <1>1, <1>3, ListsMove
<1>5. TicksInv'
  BY <1>0, <1>1, HoldingKeepsTicks
<1>6. Lists[set] = LinesByTick(set)
  BY <1>1 DEF Lists
<1> QED BY <1>1, <1>2, <1>3, <1>4, <1>5, <1>6 DEF line, set

LEMMA RefillUses ==
  ASSUME SafetyInv, TicksInv, UsesTicks(cfg.policy), NEW rec \in Record,
         Refill(rec.kind, rec.addr)
  PROVE  /\ ~ \E i \in DOMAIN Lists[IndexOf(LineOf(rec.addr))] :
              Lists[IndexOf(LineOf(rec.addr))][i] = LineOf(rec.addr)
         /\ Lists' = [Lists EXCEPT ![IndexOf(LineOf(rec.addr))] =
                        Exact!MovedToFront(Lists[IndexOf(LineOf(rec.addr))], LineOf(rec.addr))]
         /\ t'["hits"] = t["hits"]
         /\ TicksInv'
<1> DEFINE line == LineOf(rec.addr)
           set == IndexOf(line)
           tag == TagOf(line)
           way == SlotFor(set)
<1>0. rec.kind \in Kind /\ rec.addr \in Nat /\ TypeOK
  BY DEF Record, SafetyInv
<1>1. /\ set \in SetIndex /\ way \in WayIndex /\ tag \in Nat
      /\ LineAt(set, tag) = line
      /\ \A w \in WayIndex : ~(storage[set][w].valid /\ storage[set][w].tag = tag)
      /\ Holding(set, way, tag)
  BY <1>0, RefillHolds
<1>2. t'["hits"] = t["hits"]
  <2> DEFINE c == RefillCounters(rec.kind, line, set)
  <2>1. \A k \in Counters \ {"write_buffer_drains", "write_stalls"} : t'[k] = c[k]
    BY <1>0, RefillStepCounters
  <2>2. line \in Nat
    BY <1>0, LineOfType
  <2>3. c["hits"] = t["hits"]
    <3> HIDE DEF line, set
    <3> QED BY <1>0, <1>1, <2>2, RefillCountersEffect
  <2> HIDE DEF c
  <2> QED BY <2>1, <2>3 DEF Counters
<1>3. /\ ~ \E i \in DOMAIN LinesByTick(set) : LinesByTick(set)[i] = LineAt(set, tag)
      /\ Exact!PlaceOf(LinesByTick(set), LineAt(set, tag))
           = PlaceIn(UsedWays(set), Ticks(set), way)
  <2> HIDE DEF line, set, tag
  <2> QED BY <1>1, MissPlace
<1> HIDE DEF line, set, tag, way
<1>4. Lists' = [Lists EXCEPT ![set] = Exact!MovedToFront(Lists[set], LineAt(set, tag))]
  BY <1>1, <1>3, ListsMove
<1>5. TicksInv'
  BY <1>0, <1>1, HoldingKeepsTicks
<1>6. Lists[set] = LinesByTick(set)
  BY <1>1 DEF Lists
<1> QED BY <1>1, <1>2, <1>3, <1>4, <1>5, <1>6 DEF line, set

LEMMA NoAllocateStoreBypasses ==
  ASSUME SafetyInv, TicksInv, UsesTicks(cfg.policy), NEW rec \in Record,
         NoAllocateStore(rec.kind, rec.addr)
  PROVE  /\ ~ \E i \in DOMAIN Lists[IndexOf(LineOf(rec.addr))] :
              Lists[IndexOf(LineOf(rec.addr))][i] = LineOf(rec.addr)
         /\ Lists' = Lists
         /\ t'["hits"] = t["hits"]
         /\ TicksInv'
<1> DEFINE line == LineOf(rec.addr)
           set == IndexOf(line)
           tag == TagOf(line)
<1>0. rec.kind \in Kind /\ rec.addr \in Nat /\ TypeOK
  BY DEF Record, SafetyInv
<1>1. set \in SetIndex /\ tag \in Nat /\ LineAt(set, tag) = line
  BY <1>0, LineOfType, LineCoordinates
<1>2. \A w \in WayIndex : ~(storage[set][w].valid /\ storage[set][w].tag = tag)
  BY DEF NoAllocateStore, Holders
<1>3. storage' = storage /\ replacement' = replacement
  BY DEF NoAllocateStore
<1>4. t'["hits"] = t["hits"]
  <2>1. t'["hits"] = t["hits"] + One("hits" \in {"accesses", "misses", "stores",
                                                "no_allocate_store_misses"})
    BY <1>0, NoAllocateStoreCounters DEF Counters
  <2>2. t["hits"] \in Nat
    BY <1>0 DEF TypeOK, Counters
  <2> QED BY <2>1, <2>2 DEF One
<1> HIDE DEF line, set, tag
<1>5. ~ \E i \in DOMAIN LinesByTick(set) : LinesByTick(set)[i] = LineAt(set, tag)
  BY <1>1, <1>2, MissPlace
<1>6. Lists' = Lists /\ TicksInv'
  BY <1>3 DEF Lists, LinesByTick, UsedWays, FreeWays, Ticks, TicksInv, LineAt
<1>7. Lists[set] = LinesByTick(set)
  BY <1>1 DEF Lists
<1> QED BY <1>1, <1>4, <1>5, <1>6, <1>7 DEF line, set

LEMMA ExactStep ==
  ASSUME SafetyInv, TicksInv, UsesTicks(cfg.policy), NEW rec \in Accesses, Simulate(rec)
  PROVE  Exact!Next /\ TicksInv'
<1> DEFINE line == LineOf(rec.addr)
           set == IndexOf(line)
           allocates == rec.kind = "Load" \/ cfg.write_allocate
<1>1. rec \in Record /\ trace \in Seq(Record) /\ cfg' = cfg /\ trace' = Append(trace, rec)
  BY DCacheAssumption DEF SafetyInv, TypeOK, Simulate
<1>2. line \in {LineOf(r.addr) : r \in Accesses}
  OBVIOUS
<1>3. Asked(trace', cfg') = Append(Asked(trace, cfg), Ask(rec, cfg))
  BY <1>1, AskedAppend
<1>4. /\ allocates \in BOOLEAN
      /\ Ask(rec, cfg) = [line |-> line, allocates |-> allocates]
  BY <1>1 DEF Ask, SafetyInv, TypeOK, Config
<1> PICK b \in BOOLEAN : b = allocates
  BY <1>4
<1>5. CASE Hit(rec.kind, rec.addr)
  <2>1. /\ \E i \in DOMAIN Lists[set] : Lists[set][i] = line
        /\ Lists' = [Lists EXCEPT ![set] = Exact!MovedToFront(Lists[set], line)]
        /\ t'["hits"] = t["hits"] + 1
        /\ TicksInv'
    BY <1>1, <1>5, HitUses
  <2> HIDE DEF line, allocates
  <2>2. Exact!Use(line, b)
    BY <1>3, <1>4, <2>1 DEF Exact!Use, Exact!Holds, Exact!SetOf, IndexOf, Lists, Asked,
                            Exact!Request
  <2> QED BY <1>2, <2>1, <2>2, Zenon DEF Exact!Next
<1>6. CASE Refill(rec.kind, rec.addr)
  <2>1. /\ ~ \E i \in DOMAIN Lists[set] : Lists[set][i] = line
        /\ Lists' = [Lists EXCEPT ![set] = Exact!MovedToFront(Lists[set], line)]
        /\ t'["hits"] = t["hits"]
        /\ TicksInv'
    BY <1>1, <1>6, RefillUses
  <2>2. allocates
    BY <1>6 DEF Refill
  <2> HIDE DEF line, allocates
  <2>3. Exact!Use(line, b)
    BY <1>3, <1>4, <2>1, <2>2 DEF Exact!Use, Exact!Holds, Exact!SetOf, IndexOf, Lists, Asked,
                                 Exact!Request
  <2> QED BY <1>2, <2>1, <2>3, Zenon DEF Exact!Next
<1>7. CASE NoAllocateStore(rec.kind, rec.addr)
  <2>1. /\ ~ \E i \in DOMAIN Lists[set] : Lists[set][i] = line
        /\ Lists' = Lists
        /\ t'["hits"] = t["hits"]
        /\ TicksInv'
    BY <1>1, <1>7, NoAllocateStoreBypasses
  <2>2. allocates = FALSE
    BY <1>7 DEF NoAllocateStore
  <2> HIDE DEF line, allocates
  <2>3. Exact!Bypass(line)
    BY <1>3, <1>4, <2>1, <2>2 DEF Exact!Bypass, Exact!Holds, Exact!SetOf, IndexOf, Lists, Asked,
                                 Exact!Request
  <2> QED BY <1>2, <2>1, <2>3 DEF Exact!Next
<1> QED BY <1>5, <1>6, <1>7 DEF Simulate

\* Under LRU and NMRU the cache implements the exact LRU cache, for every
\* geometry, write policy and trace: it hits exactly when the list of recently
\* used lines holds the line, keeps exactly the lines of the list, and loses
\* the last of a full one (replacement.cpp:19-41, replacement.hpp:16).
THEOREM LruIsExact == Spec => ImplementsLru
<1>1. Init => (UsesTicks(cfg.policy) => Exact!Init)
  <2> SUFFICES ASSUME Init PROVE Exact!Init
    OBVIOUS
  <2>1. ASSUME NEW s \in SetIndex PROVE LinesByTick(s) = <<>>
    <3>1. UsedWays(s) = {}
      BY DEF Init, UsedWays, FreeWays
    <3>2. Cardinality(UsedWays(s)) = 0
      BY <3>1, FS_EmptySet
    <3>3. DOMAIN NewestFirst(UsedWays(s), Ticks(s)) = {}
      BY <3>2 DEF NewestFirst
    <3> QED BY <3>3 DEF LinesByTick
  <2>2. trace = <<>> /\ t["hits"] = 0
    BY DEF Init, Counters
  <2> QED BY <2>1, <2>2 DEF Exact!Init, Exact!SetIndex, SetIndex
<1>2. Init => TicksInv
  <2> SUFFICES ASSUME Init, NEW s \in SetIndex PROVE UsedWays(s) = {}
    BY DEF TicksInv, TicksDiffer
  <2> QED BY DEF Init, UsedWays, FreeWays
<1>3. RecencyInv /\ [Next]_vars
        => /\ UsesTicks(cfg'.policy) => TicksInv'
           /\ [UsesTicks(cfg.policy) => Exact!Next]_vars
  <2> SUFFICES ASSUME RecencyInv, [Next]_vars
               PROVE  /\ UsesTicks(cfg'.policy) => TicksInv'
                      /\ [UsesTicks(cfg.policy) => Exact!Next]_vars
    OBVIOUS
  <2>1. CASE Next
    <3>1. PICK rec \in Accesses : Simulate(rec)
      BY <2>1 DEF Next
    <3>2. cfg' = cfg
      BY <3>1 DEF Simulate
    <3>3. UsesTicks(cfg.policy) => Exact!Next /\ TicksInv'
      BY <3>1, ExactStep DEF RecencyInv
    <3> QED BY <3>2, <3>3
  <2>2. CASE UNCHANGED vars
    <3>1. TicksInv => TicksInv'
      BY <2>2 DEF vars, TicksInv, UsedWays, FreeWays, Ticks
    <3> QED BY <2>2, <3>1 DEF vars, RecencyInv
  <2> QED BY <2>1, <2>2
<1>4. SafetyInv /\ (UsesTicks(cfg.policy) => TicksInv) <=> RecencyInv
  BY DEF RecencyInv
<1>5. Spec => [](UsesTicks(cfg.policy) => TicksInv)
  <2>1. (UsesTicks(cfg.policy) => TicksInv)' <=> (UsesTicks(cfg'.policy) => TicksInv')
    BY DEF UsesTicks
  <2> QED BY <1>2, <1>3, <1>4, <2>1, SafetyInvariant, PTL DEF Spec
<1> QED BY <1>1, <1>3, <1>4, <1>5, SafetyInvariant, PTL DEF Spec, ImplementsLru

-----------------------------------------------------------------------------
(* The lines a policy shields.  A way is older than another of its set if  *)
(* the line of the other was asked for after every access to its own line. *)
(* The ticks put ways in that order, and so does each node of the tree:    *)
(* below the child it does not point at there is a younger way.            *)

HeldLine(s, w) == LineAt(s, storage[s][w].tag)

After(tr, a, b) ==
    \E i \in DOMAIN tr :
        LineOf(tr[i].addr) = a /\ \A j \in DOMAIN tr : LineOf(tr[j].addr) = b => j < i

Younger(s, u, w) == After(trace, HeldLine(s, u), HeldLine(s, w))

TicksFollow ==
    \A s \in SetIndex : \A u, w \in UsedWays(s) : Ticks(s)[u] > Ticks(s)[w] => Younger(s, u, w)

Pointed(m, bit, w) == 2 * m + bit \in LeafToRoot(w)
Turned(m, bit, w) == 2 * m + 1 - bit \in LeafToRoot(w)

TreeFollows ==
    \A s \in SetIndex : \A m \in TreeNode, w \in UsedWays(s) :
        Pointed(m, replacement[s].plru[m], w)
            => \E u \in UsedWays(s) :
                  Turned(m, replacement[s].plru[m], u) /\ Younger(s, u, w)

AgeInv == IF UsesTicks(cfg.policy) THEN TicksInv /\ TicksFollow ELSE TreeFollows

\* What was asked for after a line still was when another line is asked for, which
\* then is the latest.
LEMMA AfterAppend ==
  ASSUME NEW tr \in Seq(Record), NEW rec \in Record, NEW b, b # LineOf(rec.addr)
  PROVE  /\ \A a : After(tr, a, b) => After(Append(tr, rec), a, b)
         /\ After(Append(tr, rec), LineOf(rec.addr), b)
<1> HIDE DEF Record
<1>1. /\ Len(tr) \in Nat
      /\ DOMAIN tr = 1 .. Len(tr)
      /\ DOMAIN Append(tr, rec) = 1 .. Len(tr) + 1
      /\ \A i \in 1 .. Len(tr) : Append(tr, rec)[i] = tr[i]
      /\ Append(tr, rec)[Len(tr) + 1] = rec
  OBVIOUS
<1> DEFINE long == Append(tr, rec)
           n == Len(tr)
<1> HIDE DEF long, n
<1>2. \A j \in DOMAIN long : LineOf(long[j].addr) = b => j \in 1 .. n /\ LineOf(tr[j].addr) = b
  <2> SUFFICES ASSUME NEW j \in 1 .. n + 1, LineOf(long[j].addr) = b
               PROVE  j \in 1 .. n /\ LineOf(tr[j].addr) = b
    BY <1>1 DEF long, n
  <2>1. j # n + 1
    BY <1>1 DEF long, n
  <2>2. j \in 1 .. n
    BY <1>1, <2>1 DEF n
  <2> QED BY <1>1, <2>2 DEF long, n
<1>3. ASSUME NEW a, After(tr, a, b) PROVE After(long, a, b)
  <2>1. PICK i \in 1 .. n :
          LineOf(tr[i].addr) = a /\ \A j \in 1 .. n : LineOf(tr[j].addr) = b => j < i
    BY <1>1, <1>3 DEF After, n
  <2>2. i \in DOMAIN long /\ LineOf(long[i].addr) = a
    BY <1>1, <2>1 DEF long, n
  <2> QED BY <1>2, <2>1, <2>2 DEF After
<1>4. After(long, LineOf(rec.addr), b)
  <2>1. n + 1 \in DOMAIN long /\ LineOf(long[n + 1].addr) = LineOf(rec.addr)
    BY <1>1 DEF long, n
  <2>2. \A j \in 1 .. n : j < n + 1
    BY <1>1 DEF n
  <2> QED BY <1>2, <2>1, <2>2 DEF After
<1> QED BY <1>3, <1>4 DEF long

\* The line of a way names its set, and in its set the way.
LEMMA HeldLineIsOwn ==
  ASSUME TypeOK, NoDuplicateLines, NEW s \in SetIndex, NEW u \in UsedWays(s)
  PROVE  /\ IndexOf(HeldLine(s, u)) = s
         /\ HeldLine(s, u) \in ResidentLines
         /\ \A w \in UsedWays(s) : HeldLine(s, u) = HeldLine(s, w) => u = w
<1>1. /\ u \in WayIndex /\ storage[s][u].valid
      /\ \A w \in UsedWays(s) : w \in WayIndex /\ storage[s][w].valid
  BY UsedWaysAreFinite
<1>2. \A w \in WayIndex : storage[s][w].tag \in Nat
  BY DEF TypeOK, Way
<1>3. \A w \in WayIndex : IndexOf(HeldLine(s, w)) = s /\ TagOf(HeldLine(s, w)) = storage[s][w].tag
  BY <1>2, LineAtCoordinates DEF HeldLine
<1>4. HeldLine(s, u) \in ResidentLines
  BY <1>1, LinesInMembers DEF HeldLine, ResidentLines
<1>5. ASSUME NEW w \in UsedWays(s), HeldLine(s, u) = HeldLine(s, w) PROVE u = w
  <2>1. storage[s][u].tag = storage[s][w].tag
    BY <1>1, <1>3, <1>5
  <2> QED BY <1>1, <2>1 DEF NoDuplicateLines
<1> QED BY <1>1, <1>3, <1>4, <1>5

\* Two lines stay in order unless the older is asked for.
LEMMA StaysYounger ==
  ASSUME trace \in Seq(Record), NEW rec \in Record, trace' = Append(trace, rec),
         NEW s, NEW u, NEW w, Younger(s, u, w),
         HeldLine(s, u)' = HeldLine(s, u), HeldLine(s, w)' = HeldLine(s, w),
         HeldLine(s, w) # LineOf(rec.addr)
  PROVE  Younger(s, u, w)'
<1>1. After(Append(trace, rec), HeldLine(s, u), HeldLine(s, w))
  BY AfterAppend DEF Younger
<1>2. Younger(s, u, w)' <=> After(trace', HeldLine(s, u)', HeldLine(s, w)')
  BY DEF Younger, After, LineOf
<1> QED BY <1>1, <1>2

\* An access that leaves its line in a way makes that way the youngest of its
\* set and changes the order of no others.
LEMMA HoldingAges ==
  ASSUME TypeOK, NoDuplicateLines, NEW set \in SetIndex, NEW way \in WayIndex, NEW tag \in Nat,
         Holding(set, way, tag),
         \A w \in WayIndex \ {way} : ~(storage[set][w].valid /\ storage[set][w].tag = tag),
         NEW rec \in Record, LineOf(rec.addr) = LineAt(set, tag), trace' = Append(trace, rec)
  PROVE  /\ UsedWays(set)' = UsedWays(set) \cup {way}
         /\ \A s \in SetIndex \ {set} : UsedWays(s)' = UsedWays(s)
         /\ \A s \in SetIndex \ {set} : \A u, w \in UsedWays(s) :
              Younger(s, u, w) => Younger(s, u, w)'
         /\ \A u, w \in UsedWays(set) \ {way} : Younger(set, u, w) => Younger(set, u, w)'
         /\ \A w \in UsedWays(set) \ {way} : Younger(set, way, w)'
<1> DEFINE line == LineAt(set, tag)
<1>1. trace \in Seq(Record) /\ \A s \in SetIndex, w \in WayIndex : storage[s][w].tag \in Nat
  BY DEF TypeOK, Way
<1>2. \A s \in SetIndex : /\ UsedWays(s) = {w \in WayIndex : storage[s][w].valid}
                          /\ UsedWays(s)' = {w \in WayIndex : storage'[s][w].valid}
  BY DEF UsedWays, FreeWays
<1>3. /\ storage'[set][way].valid /\ storage'[set][way].tag = tag
      /\ \A s \in SetIndex, w \in WayIndex :
           s # set \/ w # way =>
              /\ storage'[s][w].valid = storage[s][w].valid
              /\ storage'[s][w].tag = storage[s][w].tag
  BY DEF Holding
<1>4. UsedWays(set)' = UsedWays(set) \cup {way}
  BY <1>2, <1>3
<1>5. ASSUME NEW s \in SetIndex \ {set} PROVE UsedWays(s)' = UsedWays(s)
  <2>1. \A w \in WayIndex : storage'[s][w].valid = storage[s][w].valid
    BY <1>3
  <2>2. /\ UsedWays(s) = {w \in WayIndex : storage[s][w].valid}
        /\ UsedWays(s)' = {w \in WayIndex : storage'[s][w].valid}
    BY <1>2
  <2> QED BY <2>1, <2>2
<1>6. /\ HeldLine(set, way)' = line
      /\ \A s \in SetIndex, w \in WayIndex :
           s # set \/ w # way => HeldLine(s, w)' = HeldLine(s, w)
  BY <1>3 DEF HeldLine, LineAt
<1>7. ASSUME NEW s \in SetIndex, NEW w \in UsedWays(s), s # set \/ w # way
      PROVE  w \in WayIndex /\ HeldLine(s, w) # line
  <2>1. w \in WayIndex /\ storage[s][w].valid
    BY <1>2
  <2>2. /\ IndexOf(HeldLine(s, w)) = s /\ TagOf(HeldLine(s, w)) = storage[s][w].tag
        /\ IndexOf(line) = set /\ TagOf(line) = tag
    BY <1>1, <2>1, LineAtCoordinates DEF HeldLine
  <2>3. s # set \/ storage[s][w].tag # tag
    BY <1>7, <2>1
  <2> QED BY <2>1, <2>2, <2>3
<1> HIDE DEF line
<1>8. ASSUME NEW w \in UsedWays(set) \ {way} PROVE Younger(set, way, w)'
  <2>1. HeldLine(set, way)' = LineOf(rec.addr) /\ HeldLine(set, w)' = HeldLine(set, w)
        /\ HeldLine(set, w) # LineOf(rec.addr)
    BY <1>6, <1>7, <1>8 DEF line
  <2>2. After(Append(trace, rec), LineOf(rec.addr), HeldLine(set, w))
    BY <1>1, <2>1, AfterAppend
  <2>3. Younger(set, way, w)' <=> After(trace', HeldLine(set, way)', HeldLine(set, w)')
    BY DEF Younger, After, LineOf
  <2> QED BY <2>1, <2>2, <2>3
<1>9. ASSUME NEW s \in SetIndex \ {set}, NEW u \in UsedWays(s), NEW w \in UsedWays(s),
              Younger(s, u, w)
       PROVE  Younger(s, u, w)'
  <2>1. u \in WayIndex /\ w \in WayIndex /\ HeldLine(s, w) # LineOf(rec.addr)
    BY <1>7 DEF line
  <2>2. HeldLine(s, u)' = HeldLine(s, u) /\ HeldLine(s, w)' = HeldLine(s, w)
    BY <1>6, <2>1
  <2> QED BY <1>1, <1>9, <2>1, <2>2, StaysYounger
<1>10. ASSUME NEW u \in UsedWays(set) \ {way}, NEW w \in UsedWays(set) \ {way},
              Younger(set, u, w)
       PROVE  Younger(set, u, w)'
  <2>1. u \in WayIndex /\ w \in WayIndex /\ HeldLine(set, w) # LineOf(rec.addr)
    BY <1>7 DEF line
  <2>2. HeldLine(set, u)' = HeldLine(set, u) /\ HeldLine(set, w)' = HeldLine(set, w)
    BY <1>6, <2>1
  <2> QED BY <1>1, <1>10, <2>1, <2>2, StaysYounger
<1>11. \A s \in SetIndex \ {set} : UsedWays(s)' = UsedWays(s)
  BY <1>5
<1>12. \A s \in SetIndex \ {set} : \A u, w \in UsedWays(s) : Younger(s, u, w) => Younger(s, u, w)'
  BY <1>9
<1>13. \A u, w \in UsedWays(set) \ {way} : Younger(set, u, w) => Younger(set, u, w)'
  BY <1>10
<1>14. \A w \in UsedWays(set) \ {way} : Younger(set, way, w)'
  BY <1>8
<1> QED BY <1>4, <1>11, <1>12, <1>13, <1>14, Zenon

\* An access past the cache makes no resident line younger.
LEMMA BypassAges ==
  ASSUME TypeOK, NoDuplicateLines, NEW rec \in Record, LineOf(rec.addr) \notin ResidentLines,
         trace' = Append(trace, rec), storage' = storage, replacement' = replacement
  PROVE  /\ \A s \in SetIndex : UsedWays(s)' = UsedWays(s)
         /\ \A s \in SetIndex : \A u, w \in UsedWays(s) : Younger(s, u, w) => Younger(s, u, w)'
<1>1. trace \in Seq(Record)
  BY DEF TypeOK
<1>2. \A s \in SetIndex : UsedWays(s)' = UsedWays(s)
  BY DEF UsedWays, FreeWays
<1>3. ASSUME NEW s \in SetIndex, NEW u \in UsedWays(s), NEW w \in UsedWays(s), Younger(s, u, w)
      PROVE  Younger(s, u, w)'
  <2>1. HeldLine(s, w) # LineOf(rec.addr)
    BY HeldLineIsOwn
  <2>2. HeldLine(s, u)' = HeldLine(s, u) /\ HeldLine(s, w)' = HeldLine(s, w)
    BY DEF HeldLine, LineAt
  <2> QED BY <1>1, <1>3, <2>1, <2>2, StaysYounger
<1> QED BY <1>2, <1>3

\* The touched way has the latest tick, and is the youngest.
LEMMA HoldingKeepsTicksFollow ==
  ASSUME SafetyInv, TicksInv, TicksFollow, UsesTicks(cfg.policy),
         NEW set \in SetIndex, NEW way \in WayIndex, NEW tag \in Nat,
         Holding(set, way, tag),
         \A w \in WayIndex \ {way} : ~(storage[set][w].valid /\ storage[set][w].tag = tag),
         NEW rec \in Record, LineOf(rec.addr) = LineAt(set, tag), trace' = Append(trace, rec)
  PROVE  TicksFollow'
<1>1. TypeOK /\ NoDuplicateLines
  BY DEF SafetyInv, Safety
<1>2. UsedWays(set)' = UsedWays(set) \cup {way}
  BY <1>1, HoldingAges
<1>3. \A s \in SetIndex \ {set} : UsedWays(s)' = UsedWays(s)
  BY <1>1, HoldingAges
<1>4. \A s \in SetIndex \ {set} : \A u, w \in UsedWays(s) : Younger(s, u, w) => Younger(s, u, w)'
  BY <1>1, HoldingAges
<1>5. \A u, w \in UsedWays(set) \ {way} : Younger(set, u, w) => Younger(set, u, w)'
  BY <1>1, HoldingAges
<1>6. \A w \in UsedWays(set) \ {way} : Younger(set, way, w)'
  BY <1>1, HoldingAges
<1>7. /\ TouchAt(UsedWays(set), Ticks(set), way, replacement[set].tick + 1,
                 UsedWays(set)', Ticks(set)')
      /\ \A s \in SetIndex \ {set} : Ticks(s)' = Ticks(s)
  BY HoldingTouches DEF SafetyInv
<1>8. Ticks(set)'[way] = replacement[set].tick + 1
      /\ \A w \in UsedWays(set) \ {way} : Ticks(set)'[w] = Ticks(set)[w]
  BY <1>7 DEF TouchAt
<1>9. \A w \in UsedWays(set) : ~(Ticks(set)[w] > replacement[set].tick + 1)
  <2> SUFFICES ASSUME NEW w \in UsedWays(set) PROVE ~(Ticks(set)[w] > replacement[set].tick + 1)
    OBVIOUS
  <2>1. Ticks(set)[w] \in Nat /\ replacement[set].tick \in Nat
    BY UsedWaysAreFinite, TicksType DEF SafetyInv
  <2>2. Ticks(set)[w] <= replacement[set].tick
    BY DEF TicksInv
  <2> QED BY <2>1, <2>2
<1>10. ~(replacement[set].tick + 1 > replacement[set].tick + 1)
  BY TicksType DEF SafetyInv
<1>11. ASSUME NEW u \in UsedWays(set)', NEW w \in UsedWays(set)', Ticks(set)'[u] > Ticks(set)'[w]
      PROVE  Younger(set, u, w)'
  <2>1. (u = way \/ u \in UsedWays(set) \ {way}) /\ (w = way \/ w \in UsedWays(set) \ {way})
    BY <1>2
  <2>2. w # way
    <3> SUFFICES ASSUME w = way PROVE FALSE
      OBVIOUS
    <3>1. Ticks(set)'[u] > replacement[set].tick + 1
      BY <1>8, <1>11
    <3>2. u # way
      BY <1>8, <1>10, <3>1
    <3> QED BY <1>8, <1>9, <2>1, <3>1, <3>2
  <2>3. CASE u = way
    BY <1>6, <2>1, <2>2, <2>3
  <2>4. CASE u # way
    <3>1. u \in UsedWays(set) \ {way} /\ w \in UsedWays(set) \ {way}
      BY <2>1, <2>2, <2>4
    <3>2. Younger(set, u, w)
      BY <1>8, <1>11, <3>1 DEF TicksFollow
    <3> QED BY <1>5, <3>1, <3>2
  <2> QED BY <2>3, <2>4
<1>12. ASSUME NEW s \in SetIndex \ {set}, NEW u \in UsedWays(s)', NEW w \in UsedWays(s)',
             Ticks(s)'[u] > Ticks(s)'[w]
      PROVE  Younger(s, u, w)'
  <2>1. u \in UsedWays(s) /\ w \in UsedWays(s)
    BY <1>3
  <2>2. Ticks(s)' = Ticks(s)
    BY <1>7
  <2>3. Younger(s, u, w)
    BY <1>12, <2>1, <2>2 DEF TicksFollow
  <2> QED BY <1>4, <2>1, <2>3
<1>13. ASSUME NEW s \in SetIndex
      PROVE  \A u, w \in UsedWays(s)' : Ticks(s)'[u] > Ticks(s)'[w] => Younger(s, u, w)'
  <2>1. CASE s = set
    BY <1>11, <2>1
  <2>2. CASE s # set
    BY <1>12, <2>2
  <2> QED BY <2>1, <2>2
<1> QED BY <1>13 DEF TicksFollow

\* The nodes above the touched way point away from it, and it is the youngest of
\* the set; no other node has lost a way below either child.
LEMMA HoldingKeepsTreeFollows ==
  ASSUME SafetyInv, TreeFollows, ~UsesTicks(cfg.policy),
         NEW set \in SetIndex, NEW way \in WayIndex, NEW tag \in Nat,
         Holding(set, way, tag),
         \A w \in WayIndex \ {way} : ~(storage[set][w].valid /\ storage[set][w].tag = tag),
         NEW rec \in Record, LineOf(rec.addr) = LineAt(set, tag), trace' = Append(trace, rec)
  PROVE  TreeFollows'
<1>1. TypeOK /\ NoDuplicateLines
  BY DEF SafetyInv, Safety
<1>2. UsedWays(set)' = UsedWays(set) \cup {way}
  BY <1>1, HoldingAges
<1>3. \A s \in SetIndex \ {set} : UsedWays(s)' = UsedWays(s)
  BY <1>1, HoldingAges
<1>4. \A s \in SetIndex \ {set} : \A u, w \in UsedWays(s) : Younger(s, u, w) => Younger(s, u, w)'
  BY <1>1, HoldingAges
<1>5. \A u, w \in UsedWays(set) \ {way} : Younger(set, u, w) => Younger(set, u, w)'
  BY <1>1, HoldingAges
<1>6. \A w \in UsedWays(set) \ {way} : Younger(set, way, w)'
  BY <1>1, HoldingAges
<1>7. replacement \in [SetIndex -> ReplacementState]
  BY DEF SafetyInv, TypeOK
<1>8. replacement' = [replacement EXCEPT ![set] = Touch(cfg.policy, replacement[set], way)]
  BY DEF Holding
<1>9. \A s \in SetIndex \ {set} : replacement'[s] = replacement[s]
  BY <1>7, <1>8
<1>10. replacement'[set].plru = TouchTree(replacement[set].plru, way)
  <2>1. replacement'[set] = Touch(cfg.policy, replacement[set], way)
    BY <1>7, <1>8
  <2>2. replacement[set] \in ReplacementState
    BY <1>7
  <2> QED BY <2>1, <2>2 DEF Touch, ReplacementState
<1> DEFINE bits == replacement[set].plru
           now == replacement'[set].plru
<1>11. \A m \in TreeNode : now[m] = IF 2 * m \in LeafToRoot(way) THEN 1
                                   ELSE IF 2 * m + 1 \in LeafToRoot(way) THEN 0
                                   ELSE bits[m]
  <2> HIDE DEF bits
  <2> QED BY <1>10 DEF TouchTree, bits
<1>12. bits \in [TreeNode -> {0, 1}]
  <2>1. replacement[set] \in ReplacementState
    BY <1>7
  <2> QED BY <2>1 DEF ReplacementState
<1>13. \A s \in SetIndex : UsedWays(s) \in SUBSET WayIndex
  BY UsedWaysAreFinite
<1>14. \A m \in TreeNode, w \in WayIndex : ~(2 * m \in LeafToRoot(w) /\ 2 * m + 1 \in LeafToRoot(w))
  <2> SUFFICES ASSUME NEW m \in TreeNode, NEW w \in WayIndex
               PROVE  ~(2 * m \in LeafToRoot(w) /\ 2 * m + 1 \in LeafToRoot(w))
    OBVIOUS
  <2>1. Ways + w \in AnyNode /\ m \in Nat \ {0}
    BY WaysAssumption DEF AnyNode, WayIndex, TreeNode
  <2> QED BY <2>1, PathForks DEF LeafToRoot
<1>15. \A m \in TreeNode, w \in WayIndex :
         /\ Pointed(m, 0, w) <=> 2 * m \in LeafToRoot(w)
         /\ Pointed(m, 1, w) <=> 2 * m + 1 \in LeafToRoot(w)
         /\ Turned(m, 0, w) <=> 2 * m + 1 \in LeafToRoot(w)
         /\ Turned(m, 1, w) <=> 2 * m \in LeafToRoot(w)
  <2> SUFFICES ASSUME NEW m \in TreeNode
               PROVE  2 * m + 0 = 2 * m /\ 2 * m + 1 - 0 = 2 * m + 1 /\ 2 * m + 1 - 1 = 2 * m
    BY DEF Pointed, Turned
  <2> QED BY DEF TreeNode
<1>16. \A s \in SetIndex : \A m \in TreeNode, w \in UsedWays(s) :
         Pointed(m, replacement[s].plru[m], w)
             => \E u \in UsedWays(s) : Turned(m, replacement[s].plru[m], u) /\ Younger(s, u, w)
  BY DEF TreeFollows
<1> HIDE DEF bits, now
<1>17. ASSUME NEW m \in TreeNode, NEW w \in UsedWays(set)', Pointed(m, now[m], w)
       PROVE  \E u \in UsedWays(set)' : Turned(m, now[m], u) /\ Younger(set, u, w)'
  <2>1. /\ w \in WayIndex /\ way \in UsedWays(set)'
        /\ w # way => w \in UsedWays(set) \ {way}
    BY <1>2, <1>13
  <2>2. CASE 2 * m \in LeafToRoot(way) \/ 2 * m + 1 \in LeafToRoot(way)
    <3>1. Turned(m, now[m], way) /\ ~Pointed(m, now[m], way)
      BY <1>11, <1>14, <1>15, <2>2
    <3>2. w \in UsedWays(set) \ {way}
      BY <1>17, <2>1, <3>1
    <3> QED BY <1>6, <2>1, <3>1, <3>2
  <2>3. CASE ~(2 * m \in LeafToRoot(way) \/ 2 * m + 1 \in LeafToRoot(way))
    <3>1. now[m] = bits[m] /\ bits[m] \in {0, 1}
      BY <1>11, <1>12, <2>3
    <3>2. ~Pointed(m, bits[m], way) /\ ~Turned(m, bits[m], way)
      BY <1>15, <2>3, <3>1
    <3>3. w # way /\ w \in UsedWays(set)
      BY <1>17, <2>1, <3>1, <3>2
    <3>4. PICK u \in UsedWays(set) : Turned(m, bits[m], u) /\ Younger(set, u, w)
      BY <1>16, <1>17, <3>1, <3>3 DEF bits
    <3>5. u # way
      BY <3>2, <3>4
    <3>6. Younger(set, u, w)'
      BY <1>5, <3>3, <3>4, <3>5
    <3>7. u \in UsedWays(set)'
      BY <1>2, <3>4
    <3> QED BY <3>1, <3>4, <3>6, <3>7
  <2> QED BY <2>2, <2>3
<1>18. ASSUME NEW s \in SetIndex \ {set}, NEW m \in TreeNode, NEW w \in UsedWays(s)',
              Pointed(m, replacement'[s].plru[m], w)
       PROVE  \E u \in UsedWays(s)' : Turned(m, replacement'[s].plru[m], u) /\ Younger(s, u, w)'
  <2>1. UsedWays(s)' = UsedWays(s)
    BY <1>3
  <2>2. replacement'[s] = replacement[s]
    BY <1>9
  <2>3. w \in UsedWays(s)
    BY <2>1
  <2>4. PICK u \in UsedWays(s) : Turned(m, replacement[s].plru[m], u) /\ Younger(s, u, w)
    BY <1>16, <1>18, <2>2, <2>3
  <2>5. Younger(s, u, w)'
    BY <1>4, <2>3, <2>4
  <2> QED BY <2>1, <2>2, <2>4, <2>5
<1>19. ASSUME NEW s \in SetIndex
       PROVE  \A m \in TreeNode, w \in UsedWays(s)' :
                Pointed(m, replacement'[s].plru[m], w)
                  => \E u \in UsedWays(s)' :
                        Turned(m, replacement'[s].plru[m], u) /\ Younger(s, u, w)'
  <2>1. CASE s = set
    BY <1>17, <2>1 DEF now
  <2>2. CASE s # set
    BY <1>18, <2>2
  <2> QED BY <2>1, <2>2
<1> QED BY <1>19 DEF TreeFollows

\* Every access keeps the order of ages.
LEMMA AgeStep ==
  ASSUME SafetyInv, AgeInv, NEW rec \in Accesses, Simulate(rec)
  PROVE  AgeInv'
<1> DEFINE line == LineOf(rec.addr)
           set == IndexOf(line)
           tag == TagOf(line)
<1>1. /\ rec \in Record /\ rec.kind \in Kind /\ rec.addr \in Nat
      /\ TypeOK /\ NoDuplicateLines
      /\ cfg' = cfg /\ trace' = Append(trace, rec)
  BY DCacheAssumption DEF SafetyInv, Safety, Simulate, Record
<1>2. UsesTicks(cfg'.policy) <=> UsesTicks(cfg.policy)
  BY <1>1
<1>3. set \in SetIndex /\ tag \in Nat /\ LineAt(set, tag) = line
  BY <1>1, LineOfType, LineCoordinates
<1>4. ASSUME NEW way \in WayIndex, Holding(set, way, tag),
             \A w \in WayIndex \ {way} : ~(storage[set][w].valid /\ storage[set][w].tag = tag)
      PROVE  AgeInv'
  <2> HIDE DEF set, tag
  <2>1. CASE UsesTicks(cfg.policy)
    <3>1. TicksInv /\ TicksFollow
      BY <2>1 DEF AgeInv
    <3>2. TicksInv'
      BY <1>1, <1>3, <1>4, <2>1, <3>1, HoldingKeepsTicks
    <3>3. TicksFollow'
      BY <1>1, <1>3, <1>4, <2>1, <3>1, HoldingKeepsTicksFollow
    <3> QED BY <1>2, <2>1, <3>2, <3>3 DEF AgeInv
  <2>2. CASE ~UsesTicks(cfg.policy)
    <3>1. TreeFollows
      BY <2>2 DEF AgeInv
    <3>2. TreeFollows'
      BY <1>1, <1>3, <1>4, <2>2, <3>1, HoldingKeepsTreeFollows
    <3> QED BY <1>2, <2>2, <3>2 DEF AgeInv
  <2> QED BY <2>1, <2>2
<1>5. CASE Hit(rec.kind, rec.addr)
  <2> DEFINE way == FirstWay(Holders(set, tag))
  <2>1. /\ way \in WayIndex /\ way \in UsedWays(set) /\ storage[set][way].tag = tag
        /\ Holding(set, way, tag)
    BY <1>1, <1>5, HitHolds
  <2> HIDE DEF way, set, tag
  <2>2. storage[set][way].valid
    BY <1>3, <2>1, UsedWaysAreFinite
  <2>3. \A w \in WayIndex \ {way} : ~(storage[set][w].valid /\ storage[set][w].tag = tag)
    BY <1>1, <1>3, <2>1, <2>2 DEF NoDuplicateLines
  <2> QED BY <1>4, <2>1, <2>3
<1>6. CASE Refill(rec.kind, rec.addr)
  <2>1. /\ SlotFor(set) \in WayIndex
        /\ \A w \in WayIndex : ~(storage[set][w].valid /\ storage[set][w].tag = tag)
        /\ Holding(set, SlotFor(set), tag)
    BY <1>1, <1>6, RefillHolds
  <2> HIDE DEF set, tag
  <2> QED BY <1>4, <2>1
<1>7. CASE NoAllocateStore(rec.kind, rec.addr)
  <2>1. storage' = storage /\ replacement' = replacement
        /\ \A w \in WayIndex : ~(storage[set][w].valid /\ storage[set][w].tag = tag)
    BY <1>7 DEF NoAllocateStore, Holders
  <2>2. line \notin ResidentLines
    <3> SUFFICES ASSUME NEW s \in SetIndex, NEW w \in WayIndex,
                        storage[s][w].valid, line = LineAt(s, storage[s][w].tag)
                 PROVE  FALSE
      BY LinesInMembers DEF ResidentLines
    <3>1. storage[s][w].tag \in Nat
      BY <1>1 DEF TypeOK, Way
    <3>2. set = s /\ tag = storage[s][w].tag
      BY <3>1, LineAtCoordinates
    <3> QED BY <2>1, <3>2
  <2> HIDE DEF line, set, tag
  <2>3. \A s \in SetIndex : UsedWays(s)' = UsedWays(s)
    BY <1>1, <2>1, <2>2, BypassAges DEF line
  <2>4. \A s \in SetIndex : \A u, w \in UsedWays(s) : Younger(s, u, w) => Younger(s, u, w)'
    BY <1>1, <2>1, <2>2, BypassAges DEF line
  <2>5. CASE UsesTicks(cfg.policy)
    <3>1. TicksInv /\ TicksFollow
      BY <2>5 DEF AgeInv
    <3>2. TicksInv'
      BY <2>1, <3>1 DEF TicksInv, UsedWays, FreeWays, Ticks
    <3>3. ASSUME NEW s \in SetIndex, NEW u \in UsedWays(s)', NEW w \in UsedWays(s)',
                 Ticks(s)'[u] > Ticks(s)'[w]
          PROVE  Younger(s, u, w)'
      <4>1. u \in UsedWays(s) /\ w \in UsedWays(s)
        BY <2>3
      <4>2. Ticks(s)' = Ticks(s)
        BY <2>1 DEF Ticks
      <4>3. Younger(s, u, w)
        BY <3>1, <3>3, <4>1, <4>2 DEF TicksFollow
      <4> QED BY <2>4, <4>1, <4>3
    <3>4. TicksFollow'
      BY <3>3 DEF TicksFollow
    <3> QED BY <1>2, <2>5, <3>2, <3>4 DEF AgeInv
  <2>6. CASE ~UsesTicks(cfg.policy)
    <3>1. TreeFollows
      BY <2>6 DEF AgeInv
    <3>2. ASSUME NEW s \in SetIndex, NEW m \in TreeNode, NEW w \in UsedWays(s)',
                 Pointed(m, replacement'[s].plru[m], w)
          PROVE  \E u \in UsedWays(s)' :
                    Turned(m, replacement'[s].plru[m], u) /\ Younger(s, u, w)'
      <4>1. UsedWays(s)' = UsedWays(s)
        BY <2>3
      <4>2. w \in UsedWays(s)
        BY <4>1
      <4>3. PICK u \in UsedWays(s) : Turned(m, replacement[s].plru[m], u) /\ Younger(s, u, w)
        BY <2>1, <3>1, <3>2, <4>2 DEF TreeFollows
      <4>4. Younger(s, u, w)'
        BY <2>4, <4>2, <4>3
      <4> QED BY <2>1, <4>1, <4>3, <4>4
    <3>3. TreeFollows'
      BY <3>2 DEF TreeFollows
    <3> QED BY <1>2, <2>6, <3>3 DEF AgeInv
  <2> QED BY <2>5, <2>6
<1> QED BY <1>5, <1>6, <1>7 DEF Simulate

\* So that it holds throughout a simulation.
LEMMA AgeInvariant == Spec => []AgeInv
<1>1. Init => AgeInv
  <2> SUFFICES ASSUME Init PROVE AgeInv
    OBVIOUS
  <2>1. \A s \in SetIndex : UsedWays(s) = {}
    BY DEF Init, UsedWays, FreeWays
  <2> QED BY <2>1 DEF AgeInv, TicksInv, TicksDiffer, TicksFollow, TreeFollows
<1>2. SafetyInv /\ AgeInv /\ [Next]_vars => AgeInv'
  <2> SUFFICES ASSUME SafetyInv, AgeInv, [Next]_vars PROVE AgeInv'
    OBVIOUS
  <2>1. CASE Next
    BY <2>1, AgeStep DEF Next
  <2>2. CASE UNCHANGED vars
    <3>1. cfg' = cfg /\ trace' = trace /\ storage' = storage /\ replacement' = replacement
      BY <2>2 DEF vars
    <3>2. \A s : UsedWays(s)' = UsedWays(s) /\ Ticks(s)' = Ticks(s)
      BY <3>1 DEF UsedWays, FreeWays, Ticks
    <3>3. \A s, u, w : Younger(s, u, w)' <=> Younger(s, u, w)
      BY <3>1 DEF Younger, After, HeldLine, LineAt, LineOf
    <3>4. TicksInv' <=> TicksInv
      BY <3>1, <3>2 DEF TicksInv
    <3>5. TicksFollow' <=> TicksFollow
      BY <3>2, <3>3 DEF TicksFollow
    <3>6. TreeFollows' <=> TreeFollows
      BY <3>1, <3>2, <3>3 DEF TreeFollows
    <3> QED BY <3>1, <3>4, <3>5, <3>6 DEF AgeInv
  <2> QED BY <2>1, <2>2
<1> QED BY <1>1, <1>2, SafetyInvariant, PTL DEF Spec

\* The victim of a full set is older than as many ways as the policy shields.
LEMMA VictimIsOld ==
  ASSUME SafetyInv, AgeInv, NEW set \in SetIndex, Evicts(set)
  PROVE  /\ SlotFor(set) \in UsedWays(set)
         /\ Shielded <= Cardinality({u \in UsedWays(set) : Younger(set, u, SlotFor(set))})
<1> DEFINE slot == SlotFor(set)
           Youngers == {u \in UsedWays(set) : Younger(set, u, slot)}
<1>1. UsedWays(set) = WayIndex /\ FreeWays(set) = {}
  BY DEF Evicts, UsedWays
<1>2. slot \in WayIndex /\ slot = Victim(cfg.policy, replacement[set])
  BY <1>1, SlotType DEF SafetyInv, SlotFor
<1>3. IsFiniteSet(WayIndex) /\ Cardinality(WayIndex) = Ways /\ IsFiniteSet(Youngers)
  <2>1. IsFiniteSet(WayIndex) /\ Cardinality(WayIndex) = Ways
    BY UsedWaysAreFinite
  <2>2. Youngers \in SUBSET WayIndex
    BY <1>1
  <2> QED BY <2>1, <2>2, FS_Subset
<1>4. CASE UsesTicks(cfg.policy)
  <2>1. TicksInv /\ TicksFollow /\ Ticks(set) \in [WayIndex -> Nat]
    BY <1>4, TicksType DEF AgeInv, SafetyInv
  <2>2. slot = OldestWay(Ticks(set))
    BY <1>2, <1>4 DEF Victim, Ticks
  <2>3. \A w \in WayIndex : Ticks(set)[slot] <= Ticks(set)[w]
    BY <2>1, <2>2, OldestWayIsOldest
  <2>4. ASSUME NEW u \in WayIndex \ {slot} PROVE u \in Youngers
    <3>1. Ticks(set)[u] # Ticks(set)[slot]
      BY <1>1, <1>2, <2>1 DEF TicksInv, TicksDiffer
    <3>2. Ticks(set)[u] > Ticks(set)[slot]
      BY <1>2, <2>1, <2>3, <3>1
    <3> QED BY <1>1, <1>2, <2>1, <3>2 DEF TicksFollow
  <2> HIDE DEF slot, Youngers
  <2>5. Cardinality(WayIndex \ {slot}) = Ways - 1
    BY <1>2, <1>3, FS_RemoveElement
  <2>6. Cardinality(WayIndex \ {slot}) <= Cardinality(Youngers)
    <3>1. WayIndex \ {slot} \in SUBSET Youngers
      BY <2>4
    <3> QED BY <1>3, <3>1, FS_Subset
  <2> QED BY <1>1, <1>2, <1>4, <2>5, <2>6 DEF Shielded, slot, Youngers
<1>5. CASE ~UsesTicks(cfg.policy)
  <2> DEFINE bits == replacement[set].plru
  <2>1. bits \in [TreeNode -> {0, 1}]
    <3>1. replacement[set] \in ReplacementState
      BY DEF SafetyInv, TypeOK
    <3> QED BY <3>1 DEF ReplacementState
  <2>2. slot = TreeVictim(bits)
    BY <1>2, <1>5 DEF Victim
  <2>3. ASSUME NEW m \in TreeNode, 2 * m + bits[m] \in LeafToRoot(slot)
        PROVE  \E u \in Youngers : 2 * m + 1 - bits[m] \in LeafToRoot(u)
    <3>1. Pointed(m, bits[m], slot)
      BY <2>3 DEF Pointed
    <3>2. PICK u \in UsedWays(set) : Turned(m, bits[m], u) /\ Younger(set, u, slot)
      BY <1>1, <1>2, <1>5, <3>1 DEF AgeInv, TreeFollows
    <3> QED BY <3>2 DEF Turned
  <2>4. Youngers \subseteq WayIndex
    BY <1>1
  <2> HIDE DEF slot, Youngers, bits
  <2>5. Cardinality(LeafToRoot(0)) - 1 <= Cardinality(Youngers)
    BY <1>3, <2>1, <2>2, <2>3, <2>4, OneWayPerLevel
  <2> QED BY <1>1, <1>2, <1>5, <2>5 DEF Shielded, Levels, slot, Youngers
<1> QED BY <1>4, <1>5

\* At least the root is on every path.
LEMMA ShieldedType == Shielded \in Nat
<1>1. Levels \in Nat
  <2>1. Ways + 0 \in AnyNode
    BY WaysAssumption DEF AnyNode
  <2>2. IsFiniteSet(LeafToRoot(0)) /\ 1 \in LeafToRoot(0)
    BY <2>1, PathEnds, PathLength DEF LeafToRoot
  <2>3. Cardinality(LeafToRoot(0)) \in Nat /\ Cardinality(LeafToRoot(0)) # 0
    BY <2>2, FS_CardinalityType, FS_EmptySet
  <2> QED BY <2>3 DEF Levels
<1> QED BY <1>1, WaysAssumption DEF Shielded

\* A line is not among the last touches of its set when the lines of as many
\* ways were touched after it.
LEMMA NotAmongLast ==
  ASSUME SafetyInv, NEW set \in SetIndex, NEW way \in UsedWays(set), NEW n \in Nat,
         n <= Cardinality({u \in UsedWays(set) : Younger(set, u, way)})
  PROVE  HeldLine(set, way) \notin LastTouched(set, n)
<1> DEFINE U == {u \in UsedWays(set) : Younger(set, u, way)}
           held == HeldLine(set, way)
<1> SUFFICES ASSUME NEW j \in Touches(set), LineOf(trace[j].addr) = held,
                    Cardinality({k \in Touches(set) : k > j}) < n
             PROVE  FALSE
  BY DEF LastTouched
<1> DEFINE K == {k \in Touches(set) : k > j}
           index == [u \in U |-> CHOOSE k \in K : LineOf(trace[k].addr) = HeldLine(set, u)]
<1>1. trace \in Seq(Record) /\ TypeOK /\ NoDuplicateLines
  BY DEF SafetyInv, Safety, TypeOK
<1>2. DOMAIN trace = 1 .. Len(trace) /\ Len(trace) \in Nat
  <2> HIDE DEF Record
  <2> QED BY <1>1
<1>3. ASSUME NEW u \in U
      PROVE  \E k \in K : LineOf(trace[k].addr) = HeldLine(set, u)
  <2>1. PICK i \in DOMAIN trace :
          /\ LineOf(trace[i].addr) = HeldLine(set, u)
          /\ \A k \in DOMAIN trace : LineOf(trace[k].addr) = held => k < i
    BY DEF Younger, After
  <2>2. j \in DOMAIN trace /\ j < i
    BY <2>1 DEF Touches
  <2>3. i > j
    BY <1>2, <2>1, <2>2
  <2>4. IndexOf(HeldLine(set, u)) = set /\ HeldLine(set, u) \in ResidentLines
    BY <1>1, HeldLineIsOwn
  <2>5. i \in Touches(set)
    BY <2>1, <2>4 DEF Touches
  <2> QED BY <2>1, <2>3, <2>5
<1>4. IsFiniteSet(K)
  <2>1. IsFiniteSet(1 .. Len(trace))
    BY <1>2, FS_Interval
  <2>2. K \in SUBSET (1 .. Len(trace))
    BY <1>2 DEF Touches
  <2> QED BY <2>1, <2>2, FS_Subset
<1>5. IsFiniteSet(U)
  <2>1. U \in SUBSET UsedWays(set) /\ IsFiniteSet(UsedWays(set))
    BY UsedWaysAreFinite
  <2> QED BY <2>1, FS_Subset
<1>6. \A u \in U : index[u] \in K /\ LineOf(trace[index[u]].addr) = HeldLine(set, u)
  BY <1>3
<1>7. U \subseteq UsedWays(set)
  OBVIOUS
<1> HIDE DEF U, K, index, held
<1>8. Cardinality(U) \in Nat /\ Cardinality(K) \in Nat
  BY <1>4, <1>5, FS_CardinalityType
<1>9. Cardinality(K) < Cardinality(U)
  BY <1>8 DEF K, U
<1>10. index \in [U -> K]
  BY <1>6 DEF index
<1>11. PICK u, w \in U : u # w /\ index[u] = index[w]
  BY <1>4, <1>5, <1>9, <1>10, FS_PigeonHole
<1>12. HeldLine(set, u) = HeldLine(set, w)
  BY <1>6, <1>11
<1> QED BY <1>1, <1>7, <1>11, <1>12, HeldLineIsOwn

\* The lines of the last touches of a set are lines of that set.
LEMMA LastTouchedInSet ==
  ASSUME NEW s \in SetIndex, NEW n, NEW line \in LastTouched(s, n)
  PROVE  IndexOf(line) = s
BY DEF LastTouched, Touches

\* Every policy keeps the lines it shields: exact LRU all lines but the last of
\* a set, the tree as many as it has levels, whatever the accesses
\* (replacement.cpp:19-33).
THEOREM RecentLinesKept == Spec => KeepsRecentLines
<1> DEFINE Kept == \A s \in SetIndex :
                      LastTouched(s, Shielded) \cap ResidentLines \subseteq ResidentLines'
<1>1. SafetyInv /\ AgeInv /\ [Next]_vars => [Kept]_vars
  <2> SUFFICES ASSUME SafetyInv, AgeInv, Next PROVE Kept
    OBVIOUS
  <2>1. PICK rec \in Accesses : Simulate(rec)
    BY DEF Next
  <2>2. rec.kind \in Kind /\ rec.addr \in Nat /\ TypeOK /\ NoDuplicateLines
    BY DCacheAssumption DEF SafetyInv, Safety, Record
  <2>3. CASE Hit(rec.kind, rec.addr)
    BY <2>2, <2>3, HitResidents
  <2>4. CASE NoAllocateStore(rec.kind, rec.addr)
    <3>1. ResidentLines' = ResidentLines
      BY <2>4 DEF NoAllocateStore, ResidentLines, LinesIn, LineAt
    <3> QED BY <3>1
  <2>5. CASE Refill(rec.kind, rec.addr)
    <3> DEFINE set == IndexOf(LineOf(rec.addr))
               slot == SlotFor(set)
    <3>1. set \in SetIndex
      BY <2>2, LineOfType, LineCoordinates
    <3>2. ResidentLines' = (IF Evicts(set) THEN ResidentLines \ {HeldLine(set, slot)}
                            ELSE ResidentLines) \cup {LineOf(rec.addr)}
      BY <2>2, <2>5, RefillResidents DEF HeldLine
    <3> HIDE DEF set
    <3>3. ASSUME Evicts(set), NEW s \in SetIndex
          PROVE  HeldLine(set, slot) \notin LastTouched(s, Shielded)
      <4>1. /\ slot \in UsedWays(set)
            /\ Shielded <= Cardinality({u \in UsedWays(set) : Younger(set, u, slot)})
        BY <3>1, <3>3, VictimIsOld
      <4>2. Shielded \in Nat
        BY ShieldedType
      <4>3. HeldLine(set, slot) \notin LastTouched(set, Shielded)
        <5> HIDE DEF slot
        <5> QED BY <3>1, <4>1, <4>2, NotAmongLast
      <4>4. IndexOf(HeldLine(set, slot)) = set
        <5> HIDE DEF slot
        <5> QED BY <2>2, <3>1, <4>1, HeldLineIsOwn
      <4> HIDE DEF slot
      <4> QED BY <4>3, <4>4, LastTouchedInSet
    <3> HIDE DEF slot
    <3> QED BY <3>2, <3>3
  <2> QED BY <2>1, <2>3, <2>4, <2>5 DEF Simulate
<1>2. KeepsRecentLines <=> [][Kept]_vars
  BY PTL DEF KeepsRecentLines
<1> QED BY <1>1, <1>2, SafetyInvariant, AgeInvariant, PTL DEF Spec

-----------------------------------------------------------------------------
(* What one call of simulate_dcache decides is a function of its trace:    *)
(* the prices and the write buffer play no part in it.                     *)

Decided == {"hits", "misses", "evictions", "writebacks"}
Decisions == [storage |-> storage, replacement |-> replacement, counts |-> [k \in Decided |-> t[k]]]
NothingDecided ==
    [storage |-> [s \in SetIndex |-> [w \in WayIndex |-> [tag |-> 0, valid |-> FALSE, dirty |-> FALSE]]],
     replacement |-> [s \in SetIndex |-> NewReplacement], counts |-> [k \in Decided |-> 0]]

\* Hit, NoAllocateStore and Refill, of the contents d under the configuration c.
WaysWith(st, set, tag) == {w \in WayIndex : st[set][w].valid /\ st[set][w].tag = tag}
WaysFree(st, set) == {w \in WayIndex : ~st[set][w].valid}
WayFor(c, d, set) ==
    IF WaysFree(d.storage, set) # {} THEN FirstWay(WaysFree(d.storage, set))
    ELSE Victim(c.policy, d.replacement[set])
Counted(d, names) == [k \in Decided |-> d.counts[k] + One(k \in names)]
Placed(c, d, set, way, st, names) ==
    [storage |-> st, replacement |-> [d.replacement EXCEPT ![set] = Touch(c.policy, @, way)],
     counts |-> Counted(d, names)]
With(st, set, way, entry) == [st EXCEPT ![set] = [@ EXCEPT ![way] = entry]]

DecideHit(c, d, set, way, dirties) ==
    Placed(c, d, set, way, IF dirties THEN With(d.storage, set, way, [d.storage[set][way] EXCEPT !.dirty = TRUE])
                           ELSE d.storage, {"hits"})
DecideRefill(c, d, set, way, tag, dirties) ==
    Placed(c, d, set, way, With(d.storage, set, way, [tag |-> tag, valid |-> TRUE, dirty |-> dirties]),
           {"misses"} \cup IF WaysFree(d.storage, set) # {} THEN {}
                           ELSE IF d.storage[set][way].dirty THEN {"evictions", "writebacks"}
                           ELSE {"evictions"})
Decide(c, d, rec) ==
    LET set == IndexOf(LineOf(rec.addr))
        tag == TagOf(LineOf(rec.addr))
        dirties == rec.kind = "Store" /\ c.write_policy = "WriteBack"
    IN  IF WaysWith(d.storage, set, tag) # {}
        THEN DecideHit(c, d, set, FirstWay(WaysWith(d.storage, set, tag)), dirties)
        ELSE IF rec.kind = "Store" /\ ~c.write_allocate
        THEN [storage |-> d.storage, replacement |-> d.replacement, counts |-> Counted(d, {"misses"})]
        ELSE DecideRefill(c, d, set, WayFor(c, d, set), tag, dirties)

LEMMA DecidedAreCounters ==
    ASSUME TypeOK
    PROVE  /\ Decided \subseteq Counters
           /\ \A k \in Decided : k \notin {"write_buffer_drains", "write_stalls", "miss_stalls"} /\ t[k] \in Nat
BY DEF TypeOK, Decided, Counters

\* The operators of the model, read off the contents.
LEMMA ReadOffContents ==
    ASSUME NEW set, NEW tag
    PROVE  /\ WaysWith(Decisions.storage, set, tag) = Holders(set, tag)
           /\ WaysFree(Decisions.storage, set) = FreeWays(set)
           /\ WayFor(cfg, Decisions, set) = SlotFor(set)
<1>1. Decisions.storage = storage /\ Decisions.replacement = replacement
  BY DEF Decisions
<1>2. WaysWith(storage, set, tag) = Holders(set, tag) /\ WaysFree(storage, set) = FreeWays(set)
  BY DEF WaysWith, WaysFree, Holders, FreeWays
<1> QED BY <1>1, <1>2 DEF WayFor, SlotFor

LEMMA HitDecides ==
    ASSUME TypeOK, NEW rec \in Record, Hit(rec.kind, rec.addr)
    PROVE  Decisions' = Decide(cfg, Decisions, rec)
<1> DEFINE set == IndexOf(LineOf(rec.addr))
           tag == TagOf(LineOf(rec.addr))
           held == Holders(set, tag)
           dirties == rec.kind = "Store" /\ cfg.write_policy = "WriteBack"
           d == Decisions
<1>1. /\ held # {}
      /\ replacement' = [replacement EXCEPT ![set] = Touch(cfg.policy, @, FirstWay(held))]
      /\ storage' = IF dirties THEN With(storage, set, FirstWay(held), [storage[set][FirstWay(held)] EXCEPT !.dirty = TRUE])
                    ELSE storage
  BY DEF Hit, WriteBack, StorageWith, With
<1>2. \A k \in Decided : t'[k] = t[k] + One(k \in {"hits"})
  <2>1. rec.kind \in Kind /\ rec.addr \in Nat
    BY DEF Record
  <2>2. \A k \in Counters \ {"write_buffer_drains", "write_stalls"} :
          t'[k] = t[k] + One(k \in {"accesses", "hits", IF rec.kind = "Load" THEN "loads" ELSE "stores"})
    BY <2>1, HitCounters
  <2> QED BY <2>2, DecidedAreCounters DEF Decided, One
<1>3. d.storage = storage /\ d.replacement = replacement /\ d.counts = [k \in Decided |-> t[k]]
  BY DEF Decisions
<1>4. [k \in Decided |-> t'[k]] = Counted(d, {"hits"})
  BY <1>2, <1>3 DEF Counted
<1>5. Decide(cfg, d, rec) = DecideHit(cfg, d, set, FirstWay(held), dirties)
  <2>1. WaysWith(d.storage, set, tag) = held
    BY ReadOffContents
  <2> QED BY <1>1, <2>1 DEF Decide
<1>6. Decisions' = [storage |-> storage', replacement |-> replacement', counts |-> [k \in Decided |-> t'[k]]]
  BY DEF Decisions
<1> HIDE DEF set, tag, held, dirties, d
<1> QED BY <1>1, <1>3, <1>4, <1>5, <1>6 DEF DecideHit, Placed, d

LEMMA BypassDecides ==
    ASSUME TypeOK, NEW rec \in Record, NoAllocateStore(rec.kind, rec.addr)
    PROVE  Decisions' = Decide(cfg, Decisions, rec)
<1> DEFINE set == IndexOf(LineOf(rec.addr))
           tag == TagOf(LineOf(rec.addr))
           d == Decisions
<1>1. /\ Holders(set, tag) = {} /\ rec.kind = "Store" /\ ~cfg.write_allocate
      /\ storage' = storage /\ replacement' = replacement
  BY DEF NoAllocateStore
<1>2. \A k \in Decided : t'[k] = t[k] + One(k \in {"misses"})
  <2>1. rec.kind \in Kind /\ rec.addr \in Nat
    BY DEF Record
  <2>2. \A k \in Counters \ {"write_buffer_drains", "write_stalls", "miss_stalls"} :
          t'[k] = t[k] + One(k \in {"accesses", "misses", "stores", "no_allocate_store_misses"})
    BY <2>1, NoAllocateStoreCounters
  <2> QED BY <2>2, DecidedAreCounters DEF Decided, One
<1>3. d.storage = storage /\ d.replacement = replacement /\ d.counts = [k \in Decided |-> t[k]]
  BY DEF Decisions
<1>4. [k \in Decided |-> t'[k]] = Counted(d, {"misses"})
  BY <1>2, <1>3 DEF Counted
<1>5. Decide(cfg, d, rec) = [storage |-> d.storage, replacement |-> d.replacement, counts |-> Counted(d, {"misses"})]
  <2>1. WaysWith(d.storage, set, tag) = {}
    BY <1>1, ReadOffContents
  <2> QED BY <1>1, <2>1 DEF Decide
<1>6. Decisions' = [storage |-> storage', replacement |-> replacement', counts |-> [k \in Decided |-> t'[k]]]
  BY DEF Decisions
<1> HIDE DEF set, tag, d
<1> QED BY <1>1, <1>3, <1>4, <1>5, <1>6 DEF d

LEMMA RefillDecides ==
    ASSUME TypeOK, NEW rec \in Record, Refill(rec.kind, rec.addr)
    PROVE  Decisions' = Decide(cfg, Decisions, rec)
<1> DEFINE line == LineOf(rec.addr)
           set == IndexOf(line)
           tag == TagOf(line)
           slot == SlotFor(set)
           dirties == rec.kind = "Store" /\ cfg.write_policy = "WriteBack"
           d == Decisions
           names == {"misses"} \cup IF FreeWays(set) # {} THEN {}
                                    ELSE IF storage[set][slot].dirty THEN {"evictions", "writebacks"}
                                    ELSE {"evictions"}
<1>1. /\ Holders(set, tag) = {} /\ ~(rec.kind = "Store" /\ ~cfg.write_allocate)
      /\ replacement' = [replacement EXCEPT ![set] = Touch(cfg.policy, @, slot)]
      /\ storage' = With(storage, set, slot, [tag |-> tag, valid |-> TRUE, dirty |-> dirties])
  BY DEF Refill, RefillDirties, WriteBack, StorageWith, With
<1>2. \A k \in Decided : t'[k] = t[k] + One(k \in names)
  <2>1. rec.kind \in Kind /\ rec.addr \in Nat /\ line \in Nat /\ set \in SetIndex
    BY LineOfType, LineCoordinates DEF Record
  <2> DEFINE c == RefillCounters(rec.kind, line, set)
  <2>2. /\ c["hits"] = t["hits"]
        /\ c["misses"] = t["misses"] + 1
        /\ c["evictions"] = t["evictions"] + One(Evicts(set))
        /\ c["writebacks"] = t["writebacks"] + One(WritesBack(set))
    BY <2>1, RefillCountersEffect
  <2>3. \A k \in Counters \ {"write_buffer_drains", "write_stalls"} : t'[k] = c[k]
    BY <2>1, RefillStepCounters
  <2> HIDE DEF c, line, set
  <2>4. One(Evicts(set)) = One("evictions" \in names) /\ One(WritesBack(set)) = One("writebacks" \in names)
    BY DEF Evicts, WritesBack, One
  <2>5. One("hits" \in names) = 0 /\ One("misses" \in names) = 1
    BY DEF One
  <2> HIDE DEF names
  <2> QED BY <2>2, <2>3, <2>4, <2>5, DecidedAreCounters DEF Decided
<1>3. d.storage = storage /\ d.replacement = replacement /\ d.counts = [k \in Decided |-> t[k]]
  BY DEF Decisions
<1>4. [k \in Decided |-> t'[k]] = Counted(d, names)
  <2> HIDE DEF names
  <2> QED BY <1>2, <1>3 DEF Counted
<1>5. Decide(cfg, d, rec) = DecideRefill(cfg, d, set, slot, tag, dirties)
  <2>1. WaysWith(d.storage, set, tag) = {} /\ WayFor(cfg, d, set) = slot
    BY <1>1, ReadOffContents
  <2> QED BY <1>1, <2>1 DEF Decide
<1>6. Decisions' = [storage |-> storage', replacement |-> replacement', counts |-> [k \in Decided |-> t'[k]]]
  BY DEF Decisions
<1>7. WaysFree(d.storage, set) = FreeWays(set)
  BY ReadOffContents
<1> HIDE DEF line, set, tag, slot, dirties, d
<1> QED BY <1>1, <1>3, <1>4, <1>5, <1>6, <1>7 DEF DecideRefill, Placed, d

LEMMA StepDecides ==
    ASSUME TypeOK, NEW rec \in Record, Simulate(rec)
    PROVE  Decisions' = Decide(cfg, Decisions, rec)
BY HitDecides, BypassDecides, RefillDecides DEF Simulate

\* The contents d come of the accesses tr.
Ran(c, tr, d) ==
    \E h : /\ h[0] = NothingDecided
           /\ \A k \in 1 .. Len(tr) : h[k] = Decide(c, h[k - 1], tr[k])
           /\ d = h[Len(tr)]

\* One trace, one outcome.
LEMMA RanUnique ==
    ASSUME NEW c, NEW tr, Len(tr) \in Nat, NEW d, NEW e, Ran(c, tr, d), Ran(c, tr, e)
    PROVE  d = e
<1> DEFINE n == Len(tr)
           D(x, r) == Decide(c, x, r)
<1>1. PICK g : /\ g[0] = NothingDecided
               /\ \A k \in 1 .. n : g[k] = D(g[k - 1], tr[k])
               /\ d = g[n]
  BY DEF Ran
<1>2. PICK h : /\ h[0] = NothingDecided
               /\ \A k \in 1 .. n : h[k] = D(h[k - 1], tr[k])
               /\ e = h[n]
  BY DEF Ran
<1> HIDE DEF D
<1> DEFINE S == {k \in 0 .. n : g[k] # h[k]}
<1>3. S = {}
  <2> SUFFICES ASSUME S # {} PROVE FALSE
    OBVIOUS
  <2>1. PICK m \in S : \A k \in S : m <= k
    <3>1. S \in SUBSET Nat
      OBVIOUS
    <3> HIDE DEF S
    <3> QED BY <3>1, LeastElement
  <2>2. m \in 1 .. n
    BY <1>1, <1>2
  <2>3. m - 1 \in 0 .. n /\ m - 1 \notin S
    BY <2>1, <2>2
  <2>4. g[m - 1] = h[m - 1]
    BY <2>3
  <2> QED BY <1>1, <1>2, <2>1, <2>2, <2>4
<1>4. n \in 0 .. n
  OBVIOUS
<1> QED BY <1>1, <1>2, <1>3, <1>4

LEMMA RanEmpty ==
    ASSUME NEW c, NEW d
    PROVE  Ran(c, <<>>, d) <=> d = NothingDecided
<1>1. Len(<<>>) = 0 /\ 1 .. 0 = {}
  OBVIOUS
<1>2. ASSUME d = NothingDecided PROVE Ran(c, <<>>, d)
  <2> DEFINE h == [k \in {0} |-> NothingDecided]
  <2>1. h[0] = NothingDecided
    OBVIOUS
  <2> HIDE DEF h
  <2> QED BY <1>1, <1>2, <2>1 DEF Ran
<1>3. ASSUME Ran(c, <<>>, d) PROVE d = NothingDecided
  BY <1>1, <1>3 DEF Ran
<1> QED BY <1>2, <1>3

LEMMA RanAppend ==
    ASSUME NEW c, NEW S, NEW tr \in Seq(S), NEW rec \in S, NEW d, Ran(c, tr, d)
    PROVE  Ran(c, Append(tr, rec), Decide(c, d, rec))
<1> DEFINE n == Len(tr)
           more == Append(tr, rec)
           D(x, r) == Decide(c, x, r)
<1>1. PICK g : /\ g[0] = NothingDecided
               /\ \A k \in 1 .. n : g[k] = D(g[k - 1], tr[k])
               /\ d = g[n]
  BY DEF Ran
<1>2. /\ n \in Nat /\ Len(more) = n + 1
      /\ \A k \in 1 .. n : more[k] = tr[k]
      /\ more[n + 1] = rec
  OBVIOUS
<1> HIDE DEF n, D, more
<1> DEFINE h == [k \in 0 .. n + 1 |-> IF k <= n THEN g[k] ELSE D(d, rec)]
<1>3. /\ \A k \in 0 .. n : h[k] = g[k]
      /\ h[n + 1] = D(d, rec)
  BY <1>2
<1> HIDE DEF h
<1>4. h[0] = NothingDecided
  BY <1>1, <1>2, <1>3
<1>5. ASSUME NEW k \in 1 .. n + 1 PROVE h[k] = D(h[k - 1], more[k])
  <2>1. CASE k \in 1 .. n
    <3>1. k \in 0 .. n /\ k - 1 \in 0 .. n
      BY <1>2, <2>1
    <3> QED BY <1>1, <1>2, <1>3, <2>1, <3>1
  <2>2. CASE k = n + 1
    <3>1. k - 1 = n /\ n \in 0 .. n
      BY <1>2, <2>2
    <3> QED BY <1>1, <1>2, <1>3, <2>2, <3>1
  <2> QED BY <1>2, <2>1, <2>2
<1>6. /\ h[0] = NothingDecided
      /\ \A k \in 1 .. Len(more) : h[k] = Decide(c, h[k - 1], more[k])
      /\ Decide(c, d, rec) = h[Len(more)]
  BY <1>2, <1>3, <1>4, <1>5 DEF D
<1> QED BY <1>6 DEF Ran, more

-----------------------------------------------------------------------------
(* No store is lost on its way down.                                       *)

LEMMA DirtyMembers ==
  \A line : line \in DirtyLines <=>
      \E s \in SetIndex, w \in WayIndex :
         storage[s][w].valid /\ storage[s][w].dirty /\ line = LineAt(s, storage[s][w].tag)
<1> SUFFICES ASSUME NEW line
             PROVE  line \in DirtyLines <=>
                      \E s \in SetIndex, w \in WayIndex :
                         storage[s][w].valid /\ storage[s][w].dirty /\ line = LineAt(s, storage[s][w].tag)
  OBVIOUS
<1>1. ASSUME line \in DirtyLines
      PROVE  \E s \in SetIndex, w \in WayIndex :
                storage[s][w].valid /\ storage[s][w].dirty /\ line = LineAt(s, storage[s][w].tag)
  BY <1>1 DEF DirtyLines
<1>2. ASSUME NEW s \in SetIndex, NEW w \in WayIndex, storage[s][w].valid, storage[s][w].dirty
      PROVE  LineAt(s, storage[s][w].tag) \in DirtyLines
  <2>1. <<s, w>> \in {x \in SetIndex \X WayIndex : storage[x[1]][x[2]].valid /\ storage[x[1]][x[2]].dirty}
    BY <1>2
  <2> QED BY <2>1 DEF DirtyLines
<1> QED BY <1>1, <1>2

\* The same of the next state.
DirtyNext(line) ==
    \E s \in SetIndex, w \in WayIndex :
       storage'[s][w].valid /\ storage'[s][w].dirty /\ line = LineAt(s, storage'[s][w].tag)

LEMMA DirtyNextMembers == \A line : line \in DirtyLines' <=> DirtyNext(line)
<1> SUFFICES ASSUME NEW line PROVE line \in DirtyLines' <=> DirtyNext(line)
  OBVIOUS
<1>1. ASSUME line \in DirtyLines' PROVE DirtyNext(line)
  BY <1>1 DEF DirtyLines, DirtyNext
<1>2. ASSUME NEW s \in SetIndex, NEW w \in WayIndex, storage'[s][w].valid, storage'[s][w].dirty
      PROVE  LineAt(s, storage'[s][w].tag) \in DirtyLines'
  <2>1. <<s, w>> \in {x \in SetIndex \X WayIndex : storage'[x[1]][x[2]].valid /\ storage'[x[1]][x[2]].dirty}
    BY <1>2
  <2> QED BY <2>1 DEF DirtyLines
<1> QED BY <1>1, <1>2 DEF DirtyNext

LEMMA StoredMembers ==
  \A records, line : line \in StoredLines(records) <=>
      \E i \in DOMAIN records : records[i].kind = "Store" /\ line = LineOf(records[i].addr)
BY DEF StoredLines

LEMMA StoredOfAppend ==
  ASSUME NEW records \in Seq(Record), NEW rec \in Record, NEW line
  PROVE  line \in StoredLines(Append(records, rec)) <=>
            \/ line \in StoredLines(records)
            \/ rec.kind = "Store" /\ line = LineOf(rec.addr)
<1> DEFINE n == Len(records)
           more == Append(records, rec)
<1> HIDE DEF Record
<1>1. /\ n \in Nat /\ DOMAIN records = 1 .. n /\ DOMAIN more = 1 .. n + 1
      /\ \A i \in 1 .. n : more[i] = records[i]
      /\ more[n + 1] = rec
  OBVIOUS
<1> HIDE DEF n, more
<1>2. ASSUME NEW i \in DOMAIN more, more[i].kind = "Store", line = LineOf(more[i].addr)
      PROVE  line \in StoredLines(records) \/ (rec.kind = "Store" /\ line = LineOf(rec.addr))
  <2>1. CASE i \in 1 .. n
    BY <1>1, <1>2, <2>1, StoredMembers
  <2>2. CASE i = n + 1
    BY <1>1, <1>2, <2>2
  <2> QED BY <1>1, <2>1, <2>2
<1>3. ASSUME NEW i \in DOMAIN records, records[i].kind = "Store", line = LineOf(records[i].addr)
      PROVE  line \in StoredLines(more)
  <2>1. i \in DOMAIN more /\ more[i] = records[i]
    BY <1>1
  <2> QED BY <1>3, <2>1, StoredMembers
<1>4. ASSUME rec.kind = "Store", line = LineOf(rec.addr)
      PROVE  line \in StoredLines(more)
  <2>1. n + 1 \in DOMAIN more
    BY <1>1
  <2> QED BY <1>1, <1>4, <2>1, StoredMembers
<1> QED BY <1>2, <1>3, <1>4, StoredMembers DEF more

LEMMA ForwardStores ==
  ASSUME NEW stream \in Seq(Record), NEW kind \in Kind, NEW addr \in Nat
  PROVE  LET longer == Forward(stream, kind, addr)
         IN  /\ longer \in Seq(Record) /\ Len(longer) >= Len(stream) /\ Len(stream) \in Nat
             /\ MaxRecords > 0 => Len(longer) > 0
             /\ StoredLines(stream) \subseteq StoredLines(longer)
             /\ Len(stream) < MaxRecords /\ kind = "Store" => LineOf(addr) \in StoredLines(longer)
<1> DEFINE rec == [kind |-> kind, addr |-> addr]
           longer == Forward(stream, kind, addr)
<1>1. rec \in Record /\ rec.kind = kind /\ rec.addr = addr
  BY DEF Record
<1>2. longer = IF Len(stream) < MaxRecords THEN Append(stream, rec) ELSE stream
  BY DEF Forward
<1>3. longer \in Seq(Record)
  BY ForwardType
<1> HIDE DEF rec, longer, Record
<1>4. Len(stream) \in Nat /\ Len(Append(stream, rec)) = Len(stream) + 1
  BY <1>1
<1>5. Len(longer) >= Len(stream) /\ (MaxRecords > 0 => Len(longer) > 0)
  BY <1>2, <1>4, DCacheAssumption
<1>6. \A line : line \in StoredLines(Append(stream, rec)) <=>
         line \in StoredLines(stream) \/ (kind = "Store" /\ line = LineOf(addr))
  BY <1>1, StoredOfAppend
<1> QED BY <1>2, <1>3, <1>4, <1>5, <1>6 DEF longer

LEMMA HitDirties ==
  ASSUME TypeOK, NEW kind \in Kind, NEW addr \in Nat, Hit(kind, addr)
  PROVE  /\ DirtyLines \subseteq DirtyLines'
         /\ kind = "Store" /\ WriteBack => LineOf(addr) \in DirtyLines'
<1> DEFINE line == LineOf(addr)
           set == IndexOf(line)
           held == Holders(set, TagOf(line))
           way == FirstWay(held)
           entry == [storage[set][way] EXCEPT !.dirty = TRUE]
<1>1. line \in Nat /\ set \in SetIndex /\ TagOf(line) \in Nat /\ LineAt(set, TagOf(line)) = line
  BY LineOfType, LineCoordinates
<1>2. way \in WayIndex /\ storage[set][way].valid /\ storage[set][way].tag = TagOf(line)
  <2>1. held \in SUBSET WayIndex /\ held # {}
    BY <1>1, HoldersAreWays DEF Hit
  <2>2. way \in held
    BY <2>1, FirstWayInSet
  <2> QED BY <2>2 DEF Holders
<1>3. storage' = IF kind = "Store" /\ WriteBack THEN StorageWith(set, way, entry) ELSE storage
  BY DEF Hit
<1> HIDE DEF line, set, way
<1>4. entry \in Way /\ entry.dirty /\ entry.valid /\ entry.tag = TagOf(line)
  <2>1. storage[set][way] \in Way
    BY <1>1, <1>2 DEF TypeOK
  <2> QED BY <1>2, <2>1 DEF Way
<1> HIDE DEF entry
<1>5. CASE kind = "Store" /\ WriteBack
  <2>1. /\ storage'[set][way] = entry
        /\ \A s \in SetIndex, w \in WayIndex :
             s # set \/ w # way => storage'[s][w] = storage[s][w]
    BY <1>1, <1>2, <1>3, <1>4, <1>5, StorageWithEffect
  <2>2. line \in DirtyLines'
    BY <1>1, <1>2, <1>4, <2>1, DirtyNextMembers DEF DirtyNext
  <2>3. ASSUME NEW s \in SetIndex, NEW w \in WayIndex, storage[s][w].valid, storage[s][w].dirty
        PROVE  LineAt(s, storage[s][w].tag) \in DirtyLines'
    <3>1. CASE s = set /\ w = way
      BY <1>1, <1>2, <2>2, <3>1
    <3>2. CASE s # set \/ w # way
      <4>1. storage'[s][w] = storage[s][w]
        BY <2>1, <3>2
      <4> QED BY <2>3, <4>1, DirtyNextMembers DEF DirtyNext
    <3> QED BY <3>1, <3>2
  <2> QED BY <2>2, <2>3, DirtyMembers DEF line
<1>6. CASE ~(kind = "Store" /\ WriteBack)
  BY <1>3, <1>6, DirtyMembers, DirtyNextMembers DEF DirtyNext
<1> QED BY <1>5, <1>6

LEMMA RefillDirtiesLines ==
  ASSUME TypeOK, NEW kind \in Kind, NEW addr \in Nat, Refill(kind, addr)
  PROVE  LET set == IndexOf(LineOf(addr))
             victim == LineAt(set, storage[set][SlotFor(set)].tag)
         IN  /\ victim \in Nat
             /\ \A line \in DirtyLines : line \in DirtyLines' \/ (WritesBack(set) /\ line = victim)
             /\ kind = "Store" /\ WriteBack => LineOf(addr) \in DirtyLines'
<1> DEFINE line == LineOf(addr)
           set == IndexOf(line)
           slot == SlotFor(set)
           victim == LineAt(set, storage[set][slot].tag)
<1>1. /\ set \in SetIndex /\ slot \in WayIndex /\ line \in Nat
      /\ storage'[set][slot].valid
      /\ storage'[set][slot].tag = TagOf(line)
      /\ storage'[set][slot].dirty = RefillDirties(kind)
      /\ \A s \in SetIndex, w \in WayIndex :
           s # set \/ w # slot => storage'[s][w] = storage[s][w]
  BY RefillStorage
<1>2. LineAt(set, TagOf(line)) = line
  BY <1>1, LineCoordinates
<1>3. Evicts(set) <=> storage[set][slot].valid
  BY <1>1, SlotInUse
<1>4. WritesBack(set) <=> Evicts(set) /\ storage[set][slot].dirty
  BY DEF WritesBack
<1> HIDE DEF line, set, slot
<1>5. victim \in Nat
  <2>1. storage[set][slot].tag \in Nat /\ set \in Nat
    BY <1>1, DCacheAssumption DEF TypeOK, Way, SetIndex
  <2>2. storage[set][slot].tag * Sets \in Nat
    BY <2>1, ProductType, DCacheAssumption
  <2> QED BY <2>1, <2>2 DEF LineAt
<1>6. ASSUME NEW s \in SetIndex, NEW w \in WayIndex, storage[s][w].valid, storage[s][w].dirty
      PROVE  LineAt(s, storage[s][w].tag) \in DirtyLines'
              \/ (WritesBack(set) /\ LineAt(s, storage[s][w].tag) = victim)
  <2>1. CASE s = set /\ w = slot
    BY <1>3, <1>4, <1>6, <2>1
  <2>2. CASE s # set \/ w # slot
    <3>1. storage'[s][w] = storage[s][w]
      BY <1>1, <2>2
    <3> QED BY <1>6, <3>1, DirtyNextMembers DEF DirtyNext
  <2> QED BY <2>1, <2>2
<1>7. kind = "Store" /\ WriteBack => line \in DirtyLines'
  BY <1>1, <1>2, DirtyNextMembers DEF DirtyNext, RefillDirties
<1> HIDE DEF victim
<1>8. \A l \in DirtyLines : l \in DirtyLines' \/ (WritesBack(set) /\ l = victim)
  BY <1>6, DirtyMembers
<1> QED BY <1>5, <1>7, <1>8 DEF line, set, slot, victim

\* Under write-back a store is in a dirty line or went down, until the stream is cut.
StoresKept ==
    \/ ~WriteBack
    \/ Len(miss_stream) >= MaxRecords
    \/ StoredLines(trace) \subseteq DirtyLines \cup StoredLines(miss_stream)

LEMMA StoresKeptStep ==
  ASSUME TypeOK, StoresKept, NEW rec \in Record, Simulate(rec)
  PROVE  StoresKept'
<1> DEFINE line == LineOf(rec.addr)
           stored == rec.kind = "Store"
<1>1. /\ rec.kind \in Kind /\ rec.addr \in Nat
      /\ miss_stream \in Seq(Record) /\ trace \in Seq(Record) /\ Len(miss_stream) \in Nat
      /\ cfg' = cfg /\ trace' = Append(trace, rec)
      /\ WriteBack' = WriteBack
  BY DEF Record, TypeOK, Simulate, WriteBack
<1>2. \A l : l \in StoredLines(trace') <=> l \in StoredLines(trace) \/ (stored /\ l = line)
  BY <1>1, StoredOfAppend
<1>3. SUFFICES ASSUME WriteBack, Len(miss_stream) < MaxRecords,
                      StoredLines(trace) \subseteq DirtyLines \cup StoredLines(miss_stream)
               PROVE  /\ \A l \in StoredLines(trace) :
                            l \in DirtyLines' \/ l \in StoredLines(miss_stream')
                      /\ stored => line \in DirtyLines' \/ line \in StoredLines(miss_stream')
  <2>1. CASE Len(miss_stream) >= MaxRecords
    <3>1. CASE Hit(rec.kind, rec.addr)
      BY <2>1, <3>1 DEF Hit, StoresKept
    <3>2. CASE NoAllocateStore(rec.kind, rec.addr)
      <4>1. miss_stream' = miss_stream
        BY <1>1, <2>1, <3>2, DCacheAssumption DEF NoAllocateStore, Forward
      <4> QED BY <2>1, <4>1 DEF StoresKept
    <3>3. CASE Refill(rec.kind, rec.addr)
      <4>1. miss_stream' = miss_stream
        BY <1>1, <2>1, <3>3, DCacheAssumption DEF Refill, Forward
      <4> QED BY <2>1, <4>1 DEF StoresKept
    <3> QED BY <3>1, <3>2, <3>3 DEF Simulate
  <2>2. CASE ~WriteBack
    BY <1>1, <2>2 DEF StoresKept
  <2>3. CASE WriteBack /\ Len(miss_stream) < MaxRecords
    <3>1. StoredLines(trace) \subseteq DirtyLines \cup StoredLines(miss_stream)
      BY <1>1, <2>3, DCacheAssumption DEF StoresKept
    <3>2. StoredLines(trace') \subseteq DirtyLines' \cup StoredLines(miss_stream')
      BY <1>2, <1>3, <2>3, <3>1
    <3> QED BY <3>2 DEF StoresKept, StoredLines, LineOf
  <2> QED BY <1>1, <2>1, <2>2, <2>3, DCacheAssumption
<1> HIDE DEF line, stored
<1>4. CASE Hit(rec.kind, rec.addr)
  <2>1. miss_stream' = miss_stream
    BY <1>4 DEF Hit
  <2>2. /\ DirtyLines \subseteq DirtyLines'
        /\ stored => line \in DirtyLines'
    BY <1>1, <1>3, <1>4, HitDirties DEF line, stored
  <2> QED BY <1>3, <2>1, <2>2
<1>5. CASE NoAllocateStore(rec.kind, rec.addr)
  <2>1. storage' = storage /\ miss_stream' = Forward(miss_stream, rec.kind, rec.addr)
    BY <1>5 DEF NoAllocateStore
  <2>2. \A l : l \in DirtyLines' <=> l \in DirtyLines
    BY <2>1, DirtyMembers, DirtyNextMembers DEF DirtyNext
  <2>3. /\ StoredLines(miss_stream) \subseteq StoredLines(miss_stream')
        /\ stored => line \in StoredLines(miss_stream')
    BY <1>1, <1>3, <2>1, ForwardStores DEF line, stored
  <2> QED BY <1>3, <2>2, <2>3
<1>6. CASE Refill(rec.kind, rec.addr)
  <2> DEFINE set == IndexOf(LineOf(rec.addr))
             victim == LineAt(set, storage[set][SlotFor(set)].tag)
             down == IF WritesBack(set) THEN Forward(miss_stream, "Store", victim * LineBytes)
                     ELSE miss_stream
  <2>1. miss_stream' = Forward(down, "Load", rec.addr)
    BY <1>6 DEF Refill
  <2>2. /\ victim \in Nat
        /\ \A l \in DirtyLines : l \in DirtyLines' \/ (WritesBack(set) /\ l = victim)
        /\ stored => line \in DirtyLines'
    BY <1>1, <1>3, <1>6, RefillDirtiesLines DEF line, stored
  <2> HIDE DEF victim, set
  <2>3. victim * LineBytes \in Nat /\ LineOf(victim * LineBytes) = victim
    BY <2>2, ProductType, DCacheAssumption DEF LineOf
  <2>4. /\ down \in Seq(Record)
        /\ StoredLines(miss_stream) \subseteq StoredLines(down)
        /\ WritesBack(set) => victim \in StoredLines(down)
    <3>1. "Store" \in Kind
      BY DEF Kind
    <3> QED BY <1>1, <1>3, <2>3, <3>1, ForwardStores
  <2> HIDE DEF down
  <2>5. StoredLines(down) \subseteq StoredLines(miss_stream')
    <3>1. "Load" \in Kind
      BY DEF Kind
    <3> QED BY <1>1, <2>1, <2>4, <3>1, ForwardStores
  <2> QED BY <1>3, <2>2, <2>4, <2>5
<1> QED BY <1>4, <1>5, <1>6 DEF Simulate

\* Some access missed first, and the record of a miss comes first in the stream.
Started ==
    /\ trace # <<>> => t["misses"] > 0
    /\ t["misses"] > 0 /\ MaxRecords > 0 => Len(miss_stream) > 0

\* What holds of a level however its accesses come to it.
LevelInv ==
    /\ SafetyInv
    /\ Started
    /\ StoresKept
    /\ Ran(cfg, trace, Decisions)

LEMMA LevelInit ==
  ASSUME Init
  PROVE  LevelInv
<1>1. trace = <<>> /\ miss_stream = <<>> /\ t = [k \in Counters |-> 0]
  BY DEF Init
<1>2. Started
  BY <1>1 DEF Started, Counters
<1>3. StoresKept
  <2>1. StoredLines(<<>>) = {}
    BY DEF StoredLines
  <2> QED BY <1>1, <2>1 DEF StoresKept
<1>4. Decisions = NothingDecided
  <2>1. Decided \subseteq Counters
    BY DEF Decided, Counters
  <2>2. [k \in Decided |-> t[k]] = [k \in Decided |-> 0]
    BY <1>1, <2>1
  <2> QED BY <2>2 DEF Init, Decisions, NothingDecided
<1>5. Ran(cfg, trace, Decisions)
  BY <1>1, <1>4, RanEmpty
<1> QED BY <1>2, <1>3, <1>5, InitSafety DEF LevelInv

LEMMA StartedStep ==
  ASSUME SafetyInv, Started, NEW rec \in Record, Simulate(rec)
  PROVE  Started'
<1>1. /\ rec.kind \in Kind /\ rec.addr \in Nat /\ TypeOK
      /\ miss_stream \in Seq(Record) /\ trace \in Seq(Record)
      /\ trace' = Append(trace, rec) /\ cfg' = cfg
  BY DEF Record, TypeOK, Simulate, SafetyInv
<1>2. "misses" \in Counters \ {"write_buffer_drains", "write_stalls", "miss_stalls"} /\ t["misses"] \in Nat
  BY <1>1 DEF TypeOK, Counters
<1>3. Forward(miss_stream, "Load", rec.addr) \in Seq(Record)
  BY <1>1, ForwardType DEF Kind
<1>4. CASE Hit(rec.kind, rec.addr)
  <2>1. t["misses"] > 0
    <3> DEFINE line == LineOf(rec.addr)
               set == IndexOf(line)
    <3>1. line \in Nat /\ set \in SetIndex /\ TagOf(line) \in Nat
      BY <1>1, LineOfType, LineCoordinates
    <3>2. Holders(set, TagOf(line)) # {}
      BY <1>4 DEF Hit
    <3>3. PICK way \in WayIndex : storage[set][way].valid
      BY <3>2 DEF Holders
    <3>4. LineAt(set, storage[set][way].tag) \in seen_lines
      BY <3>1, <3>3, LinesInMembers DEF ResidentLines, SafetyInv, Safety, CompulsoryOncePerLine
    <3>5. Cardinality(seen_lines) \in Nat /\ Cardinality(seen_lines) # 0
      BY <3>4, FS_CardinalityType, FS_EmptySet DEF SafetyInv
    <3>6. t["compulsory_misses"] = Cardinality(seen_lines)
      BY DEF SafetyInv, Safety, CompulsoryOncePerLine
    <3>7. \A k \in {"compulsory_misses", "conflict_misses", "capacity_misses", "no_allocate_store_misses"} : t[k] \in Nat
      BY <1>1 DEF TypeOK, Counters
    <3>8. t["misses"] = t["compulsory_misses"] + t["conflict_misses"] + t["capacity_misses"]
                        + t["no_allocate_store_misses"]
      BY DEF SafetyInv, Safety, MissesClassified
    <3> QED BY <3>5, <3>6, <3>7, <3>8
  <2>2. t'["misses"] = t["misses"]
    <3>1. \A k \in Counters \ {"write_buffer_drains", "write_stalls"} :
            t'[k] = t[k] + One(k \in {"accesses", "hits", IF rec.kind = "Load" THEN "loads" ELSE "stores"})
      BY <1>1, <1>4, HitCounters
    <3>2. t'["misses"] = t["misses"] + 0
      BY <1>2, <3>1 DEF One
    <3> QED BY <1>2, <3>2
  <2>3. miss_stream' = miss_stream
    BY <1>4 DEF Hit
  <2> QED BY <2>1, <2>2, <2>3 DEF Started
<1>5. CASE NoAllocateStore(rec.kind, rec.addr)
  <2>1. t'["misses"] = t["misses"] + 1
    BY <1>1, <1>2, <1>5, NoAllocateStoreCounters DEF One
  <2>2. MaxRecords > 0 => Len(miss_stream') > 0
    BY <1>1, <1>5, ForwardStores DEF NoAllocateStore
  <2> QED BY <1>2, <2>1, <2>2 DEF Started
<1>6. CASE Refill(rec.kind, rec.addr)
  <2> DEFINE set == IndexOf(LineOf(rec.addr))
             c == RefillCounters(rec.kind, LineOf(rec.addr), set)
  <2>1. LineOf(rec.addr) \in Nat /\ set \in SetIndex
    BY <1>1, LineOfType, LineCoordinates
  <2>2. c["misses"] = t["misses"] + 1
    BY <1>1, <2>1, RefillCountersEffect
  <2>3. t'["misses"] = c["misses"]
    BY <1>1, <1>2, <1>6, RefillStepCounters
  <2>4. PICK down : down \in Seq(Record) /\ miss_stream' = Forward(down, "Load", rec.addr)
    <3> DEFINE victim_addr == LineAt(set, storage[set][SlotFor(set)].tag) * LineBytes
    <3>1. victim_addr \in Nat
      <4>1. LineAt(set, storage[set][SlotFor(set)].tag) \in Nat
        BY <1>1, <1>6, RefillDirtiesLines
      <4> HIDE DEF set
      <4> QED BY <4>1, ProductType, DCacheAssumption
    <3>2. miss_stream' = Forward(IF WritesBack(set) THEN Forward(miss_stream, "Store", victim_addr)
                                 ELSE miss_stream, "Load", rec.addr)
      BY <1>6 DEF Refill
    <3> HIDE DEF victim_addr, set
    <3>3. Forward(miss_stream, "Store", victim_addr) \in Seq(Record)
      BY <1>1, <3>1, ForwardType DEF Kind
    <3> QED BY <1>1, <3>2, <3>3
  <2>5. MaxRecords > 0 => Len(miss_stream') > 0
    BY <1>1, <2>4, ForwardStores DEF Kind
  <2> QED BY <1>2, <2>2, <2>3, <2>5 DEF Started
<1> QED BY <1>4, <1>5, <1>6 DEF Simulate

LEMMA LevelStep ==
  ASSUME LevelInv, NEW rec \in Record, Simulate(rec)
  PROVE  LevelInv'
<1>1. TypeOK /\ SafetyInv' /\ Started' /\ StoresKept'
  BY SimulateKeepsSafety, StartedStep, StoresKeptStep DEF LevelInv, SafetyInv
<1>2. /\ Decisions' = Decide(cfg, Decisions, rec)
      /\ cfg' = cfg /\ trace' = Append(trace, rec) /\ trace \in Seq(Record)
  BY <1>1, StepDecides DEF Simulate, TypeOK
<1>3. Ran(cfg, Append(trace, rec), Decide(cfg, Decisions, rec))
  <2> HIDE DEF Record
  <2> QED BY <1>2, RanAppend DEF LevelInv
<1>4. Ran(cfg, trace, Decisions)'
  BY <1>2, <1>3
<1> QED BY <1>1, <1>4 DEF LevelInv

LEMMA LevelStutter ==
  ASSUME LevelInv, UNCHANGED vars
  PROVE  LevelInv'
<1>1. SafetyInv'
  BY StutterKeepsSafety DEF LevelInv
<1>2. cfg' = cfg /\ trace' = trace /\ storage' = storage /\ replacement' = replacement
      /\ t' = t /\ miss_stream' = miss_stream
  BY DEF vars
<1>3. Started'
  BY <1>2 DEF LevelInv, Started
<1>4. StoresKept'
  <2>1. DirtyLines' = DirtyLines
    BY <1>2, DirtyMembers, DirtyNextMembers DEF DirtyNext
  <2>2. StoresKept
    BY DEF LevelInv
  <2> QED BY <1>2, <2>1, <2>2 DEF StoresKept, WriteBack, StoredLines, LineOf
<1>5. Ran(cfg, trace, Decisions)'
  <2>1. Decisions' = Decisions
    BY <1>2 DEF Decisions
  <2> QED BY <1>2, <2>1 DEF LevelInv
<1> QED BY <1>1, <1>3, <1>4, <1>5 DEF LevelInv
=============================================================================
