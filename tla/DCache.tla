------------------------------- MODULE DCache -------------------------------
(***************************************************************************)
(* One level of the data cache: simulate_dcache                            *)
(* (src/component/dcache/dcache.cpp).  The C++ function walks a recorded   *)
(* access trace; here the trace is grown one nondeterministic access at a  *)
(* time, so that TLC visits the simulation of every trace of at most       *)
(* MaxAccesses accesses.  One step of Next is one iteration of the main    *)
(* loop.                                                                   *)
(*                                                                         *)
(* cfg is the part of DCacheConfig that selects a behaviour; the geometry  *)
(* and the latencies are constants.  An invalid geometry or buffer depth   *)
(* makes the function return an empty result at once: the assumptions on   *)
(* the constants leave those calls out.                                    *)
(***************************************************************************)
EXTENDS Replacement, Sequences, FiniteSets

CONSTANTS Sets,          \* sets >= 1; 1 is a fully associative cache
          LineBytes,     \* line_size
          BufferDepth,   \* write_buffer_depth
          HitLatency, MissPenalty,
          MaxRecords,    \* DCacheStats::kMaxRecords, the cap of a recorded stream
          Configs,       \* configurations to explore, a subset of Config
          Accesses,      \* access records a trace may hold, a subset of Record
          MaxAccesses    \* bound: accesses in a trace

Kind == {"Load", "Store"}
Record == [kind : Kind, addr : Nat]

Config == [policy : Policy,
           write_policy : {"WriteBack", "WriteThrough"},
           write_allocate : BOOLEAN]

ASSUME DCacheAssumption ==
    /\ Sets \in Nat \ {0}
    /\ LineBytes \in Nat \ {0}
    /\ BufferDepth \in Nat \ {0}
    /\ HitLatency \in Nat
    /\ MissPenalty \in Nat
    /\ MaxRecords \in Nat
    /\ MaxAccesses \in Nat
    /\ Configs \subseteq Config
    /\ Accesses \subseteq Record
    /\ (\E c \in Configs : c.policy = "PLRU") => PowerOfTwo(Ways)

VARIABLES cfg,             \* the configuration being simulated
          trace,           \* the access records consumed so far
          storage,         \* per set and way: tag, valid, dirty
          replacement,     \* per set: its ReplacementState
          seen_lines,      \* lines that have ever been resident
          pending_writes,  \* stores waiting in the write buffer
          t,               \* the counters of DCacheResult
          miss_stream      \* records forwarded to the next level

vars == <<cfg, trace, storage, replacement, seen_lines, pending_writes, t, miss_stream>>

SetIndex == 0 .. Sets - 1
Way == [tag : Nat, valid : BOOLEAN, dirty : BOOLEAN]

LineOf(addr) == addr \div LineBytes
IndexOf(line) == line % Sets
TagOf(line) == line \div Sets
LineAt(set, tag) == tag * Sets + set

\* Mutant of Holders: the search stops one way early.
HoldersButLast(set, tag) ==
    {w \in 0 .. Ways - 2 : storage[set][w].valid /\ storage[set][w].tag = tag}

\* The ways of a set that hold a tag; find_way returns the first of them.
Holders(set, tag) == {w \in WayIndex : storage[set][w].valid /\ storage[set][w].tag = tag}
FirstWay(S) == CHOOSE w \in S : \A v \in S : w <= v

\* storage with one way replaced.
StorageWith(set, way, entry) == [storage EXCEPT ![set] = [@ EXCEPT ![way] = entry]]

LinesIn(st) ==
    {LineAt(sw[1], st[sw[1]][sw[2]].tag) :
        sw \in {x \in SetIndex \X WayIndex : st[x[1]][x[2]].valid}}
ResidentLines == LinesIn(storage)

WriteBack == cfg.write_policy = "WriteBack"

-----------------------------------------------------------------------------
(* The counters.                                                           *)

Counters == {"accesses", "loads", "stores", "hits", "misses",
             "compulsory_misses", "conflict_misses", "capacity_misses",
             "no_allocate_store_misses", "evictions", "writebacks",
             "miss_stalls", "write_stalls", "write_buffer_drains",
             "writeback_stalls"}

\* c with every counter k raised by by[k].
Raise(c, by) == [k \in Counters |-> IF k \in DOMAIN by THEN c[k] + by[k] ELSE c[k]]

\* 1 if the condition holds, else 0.
One(condition) == IF condition THEN 1 ELSE 0

CountAccess(kind, outcome) ==
    Raise(t, [k \in {"accesses", outcome, IF kind = "Load" THEN "loads" ELSE "stores"} |-> 1])

\* Mutant of Drains: one store too late.
DrainsLate(buffered) == buffered /\ pending_writes + 1 > BufferDepth

\* buffer_store: the store that fills the buffer pays one memory transaction.
Drains(buffered) == buffered /\ pending_writes + 1 >= BufferDepth

CountBuffered(c, buffered) ==
    Raise(c, [write_buffer_drains |-> One(Drains(buffered)),
              write_stalls |-> One(Drains(buffered)) * MissPenalty])

BufferStore(buffered) ==
    pending_writes' = IF Drains(buffered) THEN 0 ELSE pending_writes + One(buffered)

\* Mutant of Forward: the cap is one record too small.
ForwardBelowCap(stream, kind, addr) ==
    IF Len(stream) + 1 < MaxRecords
    THEN Append(stream, [kind |-> kind, addr |-> addr])
    ELSE stream

\* DCacheStats::record on the miss stream: records past the cap are dropped.
Forward(stream, kind, addr) ==
    IF Len(stream) < MaxRecords
    THEN Append(stream, [kind |-> kind, addr |-> addr])
    ELSE stream

-----------------------------------------------------------------------------
Init ==
    /\ cfg \in Configs
    /\ trace = <<>>
    /\ storage = [s \in SetIndex |->
                    [w \in WayIndex |-> [tag |-> 0, valid |-> FALSE, dirty |-> FALSE]]]
    /\ replacement = [s \in SetIndex |-> NewReplacement]
    /\ seen_lines = {}
    /\ pending_writes = 0
    /\ t = [k \in Counters |-> 0]
    /\ miss_stream = <<>>

\* The access finds its line.
Hit(kind, addr) ==
    LET set == IndexOf(LineOf(addr))
        held == Holders(set, TagOf(LineOf(addr)))
        way == FirstWay(held)
        buffered == kind = "Store" /\ ~WriteBack
    IN  /\ held # {}
        /\ replacement' = [replacement EXCEPT ![set] = Touch(cfg.policy, @, way)]
        /\ storage' = IF kind = "Store" /\ WriteBack
                      THEN StorageWith(set, way, [storage[set][way] EXCEPT !.dirty = TRUE])
                      ELSE storage
        /\ BufferStore(buffered)
        /\ t' = CountBuffered(CountAccess(kind, "hits"), buffered)
        /\ UNCHANGED <<seen_lines, miss_stream>>

\* A store miss the policy declines to allocate goes straight down.
NoAllocateStore(kind, addr) ==
    LET buffered == ~WriteBack
        counted == Raise(CountAccess(kind, "misses"),
                         [no_allocate_store_misses |-> 1,
                          miss_stalls |-> One(~buffered) * MissPenalty])
    IN  /\ Holders(IndexOf(LineOf(addr)), TagOf(LineOf(addr))) = {}
        /\ kind = "Store"
        /\ ~cfg.write_allocate
        /\ BufferStore(buffered)
        /\ t' = CountBuffered(counted, buffered)
        /\ miss_stream' = Forward(miss_stream, kind, addr)
        /\ UNCHANGED <<storage, replacement, seen_lines>>

\* The first free way, or the victim of a full set.
FreeWays(set) == {w \in WayIndex : ~storage[set][w].valid}
SlotFor(set) ==
    IF FreeWays(set) # {} THEN FirstWay(FreeWays(set))
    ELSE Victim(cfg.policy, replacement[set])

\* Mutant of Evicts: filling the last free way counts as an eviction.
EvictsEarly(set) == Cardinality(FreeWays(set)) <= 1

\* The refill displaces a line; does that line have to be written back?
Evicts(set) == FreeWays(set) = {}

\* Mutant of WritesBack: a dirty victim is dropped.
WritesBackNever(set) == FALSE

WritesBack(set) == Evicts(set) /\ storage[set][SlotFor(set)].dirty

\* Mutant of MissKind: an evicted line is forgotten.
MissKindForgetful(line) == IF line \notin ResidentLines THEN "compulsory_misses"
                           ELSE IF Sets > 1 THEN "conflict_misses"
                           ELSE "capacity_misses"

MissKind(line) == IF line \notin seen_lines THEN "compulsory_misses"
                  ELSE IF Sets > 1 THEN "conflict_misses"
                  ELSE "capacity_misses"

\* A refilled line is dirty at once when the store that missed is written back later.
RefillDirties(kind) == kind = "Store" /\ WriteBack

\* A miss that brings its line in: any load, or a store under write-allocate.
Refill(kind, addr) ==
    LET line == LineOf(addr)
        set == IndexOf(line)
        slot == SlotFor(set)
        buffered == kind = "Store" /\ ~WriteBack
        counted == Raise(Raise(CountAccess(kind, "misses"), [k \in {MissKind(line)} |-> 1]),
                         [evictions |-> One(Evicts(set)),
                          writebacks |-> One(WritesBack(set)),
                          miss_stalls |-> MissPenalty,
                          writeback_stalls |-> One(WritesBack(set)) * MissPenalty])
        victim_addr == LineAt(set, storage[set][slot].tag) * LineBytes
        written_back == IF WritesBack(set)
                        THEN Forward(miss_stream, "Store", victim_addr) ELSE miss_stream
    IN  /\ Holders(set, TagOf(line)) = {}
        /\ kind = "Load" \/ cfg.write_allocate
        /\ storage' = StorageWith(set, slot, [tag |-> TagOf(line), valid |-> TRUE,
                                              dirty |-> RefillDirties(kind)])
        /\ replacement' = [replacement EXCEPT ![set] = Touch(cfg.policy, @, slot)]
        /\ seen_lines' = seen_lines \cup {line}
        /\ BufferStore(buffered)
        /\ t' = CountBuffered(counted, buffered)
        /\ miss_stream' = Forward(written_back, "Load", addr)

\* One iteration of the loop over trace.records.
Simulate(rec) ==
    /\ \/ Hit(rec.kind, rec.addr)
       \/ NoAllocateStore(rec.kind, rec.addr)
       \/ Refill(rec.kind, rec.addr)
    /\ trace' = Append(trace, rec)
    /\ cfg' = cfg

Next == \E rec \in Accesses : Len(trace) < MaxAccesses /\ Simulate(rec)

Spec == Init /\ [][Next]_vars

\* The cycles of the level, and of a system with no data cache at all.
TotalCycles == t["hits"] * HitLatency + t["miss_stalls"] + t["write_stalls"] + t["writeback_stalls"]
BaselineCycles == t["accesses"] * MissPenalty

-----------------------------------------------------------------------------
(* Correctness.                                                            *)

\* Every variable keeps its type; in particular every victim is a way of its
\* set, so storage is never indexed out of bounds (dcache.cpp:57-71).
TypeOK ==
    /\ cfg \in Config
    /\ trace \in Seq(Record)
    /\ storage \in [SetIndex -> [WayIndex -> Way]]
    /\ replacement \in [SetIndex -> ReplacementState]
    /\ seen_lines \subseteq Nat
    /\ pending_writes \in Nat
    /\ t \in [Counters -> Nat]
    /\ miss_stream \in Seq(Record)

\* A line is resident in at most one way: find_way may stop at the first
\* match, and a store dirties the only copy (dcache.cpp:35-41, 107, 154).
NoDuplicateLines ==
    \A s \in SetIndex : \A v, w \in WayIndex :
        storage[s][v].valid /\ storage[s][w].valid /\ storage[s][v].tag = storage[s][w].tag
            => v = w

\* SetsSound: no way lies outside its set and no set holds a line twice, so that the
\* way a hit or an eviction picks is all there is of its line.
SetsSound == TypeOK /\ NoDuplicateLines

\* Every access is a hit or a miss, every miss has exactly one cause, and a line
\* misses compulsorily once, the first time it is brought in, however often it
\* is evicted and fetched again (dcache.hpp:40-48, dcache.cpp:142-144).
MissesClassified ==
    /\ t["accesses"] = t["hits"] + t["misses"]
    /\ t["accesses"] = t["loads"] + t["stores"]
    /\ t["misses"] = t["compulsory_misses"] + t["conflict_misses"] + t["capacity_misses"]
                    + t["no_allocate_store_misses"]
    /\ Sets = 1 => t["conflict_misses"] = 0
    /\ Sets > 1 => t["capacity_misses"] = 0
    /\ cfg.write_allocate => t["no_allocate_store_misses"] = 0
CompulsoryOncePerLine ==
    /\ ResidentLines \subseteq seen_lines
    /\ t["compulsory_misses"] = Cardinality(seen_lines)
MissesExplained == MissesClassified /\ CompulsoryOncePerLine

\* Lines are conserved: what was brought in is resident or was evicted
\* (dcache.cpp:46-73).
RefillsConserved ==
    t["misses"] - t["no_allocate_store_misses"]
        = t["evictions"] + Cardinality(ResidentLines)

\* The stall cycles are the sums of the documented prices of the events.  Under
\* write-through every store passes through the write buffer, hit or miss,
\* allocated or not, and the buffer never holds a full transaction between
\* accesses; under write-back nothing does (dcache.hpp:45-48, 61-64,
\* dcache.cpp:75-87).
StallsPriced ==
    /\ t["miss_stalls"] =
         (t["misses"] - (IF WriteBack THEN 0 ELSE t["no_allocate_store_misses"])) * MissPenalty
    /\ t["write_stalls"] = t["write_buffer_drains"] * MissPenalty
    /\ t["writeback_stalls"] = t["writebacks"] * MissPenalty
StoresBuffered ==
    IF WriteBack
    THEN pending_writes = 0 /\ t["write_buffer_drains"] = 0
    ELSE /\ t["stores"] = t["write_buffer_drains"] * BufferDepth + pending_writes
         /\ pending_writes < BufferDepth
StallsExplained == StallsPriced /\ StoresBuffered

\* The lines a level still has to write back, and those a list of records stores to.
DirtyLines ==
    {LineAt(sw[1], storage[sw[1]][sw[2]].tag) :
        sw \in {x \in SetIndex \X WayIndex : storage[x[1]][x[2]].valid /\ storage[x[1]][x[2]].dirty}}
StoredLines(records) ==
    {LineOf(records[i].addr) : i \in {j \in DOMAIN records : records[j].kind = "Store"}}

\* The next level is told of every refill, direct write and write-back
\* (dcache.hpp:73-76), up to the cap of a recorded stream.
Forwarded(kind) == Cardinality({i \in DOMAIN miss_stream : miss_stream[i].kind = kind})
ForwardsComplete ==
    /\ Len(miss_stream) <= MaxRecords
    /\ t["misses"] + t["writebacks"] <= MaxRecords =>
         /\ Forwarded("Load") = t["misses"] - t["no_allocate_store_misses"]
         /\ Forwarded("Store") = t["no_allocate_store_misses"] + t["writebacks"]
=============================================================================
