----------------------------- MODULE Hierarchy -----------------------------
(***************************************************************************)
(* The L1+L2 data cache component: simulate_hierarchy                      *)
(* (src/component/dcache/implementations/l1l2_cache.cpp), three calls of   *)
(* simulate_dcache one after the other.                                    *)
(*   "l1"        L1 simulates the trace for free, recording its traffic;   *)
(*   "l2"        L2 simulates the recorded traffic;                        *)
(*   "baseline"  L1 alone simulates the trace again, paying DRAM;          *)
(*   "done"      the totals are compared.                                  *)
(* Each call is an instance of DCache with variables of its own, whose type *)
(* invariant is that of DCache.                                            *)
(***************************************************************************)
EXTENDS Naturals, Sequences

CONSTANTS L1Sets, L1Ways, L1LineBytes, L1HitLatency,
          L2Sets, L2Ways, L2LineBytes, L2HitLatency,
          DramPenalty,   \* l2.miss_penalty
          LevelConfig,   \* policy, write policy and allocation of both levels
          MaxRecords, Accesses, MaxAccesses

VARIABLES phase,
          l1_cfg, l1_trace, l1_storage, l1_replacement, l1_seen_lines,
          l1_pending_writes, l1_t, l1_miss_stream,
          l2_cfg, l2_trace, l2_storage, l2_replacement, l2_seen_lines,
          l2_pending_writes, l2_t, l2_miss_stream,
          base_cfg, base_trace, base_storage, base_replacement, base_seen_lines,
          base_pending_writes, base_t, base_miss_stream

l1_vars == <<l1_cfg, l1_trace, l1_storage, l1_replacement, l1_seen_lines, l1_pending_writes, l1_t, l1_miss_stream>>
l2_vars == <<l2_cfg, l2_trace, l2_storage, l2_replacement, l2_seen_lines, l2_pending_writes, l2_t, l2_miss_stream>>
base_vars == <<base_cfg, base_trace, base_storage, base_replacement, base_seen_lines, base_pending_writes, base_t, base_miss_stream>>
vars == <<phase, l1_vars, l2_vars, base_vars>>

\* The chained L1 pays its hits only.
L1 == INSTANCE DCache WITH
    Sets <- L1Sets, Ways <- L1Ways, LineBytes <- L1LineBytes,
    HitLatency <- L1HitLatency, MissPenalty <- 0, BufferDepth <- 4,
    Configs <- {LevelConfig}, cfg <- l1_cfg, trace <- l1_trace,
    storage <- l1_storage, replacement <- l1_replacement,
    seen_lines <- l1_seen_lines, pending_writes <- l1_pending_writes,
    t <- l1_t, miss_stream <- l1_miss_stream

L2 == INSTANCE DCache WITH
    Sets <- L2Sets, Ways <- L2Ways, LineBytes <- L2LineBytes,
    HitLatency <- L2HitLatency, MissPenalty <- DramPenalty,
    BufferDepth <- 4, Configs <- {LevelConfig}, cfg <- l2_cfg,
    trace <- l2_trace, storage <- l2_storage, replacement <- l2_replacement,
    seen_lines <- l2_seen_lines, pending_writes <- l2_pending_writes,
    t <- l2_t, miss_stream <- l2_miss_stream

\* The baseline: the same L1, every refill and write-back paying DRAM.
Base == INSTANCE DCache WITH
    Sets <- L1Sets, Ways <- L1Ways, LineBytes <- L1LineBytes,
    HitLatency <- L1HitLatency, MissPenalty <- DramPenalty,
    BufferDepth <- 4, Configs <- {LevelConfig}, cfg <- base_cfg,
    trace <- base_trace, storage <- base_storage,
    replacement <- base_replacement, seen_lines <- base_seen_lines,
    pending_writes <- base_pending_writes, t <- base_t,
    miss_stream <- base_miss_stream

\* The tunables accept no geometry below 1 (l1l2_cache.cpp:32-54), no tunable changes the
\* policy from LRU (dcache.hpp:30), both levels write back (l1l2_cache.cpp:145, 153) and a
\* recorded stream has room for a record (dcache_stats.hpp:25).
ASSUME HierarchyAssumption ==
    /\ L1Sets \in Nat \ {0} /\ L1Ways \in Nat \ {0} /\ L1LineBytes \in Nat \ {0}
    /\ L2Sets \in Nat \ {0} /\ L2Ways \in Nat \ {0} /\ L2LineBytes \in Nat \ {0}
    /\ L1HitLatency \in Nat /\ L2HitLatency \in Nat /\ DramPenalty \in Nat
    /\ MaxRecords \in Nat \ {0} /\ MaxAccesses \in Nat
    /\ Accesses \subseteq L1!Record
    /\ LevelConfig \in L1!Config
    /\ LevelConfig.policy # "PLRU"
    /\ LevelConfig.write_policy = "WriteBack"

Init ==
    /\ phase = "l1"
    /\ L1!Init /\ L2!Init /\ Base!Init

ChainL1 ==
    /\ phase = "l1"
    /\ Len(l1_trace) < MaxAccesses
    /\ \E rec \in Accesses : L1!Simulate(rec)
    /\ UNCHANGED <<phase, l2_vars, base_vars>>

\* The trace of the run ends; its traffic becomes the trace of L2.
ChainL2 ==
    /\ \/ phase = "l1"
       \/ phase = "l2"
    /\ Len(l2_trace) < Len(l1_miss_stream)
    /\ L2!Simulate(l1_miss_stream[Len(l2_trace) + 1])
    /\ phase' = "l2"
    /\ UNCHANGED <<l1_vars, base_vars>>

\* Mutant of BaselineInput: the baseline is fed the filtered traffic.
FilteredInput == l1_miss_stream

\* The baseline simulates the same trace as the chained L1 did.
BaselineInput == l1_trace

Baseline ==
    /\ \/ phase = "l2" /\ Len(l2_trace) = Len(l1_miss_stream)
       \/ phase = "baseline"
    /\ Len(base_trace) < Len(BaselineInput)
    /\ Base!Simulate(BaselineInput[Len(base_trace) + 1])
    /\ phase' = "baseline"
    /\ UNCHANGED <<l1_vars, l2_vars>>

\* Every call has consumed its trace; an empty run goes here directly.
Finish ==
    /\ phase # "done"
    /\ Len(l2_trace) = Len(l1_miss_stream)
    /\ Len(base_trace) = Len(BaselineInput)
    /\ phase' = "done"
    /\ UNCHANGED <<l1_vars, l2_vars, base_vars>>

Next == ChainL1 \/ ChainL2 \/ Baseline \/ Finish

Spec == Init /\ [][Next]_vars

TotalCycles == L1!TotalCycles + L2!TotalCycles
BaselineCycles == Base!TotalCycles

-----------------------------------------------------------------------------
\* ComparisonHolds: the comparison compares like with like: alone, L1 takes the
\* same decisions as in the chain, and the price of its traffic is all that
\* differs; and where there is something to save, the total to divide by is not
\* zero (l1l2_cache.cpp:113-115, 131-133, 191-194, 223-226).
BaselineTakesSameDecisions ==
    /\ base_storage = l1_storage
    /\ \A k \in {"hits", "misses", "evictions", "writebacks"} : base_t[k] = l1_t[k]
    /\ BaselineCycles = L1!TotalCycles + (l1_t["misses"] + l1_t["writebacks"]) * DramPenalty
SpeedupDefined == BaselineCycles # 0 => TotalCycles # 0
ComparisonHolds == phase = "done" => BaselineTakesSameDecisions /\ SpeedupDefined

\* Every store the program made has a dirty copy in L1 or in L2, or has been
\* written back to DRAM, unless a recorded stream was cut at its cap.
EveryStoreKept ==
    \A i \in DOMAIN l1_trace :
        l1_trace[i].kind = "Store" =>
            \/ L1!LineOf(l1_trace[i].addr) \in L1!DirtyLines
            \/ L2!LineOf(l1_trace[i].addr) \in L2!DirtyLines \cup L2!StoredLines(l2_miss_stream)
NothingCut == Len(l1_miss_stream) < MaxRecords /\ Len(l2_miss_stream) < MaxRecords

\* StoresSurvive: neither level drops a dirty line on its way down, provided that an
\* L1 line lies inside one L2 line: its write-back is one record (dcache.cpp:60-69).
StoresSurvive ==
    phase = "done" /\ NothingCut /\ L2LineBytes % L1LineBytes = 0 => EveryStoreKept
=============================================================================
