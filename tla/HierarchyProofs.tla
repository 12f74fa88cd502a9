--------------------------- MODULE HierarchyProofs ---------------------------
(***************************************************************************)
(* Theorems about Hierarchy, for every geometry, latency and trace.  Each  *)
(* of the three calls is a level in the sense of DCacheProofs, whose       *)
(* LevelInv holds of it whatever accesses it is given: P1, P2 and PB are   *)
(* that module for the chained L1, for L2 and for the baseline.            *)
(***************************************************************************)
EXTENDS Hierarchy, TLAPS

P1 == INSTANCE DCacheProofs WITH
    Sets <- L1Sets, Ways <- L1Ways, LineBytes <- L1LineBytes,
    HitLatency <- L1HitLatency, MissPenalty <- 0, BufferDepth <- 4,
    Configs <- {LevelConfig}, cfg <- l1_cfg, trace <- l1_trace,
    storage <- l1_storage, replacement <- l1_replacement,
    seen_lines <- l1_seen_lines, pending_writes <- l1_pending_writes,
    t <- l1_t, miss_stream <- l1_miss_stream,
    Value <- {}, InitialValues <- {}, data <- 0, below <- 0, result <- 0

P2 == INSTANCE DCacheProofs WITH
    Sets <- L2Sets, Ways <- L2Ways, LineBytes <- L2LineBytes,
    HitLatency <- L2HitLatency, MissPenalty <- DramPenalty, BufferDepth <- 4,
    Configs <- {LevelConfig}, cfg <- l2_cfg, trace <- l2_trace,
    storage <- l2_storage, replacement <- l2_replacement,
    seen_lines <- l2_seen_lines, pending_writes <- l2_pending_writes,
    t <- l2_t, miss_stream <- l2_miss_stream,
    Value <- {}, InitialValues <- {}, data <- 0, below <- 0, result <- 0

PB == INSTANCE DCacheProofs WITH
    Sets <- L1Sets, Ways <- L1Ways, LineBytes <- L1LineBytes,
    HitLatency <- L1HitLatency, MissPenalty <- DramPenalty, BufferDepth <- 4,
    Configs <- {LevelConfig}, cfg <- base_cfg, trace <- base_trace,
    storage <- base_storage, replacement <- base_replacement,
    seen_lines <- base_seen_lines, pending_writes <- base_pending_writes,
    t <- base_t, miss_stream <- base_miss_stream,
    Value <- {}, InitialValues <- {}, data <- 0, below <- 0, result <- 0

-----------------------------------------------------------------------------
(* The levels of the module are the levels of those theorems.              *)

LEMMA SameRecords ==
  /\ P1!Record = L1!Record /\ P2!Record = L1!Record /\ PB!Record = L1!Record
  /\ P1!Config = L1!Config /\ P2!Config = L1!Config /\ PB!Config = L1!Config
BY DEF P1!Record, P2!Record, PB!Record, L1!Record, P1!Kind, P2!Kind, PB!Kind, L1!Kind,
       P1!Config, P2!Config, PB!Config, L1!Config, P1!Policy, P2!Policy, PB!Policy, L1!Policy

LEMMA LevelsAssumed ==
  /\ P1!WaysAssumption /\ P1!DCacheAssumption /\ P1!ValueAssumption
  /\ P2!WaysAssumption /\ P2!DCacheAssumption /\ P2!ValueAssumption
  /\ PB!WaysAssumption /\ PB!DCacheAssumption /\ PB!ValueAssumption
BY HierarchyAssumption, SameRecords
   DEF P1!WaysAssumption, P1!DCacheAssumption, P1!ValueAssumption,
       P2!WaysAssumption, P2!DCacheAssumption, P2!ValueAssumption,
       PB!WaysAssumption, PB!DCacheAssumption, PB!ValueAssumption

LEMMA ChainedLevel ==
  /\ L1!Init => P1!Init
  /\ \A rec : L1!Simulate(rec) => P1!Simulate(rec)
<1>1. L1!Init => P1!Init
  BY DEF
    L1!Init, L1!SetIndex, L1!WayIndex, L1!NewReplacement, L1!Counters, L1!TreeNode,
    P1!Init, P1!SetIndex, P1!WayIndex, P1!NewReplacement, P1!Counters, P1!TreeNode
<1>2. ASSUME NEW rec, L1!Simulate(rec) PROVE P1!Simulate(rec)
  BY <1>2 DEF
    L1!Simulate, L1!Hit, L1!NoAllocateStore, L1!Refill, L1!LineOf, L1!IndexOf, L1!TagOf,
    L1!LineAt, L1!Holders, L1!FirstWay, L1!StorageWith, L1!WriteBack, L1!Counters,
    L1!Raise, L1!One, L1!CountAccess, L1!Drains, L1!CountBuffered, L1!BufferStore,
    L1!Forward, L1!FreeWays, L1!SlotFor, L1!Evicts, L1!WritesBack, L1!MissKind,
    L1!RefillDirties, L1!WayIndex, L1!SetIndex, L1!Touch, L1!UsesTicks, L1!Upwards,
    L1!LeafToRoot, L1!TouchTree, L1!OldestWay, L1!WalkFrom, L1!TreeVictim, L1!Victim,
    L1!AnyNode, L1!TreeNode, P1!Simulate, P1!Hit, P1!NoAllocateStore, P1!Refill, P1!LineOf,
    P1!IndexOf, P1!TagOf, P1!LineAt, P1!Holders, P1!FirstWay, P1!StorageWith, P1!WriteBack,
    P1!Counters, P1!Raise, P1!One, P1!CountAccess, P1!Drains, P1!CountBuffered,
    P1!BufferStore, P1!Forward, P1!FreeWays, P1!SlotFor, P1!Evicts, P1!WritesBack,
    P1!MissKind, P1!RefillDirties, P1!WayIndex, P1!SetIndex, P1!Touch, P1!UsesTicks,
    P1!Upwards, P1!LeafToRoot, P1!TouchTree, P1!OldestWay, P1!WalkFrom, P1!TreeVictim,
    P1!Victim, P1!AnyNode, P1!TreeNode
<1> QED BY <1>1, <1>2

LEMMA SecondLevel ==
  /\ L2!Init => P2!Init
  /\ \A rec : L2!Simulate(rec) => P2!Simulate(rec)
<1>1. L2!Init => P2!Init
  BY DEF
    L2!Init, L2!SetIndex, L2!WayIndex, L2!NewReplacement, L2!Counters, L2!TreeNode,
    P2!Init, P2!SetIndex, P2!WayIndex, P2!NewReplacement, P2!Counters, P2!TreeNode
<1>2. ASSUME NEW rec, L2!Simulate(rec) PROVE P2!Simulate(rec)
  BY <1>2 DEF
    L2!Simulate, L2!Hit, L2!NoAllocateStore, L2!Refill, L2!LineOf, L2!IndexOf, L2!TagOf,
    L2!LineAt, L2!Holders, L2!FirstWay, L2!StorageWith, L2!WriteBack, L2!Counters,
    L2!Raise, L2!One, L2!CountAccess, L2!Drains, L2!CountBuffered, L2!BufferStore,
    L2!Forward, L2!FreeWays, L2!SlotFor, L2!Evicts, L2!WritesBack, L2!MissKind,
    L2!RefillDirties, L2!WayIndex, L2!SetIndex, L2!Touch, L2!UsesTicks, L2!Upwards,
    L2!LeafToRoot, L2!TouchTree, L2!OldestWay, L2!WalkFrom, L2!TreeVictim, L2!Victim,
    L2!AnyNode, L2!TreeNode, P2!Simulate, P2!Hit, P2!NoAllocateStore, P2!Refill, P2!LineOf,
    P2!IndexOf, P2!TagOf, P2!LineAt, P2!Holders, P2!FirstWay, P2!StorageWith, P2!WriteBack,
    P2!Counters, P2!Raise, P2!One, P2!CountAccess, P2!Drains, P2!CountBuffered,
    P2!BufferStore, P2!Forward, P2!FreeWays, P2!SlotFor, P2!Evicts, P2!WritesBack,
    P2!MissKind, P2!RefillDirties, P2!WayIndex, P2!SetIndex, P2!Touch, P2!UsesTicks,
    P2!Upwards, P2!LeafToRoot, P2!TouchTree, P2!OldestWay, P2!WalkFrom, P2!TreeVictim,
    P2!Victim, P2!AnyNode, P2!TreeNode
<1> QED BY <1>1, <1>2

LEMMA BaselineLevel ==
  /\ Base!Init => PB!Init
  /\ \A rec : Base!Simulate(rec) => PB!Simulate(rec)
<1>1. Base!Init => PB!Init
  BY DEF
    Base!Init, Base!SetIndex, Base!WayIndex, Base!NewReplacement, Base!Counters,
    Base!TreeNode, PB!Init, PB!SetIndex, PB!WayIndex, PB!NewReplacement, PB!Counters,
    PB!TreeNode
<1>2. ASSUME NEW rec, Base!Simulate(rec) PROVE PB!Simulate(rec)
  BY <1>2 DEF
    Base!Simulate, Base!Hit, Base!NoAllocateStore, Base!Refill, Base!LineOf, Base!IndexOf,
    Base!TagOf, Base!LineAt, Base!Holders, Base!FirstWay, Base!StorageWith, Base!WriteBack,
    Base!Counters, Base!Raise, Base!One, Base!CountAccess, Base!Drains, Base!CountBuffered,
    Base!BufferStore, Base!Forward, Base!FreeWays, Base!SlotFor, Base!Evicts,
    Base!WritesBack, Base!MissKind, Base!RefillDirties, Base!WayIndex, Base!SetIndex,
    Base!Touch, Base!UsesTicks, Base!Upwards, Base!LeafToRoot, Base!TouchTree,
    Base!OldestWay, Base!WalkFrom, Base!TreeVictim, Base!Victim, Base!AnyNode,
    Base!TreeNode, PB!Simulate, PB!Hit, PB!NoAllocateStore, PB!Refill, PB!LineOf,
    PB!IndexOf, PB!TagOf, PB!LineAt, PB!Holders, PB!FirstWay, PB!StorageWith, PB!WriteBack,
    PB!Counters, PB!Raise, PB!One, PB!CountAccess, PB!Drains, PB!CountBuffered,
    PB!BufferStore, PB!Forward, PB!FreeWays, PB!SlotFor, PB!Evicts, PB!WritesBack,
    PB!MissKind, PB!RefillDirties, PB!WayIndex, PB!SetIndex, PB!Touch, PB!UsesTicks,
    PB!Upwards, PB!LeafToRoot, PB!TouchTree, PB!OldestWay, PB!WalkFrom, PB!TreeVictim,
    PB!Victim, PB!AnyNode, PB!TreeNode
<1> QED BY <1>1, <1>2

LEMMA SameDecisions ==
  ASSUME NEW c, NEW tr, NEW d, PB!Ran(c, tr, d)
  PROVE  P1!Ran(c, tr, d)
BY DEF
    P1!Ran, P1!Decide, P1!Decided, P1!NothingDecided, P1!DecideHit, P1!DecideRefill,
    P1!WaysWith, P1!WaysFree, P1!WayFor, P1!Counted, P1!Placed, P1!With, P1!IndexOf,
    P1!TagOf, P1!LineOf, P1!FirstWay, P1!Victim, P1!Touch, P1!UsesTicks, P1!Upwards,
    P1!LeafToRoot, P1!TouchTree, P1!OldestWay, P1!WalkFrom, P1!TreeVictim, P1!AnyNode,
    P1!TreeNode, P1!NewReplacement, P1!SetIndex, P1!WayIndex, P1!One, PB!Ran, PB!Decide,
    PB!Decided, PB!NothingDecided, PB!DecideHit, PB!DecideRefill, PB!WaysWith, PB!WaysFree,
    PB!WayFor, PB!Counted, PB!Placed, PB!With, PB!IndexOf, PB!TagOf, PB!LineOf,
    PB!FirstWay, PB!Victim, PB!Touch, PB!UsesTicks, PB!Upwards, PB!LeafToRoot,
    PB!TouchTree, PB!OldestWay, PB!WalkFrom, PB!TreeVictim, PB!AnyNode, PB!TreeNode,
    PB!NewReplacement, PB!SetIndex, PB!WayIndex, PB!One

-----------------------------------------------------------------------------
(* The three calls, one after the other.                                   *)

\* A call has consumed the beginning of the trace it was given.
Fed(consumed, source) ==
    /\ Len(consumed) <= Len(source)
    /\ \A i \in 1 .. Len(consumed) : consumed[i] = source[i]

ChainInv ==
    /\ phase \in {"l1", "l2", "baseline", "done"}
    /\ P1!LevelInv /\ P2!LevelInv /\ PB!LevelInv
    /\ l1_cfg = LevelConfig /\ l2_cfg = LevelConfig /\ base_cfg = LevelConfig
    /\ phase = "l1" => l2_trace = <<>> /\ base_trace = <<>>
    /\ Fed(l2_trace, l1_miss_stream) /\ Fed(base_trace, l1_trace)
    /\ phase = "done" => Len(l2_trace) = Len(l1_miss_stream) /\ Len(base_trace) = Len(l1_trace)

LEMMA FedNothing == ASSUME NEW S, NEW source \in Seq(S) PROVE Fed(<<>>, source)
BY DEF Fed

LEMMA FedNext ==
  ASSUME NEW S, NEW consumed \in Seq(S), NEW source \in Seq(S),
         Fed(consumed, source), Len(consumed) < Len(source)
  PROVE  LET rec == source[Len(consumed) + 1]
         IN  rec \in S /\ Fed(Append(consumed, rec), source)
<1> DEFINE n == Len(consumed)
           rec == source[n + 1]
<1>1. n \in Nat /\ Len(source) \in Nat /\ n + 1 \in 1 .. Len(source)
  OBVIOUS
<1>2. rec \in S
  BY <1>1
<1>3. /\ Len(Append(consumed, rec)) = n + 1
      /\ \A i \in 1 .. n : Append(consumed, rec)[i] = consumed[i]
      /\ Append(consumed, rec)[n + 1] = rec
  BY <1>2
<1> QED BY <1>1, <1>2, <1>3 DEF Fed

LEMMA FedAll ==
  ASSUME NEW S, NEW consumed \in Seq(S), NEW source \in Seq(S),
         Fed(consumed, source), Len(consumed) = Len(source)
  PROVE  consumed = source
<1>1. DOMAIN consumed = 1 .. Len(consumed) /\ DOMAIN source = 1 .. Len(source)
  OBVIOUS
<1>2. \A i \in 1 .. Len(source) : consumed[i] = source[i]
  BY DEF Fed
<1> QED BY <1>1, <1>2

LEMMA LevelTypes ==
  ASSUME ChainInv
  PROVE  /\ P1!SafetyInv /\ P2!SafetyInv /\ PB!SafetyInv
         /\ P1!TypeOK /\ P2!TypeOK /\ PB!TypeOK
         /\ l1_trace \in Seq(L1!Record) /\ l1_miss_stream \in Seq(L1!Record)
         /\ l2_trace \in Seq(L1!Record) /\ l2_miss_stream \in Seq(L1!Record)
         /\ base_trace \in Seq(L1!Record)
<1>1. P1!SafetyInv /\ P2!SafetyInv /\ PB!SafetyInv
  BY DEF ChainInv, P1!LevelInv, P2!LevelInv, PB!LevelInv
<1>2. P1!TypeOK /\ P2!TypeOK /\ PB!TypeOK
  BY <1>1 DEF P1!SafetyInv, P2!SafetyInv, PB!SafetyInv
<1> QED BY <1>1, <1>2, SameRecords DEF P1!TypeOK, P2!TypeOK, PB!TypeOK

LEMMA ChainInit == Init => ChainInv
<1> SUFFICES ASSUME Init PROVE ChainInv
  OBVIOUS
<1>1. P1!Init /\ P2!Init /\ PB!Init
  BY ChainedLevel, SecondLevel, BaselineLevel DEF Init
<1>2. P1!LevelInv
  BY <1>1, LevelsAssumed, P1!LevelInit
<1>3. P2!LevelInv
  BY <1>1, LevelsAssumed, P2!LevelInit
<1>4. PB!LevelInv
  BY <1>1, LevelsAssumed, PB!LevelInit
<1>5. /\ l1_trace = <<>> /\ l1_miss_stream = <<>> /\ l2_trace = <<>> /\ base_trace = <<>>
      /\ l1_cfg = LevelConfig /\ l2_cfg = LevelConfig /\ base_cfg = LevelConfig
  BY <1>1 DEF P1!Init, P2!Init, PB!Init
<1>6. Fed(l2_trace, l1_miss_stream) /\ Fed(base_trace, l1_trace)
  BY <1>5 DEF Fed
<1> QED BY <1>2, <1>3, <1>4, <1>5, <1>6 DEF ChainInv, Init

LEMMA ChainedStutter == ASSUME P1!LevelInv, UNCHANGED l1_vars PROVE P1!LevelInv'
<1>1. UNCHANGED P1!vars
  BY DEF l1_vars, P1!vars
<1> QED BY <1>1, LevelsAssumed, P1!LevelStutter

LEMMA SecondStutter == ASSUME P2!LevelInv, UNCHANGED l2_vars PROVE P2!LevelInv'
<1>1. UNCHANGED P2!vars
  BY DEF l2_vars, P2!vars
<1> QED BY <1>1, LevelsAssumed, P2!LevelStutter

LEMMA BaselineStutter == ASSUME PB!LevelInv, UNCHANGED base_vars PROVE PB!LevelInv'
<1>1. UNCHANGED PB!vars
  BY DEF base_vars, PB!vars
<1> QED BY <1>1, LevelsAssumed, PB!LevelStutter

LEMMA ChainL1Step == ASSUME ChainInv, ChainL1 PROVE ChainInv'
<1>1. PICK rec \in Accesses : L1!Simulate(rec)
  BY DEF ChainL1
<1>2. rec \in L1!Record /\ P1!Simulate(rec)
  BY <1>1, ChainedLevel, HierarchyAssumption
<1>3. P1!LevelInv'
  BY <1>2, LevelsAssumed, SameRecords, P1!LevelStep DEF ChainInv
<1>4. P2!LevelInv' /\ PB!LevelInv'
  BY SecondStutter, BaselineStutter DEF ChainInv, ChainL1
<1>5. phase' = "l1" /\ l2_trace' = l2_trace /\ base_trace' = base_trace /\ l2_cfg' = l2_cfg
      /\ base_cfg' = base_cfg /\ l2_trace = <<>> /\ base_trace = <<>>
  BY DEF ChainL1, ChainInv, l2_vars, base_vars
<1>6. l1_cfg' = l1_cfg
  BY <1>2 DEF P1!Simulate
<1>7. l1_trace' \in Seq(L1!Record) /\ l1_miss_stream' \in Seq(L1!Record)
  BY <1>3, SameRecords DEF P1!LevelInv, P1!SafetyInv, P1!TypeOK
<1>8. Fed(l2_trace, l1_miss_stream)' /\ Fed(base_trace, l1_trace)'
  <2>1. Fed(<<>>, l1_miss_stream') /\ Fed(<<>>, l1_trace')
    BY <1>7, FedNothing
  <2> QED BY <1>5, <2>1
<1> QED BY <1>3, <1>4, <1>5, <1>6, <1>8 DEF ChainInv

LEMMA ChainL2Step == ASSUME ChainInv, ChainL2 PROVE ChainInv'
<1> DEFINE rec == l1_miss_stream[Len(l2_trace) + 1]
<1>1. rec \in L1!Record /\ Fed(Append(l2_trace, rec), l1_miss_stream)
  <2>1. Len(l2_trace) < Len(l1_miss_stream) /\ Fed(l2_trace, l1_miss_stream)
    BY DEF ChainL2, ChainInv
  <2> QED BY <2>1, LevelTypes, FedNext
<1>2. P2!Simulate(rec)
  BY SecondLevel DEF ChainL2
<1> HIDE DEF rec
<1>3. P2!LevelInv'
  BY <1>1, <1>2, LevelsAssumed, SameRecords, P2!LevelStep DEF ChainInv
<1>4. P1!LevelInv' /\ PB!LevelInv'
  BY ChainedStutter, BaselineStutter DEF ChainInv, ChainL2
<1>5. /\ phase' = "l2" /\ l1_trace' = l1_trace /\ l1_miss_stream' = l1_miss_stream
      /\ base_trace' = base_trace /\ l1_cfg' = l1_cfg /\ base_cfg' = base_cfg
  BY DEF ChainL2, l1_vars, base_vars
<1>6. l2_trace' = Append(l2_trace, rec) /\ l2_cfg' = l2_cfg
  BY <1>2 DEF P2!Simulate
<1>7. Fed(l2_trace, l1_miss_stream)' /\ Fed(base_trace, l1_trace)'
  BY <1>1, <1>5, <1>6 DEF ChainInv, Fed
<1> QED BY <1>3, <1>4, <1>5, <1>6, <1>7 DEF ChainInv

LEMMA BaselineStep == ASSUME ChainInv, Baseline PROVE ChainInv'
<1> DEFINE rec == l1_trace[Len(base_trace) + 1]
<1>1. rec \in L1!Record /\ Fed(Append(base_trace, rec), l1_trace)
  <2>1. Len(base_trace) < Len(l1_trace) /\ Fed(base_trace, l1_trace)
    BY DEF Baseline, BaselineInput, ChainInv
  <2> QED BY <2>1, LevelTypes, FedNext
<1>2. PB!Simulate(rec)
  BY BaselineLevel DEF Baseline, BaselineInput
<1> HIDE DEF rec
<1>3. PB!LevelInv'
  BY <1>1, <1>2, LevelsAssumed, SameRecords, PB!LevelStep DEF ChainInv
<1>4. P1!LevelInv' /\ P2!LevelInv'
  BY ChainedStutter, SecondStutter DEF ChainInv, Baseline
<1>5. /\ phase' = "baseline" /\ l1_trace' = l1_trace /\ l1_miss_stream' = l1_miss_stream
      /\ l2_trace' = l2_trace /\ l1_cfg' = l1_cfg /\ l2_cfg' = l2_cfg
  BY DEF Baseline, l1_vars, l2_vars
<1>6. base_trace' = Append(base_trace, rec) /\ base_cfg' = base_cfg
  BY <1>2 DEF PB!Simulate
<1>7. Fed(l2_trace, l1_miss_stream)' /\ Fed(base_trace, l1_trace)'
  BY <1>1, <1>5, <1>6 DEF ChainInv, Fed
<1> QED BY <1>3, <1>4, <1>5, <1>6, <1>7 DEF ChainInv

LEMMA StillStep ==
  ASSUME ChainInv, UNCHANGED <<l1_vars, l2_vars, base_vars>>, Finish \/ UNCHANGED phase
  PROVE  ChainInv'
<1>1. P1!LevelInv' /\ P2!LevelInv' /\ PB!LevelInv'
  BY ChainedStutter, SecondStutter, BaselineStutter DEF ChainInv
<1>2. /\ l1_trace' = l1_trace /\ l1_miss_stream' = l1_miss_stream /\ l2_trace' = l2_trace
      /\ base_trace' = base_trace /\ l1_cfg' = l1_cfg /\ l2_cfg' = l2_cfg /\ base_cfg' = base_cfg
  BY DEF l1_vars, l2_vars, base_vars
<1>3. Fed(l2_trace, l1_miss_stream)' /\ Fed(base_trace, l1_trace)'
  BY <1>2 DEF ChainInv, Fed
<1> QED BY <1>1, <1>2, <1>3 DEF ChainInv, Finish, BaselineInput

LEMMA ChainInvariant == Spec => []ChainInv
<1>1. ChainInv /\ [Next]_vars => ChainInv'
  <2> SUFFICES ASSUME ChainInv, [Next]_vars PROVE ChainInv'
    OBVIOUS
  <2>1. CASE ChainL1 \/ ChainL2 \/ Baseline
    BY <2>1, ChainL1Step, ChainL2Step, BaselineStep
  <2>2. CASE Finish
    BY <2>2, StillStep DEF Finish
  <2>3. CASE UNCHANGED vars
    BY <2>3, StillStep DEF vars
  <2> QED BY <2>1, <2>2, <2>3 DEF Next
<1> QED BY <1>1, ChainInit, PTL DEF Spec

-----------------------------------------------------------------------------
(* What the totals are made of.                                            *)

LEMMA Distribute == \A m, w, p \in Nat : (m + w) * p = m * p + w * p
OBVIOUS

LEMMA Products == \A a, b \in Nat : a * b \in Nat
OBVIOUS

\* The chained L1 pays for its hits alone.
LEMMA ChainedCycles ==
  ASSUME ChainInv
  PROVE  L1!TotalCycles = l1_t["hits"] * L1HitLatency /\ l1_t["hits"] \in Nat
<1>1. P1!StallsPriced /\ P1!StoresBuffered /\ P1!WriteBack
  BY LevelTypes, HierarchyAssumption DEF P1!SafetyInv, P1!Safety, ChainInv, P1!WriteBack
<1>2. /\ l1_t["miss_stalls"] = (l1_t["misses"] - 0) * 0
      /\ l1_t["write_stalls"] = 0 * 0
      /\ l1_t["writeback_stalls"] = l1_t["writebacks"] * 0
  BY <1>1 DEF P1!StallsPriced, P1!StoresBuffered
<1>3. l1_t["hits"] \in Nat /\ l1_t["misses"] \in Nat /\ l1_t["writebacks"] \in Nat
  BY LevelTypes DEF P1!TypeOK, P1!Counters
<1>4. l1_t["hits"] * L1HitLatency \in Nat
  BY <1>3, Products, HierarchyAssumption
<1>5. l1_t["miss_stalls"] = 0 /\ l1_t["write_stalls"] = 0 /\ l1_t["writeback_stalls"] = 0
  BY <1>2, <1>3
<1> QED BY <1>3, <1>4, <1>5 DEF L1!TotalCycles

LEMMA SecondCycles ==
  ASSUME ChainInv
  PROVE  L2!TotalCycles \in Nat /\ L2!TotalCycles >= l2_t["misses"] * DramPenalty
<1>1. P2!StallsPriced /\ P2!WriteBack
  BY LevelTypes, HierarchyAssumption DEF P2!SafetyInv, P2!Safety, ChainInv, P2!WriteBack
<1>2. \A k \in P2!Counters : l2_t[k] \in Nat
  BY LevelTypes DEF P2!TypeOK
<1>3. l2_t["hits"] * L2HitLatency \in Nat /\ l2_t["miss_stalls"] \in Nat
      /\ l2_t["write_stalls"] \in Nat /\ l2_t["writeback_stalls"] \in Nat /\ l2_t["misses"] \in Nat
  BY <1>2, Products, HierarchyAssumption DEF P2!Counters
<1>4. l2_t["miss_stalls"] = (l2_t["misses"] - 0) * DramPenalty
  BY <1>1 DEF P2!StallsPriced
<1>5. l2_t["miss_stalls"] = l2_t["misses"] * DramPenalty
  BY <1>3, <1>4
<1> HIDE DEF HierarchyAssumption
<1> QED BY <1>3, <1>5 DEF L2!TotalCycles

LEMMA AloneCycles ==
  ASSUME ChainInv
  PROVE  BaselineCycles = base_t["hits"] * L1HitLatency
                            + (base_t["misses"] + base_t["writebacks"]) * DramPenalty
<1>1. PB!StallsPriced /\ PB!StoresBuffered /\ PB!WriteBack
  BY LevelTypes, HierarchyAssumption DEF PB!SafetyInv, PB!Safety, ChainInv, PB!WriteBack
<1>2. base_t["hits"] \in Nat /\ base_t["misses"] \in Nat /\ base_t["writebacks"] \in Nat
  BY LevelTypes DEF PB!TypeOK, PB!Counters
<1>3. /\ base_t["miss_stalls"] = (base_t["misses"] - 0) * DramPenalty
      /\ base_t["write_stalls"] = 0 * DramPenalty
      /\ base_t["writeback_stalls"] = base_t["writebacks"] * DramPenalty
  BY <1>1 DEF PB!StallsPriced, PB!StoresBuffered
<1>4. base_t["miss_stalls"] = base_t["misses"] * DramPenalty /\ base_t["write_stalls"] = 0
  BY <1>2, <1>3, HierarchyAssumption
<1>5. (base_t["misses"] + base_t["writebacks"]) * DramPenalty
        = base_t["misses"] * DramPenalty + base_t["writebacks"] * DramPenalty
  BY <1>2, Distribute, HierarchyAssumption
<1>6. /\ base_t["hits"] * L1HitLatency \in Nat /\ base_t["misses"] * DramPenalty \in Nat
      /\ base_t["writebacks"] * DramPenalty \in Nat
  BY <1>2, Products, HierarchyAssumption
<1>7. BaselineCycles = base_t["hits"] * L1HitLatency + base_t["miss_stalls"]
                         + base_t["write_stalls"] + base_t["writeback_stalls"]
  BY DEF BaselineCycles, Base!TotalCycles
<1> DEFINE x == base_t["hits"] * L1HitLatency
           y == base_t["misses"] * DramPenalty
           z == base_t["writebacks"] * DramPenalty
<1> HIDE DEF x, y, z
<1>8. x \in Nat /\ y \in Nat /\ z \in Nat /\ BaselineCycles = x + y + 0 + z
  BY <1>3, <1>4, <1>6, <1>7 DEF x, y, z
<1>9. BaselineCycles = x + (y + z)
  BY <1>8
<1> QED BY <1>5, <1>9 DEF x, y, z

-----------------------------------------------------------------------------
(* The comparison.                                                         *)

\* The same accesses, hence the same decisions.
LEMMA AloneAsChained ==
  ASSUME ChainInv, phase = "done"
  PROVE  base_storage = l1_storage /\ \A k \in {"hits", "misses", "evictions", "writebacks"} : base_t[k] = l1_t[k]
<1>1. base_trace = l1_trace /\ Len(l1_trace) \in Nat
  BY LevelTypes, FedAll DEF ChainInv
<1>2. P1!Ran(LevelConfig, l1_trace, P1!Decisions)
  BY DEF ChainInv, P1!LevelInv
<1>3. P1!Ran(LevelConfig, l1_trace, PB!Decisions)
  <2>1. PB!Ran(LevelConfig, l1_trace, PB!Decisions)
    BY <1>1 DEF ChainInv, PB!LevelInv
  <2> QED BY <2>1, SameDecisions
<1>4. P1!Decisions = PB!Decisions
  BY <1>1, <1>2, <1>3, LevelsAssumed, P1!RanUnique
<1>5. /\ P1!Decisions.storage = l1_storage /\ PB!Decisions.storage = base_storage
      /\ P1!Decisions.counts = [k \in {"hits", "misses", "evictions", "writebacks"} |-> l1_t[k]]
      /\ PB!Decisions.counts = [k \in {"hits", "misses", "evictions", "writebacks"} |-> base_t[k]]
  BY DEF P1!Decisions, PB!Decisions, P1!Decided, PB!Decided
<1>6. ASSUME NEW k \in {"hits", "misses", "evictions", "writebacks"} PROVE base_t[k] = l1_t[k]
  <2>1. P1!Decisions.counts[k] = l1_t[k] /\ PB!Decisions.counts[k] = base_t[k]
    BY <1>5
  <2> QED BY <1>4, <2>1
<1> QED BY <1>4, <1>5, <1>6

\* An empty trace leaves nothing to divide, any other makes L2 miss.
LEMMA SomethingToDivideBy == ASSUME ChainInv, phase = "done" PROVE SpeedupDefined
<1> SUFFICES ASSUME BaselineCycles # 0 PROVE TotalCycles # 0
  BY DEF SpeedupDefined
<1>1. l2_trace = l1_miss_stream
  BY LevelTypes, FedAll DEF ChainInv
<1>2. /\ L1!TotalCycles = l1_t["hits"] * L1HitLatency
      /\ L2!TotalCycles \in Nat /\ L2!TotalCycles >= l2_t["misses"] * DramPenalty
      /\ TotalCycles = L1!TotalCycles + L2!TotalCycles
      /\ BaselineCycles = base_t["hits"] * L1HitLatency
                            + (base_t["misses"] + base_t["writebacks"]) * DramPenalty
      /\ base_t["hits"] = l1_t["hits"] /\ base_t["misses"] = l1_t["misses"]
      /\ base_t["writebacks"] = l1_t["writebacks"]
  BY ChainedCycles, SecondCycles, AloneCycles, AloneAsChained DEF TotalCycles
<1>3. /\ l1_t["hits"] \in Nat /\ l1_t["misses"] \in Nat /\ l1_t["writebacks"] \in Nat /\ l2_t["misses"] \in Nat
  BY LevelTypes DEF P1!TypeOK, P1!Counters, P2!TypeOK, P2!Counters
<1>4. L1!TotalCycles \in Nat /\ DramPenalty \in Nat
  BY <1>2, <1>3, Products, HierarchyAssumption
<1>5. CASE l1_trace = <<>>
  <2>1. P1!Ran(LevelConfig, <<>>, P1!Decisions)
    BY <1>5 DEF ChainInv, P1!LevelInv
  <2>2. P1!Decisions = P1!NothingDecided
    BY <2>1, LevelsAssumed, P1!RanEmpty
  <2>3. P1!Decisions.counts = [k \in P1!Decided |-> l1_t[k]] /\ P1!NothingDecided.counts = [k \in P1!Decided |-> 0]
    BY DEF P1!Decisions, P1!NothingDecided
  <2>4. \A k \in P1!Decided : l1_t[k] = 0
    BY <2>2, <2>3
  <2>5. l1_t["hits"] = 0 /\ l1_t["misses"] = 0 /\ l1_t["writebacks"] = 0
    BY <2>4 DEF P1!Decided
  <2>6. BaselineCycles = 0 * L1HitLatency + (0 + 0) * DramPenalty
    BY <1>2, <2>5
  <2> QED BY <2>6, HierarchyAssumption
<1>6. CASE l1_trace # <<>> /\ DramPenalty # 0
  <2>1. Len(l1_miss_stream) > 0
    <3>1. l1_t["misses"] > 0
      BY <1>6 DEF ChainInv, P1!LevelInv, P1!Started
    <3>2. MaxRecords > 0
      BY HierarchyAssumption
    <3> QED BY <3>1, <3>2 DEF ChainInv, P1!LevelInv, P1!Started
  <2>2. l2_trace # <<>>
    BY <1>1, <2>1
  <2>3. l2_t["misses"] > 0
    BY <2>2 DEF ChainInv, P2!LevelInv, P2!Started
  <2>4. l2_t["misses"] * DramPenalty > 0
    BY <1>3, <1>4, <1>6, <2>3
  <2> DEFINE price == l2_t["misses"] * DramPenalty
             second == L2!TotalCycles
  <2>5. price \in Nat /\ price > 0 /\ second \in Nat /\ second >= price
    BY <1>2, <1>3, <1>4, <2>4, Products
  <2> HIDE DEF price
  <2>6. second # 0
    BY <2>5
  <2> QED BY <1>2, <1>4, <2>5, <2>6
<1>7. CASE DramPenalty = 0
  <2>1. (l1_t["misses"] + l1_t["writebacks"]) * 0 = 0
    BY <1>3
  <2>2. BaselineCycles = L1!TotalCycles + 0
    BY <1>2, <1>7, <2>1
  <2> QED BY <1>2, <1>4, <2>2
<1> QED BY <1>5, <1>6, <1>7

\* The comparison of the two designs compares like with like for every geometry,
\* latency and trace: alone, the L1 takes the decisions it takes in the chain and
\* its baseline differs by the price of its traffic alone, and the speedup is
\* never a division by zero (l1l2_cache.cpp:113-115, 131-133, 223-226).
THEOREM ComparisonIsFair == Spec => []ComparisonHolds
<1>1. ChainInv => ComparisonHolds
  <2> SUFFICES ASSUME ChainInv, phase = "done" PROVE BaselineTakesSameDecisions /\ SpeedupDefined
    BY DEF ComparisonHolds
  <2>1. /\ base_storage = l1_storage
        /\ \A k \in {"hits", "misses", "evictions", "writebacks"} : base_t[k] = l1_t[k]
    BY AloneAsChained
  <2>2. BaselineCycles = L1!TotalCycles + (l1_t["misses"] + l1_t["writebacks"]) * DramPenalty
    BY <2>1, ChainedCycles, AloneCycles
  <2> QED BY <2>1, <2>2, SomethingToDivideBy DEF BaselineTakesSameDecisions
<1> QED BY <1>1, ChainInvariant, PTL

-----------------------------------------------------------------------------
(* Stores on their way down.                                               *)

LEMMA TimesMonotone == \A m, x, y \in Nat : x <= y => m * x <= m * y
<1> SUFFICES ASSUME NEW m \in Nat, NEW x \in Nat, NEW y \in Nat, x <= y PROVE m * x <= m * y
  OBVIOUS
<1>1. PICK z \in Nat : y = x + z
  <2>1. y - x \in Nat /\ y = x + (y - x)
    OBVIOUS
  <2> QED BY <2>1
<1>2. m * y = m * x + m * z
  BY <1>1
<1> QED BY <1>2, Products

LEMMA Quotient ==
  ASSUME NEW a \in Nat, NEW n \in Nat \ {0}
  PROVE  /\ a \div n \in Nat
         /\ n * (a \div n) <= a
         /\ a < n * (a \div n) + n
OBVIOUS

LEMMA QuotientIs ==
  ASSUME NEW a \in Nat, NEW m \in Nat \ {0}, NEW p \in Nat, m * p <= a, a < m * p + m
  PROVE  a \div m = p
<1> DEFINE d == a \div m
<1>1. d \in Nat /\ m * d <= a /\ a < m * d + m
  BY Quotient
<1> HIDE DEF d
<1>2. m * d \in Nat /\ m * p \in Nat
  BY <1>1, Products
<1>3. ~(d + 1 <= p)
  <2>1. d + 1 <= p => m * (d + 1) <= m * p
    BY <1>1, TimesMonotone
  <2>2. m * (d + 1) = m * d + m
    BY <1>1
  <2> QED BY <1>1, <1>2, <2>1, <2>2
<1>4. ~(p + 1 <= d)
  <2>1. p + 1 <= d => m * (p + 1) <= m * d
    BY <1>1, TimesMonotone
  <2>2. m * (p + 1) = m * p + m
    OBVIOUS
  <2> QED BY <1>1, <1>2, <2>1, <2>2
<1>5. d = p
  BY <1>1, <1>3, <1>4
<1> QED BY <1>5 DEF d

\* A line of a whole number of smaller ones is told by the smaller one.
LEMMA LineOfLine ==
  ASSUME NEW a \in Nat, NEW n \in Nat \ {0}, NEW k \in Nat \ {0}
  PROVE  a \div (n * k) = (a \div n) \div k
<1> DEFINE q == a \div n
           p == q \div k
<1>1. q \in Nat /\ n * q <= a /\ a < n * q + n
  BY Quotient
<1> HIDE DEF q
<1>2. p \in Nat /\ k * p <= q /\ q + 1 <= k * p + k /\ k * p \in Nat
  <2>1. p \in Nat /\ k * p <= q /\ q < k * p + k
    BY <1>1, Quotient
  <2> HIDE DEF p
  <2>2. k * p \in Nat
    BY <2>1, Products
  <2> QED BY <1>1, <2>1, <2>2
<1> HIDE DEF p
<1>3. n * (k * p) <= n * q /\ n * (q + 1) <= n * (k * p + k)
  BY <1>1, <1>2, TimesMonotone
<1> DEFINE kp == k * p
           nk == n * k
<1>4. nk \in Nat \ {0}
  OBVIOUS
<1>5. n * kp = nk * p
  BY <1>2
<1>6. n * (q + 1) = n * q + n
  BY <1>1
<1>7. n * (kp + k) = n * kp + nk
  <2> HIDE DEF kp
  <2>1. kp \in Nat
    BY <1>2 DEF kp
  <2> QED BY <2>1
<1>8. n * q \in Nat /\ nk * p \in Nat
  <2> HIDE DEF nk
  <2> QED BY <1>1, <1>2, <1>4, Products
<1> HIDE DEF kp, nk
<1>9. n * kp <= n * q /\ n * (q + 1) <= n * (kp + k)
  BY <1>3 DEF kp
<1>10. nk * p <= a /\ a < nk * p + nk
  BY <1>1, <1>4, <1>5, <1>6, <1>7, <1>8, <1>9
<1>11. a \div nk = p
  BY <1>2, <1>4, <1>10, QuotientIs
<1> QED BY <1>11 DEF nk, p, q

LEMMA SameLineBelow ==
  ASSUME NEW a \in Nat, NEW b \in Nat, L1!LineOf(a) = L1!LineOf(b), L2LineBytes % L1LineBytes = 0
  PROVE  L2!LineOf(a) = L2!LineOf(b)
<1> DEFINE k == L2LineBytes \div L1LineBytes
<1>1. L2LineBytes = L1LineBytes * k /\ k \in Nat
  BY HierarchyAssumption
<1> HIDE DEF k
<1>2. k \in Nat \ {0} /\ L1LineBytes \in Nat \ {0}
  BY <1>1, HierarchyAssumption
<1>3. /\ a \div (L1LineBytes * k) = (a \div L1LineBytes) \div k
      /\ b \div (L1LineBytes * k) = (b \div L1LineBytes) \div k
  BY <1>2, LineOfLine
<1> QED BY Zenon, <1>1, <1>3 DEF L1!LineOf, L2!LineOf

LEMMA SameLines ==
  /\ P1!DirtyLines = L1!DirtyLines /\ P2!DirtyLines = L2!DirtyLines
  /\ \A a : P1!LineOf(a) = L1!LineOf(a) /\ P2!LineOf(a) = L2!LineOf(a)
  /\ \A records : P2!StoredLines(records) = L2!StoredLines(records)
<1>1. P1!DirtyLines = L1!DirtyLines
  BY DEF P1!DirtyLines, L1!DirtyLines, P1!LineAt, L1!LineAt, P1!SetIndex, L1!SetIndex, P1!WayIndex, L1!WayIndex
<1>2. P2!DirtyLines = L2!DirtyLines
  BY DEF P2!DirtyLines, L2!DirtyLines, P2!LineAt, L2!LineAt, P2!SetIndex, L2!SetIndex, P2!WayIndex, L2!WayIndex
<1>3. \A a : P1!LineOf(a) = L1!LineOf(a) /\ P2!LineOf(a) = L2!LineOf(a)
  BY DEF P1!LineOf, L1!LineOf, P2!LineOf, L2!LineOf
<1>4. \A records : P2!StoredLines(records) = L2!StoredLines(records)
  BY DEF P2!StoredLines, L2!StoredLines, P2!LineOf, L2!LineOf
<1> QED BY <1>1, <1>2, <1>3, <1>4

\* No dirty line is dropped between the program and DRAM, whatever the sizes and
\* the traces, as long as the lines of L1 divide those of L2 and no recorded stream
\* was cut (dcache.cpp:60-69, l1l2_cache.cpp:118-127).
THEOREM StoresReachDram == Spec => []StoresSurvive
<1>1. ChainInv => StoresSurvive
  <2> SUFFICES ASSUME ChainInv, phase = "done", NothingCut, L2LineBytes % L1LineBytes = 0,
                      NEW i \in DOMAIN l1_trace, l1_trace[i].kind = "Store"
               PROVE  \/ L1!LineOf(l1_trace[i].addr) \in L1!DirtyLines
                      \/ L2!LineOf(l1_trace[i].addr) \in L2!DirtyLines \cup L2!StoredLines(l2_miss_stream)
    BY DEF StoresSurvive, EveryStoreKept
  <2> DEFINE a == l1_trace[i].addr
  <2>1. /\ l2_trace = l1_miss_stream
        /\ Len(l1_miss_stream) \in Nat /\ Len(l2_miss_stream) \in Nat
        /\ Len(l1_miss_stream) < MaxRecords /\ Len(l2_miss_stream) < MaxRecords /\ MaxRecords \in Nat
    BY LevelTypes, FedAll, HierarchyAssumption DEF ChainInv, NothingCut
  <2>2. P1!StoredLines(l1_trace) \subseteq P1!DirtyLines \cup P1!StoredLines(l1_miss_stream)
    BY <2>1, HierarchyAssumption DEF ChainInv, P1!LevelInv, P1!StoresKept, P1!WriteBack
  <2>3. P2!StoredLines(l2_trace) \subseteq P2!DirtyLines \cup P2!StoredLines(l2_miss_stream)
    BY <2>1, HierarchyAssumption DEF ChainInv, P2!LevelInv, P2!StoresKept, P2!WriteBack
  <2>4. P1!LineOf(a) \in P1!StoredLines(l1_trace)
    BY DEF P1!StoredLines
  <2>5. CASE P1!LineOf(a) \in P1!DirtyLines
    BY <2>5, SameLines
  <2>6. CASE P1!LineOf(a) \in P1!StoredLines(l1_miss_stream)
    <3>1. PICK j \in DOMAIN l1_miss_stream :
            l1_miss_stream[j].kind = "Store" /\ P1!LineOf(a) = P1!LineOf(l1_miss_stream[j].addr)
      BY <2>6 DEF P1!StoredLines
    <3> DEFINE b == l1_miss_stream[j].addr
    <3>2. a \in Nat /\ b \in Nat
      <4>1. l1_trace[i] \in L1!Record /\ l1_miss_stream[j] \in L1!Record
        <5>1. l1_trace \in Seq(L1!Record) /\ l1_miss_stream \in Seq(L1!Record)
          BY LevelTypes
        <5> QED BY <5>1
      <4> QED BY <4>1 DEF L1!Record
    <3>3. P2!LineOf(b) \in P2!StoredLines(l2_trace)
      BY <2>1, <3>1 DEF P2!StoredLines
    <3>4. L2!LineOf(a) = L2!LineOf(b)
      <4>1. L1!LineOf(a) = L1!LineOf(b)
        BY <3>1, SameLines
      <4> HIDE DEF a, b
      <4> QED BY <3>2, <4>1, SameLineBelow
    <3> QED BY <2>3, <3>3, <3>4, SameLines
  <2> QED BY <2>2, <2>4, <2>5, <2>6
<1> QED BY <1>1, ChainInvariant, PTL
=============================================================================
