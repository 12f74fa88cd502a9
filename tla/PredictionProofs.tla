-------------------------- MODULE PredictionProofs --------------------------
(***************************************************************************)
(* What the five predictors learn, for every program, every table size and *)
(* runs of any length, and how the return address stack follows the calls  *)
(* of a program (CallReturn), for every depth.                             *)
(***************************************************************************)
EXTENDS BranchPrediction, CallReturn, FiniteSetTheorems, SequenceTheorems, TLAPS

-----------------------------------------------------------------------------
(* Least numbers, and loops over 1 .. n as recursive functions.            *)

LEMMA LeastElement ==
  ASSUME NEW S \in SUBSET Nat, S # {}
  PROVE  \E m \in S : \A n \in S : m <= n
<1> DEFINE Under(n) == 0 .. n - 1
           T == {Under(n) : n \in S}
           R == StrictSubsetOrdering(Nat)
<1>1. T \subseteq FiniteSubsetsOf(Nat)
  <2> SUFFICES ASSUME NEW n \in S PROVE Under(n) \in FiniteSubsetsOf(Nat)
    OBVIOUS
  <2>1. IsFiniteSet(Under(n))
    BY FS_Interval
  <2> QED BY <2>1 DEF FiniteSubsetsOf
<1>2. T # {}
  OBVIOUS
<1>3. IsWellFoundedOn(R, FiniteSubsetsOf(Nat))
  BY FS_StrictSubsetOrderingWellFounded
<1>4. \E x \in T : \A y \in T : ~ (<<y, x>> \in R)
  <2> HIDE DEF T, R
  <2> QED BY <1>1, <1>2, <1>3, WFMin
<1>5. PICK m \in S : \A y \in T : ~ (<<y, Under(m)>> \in R)
  BY <1>4
<1>6. \A n \in S : ~ (<<Under(n), Under(m)>> \in R)
  BY <1>5
<1>7. ASSUME NEW n \in S, n < m PROVE FALSE
  <2>1. Under(n) \subseteq Under(m)
    BY <1>7
  <2>2. n \in Under(m) /\ n \notin Under(n)
    BY <1>7
  <2>3. Under(n) \in SUBSET Nat /\ Under(m) \in SUBSET Nat
    OBVIOUS
  <2>4. Under(n) # Under(m)
    BY <2>2
  <2>5. <<Under(n), Under(m)>> \in R
    <3> HIDE DEF Under
    <3> QED BY <2>1, <2>3, <2>4 DEF StrictSubsetOrdering
  <2> QED BY <2>5, <1>6
<1> QED BY <1>7

LEMMA GreatestElement ==
  ASSUME NEW n \in Nat, NEW S \in SUBSET (1 .. n), S # {}
  PROVE  \E m \in S : \A i \in S : i <= m
<1> DEFINE T == {n - i : i \in S}
<1>1. T \in SUBSET Nat /\ T # {}
  <2>1. \A i \in 1 .. n : n - i \in Nat
    OBVIOUS
  <2> QED BY <2>1
<1>2. PICK k \in T : \A j \in T : k <= j
  <2> HIDE DEF T
  <2> QED BY <1>1, LeastElement
<1>3. PICK m \in S : k = n - m
  BY <1>2
<1>4. ASSUME NEW i \in S PROVE i <= m
  <2>1. n - m <= n - i
    BY <1>2, <1>3
  <2> QED BY <2>1
<1> QED BY <1>4

\* A loop whose body maps S to S runs to its end; g[i] is what it has after i.
IsLoop(g, n, S, start, body) ==
    /\ g \in [0 .. n -> S]
    /\ g[0] = start
    /\ \A i \in 1 .. n : g[i] = body[i][g[i - 1]]

LEMMA LoopRuns ==
  ASSUME NEW n \in Nat, NEW S, NEW start \in S, NEW body, \A i \in 1 .. n : body[i] \in [S -> S]
  PROVE  \E g : IsLoop(g, n, S, start, body)
<1> DEFINE Stuck == {m \in 0 .. n : ~ \E g : IsLoop(g, m, S, start, body)}
<1>1. SUFFICES ASSUME Stuck # {} PROVE FALSE
  <2>1. n \in 0 .. n
    OBVIOUS
  <2> QED BY <2>1, Zenon
<1>2. PICK m \in Stuck : \A k \in Stuck : m <= k
  <2>1. Stuck \in SUBSET Nat
    OBVIOUS
  <2> HIDE DEF Stuck
  <2> QED BY <1>1, <2>1, LeastElement
<1>3. m # 0
  <2>1. IsLoop([i \in {0} |-> start], 0, S, start, body)
    BY DEF IsLoop
  <2> QED BY <1>2, <2>1
<1>4. m \in 1 .. n /\ m - 1 \notin Stuck
  <2>1. m \in 0 .. n
    BY <1>2
  <2> HIDE DEF Stuck
  <2> QED BY <1>2, <1>3, <2>1
<1>5. PICK g : IsLoop(g, m - 1, S, start, body)
  BY <1>4
<1> DEFINE h == [i \in 0 .. m |-> IF i = m THEN body[m][g[m - 1]] ELSE g[i]]
<1>6. IsLoop(h, m, S, start, body)
  <2>1. /\ body[m] \in [S -> S] /\ g[m - 1] \in S /\ g[0] = start
        /\ \A i \in 0 .. m - 1 : g[i] \in S
    BY <1>4, <1>5 DEF IsLoop
  <2>2. h \in [0 .. m -> S] /\ h[0] = start
    BY <1>4, <2>1
  <2>3. ASSUME NEW i \in 1 .. m PROVE h[i] = body[i][h[i - 1]]
    <3>1. CASE i = m
      BY <1>4, <3>1
    <3>2. CASE i # m
      BY <1>4, <1>5, <3>2 DEF IsLoop
    <3> QED BY <3>1, <3>2
  <2> HIDE DEF h
  <2> QED BY <2>2, <2>3 DEF IsLoop
<1> QED BY <1>2, <1>6

\* A property of the start that every iteration keeps holds throughout.
LEMMA KeptThroughout ==
  ASSUME NEW n \in Nat, NEW Kept, 0 \in Kept, \A i \in 1 .. n : i - 1 \in Kept => i \in Kept
  PROVE  0 .. n \subseteq Kept
<1> DEFINE Lost == (0 .. n) \ Kept
<1>1. SUFFICES ASSUME Lost # {} PROVE FALSE
  OBVIOUS
<1>2. PICK m \in Lost : \A k \in Lost : m <= k
  <2>1. Lost \in SUBSET Nat
    OBVIOUS
  <2> HIDE DEF Lost
  <2> QED BY <1>1, <2>1, LeastElement
<1>3. m # 0 /\ m \in 0 .. n
  BY <1>2
<1>4. m \in 1 .. n /\ m - 1 \notin Lost /\ m - 1 \in 0 .. n
  <2> HIDE DEF Lost
  <2> QED BY <1>2, <1>3
<1> QED BY <1>2, <1>4

\* What begins and goes on as a loop does is the loop.
LEMMA LoopIsUnique ==
  ASSUME NEW n \in Nat, NEW S, NEW start, NEW body, NEW g, IsLoop(g, n, S, start, body),
         NEW f, f[0] = start, \A i \in 1 .. n : f[i - 1] \in S => f[i] = body[i][f[i - 1]]
  PROVE  \A i \in 0 .. n : f[i] = g[i]
<1> DEFINE Kept == {i \in 0 .. n : f[i] = g[i]}
<1>1. 0 \in Kept
  BY DEF IsLoop
<1>2. ASSUME NEW i \in 1 .. n, i - 1 \in Kept PROVE i \in Kept
  <2>1. i - 1 \in 0 .. n /\ i \in 0 .. n /\ f[i - 1] = g[i - 1] /\ g[i - 1] \in S
    BY <1>2 DEF IsLoop
  <2>2. f[i] = body[i][f[i - 1]] /\ g[i] = body[i][g[i - 1]]
    BY <2>1 DEF IsLoop
  <2> QED BY <2>1, <2>2
<1>3. 0 .. n \subseteq Kept
  <2> HIDE DEF Kept
  <2> QED BY <1>1, <1>2, KeptThroughout
<1> QED BY <1>3

-----------------------------------------------------------------------------
(* Types.                                                                  *)

Index(d) == 0 .. d.size - 1
CounterTable(d) == [Index(d) -> Counter]
PredictorState(d) ==
    [counters : CounterTable(d), global_history : Index(d),
     local_history : [Index(d) -> Index(d)], local_pht : CounterTable(d),
     global_pht : CounterTable(d), choice_pht : CounterTable(d),
     ras : {s \in Seq(Nat) : Len(s) <= d.ras_depth}]
StatsState == [control_total : Nat, hits : Nat, misses : Nat, cond_hits : Nat, cond_misses : Nat,
               indirect_hits : Nat, indirect_misses : Nat]
State(d) == [predictor : PredictorState(d), stats : StatsState]
TransferOf(p) == [inst : p.code, taken : BOOLEAN, target : Nat]

LEMMA DesignType ==
    ASSUME NEW d \in Designs
    PROVE  d.size \in Nat \ {0} /\ d.bits \in Nat /\ d.ras_depth \in Nat /\ 0 \in Index(d)
BY PredictionAssumption DEF Design, Index

LEMMA InstructionType ==
    ASSUME NEW p \in Programs, NEW i \in p.code
    PROVE  /\ i.pc \in Nat /\ i.target \in Nat /\ i.kind \in {"branch", "jal", "jalr"}
           /\ i.call \in BOOLEAN /\ i.return \in BOOLEAN
BY PredictionAssumption DEF Transfer

LEMMA IndexType ==
    ASSUME NEW d \in Designs, NEW p \in Programs, NEW i \in p.code, NEW h \in Index(d)
    PROVE  /\ FoldedIndex(d, i.pc) \in Index(d)
           /\ BitXor(i.pc, h) % d.size \in Index(d)
           /\ LocalIndex(d, i.pc) \in Index(d)
<1>1. {BitXor(i.pc, h), BitXor(i.pc, i.pc \div 16), BitXor(BitXor(i.pc, i.pc \div 16), i.pc \div 256)} \subseteq Nat
  BY XorAssumption DEF Index
<1>2. \A n \in Nat : n % d.size \in Index(d)
  BY DesignType DEF Index
<1> QED BY <1>1, <1>2 DEF FoldedIndex, LocalIndex

LEMMA TrainedType ==
    ASSUME NEW c \in Counter, NEW taken \in BOOLEAN
    PROVE  Trained(c, taken) \in Counter
BY DEF Trained, Counter

LEMMA ShiftedType ==
    ASSUME NEW d \in Designs, NEW h \in Index(d), NEW taken \in BOOLEAN
    PROVE  Shifted(d, h, taken) \in Index(d)
BY DesignType DEF Shifted, One, Index

LEMMA NewType ==
    ASSUME NEW d \in Designs
    PROVE  New(d) \in PredictorState(d) /\ Reset(d, New(d)) = New(d)
<1>1. /\ Table(d, WeaklyTaken) \in CounterTable(d)
      /\ Table(d, 0) \in [Index(d) -> Index(d)]
      /\ <<>> \in {s \in Seq(Nat) : Len(s) <= d.ras_depth}
      /\ 0 \in Index(d)
  BY DesignType DEF Table, WeaklyTaken, CounterTable, Counter, Index
<1>2. New(d) \in PredictorState(d)
  BY <1>1 DEF New, PredictorState
<1>3. d.name \in {"always-not-taken", "ras", "two-bit-saturating", "gshare", "tournament"}
  BY PredictionAssumption DEF Design
<1>4. Reset(d, New(d)) = New(d)
  BY <1>3 DEF Reset, New
<1> QED BY <1>2, <1>4

\* The stack keeps its depth.
LEMMA PushType ==
    ASSUME NEW limit \in Nat, NEW s \in Seq(Nat), Len(s) <= limit, NEW a \in Nat
    PROVE  Push(limit, s, a) \in Seq(Nat) /\ Len(Push(limit, s, a)) <= limit
<1>1. CASE limit = 0
  BY <1>1 DEF Push
<1>2. CASE limit > 0 /\ Len(s) < limit
  <2>1. Push(limit, s, a) = Append(s, a)
    BY <1>2 DEF Push
  <2> QED BY <1>2, <2>1
<1>3. CASE limit > 0 /\ Len(s) = limit
  <2>1. Push(limit, s, a) = Append(Tail(s), a)
    BY <1>3 DEF Push
  <2>2. Tail(s) \in Seq(Nat) /\ Len(Tail(s)) = limit - 1
    BY <1>3
  <2> QED BY <1>3, <2>1, <2>2
<1> QED BY <1>1, <1>2, <1>3

LEMMA ResolvedType ==
    ASSUME NEW limit \in Nat, NEW s \in Seq(Nat), Len(s) <= limit, NEW a \in Nat
    PROVE  Resolved(limit, s, a) \in Seq(Nat) /\ Len(Resolved(limit, s, a)) <= limit
<1>1. CASE s = <<>>
  BY <1>1 DEF Resolved
<1>2. CASE s # <<>>
  <2>1. Len(s) \in Nat /\ Len(s) >= 1
    BY <1>2, EmptySeq
  <2>2. 1 \in 1 .. Len(s) + 1 /\ Len(s) - 1 \in 1 - 1 .. Len(s)
    BY <2>1
  <2>3. /\ Below(s) \in Seq(Nat)
        /\ Len(Below(s)) = IF 1 <= Len(s) - 1 THEN Len(s) - 1 - 1 + 1 ELSE 0
    BY <2>2, SubSeqProperties DEF Below
  <2>4. Len(Below(s)) <= limit
    BY <2>1, <2>3
  <2>5. Push(limit, Below(s), a) \in Seq(Nat) /\ Len(Push(limit, Below(s), a)) <= limit
    BY <2>3, <2>4, PushType
  <2> QED BY <1>2, <2>3, <2>4, <2>5 DEF Resolved
<1> QED BY <1>1, <1>2

LEMMA PredictorFields ==
    ASSUME NEW d \in Designs, NEW p \in PredictorState(d)
    PROVE  /\ p.counters \in CounterTable(d) /\ p.global_history \in Index(d)
           /\ p.local_history \in [Index(d) -> Index(d)] /\ p.local_pht \in CounterTable(d)
           /\ p.global_pht \in CounterTable(d) /\ p.choice_pht \in CounterTable(d)
           /\ p.ras \in Seq(Nat) /\ Len(p.ras) <= d.ras_depth
BY DEF PredictorState

SameTables(p, q) ==
    /\ p.counters = q.counters /\ p.global_history = q.global_history
    /\ p.local_history = q.local_history /\ p.local_pht = q.local_pht
    /\ p.global_pht = q.global_pht /\ p.choice_pht = q.choice_pht

LEMMA SamePredictor ==
    ASSUME NEW d \in Designs, NEW p \in PredictorState(d), NEW q \in PredictorState(d),
           SameTables(p, q), p.ras = q.ras
    PROVE  p = q
BY DEF PredictorState, SameTables

Updated(t, x, v) == [t EXCEPT ![x] = v]

LEMMA TableUpdate ==
    ASSUME NEW S, NEW V, NEW t \in [S -> V], NEW x \in S, NEW v \in V
    PROVE  Updated(t, x, v) \in [S -> V]
BY DEF Updated

LEMMA DirectionType ==
    ASSUME NEW d \in Designs, NEW p \in PredictorState(d), NEW prog \in Programs, NEW i \in prog.code
    PROVE  LocalTaken(d, p, i.pc) \in BOOLEAN /\ GlobalTaken(d, p) \in BOOLEAN
BY DEF LocalTaken, GlobalTaken, CounterIsTaken

LEMMA TournamentType ==
    ASSUME NEW d \in Designs, NEW p \in PredictorState(d), NEW prog \in Programs, NEW i \in prog.code,
           NEW taken \in BOOLEAN
    PROVE  LET q == TrainTournament(d, p, i.pc, taken)
               li == LocalIndex(d, i.pc)
               lh == p.local_history[li]
               h == p.global_history
           IN  /\ q \in PredictorState(d) /\ li \in Index(d) /\ lh \in Index(d)
               /\ q.local_pht = Updated(p.local_pht, lh, Trained(p.local_pht[lh], taken))
               /\ q.global_pht = Updated(p.global_pht, h, Trained(p.global_pht[h], taken))
               /\ q.choice_pht = Updated(p.choice_pht, h, TrainedChoice(p.choice_pht[h], LocalTaken(d, p, i.pc), GlobalTaken(d, p), taken))
               /\ q.local_history = Updated(p.local_history, li, Shifted(d, lh, taken))
               /\ q.global_history = Shifted(d, h, taken)
               /\ q.counters = p.counters /\ q.ras = p.ras
<1> DEFINE q == TrainTournament(d, p, i.pc, taken)
           li == LocalIndex(d, i.pc)
           lh == p.local_history[li]
           h == p.global_history
           local == LocalTaken(d, p, i.pc)
           global == GlobalTaken(d, p)
           local_pht == Updated(p.local_pht, lh, Trained(p.local_pht[lh], taken))
           global_pht == Updated(p.global_pht, h, Trained(p.global_pht[h], taken))
           choice == TrainedChoice(p.choice_pht[h], local, global, taken)
           choice_pht == Updated(p.choice_pht, h, choice)
           local_history == Updated(p.local_history, li, Shifted(d, lh, taken))
           history == Shifted(d, h, taken)
<1>1. q = [p EXCEPT !.local_pht = local_pht, !.global_pht = global_pht, !.choice_pht = choice_pht,
                    !.local_history = local_history, !.global_history = history]
  BY DEF TrainTournament, Updated
<1>2. li \in Index(d) /\ local \in BOOLEAN /\ global \in BOOLEAN
  BY PredictorFields, IndexType, DirectionType
<1>3. h \in Index(d) /\ lh \in Index(d)
  BY <1>2, PredictorFields
<1>4. p.local_pht[lh] \in Counter /\ p.global_pht[h] \in Counter /\ p.choice_pht[h] \in Counter
  BY <1>3, PredictorFields DEF CounterTable
<1> HIDE DEF li, lh, h, local, global
<1>5. choice \in Counter
  <2>1. (local = taken) \in BOOLEAN
    OBVIOUS
  <2> QED BY <1>2, <1>4, <2>1, TrainedType DEF TrainedChoice
<1> HIDE DEF choice
<1>6. local_pht \in CounterTable(d) /\ global_pht \in CounterTable(d) /\ choice_pht \in CounterTable(d)
  BY <1>3, <1>4, <1>5, PredictorFields, TrainedType, TableUpdate DEF CounterTable
<1>7. local_history \in [Index(d) -> Index(d)] /\ history \in Index(d)
  BY <1>2, <1>3, PredictorFields, ShiftedType, TableUpdate
<1> HIDE DEF q, local_pht, global_pht, choice_pht, local_history, history
<1>8. q \in PredictorState(d)
  BY <1>1, <1>6, <1>7 DEF PredictorState
<1>9. /\ q.local_pht = local_pht /\ q.global_pht = global_pht /\ q.choice_pht = choice_pht
      /\ q.local_history = local_history /\ q.global_history = history
      /\ q.counters = p.counters /\ q.ras = p.ras
  BY <1>1 DEF PredictorState
<1> QED BY <1>2, <1>3, <1>8, <1>9
        DEF q, li, lh, h, local, global, local_pht, global_pht, choice, choice_pht, local_history, history

LEMMA GshareType ==
    ASSUME NEW d \in Designs, NEW p \in PredictorState(d), NEW prog \in Programs, NEW i \in prog.code,
           NEW taken \in BOOLEAN
    PROVE  LET q == TrainGshare(d, p, i.pc, taken)
               x == GshareIndex(d, p, i.pc)
           IN  /\ q \in PredictorState(d) /\ x \in Index(d)
               /\ q.counters = Updated(p.counters, x, Trained(p.counters[x], taken))
               /\ q.global_history = Shifted(d, p.global_history, taken)
               /\ q.local_history = p.local_history /\ q.local_pht = p.local_pht
               /\ q.global_pht = p.global_pht /\ q.choice_pht = p.choice_pht /\ q.ras = p.ras
<1> DEFINE q == TrainGshare(d, p, i.pc, taken)
           x == GshareIndex(d, p, i.pc)
           counters == Updated(p.counters, x, Trained(p.counters[x], taken))
           history == Shifted(d, p.global_history, taken)
<1>1. q = [p EXCEPT !.counters = counters, !.global_history = history]
  BY DEF TrainGshare, Updated
<1>2. x \in Index(d)
  BY PredictorFields, IndexType DEF GshareIndex
<1> HIDE DEF x
<1>3. p.counters[x] \in Counter
  BY <1>2, PredictorFields DEF CounterTable
<1>4. counters \in CounterTable(d) /\ history \in Index(d)
  BY <1>2, <1>3, PredictorFields, TrainedType, ShiftedType, TableUpdate DEF CounterTable
<1> HIDE DEF q, counters, history
<1>5. q \in PredictorState(d)
  BY <1>1, <1>4 DEF PredictorState
<1>6. /\ q.counters = counters /\ q.global_history = history
      /\ q.local_history = p.local_history /\ q.local_pht = p.local_pht
      /\ q.global_pht = p.global_pht /\ q.choice_pht = p.choice_pht /\ q.ras = p.ras
  BY <1>1 DEF PredictorState
<1> QED BY <1>2, <1>5, <1>6 DEF q, x, counters, history

TrainTwoBit(d, p, pc, taken) == [p EXCEPT !.counters[FoldedIndex(d, pc)] = Trained(@, taken)]

LEMMA TwoBitType ==
    ASSUME NEW d \in Designs, NEW p \in PredictorState(d), NEW prog \in Programs, NEW i \in prog.code,
           NEW taken \in BOOLEAN
    PROVE  LET x == FoldedIndex(d, i.pc)
               q == TrainTwoBit(d, p, i.pc, taken)
           IN  /\ q \in PredictorState(d) /\ x \in Index(d)
               /\ q.counters = Updated(p.counters, x, Trained(p.counters[x], taken))
               /\ q.global_history = p.global_history
               /\ q.local_history = p.local_history /\ q.local_pht = p.local_pht
               /\ q.global_pht = p.global_pht /\ q.choice_pht = p.choice_pht /\ q.ras = p.ras
<1> DEFINE x == FoldedIndex(d, i.pc)
           q == TrainTwoBit(d, p, i.pc, taken)
           counters == Updated(p.counters, x, Trained(p.counters[x], taken))
<1>1. q = [p EXCEPT !.counters = counters]
  BY DEF TrainTwoBit, Updated
<1>2. x \in Index(d)
  <2>1. 0 \in Index(d)
    BY DesignType
  <2> QED BY <2>1, IndexType
<1> HIDE DEF x
<1>3. p.counters[x] \in Counter
  BY <1>2, PredictorFields DEF CounterTable
<1>4. counters \in CounterTable(d)
  BY <1>2, <1>3, PredictorFields, TrainedType, TableUpdate DEF CounterTable
<1> HIDE DEF q, counters
<1>5. q \in PredictorState(d)
  BY <1>1, <1>4 DEF PredictorState
<1>6. /\ q.counters = counters /\ q.global_history = p.global_history
      /\ q.local_history = p.local_history /\ q.local_pht = p.local_pht
      /\ q.global_pht = p.global_pht /\ q.choice_pht = p.choice_pht /\ q.ras = p.ras
  BY <1>1 DEF PredictorState
<1> QED BY <1>2, <1>5, <1>6 DEF q, x, counters

LEMMA CallsType ==
    ASSUME NEW d \in Designs, NEW p \in PredictorState(d), NEW prog \in Programs, NEW i \in prog.code,
           NEW next_pc \in Nat
    PROVE  LET q == CallsResolved(d, p, i, next_pc)
           IN  q \in PredictorState(d) /\ SameTables(q, p)
<1>1. /\ p.ras \in Seq(Nat) /\ Len(p.ras) <= d.ras_depth
      /\ d.ras_depth \in Nat /\ i.pc + 4 \in Nat
  BY DesignType, InstructionType DEF PredictorState
<1>2. \A s \in Seq(Nat) :
          LET q == [p EXCEPT !.ras = s]
          IN  Len(s) <= d.ras_depth => q \in PredictorState(d) /\ SameTables(q, p)
  BY DEF PredictorState, SameTables
<1>3. CASE i.call
  <2>1. CallsResolved(d, p, i, next_pc) = [p EXCEPT !.ras = Push(d.ras_depth, p.ras, i.pc + 4)]
    BY <1>3 DEF CallsResolved, PredictorState
  <2> QED BY <1>1, <1>2, <2>1, PushType
<1>4. CASE ~i.call /\ i.return
  <2>1. CallsResolved(d, p, i, next_pc) = [p EXCEPT !.ras = Resolved(d.ras_depth, p.ras, next_pc)]
    BY <1>4 DEF CallsResolved, PredictorState
  <2> QED BY <1>1, <1>2, <2>1, ResolvedType
<1>5. CASE ~i.call /\ ~i.return
  BY <1>5 DEF CallsResolved, SameTables
<1> QED BY <1>3, <1>4, <1>5

DesignNames == {"always-not-taken", "ras", "two-bit-saturating", "gshare", "tournament"}

LEMMA ResolveCases ==
    ASSUME NEW d \in Designs, NEW prog \in Programs, NEW i \in prog.code,
           NEW p, NEW taken, NEW next_pc
    PROVE  LET q == Resolve(d, p, i, taken, next_pc)
           IN  /\ d.name \in DesignNames
               /\ d.name = "always-not-taken" => q = p
               /\ d.name # "always-not-taken" /\ i.kind # "branch" => q = CallsResolved(d, p, i, next_pc)
               /\ d.name = "ras" /\ i.kind = "branch" => q = p
               /\ d.name = "two-bit-saturating" /\ i.kind = "branch"
                      => q = TrainTwoBit(d, p, i.pc, taken)
               /\ d.name = "gshare" /\ i.kind = "branch" => q = TrainGshare(d, p, i.pc, taken)
               /\ d.name = "tournament" /\ i.kind = "branch" => q = TrainTournament(d, p, i.pc, taken)
<1>1. d.name \in DesignNames
  BY PredictionAssumption DEF Design, DesignNames
<1> QED BY <1>1 DEF Resolve, DesignNames, TrainTwoBit

LEMMA ResolveType ==
    ASSUME NEW d \in Designs, NEW p \in PredictorState(d), NEW prog \in Programs, NEW i \in prog.code,
           NEW taken \in BOOLEAN, NEW next_pc \in Nat
    PROVE  Resolve(d, p, i, taken, next_pc) \in PredictorState(d)
<1>1. CallsResolved(d, p, i, next_pc) \in PredictorState(d)
  BY CallsType
<1>2. TrainTwoBit(d, p, i.pc, taken) \in PredictorState(d)
  BY TwoBitType
<1>3. TrainGshare(d, p, i.pc, taken) \in PredictorState(d)
  BY GshareType
<1>4. TrainTournament(d, p, i.pc, taken) \in PredictorState(d)
  BY TournamentType
<1> DEFINE q == Resolve(d, p, i, taken, next_pc)
<1>5. \/ q = p \/ q = CallsResolved(d, p, i, next_pc) \/ q = TrainTwoBit(d, p, i.pc, taken)
      \/ q = TrainGshare(d, p, i.pc, taken) \/ q = TrainTournament(d, p, i.pc, taken)
  BY ResolveCases DEF DesignNames
<1> HIDE DEF q
<1>6. q \in PredictorState(d)
  BY <1>1, <1>2, <1>3, <1>4, <1>5
<1> QED BY <1>6 DEF q

LEMMA CountedType ==
    ASSUME NEW s \in StatsState, NEW i, NEW hit
    PROVE  Counted(s, i, hit) \in StatsState /\ Counted(s, i, hit).control_total = s.control_total + 1
BY DEF Counted, StatsState, One

LEMMA RecordedType ==
    ASSUME NEW d \in Designs, NEW prog \in Programs, NEW r \in TransferOf(prog), NEW ps \in State(d)
    PROVE  Recorded(d, ps, r) \in State(d)
<1>1. r.inst \in prog.code /\ r.taken \in BOOLEAN /\ r.target \in Nat
  BY DEF TransferOf
<1>2. ps.predictor \in PredictorState(d) /\ ps.stats \in StatsState
  BY DEF State
<1>3. Resolve(d, ps.predictor, r.inst, r.taken, r.target) \in PredictorState(d)
  BY <1>1, <1>2, ResolveType
<1>4. Counted(ps.stats, r.inst, PredictedPc(d, ps.predictor, r.inst) = r.target) \in StatsState
  BY <1>2, CountedType
<1> QED BY <1>3, <1>4 DEF Recorded, State

\* reset() leaves the tables a design uses as they were made.
LEMMA ResetCases ==
    ASSUME NEW d \in Designs, NEW p \in PredictorState(d)
    PROVE  LET q == Reset(d, p)
               n == New(d)
           IN  /\ q \in PredictorState(d)
               /\ q.counters = IF d.name \in {"two-bit-saturating", "gshare"} THEN n.counters ELSE p.counters
               /\ q.global_history = IF d.name \in {"gshare", "tournament"} THEN n.global_history
                                     ELSE p.global_history
               /\ q.local_history = IF d.name = "tournament" THEN n.local_history ELSE p.local_history
               /\ q.local_pht = IF d.name = "tournament" THEN n.local_pht ELSE p.local_pht
               /\ q.global_pht = IF d.name = "tournament" THEN n.global_pht ELSE p.global_pht
               /\ q.choice_pht = IF d.name = "tournament" THEN n.choice_pht ELSE p.choice_pht
               /\ q.ras = IF d.name = "always-not-taken" THEN p.ras ELSE n.ras
<1> DEFINE w == Table(d, WeaklyTaken)
           z == Table(d, 0)
<1>1. /\ w \in CounterTable(d) /\ z \in [Index(d) -> Index(d)] /\ 0 \in Index(d)
      /\ <<>> \in {s \in Seq(Nat) : Len(s) <= d.ras_depth}
  BY DesignType DEF Table, WeaklyTaken, CounterTable, Counter, Index
<1>2. /\ New(d).counters = w /\ New(d).global_history = 0 /\ New(d).local_history = z
      /\ New(d).local_pht = w /\ New(d).global_pht = w /\ New(d).choice_pht = w /\ New(d).ras = <<>>
  BY DEF New
<1>3. d.name \in DesignNames
  BY PredictionAssumption DEF Design, DesignNames
<1> HIDE DEF w, z
<1>4. CASE d.name = "always-not-taken"
  BY <1>2, <1>4 DEF Reset
<1>5. CASE d.name = "ras"
  <2>1. Reset(d, p) = [p EXCEPT !.ras = <<>>]
    BY <1>5 DEF Reset
  <2> QED BY <1>1, <1>2, <1>5, <2>1 DEF PredictorState
<1>6. CASE d.name = "two-bit-saturating"
  <2>1. Reset(d, p) = [p EXCEPT !.counters = w, !.ras = <<>>]
    BY <1>6 DEF Reset, w
  <2> QED BY <1>1, <1>2, <1>6, <2>1 DEF PredictorState
<1>7. CASE d.name = "gshare"
  <2>1. Reset(d, p) = [p EXCEPT !.counters = w, !.global_history = 0, !.ras = <<>>]
    BY <1>7 DEF Reset, w
  <2> QED BY <1>1, <1>2, <1>7, <2>1 DEF PredictorState
<1>8. CASE d.name = "tournament"
  <2>1. Reset(d, p) = [p EXCEPT !.local_history = z, !.local_pht = w, !.global_pht = w,
                                !.choice_pht = w, !.global_history = 0, !.ras = <<>>]
    BY <1>8 DEF Reset, w, z
  <2> QED BY <1>1, <1>2, <1>8, <2>1 DEF PredictorState
<1> QED BY <1>3, <1>4, <1>5, <1>6, <1>7, <1>8 DEF DesignNames

\* What reset() leaves does not depend on what was learned.
LEMMA ResetForgets ==
    ASSUME NEW d \in Designs, NEW p \in PredictorState(d), NEW prog \in Programs, NEW i \in prog.code,
           NEW taken \in BOOLEAN, NEW next_pc \in Nat, Reset(d, p) = New(d)
    PROVE  Reset(d, Resolve(d, p, i, taken, next_pc)) = New(d)
<1> DEFINE q == Resolve(d, p, i, taken, next_pc)
           n == New(d)
<1>1. q \in PredictorState(d) /\ n \in PredictorState(d) /\ d.name \in DesignNames
  BY ResolveType, NewType, ResolveCases
<1>2. /\ d.name \notin {"two-bit-saturating", "gshare"} => q.counters = p.counters
      /\ d.name \notin {"gshare", "tournament"} => q.global_history = p.global_history
      /\ d.name # "tournament" => /\ q.local_history = p.local_history /\ q.local_pht = p.local_pht
                                  /\ q.global_pht = p.global_pht /\ q.choice_pht = p.choice_pht
      /\ d.name = "always-not-taken" => q.ras = p.ras
  <2>1. CASE d.name = "always-not-taken" \/ (d.name = "ras" /\ i.kind = "branch")
    <3>1. q = p
      BY <2>1, ResolveCases
    <3> HIDE DEF q
    <3> QED BY <3>1
  <2>2. CASE d.name # "always-not-taken" /\ i.kind # "branch"
    <3>1. SameTables(q, p)
      BY <2>2, ResolveCases, CallsType
    <3> HIDE DEF q
    <3> QED BY <2>2, <3>1 DEF SameTables
  <2>3. CASE d.name = "two-bit-saturating" /\ i.kind = "branch"
    <3>1. q = TrainTwoBit(d, p, i.pc, taken)
      BY <2>3, ResolveCases
    <3> DEFINE g == TrainTwoBit(d, p, i.pc, taken)
    <3>2. /\ g.global_history = p.global_history
          /\ g.local_history = p.local_history /\ g.local_pht = p.local_pht
          /\ g.global_pht = p.global_pht /\ g.choice_pht = p.choice_pht
      BY TwoBitType
    <3> HIDE DEF q, g
    <3> QED BY <2>3, <3>1, <3>2 DEF g
  <2>4. CASE d.name = "gshare" /\ i.kind = "branch"
    <3> DEFINE g == TrainGshare(d, p, i.pc, taken)
    <3>1. q = g
      BY <2>4, ResolveCases
    <3>2. /\ g.local_history = p.local_history /\ g.local_pht = p.local_pht
          /\ g.global_pht = p.global_pht /\ g.choice_pht = p.choice_pht
      BY GshareType
    <3> HIDE DEF q, g
    <3> QED BY <2>4, <3>1, <3>2
  <2>5. CASE d.name = "tournament" /\ i.kind = "branch"
    <3> DEFINE g == TrainTournament(d, p, i.pc, taken)
    <3>1. q = g
      BY <2>5, ResolveCases
    <3>2. g.counters = p.counters
      BY TournamentType
    <3> HIDE DEF q, g
    <3> QED BY <2>5, <3>1, <3>2
  <2> QED BY <1>1, <2>1, <2>2, <2>3, <2>4, <2>5 DEF DesignNames
<1> HIDE DEF q, n
<1>3. Reset(d, q) \in PredictorState(d) /\ Reset(d, p) \in PredictorState(d)
  BY <1>1, ResetCases
<1>4. SameTables(Reset(d, q), Reset(d, p))
  <2>1. Reset(d, q).counters = Reset(d, p).counters
    BY <1>1, <1>2, ResetCases
  <2>2. Reset(d, q).global_history = Reset(d, p).global_history
    BY <1>1, <1>2, ResetCases
  <2>3. /\ Reset(d, q).local_history = Reset(d, p).local_history
        /\ Reset(d, q).local_pht = Reset(d, p).local_pht
        /\ Reset(d, q).global_pht = Reset(d, p).global_pht
        /\ Reset(d, q).choice_pht = Reset(d, p).choice_pht
    BY <1>1, <1>2, ResetCases
  <2> QED BY <2>1, <2>2, <2>3 DEF SameTables
<1>5. Reset(d, q).ras = Reset(d, p).ras
  BY <1>1, <1>2, ResetCases
<1>6. Reset(d, q) = Reset(d, p)
  BY <1>3, <1>4, <1>5, SamePredictor
<1> QED BY <1>6 DEF q

-----------------------------------------------------------------------------
(* Replays are loops over the recorded transfers.                          *)

ReplayStart(p) == [predictor |-> p, stats |-> NoStats]
ReplayBody(d, t) == [k \in 1 .. Len(t) |-> [ps \in State(d) |-> Recorded(d, ps, t[k])]]

LEMMA ReplayIsLoop ==
    ASSUME NEW d \in Designs, NEW prog \in Programs, NEW t \in Seq(TransferOf(prog)),
           NEW p \in PredictorState(d)
    PROVE  \E g : /\ IsLoop(g, Len(t), State(d), ReplayStart(p), ReplayBody(d, t))
                  /\ Replay(d, p, t) = g[Len(t)]
<1>1. Len(t) \in Nat /\ \A k \in 1 .. Len(t) : t[k] \in TransferOf(prog)
  BY LenProperties, ElementOfSeq
<1>2. ReplayStart(p) \in State(d)
  BY DEF ReplayStart, State, StatsState, NoStats
<1>3. \A k \in 1 .. Len(t) : ReplayBody(d, t)[k] \in [State(d) -> State(d)]
  <2>1. \A k \in 1 .. Len(t), ps \in State(d) : Recorded(d, ps, t[k]) \in State(d)
    BY <1>1, RecordedType
  <2> QED BY <2>1 DEF ReplayBody
<1>4. PICK g : IsLoop(g, Len(t), State(d), ReplayStart(p), ReplayBody(d, t))
  <2> DEFINE start == ReplayStart(p)
             body == ReplayBody(d, t)
             S == State(d)
             n == Len(t)
  <2> HIDE DEF start, body, S, n
  <2>1. \E g : IsLoop(g, n, S, start, body)
    BY <1>1, <1>2, <1>3, LoopRuns DEF start, body, S, n
  <2> QED BY <2>1 DEF start, body, S, n
<1> DEFINE Step(f) == [k \in 0 .. Len(t) |-> IF k = 0 THEN [predictor |-> p, stats |-> NoStats]
                                             ELSE Recorded(d, f[k - 1], t[k])]
           IsUpto(f) == f = Step(f)
           upto == CHOOSE f : IsUpto(f)
<1>5. Replay(d, p, t) = upto[Len(t)]
  BY DEF Replay
<1>6. IsUpto(g)
  <2>1. g = [k \in 0 .. Len(t) |-> g[k]]
    BY <1>4 DEF IsLoop
  <2>2. \A k \in 0 .. Len(t) :
            g[k] = IF k = 0 THEN [predictor |-> p, stats |-> NoStats] ELSE Recorded(d, g[k - 1], t[k])
    <3> SUFFICES ASSUME NEW k \in 0 .. Len(t), k # 0 PROVE g[k] = Recorded(d, g[k - 1], t[k])
      BY <1>4 DEF IsLoop, ReplayStart
    <3>1. k \in 1 .. Len(t) /\ k - 1 \in 0 .. Len(t)
      BY <1>1
    <3>2. g[k] = ReplayBody(d, t)[k][g[k - 1]] /\ g[k - 1] \in State(d)
      BY <1>4, <3>1 DEF IsLoop
    <3> QED BY <3>1, <3>2 DEF ReplayBody
  <2> QED BY <2>1, <2>2
<1>7. IsUpto(upto)
  <2> HIDE DEF IsUpto
  <2> QED BY <1>6
<1>8. \A k \in 0 .. Len(t) : upto[k] = g[k]
  <2>1. upto[0] = ReplayStart(p)
    <3> HIDE DEF upto
    <3> QED BY <1>1, <1>7 DEF ReplayStart
  <2>2. ASSUME NEW k \in 1 .. Len(t), upto[k - 1] \in State(d)
        PROVE  upto[k] = ReplayBody(d, t)[k][upto[k - 1]]
    <3> HIDE DEF upto
    <3>1. upto[k] = Recorded(d, upto[k - 1], t[k])
      BY <1>1, <1>7
    <3> QED BY <2>2, <3>1 DEF ReplayBody
  <2> HIDE DEF upto
  <2> DEFINE body == ReplayBody(d, t)
             n == Len(t)
  <2> HIDE DEF body, n
  <2>3. \A k \in 1 .. n : upto[k - 1] \in State(d) => upto[k] = body[k][upto[k - 1]]
    BY <2>2 DEF body, n
  <2>4. \A k \in 0 .. n : upto[k] = g[k]
    BY <1>1, <1>4, <2>1, <2>3, LoopIsUnique DEF body, n
  <2> QED BY <2>4 DEF n
<1> QED BY <1>1, <1>4, <1>5, <1>8

LEMMA ReplayType ==
    ASSUME NEW d \in Designs, NEW prog \in Programs, NEW t \in Seq(TransferOf(prog)),
           NEW p \in PredictorState(d)
    PROVE  Replay(d, p, t) \in State(d) /\ Replay(d, p, <<>>) = ReplayStart(p)
<1>1. Len(t) \in Nat /\ <<>> \in Seq(TransferOf(prog)) /\ Len(<<>>) = 0
  BY LenProperties
<1>2. Replay(d, p, t) \in State(d)
  BY <1>1, ReplayIsLoop DEF IsLoop
<1>3. Replay(d, p, <<>>) = ReplayStart(p)
  BY <1>1, ReplayIsLoop DEF IsLoop
<1> QED BY <1>2, <1>3

\* A longer trace is replayed by replaying the shorter one and recording the rest.
LEMMA ReplayGrows ==
    ASSUME NEW d \in Designs, NEW prog \in Programs, NEW t \in Seq(TransferOf(prog)),
           NEW r \in TransferOf(prog), NEW p \in PredictorState(d)
    PROVE  Replay(d, p, Append(t, r)) = Recorded(d, Replay(d, p, t), r)
<1> DEFINE u == Append(t, r)
           n == Len(t)
<1>1. /\ u \in Seq(TransferOf(prog)) /\ n \in Nat /\ Len(u) = n + 1 /\ u[n + 1] = r
      /\ \A k \in 1 .. n : u[k] = t[k]
  BY LenProperties, AppendProperties
<1> HIDE DEF u
<1>2. PICK f : /\ IsLoop(f, n, State(d), ReplayStart(p), ReplayBody(d, t))
               /\ Replay(d, p, t) = f[n]
  BY ReplayIsLoop
<1>3. PICK g : /\ IsLoop(g, n + 1, State(d), ReplayStart(p), ReplayBody(d, u))
               /\ Replay(d, p, u) = g[n + 1]
  BY <1>1, ReplayIsLoop
<1> HIDE DEF n
<1>4. \A k \in 1 .. n : \A ps \in State(d) : ReplayBody(d, u)[k][ps] = ReplayBody(d, t)[k][ps]
  BY <1>1 DEF ReplayBody, n
<1>5. \A k \in 1 .. n : g[k - 1] \in State(d) => g[k] = ReplayBody(d, t)[k][g[k - 1]]
  BY <1>1, <1>3, <1>4 DEF IsLoop
<1>6. g[0] = ReplayStart(p)
  BY <1>3 DEF IsLoop
<1>7. g[n] = f[n]
  <2> DEFINE start == ReplayStart(p)
             body == ReplayBody(d, t)
             S == State(d)
  <2> HIDE DEF start, body, S
  <2>1. IsLoop(f, n, S, start, body) /\ g[0] = start
    BY <1>2, <1>6 DEF start, body, S
  <2>2. \A k \in 1 .. n : g[k - 1] \in S => g[k] = body[k][g[k - 1]]
    BY <1>5 DEF body, S
  <2>3. \A k \in 0 .. n : g[k] = f[k]
    BY <1>1, <2>1, <2>2, LoopIsUnique
  <2> QED BY <1>1, <2>3
<1>8. n + 1 \in 1 .. n + 1 /\ g[n] \in State(d)
  BY <1>1, <1>3 DEF IsLoop
<1>9. g[n + 1] = ReplayBody(d, u)[n + 1][g[n]]
  BY <1>1, <1>3, <1>8 DEF IsLoop
<1>10. g[n + 1] = Recorded(d, g[n], r)
  BY <1>1, <1>8, <1>9 DEF ReplayBody
<1> QED BY <1>2, <1>3, <1>7, <1>10 DEF u

-----------------------------------------------------------------------------
(* The run and its recording.                                              *)

\* Every field in its range, and a trace no longer than the run.
TypeInv ==
    /\ design \in Designs
    /\ program \in Programs
    /\ predictor \in PredictorState(design)
    /\ stats \in StatsState
    /\ trace \in Seq(TransferOf(program))
    /\ Len(trace) <= MaxTrace
    /\ Len(trace) <= stats.control_total

\* A step records one legal transfer.
StepOf(r) ==
    LET ps == Recorded(design, [predictor |-> predictor, stats |-> stats], r)
    IN  /\ r \in TransferOf(program)
        /\ predictor' = ps.predictor
        /\ stats' = ps.stats
        /\ trace' = IF Len(trace) < MaxTrace THEN Append(trace, r) ELSE trace
        /\ program' = program /\ design' = design

LEMMA StepRecords ==
    ASSUME TypeInv, Next
    PROVE  \E r \in TransferOf(program) : StepOf(r)
<1>1. PICK i \in program.code : Executed(i)
  BY DEF Next
<1>2. PICK o \in Outcomes(i) :
          LET r == [inst |-> i, taken |-> o.taken, target |-> o.target]
              ps == Recorded(design, [predictor |-> predictor, stats |-> stats], r)
          IN  /\ predictor' = ps.predictor
              /\ stats' = ps.stats
              /\ trace' = IF Len(trace) < MaxTrace THEN Append(trace, r) ELSE trace
              /\ UNCHANGED <<program, design>>
  BY <1>1 DEF Executed
<1> DEFINE r == [inst |-> i, taken |-> o.taken, target |-> o.target]
<1>3. r \in TransferOf(program)
  <2>1. /\ i.pc \in Nat /\ i.target \in Nat /\ i.kind \in {"branch", "jal", "jalr"}
        /\ JumpTargets \subseteq Nat
    BY InstructionType, PredictionAssumption DEF TypeInv
  <2>2. o.taken \in BOOLEAN /\ o.target \in Nat
    <3> DEFINE to == i.target
               next == i.pc + 4
    <3>0. to \in Nat /\ next \in Nat
      BY <2>1
    <3>1. CASE i.kind = "branch"
      <4>1. Outcomes(i) = {[taken |-> TRUE, target |-> i.target], [taken |-> FALSE, target |-> i.pc + 4]}
        BY <3>1 DEF Outcomes
      <4> HIDE DEF to, next
      <4>2. o = [taken |-> TRUE, target |-> to] \/ o = [taken |-> FALSE, target |-> next]
        BY <4>1 DEF to, next
      <4>3. CASE o = [taken |-> TRUE, target |-> to]
        BY <3>0, <4>3
      <4>4. CASE o = [taken |-> FALSE, target |-> next]
        BY <3>0, <4>4
      <4> QED BY <4>2, <4>3, <4>4
    <3>2. CASE i.kind = "jal"
      <4>1. Outcomes(i) = {[taken |-> TRUE, target |-> i.target]}
        BY <3>2 DEF Outcomes
      <4> HIDE DEF to
      <4>2. o = [taken |-> TRUE, target |-> to]
        BY <4>1 DEF to
      <4> QED BY <3>0, <4>2
    <3>3. CASE i.kind = "jalr"
      <4>1. Outcomes(i) = {[taken |-> TRUE, target |-> t] : t \in JumpTargets}
        BY <3>3 DEF Outcomes
      <4>2. PICK t \in JumpTargets : o = [taken |-> TRUE, target |-> t]
        BY <4>1
      <4> QED BY <2>1, <4>2
    <3> QED BY <2>1, <3>1, <3>2, <3>3
  <2> QED BY <2>2 DEF TransferOf
<1>4. StepOf(r)
  <2> DEFINE ps == Recorded(design, [predictor |-> predictor, stats |-> stats], r)
  <2>1. /\ predictor' = ps.predictor
        /\ stats' = ps.stats
        /\ trace' = IF Len(trace) < MaxTrace THEN Append(trace, r) ELSE trace
        /\ program' = program /\ design' = design
    BY <1>2
  <2> HIDE DEF r
  <2> QED BY <1>3, <2>1 DEF StepOf
<1> QED BY <1>3, <1>4

LEMMA StepEffect ==
    ASSUME TypeInv, NEW r \in TransferOf(program), StepOf(r)
    PROVE  /\ TypeInv'
           /\ predictor' = Resolve(design, predictor, r.inst, r.taken, r.target)
           /\ stats'.control_total = stats.control_total + 1
           /\ TraceIsComplete' => TraceIsComplete /\ trace' = Append(trace, r)
<1> DEFINE ps == [predictor |-> predictor, stats |-> stats]
           qs == Recorded(design, ps, r)
<1>1. predictor' = qs.predictor /\ stats' = qs.stats /\ program' = program /\ design' = design
  BY DEF StepOf
<1>2. ps \in State(design)
  BY DEF TypeInv, State
<1>3. qs \in State(design)
  BY <1>2, RecordedType DEF TypeInv
<1>4. /\ qs.predictor = Resolve(design, predictor, r.inst, r.taken, r.target)
      /\ qs.stats = Counted(stats, r.inst, PredictedPc(design, predictor, r.inst) = r.target)
  BY DEF Recorded
<1>5. stats'.control_total = stats.control_total + 1
  BY <1>1, <1>4, CountedType DEF TypeInv
<1> HIDE DEF qs
<1>6. predictor' \in PredictorState(design) /\ stats' \in StatsState
  BY <1>1, <1>3 DEF State
<1>7. /\ Len(trace) \in Nat /\ stats.control_total \in Nat /\ MaxTrace \in Nat
      /\ Append(trace, r) \in Seq(TransferOf(program)) /\ Len(Append(trace, r)) = Len(trace) + 1
  BY LenProperties, AppendProperties, PredictionAssumption DEF TypeInv, StatsState
<1>8. /\ trace' \in Seq(TransferOf(program)) /\ Len(trace') <= MaxTrace
      /\ Len(trace') <= stats.control_total + 1
      /\ Len(trace') = stats.control_total + 1
             => Len(trace) = stats.control_total /\ trace' = Append(trace, r)
  <2>1. CASE Len(trace) < MaxTrace
    <3>1. trace' = Append(trace, r)
      BY <2>1 DEF StepOf
    <3> QED BY <1>7, <2>1, <3>1 DEF TypeInv
  <2>2. CASE ~(Len(trace) < MaxTrace)
    <3>1. trace' = trace
      BY <2>2 DEF StepOf
    <3> QED BY <1>7, <2>2, <3>1 DEF TypeInv
  <2> QED BY <2>1, <2>2
<1>9. TypeInv'
  BY <1>1, <1>5, <1>6, <1>8 DEF TypeInv
<1>10. TraceIsComplete' => TraceIsComplete /\ trace' = Append(trace, r)
  BY <1>5, <1>8 DEF TraceIsComplete
<1> QED BY <1>1, <1>4, <1>5, <1>9, <1>10

LEMMA TypeStart == ASSUME Init PROVE TypeInv
<1>1. predictor = New(design) /\ predictor \in PredictorState(design)
  BY NewType DEF Init
<1>2. stats \in StatsState /\ stats.control_total = 0
  BY DEF Init, NoStats, StatsState
<1>3. trace \in Seq(TransferOf(program)) /\ Len(trace) = 0 /\ MaxTrace \in Nat
  BY PredictionAssumption DEF Init
<1> QED BY <1>1, <1>2, <1>3 DEF Init, TypeInv

\* Tables hold two-bit counters, histories index their tables and the stack and
\* the trace keep to their limits (branch_predictor.hpp:96-101, gshare.cpp:24-45,
\* tournament.cpp:28-72).
THEOREM TypeCorrect == Spec => []TypeInv
<1>1. TypeInv /\ [Next]_vars => TypeInv'
  <2> SUFFICES ASSUME TypeInv, [Next]_vars PROVE TypeInv'
    OBVIOUS
  <2>1. CASE Next
    BY <2>1, StepRecords, StepEffect
  <2>2. CASE UNCHANGED vars
    BY <2>2 DEF TypeInv, vars
  <2> QED BY <2>1, <2>2
<1> QED BY <1>1, TypeStart, PTL DEF Spec

\* The recording tells the whole of what was learned, and reset() forgets it.
Replayable ==
    /\ Reset(design, predictor) = New(design)
    /\ TraceIsComplete => Replay(design, New(design), trace) = [predictor |-> predictor, stats |-> stats]

THEOREM RecordingIsExact == Spec => []Replayable
<1>1. Init => Replayable
  <2> SUFFICES ASSUME Init PROVE Replayable
    OBVIOUS
  <2>1. predictor = New(design) /\ Reset(design, New(design)) = New(design) /\ design \in Designs
    BY NewType DEF Init
  <2>2. New(design) \in PredictorState(design) /\ <<>> \in Seq(TransferOf(program)) /\ program \in Programs
    BY NewType DEF Init
  <2>3. Replay(design, New(design), <<>>) = ReplayStart(New(design))
    BY <2>1, <2>2, ReplayType
  <2> QED BY <2>1, <2>3 DEF Init, Replayable, ReplayStart
<1>2. TypeInv /\ Replayable /\ [Next]_vars => Replayable'
  <2> SUFFICES ASSUME TypeInv, Replayable, [Next]_vars PROVE Replayable'
    OBVIOUS
  <2>1. CASE Next
    <3>1. PICK r \in TransferOf(program) : StepOf(r)
      BY <2>1, StepRecords
    <3>2. /\ predictor' = Resolve(design, predictor, r.inst, r.taken, r.target)
          /\ design' = design
          /\ TraceIsComplete' => TraceIsComplete /\ trace' = Append(trace, r)
      BY <3>1, StepEffect DEF StepOf
    <3>3. Reset(design, predictor') = New(design)
      <4>1. r.inst \in program.code /\ r.taken \in BOOLEAN /\ r.target \in Nat
        BY DEF TransferOf
      <4> QED BY <3>2, <4>1, ResetForgets DEF TypeInv, Replayable
    <3>4. ASSUME TraceIsComplete'
          PROVE  Replay(design, New(design), trace') = [predictor |-> predictor', stats |-> stats']
      <4>1. Replay(design, New(design), trace) = [predictor |-> predictor, stats |-> stats]
        BY <3>2, <3>4 DEF Replayable
      <4>2. New(design) \in PredictorState(design)
        BY NewType DEF TypeInv
      <4>3. Replay(design, New(design), Append(trace, r))
                = Recorded(design, [predictor |-> predictor, stats |-> stats], r)
        BY <4>1, <4>2, ReplayGrows DEF TypeInv
      <4> DEFINE qs == Recorded(design, [predictor |-> predictor, stats |-> stats], r)
      <4>4. qs = [predictor |-> qs.predictor, stats |-> qs.stats]
        BY DEF Recorded
      <4>5. predictor' = qs.predictor /\ stats' = qs.stats
        BY <3>1 DEF StepOf
      <4> HIDE DEF qs
      <4> QED BY <3>2, <3>4, <4>3, <4>4, <4>5 DEF qs
    <3> QED BY <3>2, <3>3, <3>4 DEF Replayable
  <2>2. CASE UNCHANGED vars
    BY <2>2 DEF Replayable, TraceIsComplete, vars
  <2> QED BY <2>1, <2>2
<1> QED BY <1>1, <1>2, TypeCorrect, PTL DEF Spec

\* ReportsAgree: the cycles the report of a run gives are those the comparison
\* gives for the same predictor, whatever it had learned (main.cpp, cycle_cost
\* and compute_branch_cycles).
THEOREM ReportsAlwaysAgree == Spec => []ReportsAgree
<1>1. Replayable => ReportsAgree
  <2> SUFFICES ASSUME Replayable, TraceIsComplete PROVE ReportedCycles(10, 2) = ComparedCycles(10, 2)
    BY DEF ReportsAgree, TraceIsComplete
  <2>1. Replay(design, Reset(design, predictor), trace).stats = stats
    BY DEF Replayable
  <2> QED BY <2>1 DEF ReportedCycles, ComparedCycles
<1> QED BY <1>1, RecordingIsExact, PTL

-----------------------------------------------------------------------------
(* Powers of two, and the numbers that the last outcomes spell.            *)

Doubling(n) == [k \in 1 .. n |-> [x \in Nat |-> 2 * x]]

LEMMA PowerIsLoop ==
    ASSUME NEW n \in Nat
    PROVE  \E g : IsLoop(g, n, Nat, 1, Doubling(n)) /\ TwoTo(n) = g[n]
<1>1. \A k \in 1 .. n : Doubling(n)[k] \in [Nat -> Nat]
  BY DEF Doubling
<1>2. PICK g : IsLoop(g, n, Nat, 1, Doubling(n))
  <2> DEFINE body == Doubling(n)
             one == 1
  <2> HIDE DEF body, one
  <2>1. \E g : IsLoop(g, n, Nat, one, body)
    <3>1. one \in Nat
      BY DEF one
    <3> QED BY <1>1, <3>1, LoopRuns DEF body
  <2> QED BY <2>1 DEF body, one
<1> DEFINE Step(f) == [k \in 0 .. n |-> IF k = 0 THEN 1 ELSE 2 * f[k - 1]]
           IsUpto(f) == f = Step(f)
           upto == CHOOSE f : IsUpto(f)
<1>3. TwoTo(n) = upto[n]
  BY DEF TwoTo
<1>4. IsUpto(g)
  <2>1. g = [k \in 0 .. n |-> g[k]]
    BY <1>2 DEF IsLoop
  <2>2. \A k \in 0 .. n : g[k] = IF k = 0 THEN 1 ELSE 2 * g[k - 1]
    <3> SUFFICES ASSUME NEW k \in 0 .. n, k # 0 PROVE g[k] = 2 * g[k - 1]
      BY <1>2 DEF IsLoop
    <3>1. k \in 1 .. n /\ k - 1 \in 0 .. n
      OBVIOUS
    <3>2. g[k] = Doubling(n)[k][g[k - 1]] /\ g[k - 1] \in Nat
      BY <1>2, <3>1 DEF IsLoop
    <3> QED BY <3>1, <3>2 DEF Doubling
  <2> QED BY <2>1, <2>2
<1>5. IsUpto(upto)
  <2> HIDE DEF IsUpto
  <2> QED BY <1>4
<1>6. \A k \in 0 .. n : upto[k] = g[k]
  <2> DEFINE body == Doubling(n)
             one == 1
  <2>1. upto[0] = one
    <3> HIDE DEF upto
    <3> QED BY <1>5
  <2>2. \A k \in 1 .. n : upto[k - 1] \in Nat => upto[k] = body[k][upto[k - 1]]
    <3> HIDE DEF upto
    <3> SUFFICES ASSUME NEW k \in 1 .. n, upto[k - 1] \in Nat PROVE upto[k] = body[k][upto[k - 1]]
      OBVIOUS
    <3>1. upto[k] = 2 * upto[k - 1]
      BY <1>5
    <3> QED BY <3>1 DEF Doubling
  <2>3. IsLoop(g, n, Nat, one, body)
    BY <1>2
  <2> HIDE DEF upto, body, one
  <2> QED BY <2>1, <2>2, <2>3, LoopIsUnique
<1> QED BY <1>2, <1>3, <1>6

LEMMA TwoToGrows ==
    /\ TwoTo(0) = 1
    /\ \A n \in Nat : TwoTo(n) \in Nat \ {0} /\ TwoTo(n + 1) = 2 * TwoTo(n)
<1>1. TwoTo(0) = 1
  BY PowerIsLoop DEF IsLoop
<1>2. ASSUME NEW n \in Nat PROVE TwoTo(n + 1) = 2 * TwoTo(n) /\ TwoTo(n) \in Nat
  <2>1. PICK f : IsLoop(f, n, Nat, 1, Doubling(n)) /\ TwoTo(n) = f[n]
    BY PowerIsLoop
  <2>2. PICK g : IsLoop(g, n + 1, Nat, 1, Doubling(n + 1)) /\ TwoTo(n + 1) = g[n + 1]
    BY PowerIsLoop
  <2>3. \A k \in 1 .. n + 1 : g[k] = 2 * g[k - 1]
    <3> SUFFICES ASSUME NEW k \in 1 .. n + 1 PROVE g[k] = 2 * g[k - 1]
      OBVIOUS
    <3>1. g[k] = Doubling(n + 1)[k][g[k - 1]] /\ g[k - 1] \in Nat
      BY <2>2 DEF IsLoop
    <3> QED BY <3>1 DEF Doubling
  <2>4. g[n] = f[n]
    <3> DEFINE body == Doubling(n)
               one == 1
    <3>1. \A k \in 1 .. n : g[k - 1] \in Nat => g[k] = body[k][g[k - 1]]
      BY <2>3 DEF Doubling
    <3>2. g[0] = one /\ IsLoop(f, n, Nat, one, body)
      BY <2>1, <2>2 DEF IsLoop
    <3> HIDE DEF body, one
    <3>3. \A k \in 0 .. n : g[k] = f[k]
      BY <3>1, <3>2, LoopIsUnique
    <3> QED BY <3>3
  <2>5. f[n] \in Nat
    BY <2>1 DEF IsLoop
  <2> QED BY <2>1, <2>2, <2>3, <2>4, <2>5
<1> DEFINE Positive == {n \in Nat : TwoTo(n) # 0}
<1>3. ASSUME NEW n \in Nat PROVE n \in Positive
  <2>1. 0 \in Positive
    BY <1>1
  <2>2. \A k \in 1 .. n : k - 1 \in Positive => k \in Positive
    <3> SUFFICES ASSUME NEW k \in 1 .. n, k - 1 \in Positive PROVE k \in Positive
      OBVIOUS
    <3>1. k - 1 \in Nat /\ (k - 1) + 1 = k
      OBVIOUS
    <3>2. TwoTo(k) = 2 * TwoTo(k - 1) /\ TwoTo(k - 1) \in Nat
      BY <1>2, <3>1
    <3> QED BY <3>2
  <2> HIDE DEF Positive
  <2> QED BY <2>1, <2>2, KeptThroughout
<1> QED BY <1>1, <1>2, <1>3

\* What AsNumber has read after j outcomes, the oldest first.
Spelling(o) == [j \in 1 .. Len(o) |-> [x \in Nat |-> 2 * x + One(o[Len(o) + 1 - j])]]

LEMMA NumberIsLoop ==
    ASSUME NEW n \in Nat, NEW o \in [1 .. n -> BOOLEAN]
    PROVE  \E g : IsLoop(g, n, Nat, 0, Spelling(o)) /\ AsNumber(o) = g[n]
<1>0. Len(o) = n
  <2>1. o \in Seq(BOOLEAN) /\ DOMAIN o = 1 .. n
    OBVIOUS
  <2> QED BY <2>1, LenProperties
<1>1. \A j \in 1 .. n : Spelling(o)[j] \in [Nat -> Nat]
  BY <1>0 DEF Spelling, One
<1>2. PICK g : IsLoop(g, n, Nat, 0, Spelling(o))
  <2> DEFINE body == Spelling(o)
             zero == 0
  <2> HIDE DEF body, zero
  <2>1. \E g : IsLoop(g, n, Nat, zero, body)
    <3>1. zero \in Nat
      BY DEF zero
    <3> QED BY <1>1, <3>1, LoopRuns DEF body
  <2> QED BY <2>1 DEF body, zero
<1> DEFINE Step(f) == [j \in 0 .. Len(o) |-> IF j = 0 THEN 0 ELSE 2 * f[j - 1] + One(o[Len(o) + 1 - j])]
           IsUpto(f) == f = Step(f)
           upto == CHOOSE f : IsUpto(f)
<1>3. AsNumber(o) = upto[n]
  BY <1>0 DEF AsNumber
<1>4. IsUpto(g)
  <2>1. g = [j \in 0 .. n |-> g[j]]
    BY <1>2 DEF IsLoop
  <2>2. \A j \in 0 .. n : g[j] = IF j = 0 THEN 0 ELSE 2 * g[j - 1] + One(o[n + 1 - j])
    <3> SUFFICES ASSUME NEW j \in 0 .. n, j # 0 PROVE g[j] = 2 * g[j - 1] + One(o[n + 1 - j])
      BY <1>2 DEF IsLoop
    <3>1. j \in 1 .. n /\ j - 1 \in 0 .. n
      OBVIOUS
    <3>2. g[j] = Spelling(o)[j][g[j - 1]] /\ g[j - 1] \in Nat
      BY <1>2, <3>1 DEF IsLoop
    <3> QED BY <1>0, <3>1, <3>2 DEF Spelling
  <2> QED BY <1>0, <2>1, <2>2
<1>5. IsUpto(upto)
  <2> HIDE DEF IsUpto
  <2> QED BY <1>4
<1>6. \A j \in 0 .. n : upto[j] = g[j]
  <2> DEFINE body == Spelling(o)
             zero == 0
  <2>1. upto[0] = zero
    <3> HIDE DEF upto
    <3> QED BY <1>0, <1>5
  <2>2. \A j \in 1 .. n : upto[j - 1] \in Nat => upto[j] = body[j][upto[j - 1]]
    <3> HIDE DEF upto
    <3> SUFFICES ASSUME NEW j \in 1 .. n, upto[j - 1] \in Nat PROVE upto[j] = body[j][upto[j - 1]]
      OBVIOUS
    <3>1. upto[j] = 2 * upto[j - 1] + One(o[Len(o) + 1 - j])
      BY <1>0, <1>5
    <3> QED BY <1>0, <3>1 DEF Spelling
  <2>3. IsLoop(g, n, Nat, zero, body)
    BY <1>2
  <2> HIDE DEF upto, body, zero
  <2> QED BY <2>1, <2>2, <2>3, LoopIsUnique
<1> QED BY <1>2, <1>3, <1>6

Reads(g, n, o) ==
    /\ g \in [0 .. n -> Nat]
    /\ g[0] = 0
    /\ \A j \in 1 .. n : g[j] = 2 * g[j - 1] + One(o[n + 1 - j])

LEMMA NumberIsRead ==
    ASSUME NEW n \in Nat, NEW o \in [1 .. n -> BOOLEAN]
    PROVE  \E g : Reads(g, n, o) /\ AsNumber(o) = g[n]
<1>0. Len(o) = n
  <2>1. o \in Seq(BOOLEAN) /\ DOMAIN o = 1 .. n
    OBVIOUS
  <2> QED BY <2>1, LenProperties
<1>1. PICK g : IsLoop(g, n, Nat, 0, Spelling(o)) /\ AsNumber(o) = g[n]
  BY NumberIsLoop
<1>2. ASSUME NEW j \in 1 .. n PROVE g[j] = 2 * g[j - 1] + One(o[n + 1 - j])
  <2>1. g[j] = Spelling(o)[j][g[j - 1]] /\ g[j - 1] \in Nat
    BY <1>1 DEF IsLoop
  <2> QED BY <1>0, <2>1 DEF Spelling
<1> QED BY <1>1, <1>2 DEF Reads, IsLoop

\* An outcome more, an outcome forgotten: the number doubles, modulo its range.
LEMMA NumberPushed ==
    ASSUME NEW n \in Nat, NEW a \in [1 .. n -> BOOLEAN], NEW b \in [1 .. n -> BOOLEAN],
           NEW taken \in BOOLEAN,
           n > 0 => b[1] = taken /\ \A j \in 1 .. n - 1 : b[j + 1] = a[j]
    PROVE  /\ AsNumber(b) = (2 * AsNumber(a) + One(taken)) % TwoTo(n)
           /\ AsNumber(b) \in 0 .. TwoTo(n) - 1
<1>1. PICK f : Reads(f, n, a) /\ AsNumber(a) = f[n]
  BY NumberIsRead
<1>2. PICK g : Reads(g, n, b) /\ AsNumber(b) = g[n]
  BY NumberIsRead
<1>3. CASE n = 0
  <2>1. f[0] = 0 /\ g[0] = 0
    BY <1>1, <1>2 DEF Reads
  <2>2. TwoTo(0) = 1 /\ One(taken) \in Nat
    BY TwoToGrows DEF One
  <2>3. (2 * 0 + One(taken)) % 1 = 0
    BY <2>2
  <2> QED BY <1>1, <1>2, <1>3, <2>1, <2>2, <2>3
<1>4. CASE n > 0
  <2> DEFINE oldest == One(a[n])
             Kept == {j \in 0 .. n : /\ g[j] < TwoTo(j)
                                     /\ j < n => f[j + 1] = oldest * TwoTo(j) + g[j]}
  <2>0. oldest \in {0, 1} /\ One(taken) \in {0, 1}
    BY DEF One
  <2>1. 0 \in Kept
    <3>1. f[0 + 1] = 2 * f[0] + One(a[n + 1 - (0 + 1)]) /\ f[0] = 0 /\ g[0] = 0
      BY <1>1, <1>2, <1>4 DEF Reads
    <3>2. One(a[n + 1 - (0 + 1)]) = oldest
      <4>1. n + 1 - (0 + 1) = n
        OBVIOUS
      <4> QED BY <4>1
    <3> HIDE DEF oldest
    <3>3. f[0 + 1] = oldest
      BY <2>0, <3>1, <3>2
    <3>4. TwoTo(0) = 1 /\ oldest * 1 + 0 = oldest
      BY <2>0, TwoToGrows
    <3>5. f[0 + 1] = oldest * TwoTo(0) + g[0]
      BY <3>1, <3>3, <3>4
    <3>6. 0 \in 0 .. n /\ g[0] < TwoTo(0)
      BY <3>1, <3>4
    <3> QED BY <3>5, <3>6
  <2>2. ASSUME NEW j \in 1 .. n, j - 1 \in Kept PROVE j \in Kept
    <3> DEFINE p == TwoTo(j - 1)
               bit == One(b[n + 1 - j])
    <3>1. g[j - 1] < p /\ f[j] = oldest * p + g[j - 1] /\ g[j - 1] \in Nat /\ g[j] \in Nat
      <4>1. j - 1 \in 0 .. n /\ j \in 0 .. n /\ j - 1 < n /\ (j - 1) + 1 = j
        OBVIOUS
      <4>2. f[(j - 1) + 1] = oldest * TwoTo(j - 1) + g[j - 1] /\ g[j - 1] < TwoTo(j - 1)
        BY <2>2, <4>1
      <4> HIDE DEF oldest
      <4> QED BY <1>2, <4>1, <4>2 DEF Reads
    <3>2. p \in Nat \ {0} /\ TwoTo(j) = 2 * p
      <4>1. j - 1 \in Nat /\ (j - 1) + 1 = j
        OBVIOUS
      <4> QED BY <4>1, TwoToGrows
    <3>3. g[j] = 2 * g[j - 1] + bit /\ bit \in {0, 1}
      BY <1>2 DEF Reads, One
    <3>4. ASSUME j < n PROVE f[j + 1] = 2 * f[j] + bit
      <4>1. j + 1 \in 1 .. n /\ (j + 1) - 1 = j /\ n + 1 - (j + 1) = n - j /\ n - j \in 1 .. n - 1
            /\ n + 1 - j = (n - j) + 1
        BY <3>4
      <4>2. f[j + 1] = 2 * f[(j + 1) - 1] + One(a[n + 1 - (j + 1)])
        BY <1>1, <4>1 DEF Reads
      <4>3. b[(n - j) + 1] = a[n - j]
        BY <1>4, <4>1
      <4> QED BY <4>1, <4>2, <4>3
    <3> HIDE DEF p, bit, oldest
    <3>5. g[j] < TwoTo(j)
      BY <3>1, <3>2, <3>3
    <3>6. ASSUME j < n PROVE f[j + 1] = oldest * TwoTo(j) + g[j]
      BY <2>0, <3>1, <3>2, <3>3, <3>4, <3>6
    <3> QED BY <3>5, <3>6
  <2>3. n \in Kept /\ n - 1 \in Kept
    <3> HIDE DEF Kept
    <3>1. 0 .. n \subseteq Kept
      BY <2>1, <2>2, KeptThroughout
    <3> QED BY <1>4, <3>1
  <2> DEFINE p == TwoTo(n - 1)
  <2>4. p \in Nat \ {0} /\ TwoTo(n) = 2 * p
    <3>1. n - 1 \in Nat /\ (n - 1) + 1 = n
      BY <1>4
    <3> QED BY <3>1, TwoToGrows
  <2>5. g[n] = 2 * g[n - 1] + One(taken) /\ g[n - 1] \in Nat /\ g[n] \in Nat
    <3>1. n \in 1 .. n /\ n + 1 - n = 1 /\ n - 1 \in 0 .. n
      BY <1>4
    <3>2. g[n] = 2 * g[n - 1] + One(b[n + 1 - n])
      BY <1>2, <3>1 DEF Reads
    <3> QED BY <1>2, <1>4, <3>1, <3>2 DEF Reads
  <2>6. f[n] = oldest * p + g[n - 1]
    <3>1. n - 1 < n /\ (n - 1) + 1 = n
      BY <1>4
    <3>2. f[(n - 1) + 1] = oldest * TwoTo(n - 1) + g[n - 1]
      BY <2>3, <3>1
    <3> QED BY <3>1, <3>2
  <2>7. g[n] < TwoTo(n)
    BY <2>3
  <2> HIDE DEF oldest, p, Kept
  <2> DEFINE m == TwoTo(n)
             w == g[n]
  <2>8. m \in Nat \ {0} /\ w \in Nat /\ w < m
    BY <2>4, <2>5, <2>7
  <2>9. 2 * f[n] + One(taken) = oldest * m + w
    BY <2>0, <2>4, <2>5, <2>6
  <2> HIDE DEF m, w
  <2>10. (oldest * m + w) % m = w
    <3>1. CASE oldest = 0
      BY <2>8, <3>1
    <3>2. CASE oldest = 1
      <4>1. (m + w) % m = w
        BY <2>8
      <4> QED BY <2>8, <3>2, <4>1
    <3> QED BY <2>0, <3>1, <3>2
  <2> QED BY <1>1, <1>2, <2>8, <2>9, <2>10 DEF m, w
<1> QED BY <1>3, <1>4

LEMMA BitTells ==
    ASSUME NEW a \in BOOLEAN, NEW b \in BOOLEAN, One(a) = One(b)
    PROVE  a = b
<1>1. (a => One(a) = 1) /\ (~a => One(a) = 0) /\ (b => One(b) = 1) /\ (~b => One(b) = 0)
  BY DEF One
<1>2. a <=> b
  BY <1>1
<1> QED BY <1>2

\* Equal numbers are spelled alike.
LEMMA NumberInjective ==
    ASSUME NEW n \in Nat, NEW a \in [1 .. n -> BOOLEAN], NEW b \in [1 .. n -> BOOLEAN],
           AsNumber(a) = AsNumber(b)
    PROVE  a = b
<1>1. PICK f : Reads(f, n, a) /\ AsNumber(a) = f[n]
  BY NumberIsRead
<1>2. PICK g : Reads(g, n, b) /\ AsNumber(b) = g[n]
  BY NumberIsRead
<1>3. ASSUME NEW j \in 1 .. n, f[j] = g[j]
      PROVE  f[j - 1] = g[j - 1] /\ a[n + 1 - j] = b[n + 1 - j]
  <2> DEFINE s == One(a[n + 1 - j])
             t == One(b[n + 1 - j])
             x == f[j - 1]
             y == g[j - 1]
  <2>1. f[j] = 2 * x + s /\ g[j] = 2 * y + t
    BY <1>1, <1>2 DEF Reads
  <2>2. x \in Nat /\ y \in Nat /\ s \in {0, 1} /\ t \in {0, 1}
    BY <1>1, <1>2 DEF Reads, One
  <2>3. x = y /\ s = t
    <3> HIDE DEF x, y, s, t
    <3>1. 2 * x + s = 2 * y + t
      BY <1>3, <2>1
    <3>2. s = t
      <4>1. CASE s = 0 /\ t = 1
        BY <2>2, <3>1, <4>1
      <4>2. CASE s = 1 /\ t = 0
        BY <2>2, <3>1, <4>2
      <4> QED BY <2>2, <4>1, <4>2
    <3> QED BY <2>2, <3>1, <3>2
  <2>4. a[n + 1 - j] = b[n + 1 - j]
    <3> DEFINE u == a[n + 1 - j]
               v == b[n + 1 - j]
    <3>1. u \in BOOLEAN /\ v \in BOOLEAN /\ One(u) = One(v)
      BY <2>3
    <3> HIDE DEF u, v
    <3>2. u = v
      BY <3>1, BitTells
    <3> QED BY <3>2 DEF u, v
  <2> QED BY <2>3, <2>4
<1> DEFINE Kept == {i \in 0 .. n : f[n - i] = g[n - i]}
<1>4. 0 .. n \subseteq Kept
  <2>1. 0 \in Kept
    <3>1. f[n] = g[n]
      BY <1>1, <1>2, Zenon
    <3>2. n - 0 = n /\ 0 \in 0 .. n
      OBVIOUS
    <3> QED BY <3>1, <3>2
  <2>2. ASSUME NEW i \in 1 .. n, i - 1 \in Kept PROVE i \in Kept
    <3>1. n - (i - 1) \in 1 .. n /\ f[n - (i - 1)] = g[n - (i - 1)] /\ (n - (i - 1)) - 1 = n - i
      BY <2>2
    <3>2. f[(n - (i - 1)) - 1] = g[(n - (i - 1)) - 1]
      BY <1>3, <3>1
    <3> QED BY <3>1, <3>2
  <2> HIDE DEF Kept
  <2> QED BY <2>1, <2>2, KeptThroughout
<1>5. ASSUME NEW k \in 1 .. n PROVE a[k] = b[k]
  <2>1. n + 1 - k \in 1 .. n /\ n - (k - 1) = n + 1 - k /\ k - 1 \in 0 .. n /\ n + 1 - (n + 1 - k) = k
    OBVIOUS
  <2>2. f[n - (k - 1)] = g[n - (k - 1)]
    BY <1>4, <2>1
  <2>3. f[n + 1 - k] = g[n + 1 - k]
    BY <2>1, <2>2
  <2>4. a[n + 1 - (n + 1 - k)] = b[n + 1 - (n + 1 - k)]
    BY <1>3, <2>1, <2>3
  <2> QED BY <2>1, <2>4
<1> QED BY <1>5

-----------------------------------------------------------------------------
(* Selections of a sequence.                                               *)

Selecting(S, s, K) == [k \in 1 .. Len(s) |-> [u \in Seq(S) |-> IF k \in K THEN Append(u, s[k]) ELSE u]]

LEMMA SelectedIsLoop ==
    ASSUME NEW S, NEW s \in Seq(S), NEW K
    PROVE  \E g : IsLoop(g, Len(s), Seq(S), <<>>, Selecting(S, s, K)) /\ Selected(s, K) = g[Len(s)]
<1> DEFINE n == Len(s)
<1>0. n \in Nat /\ \A k \in 1 .. n : s[k] \in S
  BY LenProperties, ElementOfSeq
<1>1. \A k \in 1 .. n : Selecting(S, s, K)[k] \in [Seq(S) -> Seq(S)]
  <2>1. \A k \in 1 .. n, u \in Seq(S) : Append(u, s[k]) \in Seq(S)
    BY <1>0, AppendProperties
  <2> QED BY <2>1 DEF Selecting
<1>2. PICK g : IsLoop(g, n, Seq(S), <<>>, Selecting(S, s, K))
  <2> DEFINE body == Selecting(S, s, K)
             none == <<>>
             V == Seq(S)
  <2>1. none \in V
    OBVIOUS
  <2> HIDE DEF body, none, V, n
  <2>2. \E g : IsLoop(g, n, V, none, body)
    BY <1>0, <1>1, <2>1, LoopRuns DEF body, V
  <2> QED BY <2>2 DEF body, none, V
<1> DEFINE Step(f) == [k \in 0 .. Len(s) |-> IF k = 0 THEN <<>>
                                             ELSE IF k \in K THEN Append(f[k - 1], s[k])
                                             ELSE f[k - 1]]
           IsUpto(f) == f = Step(f)
           upto == CHOOSE f : IsUpto(f)
<1>3. Selected(s, K) = upto[n]
  BY DEF Selected
<1>4. IsUpto(g)
  <2>1. g = [k \in 0 .. n |-> g[k]]
    BY <1>2 DEF IsLoop
  <2>2. \A k \in 0 .. n : g[k] = IF k = 0 THEN <<>> ELSE IF k \in K THEN Append(g[k - 1], s[k])
                                 ELSE g[k - 1]
    <3> SUFFICES ASSUME NEW k \in 0 .. n, k # 0
                 PROVE  g[k] = IF k \in K THEN Append(g[k - 1], s[k]) ELSE g[k - 1]
      BY <1>2 DEF IsLoop
    <3>1. k \in 1 .. n /\ k - 1 \in 0 .. n
      BY <1>0
    <3>2. g[k] = Selecting(S, s, K)[k][g[k - 1]] /\ g[k - 1] \in Seq(S)
      BY <1>2, <3>1 DEF IsLoop
    <3> QED BY <3>1, <3>2 DEF Selecting
  <2> QED BY <2>1, <2>2
<1>5. IsUpto(upto)
  <2> HIDE DEF IsUpto
  <2> QED BY <1>4
<1>6. \A k \in 0 .. n : upto[k] = g[k]
  <2> DEFINE body == Selecting(S, s, K)
             none == <<>>
             V == Seq(S)
  <2>1. upto[0] = none
    <3> HIDE DEF upto
    <3> QED BY <1>0, <1>5
  <2>2. \A k \in 1 .. n : upto[k - 1] \in V => upto[k] = body[k][upto[k - 1]]
    <3> HIDE DEF upto
    <3> SUFFICES ASSUME NEW k \in 1 .. n, upto[k - 1] \in V PROVE upto[k] = body[k][upto[k - 1]]
      OBVIOUS
    <3>1. upto[k] = IF k \in K THEN Append(upto[k - 1], s[k]) ELSE upto[k - 1]
      <4>1. k \in 0 .. Len(s) /\ k # 0
        BY <1>0
      <4>2. upto = Step(upto)
        BY <1>5
      <4> QED BY <4>1, <4>2, Zenon
    <3> QED BY <3>1 DEF Selecting
  <2>3. IsLoop(g, n, V, none, body)
    BY <1>2
  <2> HIDE DEF upto, body, none, V, n
  <2> QED BY <1>0, <2>1, <2>2, <2>3, LoopIsUnique
<1> QED BY <1>0, <1>2, <1>3, <1>6

LEMMA SelectedType ==
    ASSUME NEW S, NEW s \in Seq(S), NEW K
    PROVE  Selected(s, K) \in Seq(S)
<1> DEFINE n == Len(s)
<1>1. n \in 0 .. n
  BY LenProperties
<1>2. PICK g : IsLoop(g, n, Seq(S), <<>>, Selecting(S, s, K)) /\ Selected(s, K) = g[n]
  BY SelectedIsLoop
<1>3. g[n] \in Seq(S)
  BY <1>1, <1>2 DEF IsLoop
<1> QED BY <1>2, <1>3

LEMMA SelectedGrows ==
    ASSUME NEW S, NEW s \in Seq(S), NEW r \in S, NEW K, NEW L,
           \A k \in 1 .. Len(s) : k \in L <=> k \in K
    PROVE  /\ Selected(s, K) \in Seq(S)
           /\ Selected(Append(s, r), L) = IF Len(s) + 1 \in L THEN Append(Selected(s, K), r)
                                          ELSE Selected(s, K)
           /\ Selected(<<>>, K) = <<>>
<1> DEFINE u == Append(s, r)
           n == Len(s)
<1>1. /\ u \in Seq(S) /\ n \in Nat /\ Len(u) = n + 1 /\ u[n + 1] = r
      /\ \A k \in 1 .. n : u[k] = s[k]
  BY LenProperties, AppendProperties
<1> HIDE DEF u
<1>2. PICK f : IsLoop(f, n, Seq(S), <<>>, Selecting(S, s, K)) /\ Selected(s, K) = f[n]
  BY SelectedIsLoop
<1>3. PICK g : IsLoop(g, n + 1, Seq(S), <<>>, Selecting(S, u, L)) /\ Selected(u, L) = g[n + 1]
  BY <1>1, SelectedIsLoop
<1>4. \A k \in 1 .. n + 1 : /\ g[k - 1] \in Seq(S)
                            /\ g[k] = IF k \in L THEN Append(g[k - 1], u[k]) ELSE g[k - 1]
  <2> SUFFICES ASSUME NEW k \in 1 .. n + 1
               PROVE  g[k - 1] \in Seq(S) /\ g[k] = IF k \in L THEN Append(g[k - 1], u[k]) ELSE g[k - 1]
    OBVIOUS
  <2>0. k - 1 \in 0 .. n + 1
    BY <1>1
  <2>1. g[k] = Selecting(S, u, L)[k][g[k - 1]] /\ g[k - 1] \in Seq(S)
    <3> HIDE DEF n
    <3> QED BY <2>0, <1>3 DEF IsLoop
  <2> QED BY <1>1, <2>1 DEF Selecting
<1>5. g[n] = f[n]
  <2> DEFINE body == Selecting(S, s, K)
             none == <<>>
             V == Seq(S)
  <2>1. \A k \in 1 .. n : g[k - 1] \in V => g[k] = body[k][g[k - 1]]
    <3> SUFFICES ASSUME NEW k \in 1 .. n PROVE g[k] = body[k][g[k - 1]]
      OBVIOUS
    <3>1. k \in 1 .. n + 1 /\ (k \in L <=> k \in K) /\ u[k] = s[k]
      BY <1>1
    <3>2. g[k - 1] \in Seq(S) /\ g[k] = IF k \in K THEN Append(g[k - 1], s[k]) ELSE g[k - 1]
      BY <1>4, <3>1
    <3> QED BY <3>2 DEF Selecting
  <2>2. g[0] = none /\ IsLoop(f, n, V, none, body)
    BY <1>2, <1>3 DEF IsLoop
  <2> HIDE DEF body, none, V, n
  <2>3. \A k \in 0 .. n : g[k] = f[k]
    BY <1>1, <2>1, <2>2, LoopIsUnique
  <2> QED BY <1>1, <2>3
<1>6. g[n + 1] = IF n + 1 \in L THEN Append(g[n], r) ELSE g[n]
  <2>1. n + 1 \in 1 .. n + 1 /\ (n + 1) - 1 = n
    BY <1>1
  <2> QED BY <1>1, <1>4, <2>1
<1>7. Selected(<<>>, K) = <<>>
  <2>1. <<>> \in Seq(S) /\ Len(<<>>) = 0
    OBVIOUS
  <2> DEFINE none == <<>>
             V == Seq(S)
  <2> HIDE DEF none, V
  <2>2. \E h : IsLoop(h, Len(none), V, <<>>, Selecting(S, none, K)) /\ Selected(none, K) = h[Len(none)]
    BY <2>1, SelectedIsLoop DEF none, V
  <2>3. Selected(none, K) = <<>>
    BY <2>1, <2>2 DEF IsLoop, none
  <2> QED BY <2>3 DEF none
<1>8. f[n] \in Seq(S)
  BY <1>1, <1>2 DEF IsLoop
<1> QED BY <1>2, <1>3, <1>5, <1>6, <1>7, <1>8 DEF u

-----------------------------------------------------------------------------
(* What a two-bit counter remembers of the outcomes it was trained with.   *)

IsLast(k, M) == k \in M /\ \A j \in M : j <= k

\* The counter c was trained with took[k] for the k in M, in this order.
Leans(c, M, took) ==
    /\ \A k \in M : IsLast(k, M) => IF took[k] THEN c >= 1 ELSE c <= 2
    /\ \A k, j \in M : IsLast(k, M) /\ IsLast(j, M \ {k}) /\ took[k] = took[j]
                           => CounterIsTaken(c) = took[k]

LEMMA TrainedLeans ==
    ASSUME NEW n \in Nat, NEW M \in SUBSET (1 .. n), NEW c \in Counter, NEW taken \in BOOLEAN,
           NEW took, NEW tookToo, Leans(c, M, took), \A k \in M : took[k] \in BOOLEAN,
           tookToo[n + 1] = taken, \A k \in M : tookToo[k] = took[k]
    PROVE  Leans(Trained(c, taken), M \cup {n + 1}, tookToo)
<1> DEFINE L == M \cup {n + 1}
           e == Trained(c, taken)
<1>1. \A k \in L : IsLast(k, L) => k = n + 1
  BY DEF IsLast
<1>2. \A k \in M : k # n + 1 /\ k \in Nat
  OBVIOUS
<1>3. L \ {n + 1} = M
  BY <1>2
<1>4. IF taken THEN e >= 1 ELSE e <= 2
  BY DEF Trained, Counter
<1>5. ASSUME NEW j \in M, IsLast(j, M), taken = took[j] PROVE CounterIsTaken(e) = taken
  <2>1. IF taken THEN c >= 1 ELSE c <= 2
    <3>1. IF took[j] THEN c >= 1 ELSE c <= 2
      BY <1>5 DEF Leans
    <3> QED BY <1>5, <3>1, Zenon
  <2>2. CASE taken
    <3>1. e >= 2
      BY <2>1, <2>2 DEF Trained, Counter
    <3> HIDE DEF e
    <3> QED BY <2>2, <3>1 DEF CounterIsTaken
  <2>3. CASE ~taken
    BY <2>1, <2>3 DEF Trained, Counter, CounterIsTaken
  <2> QED BY <2>2, <2>3
<1> HIDE DEF e
<1>6. \A k \in L : IsLast(k, L) => IF tookToo[k] THEN e >= 1 ELSE e <= 2
  <2> HIDE DEF L
  <2> QED BY <1>1, <1>4
<1>7. ASSUME NEW k \in L, NEW j \in L, IsLast(k, L), IsLast(j, L \ {k}), tookToo[k] = tookToo[j]
      PROVE  CounterIsTaken(e) = tookToo[k]
  <2>1. k = n + 1
    BY <1>1, <1>7
  <2>2. IsLast(j, M)
    BY <1>3, <1>7, <2>1
  <2>3. j \in M
    BY <2>2 DEF IsLast
  <2>4. taken = took[j]
    BY <1>7, <2>1, <2>3
  <2> QED BY <1>5, <2>1, <2>2, <2>3, <2>4
<1> QED BY <1>6, <1>7 DEF Leans, e

LEMMA LeansSame ==
    ASSUME NEW M, NEW c, NEW took, NEW tookToo, Leans(c, M, took), \A k \in M : tookToo[k] = took[k]
    PROVE  Leans(c, M, tookToo)
BY DEF Leans

Latest(M) == CHOOSE k \in M : \A j \in M : j <= k

\* The two last outcomes of a counter, when they are equal, are its prediction.
LEMMA LastTwoAreSeen ==
    ASSUME NEW n \in Nat, NEW M \in SUBSET (1 .. n), NEW c, NEW took, Leans(c, M, took),
           Cardinality(M) >= 2
    PROVE  LET last == Latest(M)
               before == Latest(M \ {last})
           IN  /\ last \in M /\ before \in M
               /\ took[last] = took[before] => CounterIsTaken(c) = took[last]
<1> DEFINE last == Latest(M)
           N == M \ {last}
           before == Latest(N)
<1>1. IsFiniteSet(M)
  <2>1. IsFiniteSet(1 .. n)
    BY FS_Interval
  <2> QED BY <2>1, FS_Subset
<1>2. M # {}
  BY FS_EmptySet
<1>3. last \in M /\ \A j \in M : j <= last
  BY <1>2, GreatestElement DEF Latest
<1>4. N # {}
  <2>1. ASSUME N = {} PROVE FALSE
    <3>1. M = {last}
      BY <1>3, <2>1
    <3>2. Cardinality({last}) = 1
      BY FS_Singleton
    <3> HIDE DEF last
    <3> QED BY <3>1, <3>2
  <2> QED BY <2>1
<1> HIDE DEF last
<1>5. before \in N /\ \A j \in N : j <= before
  <2>1. N \in SUBSET (1 .. n)
    OBVIOUS
  <2>2. \E k \in N : \A j \in N : j <= k
    <3> HIDE DEF N
    <3> QED BY <1>4, <2>1, GreatestElement
  <2> HIDE DEF N
  <2> QED BY <2>2 DEF Latest
<1> HIDE DEF before
<1>6. IsLast(last, M) /\ IsLast(before, M \ {last})
  BY <1>3, <1>5 DEF IsLast
<1>7. took[last] = took[before] => CounterIsTaken(c) = took[last]
  BY <1>3, <1>5, <1>6 DEF Leans
<1> QED BY <1>3, <1>5, <1>7 DEF last, before

\* Entry by entry: used[k] is the entry that the k-th branch trained.
TableLearns(table, used, took) ==
    \A x \in DOMAIN table : Leans(table[x], {k \in DOMAIN used : used[k] = x}, took)

LEMMA TableGrows ==
    ASSUME NEW S, NEW table \in [S -> Counter], NEW n \in Nat,
           NEW used, DOMAIN used = 1 .. n, NEW usedToo, DOMAIN usedToo = 1 .. n + 1,
           NEW took \in [1 .. n -> BOOLEAN], NEW tookToo,
           \A k \in 1 .. n : usedToo[k] = used[k] /\ tookToo[k] = took[k],
           NEW taken \in BOOLEAN, tookToo[n + 1] = taken,
           TableLearns(table, used, took)
    PROVE  /\ usedToo[n + 1] \in S =>
                  TableLearns(Updated(table, usedToo[n + 1], Trained(table[usedToo[n + 1]], taken)), usedToo, tookToo)
           /\ usedToo[n + 1] \notin S => TableLearns(table, usedToo, tookToo)
<1> DEFINE new == usedToo[n + 1]
           At(x) == {k \in DOMAIN used : used[k] = x}
           AtToo(x) == {k \in DOMAIN usedToo : usedToo[k] = x}
<1>1. \A k \in 1 .. n : k \in 1 .. n + 1 /\ k # n + 1
  OBVIOUS
<1>2. n + 1 \in 1 .. n + 1 /\ \A k \in 1 .. n + 1 : k \in 1 .. n \/ k = n + 1
  OBVIOUS
<1>3. \A x : At(x) \in SUBSET (1 .. n)
  OBVIOUS
<1>4. \A x : x # new => AtToo(x) = At(x)
  BY <1>1, <1>2
<1>5. AtToo(new) = At(new) \cup {n + 1}
  BY <1>1, <1>2
<1>6. \A x \in S : Leans(table[x], At(x), took) /\ table[x] \in Counter
  BY DEF TableLearns
<1> HIDE DEF new, At, AtToo
<1>7. \A x \in S : x # new => Leans(table[x], AtToo(x), tookToo)
  <2> SUFFICES ASSUME NEW x \in S, x # new PROVE Leans(table[x], At(x), tookToo)
    BY <1>4
  <2>1. \A k \in At(x) : tookToo[k] = took[k]
    BY <1>3
  <2> QED BY <1>6, <2>1, LeansSame
<1>8. ASSUME new \in S PROVE Leans(Trained(table[new], taken), AtToo(new), tookToo)
  <2> DEFINE M == At(new)
             c == table[new]
  <2>1. /\ M \in SUBSET (1 .. n) /\ c \in Counter /\ Leans(c, M, took)
        /\ \A k \in M : took[k] \in BOOLEAN /\ tookToo[k] = took[k]
    BY <1>3, <1>6, <1>8
  <2> HIDE DEF M, c
  <2>2. Leans(Trained(c, taken), M \cup {n + 1}, tookToo)
    BY <2>1, TrainedLeans
  <2> QED BY <1>5, <2>2 DEF M, c
<1>9. ASSUME new \in S
      PROVE  TableLearns(Updated(table, new, Trained(table[new], taken)), usedToo, tookToo)
  <2> DEFINE e == Trained(table[new], taken)
             u == Updated(table, new, e)
  <2>1. DOMAIN u = S /\ u[new] = e /\ \A x \in S : x # new => u[x] = table[x]
    BY <1>9 DEF Updated
  <2> HIDE DEF e, u
  <2>2. \A x \in S : Leans(u[x], AtToo(x), tookToo)
    BY <1>7, <1>8, <1>9, <2>1 DEF e
  <2>3. TableLearns(u, usedToo, tookToo)
    BY <2>1, <2>2 DEF TableLearns, AtToo
  <2> QED BY <2>3 DEF u, e
<1>10. ASSUME new \notin S PROVE TableLearns(table, usedToo, tookToo)
  <2>1. \A x \in S : Leans(table[x], AtToo(x), tookToo)
    BY <1>7, <1>10
  <2> QED BY <2>1 DEF TableLearns, AtToo
<1> QED BY <1>9, <1>10 DEF new

-----------------------------------------------------------------------------
(* Contexts: what a predictor looks at, as functions of the branches that  *)
(* came before and of the branch that comes.                               *)

History(C, B) == [k \in 1 .. Len(B) |-> C[<<SubSeq(B, 1, k - 1), B[k]>>]]

LEMMA PrefixKept ==
    ASSUME NEW S, NEW B \in Seq(S), NEW r \in S, NEW k \in 0 .. Len(B)
    PROVE  SubSeq(Append(B, r), 1, k) = SubSeq(B, 1, k)
<1> DEFINE u == Append(B, r)
           n == Len(B)
<1>1. n \in Nat /\ \A i \in 1 .. n : u[i] = B[i] /\ B[i] \in S
  BY LenProperties, AppendProperties, ElementOfSeq
<1> HIDE DEF u
<1>2. /\ k \in Int /\ 1 \in Int /\ \A i \in 1 .. k : u[i] \in S /\ B[i] \in S /\ u[i] = B[i]
      /\ k - 1 + 1 = k /\ \A i \in 1 .. k : 1 + i - 1 = i
  BY <1>1
<1> DEFINE s == SubSeq(u, 1, k)
           t == SubSeq(B, 1, k)
<1>3. /\ s \in Seq(S) /\ Len(s) = IF 1 <= k THEN k - 1 + 1 ELSE 0
      /\ \A i \in 1 .. k - 1 + 1 : s[i] = u[1 + i - 1]
  BY <1>2, SubSeqProperties
<1>4. /\ t \in Seq(S) /\ Len(t) = IF 1 <= k THEN k - 1 + 1 ELSE 0
      /\ \A i \in 1 .. k - 1 + 1 : t[i] = B[1 + i - 1]
  BY <1>2, SubSeqProperties
<1> HIDE DEF s, t
<1>5. Len(s) = k /\ Len(t) = k
  BY <1>1, <1>2, <1>3, <1>4
<1>6. \A i \in 1 .. k : s[i] = t[i]
  BY <1>2, <1>3, <1>4
<1>7. s = t
  BY <1>3, <1>4, <1>5, <1>6, SeqEqual
<1> QED BY <1>7 DEF s, t, u

LEMMA PrefixType ==
    ASSUME NEW S, NEW B \in Seq(S), NEW k \in DOMAIN B
    PROVE  DOMAIN B = 1 .. Len(B) /\ B[k] \in S /\ SubSeq(B, 1, k - 1) \in Seq(S)
<1>1. Len(B) \in Nat /\ DOMAIN B = 1 .. Len(B)
  BY LenProperties
<1>2. \A i \in 1 .. Len(B) : B[i] \in S
  BY ElementOfSeq
<1>3. 1 \in Int /\ k - 1 \in Int /\ \A i \in 1 .. k - 1 : B[i] \in S
  BY <1>1, <1>2
<1>4. SubSeq(B, 1, k - 1) \in Seq(S)
  BY <1>3, SubSeqProperties
<1> QED BY <1>1, <1>2, <1>4

LEMMA HistoryGrows ==
    ASSUME NEW S, NEW B \in Seq(S), NEW r \in S, NEW C
    PROVE  LET n == Len(B)
           IN  /\ n \in Nat
               /\ DOMAIN History(C, B) = 1 .. n
               /\ DOMAIN History(C, Append(B, r)) = 1 .. n + 1
               /\ History(C, Append(B, r))[n + 1] = C[<<B, r>>]
               /\ \A k \in 1 .. n : History(C, Append(B, r))[k] = History(C, B)[k]
<1> DEFINE u == Append(B, r)
           n == Len(B)
<1>1. n \in Nat /\ Len(u) = n + 1 /\ u[n + 1] = r /\ \A k \in 1 .. n : u[k] = B[k]
  BY LenProperties, AppendProperties
<1>2. \A k \in 0 .. n : SubSeq(u, 1, k) = SubSeq(B, 1, k)
  BY PrefixKept
<1>3. SubSeq(B, 1, n) = B
  BY SubSeqFull
<1> HIDE DEF u, n
<1>4. DOMAIN History(C, B) = 1 .. n /\ DOMAIN History(C, u) = 1 .. n + 1
  BY <1>1 DEF History, n
<1>5. History(C, u)[n + 1] = C[<<B, r>>]
  <2>1. n + 1 \in 1 .. Len(u) /\ (n + 1) - 1 = n /\ n \in 0 .. n
    BY <1>1
  <2>2. History(C, u)[n + 1] = C[<<SubSeq(u, 1, n), u[n + 1]>>]
    BY <2>1 DEF History
  <2> QED BY <1>1, <1>2, <1>3, <2>1, <2>2
<1>6. ASSUME NEW k \in 1 .. n PROVE History(C, u)[k] = History(C, B)[k]
  <2>1. k \in 1 .. Len(u) /\ k \in 1 .. Len(B) /\ k - 1 \in 0 .. n
    BY <1>1 DEF n
  <2>2. History(C, u)[k] = C[<<SubSeq(u, 1, k - 1), u[k]>>]
    BY <2>1 DEF History
  <2>3. History(C, B)[k] = C[<<SubSeq(B, 1, k - 1), B[k]>>]
    BY <2>1 DEF History
  <2> QED BY <1>1, <1>2, <2>1, <2>2, <2>3
<1> QED BY <1>1, <1>4, <1>5, <1>6 DEF u, n

LEMMA OutcomesType ==
    ASSUME NEW d \in Designs, NEW prog \in Programs, NEW B \in Seq(TransferOf(prog))
    PROVE  d.bits \in Nat /\ LastOutcomes(B, d.bits) \in [1 .. d.bits -> BOOLEAN]
<1> DEFINE n == d.bits
           m == Len(B)
<1>1. n \in Nat /\ m \in Nat
  BY DesignType, LenProperties
<1>2. \A k \in 1 .. m : B[k].taken \in BOOLEAN
  <2>1. \A x \in TransferOf(prog) : x.taken \in BOOLEAN
    BY DEF TransferOf
  <2>2. \A k \in 1 .. m : B[k] \in TransferOf(prog)
    BY ElementOfSeq
  <2> QED BY <2>1, <2>2
<1> SUFFICES ASSUME NEW j \in 1 .. n
             PROVE  (IF j <= m THEN B[m + 1 - j].taken ELSE FALSE) \in BOOLEAN
  BY <1>1 DEF LastOutcomes
<1>3. CASE j <= m
  <2>1. m + 1 - j \in 1 .. m
    BY <1>1, <1>3
  <2> QED BY <1>2, <1>3, <2>1
<1>4. CASE ~(j <= m)
  BY <1>4
<1> QED BY <1>3, <1>4

\* The last outcomes of B as a history register holds them.
Number(d, B) == AsNumber(LastOutcomes(B, d.bits))

LEMMA NumberGrows ==
    ASSUME NEW d \in Designs, d.name \in {"gshare", "tournament"},
           NEW prog \in Programs, NEW B \in Seq(TransferOf(prog)), NEW r \in TransferOf(prog)
    PROVE  Number(d, Append(B, r)) = Shifted(d, Number(d, B), r.taken)
<1> DEFINE n == d.bits
           a == LastOutcomes(B, n)
           b == LastOutcomes(Append(B, r), n)
           m == Len(B)
<1>1. n \in Nat /\ d.size = TwoTo(n)
  BY DesignType, PredictionAssumption
<1>2. /\ m \in Nat /\ Len(Append(B, r)) = m + 1 /\ Append(B, r)[m + 1] = r
      /\ \A k \in 1 .. m : Append(B, r)[k] = B[k]
  BY LenProperties, AppendProperties
<1>4. \A j \in 1 .. n : a[j] = IF j <= m THEN B[m + 1 - j].taken ELSE FALSE
  BY DEF LastOutcomes
<1>5. \A j \in 1 .. n : b[j] = IF j <= m + 1 THEN Append(B, r)[(m + 1) + 1 - j].taken ELSE FALSE
  BY <1>2 DEF LastOutcomes
<1>6. a \in [1 .. n -> BOOLEAN]
  BY OutcomesType
<1>7. ASSUME n > 0 PROVE b[1] = r.taken
  <2>1. 1 \in 1 .. n /\ 1 <= m + 1 /\ (m + 1) + 1 - 1 = m + 1
    BY <1>1, <1>2, <1>7
  <2> QED BY <1>2, <1>5, <2>1
<1>8. ASSUME NEW j \in 1 .. n - 1 PROVE b[j + 1] = a[j]
  <2>1. j + 1 \in 1 .. n /\ j \in 1 .. n /\ (m + 1) + 1 - (j + 1) = m + 1 - j
    BY <1>1, <1>2
  <2>2. CASE j <= m
    <3>1. m + 1 - j \in 1 .. m /\ j + 1 <= m + 1
      BY <1>1, <1>2, <2>2
    <3> QED BY <1>2, <1>4, <1>5, <2>1, <2>2, <3>1
  <2>3. CASE ~(j <= m)
    <3>1. ~(j + 1 <= m + 1)
      BY <1>1, <1>2, <2>3
    <3> QED BY <1>4, <1>5, <2>1, <2>3, <3>1
  <2> QED BY <2>2, <2>3
<1>9. b \in [1 .. n -> BOOLEAN] /\ r.taken \in BOOLEAN
  <2>1. Append(B, r) \in Seq(TransferOf(prog))
    BY AppendProperties
  <2> HIDE DEF a, b
  <2>2. LastOutcomes(Append(B, r), d.bits) \in [1 .. d.bits -> BOOLEAN]
    BY <2>1, OutcomesType
  <2> QED BY <2>2 DEF b, n, TransferOf
<1> HIDE DEF a, b, n, m
<1> DEFINE taken == r.taken
<1> HIDE DEF taken
<1>10. AsNumber(b) = (2 * AsNumber(a) + One(taken)) % TwoTo(n)
  <2>1. /\ taken \in BOOLEAN
        /\ n > 0 => b[1] = taken /\ \A j \in 1 .. n - 1 : b[j + 1] = a[j]
    BY <1>7, <1>8, <1>9 DEF taken
  <2> QED BY <1>1, <1>6, <1>9, <2>1, NumberPushed
<1> QED BY <1>1, <1>10 DEF Number, Shifted, a, b, n, taken

\* Registers start at zero.
LEMMA NumberOfNone ==
    ASSUME NEW d \in Designs
    PROVE  Number(d, <<>>) = 0
<1> DEFINE n == d.bits
           o == LastOutcomes(<<>>, n)
<1>1. n \in Nat
  BY DesignType
<1>2. \A j \in 1 .. n : ~(j <= Len(<<>>))
  BY <1>1
<1>3. o = [j \in 1 .. n |-> FALSE]
  BY <1>2 DEF LastOutcomes
<1>4. o \in [1 .. n -> BOOLEAN] /\ \A j \in 1 .. n : o[j] = FALSE
  BY <1>3
<1> HIDE DEF o, n
<1>5. PICK g : Reads(g, n, o) /\ AsNumber(o) = g[n]
  BY <1>1, <1>4, NumberIsRead
<1> DEFINE Kept == {j \in 0 .. n : g[j] = 0}
<1>6. 0 .. n \subseteq Kept
  <2>1. 0 \in Kept
    BY <1>1, <1>5 DEF Reads
  <2>2. ASSUME NEW j \in 1 .. n, j - 1 \in Kept PROVE j \in Kept
    <3>1. n + 1 - j \in 1 .. n /\ j \in 0 .. n
      BY <1>1
    <3>2. g[j] = 2 * g[j - 1] + One(o[n + 1 - j])
      BY <1>5 DEF Reads
    <3>3. One(o[n + 1 - j]) = 0
      BY <1>4, <3>1 DEF One
    <3> QED BY <2>2, <3>1, <3>2, <3>3
  <2> HIDE DEF Kept
  <2> QED BY <1>1, <2>1, <2>2, KeptThroughout
<1>7. g[n] = 0
  BY <1>1, <1>6
<1> QED BY <1>5, <1>7 DEF Number, o, n

-----------------------------------------------------------------------------
(* What the tables have learned from the branches B.                       *)

EntryBranches(d, B, e) == Selected(B, {k \in DOMAIN B : LocalIndex(d, B[k].inst.pc) = e})

\* The predictor as the branches alone make it, and what its components said of
\* the branch x[2] after the branches x[1].
Replayed(d, B) == Replay(d, New(d), B).predictor
LocalSaid(d, x) == LocalTaken(d, Replayed(d, x[1]), x[2].inst.pc)
GlobalSaid(d, x) == GlobalTaken(d, Replayed(d, x[1]))

\* The table entry that the branch x[2] trains after x[1]; the chooser trains
\* none (an index beyond its table) when the components agree.
FoldedAt(d, S) == [x \in Seq(S) \X S |-> FoldedIndex(d, x[2].inst.pc)]
GshareAt(d, S) == [x \in Seq(S) \X S |-> BitXor(x[2].inst.pc, Number(d, x[1])) % d.size]
GlobalAt(d, S) == [x \in Seq(S) \X S |-> Number(d, x[1])]
LocalAt(d, S) == [x \in Seq(S) \X S |-> Number(d, EntryBranches(d, x[1], LocalIndex(d, x[2].inst.pc)))]
ChoiceAt(d, S) == [x \in Seq(S) \X S |-> IF LocalSaid(d, x) = GlobalSaid(d, x) THEN d.size
                                         ELSE Number(d, x[1])]

\* The outcome it trains it with.
TookAt(S) == [x \in Seq(S) \X S |-> x[2].taken]
WonAt(d, S) == [x \in Seq(S) \X S |-> LocalSaid(d, x) = x[2].taken]

GshareLearned(d, S, p, B) ==
    /\ p.global_history = Number(d, B)
    /\ TableLearns(p.counters, History(GshareAt(d, S), B), History(TookAt(S), B))

TournamentLearned(d, S, p, B) ==
    /\ p.global_history = Number(d, B)
    /\ \A e \in Index(d) : p.local_history[e] = Number(d, EntryBranches(d, B, e))
    /\ TableLearns(p.global_pht, History(GlobalAt(d, S), B), History(TookAt(S), B))
    /\ TableLearns(p.local_pht, History(LocalAt(d, S), B), History(TookAt(S), B))
    /\ TableLearns(p.choice_pht, History(ChoiceAt(d, S), B), History(WonAt(d, S), B))

Learned(d, S, p, B) ==
    /\ SameTables(p, Replayed(d, B))
    /\ d.name = "two-bit-saturating" =>
           TableLearns(p.counters, History(FoldedAt(d, S), B), History(TookAt(S), B))
    /\ d.name = "gshare" => GshareLearned(d, S, p, B)
    /\ d.name = "tournament" => TournamentLearned(d, S, p, B)

\* One table: the entry that x trains moves towards the outcome.
LEMMA TableStep ==
    ASSUME NEW d \in Designs, NEW S, NEW table \in CounterTable(d), NEW B \in Seq(S), NEW r \in S,
           NEW C, NEW O, \A x \in Seq(S) \X S : O[x] \in BOOLEAN,
           TableLearns(table, History(C, B), History(O, B)),
           NEW x, x = C[<<B, r>>], NEW taken, taken = O[<<B, r>>]
    PROVE  /\ x \in Index(d) => TableLearns(Updated(table, x, Trained(table[x], taken)),
                                            History(C, Append(B, r)), History(O, Append(B, r)))
           /\ x \notin Index(d) => TableLearns(table, History(C, Append(B, r)), History(O, Append(B, r)))
<1> DEFINE n == Len(B)
           used == History(C, B)
           usedToo == History(C, Append(B, r))
           took == History(O, B)
           tookToo == History(O, Append(B, r))
<1>1. /\ n \in Nat /\ DOMAIN used = 1 .. n /\ DOMAIN usedToo = 1 .. n + 1
      /\ \A k \in 1 .. n : usedToo[k] = used[k] /\ tookToo[k] = took[k]
      /\ usedToo[n + 1] = x /\ tookToo[n + 1] = taken
  BY HistoryGrows
<1>2. took \in [1 .. n -> BOOLEAN]
  <2>1. ASSUME NEW k \in 1 .. n PROVE <<SubSeq(B, 1, k - 1), B[k]>> \in Seq(S) \X S
    <3>1. \A i \in 1 .. n : B[i] \in S
      BY ElementOfSeq
    <3>2. 1 \in Int /\ k - 1 \in Int /\ \A i \in 1 .. k - 1 : B[i] \in S
      BY <1>1, <3>1
    <3>3. SubSeq(B, 1, k - 1) \in Seq(S)
      BY <3>2, SubSeqProperties
    <3> QED BY <3>1, <3>3
  <2> QED BY <2>1 DEF History
<1>3. taken \in BOOLEAN
  OBVIOUS
<1> HIDE DEF used, usedToo, took, tookToo, n
<1>4. table \in [Index(d) -> Counter] /\ TableLearns(table, used, took)
  BY DEF CounterTable, used, took
<1> DEFINE I == Index(d)
<1> HIDE DEF I
<1>5. table \in [I -> Counter]
  BY <1>4 DEF I
<1>6. /\ usedToo[n + 1] \in I =>
             TableLearns(Updated(table, usedToo[n + 1], Trained(table[usedToo[n + 1]], taken)), usedToo, tookToo)
      /\ usedToo[n + 1] \notin I => TableLearns(table, usedToo, tookToo)
  BY <1>1, <1>2, <1>3, <1>4, <1>5, TableGrows
<1> QED BY <1>1, <1>6 DEF I, usedToo, tookToo

LEMMA TookType ==
    ASSUME NEW prog \in Programs
    PROVE  LET S == TransferOf(prog)
           IN  \A x \in Seq(S) \X S : /\ TookAt(S)[x] \in BOOLEAN /\ TookAt(S)[x] = x[2].taken
                                      /\ x[2].taken \in BOOLEAN /\ x[2].inst \in prog.code
BY DEF TookAt, TransferOf

LEMMA SelectedNothing == \A K : Selected(<<>>, K) = <<>>
<1>1. <<>> \in Seq({0}) /\ 0 \in {0}
  OBVIOUS
<1> QED BY <1>1, SelectedGrows

LEMMA EntryGrows ==
    ASSUME NEW d, NEW S, NEW B \in Seq(S), NEW r \in S, NEW e
    PROVE  /\ EntryBranches(d, B, e) \in Seq(S)
           /\ EntryBranches(d, Append(B, r), e) = IF LocalIndex(d, r.inst.pc) = e
                                                  THEN Append(EntryBranches(d, B, e), r)
                                                  ELSE EntryBranches(d, B, e)
<1> DEFINE u == Append(B, r)
           n == Len(B)
           K == {k \in DOMAIN B : LocalIndex(d, B[k].inst.pc) = e}
           L == {k \in DOMAIN u : LocalIndex(d, u[k].inst.pc) = e}
<1>1. /\ n \in Nat /\ u \in Seq(S) /\ DOMAIN B = 1 .. n /\ DOMAIN u = 1 .. n + 1 /\ u[n + 1] = r
      /\ \A k \in 1 .. n : u[k] = B[k]
  BY LenProperties, AppendProperties
<1>2. \A k \in 1 .. n : k \in L <=> k \in K
  BY <1>1
<1>3. n + 1 \in L <=> LocalIndex(d, r.inst.pc) = e
  BY <1>1
<1> HIDE DEF K, L, n
<1>4. /\ Selected(B, K) \in Seq(S)
      /\ Selected(u, L) = IF n + 1 \in L THEN Append(Selected(B, K), r) ELSE Selected(B, K)
  <2>1. \A k \in 1 .. Len(B) : k \in L <=> k \in K
    BY <1>2 DEF n
  <2>2. Selected(B, K) \in Seq(S)
    BY SelectedGrows
  <2>3. Len(B) + 1 \in L => Selected(Append(B, r), L) = Append(Selected(B, K), r)
    BY <2>1, SelectedGrows
  <2>4. Len(B) + 1 \notin L => Selected(Append(B, r), L) = Selected(B, K)
    BY <2>1, SelectedGrows
  <2> QED BY <2>2, <2>3, <2>4 DEF n
<1> QED BY <1>3, <1>4 DEF EntryBranches, K, L, u

LEMMA EntrySame ==
    ASSUME NEW d, NEW S, NEW B \in Seq(S), NEW r \in S, NEW e, LocalIndex(d, r.inst.pc) # e
    PROVE  EntryBranches(d, Append(B, r), e) = EntryBranches(d, B, e)
<1> DEFINE u == Append(B, r)
           K == {k \in DOMAIN B : LocalIndex(d, B[k].inst.pc) = e}
           L == {k \in DOMAIN u : LocalIndex(d, u[k].inst.pc) = e}
<1>1. /\ Len(B) \in Nat /\ DOMAIN B = 1 .. Len(B) /\ DOMAIN u = 1 .. Len(B) + 1
      /\ u[Len(B) + 1] = r /\ \A k \in 1 .. Len(B) : u[k] = B[k]
  BY LenProperties, AppendProperties
<1>2. \A k \in 1 .. Len(B) : k \in L <=> k \in K
  BY <1>1
<1>3. Len(B) + 1 \notin L
  BY <1>1
<1> HIDE DEF K, L
<1>4. Selected(Append(B, r), L) = Selected(B, K)
  BY <1>2, <1>3, SelectedGrows
<1> QED BY <1>4 DEF EntryBranches, K, L, u

\* Predictors with the same tables say the same and learn the same from a branch.
LEMMA SameSaid ==
    ASSUME NEW d, NEW p, NEW q, SameTables(p, q), NEW pc
    PROVE  /\ LocalTaken(d, p, pc) = LocalTaken(d, q, pc) /\ GlobalTaken(d, p) = GlobalTaken(d, q)
           /\ GshareIndex(d, p, pc) = GshareIndex(d, q, pc)
BY DEF SameTables, LocalTaken, GlobalTaken, GshareIndex

LEMMA ResolveSame ==
    ASSUME NEW d \in Designs, NEW prog \in Programs, NEW p \in PredictorState(d), NEW q \in PredictorState(d),
           SameTables(p, q), NEW r \in TransferOf(prog), r.inst.kind = "branch"
    PROVE  SameTables(Resolve(d, p, r.inst, r.taken, r.target), Resolve(d, q, r.inst, r.taken, r.target))
<1> DEFINE i == r.inst
           taken == r.taken
           x == Resolve(d, p, i, taken, r.target)
           y == Resolve(d, q, i, taken, r.target)
<1>1. i \in prog.code /\ taken \in BOOLEAN
  BY DEF TransferOf
<1>2. /\ LocalTaken(d, p, i.pc) = LocalTaken(d, q, i.pc) /\ GlobalTaken(d, p) = GlobalTaken(d, q)
      /\ GshareIndex(d, p, i.pc) = GshareIndex(d, q, i.pc)
  BY SameSaid
<1>3. CASE d.name \in {"always-not-taken", "ras"}
  <2>1. x = p /\ y = q
    BY <1>1, <1>3, ResolveCases
  <2> HIDE DEF x, y
  <2>2. SameTables(x, y)
    BY <2>1
  <2> QED BY <2>2 DEF x, y
<1>4. CASE d.name = "two-bit-saturating"
  <2> DEFINE v == TrainTwoBit(d, p, i.pc, taken)
             w == TrainTwoBit(d, q, i.pc, taken)
  <2>1. x = v /\ y = w
    BY <1>1, <1>4, ResolveCases
  <2>2. SameTables(v, w)
    <3> HIDE DEF i, taken, v, w
    <3>1. /\ v.counters = Updated(p.counters, FoldedIndex(d, i.pc), Trained(p.counters[FoldedIndex(d, i.pc)], taken))
          /\ v.global_history = p.global_history
          /\ v.local_history = p.local_history /\ v.local_pht = p.local_pht
          /\ v.global_pht = p.global_pht /\ v.choice_pht = p.choice_pht
      BY <1>1, TwoBitType DEF v
    <3>2. /\ w.counters = Updated(q.counters, FoldedIndex(d, i.pc), Trained(q.counters[FoldedIndex(d, i.pc)], taken))
          /\ w.global_history = q.global_history
          /\ w.local_history = q.local_history /\ w.local_pht = q.local_pht
          /\ w.global_pht = q.global_pht /\ w.choice_pht = q.choice_pht
      BY <1>1, TwoBitType DEF w
    <3> QED BY <3>1, <3>2 DEF SameTables
  <2> HIDE DEF x, y, v, w
  <2>3. SameTables(x, y)
    BY <2>1, <2>2
  <2> QED BY <2>3 DEF x, y
<1>5. CASE d.name = "gshare"
  <2> DEFINE v == TrainGshare(d, p, i.pc, taken)
             w == TrainGshare(d, q, i.pc, taken)
             k == GshareIndex(d, p, i.pc)
  <2>1. x = v /\ y = w
    BY <1>1, <1>5, ResolveCases
  <2>2. SameTables(v, w)
    <3> HIDE DEF i, taken, v, w
    <3>1. /\ v.counters = Updated(p.counters, k, Trained(p.counters[k], taken))
          /\ v.global_history = Shifted(d, p.global_history, taken)
          /\ v.local_history = p.local_history /\ v.local_pht = p.local_pht
          /\ v.global_pht = p.global_pht /\ v.choice_pht = p.choice_pht
      BY <1>1, GshareType DEF v
    <3>2. /\ w.counters = Updated(q.counters, k, Trained(q.counters[k], taken))
          /\ w.global_history = Shifted(d, q.global_history, taken)
          /\ w.local_history = q.local_history /\ w.local_pht = q.local_pht
          /\ w.global_pht = q.global_pht /\ w.choice_pht = q.choice_pht
      BY <1>1, <1>2, GshareType DEF w
    <3> HIDE DEF k
    <3> QED BY <3>1, <3>2 DEF SameTables
  <2> HIDE DEF x, y, v, w
  <2>3. SameTables(x, y)
    BY <2>1, <2>2
  <2> QED BY <2>3 DEF x, y
<1>6. CASE d.name = "tournament"
  <2> DEFINE v == TrainTournament(d, p, i.pc, taken)
             w == TrainTournament(d, q, i.pc, taken)
             li == LocalIndex(d, i.pc)
             lh == p.local_history[li]
             h == p.global_history
             local == LocalTaken(d, p, i.pc)
             global == GlobalTaken(d, p)
  <2>1. x = v /\ y = w
    BY <1>1, <1>6, ResolveCases
  <2>2. SameTables(v, w)
    <3> HIDE DEF i, taken, v, w
    <3>1. /\ v.local_pht = Updated(p.local_pht, lh, Trained(p.local_pht[lh], taken))
          /\ v.global_pht = Updated(p.global_pht, h, Trained(p.global_pht[h], taken))
          /\ v.choice_pht = Updated(p.choice_pht, h, TrainedChoice(p.choice_pht[h], local, global, taken))
          /\ v.local_history = Updated(p.local_history, li, Shifted(d, lh, taken))
          /\ v.global_history = Shifted(d, h, taken)
          /\ v.counters = p.counters
      BY <1>1, TournamentType DEF v
    <3>2. q.local_history[li] = lh /\ q.global_history = h
      BY DEF SameTables
    <3>3. /\ w.local_pht = Updated(q.local_pht, lh, Trained(q.local_pht[lh], taken))
          /\ w.global_pht = Updated(q.global_pht, h, Trained(q.global_pht[h], taken))
          /\ w.choice_pht = Updated(q.choice_pht, h, TrainedChoice(q.choice_pht[h], local, global, taken))
          /\ w.local_history = Updated(q.local_history, li, Shifted(d, lh, taken))
          /\ w.global_history = Shifted(d, h, taken)
          /\ w.counters = q.counters
      BY <1>1, <1>2, <3>2, TournamentType DEF w
    <3> HIDE DEF li, lh, h, local, global
    <3> QED BY <3>1, <3>3 DEF SameTables
  <2> HIDE DEF x, y, v, w
  <2>3. SameTables(x, y)
    BY <2>1, <2>2
  <2> QED BY <2>3 DEF x, y
<1>7. d.name \in DesignNames
  BY <1>1, ResolveCases
<1> QED BY <1>3, <1>4, <1>5, <1>6, <1>7 DEF DesignNames

LEMMA ReplayedGrows ==
    ASSUME NEW d \in Designs, NEW prog \in Programs, NEW B \in Seq(TransferOf(prog)),
           NEW r \in TransferOf(prog)
    PROVE  /\ Replayed(d, B) \in PredictorState(d)
           /\ Replayed(d, <<>>) = New(d)
           /\ Replayed(d, Append(B, r)) = Resolve(d, Replayed(d, B), r.inst, r.taken, r.target)
<1>1. New(d) \in PredictorState(d)
  BY NewType
<1>2. Replay(d, New(d), B) \in State(d) /\ Replay(d, New(d), <<>>) = ReplayStart(New(d))
  BY <1>1, ReplayType
<1>3. Replay(d, New(d), Append(B, r)) = Recorded(d, Replay(d, New(d), B), r)
  BY <1>1, ReplayGrows
<1> QED BY <1>2, <1>3 DEF Replayed, Recorded, State, ReplayStart

\* A table that was just made has learned nothing.
LEMMA NothingLearned ==
    ASSUME NEW C, NEW O, NEW table
    PROVE  TableLearns(table, History(C, <<>>), History(O, <<>>))
<1>1. DOMAIN History(C, <<>>) = {}
  BY DEF History
<1> HIDE DEF History
<1> QED BY <1>1 DEF TableLearns, Leans, IsLast

LEMMA LearnedAtStart ==
    ASSUME NEW d \in Designs, NEW prog \in Programs
    PROVE  Learned(d, TransferOf(prog), New(d), <<>>)
<1>1. SameTables(New(d), Replayed(d, <<>>))
  <2>1. <<>> \in Seq(TransferOf(prog))
    OBVIOUS
  <2>2. Replay(d, New(d), <<>>) = ReplayStart(New(d))
    BY <2>1, NewType, ReplayType
  <2> QED BY <2>2 DEF SameTables, Replayed, ReplayStart
<1>2. New(d).global_history = Number(d, <<>>)
  BY NumberOfNone DEF New
<1>3. ASSUME NEW e \in Index(d)
      PROVE  New(d).local_history[e] = Number(d, EntryBranches(d, <<>>, e))
  <2>1. EntryBranches(d, <<>>, e) = <<>>
    <3>1. Selected(<<>>, {k \in DOMAIN <<>> : LocalIndex(d, <<>>[k].inst.pc) = e}) = <<>>
      BY SelectedNothing
    <3> QED BY <3>1 DEF EntryBranches
  <2>2. New(d).local_history[e] = 0
    BY DEF New, Table, Index
  <2> QED BY <2>1, <2>2, NumberOfNone
<1> HIDE DEF New
<1> QED BY <1>1, <1>2, <1>3, NothingLearned DEF Learned, GshareLearned, TournamentLearned

\* Jumps leave the tables alone.
LEMMA LearnedByJump ==
    ASSUME NEW d \in Designs, NEW prog \in Programs, NEW p \in PredictorState(d),
           NEW B, NEW r \in TransferOf(prog), r.inst.kind # "branch", Learned(d, TransferOf(prog), p, B)
    PROVE  Learned(d, TransferOf(prog), Resolve(d, p, r.inst, r.taken, r.target), B)
<1> DEFINE q == Resolve(d, p, r.inst, r.taken, r.target)
<1>1. r.inst \in prog.code /\ r.target \in Nat
  BY DEF TransferOf
<1>2. SameTables(q, p)
  <2>1. CASE d.name = "always-not-taken"
    <3>1. q = p
      BY <1>1, <2>1, ResolveCases
    <3> HIDE DEF q
    <3>2. SameTables(q, p)
      BY <3>1 DEF SameTables
    <3> QED BY <3>2
  <2>2. CASE d.name # "always-not-taken"
    <3>1. q = CallsResolved(d, p, r.inst, r.target)
      BY <1>1, <2>2, ResolveCases
    <3> HIDE DEF q
    <3>2. SameTables(q, p)
      BY <1>1, <3>1, CallsType
    <3> QED BY <3>2
  <2> QED BY <2>1, <2>2
<1> HIDE DEF q
<1>3. /\ q.counters = p.counters /\ q.global_history = p.global_history
      /\ q.local_history = p.local_history /\ q.local_pht = p.local_pht
      /\ q.global_pht = p.global_pht /\ q.choice_pht = p.choice_pht
  BY <1>2 DEF SameTables
<1>4. SameTables(q, Replayed(d, B))
  BY <1>3 DEF SameTables, Learned
<1>5. Learned(d, TransferOf(prog), q, B)
  BY <1>3, <1>4 DEF Learned, GshareLearned, TournamentLearned
<1> QED BY <1>5 DEF q

\* The five tables, when a branch r comes after the branches B.
LEMMA TwoBitLearns ==
    ASSUME NEW d \in Designs, NEW prog \in Programs, NEW p \in PredictorState(d),
           NEW B \in Seq(TransferOf(prog)), NEW r \in TransferOf(prog), NEW S, S = TransferOf(prog),
           TableLearns(p.counters, History(FoldedAt(d, S), B), History(TookAt(S), B))
    PROVE  TableLearns(TrainTwoBit(d, p, r.inst.pc, r.taken).counters,
                       History(FoldedAt(d, S), Append(B, r)), History(TookAt(S), Append(B, r)))
<1> DEFINE x == FoldedIndex(d, r.inst.pc)
           taken == r.taken
           t == p.counters
<1>1. r.inst \in prog.code /\ taken \in BOOLEAN
  BY DEF TransferOf
<1>2. x = FoldedAt(d, S)[<<B, r>>]
  BY DEF FoldedAt
<1>3. taken = TookAt(S)[<<B, r>>] /\ \A y \in Seq(S) \X S : TookAt(S)[y] \in BOOLEAN
  BY TookType DEF TookAt
<1>4. /\ TrainTwoBit(d, p, r.inst.pc, taken).counters = Updated(t, x, Trained(t[x], taken))
      /\ x \in Index(d)
  BY <1>1, TwoBitType
<1>5. t \in CounterTable(d)
  BY PredictorFields
<1>6. TableLearns(t, History(FoldedAt(d, S), B), History(TookAt(S), B))
  OBVIOUS
<1> HIDE DEF x, taken, t
<1>7. TableLearns(Updated(t, x, Trained(t[x], taken)),
                  History(FoldedAt(d, S), Append(B, r)), History(TookAt(S), Append(B, r)))
  <2> DEFINE C == FoldedAt(d, S)
             O == TookAt(S)
  <2> HIDE DEF C, O
  <2>1. /\ B \in Seq(S) /\ r \in S /\ \A y \in Seq(S) \X S : O[y] \in BOOLEAN
        /\ x = C[<<B, r>>] /\ taken = O[<<B, r>>] /\ TableLearns(t, History(C, B), History(O, B))
    BY <1>2, <1>3, <1>6 DEF C, O
  <2>2. TableLearns(Updated(t, x, Trained(t[x], taken)), History(C, Append(B, r)), History(O, Append(B, r)))
    BY <1>4, <1>5, <2>1, TableStep
  <2> QED BY <2>2 DEF C, O
<1> QED BY <1>4, <1>7 DEF x, taken, t

LEMMA GshareLearns ==
    ASSUME NEW d \in Designs, d.name = "gshare", NEW prog \in Programs, NEW p \in PredictorState(d),
           NEW B \in Seq(TransferOf(prog)), NEW r \in TransferOf(prog), NEW S, S = TransferOf(prog),
           GshareLearned(d, S, p, B)
    PROVE  GshareLearned(d, S, TrainGshare(d, p, r.inst.pc, r.taken), Append(B, r))
<1> DEFINE x == GshareIndex(d, p, r.inst.pc)
           taken == r.taken
           t == p.counters
           q == TrainGshare(d, p, r.inst.pc, taken)
<1>1. r.inst \in prog.code /\ taken \in BOOLEAN
  BY DEF TransferOf
<1>2. x = GshareAt(d, S)[<<B, r>>]
  BY DEF GshareAt, GshareIndex, GshareLearned
<1>3. taken = TookAt(S)[<<B, r>>] /\ \A y \in Seq(S) \X S : TookAt(S)[y] \in BOOLEAN
  BY TookType DEF TookAt
<1>4. /\ q.counters = Updated(t, x, Trained(t[x], taken)) /\ x \in Index(d)
      /\ q.global_history = Shifted(d, p.global_history, taken)
  BY <1>1, GshareType
<1>5. t \in CounterTable(d)
  BY PredictorFields
<1>6. TableLearns(t, History(GshareAt(d, S), B), History(TookAt(S), B))
  BY DEF GshareLearned
<1>7. Shifted(d, p.global_history, taken) = Number(d, Append(B, r))
  BY NumberGrows DEF GshareLearned
<1> HIDE DEF x, taken, t, q
<1>8. TableLearns(Updated(t, x, Trained(t[x], taken)),
                  History(GshareAt(d, S), Append(B, r)), History(TookAt(S), Append(B, r)))
  <2> DEFINE C == GshareAt(d, S)
             O == TookAt(S)
  <2> HIDE DEF C, O
  <2>1. /\ B \in Seq(S) /\ r \in S /\ \A y \in Seq(S) \X S : O[y] \in BOOLEAN
        /\ x = C[<<B, r>>] /\ taken = O[<<B, r>>] /\ TableLearns(t, History(C, B), History(O, B))
    BY <1>2, <1>3, <1>6 DEF C, O
  <2>2. TableLearns(Updated(t, x, Trained(t[x], taken)), History(C, Append(B, r)), History(O, Append(B, r)))
    BY <1>4, <1>5, <2>1, TableStep
  <2> QED BY <2>2 DEF C, O
<1>9. GshareLearned(d, S, q, Append(B, r))
  BY <1>4, <1>7, <1>8 DEF GshareLearned
<1> QED BY <1>9 DEF q, taken

LEMMA TournamentLearns ==
    ASSUME NEW d \in Designs, d.name = "tournament", NEW prog \in Programs, NEW p \in PredictorState(d),
           NEW B \in Seq(TransferOf(prog)), NEW r \in TransferOf(prog), NEW S, S = TransferOf(prog),
           SameTables(p, Replayed(d, B)), TournamentLearned(d, S, p, B)
    PROVE  TournamentLearned(d, S, TrainTournament(d, p, r.inst.pc, r.taken), Append(B, r))
<1> DEFINE taken == r.taken
           q == TrainTournament(d, p, r.inst.pc, taken)
           li == LocalIndex(d, r.inst.pc)
           lh == p.local_history[li]
           h == p.global_history
           local == LocalTaken(d, p, r.inst.pc)
           global == GlobalTaken(d, p)
           u == Append(B, r)
           O == TookAt(S)
           W == WonAt(d, S)
           GC == GlobalAt(d, S)
           LC == LocalAt(d, S)
           CC == ChoiceAt(d, S)
<1>1. r.inst \in prog.code /\ taken \in BOOLEAN /\ B \in Seq(S) /\ r \in S
  BY DEF TransferOf
<1>2. /\ li \in Index(d) /\ lh \in Index(d)
      /\ q.local_pht = Updated(p.local_pht, lh, Trained(p.local_pht[lh], taken))
      /\ q.global_pht = Updated(p.global_pht, h, Trained(p.global_pht[h], taken))
      /\ q.choice_pht = Updated(p.choice_pht, h, TrainedChoice(p.choice_pht[h], local, global, taken))
      /\ q.local_history = Updated(p.local_history, li, Shifted(d, lh, taken))
      /\ q.global_history = Shifted(d, h, taken)
  BY <1>1, TournamentType
<1>3. /\ h \in Index(d) /\ p.local_history \in [Index(d) -> Index(d)]
      /\ p.local_pht \in CounterTable(d) /\ p.global_pht \in CounterTable(d)
      /\ p.choice_pht \in CounterTable(d)
  BY PredictorFields
<1>4. /\ h = Number(d, B) /\ \A e \in Index(d) : p.local_history[e] = Number(d, EntryBranches(d, B, e))
      /\ TableLearns(p.global_pht, History(GC, B), History(O, B))
      /\ TableLearns(p.local_pht, History(LC, B), History(O, B))
      /\ TableLearns(p.choice_pht, History(CC, B), History(W, B))
  BY DEF TournamentLearned
<1>5. /\ taken = O[<<B, r>>] /\ \A y \in Seq(S) \X S : O[y] \in BOOLEAN
      /\ \A y \in Seq(S) \X S : W[y] \in BOOLEAN
  BY TookType DEF TookAt, WonAt
<1>6. GC[<<B, r>>] = h /\ LC[<<B, r>>] = lh
  BY <1>1, <1>2, <1>4 DEF GlobalAt, LocalAt
<1>7. LocalSaid(d, <<B, r>>) = local /\ GlobalSaid(d, <<B, r>>) = global
  BY SameSaid DEF LocalSaid, GlobalSaid
<1>8. W[<<B, r>>] = (local = taken) /\ CC[<<B, r>>] = IF local = global THEN d.size ELSE h
  BY <1>1, <1>4, <1>7 DEF WonAt, ChoiceAt
<1>9. d.size \notin Index(d)
  BY DesignType DEF Index
<1>10. q.global_history = Number(d, u)
  BY <1>2, <1>4, NumberGrows
<1>11. ASSUME NEW e \in Index(d) PROVE q.local_history[e] = Number(d, EntryBranches(d, u, e))
  <2>1. EntryBranches(d, B, e) \in Seq(S)
    BY <1>1, EntryGrows
  <2>2. CASE e = li
    <3>1. EntryBranches(d, u, e) = Append(EntryBranches(d, B, e), r)
      BY <1>1, <2>2, EntryGrows
    <3>2. Number(d, EntryBranches(d, u, e)) = Shifted(d, Number(d, EntryBranches(d, B, e)), taken)
      BY <2>1, <3>1, NumberGrows
    <3>3. q.local_history[e] = Shifted(d, lh, taken)
      <4> HIDE DEF q, li, lh
      <4> QED BY <1>2, <1>3, <2>2 DEF Updated
    <3> QED BY <1>4, <2>2, <3>2, <3>3
  <2>3. CASE e # li
    <3>1. EntryBranches(d, u, e) = EntryBranches(d, B, e)
      <4>1. LocalIndex(d, r.inst.pc) # e
        BY <2>3
      <4> QED BY <1>1, <4>1, EntrySame
    <3>2. q.local_history[e] = p.local_history[e]
      <4> HIDE DEF q, li, lh
      <4> QED BY <1>2, <1>3, <2>3 DEF Updated
    <3> QED BY <1>4, <3>1, <3>2
  <2> QED BY <2>2, <2>3
<1> HIDE DEF taken, q, li, lh, h, local, global, u, O, W, GC, LC, CC
<1>12. TableLearns(q.global_pht, History(GC, u), History(O, u))
  <2> DEFINE t == p.global_pht
  <2>1. TableLearns(t, History(GC, B), History(O, B)) /\ t \in CounterTable(d)
    BY <1>3, <1>4
  <2> HIDE DEF t
  <2>2. TableLearns(Updated(t, h, Trained(t[h], taken)), History(GC, u), History(O, u))
    BY <1>1, <1>3, <1>5, <1>6, <2>1, TableStep DEF u
  <2> QED BY <1>2, <2>2 DEF t
<1>13. TableLearns(q.local_pht, History(LC, u), History(O, u))
  <2> DEFINE t == p.local_pht
  <2>1. TableLearns(t, History(LC, B), History(O, B)) /\ t \in CounterTable(d)
    BY <1>3, <1>4
  <2> HIDE DEF t
  <2>2. TableLearns(Updated(t, lh, Trained(t[lh], taken)), History(LC, u), History(O, u))
    BY <1>1, <1>2, <1>5, <1>6, <2>1, TableStep DEF u
  <2> QED BY <1>2, <2>2 DEF t
<1>14. TableLearns(q.choice_pht, History(CC, u), History(W, u))
  <2> DEFINE t == p.choice_pht
             won == local = taken
             x == CC[<<B, r>>]
  <2>1. TableLearns(t, History(CC, B), History(W, B)) /\ t \in CounterTable(d)
    BY <1>3, <1>4
  <2>2. q.choice_pht = Updated(t, h, TrainedChoice(t[h], local, global, taken))
    BY <1>2
  <2>3. won = W[<<B, r>>]
    BY <1>8
  <2> HIDE DEF t, x
  <2>4. CASE local = global
    <3>1. x = d.size
      BY <1>8, <2>4 DEF x
    <3>2. TrainedChoice(t[h], local, global, taken) = t[h]
      BY <2>4 DEF TrainedChoice
    <3>3. Updated(t, h, t[h]) = t
      BY <1>3, <2>1 DEF CounterTable, Updated
    <3>4. TableLearns(t, History(CC, u), History(W, u))
      <4> HIDE DEF won
      <4> QED BY <1>1, <1>5, <1>9, <2>1, <2>3, <3>1, TableStep DEF u, x
    <3> QED BY <2>2, <3>2, <3>3, <3>4
  <2>5. CASE local # global
    <3>1. x = h
      BY <1>8, <2>5 DEF x
    <3>2. TrainedChoice(t[h], local, global, taken) = Trained(t[h], won)
      BY <2>5 DEF TrainedChoice
    <3>3. TableLearns(Updated(t, x, Trained(t[x], won)), History(CC, u), History(W, u))
      <4> HIDE DEF won
      <4> QED BY <1>1, <1>3, <1>5, <2>1, <2>3, <3>1, TableStep DEF u, x
    <3> QED BY <2>2, <3>1, <3>2, <3>3
  <2> QED BY <2>4, <2>5
<1>15. TournamentLearned(d, S, q, u)
  BY <1>10, <1>11, <1>12, <1>13, <1>14 DEF TournamentLearned, GC, LC, CC, O, W
<1> QED BY <1>15 DEF q, u, taken

LEMMA LearnedByBranch ==
    ASSUME NEW d \in Designs, NEW prog \in Programs, NEW p \in PredictorState(d),
           NEW B \in Seq(TransferOf(prog)), NEW r \in TransferOf(prog), r.inst.kind = "branch",
           NEW S, S = TransferOf(prog), Learned(d, S, p, B)
    PROVE  Learned(d, S, Resolve(d, p, r.inst, r.taken, r.target), Append(B, r))
<1> DEFINE q == Resolve(d, p, r.inst, r.taken, r.target)
           u == Append(B, r)
<1>1. r.inst \in prog.code /\ r.taken \in BOOLEAN /\ r.target \in Nat
  BY DEF TransferOf
<1>2. SameTables(q, Replayed(d, u))
  <2>1. SameTables(p, Replayed(d, B)) /\ Replayed(d, B) \in PredictorState(d)
    BY ReplayedGrows DEF Learned
  <2>2. Replayed(d, u) = Resolve(d, Replayed(d, B), r.inst, r.taken, r.target)
    BY ReplayedGrows
  <2>3. SameTables(q, Resolve(d, Replayed(d, B), r.inst, r.taken, r.target))
    BY <2>1, ResolveSame
  <2> QED BY <2>2, <2>3
<1>3. ASSUME d.name = "two-bit-saturating"
      PROVE  TableLearns(q.counters, History(FoldedAt(d, S), u), History(TookAt(S), u))
  <2>1. q = TrainTwoBit(d, p, r.inst.pc, r.taken)
    BY <1>1, <1>3, ResolveCases
  <2>2. TableLearns(p.counters, History(FoldedAt(d, S), B), History(TookAt(S), B))
    BY <1>3 DEF Learned
  <2>3. TableLearns(TrainTwoBit(d, p, r.inst.pc, r.taken).counters,
                    History(FoldedAt(d, S), u), History(TookAt(S), u))
    BY <2>2, TwoBitLearns
  <2> HIDE DEF q
  <2> QED BY <2>1, <2>3
<1>4. ASSUME d.name = "gshare" PROVE GshareLearned(d, S, q, u)
  <2>1. q = TrainGshare(d, p, r.inst.pc, r.taken)
    BY <1>1, <1>4, ResolveCases
  <2>2. GshareLearned(d, S, p, B)
    BY <1>4 DEF Learned
  <2>3. GshareLearned(d, S, TrainGshare(d, p, r.inst.pc, r.taken), u)
    BY <1>4, <2>2, GshareLearns
  <2> HIDE DEF q
  <2> QED BY <2>1, <2>3
<1>5. ASSUME d.name = "tournament" PROVE TournamentLearned(d, S, q, u)
  <2>1. q = TrainTournament(d, p, r.inst.pc, r.taken)
    BY <1>1, <1>5, ResolveCases
  <2>2. TournamentLearned(d, S, p, B) /\ SameTables(p, Replayed(d, B))
    BY <1>5 DEF Learned
  <2>3. TournamentLearned(d, S, TrainTournament(d, p, r.inst.pc, r.taken), u)
    BY <1>5, <2>2, TournamentLearns
  <2> HIDE DEF q
  <2> QED BY <2>1, <2>3
<1> HIDE DEF q, u
<1>6. Learned(d, S, q, u)
  BY <1>2, <1>3, <1>4, <1>5 DEF Learned
<1> QED BY <1>6 DEF q, u

-----------------------------------------------------------------------------
(* The recorded branches are those the tables learned from.                *)

BranchesOf(t) == Selected(t, {k \in DOMAIN t : t[k].inst.kind = "branch"})

LEMMA BranchesGrow ==
    ASSUME NEW S, NEW t \in Seq(S), NEW r \in S
    PROVE  /\ BranchesOf(t) \in Seq(S)
           /\ BranchesOf(Append(t, r)) = IF r.inst.kind = "branch" THEN Append(BranchesOf(t), r)
                                         ELSE BranchesOf(t)
<1> DEFINE u == Append(t, r)
           K == {k \in DOMAIN t : t[k].inst.kind = "branch"}
           L == {k \in DOMAIN u : u[k].inst.kind = "branch"}
<1>1. /\ Len(t) \in Nat /\ DOMAIN t = 1 .. Len(t) /\ DOMAIN u = 1 .. Len(t) + 1
      /\ u[Len(t) + 1] = r /\ \A k \in 1 .. Len(t) : u[k] = t[k]
  BY LenProperties, AppendProperties
<1>2. \A k \in 1 .. Len(t) : k \in L <=> k \in K
  BY <1>1
<1>3. Len(t) + 1 \in L <=> r.inst.kind = "branch"
  BY <1>1
<1> HIDE DEF K, L
<1>4. Selected(t, K) \in Seq(S)
  BY SelectedGrows
<1>5. Len(t) + 1 \in L => Selected(Append(t, r), L) = Append(Selected(t, K), r)
  BY <1>2, SelectedGrows
<1>6. Len(t) + 1 \notin L => Selected(Append(t, r), L) = Selected(t, K)
  BY <1>2, SelectedGrows
<1> QED BY <1>3, <1>4, <1>5, <1>6 DEF BranchesOf, K, L, u

\* Every table is what its designers' counters make of the branches so far.
LearnedInv == TraceIsComplete => Learned(design, TransferOf(program), predictor, BranchesOf(trace))

THEOREM TablesFollowTheBranches == Spec => []LearnedInv
<1>1. Init => LearnedInv
  <2> SUFFICES ASSUME Init PROVE LearnedInv
    OBVIOUS
  <2>1. design \in Designs /\ program \in Programs /\ trace = <<>> /\ predictor = New(design)
    BY NewType DEF Init
  <2>2. BranchesOf(<<>>) = <<>>
    BY SelectedNothing DEF BranchesOf
  <2>3. Learned(design, TransferOf(program), New(design), <<>>)
    BY <2>1, LearnedAtStart
  <2> QED BY <2>1, <2>2, <2>3 DEF LearnedInv
<1>2. TypeInv /\ LearnedInv /\ [Next]_vars => LearnedInv'
  <2> SUFFICES ASSUME TypeInv, LearnedInv, [Next]_vars, TraceIsComplete'
               PROVE  Learned(design', TransferOf(program'), predictor', BranchesOf(trace'))
    BY DEF LearnedInv
  <2>1. CASE Next
    <3>1. PICK r \in TransferOf(program) : StepOf(r)
      BY <2>1, StepRecords
    <3>2. /\ predictor' = Resolve(design, predictor, r.inst, r.taken, r.target)
          /\ design' = design /\ program' = program
          /\ TraceIsComplete /\ trace' = Append(trace, r)
      BY <3>1, StepEffect DEF StepOf
    <3> DEFINE S == TransferOf(program)
               B == BranchesOf(trace)
               q == Resolve(design, predictor, r.inst, r.taken, r.target)
    <3>3. Learned(design, S, predictor, B)
      BY <3>2 DEF LearnedInv
    <3>4. B \in Seq(S)
      BY BranchesGrow DEF TypeInv
    <3>5. BranchesOf(Append(trace, r)) = IF r.inst.kind = "branch" THEN Append(B, r) ELSE B
      BY BranchesGrow DEF TypeInv
    <3>6. CASE r.inst.kind = "branch"
      <4>1. Learned(design, S, q, Append(B, r))
        BY <3>3, <3>4, <3>6, LearnedByBranch DEF TypeInv
      <4>2. BranchesOf(Append(trace, r)) = Append(B, r)
        BY <3>5, <3>6
      <4> QED BY <3>2, <4>1, <4>2
    <3>7. CASE r.inst.kind # "branch"
      <4>1. Learned(design, S, q, B)
        BY <3>3, <3>4, <3>7, LearnedByJump DEF TypeInv
      <4>2. BranchesOf(Append(trace, r)) = B
        BY <3>5, <3>7
      <4> QED BY <3>2, <4>1, <4>2
    <3> QED BY <3>6, <3>7
  <2>2. CASE UNCHANGED vars
    BY <2>2 DEF LearnedInv, TraceIsComplete, vars
  <2> QED BY <2>1, <2>2
<1> QED BY <1>1, <1>2, TypeCorrect, PTL DEF Spec

\* The two latest of met went the same way, then that is what is said.
FollowsLastTwo(met, took, said) ==
    LET last == Latest(met)
        before == Latest(met \ {last})
    IN  /\ last \in met /\ before \in met
        /\ took[last] = took[before] => said = took[last]

\* A table that has learned predicts the two last equal outcomes of an entry.
LEMMA TableDecides ==
    ASSUME NEW S, NEW B \in Seq(S), NEW C, NEW table, NEW x \in DOMAIN table, NEW O,
           TableLearns(table, History(C, B), History(O, B)),
           NEW met, met = {k \in DOMAIN B : C[<<SubSeq(B, 1, k - 1), B[k]>>] = x},
           Cardinality(met) >= 2, NEW said, said = CounterIsTaken(table[x])
    PROVE  FollowsLastTwo(met, History(O, B), said)
<1> DEFINE n == Len(B)
           used == History(C, B)
           took == History(O, B)
           M == {k \in DOMAIN used : used[k] = x}
<1>1. n \in Nat /\ DOMAIN B = 1 .. n /\ DOMAIN used = 1 .. n
  BY LenProperties DEF History
<1>2. \A k \in 1 .. n : used[k] = C[<<SubSeq(B, 1, k - 1), B[k]>>]
  BY DEF History
<1>3. met = M
  BY <1>1, <1>2
<1>4. Leans(table[x], M, took)
  BY DEF TableLearns
<1>5. M \in SUBSET (1 .. n)
  BY <1>1
<1> HIDE DEF n, took, M
<1> DEFINE c == table[x]
<1> HIDE DEF c
<1>6. Leans(c, met, took) /\ met \in SUBSET (1 .. n)
  BY <1>3, <1>4, <1>5 DEF c
<1>7. LET last == Latest(met)
          before == Latest(met \ {last})
      IN  /\ last \in met /\ before \in met
          /\ took[last] = took[before] => CounterIsTaken(c) = took[last]
  BY <1>1, <1>6, LastTwoAreSeen
<1> QED BY <1>7 DEF took, c, FollowsLastTwo

Decided(B, met, said) ==
    LET last == Latest(met)
        before == Latest(met \ {last})
    IN  Cardinality(met) >= 2 /\ B[last].taken = B[before].taken => said = B[last].taken

LEMMA OutcomesDecide ==
    ASSUME NEW prog \in Programs, NEW S, S = TransferOf(prog), NEW B \in Seq(S), NEW C, NEW table,
           NEW x \in DOMAIN table, TableLearns(table, History(C, B), History(TookAt(S), B)),
           NEW met, met = {k \in DOMAIN B : C[<<SubSeq(B, 1, k - 1), B[k]>>] = x},
           NEW said, said = CounterIsTaken(table[x])
    PROVE  Decided(B, met, said)
<1> DEFINE last == Latest(met)
           before == Latest(met \ {last})
           O == TookAt(S)
           took == History(O, B)
<1> SUFFICES ASSUME Cardinality(met) >= 2, B[last].taken = B[before].taken
             PROVE  said = B[last].taken
  BY DEF Decided
<1>1. \A k \in DOMAIN B : took[k] = B[k].taken
  <2> SUFFICES ASSUME NEW k \in DOMAIN B PROVE took[k] = B[k].taken
    OBVIOUS
  <2>1. DOMAIN B = 1 .. Len(B) /\ B[k] \in S /\ SubSeq(B, 1, k - 1) \in Seq(S)
    BY PrefixType
  <2>2. took[k] = O[<<SubSeq(B, 1, k - 1), B[k]>>]
    BY <2>1 DEF History
  <2>3. <<SubSeq(B, 1, k - 1), B[k]>> \in Seq(S) \X S
    BY <2>1
  <2> QED BY <2>2, <2>3 DEF TookAt
<1>2. /\ last \in met /\ before \in met
      /\ took[last] = took[before] => said = took[last]
  <2> HIDE DEF O
  <2>1. TableLearns(table, History(C, B), History(O, B))
    BY DEF O
  <2>2. FollowsLastTwo(met, History(O, B), said)
    BY <2>1, TableDecides
  <2> QED BY <2>2 DEF FollowsLastTwo
<1>3. last \in DOMAIN B /\ before \in DOMAIN B
  <2> HIDE DEF last, before
  <2> QED BY <1>2
<1> HIDE DEF last, before, took
<1> QED BY <1>1, <1>2, <1>3

LEMMA BranchesType ==
    ASSUME NEW S, NEW t \in Seq(S)
    PROVE  BranchesOf(t) \in Seq(S)
BY SelectedType DEF BranchesOf

\* What the two invariants say while the recording is complete.
LEMMA PresentState ==
    ASSUME TypeInv, LearnedInv, TraceIsComplete
    PROVE  /\ design \in Designs /\ program \in Programs /\ predictor \in PredictorState(design)
           /\ Branches \in Seq(TransferOf(program))
           /\ Learned(design, TransferOf(program), predictor, Branches)
<1>1. BranchesOf(trace) \in Seq(TransferOf(program))
  BY BranchesType DEF TypeInv
<1>2. Branches = BranchesOf(trace)
  BY DEF Branches, BranchesOf
<1> QED BY <1>1, <1>2 DEF TypeInv, LearnedInv

LEMMA TwoBitDecides == TypeInv /\ LearnedInv => TwoBitHysteresis
<1> DEFINE d == design
           S == TransferOf(program)
           B == Branches
           p == predictor
<1> SUFFICES ASSUME TypeInv, LearnedInv, d.name = "two-bit-saturating", TraceIsComplete,
                    NEW i \in program.code
             PROVE  Decided(B, {k \in DOMAIN B : FoldedIndex(d, B[k].inst.pc) = FoldedIndex(d, i.pc)},
                            Direction(d, p, i.pc))
  BY DEF TwoBitHysteresis, LastTwoDecide, Decided, Latest
<1> DEFINE C == FoldedAt(d, S)
           x == FoldedIndex(d, i.pc)
           met == {k \in DOMAIN B : FoldedIndex(d, B[k].inst.pc) = x}
<1>1. /\ d \in Designs /\ program \in Programs /\ p \in PredictorState(d)
      /\ B \in Seq(S) /\ Learned(d, S, p, B)
  BY PresentState
<1>1a. p.counters \in CounterTable(d)
  BY <1>1, PredictorFields
<1>2. TableLearns(p.counters, History(C, B), History(TookAt(S), B))
  BY <1>1 DEF Learned
<1>3. x \in DOMAIN p.counters
  BY <1>1, <1>1a, IndexType, DesignType DEF CounterTable
<1>4. met = {k \in DOMAIN B : C[<<SubSeq(B, 1, k - 1), B[k]>>] = x}
  <2>1. ASSUME NEW k \in DOMAIN B
        PROVE  C[<<SubSeq(B, 1, k - 1), B[k]>>] = FoldedIndex(d, B[k].inst.pc)
    <3>1. B[k] \in S /\ SubSeq(B, 1, k - 1) \in Seq(S)
      BY <1>1, PrefixType
    <3> HIDE DEF S, B
    <3> QED BY <3>1 DEF FoldedAt
  <2> HIDE DEF C, B, x
  <2> QED BY <2>1
<1>5. Direction(d, p, i.pc) = CounterIsTaken(p.counters[x])
  BY DEF Direction
<1> DEFINE said == Direction(d, p, i.pc)
           table == p.counters
<1> HIDE DEF C, B, S, x, met, p, d, said, table
<1>6. Decided(B, met, said)
  <2>1. /\ program \in Programs /\ S = TransferOf(program) /\ B \in Seq(S) /\ x \in DOMAIN table
        /\ TableLearns(table, History(C, B), History(TookAt(S), B)) /\ said = CounterIsTaken(table[x])
    BY <1>1, <1>2, <1>3, <1>5 DEF S, table, said
  <2> QED BY <1>4, <2>1, OutcomesDecide
<1> QED BY <1>6 DEF met, said, x

\* Registers that agree have seen the same last outcomes.
LEMMA SpelledAlike ==
    ASSUME NEW d \in Designs, NEW prog \in Programs,
           NEW A \in Seq(TransferOf(prog)), NEW B \in Seq(TransferOf(prog))
    PROVE  Number(d, A) = Number(d, B) <=> LastOutcomes(A, d.bits) = LastOutcomes(B, d.bits)
<1> DEFINE n == d.bits
           a == LastOutcomes(A, n)
           b == LastOutcomes(B, n)
<1>1. n \in Nat /\ a \in [1 .. n -> BOOLEAN] /\ b \in [1 .. n -> BOOLEAN]
  BY OutcomesType
<1> HIDE DEF n, a, b
<1>2. AsNumber(a) = AsNumber(b) => a = b
  BY <1>1, NumberInjective
<1> QED BY <1>2 DEF Number, a, b, n

LEMMA GshareDecides == TypeInv /\ LearnedInv => GshareLearnsContexts
<1> DEFINE d == design
           S == TransferOf(program)
           B == Branches
           p == predictor
           Context(pc, past) == BitXor(pc, AsNumber(LastOutcomes(past, d.bits))) % d.size
<1> SUFFICES ASSUME TypeInv, LearnedInv, d.name = "gshare", TraceIsComplete, NEW i \in program.code
             PROVE  Decided(B, {k \in DOMAIN B : Context(B[k].inst.pc, SubSeq(B, 1, k - 1)) = Context(i.pc, B)},
                            Direction(d, p, i.pc))
  BY DEF GshareLearnsContexts, LastTwoDecide, Decided, Latest
<1> DEFINE C == GshareAt(d, S)
           x == GshareIndex(d, p, i.pc)
           met == {k \in DOMAIN B : Context(B[k].inst.pc, SubSeq(B, 1, k - 1)) = Context(i.pc, B)}
<1>1. /\ d \in Designs /\ program \in Programs /\ p \in PredictorState(d)
      /\ B \in Seq(S) /\ Learned(d, S, p, B)
  BY PresentState
<1>1a. p.counters \in CounterTable(d) /\ p.global_history \in Index(d)
  BY <1>1, PredictorFields
<1>2. /\ TableLearns(p.counters, History(C, B), History(TookAt(S), B))
      /\ p.global_history = Number(d, B)
  BY <1>1 DEF Learned, GshareLearned
<1>3. x \in DOMAIN p.counters
  BY <1>1, <1>1a, IndexType DEF CounterTable, GshareIndex
<1>3a. x = Context(i.pc, B)
  BY <1>2 DEF GshareIndex, Number
<1>4. met = {k \in DOMAIN B : C[<<SubSeq(B, 1, k - 1), B[k]>>] = x}
  <2>1. ASSUME NEW k \in DOMAIN B
        PROVE  C[<<SubSeq(B, 1, k - 1), B[k]>>] = Context(B[k].inst.pc, SubSeq(B, 1, k - 1))
    <3>1. B[k] \in S /\ SubSeq(B, 1, k - 1) \in Seq(S)
      BY <1>1, PrefixType
    <3> HIDE DEF S, B
    <3> QED BY <3>1 DEF GshareAt, Number
  <2> HIDE DEF C, B, x, Context
  <2> QED BY <1>3a, <2>1
<1>5. Direction(d, p, i.pc) = CounterIsTaken(p.counters[x])
  BY DEF Direction
<1> DEFINE said == Direction(d, p, i.pc)
           table == p.counters
<1> HIDE DEF C, B, S, x, met, p, d, said, table
<1>6. Decided(B, met, said)
  <2>1. /\ program \in Programs /\ S = TransferOf(program) /\ B \in Seq(S) /\ x \in DOMAIN table
        /\ TableLearns(table, History(C, B), History(TookAt(S), B)) /\ said = CounterIsTaken(table[x])
    BY <1>1, <1>2, <1>3, <1>5 DEF S, table, said
  <2> QED BY <1>4, <2>1, OutcomesDecide
<1> QED BY <1>6 DEF met, said


\* The two components of a tournament.
GlobalDecides ==
    LastTwoDecide(LAMBDA pc, past : LastOutcomes(past, design.bits),
                  LAMBDA pc : GlobalTaken(design, predictor))
LocalDecides ==
    LastTwoDecide(LAMBDA pc, past : LastOutcomes(SameEntry(past, pc), design.bits),
                  LAMBDA pc : LocalTaken(design, predictor, pc))

LEMMA TournamentGlobalDecides ==
    ASSUME TypeInv, LearnedInv, design.name = "tournament", TraceIsComplete
    PROVE  GlobalDecides
<1> DEFINE d == design
           S == TransferOf(program)
           B == Branches
           p == predictor
           Context(past) == LastOutcomes(past, d.bits)
<1> SUFFICES ASSUME NEW i \in program.code
             PROVE  Decided(B, {k \in DOMAIN B : Context(SubSeq(B, 1, k - 1)) = Context(B)},
                            GlobalTaken(d, p))
  BY DEF GlobalDecides, LastTwoDecide, Decided, Latest
<1> DEFINE C == GlobalAt(d, S)
           x == p.global_history
           met == {k \in DOMAIN B : Context(SubSeq(B, 1, k - 1)) = Context(B)}
<1>1. /\ d \in Designs /\ program \in Programs /\ p \in PredictorState(d)
      /\ B \in Seq(S) /\ Learned(d, S, p, B)
  BY PresentState
<1>2. /\ TableLearns(p.global_pht, History(C, B), History(TookAt(S), B))
      /\ p.global_history = Number(d, B)
  BY <1>1 DEF Learned, TournamentLearned
<1>3. x \in DOMAIN p.global_pht
  BY <1>1, PredictorFields DEF CounterTable
<1>4. met = {k \in DOMAIN B : C[<<SubSeq(B, 1, k - 1), B[k]>>] = x}
  <2>1. ASSUME NEW k \in DOMAIN B
        PROVE  C[<<SubSeq(B, 1, k - 1), B[k]>>] = x <=> Context(SubSeq(B, 1, k - 1)) = Context(B)
    <3>1. B[k] \in S /\ SubSeq(B, 1, k - 1) \in Seq(S)
      BY <1>1, PrefixType
    <3>2. C[<<SubSeq(B, 1, k - 1), B[k]>>] = Number(d, SubSeq(B, 1, k - 1))
      <4> HIDE DEF S, B
      <4> QED BY <3>1 DEF GlobalAt
    <3>3. Number(d, SubSeq(B, 1, k - 1)) = Number(d, B) <=> Context(SubSeq(B, 1, k - 1)) = Context(B)
      <4> DEFINE A == SubSeq(B, 1, k - 1)
      <4> HIDE DEF A, B
      <4> QED BY <1>1, <3>1, SpelledAlike DEF A
    <3> HIDE DEF C, B, d, Context
    <3> QED BY <1>2, <3>2, <3>3
  <2> HIDE DEF C, B, x, Context
  <2> QED BY <2>1
<1>5. GlobalTaken(d, p) = CounterIsTaken(p.global_pht[x])
  BY DEF GlobalTaken
<1> DEFINE said == GlobalTaken(d, p)
           table == p.global_pht
<1> HIDE DEF C, B, S, x, met, p, d, said, table
<1>6. Decided(B, met, said)
  <2>1. /\ program \in Programs /\ S = TransferOf(program) /\ B \in Seq(S) /\ x \in DOMAIN table
        /\ TableLearns(table, History(C, B), History(TookAt(S), B)) /\ said = CounterIsTaken(table[x])
    BY <1>1, <1>2, <1>3, <1>5 DEF S, table, said
  <2> QED BY <1>4, <2>1, OutcomesDecide
<1> QED BY <1>6 DEF met, said

LEMMA EntryType ==
    ASSUME NEW d, NEW S, NEW B \in Seq(S), NEW e
    PROVE  EntryBranches(d, B, e) \in Seq(S)
BY SelectedType DEF EntryBranches

LEMMA TournamentLocalDecides ==
    ASSUME TypeInv, LearnedInv, design.name = "tournament", TraceIsComplete
    PROVE  LocalDecides
<1> DEFINE d == design
           S == TransferOf(program)
           B == Branches
           p == predictor
           Met(past, pc) == EntryBranches(d, past, LocalIndex(d, pc))
           Context(pc, past) == LastOutcomes(Met(past, pc), d.bits)
<1> SUFFICES ASSUME NEW i \in program.code
             PROVE  Decided(B, {k \in DOMAIN B : Context(B[k].inst.pc, SubSeq(B, 1, k - 1)) = Context(i.pc, B)},
                            LocalTaken(d, p, i.pc))
  BY DEF LocalDecides, LastTwoDecide, Decided, Latest, SameEntry, EntryBranches
<1> DEFINE C == LocalAt(d, S)
           e == LocalIndex(d, i.pc)
           x == p.local_history[e]
           met == {k \in DOMAIN B : Context(B[k].inst.pc, SubSeq(B, 1, k - 1)) = Context(i.pc, B)}
<1>1. /\ d \in Designs /\ program \in Programs /\ p \in PredictorState(d)
      /\ B \in Seq(S) /\ Learned(d, S, p, B)
  BY PresentState
<1>1a. e \in Index(d)
  BY <1>1, IndexType, DesignType
<1>2. /\ TableLearns(p.local_pht, History(C, B), History(TookAt(S), B))
      /\ x = Number(d, Met(B, i.pc))
  BY <1>1, <1>1a DEF Learned, TournamentLearned
<1>3. x \in DOMAIN p.local_pht
  BY <1>1, <1>1a, PredictorFields DEF CounterTable
<1>4. met = {k \in DOMAIN B : C[<<SubSeq(B, 1, k - 1), B[k]>>] = x}
  <2>1. ASSUME NEW k \in DOMAIN B
        PROVE  C[<<SubSeq(B, 1, k - 1), B[k]>>] = x
                   <=> Context(B[k].inst.pc, SubSeq(B, 1, k - 1)) = Context(i.pc, B)
    <3> DEFINE A == SubSeq(B, 1, k - 1)
               pc == B[k].inst.pc
    <3>1. B[k] \in S /\ A \in Seq(S)
      BY <1>1, PrefixType
    <3>2. C[<<A, B[k]>>] = Number(d, Met(A, pc))
      <4> HIDE DEF S, B, A
      <4> QED BY <3>1 DEF LocalAt
    <3>3. Met(A, pc) \in Seq(S) /\ Met(B, i.pc) \in Seq(S)
      <4> HIDE DEF A, B, S
      <4> QED BY <1>1, <3>1, EntryType
    <3>4. Number(d, Met(A, pc)) = Number(d, Met(B, i.pc)) <=> Context(pc, A) = Context(i.pc, B)
      <4> HIDE DEF A, B, Met, pc
      <4> QED BY <1>1, <3>3, SpelledAlike
    <3> HIDE DEF C, B, d, Context, Met, A, pc, x
    <3>5. C[<<A, B[k]>>] = x <=> Context(pc, A) = Context(i.pc, B)
      BY <1>2, <3>2, <3>4
    <3> QED BY <3>5 DEF A, pc
  <2> HIDE DEF C, B, x, Context
  <2> QED BY <2>1
<1>5. LocalTaken(d, p, i.pc) = CounterIsTaken(p.local_pht[x])
  BY DEF LocalTaken
<1> DEFINE said == LocalTaken(d, p, i.pc)
           table == p.local_pht
<1> HIDE DEF C, B, S, x, met, p, d, said, table
<1>6. Decided(B, met, said)
  <2>1. /\ program \in Programs /\ S = TransferOf(program) /\ B \in Seq(S) /\ x \in DOMAIN table
        /\ TableLearns(table, History(C, B), History(TookAt(S), B)) /\ said = CounterIsTaken(table[x])
    BY <1>1, <1>2, <1>3, <1>5 DEF S, table, said
  <2> QED BY <1>4, <2>1, OutcomesDecide
<1> QED BY <1>6 DEF met, said

LEMMA TypesRefine == TypeInv => TypeOK
<1> SUFFICES ASSUME TypeInv PROVE TypeOK
  OBVIOUS
<1>1. predictor \in PredictorState(design) /\ design \in Designs /\ stats \in StatsState /\ Len(trace) <= MaxTrace
  BY DEF TypeInv
<1>2. ASSUME NEW f \in {"counters", "local_pht", "global_pht", "choice_pht"}
      PROVE  predictor[f] \in [0 .. design.size - 1 -> Counter]
  BY <1>1, PredictorFields DEF CounterTable, Index
<1>3. ASSUME NEW f \in DOMAIN stats PROVE stats[f] \in Nat
  BY <1>1 DEF StatsState
<1> QED BY <1>1, <1>2, <1>3, PredictorFields DEF TypeOK, Index

\* TablesLearn: every design's tables hold two-bit counters, and two equal
\* outcomes in one context decide its prediction there, for every trace that is
\* complete (branch_predictor.hpp:96-101, gshare.cpp:24-45, tournament.cpp:28-72).
THEOREM LearningIsExact == Spec => []TablesLearn
<1>1. TypeInv /\ LearnedInv => TablesLearn
  <2> SUFFICES ASSUME TypeInv, LearnedInv PROVE TablesLearn
    OBVIOUS
  <2>1. TournamentLearnsContexts
    BY TournamentGlobalDecides, TournamentLocalDecides, Zenon
       DEF TournamentLearnsContexts, GlobalDecides, LocalDecides
  <2> QED BY <2>1, TypesRefine, TwoBitDecides, GshareDecides DEF TablesLearn
<1> QED BY <1>1, TypeCorrect, TablesFollowTheBranches, PTL


LEMMA SizeIsBeyond ==
    ASSUME NEW d \in Designs
    PROVE  d.size \notin Index(d)
BY DesignType DEF Index

LEMMA ChoiceDecides == TypeInv /\ LearnedInv => WinnerIsChosen
<1> DEFINE d == design
           S == TransferOf(program)
           B == Branches
           p == predictor
           before(k) == Replay(d, New(d), SubSeq(B, 1, k - 1)).predictor
           local(k) == LocalTaken(d, before(k), B[k].inst.pc)
           global(k) == GlobalTaken(d, before(k))
           met == {k \in DOMAIN B : /\ LastOutcomes(SubSeq(B, 1, k - 1), d.bits) = LastOutcomes(B, d.bits)
                                    /\ local(k) # global(k)}
           last == Latest(met)
           previous == Latest(met \ {last})
           localWon(k) == local(k) = B[k].taken
           x == p.global_history
           said == CounterIsTaken(p.choice_pht[x])
<1> SUFFICES ASSUME TypeInv, LearnedInv, d.name = "tournament", TraceIsComplete, Cardinality(met) >= 2,
                    localWon(last) = localWon(previous)
             PROVE  said = localWon(last)
  BY DEF WinnerIsChosen, Latest
<1> DEFINE C == ChoiceAt(d, S)
           O == WonAt(d, S)
           Arg(k) == <<SubSeq(B, 1, k - 1), B[k]>>
<1>1. /\ d \in Designs /\ program \in Programs /\ p \in PredictorState(d)
      /\ B \in Seq(S) /\ Learned(d, S, p, B)
  BY PresentState
<1>2. /\ TableLearns(p.choice_pht, History(C, B), History(O, B))
      /\ x = Number(d, B)
  BY <1>1 DEF Learned, TournamentLearned
<1>3. x \in DOMAIN p.choice_pht /\ x # d.size
  <2>1. x \in Index(d) /\ p.choice_pht \in CounterTable(d) /\ d.size \in Nat
    BY <1>1, PredictorFields, DesignType
  <2>2. d.size \notin Index(d)
    BY <1>1, SizeIsBeyond
  <2>3. DOMAIN p.choice_pht = Index(d)
    BY <2>1 DEF CounterTable
  <2> HIDE DEF x, d
  <2> QED BY <2>1, <2>2, <2>3
<1>4. ASSUME NEW k \in DOMAIN B
      PROVE  /\ C[Arg(k)] = IF local(k) = global(k) THEN d.size ELSE Number(d, SubSeq(B, 1, k - 1))
             /\ O[Arg(k)] = localWon(k)
             /\ Number(d, SubSeq(B, 1, k - 1)) = Number(d, B)
                    <=> LastOutcomes(SubSeq(B, 1, k - 1), d.bits) = LastOutcomes(B, d.bits)
  <2> DEFINE A == SubSeq(B, 1, k - 1)
             r == B[k]
  <2>1. r \in S /\ A \in Seq(S)
    BY <1>1, PrefixType
  <2>2. <<A, r>> \in Seq(S) \X S
    BY <2>1
  <2>3. local(k) = LocalSaid(d, <<A, r>>) /\ global(k) = GlobalSaid(d, <<A, r>>)
    BY DEF LocalSaid, GlobalSaid, Replayed
  <2> HIDE DEF S, B, d, A, r, local, global
  <2>4. C[<<A, r>>] = IF LocalSaid(d, <<A, r>>) = GlobalSaid(d, <<A, r>>) THEN d.size ELSE Number(d, A)
    BY <2>2 DEF ChoiceAt
  <2>5. O[<<A, r>>] = (LocalSaid(d, <<A, r>>) = r.taken)
    BY <2>2 DEF WonAt
  <2>6. Number(d, A) = Number(d, B) <=> LastOutcomes(A, d.bits) = LastOutcomes(B, d.bits)
    BY <1>1, <2>1, SpelledAlike DEF S
  <2> HIDE DEF C, O
  <2>7. O[<<A, r>>] = (local(k) = r.taken)
    BY <2>3, <2>5
  <2> QED BY <2>3, <2>4, <2>6, <2>7 DEF A, r
<1>5. met = {k \in DOMAIN B : C[Arg(k)] = x}
  <2>1. ASSUME NEW k \in DOMAIN B
        PROVE  C[Arg(k)] = x <=> /\ LastOutcomes(SubSeq(B, 1, k - 1), d.bits) = LastOutcomes(B, d.bits)
                                 /\ local(k) # global(k)
    <3> HIDE DEF C, O, B, local, global, Arg, x, d
    <3> QED BY <1>2, <1>3, <1>4, <2>1
  <2> HIDE DEF C, B, local, global, Arg, x, d
  <2> QED BY <2>1
<1>6. \A k \in DOMAIN B : History(O, B)[k] = localWon(k)
  <2> SUFFICES ASSUME NEW k \in DOMAIN B PROVE History(O, B)[k] = localWon(k)
    OBVIOUS
  <2>1. k \in 1 .. Len(B)
    BY <1>1, PrefixType
  <2>2. History(O, B)[k] = O[Arg(k)]
    <3> HIDE DEF O, B
    <3> QED BY <2>1 DEF History
  <2> HIDE DEF O, B, localWon, Arg
  <2> QED BY <1>4, <2>2
<1> DEFINE table == p.choice_pht
<1>7. FollowsLastTwo(met, History(O, B), said)
  <2>1. said = CounterIsTaken(table[x]) /\ x \in DOMAIN table /\ TableLearns(table, History(C, B), History(O, B))
    BY <1>2, <1>3
  <2>2. met = {k \in DOMAIN B : C[<<SubSeq(B, 1, k - 1), B[k]>>] = x}
    BY <1>5
  <2> HIDE DEF C, O, B, met, table, x, said, S
  <2> QED BY <1>1, <2>1, <2>2, TableDecides
<1>8. last \in DOMAIN B /\ previous \in DOMAIN B
  <2>1. last \in met /\ previous \in met
    <3> HIDE DEF met, said, O, B
    <3> QED BY <1>7 DEF FollowsLastTwo
  <2>2. met \subseteq DOMAIN B
    <3> HIDE DEF B
    <3> QED OBVIOUS
  <2> HIDE DEF met, last, previous, B
  <2> QED BY <2>1, <2>2
<1> DEFINE won == History(O, B)
<1>9. won[last] = won[previous] => said = won[last]
  <2> HIDE DEF met, said, won
  <2> QED BY <1>7 DEF FollowsLastTwo, won
<1> HIDE DEF won, last, previous, localWon, said, B
<1> QED BY <1>6, <1>8, <1>9 DEF won

\* WinnerIsChosen: after the present outcomes the component predicts that was
\* right the last two times the components disagreed there (tournament.cpp:28-72).
THEOREM WinnerIsAlwaysChosen == Spec => []WinnerIsChosen
BY ChoiceDecides, TypeCorrect, TablesFollowTheBranches, PTL

-----------------------------------------------------------------------------
(* The return address stack against the calls of a program, for every set  *)
(* of addresses, every depth and runs of any length.  The invariant is a   *)
(* conjunction of four parts; the third needs the second (a missed return  *)
(* finds an empty stack), the fourth needs the third.                      *)

\* No drop has happened before the calls nest deeper than the stack.
DropsAreDeep ==
    /\ Len(frames) <= deepest
    /\ dropped > 0 => deepest > depth

Matched == MaxUnwound = 1

StackInv == CallTypeOK /\ EntriesAreTopFrames /\ MissesPayForDrops /\ DropsAreDeep

-----------------------------------------------------------------------------
\* The sequence operators, by length and elements.
LEMMA BelowProperties ==
  ASSUME NEW S, NEW s \in Seq(S), s # <<>>
  PROVE  /\ Below(s) \in Seq(S)
         /\ Len(Below(s)) \in Nat /\ Len(Below(s)) = Len(s) - 1
         /\ \A i \in 1 .. Len(s) - 1 : Below(s)[i] = s[i]
<1>1. Len(s) \in Nat /\ Len(s) >= 1
  BY EmptySeq
<1>2. 1 \in 1 .. Len(s) + 1 /\ Len(s) - 1 \in 1 - 1 .. Len(s)
  BY <1>1
<1>3. /\ Below(s) \in Seq(S)
      /\ Len(Below(s)) = IF 1 <= Len(s) - 1 THEN Len(s) - 1 - 1 + 1 ELSE 0
      /\ \A i \in 1 .. Len(s) - 1 - 1 + 1 : Below(s)[i] = s[1 + i - 1]
  BY <1>2, SubSeqProperties DEF Below
<1>4. Len(Below(s)) \in Nat /\ Len(Below(s)) = Len(s) - 1
  <2> DEFINE n == Len(s)
             m == Len(Below(s))
  <2>1. n \in Nat /\ n >= 1 /\ m = IF 1 <= n - 1 THEN n - 1 - 1 + 1 ELSE 0
    BY <1>1, <1>3
  <2> HIDE DEF n, m
  <2>2. m \in Nat /\ m = n - 1
    BY <2>1
  <2> QED BY <2>2 DEF n, m
<1>5. ASSUME NEW i \in 1 .. Len(s) - 1 PROVE Below(s)[i] = s[i]
  <2>1. Below(s)[i] = s[1 + i - 1]
    BY <1>1, <1>3
  <2>2. 1 + i - 1 = i
    OBVIOUS
  <2> QED BY <2>1, <2>2
<1> QED BY <1>3, <1>4, <1>5

\* A push leaves the newest entry on top and the newer entries in their order.
LEMMA PushProperties ==
  ASSUME NEW S, NEW s \in Seq(S), NEW a \in S, depth \in Nat, Len(s) <= depth
  PROVE  /\ Push(depth, s, a) \in Seq(S)
         /\ Len(Push(depth, s, a)) \in Nat
         /\ Len(Push(depth, s, a)) = IF Len(s) < depth THEN Len(s) + 1 ELSE depth
         /\ depth > 0 => Push(depth, s, a)[Len(Push(depth, s, a))] = a
         /\ \A i \in 1 .. Len(Push(depth, s, a)) - 1 :
                Push(depth, s, a)[i] = s[i + Len(s) + 1 - Len(Push(depth, s, a))]
<1>1. CASE depth = 0
  BY <1>1 DEF Push
<1>2. CASE depth > 0 /\ Len(s) < depth
  <2>1. Push(depth, s, a) = Append(s, a)
    BY <1>2 DEF Push
  <2> QED BY <1>2, <2>1
<1>3. CASE depth > 0 /\ Len(s) = depth
  <2>1. Push(depth, s, a) = Append(Tail(s), a)
    BY <1>3 DEF Push
  <2>2. /\ Tail(s) \in Seq(S) /\ Len(Tail(s)) = depth - 1
        /\ \A i \in 1 .. depth - 1 : Tail(s)[i] = s[i + 1]
    BY <1>3
  <2> QED BY <1>3, <2>1, <2>2
<1> QED BY <1>1, <1>2, <1>3

LEMMA InitStack == CallInit => StackInv
BY StackAssumption DEF CallInit, StackInv, CallTypeOK, EntriesAreTopFrames, MissesPayForDrops,
                       DropsAreDeep

LEMMA CallKeepsStack ==
  ASSUME StackInv, NEW a \in Addresses, Call(a)
  PROVE  StackInv'
<1> DEFINE e == Len(entries)
           f == Len(frames)
           e2 == Len(entries')
           f2 == Len(frames')
<1>1. /\ depth \in Nat /\ e \in Nat /\ f \in Nat
      /\ e <= depth /\ e <= f /\ f <= deepest
      /\ entries \in Seq(Addresses) /\ frames \in Seq(Addresses)
      /\ indirect_misses \in Nat /\ calls \in Nat /\ deepest \in Nat /\ dropped \in Nat
      /\ f - e = dropped - indirect_misses
      /\ dropped > 0 => deepest > depth
      /\ \A i \in 1 .. e : entries[i] = frames[i + f - e]
  BY StackAssumption DEF StackInv, CallTypeOK, EntriesAreTopFrames, MissesPayForDrops, DropsAreDeep
<1>2. /\ entries' = Push(depth, entries, a) /\ depth' = depth
      /\ frames' = Append(frames, a)
      /\ indirect_misses' = indirect_misses
      /\ dropped' = dropped + (IF e = depth THEN 1 ELSE 0)
      /\ deepest' = IF f < deepest THEN deepest ELSE f + 1
      /\ calls' = calls + 1
  BY DEF Call
<1>3. /\ entries' \in Seq(Addresses)
      /\ e2 \in Nat
      /\ e2 = IF e < depth THEN e + 1 ELSE depth
      /\ depth > 0 => entries'[e2] = a
      /\ \A i \in 1 .. e2 - 1 : entries'[i] = entries[i + e + 1 - e2]
  BY <1>1, <1>2, PushProperties
<1>4. /\ frames' \in Seq(Addresses) /\ f2 \in Nat /\ f2 = f + 1
      /\ frames'[f + 1] = a
      /\ \A i \in 1 .. f : frames'[i] = frames[i]
  BY <1>1, <1>2
<1> HIDE DEF e, f, e2, f2
<1>5. /\ depth' \in 0 .. MaxDepth /\ e2 <= depth'
      /\ {indirect_misses', calls', deepest', dropped'} \subseteq Nat
  <2>1. depth' \in 0 .. MaxDepth
    BY <1>2 DEF StackInv, CallTypeOK
  <2> QED BY <2>1, <1>1, <1>2, <1>3
<1>6. ASSUME NEW i \in 1 .. e2 PROVE entries'[i] = frames'[i + f2 - e2]
  <2>1. CASE i = e2
    BY <2>1, <1>1, <1>3, <1>4
  <2>2. CASE i # e2
    <3>0. i \in Int /\ 1 <= i /\ i < e2 /\ e2 \in Nat /\ e \in Nat /\ e2 >= e /\ e2 <= e + 1
      <4>1. depth \in Nat /\ e \in Nat /\ e <= depth /\ e2 \in Nat
            /\ e2 = IF e < depth THEN e + 1 ELSE depth
        BY <1>1, <1>3
      <4> QED BY <2>2, <4>1
    <3>1. i + e + 1 - e2 \in 1 .. e /\ i \in 1 .. e2 - 1
      BY <3>0
    <3>2. entries'[i] = frames[(i + e + 1 - e2) + f - e]
      BY <3>1, <1>1, <1>3
    <3>3. (i + e + 1 - e2) + f - e = i + f2 - e2 /\ i + f2 - e2 \in 1 .. f
      BY <3>1, <1>1, <1>3, <1>4
    <3> QED BY <3>2, <3>3, <1>4
  <2> QED BY <2>1, <2>2
<1>7. e2 <= f2 /\ f2 - e2 = dropped' - indirect_misses'
  <2>1. CASE e = depth
    <3>1. e2 = e /\ dropped' = dropped + 1
      BY <2>1, <1>1, <1>2, <1>3
    <3> QED BY <3>1, <1>1, <1>2, <1>4
  <2>2. CASE e < depth
    <3>1. e2 = e + 1 /\ dropped' = dropped
      BY <2>2, <1>1, <1>2, <1>3
    <3> QED BY <3>1, <1>1, <1>2, <1>4
  <2> QED BY <2>1, <2>2, <1>1
<1>8. f2 <= deepest' /\ (dropped' > 0 => deepest' > depth')
  BY <1>1, <1>2, <1>4
<1> QED BY <1>3, <1>4, <1>5, <1>6, <1>7, <1>8
        DEF StackInv, CallTypeOK, EntriesAreTopFrames, MissesPayForDrops, DropsAreDeep, e2, f2

LEMMA ReturnKeepsStack ==
  ASSUME StackInv, Return(1)
  PROVE  StackInv'
<1> DEFINE target == frames[Len(frames)]
           e == Len(entries)
           f == Len(frames)
           e2 == Len(entries')
           f2 == Len(frames')
<1>1. /\ depth \in Nat /\ e \in Nat /\ f \in Nat
      /\ e <= depth /\ e <= f /\ f <= deepest /\ f >= 1
      /\ entries \in Seq(Addresses) /\ frames \in Seq(Addresses)
      /\ indirect_misses \in Nat /\ deepest \in Nat /\ dropped \in Nat
      /\ f - e = dropped - indirect_misses
      /\ dropped > 0 => deepest > depth
      /\ \A i \in 1 .. e : entries[i] = frames[i + f - e]
  BY StackAssumption
     DEF Return, StackInv, CallTypeOK, EntriesAreTopFrames, MissesPayForDrops, DropsAreDeep
<1>2. /\ entries' = Resolved(depth, entries, target)
      /\ indirect_misses' = indirect_misses + (IF Predicted(entries, target) THEN 0 ELSE 1)
      /\ frames' = Below(frames)
      /\ UNCHANGED <<depth, calls, deepest, dropped>>
  <2>1. f + 1 - 1 = f
    BY <1>1
  <2> QED BY <2>1 DEF Return, Below
<1>3. /\ frames' \in Seq(Addresses) /\ f2 \in Nat /\ f2 = f - 1
      /\ \A i \in 1 .. f - 1 : frames'[i] = frames[i]
  <2>1. frames # <<>>
    BY <1>1
  <2> QED BY <2>1, <1>1, <1>2, BelowProperties
<1>4. /\ entries' \in Seq(Addresses) /\ e2 \in Nat
      /\ \/ e = 0 /\ e2 = 0 /\ indirect_misses' = indirect_misses + 1
         \/ e > 0 /\ e2 = e - 1 /\ indirect_misses' = indirect_misses
      /\ \A i \in 1 .. e2 : entries'[i] = entries[i]
  <2>1. CASE entries = <<>>
    BY <2>1, <1>2 DEF Resolved, Predicted
  <2>2. CASE entries # <<>>
    <3>1. e > 0
      BY <2>2, <1>1, EmptySeq
    <3>2. entries[e] = frames[e + f - e] /\ e + f - e = f
      BY <3>1, <1>1
    <3>3. Predicted(entries, target)
      BY <2>2, <3>2 DEF Predicted, Top
    <3>4. entries' = Below(entries) /\ indirect_misses' = indirect_misses
      BY <2>2, <3>3, <1>1, <1>2 DEF Resolved
    <3>5. /\ entries' \in Seq(Addresses) /\ e2 \in Nat /\ e2 = e - 1
          /\ \A i \in 1 .. e - 1 : entries'[i] = entries[i]
      BY <2>2, <3>4, <1>1, BelowProperties
    <3> QED BY <3>1, <3>4, <3>5
  <2> QED BY <2>1, <2>2
<1> HIDE DEF target, e, f, e2, f2
<1>5. /\ e2 <= depth' /\ depth' \in 0 .. MaxDepth
      /\ {indirect_misses', calls', deepest', dropped'} \subseteq Nat
  <2>1. depth' \in 0 .. MaxDepth /\ calls' \in Nat
    BY <1>2 DEF StackInv, CallTypeOK
  <2> QED BY <2>1, <1>1, <1>2, <1>4
<1>6. ASSUME NEW i \in 1 .. e2 PROVE entries'[i] = frames'[i + f2 - e2]
  <2>1. /\ i \in 1 .. e /\ i + f - e = i + f2 - e2
        /\ i + f2 - e2 \in 1 .. f - 1
    BY <1>1, <1>3, <1>4
  <2> QED BY <2>1, <1>1, <1>3, <1>4
<1>7. e2 <= f2 /\ f2 - e2 = dropped' - indirect_misses'
  BY <1>1, <1>2, <1>3, <1>4
<1>8. f2 <= deepest' /\ (dropped' > 0 => deepest' > depth')
  BY <1>1, <1>2, <1>3
<1> QED BY <1>3, <1>4, <1>5, <1>6, <1>7, <1>8
        DEF StackInv, CallTypeOK, EntriesAreTopFrames, MissesPayForDrops, DropsAreDeep, e2, f2

LEMMA StackInvariant == ASSUME Matched PROVE CallSpec => []StackInv
<1>1. ASSUME StackInv, [CallNext]_callVars PROVE StackInv'
  <2>1. ASSUME NEW a \in Addresses, Call(a) PROVE StackInv'
    BY <1>1, <2>1, CallKeepsStack
  <2>2. ASSUME NEW n \in 1 .. MaxUnwound, Return(n) PROVE StackInv'
    <3>1. n = 1
      BY <2>2 DEF Matched
    <3> QED BY <1>1, <2>2, <3>1, ReturnKeepsStack
  <2>3. CASE UNCHANGED callVars
    BY <1>1, <2>3 DEF callVars, StackInv, CallTypeOK, EntriesAreTopFrames, MissesPayForDrops,
                      DropsAreDeep
  <2> QED BY <1>1, <2>1, <2>2, <2>3 DEF CallNext
<1> QED BY InitStack, <1>1, PTL DEF CallSpec

(***************************************************************************)
(* A stack of any depth holds the return addresses of the functions called *)
(* last, whatever a program with matching calls and returns has done.      *)
(***************************************************************************)
THEOREM StackFollowsCalls == ASSUME Matched PROVE CallSpec => []EntriesAreTopFrames
<1>1. StackInv => EntriesAreTopFrames
  BY DEF StackInv
<1> QED BY <1>1, StackInvariant, PTL

(***************************************************************************)
(* Every misprediction of a return is paid for by an entry that a full     *)
(* stack dropped, in every run of such a program.                          *)
(***************************************************************************)
THEOREM MissesArePaid == ASSUME Matched PROVE CallSpec => []MissesPayForDrops
<1>1. StackInv => MissesPayForDrops
  BY DEF StackInv
<1> QED BY <1>1, StackInvariant, PTL

(***************************************************************************)
(* A program that nests no deeper than the stack has every return          *)
(* predicted.                                                              *)
(***************************************************************************)
THEOREM ShallowNeverMisses == ASSUME Matched PROVE CallSpec => []WithinDepthNeverMisses
<1>1. StackInv => WithinDepthNeverMisses
  <2> SUFFICES ASSUME StackInv, deepest <= depth PROVE dropped = 0 /\ indirect_misses = 0
    BY DEF WithinDepthNeverMisses
  <2>1. /\ dropped \in Nat /\ indirect_misses \in Nat /\ deepest \in Nat /\ depth \in Nat
        /\ Len(entries) \in Nat /\ Len(frames) \in Nat
    BY StackAssumption DEF StackInv, CallTypeOK
  <2>2. dropped = 0
    BY <2>1 DEF StackInv, DropsAreDeep
  <2>3. Len(entries) <= Len(frames) /\ Len(frames) - Len(entries) = dropped - indirect_misses
    BY DEF StackInv, EntriesAreTopFrames, MissesPayForDrops
  <2> QED BY <2>1, <2>2, <2>3
<1> QED BY <1>1, StackInvariant, PTL
=============================================================================
