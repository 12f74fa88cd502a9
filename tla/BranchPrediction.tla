--------------------------- MODULE BranchPrediction ---------------------------
(***************************************************************************)
(* The five branch predictors (component/predictor/implementations) and    *)
(* what the program does with one: it resolves every control transfer of a *)
(* run as it happens (record_control_transfer), and afterwards replays the *)
(* recorded transfers through a predictor it has reset (replay_trace).     *)
(* The state is that of the run; a replay is a function of the trace.      *)
(***************************************************************************)
EXTENDS Integers, FiniteSets, Sequences, ReturnAddressStack

CONSTANTS Designs,        \* predictors and their parameters
          Programs,       \* programs: their control transfer instructions, and
                          \* the bound on the transfers of a run
          JumpTargets,    \* where an indirect jump may go
          MaxTrace,       \* BranchStats::kMaxTrace
          BitXor(_, _)    \* the bitwise exclusive or, which hashes addresses

Design == [name : {"always-not-taken", "ras", "two-bit-saturating", "gshare", "tournament"},
           size : Nat,         \* entries of its tables; a power of two
           bits : Nat,         \* history_bits; size = 2^bits for gshare and tournament
           ras_depth : Nat]

\* A control transfer: call and return say what its registers make of it;
\* target is the encoded one (branch, jal).
Transfer == [kind : {"branch", "jal", "jalr"}, pc : Nat, target : Nat,
             call : BOOLEAN, return : BOOLEAN]

TwoTo(n) == LET power[k \in 0 .. n] == IF k = 0 THEN 1 ELSE 2 * power[k - 1] IN power[n]

ASSUME PredictionAssumption ==
    /\ Designs \subseteq Design
    /\ \A d \in Designs : d.size > 0 /\ (d.name \in {"gshare", "tournament"} => d.size = TwoTo(d.bits))
    /\ \A p \in Programs : p.code \subseteq Transfer /\ p.max_transfers \in Nat
    /\ JumpTargets \subseteq Nat
    /\ MaxTrace \in Nat

VARIABLES program,             \* the program that runs
          design, predictor,   \* the attached predictor: parameters, learned state
          stats, trace         \* BranchStats

vars == <<program, design, predictor, stats, trace>>

-----------------------------------------------------------------------------
(* Two-bit counters and tables.                                            *)

Counter == 0 .. 3
WeaklyTaken == 2
CounterIsTaken(c) == c >= 2

Trained(c, taken) == IF taken THEN (IF c < 3 THEN c + 1 ELSE 3) ELSE (IF c > 0 THEN c - 1 ELSE 0)

Table(d, value) == [i \in 0 .. d.size - 1 |-> value]

\* A freshly made predictor.  Every design has the fields it uses.
New(d) == [counters |-> Table(d, WeaklyTaken), global_history |-> 0,
           local_history |-> Table(d, 0), local_pht |-> Table(d, WeaklyTaken),
           global_pht |-> Table(d, WeaklyTaken), choice_pht |-> Table(d, WeaklyTaken),
           ras |-> <<>>]

\* Mutant of Reset: the tables are cleared, the history is not.
ResetTables(d, p) == [New(d) EXCEPT !.global_history = p.global_history]

\* reset() of each design.
Reset(d, p) ==
    CASE d.name = "always-not-taken" -> p
      [] d.name = "ras" -> [p EXCEPT !.ras = <<>>]
      [] d.name = "two-bit-saturating" ->
             [p EXCEPT !.counters = Table(d, WeaklyTaken), !.ras = <<>>]
      [] d.name = "gshare" ->
             [p EXCEPT !.counters = Table(d, WeaklyTaken), !.global_history = 0, !.ras = <<>>]
      [] d.name = "tournament" ->
             [p EXCEPT !.local_history = Table(d, 0), !.local_pht = Table(d, WeaklyTaken),
                       !.global_pht = Table(d, WeaklyTaken), !.choice_pht = Table(d, WeaklyTaken),
                       !.global_history = 0, !.ras = <<>>]

\* Where each design looks a branch up.
FoldedIndex(d, pc) == BitXor(BitXor(pc, pc \div 16), pc \div 256) % d.size
GshareIndex(d, p, pc) == BitXor(pc, p.global_history) % d.size
LocalIndex(d, pc) == BitXor(pc, pc \div 16) % d.size

\* The exclusive or of numbers is a number, so that every index is one of the table.
ASSUME XorAssumption ==
    \A p \in Programs, d \in Designs : \A i \in p.code, h \in 0 .. d.size - 1 :
        {BitXor(i.pc, h), BitXor(i.pc, i.pc \div 16), BitXor(BitXor(i.pc, i.pc \div 16), i.pc \div 256)} \subseteq Nat

One(b) == IF b THEN 1 ELSE 0

Shifted(d, history, taken) == (2 * history + One(taken)) % d.size

-----------------------------------------------------------------------------
(* predict() and resolve().                                                *)

LocalTaken(d, p, pc) == CounterIsTaken(p.local_pht[p.local_history[LocalIndex(d, pc)]])
GlobalTaken(d, p) == CounterIsTaken(p.global_pht[p.global_history])

\* The direction a design predicts for the branch at pc.
Direction(d, p, pc) ==
    CASE d.name \in {"always-not-taken", "ras"} -> FALSE
      [] d.name = "two-bit-saturating" -> CounterIsTaken(p.counters[FoldedIndex(d, pc)])
      [] d.name = "gshare" -> CounterIsTaken(p.counters[GshareIndex(d, p, pc)])
      [] d.name = "tournament" ->
             IF CounterIsTaken(p.choice_pht[p.global_history]) THEN LocalTaken(d, p, pc)
             ELSE GlobalTaken(d, p)

\* The address a design predicts to follow the transfer i.
PredictedPc(d, p, i) ==
    CASE i.kind = "jal" -> i.target
      [] i.kind = "branch" -> IF Direction(d, p, i.pc) THEN i.target ELSE i.pc + 4
      [] i.kind = "jalr" -> IF d.name # "always-not-taken" /\ i.return /\ p.ras # <<>>
                            THEN Top(p.ras) ELSE i.pc + 4

\* Mutant of TrainGshare: the history moves before the counter is found.
TrainGshareLate(d, p, pc, taken) ==
    LET h == Shifted(d, p.global_history, taken)
        i == BitXor(pc, h) % d.size
    IN  [p EXCEPT !.counters[i] = Trained(@, taken), !.global_history = h]

TrainGshare(d, p, pc, taken) ==
    [p EXCEPT !.counters[GshareIndex(d, p, pc)] = Trained(@, taken),
              !.global_history = Shifted(d, @, taken)]

\* Mutant of TrainedChoice: the loser is rewarded.
TrainedChoiceSwapped(choice, local_taken, global_taken, taken) ==
    IF local_taken = global_taken THEN choice ELSE Trained(choice, local_taken # taken)

\* The chooser moves when the components disagree, towards the one that was right.
TrainedChoice(choice, local_taken, global_taken, taken) ==
    IF local_taken = global_taken THEN choice ELSE Trained(choice, local_taken = taken)

TrainTournament(d, p, pc, taken) ==
    LET li == LocalIndex(d, pc)
        h == p.global_history
    IN  [p EXCEPT !.local_pht[p.local_history[li]] = Trained(@, taken),
                  !.global_pht[h] = Trained(@, taken),
                  !.choice_pht[h] = TrainedChoice(@, LocalTaken(d, p, pc), GlobalTaken(d, p), taken),
                  !.local_history[li] = Shifted(d, @, taken),
                  !.global_history = Shifted(d, @, taken)]

\* resolve_call_return: a call pushes, a return pops.
CallsResolved(d, p, i, next_pc) ==
    IF i.call THEN [p EXCEPT !.ras = Push(d.ras_depth, @, i.pc + 4)]
    ELSE IF i.return THEN [p EXCEPT !.ras = Resolved(d.ras_depth, @, next_pc)]
    ELSE p

Resolve(d, p, i, taken, next_pc) ==
    CASE d.name = "always-not-taken" -> p
      [] d.name # "always-not-taken" /\ i.kind # "branch" -> CallsResolved(d, p, i, next_pc)
      [] d.name = "ras" /\ i.kind = "branch" -> p
      [] d.name = "two-bit-saturating" /\ i.kind = "branch" ->
             [p EXCEPT !.counters[FoldedIndex(d, i.pc)] = Trained(@, taken)]
      [] d.name = "gshare" /\ i.kind = "branch" -> TrainGshare(d, p, i.pc, taken)
      [] d.name = "tournament" /\ i.kind = "branch" -> TrainTournament(d, p, i.pc, taken)

-----------------------------------------------------------------------------
(* record_control_transfer and replay_trace.                               *)

NoStats == [control_total |-> 0, hits |-> 0, misses |-> 0, cond_hits |-> 0, cond_misses |-> 0,
            indirect_hits |-> 0, indirect_misses |-> 0]

Counted(s, i, hit) ==
    [control_total |-> s.control_total + 1,
     hits |-> s.hits + One(hit), misses |-> s.misses + One(~hit),
     cond_hits |-> s.cond_hits + One(hit /\ i.kind = "branch"),
     cond_misses |-> s.cond_misses + One(~hit /\ i.kind = "branch"),
     indirect_hits |-> s.indirect_hits + One(hit /\ i.kind = "jalr"),
     indirect_misses |-> s.indirect_misses + One(~hit /\ i.kind = "jalr")]

\* A predictor and statistics after one more transfer r = [inst, taken, target].
Recorded(d, ps, r) ==
    [predictor |-> Resolve(d, ps.predictor, r.inst, r.taken, r.target),
     stats |-> Counted(ps.stats, r.inst, PredictedPc(d, ps.predictor, r.inst) = r.target)]

\* replay_trace of t through the predictor p.
Replay(d, p, t) ==
    LET upto[k \in 0 .. Len(t)] == IF k = 0 THEN [predictor |-> p, stats |-> NoStats]
                                   ELSE Recorded(d, upto[k - 1], t[k])
    IN  upto[Len(t)]

\* What the transfer i may do: whether it is taken, and where it goes.
Outcomes(i) ==
    CASE i.kind = "branch" -> {[taken |-> TRUE, target |-> i.target],
                               [taken |-> FALSE, target |-> i.pc + 4]}
      [] i.kind = "jal" -> {[taken |-> TRUE, target |-> i.target]}
      [] i.kind = "jalr" -> {[taken |-> TRUE, target |-> t] : t \in JumpTargets}

Init ==
    /\ program \in Programs
    /\ design \in Designs
    /\ predictor = Reset(design, New(design))
    /\ stats = NoStats
    /\ trace = <<>>

\* The run resolves the transfer i.
Executed(i) ==
    \E o \in Outcomes(i) :
        LET r == [inst |-> i, taken |-> o.taken, target |-> o.target]
            ps == Recorded(design, [predictor |-> predictor, stats |-> stats], r)
        IN  /\ predictor' = ps.predictor
            /\ stats' = ps.stats
            /\ trace' = IF Len(trace) < MaxTrace THEN Append(trace, r) ELSE trace
            /\ UNCHANGED <<program, design>>

Next == /\ stats.control_total < program.max_transfers
        /\ \E i \in program.code : Executed(i)

Spec == Init /\ [][Next]_vars

-----------------------------------------------------------------------------
(* Cycles: the two places that price a predictor against no prediction.    *)

\* compute_pipeline_stats: instructions and a penalty for every stall event.
TotalCycles(instructions, stall_events, penalty) == instructions + stall_events * penalty

Baseline == [name |-> "always-not-taken", size |-> 1, bits |-> 0, ras_depth |-> 0]
BaselineStats == Replay(Baseline, New(Baseline), trace).stats

\* compute_branch_cycles: the report of a run with this predictor attached.
ReportedCycles(instructions, penalty) ==
    [total |-> TotalCycles(instructions, stats.misses, penalty),
     baseline |-> TotalCycles(instructions, BaselineStats.misses, penalty)]

\* cycle_cost: the comparison, which resets the predictor and replays the run.
ComparedCycles(instructions, penalty) ==
    LET replay == Replay(design, Reset(design, predictor), trace).stats
    IN  [total |-> TotalCycles(instructions, replay.misses, penalty),
         baseline |-> TotalCycles(instructions, BaselineStats.misses, penalty)]

-----------------------------------------------------------------------------
(* Properties.                                                             *)

\* ReportsAgree: as long as the trace is complete, the cycles the report of a
\* run gives (live misses) are those the comparison gives for the same predictor
\* (reset, then replayed), whatever the predictor had learned.
ReportsAgree ==
    Len(trace) = stats.control_total => ReportedCycles(10, 2) = ComparedCycles(10, 2)

\* The elements of s at the indices in kept; the recorded branches; and the last
\* n outcomes of a sequence of branches, latest first, as a binary number.
Selected(s, kept) ==
    LET upto[k \in 0 .. Len(s)] == IF k = 0 THEN <<>>
                                   ELSE IF k \in kept THEN Append(upto[k - 1], s[k])
                                   ELSE upto[k - 1]
    IN  upto[Len(s)]
Branches == Selected(trace, {k \in DOMAIN trace : trace[k].inst.kind = "branch"})
LastOutcomes(s, n) == [j \in 1 .. n |-> IF j <= Len(s) THEN s[Len(s) + 1 - j].taken ELSE FALSE]
AsNumber(outcomes) ==
    LET upto[j \in 0 .. Len(outcomes)] ==
            IF j = 0 THEN 0 ELSE 2 * upto[j - 1] + One(outcomes[Len(outcomes) + 1 - j])
    IN  upto[Len(outcomes)]

\* Whether, when the last two branches met in the present context of a branch
\* went the same way, the prediction is that way.  The context of a branch is
\* said in terms of the branches before it, not of the predictor's state.
LastTwoDecide(Context(_, _), PredictedTaken(_)) ==
    \A i \in {i \in program.code : i.kind = "branch"} :
        LET met == {k \in DOMAIN Branches :
                       Context(Branches[k].inst.pc, SubSeq(Branches, 1, k - 1))
                           = Context(i.pc, Branches)}
            last == CHOOSE k \in met : \A j \in met : j <= k
            before == CHOOSE k \in met \ {last} : \A j \in met \ {last} : j <= k
        IN  Cardinality(met) >= 2 /\ Branches[last].taken = Branches[before].taken
                => PredictedTaken(i.pc) = Branches[last].taken

TraceIsComplete == Len(trace) = stats.control_total

\* TablesLearn: tables hold two-bit counters, histories index their tables, and
\* two equal outcomes decide a prediction, however often it was the other before:
\*   two-bit: those of the branches that share a counter;
\*   gshare: of the branches that met the same mixture of address and last
\*     outcomes, so the counter trained is the one that predicted;
\*   tournament: the global component goes by the last outcomes of all branches,
\*     the local one by those of the branches in the same local entry
\* (branch_predictor.hpp:96-101, gshare.cpp:24-45, tournament.cpp:28-72).
TypeOK ==
    LET index == 0 .. design.size - 1
    IN  /\ design \in Designs
        /\ \A f \in {"counters", "local_pht", "global_pht", "choice_pht"} :
               predictor[f] \in [index -> Counter]
        /\ predictor.global_history \in index
        /\ predictor.local_history \in [index -> index]
        /\ Len(predictor.ras) <= design.ras_depth
        /\ \A f \in DOMAIN stats : stats[f] \in Nat
        /\ Len(trace) <= MaxTrace
TwoBitHysteresis ==
    design.name = "two-bit-saturating" /\ TraceIsComplete =>
        LastTwoDecide(LAMBDA pc, past : FoldedIndex(design, pc),
                      LAMBDA pc : Direction(design, predictor, pc))

GshareLearnsContexts ==
    design.name = "gshare" /\ TraceIsComplete =>
        LastTwoDecide(LAMBDA pc, past : BitXor(pc, AsNumber(LastOutcomes(past, design.bits))) % design.size,
                      LAMBDA pc : Direction(design, predictor, pc))

SameEntry(past, pc) ==
    Selected(past, {k \in DOMAIN past :
                        LocalIndex(design, past[k].inst.pc) = LocalIndex(design, pc)})
TournamentLearnsContexts ==
    design.name = "tournament" /\ TraceIsComplete =>
        /\ LastTwoDecide(LAMBDA pc, past : LastOutcomes(past, design.bits),
                         LAMBDA pc : GlobalTaken(design, predictor))
        /\ LastTwoDecide(LAMBDA pc, past : LastOutcomes(SameEntry(past, pc), design.bits),
                         LAMBDA pc : LocalTaken(design, predictor, pc))
TablesLearn ==
    TypeOK /\ TwoBitHysteresis /\ GshareLearnsContexts /\ TournamentLearnsContexts

\* WinnerIsChosen: when the components last disagreed twice after the present
\* outcomes and the same one was right both times, that one predicts.
WinnerIsChosen ==
    LET before(k) == Replay(design, New(design), SubSeq(Branches, 1, k - 1)).predictor
        local(k) == LocalTaken(design, before(k), Branches[k].inst.pc)
        met == {k \in DOMAIN Branches :
                   /\ LastOutcomes(SubSeq(Branches, 1, k - 1), design.bits)
                          = LastOutcomes(Branches, design.bits)
                   /\ local(k) # GlobalTaken(design, before(k))}
        last == CHOOSE k \in met : \A j \in met : j <= k
        previous == CHOOSE k \in met \ {last} : \A j \in met \ {last} : j <= k
        localWon(k) == local(k) = Branches[k].taken
    IN  design.name = "tournament" /\ TraceIsComplete /\ Cardinality(met) >= 2 =>
            (localWon(last) = localWon(previous) =>
                 CounterIsTaken(predictor.choice_pht[predictor.global_history]) = localWon(last))
=============================================================================
