------------------------------ MODULE Tunables ------------------------------
(***************************************************************************)
(* How a command line configures a run: the argument loop of main, then    *)
(* validate_overrides, apply_overrides and the rows of a comparison        *)
(* (src/main.cpp), the registry (src/component/registry.cpp) and           *)
(* set_parameter of every component.                                       *)
(*   "arguments"  main reads argv;                                         *)
(*   "validate"   each override is tried on a component made for it;       *)
(*   "apply"      the components of the run, or of the comparison, exist   *)
(*                and take the overrides;                                  *)
(*   "run"        the program runs and is priced;                          *)
(*   "left"       main has returned: an error, or --list.                  *)
(* A text that parse_parameter_value does not accept is Junk; any other    *)
(* is the number it is read as.                                            *)
(***************************************************************************)
EXTENDS Integers, Sequences

CONSTANTS LongBits,     \* long holds 0 .. 2^LongBits - 1 and their negatives
          IntBits,      \* an int has IntBits bits
          Junk,         \* a text that is no non-negative long
          Names,        \* the names given to --predictor, --icache, --dcache, --comparison
          Texts,        \* the values given to --pipeline-stages, --stall-penalty
          Overrides,    \* the values given to --param
          MaxArguments  \* bound: the arguments on a command line

\* The values of construction are longs: the largest is 1024.
ASSUME WidthsAssumption == LongBits \in Nat /\ LongBits > 10 /\ IntBits \in Nat \ {0} /\ Junk \notin Int

VARIABLES stage,
          argv,         \* the arguments read so far
          options,      \* the locals of main they set
          pipeline,     \* the pipeline that prices the run
          active,       \* the other components of the run, or the rows compared
          turn          \* the override whose turn it is

commandVars == <<stage, argv, options, pipeline, active, turn>>

-----------------------------------------------------------------------------
(* The registry, and the tunables of each component: what it takes, and    *)
(* the value it is constructed with.                                       *)

Tunable(name, takes, default) == [name |-> name, takes |-> takes, default |-> default]

RasDepth == Tunable("ras-depth", "depth", 16)
Shared == {Tunable("miss-penalty", "any", 50), Tunable("line-size", "positive", 16)}
Geometry(takes) == {Tunable("sets", "positive", 16), Tunable("ways", takes, 4)}

PredictorTunables ==
    [c \in {"two-bit", "always-not-taken", "gshare", "tournament", "ras"} |->
       CASE c = "two-bit" -> {Tunable("table-size", "power of two", 1024), RasDepth}
         [] c = "always-not-taken" -> {}
         [] c = "gshare" -> {Tunable("history-bits", "history", 12), RasDepth}
         [] c = "tournament" -> {Tunable("history-bits", "history", 10), RasDepth}
         [] c = "ras" -> {RasDepth}]

PipelineTunables ==
    [c \in {"pipeline"} |-> {Tunable("stages", "positive", 5), Tunable("stall-penalty", "any", 0)}]

ICacheTunables ==
    [c \in {"icache-fa", "icache-setassoc", "icache-plru", "icache-prefetch"} |->
       Shared \cup (CASE c = "icache-fa" -> {Tunable("ways", "positive", 16)}
                      [] c = "icache-plru" -> Geometry("power of two")
                      [] OTHER -> Geometry("positive"))]

CacheTunables ==
    [c \in {"l1-l2"} |->
       {Tunable("l1-hit-latency", "any", 4), Tunable("l1-miss-penalty", "any", 100),
        Tunable("l1-line-size", "positive", 16), Tunable("l1-sets", "positive", 16),
        Tunable("l1-ways", "positive", 4),
        Tunable("l2-hit-latency", "any", 14), Tunable("l2-miss-penalty", "any", 100),
        Tunable("l2-line-size", "positive", 64), Tunable("l2-sets", "positive", 32),
        Tunable("l2-ways", "positive", 8)}]

\* register_all: every type with its components.
TunablesOf == [predictor |-> PredictorTunables, pipeline |-> PipelineTunables,
               icache |-> ICacheTunables, cache |-> CacheTunables]

Types == DOMAIN TunablesOf
Component == UNION {DOMAIN TunablesOf[type] : type \in Types}
TypeOf(c) == CHOOSE type \in Types : c \in DOMAIN TunablesOf[type]

\* component_names: the empty type stands for all.
NamesOf(type) == {c \in Component : type \in {"", TypeOf(c)}}

Parameters(c) == TunablesOf[TypeOf(c)][c]

\* make_component: a component is a function from its tunables to values.
Made(c) == [p \in {t.name : t \in Parameters(c)} |->
               (CHOOSE t \in Parameters(c) : t.name = p).default]

-----------------------------------------------------------------------------
(* set_parameter.                                                          *)

PowersOfTwo == {2 ^ k : k \in 0 .. LongBits - 1}
HistoryLengths == 1 .. 16
kMaxDepth == 64

Meets(takes, v) ==
    CASE takes = "any" -> TRUE
      [] takes = "positive" -> v >= 1
      [] takes = "power of two" -> v \in PowersOfTwo
      [] takes = "history" -> v \in HistoryLengths
      [] takes = "depth" -> v <= kMaxDepth

\* Mutant of Accepts: the power of two is not asked for.
AcceptsAnyWays(c, name, v) ==
    /\ v # Junk
    /\ \E t \in Parameters(c) :
           t.name = name /\ (v < 1 => Meets(t.takes, v)) /\ (t.takes = "history" => v <= 16)

Accepts(c, name, v) ==
    /\ v # Junk
    /\ \E t \in Parameters(c) : t.name = name /\ Meets(t.takes, v)

\* static_cast<int>(long): the low bits, in two's complement.
AsInt(v) ==
    LET low == v % 2 ^ IntBits
    IN  IF low >= 2 ^ (IntBits - 1) THEN low - 2 ^ IntBits ELSE low

\* What a component keeps of an accepted value: the fields of the pipeline are
\* ints, all others are as wide as the value.
Kept(c, v) == IF c = "pipeline" THEN AsInt(v) ELSE v

SetParameter(c, config, name, v) ==
    IF Accepts(c, name, v) THEN [config EXCEPT ![name] = Kept(c, v)] ELSE config

\* Mutant of Reset: the configuration goes with what was learned.
ResetToMade(c, config) == Made(c)

\* reset: clears tables, histories and stacks, none of which is kept here.
Reset(c, config) == config

-----------------------------------------------------------------------------
CommandInit ==
    /\ stage = "arguments"
    /\ argv = <<>>
    /\ options = [predictor |-> "two-bit", icache |-> "icache-fa", dcache |-> "l1-l2",
               saw_predictor |-> FALSE, comparison_mode |-> FALSE,
               comparison_type |-> "", comparison_only |-> "", overrides |-> <<>>]
    /\ pipeline = Made("pipeline")
    /\ active = <<>>
    /\ turn = 1

Read(option, value) ==
    /\ stage = "arguments"
    /\ Len(argv) < MaxArguments
    /\ argv' = Append(argv, [option |-> option, value |-> value])
    /\ UNCHANGED <<active, turn>>

Reject == stage' = "left" /\ UNCHANGED <<options, pipeline>>

\* --predictor, --icache and --dcache take any text for now.
SelectPredictor(name) ==
    /\ Read("--predictor", name)
    /\ options' = [options EXCEPT !.predictor = name, !.saw_predictor = TRUE]
    /\ UNCHANGED <<stage, pipeline>>

SelectICache(name) ==
    /\ Read("--icache", name)
    /\ options' = [options EXCEPT !.icache = name]
    /\ UNCHANGED <<stage, pipeline>>

SelectDCache(name) ==
    /\ Read("--dcache", name)
    /\ options' = [options EXCEPT !.dcache = name]
    /\ UNCHANGED <<stage, pipeline>>

\* --comparison: the name of a component, or of a type for all of its kind.
\* A component once named stays comparison_only whatever is named after it.
Compare(name) ==
    /\ Read("--comparison", name)
    /\ \/ /\ name \in Component
          /\ options' = [options EXCEPT !.comparison_mode = TRUE, !.comparison_only = name,
                                  !.comparison_type = TypeOf(name)]
          /\ UNCHANGED <<stage, pipeline>>
       \/ /\ name \notin Component /\ NamesOf(name) # {}
          /\ options' = [options EXCEPT !.comparison_mode = TRUE, !.comparison_type = name]
          /\ UNCHANGED <<stage, pipeline>>
       \/ name \notin Component /\ NamesOf(name) = {} /\ Reject

\* --pipeline-stages and --stall-penalty: set the pipeline at once.
PipelineOption(option, name, v) ==
    /\ Read(option, v)
    /\ \/ /\ Accepts("pipeline", name, v)
          /\ pipeline' = [pipeline EXCEPT ![name] = AsInt(v)]
          /\ UNCHANGED <<stage, options>>
       \/ ~Accepts("pipeline", name, v) /\ Reject

Param(o) ==
    /\ Read("--param", o)
    /\ options' = [options EXCEPT !.overrides = Append(@, o)]
    /\ UNCHANGED <<stage, pipeline>>

\* An option without its value, a --param without "." and "=", or --list.
LeaveEarly ==
    /\ stage = "arguments"
    /\ Reject
    /\ UNCHANGED <<argv, active, turn>>

EndOfArguments ==
    /\ stage = "arguments"
    /\ stage' = IF options.comparison_mode /\ options.saw_predictor THEN "left" ELSE "validate"
    /\ UNCHANGED <<argv, options, pipeline, active, turn>>

\* Mutant of MayTarget: an override for an inactive component passes.
MayTargetAny(c) == c \in Component

\* validate_overrides: the component exists and, but for a comparison, is active.
MayTarget(c) ==
    /\ c \in Component
    /\ options.comparison_mode \/ c \in {options.predictor, "pipeline", options.icache, options.dcache}

Validate ==
    /\ stage = "validate"
    /\ turn <= Len(options.overrides)
    /\ LET o == options.overrides[turn]
       IN  IF MayTarget(o.component) /\ Accepts(o.component, o.name, o.value)
           THEN turn' = turn + 1 /\ stage' = stage
           ELSE stage' = "left" /\ turn' = turn
    /\ UNCHANGED <<argv, options, pipeline, active>>

\* The rows of build_comparison_rows.
Compared == IF options.comparison_only # "" THEN {options.comparison_only}
            ELSE NamesOf(options.comparison_type)

\* The components of the run, if the names are of the right types, or a row per
\* component compared.
Make ==
    /\ stage = "validate"
    /\ turn > Len(options.overrides)
    /\ \/ /\ options.comparison_mode
          /\ active' = [c \in Compared |-> Made(c)]
          /\ stage' = "apply"
       \/ /\ ~options.comparison_mode
          /\ IF /\ options.predictor \in NamesOf("predictor")
                /\ options.icache \in NamesOf("icache")
                /\ options.dcache \in NamesOf("cache")
             THEN /\ active' = [c \in {options.predictor, options.icache, options.dcache} |-> Made(c)]
                  /\ stage' = "apply"
             ELSE active' = active /\ stage' = "left"
    /\ turn' = 1
    /\ UNCHANGED <<argv, options, pipeline>>

\* apply_overrides, for all components at once: an override concerns only those
\* of its name.  A comparison of the pipeline has one of its own.
Apply ==
    /\ stage = "apply"
    /\ turn <= Len(options.overrides)
    /\ LET o == options.overrides[turn]
       IN  /\ active' = [c \in DOMAIN active |->
                           IF c = o.component THEN SetParameter(c, active[c], o.name, o.value)
                           ELSE active[c]]
           /\ pipeline' = IF o.component = "pipeline"
                          THEN SetParameter("pipeline", pipeline, o.name, o.value)
                          ELSE pipeline
    /\ turn' = turn + 1
    /\ UNCHANGED <<stage, argv, options>>

\* The program runs; the rows of a comparison are reset before they are asked.
Run ==
    /\ stage = "apply"
    /\ turn > Len(options.overrides)
    /\ stage' = "run"
    /\ active' = IF options.comparison_mode THEN [c \in DOMAIN active |-> Reset(c, active[c])] ELSE active
    /\ UNCHANGED <<argv, options, pipeline, turn>>

CommandNext ==
    \/ \E name \in Names : SelectPredictor(name) \/ SelectICache(name) \/ SelectDCache(name)
                         \/ Compare(name)
    \/ \E v \in Texts : \/ PipelineOption("--pipeline-stages", "stages", v)
                        \/ PipelineOption("--stall-penalty", "stall-penalty", v)
    \/ \E o \in Overrides : Param(o)
    \/ LeaveEarly \/ EndOfArguments \/ Validate \/ Make \/ Apply \/ Run

CommandSpec == CommandInit /\ [][CommandNext]_commandVars

-----------------------------------------------------------------------------
\* Whatever the overrides and their order, every component that prices the run
\* has sizes its simulator can work with: those that the theorems about
\* Replacement and DCache assume (pseudo_lru.hpp:9, two_bit_saturating.cpp:12).
GeometryUsable ==
    \A c \in DOMAIN active \ {"pipeline"} : \A t \in Parameters(c) : Meets(t.takes, active[c][t.name])

\* The last of several arguments that set the same thing counts, an override
\* before an option, an option before the value of construction; nothing that
\* happens between the reading of the arguments and the pricing of the run,
\* neither the validation nor the reset, takes it away (main.cpp:151-152).
Latest(indices) == CHOOSE i \in indices : \A j \in indices : j <= i

Wanted(c, name, otherwise) ==
    LET asked == {i \in DOMAIN argv : /\ argv[i].option = "--param"
                                     /\ argv[i].value.component = c /\ argv[i].value.name = name}
    IN  IF asked = {} THEN otherwise ELSE Kept(c, argv[Latest(asked)].value.value)

WantedByOption(option, name) ==
    LET asked == {i \in DOMAIN argv : argv[i].option = option}
    IN  IF asked = {} THEN Made("pipeline")[name] ELSE AsInt(argv[Latest(asked)].value)

PricedAsAsked ==
    stage = "run" =>
        /\ \A c \in DOMAIN active : \A name \in DOMAIN active[c] :
               active[c][name] = Wanted(c, name, Made(c)[name])
        /\ pipeline["stages"] = Wanted("pipeline", "stages",
                                       WantedByOption("--pipeline-stages", "stages"))
        /\ pipeline["stall-penalty"] = Wanted("pipeline", "stall-penalty",
                                              WantedByOption("--stall-penalty", "stall-penalty"))

\* An override is never dropped in silence: outside a comparison each one that
\* was given concerns a component that prices the run (main.cpp:161-164).
NoOverrideIgnored ==
    stage = "run" /\ ~options.comparison_mode =>
        \A i \in DOMAIN options.overrides :
            LET o == options.overrides[i]
            IN  o.component \in DOMAIN active \cup {"pipeline"} /\ o.value # Junk

\* A pipeline that prices a run has a stage: "stages must be >= 1"
\* (pipeline.cpp:61; tests/harness_test.cpp:53 "stages >= 1 enforced").
StagesAtLeastOne == stage = "run" => pipeline["stages"] >= 1
=============================================================================
