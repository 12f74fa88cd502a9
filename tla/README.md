# A TLA+ development of RISC-E

RISC-E runs RV32I programs (an ELF file, or a source file it hands to a
compiler) and then prices the run under models of hardware components: branch
predictors, instruction caches, data caches and a pipeline. The interpreter
records what happened once; every component is afterwards simulated over those
recordings. Around that, `main` compiles, loads, runs, reports and lists, and any
of these steps may fail. The program has one thread, no persistent state and no
messages, so what is hard in it is not interleaving but long sequences of legal
operations over caches, tables and recordings that are related in ways no line of code
states: which lines a set holds and what its replacement state says of them,
which misses are which, whether the recordings describe the same run, whether
two simulations that are compared decide alike, what is left when an
instruction or a step of `main` fails half way, and whether what is printed is
what happened.

Paths below are relative to the repository (`src/src/...`, `src/include/...` in
PROJECT.json).

## Inventory

| Component | State it keeps | Operations | What makes it correct |
|---|---|---|---|
| Interpreter (`src/interpreter/interpreter.cpp`) | registers, pc, trap registers, `running`/`halt_reason`, heap break, instruction count, program output, block flag and id | `step` (fetch, profile, execute, one handler per opcode), `raise_trap`/`handle_trap` (faults halt; write, exit and brk go on), `run` | a fault leaves everything as the instruction found it; the heap is mapped after any sequence of brk; x0 is 0 |
| Physical memory (`src/memory/physical_memory.cpp`) | pages of bytes | `map_region`, loads, stores, `fetch32` | an access faults before it changes anything; mapping keeps contents |
| Recordings (`icache_stats.cpp`, `dcache_stats.cpp`, `branch_stats.cpp`) | block profile and entry sequence, access records, transfer records, counters; each sequence capped | `record_block_entry`, `record_instruction`, `record`, `record_control_transfer` | the recordings describe one run: blocks partition it, transfers give its path, accesses are those carried out |
| Data-cache level (`dcache.cpp`) | ways with tag, valid and dirty bits, lines seen, write buffer, 15 counters, miss stream | `simulate_dcache`: per access a hit, a bypassing store or a refill with eviction and write-back | no store is lost; counters balance; classes of misses mean what they say |
| Replacement (`replacement.cpp`) | ticks per way, or tree bits | `touch`, `victim` | LRU is exact; the tree shields recent lines; the victim is a way |
| L1/L2 hierarchy (`l1l2_cache.cpp`) | none between runs | `simulate_hierarchy`: L1, then L2 on its miss stream, then the L1-only baseline | both levels together keep every store; baseline and chain decide alike |
| Instruction cache (`icache.cpp`) | sets of (tag, last use), tree bits, blocks seen, counters | `simulate_icache`: per block entry a hit or a miss that refills the lines of the block, and a prefetch | no duplicates, LRU exact, a loop that fits settles |
| Return address stack (`return_address_stack.hpp`, `branch_predictor.hpp`) | a bounded stack | `push`, `peek`, `pop`; `resolve_call_return` | it holds the topmost frames; only dropped entries miss |
| Branch predictors (`component/predictor`) | two-bit counters, histories, chooser, stack | `predict`, `resolve`, `reset`; replay of a trace | prediction follows past outcomes; live run and replay agree |
| Pipeline (`pipeline.cpp`) | depth and penalty | cycles = instructions + stalls x penalty | arithmetic |
| Registry and tunables (`component.cpp`, `registry.cpp`, each `set_parameter`) | the parameters | make, parse, validate, set | a value is accepted only if the simulators can work with it |
| Command line (`main.cpp`, before the try block) | the locals the arguments set, the overrides, the components of the run | read an argument, validate, make, apply, compare | what prices the run is what was asked for, and nothing asked for is dropped |
| Driver (`main.cpp`, the try block, and `compile_source`) | the temporary files, the segments kept for the listing, the interpreter | find a compiler, write the runtime, compile, load, construct, run, report, list | temporary files never stay; the terminal and the report agree; main comes to an end |
| ELF loader (`elf/loader.cpp`) | none (the segments it returns) | `load_elf`, `extract_segments` | the program starts with the image its file describes |
| Decoder (`decoder/decoder.cpp`) | none | `decode_raw_inst`, five immediates, the format table | immediates are those of the instruction set |
| Disassembler (`disasm/disasm.cpp`) | none (the cursor of the listing) | `disassemble_instruction`, `print_disassembly`, `build_block_table` | the listing is complete, ends, and shows what is executed |

How they interact: the interpreter calls the memory, whose faults call back into
`raise_trap` in the middle of a handler; it calls `record_control_transfer`, which
calls the attached predictor; the recordings reach the components through
`RunContext`, by `report` (with the statistics of the live run) and by
`cycle_cost` (which resets and replays or simulates). Nothing flows back. The
listing is printed after the run from the memory of the interpreter that has
halted, so a fetch of the listing that faults calls `raise_trap` once more.

Hard behaviours, each listed in PROJECT.json under `hazards` with its line and
the properties that watch it: a callback that halts the machine inside a
handler; sequences of brk; a flag set by one step and read by the next; caps
that end a recording while its counters go on; evictions of dirty or of
recently used lines; a refill that evicts lines of the block it refills;
overflow and misalignment of the return stack; the order of training a counter
and moving a history; reports that combine the live run with a truncated trace;
a failing step of `main` with temporary files on disk; loops over addresses that
wrap, and 0 as the mark of "no address yet".

## Modules

    Replacement ── DCache ──┬── DCacheRecency ──(refines)── LruSets
         │                  ├── DCacheMemory  ──(refines)── Memory
         │                  ├── Hierarchy (three instances: L1, L2, Base) ── HierarchyProofs
         │                  └── DCacheProofs (DCacheRecency, DCacheMemory, ReplacementProofs)
         └───── ICache ────┬── ICacheRecency ──(refines)── LruSets
                           └── ICacheProofs (ICacheRecency, ReplacementProofs)
    Recency (the order of ticks) ── DCacheRecency, ICacheRecency, ReplacementProofs
    PhysicalMemory ──┬── Interpreter ── InterpreterProofs (MemoryProofs)
                     └── Loader ───────┐
    Decoder ───── Disassembler ────────┴── Driver ── DriverProofs (MemoryProofs)
    ReturnAddressStack ──┬── CallReturn ───────┐
                         └── BranchPrediction ─┴── PredictionProofs
    Tunables (the configuration the others are given) ── DriverProofs

* **Replacement**: `ReplacementState` as a record of ticks and tree bits; `Touch`
  and `Victim` as in the code. The walks from root to leaf are written as the set
  of ancestors of a leaf and as a recursive function on nodes.
* **DCache**: the loop of `simulate_dcache`, one action per outcome of an access
  (`Hit`, `NoAllocateStore`, `Refill`), each with all it does: counters, dirty
  bit, write buffer, eviction, write-back and forwarded records. `cfg` is chosen
  in `Init`. The trace grows as it is simulated, so every trace is covered.
* **LruSets** and **Memory** are abstract specifications: a cache set as a
  list of lines moved to the front, and a memory as a value per line.
* **Recency**: the things of a set in the order of their ticks (`NewestFirst`), which
  both refinements of LruSets read their lists with.
* **DCacheRecency** maps ticks to the list (`ImplementsLru`) and states what the
  policies shield (`KeepsRecentLines`). **DCacheMemory** gives lines and the next
  level values, moves them as the code's fills, bypasses and write-backs would,
  and refines Memory (`ImplementsMemory`). The code itself moves no data; the
  module shows that the traffic it accounts for is that of a correct cache.
* **Hierarchy** composes three instances of DCache as `simulate_hierarchy` does:
  L1 with penalty 0 on the program's trace, L2 on L1's miss stream, then the
  baseline on the same trace with L2's penalty.
* **ICache**: `simulate_icache`, one action per block entry (`Hit`, `Miss`), with
  the vector of ways that `erase` and `push_back` shift. The blocks are a constant:
  `per_exec` stands for `instructions / executions`.
* **PhysicalMemory**: operators on the function from mapped addresses to
  bytes; `AccessFault` gives the trap an access raises, `Stored` and `Fetched` its
  effect if it raises none.
* **Interpreter**: `step` with one action per handler. `mem` holds the bytes and
  `code` what each word decodes to, so that programs are given decoded; Decoder and
  Disassembler relate words to instructions. A store to code leaves either the old
  instruction or one of `Rewrites`. An ALU instruction produces any value of a set
  it carries. `halt_reason = "NONE"` is `running`. `PerExecution` and
  `build_block_table` are what the instruction cache and the block table read from
  the profile.
* **Loader**: `Loadable` and `Segments` are `load_elf`, `Constructed` the memory the
  interpreter's constructor makes of the segments, and `ImageByte` the reference:
  the byte a program header puts at an address. A file is a record; the fields
  that must have one value (magic, class, machine, ...) are one flag.
* **Decoder**: a word is a function from its 32 positions to bits, so shifts and
  masks are functions on positions and no integer of 32 bits is needed. `SourceBit`
  is the reference: where the instruction set keeps each bit of an immediate.
* **Disassembler**: an instruction as the listing names it
  (`disassemble_instruction`) and as the interpreter executes it (`Executed`), each
  translated from its own switch statements. `Executed` and Interpreter's handlers
  stand for the same code: one says which instruction a word is, the other what
  it does to the machine.
* **Driver**: the try block of `main`, one action per step that can fail and per
  iteration of the listing's loops. `phase` is the part that runs, `temp` the
  temporary paths that exist and `guarded` those `TempFileGuard` will remove. The
  interpreter is a process that stores to mapped memory, enters blocks and halts or
  does not. A word of the small memory stands for a 32-bit word (`Instructions`).
* **ReturnAddressStack**, **CallReturn**: the stack's operators, and a program
  that calls and returns with its real frames beside it. `deepest` and `dropped`
  are history. A return may unwind several frames when `MaxUnwound` > 1. A
  return with no frame at all, and resizing, are not modelled.
* **BranchPrediction**: the five predictors as functions of a state record
  (`PredictedPc`, `Resolve`, `Reset`), the live run as the state machine
  (`record_control_transfer`), and `Replay` as a loop over the recorded trace. The
  exclusive or that mixes addresses and histories is a constant operator, of which
  the module assumes only that it yields numbers; the run gives it the bitwise one.
* **Tunables**: `main` from the first argument to the pricing of the run. `stage`
  says which part of it runs; `options` holds the locals the arguments set, `active`
  the components that exist, as functions from their tunables to values, and
  `pipeline` the one object main owns from the start. The registry is a constant
  table of what each component takes and is constructed with. The numbers of a
  `long` are drawn from a small set and `AsInt` is the narrowing to `int`. Options
  that do not configure a component, and the text of errors, are left out; tables
  of any accepted size are assumed to be allocated. In the model as in the code a
  comparison of the pipeline has a pipeline of its own, which takes overrides but
  not `--pipeline-stages` or `--stall-penalty`.
* **...Proofs** modules hold the theorems, their invariants and lemmas: one per
  component that is proved about, and MemoryProofs and ReplacementProofs for the
  operators several of them share. DriverProofs also proves what Decoder, Loader
  and Disassembler compute, and the theorems of Tunables, the other half of
  `main`. HierarchyProofs instantiates DCacheProofs once for each of the three calls.
* **MC...** modules hold the instances. The operators marked as a mutant are
  faulty variants of the definition that follows them: the properties are tested
  by putting them in its place; no specification uses them.

## Runs

Every property but one is a safety property and needs no fairness. The
exception is `EndsOnceHalted`: `main` reaches the run, and after a run that halts
its return. Driver assumes `WF_vars(Main)`, weak fairness of the steps of `main`
alone: it is one thread, nothing it does before or after the run waits for
anything but the compiler, and no step of it can be disabled by another actor.
Nothing is assumed of the simulated program, which may run for ever. The runs say
`CHECK_DEADLOCK FALSE` because traces, runs and the program do end.

| Run | Shows | Bounds |
|---|---|---|
| MCDCache | counters balance (`MissesExplained`, `StallsExplained`, `RefillsConserved`), types and no duplicates (`SetsSound`), what must be forwarded is, and a load returns the last store (`ImplementsMemory`) | 2 sets x 2 ways, LRU and PLRU, all write policies, every trace of 5 accesses: loads of three lines of one set and one of the other, stores to two that compete, 2 values |
| MCDCacheRecency | LRU and NMRU step as the abstract list; no policy evicts what it shields | one set of 4 ways, all three policies, 5 lines, bypassing stores, 6 accesses: fill, re-touch and evict |
| MCHierarchy | baseline comparable and speedup defined (`ComparisonHolds`), no store lost between the levels (`StoresSurvive`) | direct-mapped L1, one line of L2, hit latencies of 0 (the hardest case for the speedup), 4 accesses |
| MCICache | types and no duplicates (`SetsSound`), `MissesClassified`, `LoopSettles` and `ImplementsLru` under LRU | 2 sets x 2 ways, LRU and PLRU, with and without prefetch, six blocks of one to five lines, 6 entries |
| MCICacheTree | violated, see below | PLRU, one set of 4 ways, 8 entries |
| MCInterpreter | precise faults, mapped heap, agreement of the recordings (`BlocksPartition`, `TransfersTellThePath`), and that what is read from the profile was executed (`FetchesWereExecuted`) and listed (`TableCoversRun`) | 256 addresses, pages of 8 bytes, six programs that reach every handler and fault, 20 steps, caps of 3 and 4 that the runs outgrow |
| MCCallReturn | the stack is the top of the frames | depth 0 to 3, 6 calls, two return addresses |
| MCBranchPrediction | `ReportsAgree`, and what the tables (`TablesLearn`) and the chooser (`WinnerIsChosen`) have learned | six designs with tables of 2 and 8 entries; two branches for 7 transfers, or a branch with calls, returns and jumps for 5; the trace is cut at 6 |
| MCTunables | `PricedAsAsked`, `NoOverrideIgnored`, `GeometryUsable` | every command line of at most 3 options, with 14 overrides (valid, invalid, inactive, unknown, the same tunable twice), 7 names for the options that take one and 4 values; an int of 4 bits, a long of 11 (the largest default, 1024, must fit) |
| MCTunablesStages | violated, see below | the same |
| MCDriver | the image, the listing and its instructions, temporary files, the verdict, termination (`EndsOnceHalted`) | 256 addresses, bytes of 2 bits, pages of 16; 37 files: 17 that together list every word of memory, 12 layouts (segments that overlap, are empty, unaligned, at address 0, at either side of the last word, or begin like a file without being its front), 8 that must be refused; 181 sample words with every function code of every opcode and immediates of both signs; one store of the program, two block entries |
| MCDriverMirrors | violated, see below | the same |

The bounds are small because the code treats sets, ways and table entries
alike: two sets tell whether an index is right, one line more than a set has
ways makes it evict, and a second round of the same lines shows what is left.
The theorems of the next section lift every safety property of a passing run to all
sizes. In MCDriver a file header has 12 bytes (the magic and the three fields the
listing reads back from it), so that a text segment can begin with it and still leave
room for code.

### Where code and documentation part

Each is a run that is expected to be violated, and a finding in PROJECT.json.

* `TreeShieldsRecentLines` (icache.cpp:108): `evict_one` erases the victim from a
  vector, so later lines move to other ways under tree bits indexed by way. The
  same policy in DCache, which keeps lines in place, passes `KeepsRecentLines`.
* `MirrorsValidity` (disasm.cpp:92): the listing looks at the `funct7` of an OP
  only to tell `sub` from `add` and `sra` from `srl`; what the interpreter rejects
  because of another value is listed as a valid instruction, where disasm.hpp:26
  says that the text mirrors the interpreter's validity rules. In the other
  direction `ListedAsExecuted` holds.
* `StagesAtLeastOne` (pipeline.cpp:64, main.cpp:525): the number of stages is
  compared with 1 as a `long` and then narrowed to `int`, so 2^32 is accepted and
  leaves no stage.

Others were met and have no run. Re-pushing the actual target of a return that
unwound frames leaves the stale entries below it, so the stack is not aligned
again (branch_predictor.hpp:122-131). The miss stream of L1 has the cap of
a recorded trace but can be longer (two records for a refill that writes back;
dcache_stats.cpp:15 against dcache.hpp:73-76). A dirty
victim is written back as one record at the first address of its line, and the tunables
accept any two line sizes: if L1 lines are larger than those of L2, a store to a later
part of one is in no line of L2 afterwards (dcache.cpp:67 and l1l2_cache.cpp:32-54
against dcache.cpp:43-45; the condition of `StoresSurvive`). The refill of a block, line by
line, can evict lines of the same block, so a fetch may end with its block not
resident (icache.cpp:164-167 against icache.hpp:17-18); `LoopSettles` says what
does hold under LRU. Under tree PLRU with four ways not even that: with blocks 0 and 1
of one line, block 2 of four, and entries 0, 1, 0, 2, 2, ... the way of a line of the
past is never the victim again, because every appended line touches the last leaf, and
block 2 evicts its own lines for ever (icache.cpp:103-126 against pseudo_lru.hpp:7-9).
A block whose first entry hits, because another block brought its lines, has its
re-entry miss counted as compulsory (icache.cpp:155), where icache.hpp:34-37 makes the
first entry of a block the compulsory one and a re-entry miss a conflict or one for lack
of capacity; `MissesClassified` says what holds under either rule: an entry that asks for
a line nobody brought is compulsory, no block is so twice, and the class of the other
geometry stays empty. The length of a block is a quotient of counters, rounded down,
and a run that ends inside a block leaves counters that do not divide
(icache.cpp:135 against icache.hpp:56-57). Live misses go on past the cap of the
trace while the baseline is replayed from the trace only (branch_stats.cpp:32 and
branch_predictor.cpp:46-51 against branch_stats.hpp:65-66); `ReportsAgree` says
what holds up to the cap. A component named by `--comparison` stays the only one
compared when a later `--comparison` names a type (main.cpp:500-504). The reason a
level gives for refusing a value is overwritten by "unknown parameter"
(l1l2_cache.cpp:176).

Of loading and listing: a word at address 0 is never the first listed, because 0
stands for "none yet" (disasm.cpp:222), where disasm.hpp:28-31 promises a line per
instruction; `ListingComplete` is required of images without code there. The
listing of an executable segment that reaches the last word of the address space
does not end (disasm.cpp:220; the condition of `EndsOnceHalted`). If the walk over
an executable segment starts at no word, its fetches trap in the interpreter that
has halted, and the terminal gives a reason that differs from that of the report
(disasm.cpp:221; the condition of `VerdictStands`). What is listed is the memory
after the run, stores to code included, although main.cpp:658 says that it lists "the
loaded image" and the README calls it a static disassembly; `ListingComplete` is stated
of the image, and required where the run has left the code as it was loaded. A segment that ends exactly at 2^32 is refused (loader.cpp:127).
`align_up` puts the heap at 0 for an image that ends in the last 15 bytes
(interpreter.cpp:23). A run that goes straight on from the last word of the address
space to the first executes instructions before every block entry, and the block
table counts them nowhere (disasm.cpp:254; the condition of `TableCoversRun`).

## Proofs

Checked by TLAPS for every value of the constants that satisfies the assumptions
the modules name, which TLC evaluates in every run. They are what the code checks
or is compiled with: positive sizes and a power of two of ways if PLRU is used
(`WaysAssumption`, `DCacheAssumption`, `ICacheAssumption`); a page size that divides
the number of words, bytes of an even number of values and a stack inside the
address space (`MemoryAssumption`, `LoaderAssumption`, `InterpreterAssumption`);
files of bytes and headers, an injective reading of the zero word, and fields that
lie inside the file header (`DriverAssumption`); `2^history_bits` entries of the tables that a history
indexes (`PredictionAssumption`); the exclusive or of addresses and histories is a
number (`XorAssumption`); initial values of lines (`ValueAssumption`); bounds of the
stack that are numbers (`StackAssumption`); a `long` that holds the largest default,
1024, and a text that is no number (`WidthsAssumption`); two levels that write back and
replace by ticks, which no tunable of the hierarchy changes
(`HierarchyAssumption`). The theorems about the
return stack have one hypothesis more: a return ends one function (`Matched`).

### Caches

* `VictimIsAWay` (ReplacementProofs): the oldest way exists because a finite set
  of ticks has a least one, and the tree walk, which at most doubles a node, ends
  in a leaf, whether or not the number of ways is a power of two.
* `TypeCorrect`, `LinesUnique`, `MissesAddUp`, `CyclesAddUp` (DCacheProofs): from the
  inductive `SafetyInv`. A refill keeps lines unique because it runs only when no way
  holds the line, so the type invariant and the guard are both needed; the write
  buffer's account needs the bound on `pending_writes`, and `CompulsoryOncePerLine`
  the finiteness of the set of lines seen.
* `LinesConserved`, `TrafficComplete`: from `ConservationInv`. A refill replaces one
  way, so the number of resident lines grows by one exactly if the way was free;
  the stream is as long as its counters say until it reaches its cap
  (`StreamExact`).
* `CacheIsInvisible`: DCacheMemory implements Memory. `MemInv` adds that a line that
  is not dirty has the value of the level below, so that it may be dropped, and that
  only lines the program asked for are resident. `Seen` is the refinement mapping:
  the value in the way that holds the line, or else the one below; an access
  changes it for its own line alone, whatever is evicted on the way.
  `DataFollows`: the values add no behaviour to the level.
* `LruIsExact`: under LRU and NMRU, whose victim the code chooses alike, DCache
  implements LruSets. `TicksInv` says that the ways in use have different ticks, none
  of them in the future, so that a line stands in the list one place behind the lines
  with later ticks. A touched way gets the latest tick: its line comes first and those
  before it move back by one (`TouchedComesFirst`). In a full set the way of the least
  tick stands last (`OldestIsLast`), so the victim is what falls off the list.
* `RecentLinesKept`: from `AgeInv`, which relates the bookkeeping to the accesses. Ticks
  order the ways as the last touches of their lines do (`TicksFollow`). The tree says
  less: if a node points towards a way, some way below its other child was touched
  later (`TreeFollows`), and a touch keeps this because it turns every node above the
  touched way away from it. Every node above the victim points towards it, so on each
  level there is a way touched later, and these are different ways
  (`OneWayPerLevel`): as many lines were touched after the victim's as the tree has
  levels. The paths of the tree are sets of nodes closed under halving
  (ReplacementProofs: `PathIsChain`, `PathForks`, `WalkIsPath`).
* `ComparisonIsFair` (HierarchyProofs): what a level decides is a function of its
  trace. `Ran` says that storage, replacement state and the counts of decisions are
  what the accesses, one after the other, make of an empty level (`Decide`), and
  `RanUnique` that two levels of one geometry that ran the same accesses agree,
  whatever they pay. `ChainInv` says what each call was fed: L2 a prefix of L1's
  stream and the baseline a prefix of L1's trace (`Fed`), all of it when the comparison
  is done. The two prices then follow from `StallsPriced`, as the stalls are the
  decisions times the penalty. The speedup is defined because the first access of a
  run misses in both levels (`Started`): if memory costs anything, the total is not zero.
* `StoresReachDram` (HierarchyProofs): from `StoresKept`, for each level: every line
  stored to is dirty in the level or was sent down as a store. A store dirties the line
  it hits or brings in, and a refill that takes a dirty line writes it back, so only a
  stream that was cut loses one. Between the levels there is arithmetic: the
  write-back has the first address of the L1 line, and the address of the store is in
  the same L2 line because the size of an L1 line divides that of an L2 line
  (`SameLineBelow`).
* `SetsStaySound`, `MissesAreClassified` (ICacheProofs): `Sound` says of each set
  that its lines are few enough and distinct and that its replacement state fits.
  A block is refilled line by line in a loop whose state (`FillState`) stays sound,
  whether its lines fit in the set, evict each other, or are there already. The second
  theorem rests on `Classified`: what is resident was brought by an entry (`HoldsOnly`), so
  an entry for a line nobody brought misses, and its block has not missed before, or it
  would have brought the line.
* `LruDesignsAreExact`: an instruction cache that prefetches nothing and whose blocks
  are single lines implements LruSets as well. There the ways of a set shift when one
  is erased, so the order is that of the ticks, not of the positions; erasing the
  oldest and appending a line makes the same list as replacing it in place. The
  order's lemmas are shared with DCache (ReplacementProofs).
* `LoopsSettle`: for blocks of any number of lines, from `SettleInv`: when the run ends
  in `k` entries of a block that fits, the lines a set used since the first of them
  are lines of the block, and either all of the block's are there or at least `k`
  were used. An eviction spares them (`EvictionSparesFresh`): had every way been used
  since, they and the missing line would be more lines of the block than ways. So the
  lines brought so far stay, and a set that lacks one gains one per entry.

### Interpreter

* `TypeCorrect`: `TypeInv` has a part per recording and for the memory, which is
  mapped by whole pages. MemoryProofs says what mapping, loads and stores of words
  of any number of bytes return.
* `HeapStaysMapped`, `TraceHoldsLegalAccesses`, `TrapsArePrecise` and
  `EveryWriteIsTraced`: the first two are invariants, the others say what a step
  may never do. All rest on `MemoryEffect`: a step loads, stores, moves the break or
  leaves memory alone, and mapping never unmaps.
* `ProfilePartitionsRun`: from `Partition`. Sums over the blocks are recursive
  functions; the lemmas say what they become when one block counts one more, or a
  block is added. A fetch that traps has been counted by `inst_count` and not by
  a block.
* `RecordingsTellThePath`: from `Path`, in which the present pc follows from the
  last transfer and the instructions counted since, as long as no transfer was
  dropped.
* `FetchesExecuted`: from `Coverage`. For every block there is a length to which its
  words were executed and such that its executions but the present one are no
  longer; then the rounded average of its counters is no longer either.
* `TableAlwaysCovers`: from `StraightRuns`: an executed word starts a block or follows
  an executed word, so the least word with no entry at or before it could only be the
  first of the address space. The spans of the blocks are disjoint because the next
  entry ends each, so their sizes add up to that of their union (`SizesAddUp`).

### Branch prediction

* `TypeCorrect`: `TypeInv`; indices are reduced modulo the size of their table.
* `RecordingIsExact`: `Replayable` is inductive. While the trace is complete the
  replay of it is the live state, because a step appends what it resolved; and every
  design's `reset` clears all that its `resolve` touches (`ResetForgets`).
  `ReportsAlwaysAgree` follows.
* `TablesFollowTheBranches`: from `LearnedInv`, one clause per table. `TableLearns`
  says that an entry *leans* as the branches that mapped to it make it: after one
  outcome it is not strongly the other way, and after two alike it predicts them,
  which is the strongest invariant in terms of the last two only. The history registers spell the last outcomes as binary numbers,
  and `NumberPushed` says that shifting and masking is what one outcome more does to
  such a number. For the chooser the branches that count are those on which the
  components, as the branches before them made them, disagreed.
* `LearningIsExact` and `WinnerIsAlwaysChosen`: two contexts with the same number
  have the same last outcomes (`NumberInjective`), so what `LearnedInv` says of the
  entry a branch looks up holds of the branches that met its context.
* `StackFollowsCalls`, `MissesArePaid`, `ShallowNeverMisses` (CallReturn): under
  `Matched`, from `StackInv`, which adds
  `DropsAreDeep`: an entry was dropped only if the program was once deeper than
  the stack. Without it the last theorem is not inductive.

### The command line

* `GeometryStaysUsable` (DriverProofs): every tunable is constructed with a value
  its component takes (`RegistryConsistent`, over the whole registry), and
  `set_parameter` keeps that (`SetSized`). This is where `WaysAssumption` and
  `DCacheAssumption` of the cache modules come from.
* `EveryOverrideCounts`: from `Validated` and `Named`, which carry what
  `validate_overrides` has seen to the stages that apply it.
* `RunsArePricedAsAsked`: from `PricingInv`. Two things that no line of code relates
  are shown to agree: the arguments and the list of overrides made of them
  (`ListAgrees`: the last `--param` for a tunable is the last override for it), and
  the components and the overrides applied so far (`Priced`; `After` is the value
  the first k of them give). The lemmas `FinalAppended` and `FinalKept` say what the
  last member of a sequence that meets a condition is when the sequence grows.

### Loading, listing and the driver

* `ImmediatesDecoded` (DriverProofs): for every 32-bit word. One lemma gives the
  bit at a position of each shift, mask and or; the immediate of each format is then
  compared with the reference in groups of positions that come from one place
  (lemmas `FormatI` to `FormatJ`), and two words with the same bits are equal. The
  lemmas take any word and any position, so no case is tried one by one.
  `ImmediatesAlwaysEncoded` and `AlwaysListedAsExecuted` carry this to every line of
  every listing.
* `ImageAlwaysLoaded`: loading is a loop over the segments, and what it leaves at an
  address is what the last segment that covers the address puts there. `LoopRuns`,
  `LoopIsUnique` and `KeptThroughout` say once what a loop from 1 to n written as a
  recursive function computes and keeps.
* `TypeCorrect`: the cursor of the listing stays inside the address space.
* `VerdictAlwaysStands`: a fetch of the listing that traps changes the halt reason
  after the report was written. `SegmentsMapped` and `WalkInv` show that it does not
  happen where every executable segment is walked from a word: such a walk stays
  inside its segment, which is mapped, or it reaches the last word and never
  leaves the scan, so that no verdict is spoken.
* `ListingAlwaysComplete`: from `ListingInv`. While a segment is scanned the bounds are
  those of its nonzero words so far (`ScanExtendsBounds`, where 0 stands both for the
  first address and for none), and while it is listed the listing is that of the
  segments before it and of its own words up to the cursor. A walk that starts off a
  word finds nothing because every fetch traps; one that reaches the last word never
  ends, so nothing is promised of it. The invariant speaks of the memory that is walked;
  under the conditions of the property that is the image (`WalkedIsExpected`).
* `TempFilesAlwaysRemoved`: from `CleanUp`, every path that exists is
  known to the guard. It is not enough that this holds when main returns: the
  compiler may leave half an output, so the invariant also says that the output is
  registered in every phase from which the compiler can be reached.

### Only model-checked

* `EndsOnceHalted` is liveness under fairness, out of the prover's reach. Every other
  property of a passing run is stated by a theorem.

## Not modelled

* JSON, `--list`, the columns and number formats of reports and listings,
  percentages and the text of errors: they are wording and layout. Whether a file
  of the program's output is valid JSON is therefore not a question here.
* The cross compiler and the search for it: it succeeds, or fails with or without
  an output.
* ALU results, which are drawn from sets; the sizes of accesses inside the cache,
  which the code does not use.
* Interpreter: `reset` runs only in the constructor and is part of `Init`; the move
  constructor moves every field.
* `configure` of a predictor that has learned and a second run after `reset`:
  nothing in the program calls them, so no state of the program shows them.

## Plan

Compose the recordings of Interpreter with ICache and DCache: the block table as
the profile leaves it, the access trace as the input of a level.
