---------------------------- MODULE Interpreter ----------------------------
(***************************************************************************)
(* The RV32I interpreter: class Interpreter                                *)
(* (src/interpreter/interpreter.cpp) with its memory and the three         *)
(* recordings a run leaves behind for the cycle models: the block profile  *)
(* (icache_stats.cpp), the data access trace (dcache_stats.cpp) and the    *)
(* control transfer trace (branch_stats.cpp).                              *)
(*                                                                         *)
(* One step of Next is one call of step().  An ALU instruction produces    *)
(* any of the results its record lists: nothing said here depends on which *)
(* one.  An attached predictor observes transfers and changes nothing      *)
(* else; it is the subject of BranchPrediction.  reset() runs in the       *)
(* constructor only, so it is part of Init.                                *)
(***************************************************************************)
EXTENDS PhysicalMemory, SequencesExt

CONSTANTS Regs,              \* registers the program uses, with 0
          StackPointer, StackSize,   \* kInitialStackPointer, kStackSize
          HeapAlignment,     \* alignment of the initial break
          Image,             \* bytes of the ELF's segments, by address
          Programs,          \* the programs: what the words decode to
          Entry, EndAddress, \* elf.entry, elf.end_vaddr
          Rewrites,          \* instructions a store to code may leave behind
          MaxRecords,        \* DCacheStats::kMaxRecords
          MaxTrace,          \* BranchStats::kMaxTrace
          MaxEntries,        \* ICacheStats::kMaxEntries
          MaxInstructions    \* bound: steps of a run

\* A decoded instruction.  legal says whether the handler of the opcode
\* accepts its funct3 and funct7; the other fields matter to some opcodes only.
Opcode == {"compute", "branch", "jal", "jalr", "load", "store", "ecall", "ebreak", "fence", "unknown"}
Condition == {"beq", "bne", "blt", "bge", "bltu", "bgeu"}
Instruction == [op : Opcode, legal : BOOLEAN, rd : Regs, rs1 : Regs, rs2 : Regs,
                imm : Int, size : AccessSize, signed : BOOLEAN, cond : Condition,
                results : SUBSET Address]

\* A zero word is no instruction.
ZeroWord == [op |-> "unknown", legal |-> FALSE, rd |-> 0, rs1 |-> 0, rs2 |-> 0,
             imm |-> 0, size |-> 4, signed |-> FALSE, cond |-> "beq", results |-> {}]

a0 == 10
a1 == 11
a2 == 12
a7 == 17
WriteCall == 64
ExitCall == 93
BrkCall == 214

StackBottom == StackPointer - StackSize
Minus1 == WordValues - 1
AlignUp(n) == Wrap(((n + HeapAlignment - 1) \div HeapAlignment) * HeapAlignment)

ASSUME InterpreterAssumption ==
    /\ Regs \subseteq 0 .. 31
    /\ {0, 2, a0, a1, a2, a7} \subseteq Regs
    /\ StackPointer \in Address /\ StackSize \in 1 .. StackPointer
    /\ HeapAlignment \in Nat \ {0} /\ WordValues % HeapAlignment = 0
    /\ Entry \in Address /\ EndAddress \in Address
    /\ DOMAIN Image \subseteq {a \in Address : a < EndAddress}
    /\ \A a \in DOMAIN Image : Image[a] \in Byte
    /\ \A p \in Programs :
           /\ DOMAIN p \subseteq {a \in DOMAIN Image : a % 4 = 0}
           /\ \A a \in DOMAIN p : p[a] \in Instruction
    /\ Rewrites \subseteq Instruction
    /\ {MaxRecords, MaxTrace, MaxEntries, MaxInstructions} \subseteq Nat

VARIABLES x, pc, mepc, mcause, mtval, halt_reason,     \* CPUState
          mem,               \* mem_, the bytes
          code,              \* what the words of mem_ decode to
          heap_break, inst_count, program_output,
          access_trace,      \* DCacheStats
          profile,           \* ICacheStats
          block_entering, current_block_id,
          branch_stats       \* BranchStats

cpu == <<x, pc, mepc, mcause, mtval, halt_reason>>
vars == <<cpu, mem, code, heap_break, inst_count, program_output, access_trace,
          profile, block_entering, current_block_id, branch_stats>>

Running == halt_reason = "NONE"
NoBlock == 0          \* kNoBlock; block ids count from 1 here

-----------------------------------------------------------------------------
(* Construction: stack and segments are mapped, the segments are copied.   *)

SegmentPages == {a \in Address : \E b \in DOMAIN Image : PageOf(a) = PageOf(b)}
Segments == [a \in SegmentPages |-> IF a \in DOMAIN Image THEN Image[a] ELSE 0]
WordsOf(m) == {a \in DOMAIN m : a % 4 = 0}

Init ==
    /\ x = [r \in Regs |-> IF r = 2 THEN StackPointer ELSE 0]
    /\ pc = Entry
    /\ mepc = 0 /\ mcause = "NONE" /\ mtval = 0
    /\ halt_reason = "NONE"
    /\ mem = MapRegion(Segments, StackBottom, StackSize)
    /\ \E p \in Programs :
           code = [a \in WordsOf(mem) |-> IF a \in DOMAIN p THEN p[a] ELSE ZeroWord]
    /\ heap_break = AlignUp(EndAddress)
    /\ inst_count = 0
    /\ program_output = <<>>
    /\ access_trace = [loads |-> 0, stores |-> 0, records |-> <<>>]
    /\ profile = [instructions |-> 0, seen_pcs |-> {}, blocks |-> <<>>, entry_sequence |-> <<>>]
    /\ block_entering = TRUE
    /\ current_block_id = NoBlock
    /\ branch_stats = [control_total |-> 0, total |-> 0, taken |-> 0, not_taken |-> 0,
                       trace |-> <<>>]

-----------------------------------------------------------------------------
(* Recording.                                                              *)

AppendPastCap(cap, seq, e) == IF Len(seq) <= cap THEN Append(seq, e) ELSE seq   \* mutant
AppendUpTo(cap, seq, e) == IF Len(seq) < cap THEN Append(seq, e) ELSE seq

BlockAlwaysNew(blocks, entry_pc) == Len(blocks) + 1   \* mutant of BlockAt

\* The id of the block that starts at an address: its own, or a new one.
BlockAt(blocks, entry_pc) ==
    LET known == SelectInSeq(blocks, LAMBDA b : b.entry_pc = entry_pc)
    IN  IF known # 0 THEN known ELSE Len(blocks) + 1

\* record_block_entry: the blocks with one more execution of block id.
Entered(blocks, id, entry_pc) ==
    IF id \in DOMAIN blocks THEN [blocks EXCEPT ![id].executions = @ + 1]
    ELSE Append(blocks, [entry_pc |-> entry_pc, executions |-> 1, instructions |-> 0])

\* Every instruction that was fetched is profiled before it executes.
Profile ==
    LET id == IF block_entering THEN BlockAt(profile.blocks, pc) ELSE current_block_id
        blocks == IF block_entering THEN Entered(profile.blocks, id, pc) ELSE profile.blocks
    IN  /\ current_block_id' = id
        /\ profile' = [instructions |-> profile.instructions + 1,
                       seen_pcs |-> profile.seen_pcs \cup {pc},
                       blocks |-> [blocks EXCEPT ![id].instructions = @ + 1],
                       entry_sequence |-> IF block_entering
                                          THEN AppendUpTo(MaxEntries, profile.entry_sequence, id)
                                          ELSE profile.entry_sequence]

RecordLoad(addr, size) ==
    access_trace' = [access_trace EXCEPT !.loads = @ + 1,
        !.records = AppendUpTo(MaxRecords, @, [kind |-> "Load", addr |-> addr, size |-> size])]
RecordStore(addr, size) ==
    access_trace' = [access_trace EXCEPT !.stores = @ + 1,
        !.records = AppendUpTo(MaxRecords, @, [kind |-> "Store", addr |-> addr, size |-> size])]

\* mutant of TransferRecord: the count before the transfer was counted.
TransferRecordEarly(taken, next_pc) ==
    [inst_count |-> inst_count, pc |-> pc, op |-> code[pc].op, taken |-> taken, target |-> next_pc]

TransferRecord(taken, next_pc) ==
    [inst_count |-> inst_count + 1, pc |-> pc, op |-> code[pc].op, taken |-> taken,
     target |-> next_pc]

\* record_control_transfer, and the conditional counters of execute_branch.
RecordTransfer(taken, next_pc) ==
    LET cond == IF code[pc].op = "branch" THEN 1 ELSE 0
    IN  branch_stats' = [control_total |-> branch_stats.control_total + 1,
                         total |-> branch_stats.total + cond,
                         taken |-> branch_stats.taken + (IF taken THEN cond ELSE 0),
                         not_taken |-> branch_stats.not_taken + (IF taken THEN 0 ELSE cond),
                         trace |-> AppendUpTo(MaxTrace, branch_stats.trace,
                                             TransferRecord(taken, next_pc))]

-----------------------------------------------------------------------------
(* Traps and register writes.                                              *)

\* mutant of Halt: the faulting instruction is stepped over.
HaltPastIt(fault) ==
    /\ mepc' = pc
    /\ mcause' = fault.cause
    /\ mtval' = fault.value
    /\ halt_reason' = "TRAP"
    /\ pc' = Wrap(pc + 4)
    /\ UNCHANGED x

\* raise_trap with a cause that halts: nothing but the trap state changes.
Halt(fault) ==
    /\ mepc' = pc
    /\ mcause' = fault.cause
    /\ mtval' = fault.value
    /\ halt_reason' = "TRAP"
    /\ UNCHANGED <<x, pc>>

NoTrap == UNCHANGED <<mepc, mcause, mtval, halt_reason>>

WriteAnyRegister(r, value) == x' = [x EXCEPT ![r] = value]   \* mutant of WriteRegister
WriteRegister(r, value) == x' = IF r = 0 THEN x ELSE [x EXCEPT ![r] = value]

\* An instruction that continues at next.
Retire(next) == pc' = next /\ NoTrap

Signed(n) == IF 2 * n < WordValues THEN n ELSE n - WordValues

Taken(cond, m, n) == CASE cond = "beq" -> m = n
                       [] cond = "bne" -> m # n
                       [] cond = "blt" -> Signed(m) < Signed(n)
                       [] cond = "bge" -> Signed(m) >= Signed(n)
                       [] cond = "bltu" -> m < n
                       [] cond = "bgeu" -> m >= n

\* Sign extension of a loaded byte or halfword.
Extended(d, value) ==
    LET values == Weight(d.size)
    IN  IF d.signed /\ 2 * value >= values THEN Wrap(value - values) ELSE value

-----------------------------------------------------------------------------
(* The handlers.  d is the instruction at pc.                              *)

\* LUI, AUIPC, OP-IMM and OP.
Compute(d) ==
    /\ d.op = "compute" /\ d.legal
    /\ \E value \in d.results : WriteRegister(d.rd, value)
    /\ Retire(Wrap(pc + 4))
    /\ UNCHANGED <<mem, code, heap_break, program_output, access_trace, branch_stats>>

Branch(d) ==
    LET taken == Taken(d.cond, x[d.rs1], x[d.rs2])
        target == IF taken THEN Wrap(pc + d.imm) ELSE Wrap(pc + 4)
    IN  /\ d.op = "branch" /\ d.legal
        /\ RecordTransfer(taken, target)
        /\ Retire(target)
        /\ UNCHANGED <<x, mem, code, heap_break, program_output, access_trace>>

\* JAL and JALR; the target of JALR is computed before rd is written.
Jump(d) ==
    LET sum == Wrap((IF d.op = "jal" THEN pc ELSE x[d.rs1]) + d.imm)
        target == IF d.op = "jal" THEN sum ELSE sum - (sum % 2)
    IN  /\ d.op \in {"jal", "jalr"} /\ d.legal
        /\ WriteRegister(d.rd, Wrap(pc + 4))
        /\ RecordTransfer(TRUE, target)
        /\ Retire(target)
        /\ UNCHANGED <<mem, code, heap_break, program_output, access_trace>>

Load(d) ==
    LET addr == Wrap(x[d.rs1] + d.imm)
        fault == LoadFault(mem, addr, d.size)
    IN  /\ d.op = "load" /\ d.legal
        /\ IF fault # NoFault THEN Halt(fault) /\ UNCHANGED access_trace
           ELSE /\ RecordLoad(addr, d.size)
                /\ WriteRegister(d.rd, Extended(d, Fetched(mem, addr, d.size)))
                /\ Retire(Wrap(pc + 4))
        /\ UNCHANGED <<mem, code, heap_break, program_output, branch_stats>>

Store(d) ==
    LET addr == Wrap(x[d.rs1] + d.imm)
        fault == StoreFault(mem, addr, d.size)
    IN  /\ d.op = "store" /\ d.legal
        /\ IF fault # NoFault THEN Halt(fault) /\ UNCHANGED <<x, mem, code, access_trace>>
           ELSE /\ mem' = Stored(mem, addr, d.size, x[d.rs2])
                /\ \E now \in Rewrites \cup {code[addr - (addr % 4)]} :
                       code' = [code EXCEPT ![addr - (addr % 4)] = now]
                /\ RecordStore(addr, d.size)
                /\ Retire(Wrap(pc + 4))
                /\ x' = x
        /\ UNCHANGED <<heap_break, program_output, branch_stats>>

\* FENCE and FENCE.I.
Fence(d) ==
    /\ d.op = "fence" /\ d.legal
    /\ Retire(Wrap(pc + 4))
    /\ UNCHANGED <<x, mem, code, heap_break, program_output, access_trace, branch_stats>>

Ebreak(d) ==
    /\ d.op = "ebreak" /\ d.legal
    /\ halt_reason' = "EBREAK"
    /\ pc' = Wrap(pc + 4)
    /\ UNCHANGED <<x, mepc, mcause, mtval, mem, code, heap_break, program_output,
                   access_trace, branch_stats>>

\* An unknown opcode, or a function code its handler rejects.
Illegal(d) ==
    /\ d.op = "unknown" \/ ~d.legal
    /\ \E raw \in {0, Minus1} : Halt(Fault("ILLEGAL_INSTRUCTION", raw))
    /\ UNCHANGED <<mem, code, heap_break, program_output, access_trace, branch_stats>>

-----------------------------------------------------------------------------
(* System calls: the trap state names the ecall and the run goes on.       *)

Returns(value) ==
    /\ WriteRegister(a0, value)
    /\ pc' = Wrap(pc + 4)
    /\ mepc' = pc /\ mcause' = "ECALL" /\ mtval' = 0
    /\ UNCHANGED halt_reason

\* write(fd, buf, count) to stdout or stderr.  A byte that is not mapped halts
\* the run; the bytes before it have been written.
Write ==
    LET byte(i) == Wrap(x[a1] + i)
        missing == {i \in 0 .. x[a2] - 1 : byte(i) \notin DOMAIN mem}
        written == IF missing = {} THEN x[a2]
                   ELSE CHOOSE i \in missing : \A j \in missing : i <= j
    IN  /\ x[a7] = WriteCall
        /\ x[a0] \in {1, 2}
        /\ program_output' = program_output \o [i \in 1 .. written |-> mem[byte(i - 1)]]
        /\ IF missing = {} THEN Returns(x[a2]) ELSE Halt(Fault("LOAD_FAULT", byte(written)))
        /\ UNCHANGED <<mem, code, heap_break>>

Exit ==
    /\ x[a7] = ExitCall
    /\ halt_reason' = "ECALL"
    /\ pc' = Wrap(pc + 4)
    /\ mepc' = pc /\ mcause' = "ECALL" /\ mtval' = 0
    /\ UNCHANGED <<x, mem, code, heap_break, program_output>>

BreakPastStack(requested) == requested < heap_break   \* mutant of BreakRefused
BreakRefused(requested) == requested < heap_break \/ requested > StackBottom

\* brk(addr): the break only grows, and not into the stack.  Words of new pages
\* are zero.
Brk ==
    LET break == IF BreakRefused(x[a0]) THEN heap_break ELSE x[a0]
    IN  /\ x[a7] = BrkCall
        /\ heap_break' = break
        /\ mem' = MapRegion(mem, heap_break, break - heap_break)
        /\ code' = [a \in WordsOf(mem') |-> IF a \in DOMAIN code THEN code[a] ELSE ZeroWord]
        /\ Returns(break)
        /\ UNCHANGED program_output

\* An unknown system call, or a write to another file.
Unsupported ==
    /\ x[a7] \notin {WriteCall, ExitCall, BrkCall} \/ (x[a7] = WriteCall /\ x[a0] \notin {1, 2})
    /\ Returns(Minus1)
    /\ UNCHANGED <<mem, code, heap_break, program_output>>

Ecall(d) ==
    /\ d.op = "ecall" /\ d.legal
    /\ Write \/ Exit \/ Brk \/ Unsupported
    /\ UNCHANGED <<access_trace, branch_stats>>

-----------------------------------------------------------------------------
Execute(d) ==
    \/ Compute(d) \/ Branch(d) \/ Jump(d) \/ Load(d) \/ Store(d)
    \/ Fence(d) \/ Ecall(d) \/ Ebreak(d) \/ Illegal(d)

EndsBlockUnlessIndirect(op) == op \in {"branch", "jal"}   \* mutant of EndsBlock
EndsBlock(op) == op \in {"branch", "jal", "jalr"}

\* The fetch traps: the instruction counts, but nothing is profiled.
FetchTraps ==
    /\ FetchFault(mem, pc) # NoFault
    /\ Halt(FetchFault(mem, pc))
    /\ UNCHANGED <<mem, code, heap_break, program_output, access_trace, profile,
                   block_entering, current_block_id, branch_stats>>

Executes ==
    /\ FetchFault(mem, pc) = NoFault
    /\ Profile
    /\ Execute(code[pc])
    /\ block_entering' = EndsBlock(code[pc].op)

step ==
    /\ Running
    /\ inst_count < MaxInstructions
    /\ inst_count' = inst_count + 1
    /\ FetchTraps \/ Executes

Next == step

Spec == Init /\ [][Next]_vars

-----------------------------------------------------------------------------
(* Properties.                                                             *)

\* TypeOK: the registers, the memory and the recordings have their types; x0
\* is zero; memory is mapped by whole pages; no recording outgrows its cap.
TypeOK ==
    /\ x \in [Regs -> Address] /\ x[0] = 0
    /\ {pc, mepc, mtval, heap_break} \subseteq Address
    /\ halt_reason \in {"NONE", "ECALL", "EBREAK", "TRAP"}
    /\ \A a \in DOMAIN mem : mem[a] \in Byte
    /\ DOMAIN mem = {a \in Address : \E b \in DOMAIN mem : PageOf(a) = PageOf(b)}
    /\ DOMAIN code = WordsOf(mem)
    /\ \A i \in DOMAIN program_output : program_output[i] \in Byte
    /\ current_block_id \in 0 .. Len(profile.blocks)
    /\ \A i \in DOMAIN profile.entry_sequence :
           profile.entry_sequence[i] \in DOMAIN profile.blocks
    /\ Len(access_trace.records) <= MaxRecords
    /\ Len(branch_stats.trace) <= MaxTrace
    /\ Len(profile.entry_sequence) <= MaxEntries

\* FaultsArePrecise: a step that ends in a trap (a fetch, load or store that
\* faults, an illegal instruction, a write whose buffer runs out of mapped
\* memory) leaves registers, memory, break and traces as the instruction found
\* them and names the instruction in mepc; output already written stays written.
TrapIsPrecise ==
    Running /\ halt_reason' = "TRAP" =>
        /\ mepc' = pc /\ pc' = pc
        /\ UNCHANGED <<x, mem, heap_break, access_trace, branch_stats>>
        /\ IsPrefix(program_output, program_output')
FaultsArePrecise == [][TrapIsPrecise]_vars

\* HeapMapped: after any sequence of brk calls every byte between the initial
\* break and the current one is mapped, the break is between the initial one
\* and the stack, and the stack stays mapped.
HeapMapped ==
    /\ AlignUp(EndAddress) .. heap_break - 1 \subseteq DOMAIN mem
    /\ heap_break >= AlignUp(EndAddress)
    /\ heap_break > AlignUp(EndAddress) => heap_break <= StackBottom
    /\ StackBottom .. StackPointer - 1 \subseteq DOMAIN mem

\* MemoryChangesAreTraced: mapped memory is never unmapped, and a byte of it
\* changes only by a store that the data access trace records, so that the data
\* cache models see every write (brk that grows into a mapped page included).
ChangeIsTraced ==
    \A a \in DOMAIN mem :
        /\ a \in DOMAIN mem'
        /\ mem'[a] # mem[a] =>
               /\ access_trace'.stores = access_trace.stores + 1
               /\ Len(access_trace.records) < MaxRecords =>
                      LET r == Last(access_trace'.records)
                      IN  r.kind = "Store" /\ a \in Bytes(r.addr, r.size)
MemoryChangesAreTraced == [][ChangeIsTraced]_vars

\* AccessTraceLegal: the trace holds only accesses that were carried out:
\* aligned, to mapped memory, and as many as were counted, up to the cap.
AccessTraceLegal ==
    /\ Len(access_trace.records) = Min({access_trace.loads + access_trace.stores, MaxRecords})
    /\ \A i \in DOMAIN access_trace.records :
           LET r == access_trace.records[i]
           IN  r.addr % r.size = 0 /\ Bytes(r.addr, r.size) \subseteq DOMAIN mem

\* BlocksPartition: the profile's blocks partition the run: every instruction
\* that was fetched belongs to one block, blocks have distinct entries, and
\* control entered a block once at the start and once after every transfer.
SumOver(blocks, field) ==
    LET sum[i \in 0 .. Len(blocks)] == IF i = 0 THEN 0 ELSE sum[i - 1] + blocks[i][field]
    IN  sum[Len(blocks)]
FetchTrapped == mcause \in {"INSTRUCTION_ADDRESS_MISALIGNED", "INSTRUCTION_ACCESS_FAULT"}
BlocksPartition ==
    /\ SumOver(profile.blocks, "instructions") = profile.instructions
    /\ inst_count = profile.instructions + (IF FetchTrapped THEN 1 ELSE 0)
    /\ Running => SumOver(profile.blocks, "executions")
                      = branch_stats.control_total + (IF block_entering THEN 0 ELSE 1)
    /\ IsInjective([i \in DOMAIN profile.blocks |-> profile.blocks[i].entry_pc])
    /\ \A i \in DOMAIN profile.blocks :
           profile.blocks[i].executions \in 1 .. profile.blocks[i].instructions

\* TransfersTellThePath: the two recordings tell one path.  Between transfers
\* control runs straight on, so the recorded transfers and their instruction
\* counts give the address of every transfer, and of the instruction to come
\* while nothing has been dropped; the block entered after a transfer is the one
\* at its target, and the first one is at the entry point.
PathFollowsTransfers ==
    LET trace == branch_stats.trace
        from(k) == IF k = 0 THEN Entry ELSE trace[k].target
        count(k) == IF k = 0 THEN 0 ELSE trace[k].inst_count
    IN  /\ \A k \in DOMAIN trace :
               trace[k].pc = Wrap(from(k - 1) + 4 * (trace[k].inst_count - count(k - 1) - 1))
        /\ Running /\ Len(trace) = branch_stats.control_total =>
               pc = Wrap(from(Len(trace)) + 4 * (inst_count - count(Len(trace))))
EntriesFollowTransfers ==
    \A k \in DOMAIN profile.entry_sequence :
        LET block == profile.blocks[profile.entry_sequence[k]]
        IN  /\ k = 1 => block.entry_pc = Entry
            /\ k - 1 \in DOMAIN branch_stats.trace =>
                   block.entry_pc = branch_stats.trace[k - 1].target
TransfersTellThePath == PathFollowsTransfers /\ EntriesFollowTransfers

\* The readers of the profile.  The instruction cache fetches, for every entry
\* of a block, as many instructions as its executions have on average; the
\* table of blocks gives every block the addresses up to the next one.
PerExecution(block) == block.instructions \div block.executions
BlockEntries == {profile.blocks[i].entry_pc : i \in DOMAIN profile.blocks}
NextEntry(entry) ==
    LET later == {e \in BlockEntries : e > entry}
    IN  IF later = {} THEN WordValues - 1 ELSE Min(later)

\* mutant of StaticSize: a block reaches into the one behind it.
StaticSizeWide(entry) == Cardinality(profile.seen_pcs \cap (entry .. NextEntry(entry)))
StaticSize(entry) == Cardinality(profile.seen_pcs \cap (entry .. NextEntry(entry) - 1))

\* A row per block; the order of the rows is layout.
build_block_table ==
    [i \in DOMAIN profile.blocks |->
        [entry_pc |-> profile.blocks[i].entry_pc,
         static_size |-> StaticSize(profile.blocks[i].entry_pc)]]

\* FetchesWereExecuted: although an average is rounded, mixes executions cut
\* short by a trap or by rewritten code, and counts the execution under way, the
\* instruction cache fetches only instructions that were executed
\* (icache.cpp:135-138).
FetchesWereExecuted ==
    \A i \in DOMAIN profile.blocks :
        LET block == profile.blocks[i]
        IN  \A k \in 0 .. PerExecution(block) - 1 :
                Wrap(block.entry_pc + 4 * k) \in profile.seen_pcs

\* TableCoversRun: the table counts every executed instruction in one block, the
\* last that starts at or before it (disasm.cpp:242-262).  Only a run that goes on
\* past the end of the address space, from the last word to the first, may execute
\* instructions before every block.
RunsPastTheEnd == 0 \in profile.seen_pcs \ BlockEntries
TableCoversRun ==
    RunsPastTheEnd \/ SumOver(build_block_table, "static_size") = Cardinality(profile.seen_pcs)
=============================================================================
