------------------------- MODULE InterpreterProofs -------------------------
(***************************************************************************)
(* Theorems about Interpreter, for every program, image and memory layout. *)
(***************************************************************************)
EXTENDS Interpreter, MemoryProofs

-----------------------------------------------------------------------------
(* The types of the state, part by part.                                   *)

Registers == x \in [Regs -> Address] /\ x[0] = 0

TrapState ==
    /\ pc \in Address /\ mepc \in Address /\ mtval \in Address
    /\ halt_reason \in {"NONE", "ECALL", "EBREAK", "TRAP"}

MappedMemory ==
    /\ WholePages(DOMAIN mem)
    /\ \A a \in DOMAIN mem : mem[a] \in Byte
    /\ heap_break \in Address
    /\ code \in [WordsOf(mem) -> Instruction]

Access == [kind : {"Load", "Store"}, addr : Address, size : AccessSize]
AccessTrace ==
    /\ access_trace \in [loads : Nat, stores : Nat, records : Seq(Access)]
    /\ Len(access_trace.records) <= MaxRecords

Block == [entry_pc : Address, executions : Nat, instructions : Nat]
BlockProfile ==
    /\ profile \in [instructions : Nat, seen_pcs : SUBSET Address,
                    blocks : Seq(Block), entry_sequence : Seq(Nat)]
    /\ \A i \in DOMAIN profile.entry_sequence :
           profile.entry_sequence[i] \in DOMAIN profile.blocks
    /\ Len(profile.entry_sequence) <= MaxEntries
    /\ block_entering \in BOOLEAN
    /\ current_block_id \in 0 .. Len(profile.blocks)
    /\ ~block_entering => current_block_id \in DOMAIN profile.blocks

Transfer == [inst_count : Nat, pc : Address, op : Opcode, taken : BOOLEAN, target : Address]
TransferTrace ==
    /\ branch_stats \in [control_total : Nat, total : Nat, taken : Nat, not_taken : Nat,
                         trace : Seq(Transfer)]
    /\ Len(branch_stats.trace) <= MaxTrace
    /\ inst_count \in Nat

Output == program_output \in Seq(Byte)

TypeInv ==
    /\ Registers /\ TrapState /\ MappedMemory /\ Output
    /\ AccessTrace /\ BlockProfile /\ TransferTrace

-----------------------------------------------------------------------------
(* Effects of the helpers.                                                 *)

LEMMA AppendUpToType ==
  ASSUME NEW S, NEW seq \in Seq(S), NEW e \in S, NEW cap \in Nat, Len(seq) <= cap
  PROVE  /\ AppendUpTo(cap, seq, e) \in Seq(S)
         /\ Len(AppendUpTo(cap, seq, e)) <= cap
         /\ \A i \in DOMAIN seq : /\ i \in DOMAIN AppendUpTo(cap, seq, e)
                                  /\ AppendUpTo(cap, seq, e)[i] = seq[i]
         /\ \A i \in DOMAIN AppendUpTo(cap, seq, e) :
                i \in DOMAIN seq \/ (i = Len(seq) + 1 /\ AppendUpTo(cap, seq, e)[i] = e)
         /\ Len(AppendUpTo(cap, seq, e)) = IF Len(seq) < cap THEN Len(seq) + 1 ELSE Len(seq)
BY DEF AppendUpTo

LEMMA ReplaceEffect ==
  ASSUME NEW S, NEW seq \in Seq(S), NEW i \in DOMAIN seq, NEW e \in S
  PROVE  /\ [seq EXCEPT ![i] = e] \in Seq(S)
         /\ Len([seq EXCEPT ![i] = e]) = Len(seq)
         /\ DOMAIN [seq EXCEPT ![i] = e] = DOMAIN seq
         /\ [seq EXCEPT ![i] = e][i] = e
         /\ \A j \in DOMAIN seq : j # i => [seq EXCEPT ![i] = e][j] = seq[j]
OBVIOUS

LEMMA AppendEffect ==
  ASSUME NEW S, NEW seq \in Seq(S), NEW e \in S
  PROVE  /\ Append(seq, e) \in Seq(S)
         /\ Len(Append(seq, e)) = Len(seq) + 1
         /\ Append(seq, e)[Len(seq) + 1] = e
         /\ Len(seq) + 1 \in DOMAIN Append(seq, e)
         /\ \A j \in DOMAIN seq : j \in DOMAIN Append(seq, e) /\ Append(seq, e)[j] = seq[j]
OBVIOUS

LEMMA WriteRegisterType ==
  ASSUME Registers, NEW r \in Regs, NEW value \in Address, WriteRegister(r, value)
  PROVE  Registers'
<1>1. CASE r = 0
  BY <1>1 DEF WriteRegister, Registers
<1>2. CASE r # 0
  <2>1. x' = [x EXCEPT ![r] = value]
    BY <1>2 DEF WriteRegister
  <2>2. x' \in [Regs -> Address] /\ x'[0] = x[0]
    BY <1>2, <2>1, InterpreterAssumption DEF Registers
  <2> QED BY <2>2 DEF Registers
<1> QED BY <1>1, <1>2

LEMMA ConstantsType ==
  /\ 0 \in Regs /\ 2 \in Regs /\ a0 \in Regs /\ a1 \in Regs /\ a2 \in Regs /\ a7 \in Regs
  /\ 0 \in Address /\ Minus1 \in Address /\ 0 \in Byte
  /\ StackPointer \in Address /\ StackBottom \in Address /\ StackPointer = StackBottom + StackSize
  /\ ZeroWord \in Instruction
<1>1. WordValues \in Nat \ {0}
  BY WordValuesType
<1>2. /\ 0 \in Address /\ Minus1 \in Address /\ 0 \in Byte
      /\ StackPointer \in Address /\ StackBottom \in Address /\ StackPointer = StackBottom + StackSize
  BY <1>1, InterpreterAssumption, MemoryAssumption DEF Address, Byte, Minus1, StackBottom
<1>3. 0 \in Regs /\ 2 \in Regs /\ a0 \in Regs /\ a1 \in Regs /\ a2 \in Regs /\ a7 \in Regs
  BY InterpreterAssumption
<1>4. ZeroWord \in Instruction
  BY <1>3 DEF ZeroWord, Instruction, Opcode, Condition, AccessSize
<1> QED BY <1>2, <1>3, <1>4

LEMMA AlignUpType == AlignUp(EndAddress) \in Address
<1>1. EndAddress \in Nat /\ HeapAlignment \in Nat \ {0}
  BY InterpreterAssumption, WordValuesType DEF Address
<1>2. (EndAddress + HeapAlignment - 1) \div HeapAlignment \in Int
  BY <1>1
<1>3. ((EndAddress + HeapAlignment - 1) \div HeapAlignment) * HeapAlignment \in Int
  BY <1>1, <1>2
<1> QED BY <1>3, WrapType DEF AlignUp

LEMMA NextPc == pc \in Address => Wrap(pc + 4) \in Address
BY WrapType, WordValuesType DEF Address

LEMMA HaltType ==
  ASSUME Registers, TrapState, NEW fault, fault.value \in Address, Halt(fault)
  PROVE  Registers' /\ TrapState'
BY DEF Halt, Registers, TrapState

LEMMA RetireType ==
  ASSUME TrapState, NEW next \in Address, Retire(next)
  PROVE  TrapState'
BY DEF Retire, NoTrap, TrapState

LEMMA RecordTransferType ==
  ASSUME TransferTrace, pc \in Address, code[pc].op \in Opcode, inst_count' = inst_count + 1,
         NEW taken \in BOOLEAN, NEW next \in Address, RecordTransfer(taken, next)
  PROVE  TransferTrace'
<1> DEFINE rec == TransferRecord(taken, next)
           cond == IF code[pc].op = "branch" THEN 1 ELSE 0
<1>1. rec \in Transfer
  BY DEF TransferRecord, Transfer, TransferTrace
<1>2. branch_stats.trace \in Seq(Transfer) /\ Len(branch_stats.trace) <= MaxTrace
  BY DEF TransferTrace
<1>3. MaxTrace \in Nat
  BY InterpreterAssumption
<1>4. branch_stats' = [control_total |-> branch_stats.control_total + 1,
                       total |-> branch_stats.total + cond,
                       taken |-> branch_stats.taken + (IF taken THEN cond ELSE 0),
                       not_taken |-> branch_stats.not_taken + (IF taken THEN 0 ELSE cond),
                       trace |-> AppendUpTo(MaxTrace, branch_stats.trace, rec)]
  BY DEF RecordTransfer
<1> HIDE DEF rec
<1>5. /\ AppendUpTo(MaxTrace, branch_stats.trace, rec) \in Seq(Transfer)
      /\ Len(AppendUpTo(MaxTrace, branch_stats.trace, rec)) <= MaxTrace
  BY <1>1, <1>2, <1>3, AppendUpToType
<1>6. cond \in Nat
  OBVIOUS
<1> HIDE DEF cond
<1> QED BY <1>4, <1>5, <1>6 DEF TransferTrace

LEMMA RecordAccessEffect ==
  ASSUME AccessTrace, NEW addr \in Address, NEW size \in AccessSize
  PROVE  /\ RecordLoad(addr, size) =>
              access_trace' = [loads |-> access_trace.loads + 1, stores |-> access_trace.stores,
                               records |-> AppendUpTo(MaxRecords, access_trace.records,
                                   [kind |-> "Load", addr |-> addr, size |-> size])]
         /\ RecordStore(addr, size) =>
              access_trace' = [loads |-> access_trace.loads, stores |-> access_trace.stores + 1,
                               records |-> AppendUpTo(MaxRecords, access_trace.records,
                                   [kind |-> "Store", addr |-> addr, size |-> size])]
<1> DEFINE Loaded == AppendUpTo(MaxRecords, access_trace.records,
                                [kind |-> "Load", addr |-> addr, size |-> size])
           Kept == AppendUpTo(MaxRecords, access_trace.records,
                              [kind |-> "Store", addr |-> addr, size |-> size])
<1>1. access_trace \in [loads : Nat, stores : Nat, records : Seq(Access)]
  BY DEF AccessTrace
<1>2. RecordLoad(addr, size) => access_trace' = [access_trace EXCEPT !.loads = @ + 1, !.records = Loaded]
  BY DEF RecordLoad
<1>3. RecordStore(addr, size) => access_trace' = [access_trace EXCEPT !.stores = @ + 1, !.records = Kept]
  BY DEF RecordStore
<1> HIDE DEF Loaded, Kept
<1>4. RecordLoad(addr, size) =>
         access_trace' = [loads |-> access_trace.loads + 1, stores |-> access_trace.stores,
                          records |-> Loaded]
  BY <1>1, <1>2
<1>5. RecordStore(addr, size) =>
         access_trace' = [loads |-> access_trace.loads, stores |-> access_trace.stores + 1,
                          records |-> Kept]
  BY <1>1, <1>3
<1> QED BY <1>4, <1>5 DEF Loaded, Kept

LEMMA RecordAccessType ==
  ASSUME AccessTrace, NEW addr \in Address, NEW size \in AccessSize,
         RecordLoad(addr, size) \/ RecordStore(addr, size)
  PROVE  AccessTrace'
<1> DEFINE Records(kind) == AppendUpTo(MaxRecords, access_trace.records,
                                       [kind |-> kind, addr |-> addr, size |-> size])
<1>1. /\ access_trace.records \in Seq(Access) /\ Len(access_trace.records) <= MaxRecords
      /\ access_trace.loads \in Nat /\ access_trace.stores \in Nat
  BY DEF AccessTrace
<1>2. MaxRecords \in Nat
  BY InterpreterAssumption
<1>3. \A kind \in {"Load", "Store"} :
          Records(kind) \in Seq(Access) /\ Len(Records(kind)) <= MaxRecords
  <2> SUFFICES ASSUME NEW kind \in {"Load", "Store"}
               PROVE  Records(kind) \in Seq(Access) /\ Len(Records(kind)) <= MaxRecords
    OBVIOUS
  <2> DEFINE rec == [kind |-> kind, addr |-> addr, size |-> size]
  <2>1. rec \in Access
    BY DEF Access
  <2> HIDE DEF rec
  <2>2. AppendUpTo(MaxRecords, access_trace.records, rec) \in Seq(Access)
    BY <1>1, <1>2, <2>1, AppendUpToType
  <2>3. Len(AppendUpTo(MaxRecords, access_trace.records, rec)) <= MaxRecords
    BY <1>1, <1>2, <2>1, AppendUpToType
  <2> QED BY <2>2, <2>3 DEF rec
<1>4. \/ access_trace' = [loads |-> access_trace.loads + 1, stores |-> access_trace.stores,
                          records |-> Records("Load")]
      \/ access_trace' = [loads |-> access_trace.loads, stores |-> access_trace.stores + 1,
                          records |-> Records("Store")]
  BY RecordAccessEffect
<1> HIDE DEF Records
<1> QED BY <1>1, <1>3, <1>4 DEF AccessTrace

\* A block keeps its id, and an id names one block.
LEMMA BlockAtEffect ==
  ASSUME NEW blocks \in Seq(Block), NEW entry_pc
  PROVE  LET id == BlockAt(blocks, entry_pc)
         IN  \/ id \in DOMAIN blocks /\ blocks[id].entry_pc = entry_pc
             \/ id = Len(blocks) + 1 /\ \A i \in DOMAIN blocks : blocks[i].entry_pc # entry_pc
<1> DEFINE I == {i \in 1 .. Len(blocks) : blocks[i].entry_pc = entry_pc}
           known == IF I # {} THEN Min(I) ELSE 0
<1>1. BlockAt(blocks, entry_pc) = IF known # 0 THEN known ELSE Len(blocks) + 1
  BY DEF BlockAt, SelectInSeq
<1>2. DOMAIN blocks = 1 .. Len(blocks)
  OBVIOUS
<1>3. CASE I = {}
  BY <1>1, <1>2, <1>3
<1>4. CASE I # {}
  <2>1. I \in SUBSET Nat
    OBVIOUS
  <2>2. Min(I) \in I
    <3> HIDE DEF I
    <3>1. \E m \in I : \A n \in I : m <= n
      BY <1>4, <2>1, LeastElement
    <3> QED BY <3>1 DEF Min
  <2> QED BY <1>1, <1>2, <1>4, <2>2
<1> QED BY <1>3, <1>4

\* record_block_entry and record_instruction: the block that is entered, or is
\* executing, counts; no other block changes.
Counted(b, entered) ==
    [entry_pc |-> b.entry_pc, executions |-> b.executions + entered,
     instructions |-> b.instructions + 1]

LEMMA ProfileEffect ==
  ASSUME BlockProfile, pc \in Address, Profile
  PROVE  LET b == profile.blocks
             c == profile'.blocks
             id == current_block_id'
         IN  /\ c \in Seq(Block)
             /\ id \in DOMAIN c
             /\ \A i \in DOMAIN b : i \in DOMAIN c /\ (i # id => c[i] = b[i])
             /\ \/ /\ id \in DOMAIN b /\ Len(c) = Len(b)
                   /\ c[id] = Counted(b[id], IF block_entering THEN 1 ELSE 0)
                   /\ block_entering => b[id].entry_pc = pc
                   /\ ~block_entering => id = current_block_id
                \/ /\ block_entering /\ id = Len(b) + 1 /\ Len(c) = Len(b) + 1
                   /\ c[id] = [entry_pc |-> pc, executions |-> 1, instructions |-> 1]
                   /\ \A i \in DOMAIN b : b[i].entry_pc # pc
             /\ profile'.instructions = profile.instructions + 1
             /\ profile'.seen_pcs = profile.seen_pcs \cup {pc}
             /\ profile'.entry_sequence =
                    IF block_entering THEN AppendUpTo(MaxEntries, profile.entry_sequence, id)
                    ELSE profile.entry_sequence
             /\ profile' = [instructions |-> profile'.instructions, seen_pcs |-> profile'.seen_pcs,
                            blocks |-> c, entry_sequence |-> profile'.entry_sequence]
<1> DEFINE b == profile.blocks
           id == IF block_entering THEN BlockAt(b, pc) ELSE current_block_id
           e == IF block_entering THEN Entered(b, id, pc) ELSE b
           c == [e EXCEPT ![id].instructions = @ + 1]
<1>1. b \in Seq(Block) /\ block_entering \in BOOLEAN
  BY DEF BlockProfile
<1>2. /\ current_block_id' = id
      /\ profile' = [instructions |-> profile.instructions + 1,
                     seen_pcs |-> profile.seen_pcs \cup {pc},
                     blocks |-> c,
                     entry_sequence |-> IF block_entering
                                        THEN AppendUpTo(MaxEntries, profile.entry_sequence, id)
                                        ELSE profile.entry_sequence]
  BY DEF Profile
<1>3. \/ /\ id \in DOMAIN b
         /\ block_entering => b[id].entry_pc = pc
         /\ ~block_entering => id = current_block_id
      \/ /\ block_entering /\ id = Len(b) + 1
         /\ \A i \in DOMAIN b : b[i].entry_pc # pc
  <2>1. CASE block_entering
    <3>1. id = BlockAt(b, pc)
      BY <2>1
    <3> HIDE DEF b, id
    <3> QED BY <1>1, <2>1, <3>1, BlockAtEffect
  <2>2. CASE ~block_entering
    BY <2>2 DEF BlockProfile
  <2> QED BY <2>1, <2>2
<1> HIDE DEF id
<1>4. CASE /\ id \in DOMAIN b
           /\ block_entering => b[id].entry_pc = pc
           /\ ~block_entering => id = current_block_id
  <2> DEFINE one == IF block_entering THEN 1 ELSE 0
  <2>1. b[id] \in Block
    BY <1>1, <1>4
  <2>2. /\ DOMAIN e = DOMAIN b /\ Len(e) = Len(b) /\ e \in Seq(Block)
        /\ \A i \in DOMAIN b : i # id => e[i] = b[i]
        /\ e[id] = [entry_pc |-> b[id].entry_pc, executions |-> b[id].executions + one,
                    instructions |-> b[id].instructions]
    <3>1. CASE block_entering
      <4>1. e = [b EXCEPT ![id].executions = @ + 1]
        BY <1>4, <3>1 DEF Entered
      <4> HIDE DEF b, e
      <4>2. DOMAIN e = DOMAIN b /\ \A i \in DOMAIN b : i # id => e[i] = b[i]
        BY <4>1
      <4>3. e[id] = [b[id] EXCEPT !.executions = @ + 1]
        BY <1>4, <4>1
      <4> DEFINE was == b[id]
      <4>4. was \in Block
        BY <2>1
      <4> HIDE DEF was
      <4>5. [was EXCEPT !.executions = @ + 1] =
              [entry_pc |-> was.entry_pc, executions |-> was.executions + 1,
               instructions |-> was.instructions]
        BY <4>4 DEF Block
      <4>6. e[id] = [entry_pc |-> b[id].entry_pc, executions |-> b[id].executions + 1,
                     instructions |-> b[id].instructions]
        BY <4>3, <4>5 DEF was
      <4>7. e[id] \in Block
        BY <4>6, <2>1 DEF Block
      <4> DEFINE v == e[id]
      <4>8. e = [b EXCEPT ![id] = v]
        BY <1>4, <4>1, <4>2
      <4> HIDE DEF v
      <4>9. v \in Block
        BY <4>7 DEF v
      <4>10. e \in Seq(Block) /\ Len(e) = Len(b)
        BY <1>1, <1>4, <4>8, <4>9, ReplaceEffect
      <4> QED BY <3>1, <4>2, <4>6, <4>10
    <3>2. CASE ~block_entering
      <4>1. e = b /\ one = 0
        BY <3>2
      <4> HIDE DEF b, e
      <4>2. b[id] = [entry_pc |-> b[id].entry_pc, executions |-> b[id].executions + 0,
                     instructions |-> b[id].instructions]
        BY <2>1 DEF Block
      <4> QED BY <1>1, <4>1, <4>2
    <3> QED BY <3>1, <3>2
  <2> DEFINE now == e[id]
  <2>3. now \in Block
    BY <1>4, <2>2
  <2> HIDE DEF b, e, one
  <2>4. c = [e EXCEPT ![id] = [now EXCEPT !.instructions = @ + 1]]
    BY <1>4, <2>2
  <2>5. [now EXCEPT !.instructions = @ + 1] = [entry_pc |-> now.entry_pc,
            executions |-> now.executions, instructions |-> now.instructions + 1]
    <3> HIDE DEF now
    <3> QED BY <2>3 DEF Block
  <2>6. c[id] = Counted(b[id], one)
    <3> HIDE DEF c
    <3> QED BY <1>4, <2>2, <2>4, <2>5 DEF Counted
  <2>7. Counted(b[id], one) \in Block
    BY <2>1 DEF Counted, Block, one
  <2> HIDE DEF c, now
  <2>8. DOMAIN c = DOMAIN b /\ Len(c) = Len(b) /\ c \in Seq(Block)
    BY <1>4, <2>2, <2>4, <2>6, <2>7
  <2>9. \A i \in DOMAIN b : i # id => c[i] = b[i]
    BY <2>2, <2>4
  <2> QED BY <1>2, <1>4, <2>6, <2>8, <2>9 DEF b, one
<1>5. CASE /\ block_entering /\ id = Len(b) + 1
           /\ \A i \in DOMAIN b : b[i].entry_pc # pc
  <2> DEFINE new == [entry_pc |-> pc, executions |-> 1, instructions |-> 0]
  <2>1. id \notin DOMAIN b
    BY <1>1, <1>5
  <2>2. e = Append(b, new)
    BY <1>5, <2>1 DEF Entered
  <2>3. new \in Block /\ new.instructions + 1 = 1
    BY DEF Block
  <2> HIDE DEF b, e
  <2>4. c = [e EXCEPT ![id] = [new EXCEPT !.instructions = @ + 1]]
    BY <1>1, <1>5, <2>2
  <2>5. [new EXCEPT !.instructions = @ + 1] = [entry_pc |-> pc, executions |-> 1, instructions |-> 1]
    OBVIOUS
  <2>6. [entry_pc |-> pc, executions |-> 1, instructions |-> 1] \in Block
    BY DEF Block
  <2> DEFINE first == [entry_pc |-> pc, executions |-> 1, instructions |-> 1]
  <2> HIDE DEF c, new, first
  <2>8. /\ e \in Seq(Block) /\ Len(e) = Len(b) + 1 /\ e[id] = new /\ id \in DOMAIN e
        /\ \A i \in DOMAIN b : i \in DOMAIN e /\ e[i] = b[i]
    BY <1>1, <1>5, <2>2, <2>3, AppendEffect
  <2>9. c = [e EXCEPT ![id] = first] /\ first \in Block
    BY <2>4, <2>5, <2>6 DEF first
  <2>10. /\ c \in Seq(Block) /\ Len(c) = Len(e) /\ DOMAIN c = DOMAIN e /\ c[id] = first
         /\ \A i \in DOMAIN e : i # id => c[i] = e[i]
    BY <2>8, <2>9, ReplaceEffect
  <2>7. /\ c \in Seq(Block) /\ id \in DOMAIN c /\ Len(c) = Len(b) + 1
        /\ c[id] = [entry_pc |-> pc, executions |-> 1, instructions |-> 1]
        /\ \A i \in DOMAIN b : i \in DOMAIN c /\ c[i] = b[i]
    BY <1>5, <2>1, <2>8, <2>10 DEF first
  <2> QED BY <1>2, <1>5, <2>7 DEF b
<1> QED BY <1>3, <1>4, <1>5

LEMMA ProfileType ==
  ASSUME BlockProfile, pc \in Address, Profile, block_entering' \in BOOLEAN
  PROVE  BlockProfile'
<1> DEFINE id == current_block_id'
           es == profile.entry_sequence
           fs == profile'.entry_sequence
<1>1. /\ profile'.blocks \in Seq(Block) /\ id \in DOMAIN profile'.blocks
      /\ \A i \in DOMAIN profile.blocks : i \in DOMAIN profile'.blocks
      /\ profile'.instructions = profile.instructions + 1
      /\ profile'.seen_pcs = profile.seen_pcs \cup {pc}
      /\ fs = IF block_entering THEN AppendUpTo(MaxEntries, es, id) ELSE es
      /\ profile' = [instructions |-> profile'.instructions, seen_pcs |-> profile'.seen_pcs,
                     blocks |-> profile'.blocks, entry_sequence |-> fs]
  BY ProfileEffect
<1>2. /\ es \in Seq(Nat) /\ Len(es) <= MaxEntries /\ MaxEntries \in Nat
      /\ profile.instructions \in Nat /\ profile.seen_pcs \in SUBSET Address
      /\ \A i \in DOMAIN es : es[i] \in DOMAIN profile.blocks
  BY InterpreterAssumption DEF BlockProfile
<1>3. id \in Nat /\ id \in 0 .. Len(profile'.blocks)
  BY <1>1
<1> HIDE DEF id, es, fs
<1>4. fs \in Seq(Nat) /\ Len(fs) <= MaxEntries
  <2>1. /\ AppendUpTo(MaxEntries, es, id) \in Seq(Nat)
        /\ Len(AppendUpTo(MaxEntries, es, id)) <= MaxEntries
    BY <1>2, <1>3, AppendUpToType
  <2> QED BY <1>1, <1>2, <2>1
<1>5. \A i \in DOMAIN fs : fs[i] \in DOMAIN profile'.blocks
  <2> DEFINE gs == AppendUpTo(MaxEntries, es, id)
  <2>1. /\ \A i \in DOMAIN es : i \in DOMAIN gs /\ gs[i] = es[i]
        /\ \A i \in DOMAIN gs : i \in DOMAIN es \/ (i = Len(es) + 1 /\ gs[i] = id)
    BY <1>2, <1>3 DEF AppendUpTo
  <2>2. \A i \in DOMAIN gs : i \in DOMAIN es \/ gs[i] = id
    BY <2>1
  <2>3. fs = gs \/ fs = es
    BY <1>1
  <2> HIDE DEF gs
  <2>4. \A i \in DOMAIN es : es[i] \in DOMAIN profile'.blocks
    BY <1>1, <1>2
  <2>5. \A i \in DOMAIN gs : gs[i] \in DOMAIN profile'.blocks
    BY <1>1, <2>1, <2>2, <2>4 DEF id
  <2> QED BY <2>3, <2>4, <2>5
<1> DEFINE n == profile'.instructions
           seen == profile'.seen_pcs
           blocks == profile'.blocks
<1>6. n \in Nat /\ seen \in SUBSET Address /\ blocks \in Seq(Block)
  BY <1>1, <1>2
<1>7. profile' = [instructions |-> n, seen_pcs |-> seen, blocks |-> blocks, entry_sequence |-> fs]
  BY <1>1
<1>8. profile' \in [instructions : Nat, seen_pcs : SUBSET Address, blocks : Seq(Block),
                    entry_sequence : Seq(Nat)]
  <2> HIDE DEF n, seen, blocks
  <2> QED BY <1>4, <1>6, <1>7
<1> QED BY <1>1, <1>3, <1>4, <1>5, <1>8 DEF BlockProfile, id, fs

-----------------------------------------------------------------------------
(* The handlers keep the types.                                            *)

Machine ==
    /\ Registers /\ TrapState /\ MappedMemory /\ Output
    /\ AccessTrace /\ TransferTrace

\* What every handler finds: an instruction, and the count that includes it.
Fetch(d) ==
    /\ Machine
    /\ d \in Instruction /\ d = code[pc]
    /\ inst_count' = inst_count + 1

LEMMA OperandTypes ==
  ASSUME NEW d, Fetch(d)
  PROVE  /\ d.rd \in Regs /\ x[d.rs1] \in Address /\ x[d.rs2] \in Address
         /\ d.imm \in Int /\ d.size \in AccessSize /\ d.op \in Opcode
         /\ pc \in Address /\ Wrap(pc + 4) \in Address
         /\ \A n \in Address : n \in Nat
BY NextPc, WordValuesType DEF Fetch, Machine, Registers, TrapState, Instruction, Address

LEMMA CountType ==
  ASSUME NEW d, Fetch(d), UNCHANGED branch_stats
  PROVE  TransferTrace'
BY DEF Fetch, Machine, TransferTrace

LEMMA QuietType ==
  ASSUME NEW d, Fetch(d)
  PROVE  /\ UNCHANGED x => Registers'
         /\ UNCHANGED <<mem, code, heap_break>> => MappedMemory'
         /\ UNCHANGED program_output => Output'
         /\ UNCHANGED access_trace => AccessTrace'
         /\ UNCHANGED branch_stats => TransferTrace'
<1>1. UNCHANGED x => Registers'
  BY DEF Fetch, Machine, Registers
<1>2. UNCHANGED <<mem, code, heap_break>> => MappedMemory'
  BY DEF Fetch, Machine, MappedMemory, WordsOf
<1>3. UNCHANGED program_output => Output'
  BY DEF Fetch, Machine, Output
<1>4. UNCHANGED access_trace => AccessTrace'
  BY DEF Fetch, Machine, AccessTrace
<1>5. UNCHANGED branch_stats => TransferTrace'
  BY CountType
<1> QED BY <1>1, <1>2, <1>3, <1>4, <1>5

LEMMA ComputeType ==
  ASSUME NEW d, Fetch(d), Compute(d)
  PROVE  Machine'
<1>1. PICK value \in d.results : WriteRegister(d.rd, value)
  BY DEF Compute
<1>2. value \in Address
  BY <1>1 DEF Fetch, Instruction
<1>3. Registers'
  BY <1>1, <1>2, OperandTypes, WriteRegisterType DEF Fetch, Machine
<1>4. TrapState'
  BY OperandTypes, RetireType DEF Compute, Fetch, Machine
<1> QED BY <1>3, <1>4, QuietType DEF Compute, Machine

LEMMA TakenType ==
  ASSUME NEW cond \in Condition, NEW m \in Int, NEW n \in Int
  PROVE  Taken(cond, m, n) \in BOOLEAN
<1>1. CASE cond = "beq"
  BY <1>1 DEF Taken
<1>2. CASE cond = "bne"
  BY <1>2 DEF Taken
<1>3. CASE cond = "blt"
  BY <1>3 DEF Taken
<1>4. CASE cond = "bge"
  BY <1>4 DEF Taken
<1>5. CASE cond = "bltu"
  BY <1>5 DEF Taken
<1>6. CASE cond = "bgeu"
  BY <1>6 DEF Taken
<1> QED BY <1>1, <1>2, <1>3, <1>4, <1>5, <1>6 DEF Condition

LEMMA TransferEffect ==
  ASSUME NEW d, Fetch(d), NEW taken \in BOOLEAN, NEW target \in Address,
         RecordTransfer(taken, target), Retire(target)
  PROVE  TransferTrace' /\ TrapState'
<1>1. code[pc].op \in Opcode /\ pc \in Address
  BY OperandTypes DEF Fetch
<1>2. TransferTrace'
  BY <1>1, RecordTransferType DEF Fetch, Machine
<1> QED BY <1>2, RetireType DEF Fetch, Machine

LEMMA BranchType ==
  ASSUME NEW d, Fetch(d), Branch(d)
  PROVE  Machine'
<1> DEFINE taken == Taken(d.cond, x[d.rs1], x[d.rs2])
           target == IF taken THEN Wrap(pc + d.imm) ELSE Wrap(pc + 4)
<1>1. taken \in BOOLEAN
  BY OperandTypes, TakenType DEF Fetch, Instruction
<1>2. target \in Address
  <2>1. Wrap(pc + d.imm) \in Address
    BY OperandTypes, WrapType
  <2> QED BY <2>1, OperandTypes
<1>3. RecordTransfer(taken, target) /\ Retire(target)
  BY DEF Branch
<1> HIDE DEF taken, target
<1>4. TransferTrace' /\ TrapState'
  BY <1>1, <1>2, <1>3, TransferEffect
<1> QED BY <1>4, QuietType DEF Branch, Machine

LEMMA EvenType == \A n \in Address : n - (n % 2) \in Address
BY WordValuesType DEF Address

LEMMA JumpType ==
  ASSUME NEW d, Fetch(d), Jump(d)
  PROVE  Machine'
<1> DEFINE sum == Wrap((IF d.op = "jal" THEN pc ELSE x[d.rs1]) + d.imm)
           target == IF d.op = "jal" THEN sum ELSE sum - (sum % 2)
<1>1. target \in Address
  <2>1. sum \in Address
    BY OperandTypes, WrapType
  <2> HIDE DEF sum
  <2> QED BY <2>1, EvenType
<1>2. RecordTransfer(TRUE, target) /\ Retire(target) /\ WriteRegister(d.rd, Wrap(pc + 4))
  BY DEF Jump
<1> HIDE DEF target
<1>3. TransferTrace' /\ TrapState'
  BY <1>1, <1>2, TransferEffect
<1>4. Registers'
  BY <1>2, OperandTypes, WriteRegisterType DEF Fetch, Machine
<1> QED BY <1>3, <1>4, QuietType DEF Jump, Machine

LEMMA WeightInWord == \A size \in AccessSize : Weight(size) \in Nat /\ Weight(size) <= WordValues
<1>1. \A k \in 0 .. 4 : Weight(k) \in Nat \ {0}
  BY Weights
<1>2. \A w \in Nat \ {0} : ByteValues * w >= w
  <2> SUFFICES ASSUME NEW w \in Nat \ {0} PROVE ByteValues * w >= w
    OBVIOUS
  <2>1. ByteValues \in Int /\ ByteValues >= 1
    BY MemoryAssumption
  <2> QED BY <2>1, MultipleGrows
<1>3. /\ Weight(2) >= Weight(1) /\ Weight(3) >= Weight(2) /\ Weight(4) >= Weight(3)
  BY <1>1, <1>2, Weights
<1>4. /\ Weight(1) \in Nat /\ Weight(2) \in Nat /\ Weight(3) \in Nat /\ Weight(4) \in Nat
  BY <1>1
<1> QED BY <1>3, <1>4 DEF AccessSize, WordValues

LEMMA ExtendedType ==
  ASSUME NEW d, d.size \in AccessSize, NEW value \in 0 .. Weight(d.size) - 1
  PROVE  Extended(d, value) \in Address
<1>1. Weight(d.size) \in Nat /\ Weight(d.size) <= WordValues /\ WordValues \in Nat
  BY WeightInWord, WordValuesType
<1>2. Wrap(value - Weight(d.size)) \in Address
  BY <1>1, WrapType
<1> QED BY <1>1, <1>2 DEF Extended, Address

\* The access of a load or store: a trap that names an address, or an aligned
\* access to mapped bytes.
LEMMA AccessCases ==
  ASSUME NEW d, Fetch(d)
  PROVE  LET addr == Wrap(x[d.rs1] + d.imm)
         IN  /\ addr \in Address
             /\ \A f \in {LoadFault(mem, addr, d.size), StoreFault(mem, addr, d.size)} :
                   \/ f # NoFault /\ f.value \in Address
                   \/ /\ f = NoFault /\ addr % d.size = 0
                      /\ Bytes(addr, d.size) \subseteq DOMAIN mem
<1> DEFINE addr == Wrap(x[d.rs1] + d.imm)
<1>1. addr \in Address /\ d.size \in AccessSize
  BY OperandTypes, WrapType
<1> HIDE DEF addr
<1>2. ASSUME NEW misaligned \in {"LOAD_MISALIGNED", "STORE_MISALIGNED"},
             NEW fault \in {"LOAD_FAULT", "STORE_FAULT"},
             NEW f, f = AccessFault(mem, addr, d.size, misaligned, fault)
      PROVE  \/ f # NoFault /\ f.value \in Address
             \/ f = NoFault /\ addr % d.size = 0 /\ Bytes(addr, d.size) \subseteq DOMAIN mem
  <2>1. \/ /\ f = NoFault
           /\ addr % d.size = 0
           /\ Bytes(addr, d.size) \subseteq DOMAIN mem
        \/ f.cause \in {misaligned, fault} /\ f.value \in Address
    BY <1>1, <1>2, AccessFaultCases
  <2>2. f.cause \in {misaligned, fault} => f # NoFault
    BY <1>2 DEF NoFault
  <2> QED BY <2>1, <2>2
<1>3. ASSUME NEW f \in {LoadFault(mem, addr, d.size), StoreFault(mem, addr, d.size)}
      PROVE  \/ f # NoFault /\ f.value \in Address
             \/ f = NoFault /\ addr % d.size = 0 /\ Bytes(addr, d.size) \subseteq DOMAIN mem
  <2>1. CASE f = LoadFault(mem, addr, d.size)
    <3>1. f = AccessFault(mem, addr, d.size, "LOAD_MISALIGNED", "LOAD_FAULT")
      BY <2>1 DEF LoadFault
    <3> QED BY <3>1, <1>2
  <2>2. CASE f = StoreFault(mem, addr, d.size)
    <3>1. f = AccessFault(mem, addr, d.size, "STORE_MISALIGNED", "STORE_FAULT")
      BY <2>2 DEF StoreFault
    <3> QED BY <3>1, <1>2
  <2> QED BY <2>1, <2>2
<1> QED BY <1>1, <1>3 DEF addr

LEMMA LoadType ==
  ASSUME NEW d, Fetch(d), Load(d)
  PROVE  Machine'
<1> DEFINE addr == Wrap(x[d.rs1] + d.imm)
           fault == LoadFault(mem, addr, d.size)
<1>1. /\ addr \in Address
      /\ \/ fault # NoFault /\ fault.value \in Address
         \/ fault = NoFault /\ Bytes(addr, d.size) \subseteq DOMAIN mem
  BY AccessCases
<1>2. IF fault # NoFault THEN Halt(fault) /\ UNCHANGED access_trace
      ELSE /\ RecordLoad(addr, d.size)
           /\ WriteRegister(d.rd, Extended(d, Fetched(mem, addr, d.size)))
           /\ Retire(Wrap(pc + 4))
  BY DEF Load
<1> HIDE DEF addr, fault
<1>3. CASE fault # NoFault
  BY <1>1, <1>2, <1>3, HaltType, QuietType DEF Load, Fetch, Machine
<1>4. CASE fault = NoFault
  <2>1. Fetched(mem, addr, d.size) \in 0 .. Weight(d.size) - 1
    BY <1>1, <1>4, FetchedType, OperandTypes DEF Fetch, Machine, MappedMemory
  <2>2. Extended(d, Fetched(mem, addr, d.size)) \in Address
    BY <2>1, ExtendedType, OperandTypes
  <2>3. Registers'
    BY <1>2, <1>4, <2>2, OperandTypes, WriteRegisterType DEF Fetch, Machine
  <2>4. TrapState'
    BY <1>2, <1>4, OperandTypes, RetireType DEF Fetch, Machine
  <2>5. AccessTrace'
    BY <1>1, <1>2, <1>4, OperandTypes, RecordAccessType DEF Fetch, Machine
  <2> QED BY <2>3, <2>4, <2>5, QuietType DEF Load, Machine
<1> QED BY <1>3, <1>4

LEMMA StoreType ==
  ASSUME NEW d, Fetch(d), Store(d)
  PROVE  Machine'
<1> DEFINE addr == Wrap(x[d.rs1] + d.imm)
           fault == StoreFault(mem, addr, d.size)
           word == addr - (addr % 4)
           value == x[d.rs2]
<1>1. /\ addr \in Address
      /\ \/ fault # NoFault /\ fault.value \in Address
         \/ fault = NoFault /\ Bytes(addr, d.size) \subseteq DOMAIN mem
  BY AccessCases
<1>2. IF fault # NoFault THEN Halt(fault) /\ UNCHANGED <<x, mem, code, access_trace>>
      ELSE /\ mem' = Stored(mem, addr, d.size, value)
           /\ \E now \in Rewrites \cup {code[word]} : code' = [code EXCEPT ![word] = now]
           /\ RecordStore(addr, d.size)
           /\ Retire(Wrap(pc + 4))
           /\ x' = x
  BY DEF Store
<1> HIDE DEF addr, fault, word
<1>3. CASE fault # NoFault
  BY <1>1, <1>2, <1>3, HaltType, QuietType DEF Store, Fetch, Machine
<1>4. CASE fault = NoFault
  <2>1. /\ DOMAIN mem' = DOMAIN mem
        /\ \A a \in DOMAIN mem' : mem'[a] \in Byte
    <3>1. DOMAIN mem \subseteq Address /\ \A a \in DOMAIN mem : mem[a] \in Byte
      BY DEF Fetch, Machine, MappedMemory, WholePages
    <3>2. value \in Int /\ d.size \in AccessSize
      BY OperandTypes
    <3> HIDE DEF value
    <3> QED BY <1>1, <1>2, <1>4, <3>1, <3>2, StoredEffect
  <2>2. code' \in [WordsOf(mem) -> Instruction]
    <3>1. code \in [WordsOf(mem) -> Instruction]
      BY DEF Fetch, Machine, MappedMemory
    <3>2. PICK now \in Rewrites \cup {code[word]} : code' = [code EXCEPT ![word] = now]
      BY <1>2, <1>4
    <3>3. CASE word \in WordsOf(mem)
      <4>1. now \in Instruction
        BY <3>1, <3>2, <3>3, InterpreterAssumption
      <4> QED BY <3>1, <3>2, <4>1
    <3>4. CASE word \notin WordsOf(mem)
      BY <3>1, <3>2, <3>4
    <3> QED BY <3>3, <3>4
  <2>3. MappedMemory'
    <3>1. heap_break' = heap_break
      BY DEF Store
    <3> QED BY <2>1, <2>2, <3>1 DEF Fetch, Machine, MappedMemory, WordsOf
  <2>4. TrapState'
    BY <1>2, <1>4, OperandTypes, RetireType DEF Fetch, Machine
  <2>5. AccessTrace'
    BY <1>1, <1>2, <1>4, OperandTypes, RecordAccessType DEF Fetch, Machine
  <2>6. x' = x
    BY <1>2, <1>4
  <2> QED BY <2>3, <2>4, <2>5, <2>6, QuietType DEF Store, Machine
<1> QED BY <1>3, <1>4

LEMMA FenceType ==
  ASSUME NEW d, Fetch(d), Fence(d)
  PROVE  Machine'
<1>1. TrapState'
  BY OperandTypes, RetireType DEF Fence, Fetch, Machine
<1> QED BY <1>1, QuietType DEF Fence, Machine

LEMMA EbreakType ==
  ASSUME NEW d, Fetch(d), Ebreak(d)
  PROVE  Machine'
<1>1. TrapState'
  BY OperandTypes DEF Ebreak, Fetch, Machine, TrapState
<1> QED BY <1>1, QuietType DEF Ebreak, Machine

LEMMA IllegalType ==
  ASSUME NEW d, Fetch(d), Illegal(d)
  PROVE  Machine'
<1>1. PICK raw \in {0, Minus1} : Halt(Fault("ILLEGAL_INSTRUCTION", raw))
  BY DEF Illegal
<1>2. Fault("ILLEGAL_INSTRUCTION", raw).value \in Address
  BY ConstantsType DEF Fault
<1>3. Registers' /\ TrapState'
  BY <1>1, <1>2, HaltType DEF Fetch, Machine
<1> QED BY <1>3, QuietType DEF Illegal, Machine

LEMMA ReturnsType ==
  ASSUME NEW d, Fetch(d), NEW value \in Address, Returns(value)
  PROVE  Registers' /\ TrapState'
<1>1. Registers'
  BY ConstantsType, WriteRegisterType DEF Returns, Fetch, Machine
<1>2. TrapState'
  BY OperandTypes, ConstantsType DEF Returns, Fetch, Machine, TrapState
<1> QED BY <1>1, <1>2

\* write: what is output are mapped bytes, up to the first that is not.
LEMMA WriteType ==
  ASSUME NEW d, Fetch(d), Write
  PROVE  /\ Registers' /\ TrapState' /\ Output'
         /\ \E out \in Seq(Byte) : program_output' = program_output \o out
<1> DEFINE byte(i) == Wrap(x[a1] + i)
           missing == {i \in 0 .. x[a2] - 1 : byte(i) \notin DOMAIN mem}
           written == IF missing = {} THEN x[a2]
                      ELSE CHOOSE i \in missing : \A j \in missing : i <= j
           out == [i \in 1 .. written |-> mem[byte(i - 1)]]
<1>1. x[a0] \in Address /\ x[a1] \in Nat /\ x[a2] \in Nat /\ x[a2] \in Address
  BY ConstantsType, OperandTypes DEF Fetch, Machine, Registers
<1>2. \A i \in Int : byte(i) \in Address
  BY <1>1, WrapType
<1>3. /\ program_output' = program_output \o out
      /\ IF missing = {} THEN Returns(x[a2]) ELSE Halt(Fault("LOAD_FAULT", byte(written)))
  BY DEF Write
<1>4. /\ written \in Nat
      /\ \A i \in 0 .. written - 1 : byte(i) \in DOMAIN mem
  <2>1. CASE missing = {}
    BY <1>1, <2>1
  <2>2. CASE missing # {}
    <3>1. missing \in SUBSET Nat
      BY <1>1
    <3>2. \A i \in Nat : i < x[a2] /\ i \notin missing => byte(i) \in DOMAIN mem
      BY <1>1
    <3>3. \A i \in missing : i < x[a2]
      BY <1>1
    <3> HIDE DEF missing, byte
    <3>4. \E i \in missing : \A j \in missing : i <= j
      BY <2>2, <3>1, LeastElement
    <3>5. written \in missing /\ \A j \in missing : written <= j
      BY <2>2, <3>4
    <3> HIDE DEF written
    <3>6. \A i \in 0 .. written - 1 : i \in Nat /\ i < x[a2] /\ i \notin missing
      BY <1>1, <3>1, <3>3, <3>5
    <3> QED BY <3>1, <3>2, <3>5, <3>6
  <2> QED BY <2>1, <2>2
<1> HIDE DEF written, missing
<1>5. out \in Seq(Byte)
  <2>1. \A i \in 1 .. written : mem[byte(i - 1)] \in Byte
    <3> HIDE DEF byte
    <3> QED BY <1>4 DEF Fetch, Machine, MappedMemory
  <2> HIDE DEF byte
  <2> QED BY <1>4, <2>1
<1>6. byte(written) \in Address
  BY <1>2, <1>4
<1> HIDE DEF out, byte
<1>7. Output'
  BY <1>3, <1>5 DEF Output, Fetch, Machine
<1>8. Registers' /\ TrapState'
  <2>1. CASE missing = {}
    BY <1>1, <1>3, <2>1, ReturnsType
  <2>2. CASE missing # {}
    <3>1. Fault("LOAD_FAULT", byte(written)).value \in Address
      BY <1>6 DEF Fault
    <3> QED BY <1>3, <2>2, <3>1, HaltType DEF Fetch, Machine
  <2> QED BY <2>1, <2>2
<1> QED BY <1>3, <1>5, <1>7, <1>8

LEMMA ExitType ==
  ASSUME NEW d, Fetch(d), Exit
  PROVE  TrapState'
BY OperandTypes, ConstantsType DEF Exit, Fetch, Machine, TrapState

\* brk: the break moves up, by mapping what lies below it, or stays.
LEMMA BrkEffect ==
  ASSUME NEW d, Fetch(d), Brk
  PROVE  /\ heap_break' \in Address
         /\ heap_break' = heap_break \/ (heap_break <= heap_break' /\ heap_break' <= StackBottom)
         /\ Returns(heap_break')
         /\ DOMAIN mem \subseteq DOMAIN mem'
         /\ WholePages(DOMAIN mem')
         /\ \A a \in DOMAIN mem' : mem'[a] \in Byte
         /\ \A a \in DOMAIN mem : mem'[a] = mem[a]
         /\ \A a \in Address : heap_break <= a /\ a < heap_break' => a \in DOMAIN mem'
<1> DEFINE break == IF BreakRefused(x[a0]) THEN heap_break ELSE x[a0]
<1>1. x[a0] \in Address /\ heap_break \in Address /\ StackBottom \in Address
  BY ConstantsType DEF Fetch, Machine, Registers, MappedMemory
<1>2. \A n \in Address : n \in Nat
  BY WordValuesType DEF Address
<1>3. /\ heap_break' = break /\ mem' = MapRegion(mem, heap_break, break - heap_break)
      /\ Returns(break)
  BY DEF Brk
<1>4. /\ break \in Address
      /\ break = heap_break \/ (heap_break <= break /\ break <= StackBottom)
  BY <1>1, <1>2 DEF BreakRefused
<1> HIDE DEF break
<1> DEFINE size == break - heap_break
<1>5. size \in Nat /\ heap_break + size = break
  BY <1>1, <1>2, <1>4
<1>6. WholePages(DOMAIN mem) /\ \A a \in DOMAIN mem : mem[a] \in Byte
  BY DEF Fetch, Machine, MappedMemory
<1>7. mem' = MapRegion(mem, heap_break, size)
  BY <1>3
<1> HIDE DEF size
<1>8. /\ DOMAIN mem \subseteq DOMAIN mem'
      /\ WholePages(DOMAIN mem')
      /\ \A a \in DOMAIN mem' : mem'[a] \in Byte
      /\ \A a \in DOMAIN mem : mem'[a] = mem[a]
      /\ \A a \in Address : heap_break <= a /\ a < heap_break + size => a \in DOMAIN mem'
  BY <1>1, <1>5, <1>6, <1>7, MapRegionEffect
<1> QED BY <1>3, <1>4, <1>5, <1>8

LEMMA BrkType ==
  ASSUME NEW d, Fetch(d), Brk
  PROVE  Registers' /\ TrapState' /\ MappedMemory'
<1>1. /\ heap_break' \in Address /\ Returns(heap_break')
      /\ WholePages(DOMAIN mem') /\ \A a \in DOMAIN mem' : mem'[a] \in Byte
  BY BrkEffect
<1>2. Registers' /\ TrapState'
  BY <1>1, ReturnsType
<1>3. code' \in [WordsOf(mem') -> Instruction]
  <2>1. code' = [a \in WordsOf(mem') |-> IF a \in DOMAIN code THEN code[a] ELSE ZeroWord]
    BY DEF Brk
  <2>2. \A a \in DOMAIN code : code[a] \in Instruction
    BY DEF Fetch, Machine, MappedMemory
  <2> QED BY <2>1, <2>2, ConstantsType
<1>4. MappedMemory'
  BY <1>1, <1>3 DEF MappedMemory, WordsOf
<1> QED BY <1>2, <1>4

LEMMA EcallType ==
  ASSUME NEW d, Fetch(d), Ecall(d)
  PROVE  Machine'
<1>1. AccessTrace' /\ TransferTrace'
  BY QuietType DEF Ecall
<1>2. CASE Write
  BY <1>1, <1>2, WriteType, QuietType DEF Write, Machine
<1>3. CASE Exit
  BY <1>1, <1>3, ExitType, QuietType DEF Exit, Machine
<1>4. CASE Brk
  BY <1>1, <1>4, BrkType, QuietType DEF Brk, Machine
<1>5. CASE Unsupported
  BY <1>1, <1>5, ReturnsType, ConstantsType, QuietType DEF Unsupported, Machine
<1> QED BY <1>2, <1>3, <1>4, <1>5 DEF Ecall

-----------------------------------------------------------------------------
(* The type invariant.                                                     *)

\* What is fetched without a fault is an instruction.
LEMMA FetchCases ==
  ASSUME TrapState, MappedMemory
  PROVE  LET f == FetchFault(mem, pc)
         IN  \/ /\ f # NoFault
                /\ f.cause \in {"INSTRUCTION_ADDRESS_MISALIGNED", "INSTRUCTION_ACCESS_FAULT"}
                /\ f.value \in Address
             \/ f = NoFault /\ code[pc] \in Instruction
<1> DEFINE f == FetchFault(mem, pc)
<1>1. pc \in Address /\ 4 \in AccessSize
  BY DEF TrapState, AccessSize
<1>2. f = AccessFault(mem, pc, 4, "INSTRUCTION_ADDRESS_MISALIGNED", "INSTRUCTION_ACCESS_FAULT")
  BY DEF FetchFault
<1> HIDE DEF f
<1>3. \/ f = NoFault /\ pc % 4 = 0 /\ Bytes(pc, 4) \subseteq DOMAIN mem
      \/ /\ f.cause \in {"INSTRUCTION_ADDRESS_MISALIGNED", "INSTRUCTION_ACCESS_FAULT"}
         /\ f.value \in Address
  BY <1>1, <1>2, AccessFaultCases
<1>4. f.cause \in {"INSTRUCTION_ADDRESS_MISALIGNED", "INSTRUCTION_ACCESS_FAULT"} => f # NoFault
  BY DEF NoFault
<1>5. pc \in Bytes(pc, 4)
  BY <1>1, WordValuesType DEF Bytes, Address
<1>6. pc % 4 = 0 /\ Bytes(pc, 4) \subseteq DOMAIN mem => code[pc] \in Instruction
  BY <1>5 DEF MappedMemory, WordsOf
<1> QED BY <1>3, <1>4, <1>6 DEF f

LEMMA ExecuteType ==
  ASSUME NEW d, Fetch(d), Execute(d)
  PROVE  Machine'
BY ComputeType, BranchType, JumpType, LoadType, StoreType, FenceType, EcallType, EbreakType,
   IllegalType DEF Execute

LEMMA FetchTrapsType ==
  ASSUME TypeInv, inst_count' = inst_count + 1, FetchTraps
  PROVE  TypeInv'
<1>1. Registers' /\ TrapState'
  <2>1. FetchFault(mem, pc).value \in Address
    BY FetchCases DEF FetchTraps, TypeInv
  <2> QED BY <2>1, HaltType DEF FetchTraps, TypeInv
<1>2. MappedMemory' /\ Output' /\ AccessTrace'
  BY DEF FetchTraps, TypeInv, MappedMemory, WordsOf, Output, AccessTrace
<1>3. TransferTrace'
  BY DEF FetchTraps, TypeInv, TransferTrace
<1>4. BlockProfile'
  BY DEF FetchTraps, TypeInv, BlockProfile
<1> QED BY <1>1, <1>2, <1>3, <1>4 DEF TypeInv

LEMMA ExecutesType ==
  ASSUME TypeInv, inst_count' = inst_count + 1, Executes
  PROVE  TypeInv' /\ Fetch(code[pc])
<1>1. Fetch(code[pc])
  BY FetchCases DEF Executes, TypeInv, Fetch, Machine
<1>2. Machine'
  BY <1>1, ExecuteType DEF Executes
<1>3. BlockProfile'
  <2>1. block_entering' \in BOOLEAN
    BY DEF Executes, EndsBlock
  <2> QED BY <2>1, ProfileType DEF Executes, TypeInv, TrapState
<1> QED BY <1>1, <1>2, <1>3 DEF Machine, TypeInv

\* The segments' pages, and what construction adds to them.
LEMMA InitMemory ==
  ASSUME Init
  PROVE  /\ WholePages(DOMAIN mem) /\ \A a \in DOMAIN mem : mem[a] \in Byte
         /\ StackBottom .. StackPointer - 1 \subseteq DOMAIN mem
<1>1. WholePages(DOMAIN Segments)
  <2>1. DOMAIN Segments = SegmentPages /\ DOMAIN Image \subseteq Address
    BY InterpreterAssumption DEF Segments
  <2> QED BY <2>1 DEF SegmentPages, WholePages
<1>2. \A a \in DOMAIN Segments : Segments[a] \in Byte
  BY InterpreterAssumption, ConstantsType DEF Segments
<1>3. StackBottom \in Address /\ StackSize \in Nat /\ mem = MapRegion(Segments, StackBottom, StackSize)
  BY ConstantsType, InterpreterAssumption, WordValuesType DEF Init, Address
<1>4. /\ WholePages(DOMAIN mem) /\ \A a \in DOMAIN mem : mem[a] \in Byte
      /\ \A a \in Address : StackBottom <= a /\ a < StackBottom + StackSize => a \in DOMAIN mem
  <2> HIDE DEF Init, Segments
  <2> QED BY <1>1, <1>2, <1>3, MapRegionEffect
<1>5. \A a \in StackBottom .. StackPointer - 1 :
          a \in Address /\ StackBottom <= a /\ a < StackBottom + StackSize
  BY ConstantsType, WordValuesType DEF Address
<1> QED BY <1>4, <1>5

LEMMA InitType == Init => TypeInv
<1> SUFFICES ASSUME Init PROVE TypeInv
  OBVIOUS
<1>1. Registers
  BY ConstantsType DEF Init, Registers
<1>2. TrapState
  BY ConstantsType, InterpreterAssumption DEF Init, TrapState
<1>3. MappedMemory
  <2>1. heap_break \in Address
    BY AlignUpType DEF Init
  <2>2. code \in [WordsOf(mem) -> Instruction]
    <3>1. PICK p \in Programs :
              code = [a \in WordsOf(mem) |-> IF a \in DOMAIN p THEN p[a] ELSE ZeroWord]
      BY DEF Init
    <3>2. \A a \in DOMAIN p : p[a] \in Instruction
      BY InterpreterAssumption
    <3> QED BY <3>1, <3>2, ConstantsType
  <2> QED BY <2>1, <2>2, InitMemory DEF MappedMemory
<1>4. Output
  BY DEF Init, Output
<1>5. AccessTrace
  <2>1. access_trace = [loads |-> 0, stores |-> 0, records |-> <<>>] /\ MaxRecords \in Nat
    BY InterpreterAssumption DEF Init
  <2> QED BY <2>1 DEF AccessTrace
<1>6. BlockProfile
  <2>1. /\ profile = [instructions |-> 0, seen_pcs |-> {}, blocks |-> <<>>,
                      entry_sequence |-> <<>>]
        /\ block_entering = TRUE /\ current_block_id = 0 /\ MaxEntries \in Nat
    BY InterpreterAssumption DEF Init, NoBlock
  <2> QED BY <2>1 DEF BlockProfile
<1>7. TransferTrace
  <2>1. /\ branch_stats = [control_total |-> 0, total |-> 0, taken |-> 0, not_taken |-> 0,
                           trace |-> <<>>]
        /\ inst_count = 0 /\ MaxTrace \in Nat
    BY InterpreterAssumption DEF Init
  <2> QED BY <2>1 DEF TransferTrace
<1> QED BY <1>1, <1>2, <1>3, <1>4, <1>5, <1>6, <1>7 DEF TypeInv

LEMMA StutterType == TypeInv /\ UNCHANGED vars => TypeInv'
<1> SUFFICES ASSUME TypeInv, UNCHANGED vars PROVE TypeInv'
  OBVIOUS
<1>1. Registers' /\ TrapState' /\ Output'
  BY DEF TypeInv, vars, cpu, Registers, TrapState, Output
<1>2. MappedMemory'
  BY DEF TypeInv, vars, cpu, MappedMemory, WordsOf
<1>3. AccessTrace' /\ TransferTrace'
  BY DEF TypeInv, vars, cpu, AccessTrace, TransferTrace
<1>4. BlockProfile'
  BY DEF TypeInv, vars, cpu, BlockProfile
<1> QED BY <1>1, <1>2, <1>3, <1>4 DEF TypeInv

LEMMA TypeInvariant == Spec => []TypeInv
<1>1. TypeInv /\ [Next]_vars => TypeInv'
  BY FetchTrapsType, ExecutesType, StutterType DEF Next, step
<1> QED BY InitType, <1>1, PTL DEF Spec

\* Registers, memory and recordings keep their types on every path through every
\* program: x0 stays zero, memory is mapped by whole pages of bytes, the
\* instructions mirror its words, and no recording outgrows its cap.
THEOREM TypeCorrect == Spec => []TypeOK
<1>1. TypeInv => TypeOK
  <2> SUFFICES ASSUME TypeInv PROVE TypeOK
    OBVIOUS
  <2>1. DOMAIN mem = {a \in Address : \E b \in DOMAIN mem : PageOf(a) = PageOf(b)}
    BY DEF TypeInv, MappedMemory, WholePages
  <2>2. \A i \in DOMAIN program_output : program_output[i] \in Byte
    BY DEF TypeInv, Output
  <2>3. DOMAIN code = WordsOf(mem) /\ {pc, mepc, mtval, heap_break} \subseteq Address
    BY DEF TypeInv, MappedMemory, TrapState
  <2> QED BY <2>1, <2>2, <2>3
          DEF TypeInv, TypeOK, Registers, TrapState, MappedMemory, AccessTrace, BlockProfile,
              TransferTrace
<1> QED BY <1>1, TypeInvariant, PTL

-----------------------------------------------------------------------------
(* Memory.  Two handlers touch it: a store that does not fault, and brk.   *)

Stores(d) ==
    LET addr == Wrap(x[d.rs1] + d.imm)
    IN  /\ addr \in Address /\ d.size \in AccessSize
        /\ addr % d.size = 0 /\ Bytes(addr, d.size) \subseteq DOMAIN mem
        /\ DOMAIN mem' = DOMAIN mem
        /\ \A a \in DOMAIN mem : a \notin Bytes(addr, d.size) => mem'[a] = mem[a]
        /\ RecordStore(addr, d.size)
        /\ UNCHANGED heap_break

Loads(d) ==
    LET addr == Wrap(x[d.rs1] + d.imm)
    IN  /\ addr \in Address /\ d.size \in AccessSize
        /\ addr % d.size = 0 /\ Bytes(addr, d.size) \subseteq DOMAIN mem
        /\ RecordLoad(addr, d.size)
        /\ UNCHANGED <<mem, heap_break>>

LEMMA MemoryEffect ==
  ASSUME NEW d, Fetch(d), Execute(d)
  PROVE  \/ UNCHANGED <<mem, heap_break, access_trace>>
         \/ Loads(d)
         \/ Stores(d)
         \/ Brk /\ UNCHANGED access_trace
<1>1. CASE Load(d)
  <2> DEFINE addr == Wrap(x[d.rs1] + d.imm)
             fault == LoadFault(mem, addr, d.size)
  <2>1. /\ addr \in Address /\ d.size \in AccessSize
        /\ fault = NoFault => addr % d.size = 0 /\ Bytes(addr, d.size) \subseteq DOMAIN mem
    BY AccessCases, OperandTypes
  <2>2. CASE fault # NoFault
    BY <1>1, <2>2 DEF Load
  <2>3. CASE fault = NoFault
    <3>1. RecordLoad(addr, d.size) /\ UNCHANGED <<mem, heap_break>>
      BY <1>1, <2>3 DEF Load
    <3> QED BY <2>1, <2>3, <3>1 DEF Loads
  <2> QED BY <2>2, <2>3
<1>2. CASE Store(d)
  <2> DEFINE addr == Wrap(x[d.rs1] + d.imm)
             fault == StoreFault(mem, addr, d.size)
  <2>1. /\ addr \in Address /\ d.size \in AccessSize
        /\ fault = NoFault => addr % d.size = 0 /\ Bytes(addr, d.size) \subseteq DOMAIN mem
    BY AccessCases, OperandTypes
  <2>2. CASE fault # NoFault
    BY <1>2, <2>2 DEF Store
  <2>3. CASE fault = NoFault
    <3>1. /\ mem' = Stored(mem, addr, d.size, x[d.rs2])
          /\ RecordStore(addr, d.size) /\ UNCHANGED heap_break
      BY <1>2, <2>3 DEF Store
    <3>2. DOMAIN mem \subseteq Address /\ \A a \in DOMAIN mem : mem[a] \in Byte
      BY DEF Fetch, Machine, MappedMemory, WholePages
    <3>3. x[d.rs2] \in Int
      BY OperandTypes
    <3> HIDE DEF addr
    <3>4. /\ DOMAIN mem' = DOMAIN mem
          /\ \A a \in DOMAIN mem : a \notin Bytes(addr, d.size) => mem'[a] = mem[a]
      BY <2>1, <3>1, <3>2, <3>3, StoredEffect
    <3> QED BY <2>1, <2>3, <3>1, <3>4 DEF Stores, addr
  <2> QED BY <2>2, <2>3
<1>3. CASE Ecall(d)
  BY <1>3 DEF Ecall, Write, Exit, Brk, Unsupported
<1> QED BY <1>1, <1>2, <1>3 DEF Execute, Compute, Branch, Jump, Fence, Ebreak, Illegal

LEMMA MemoryGrows ==
  ASSUME NEW d, Fetch(d), Execute(d)
  PROVE  DOMAIN mem \subseteq DOMAIN mem'
BY MemoryEffect, BrkEffect DEF Loads, Stores

LEMMA ExecuteKeepsHeap ==
  ASSUME NEW d, Fetch(d), Execute(d), HeapMapped
  PROVE  HeapMapped'
<1> DEFINE base == AlignUp(EndAddress)
<1>1. base \in Address /\ heap_break \in Address /\ \A n \in Address : n \in Nat
  BY AlignUpType, OperandTypes DEF Fetch, Machine, MappedMemory
<1>2. /\ base .. heap_break - 1 \subseteq DOMAIN mem /\ heap_break >= base
      /\ heap_break > base => heap_break <= StackBottom
      /\ StackBottom .. StackPointer - 1 \subseteq DOMAIN mem
  BY DEF HeapMapped
<1>3. DOMAIN mem \subseteq DOMAIN mem'
  BY MemoryGrows
<1> HIDE DEF base
<1>4. CASE UNCHANGED heap_break
  BY <1>2, <1>3, <1>4 DEF HeapMapped, base
<1>5. CASE Brk
  <2>1. /\ heap_break' \in Address
        /\ heap_break' = heap_break \/ (heap_break <= heap_break' /\ heap_break' <= StackBottom)
        /\ \A a \in Address : heap_break <= a /\ a < heap_break' => a \in DOMAIN mem'
    BY <1>5, BrkEffect
  <2>2. heap_break' >= base /\ (heap_break' > base => heap_break' <= StackBottom)
    BY <1>1, <1>2, <2>1
  <2>3. ASSUME NEW a \in base .. heap_break' - 1 PROVE a \in DOMAIN mem'
    <3>1. a \in Address
      <4> DEFINE break == heap_break'
      <4>1. base \in 0 .. WordValues - 1 /\ break \in 0 .. WordValues - 1
        BY <1>1, <2>1 DEF Address
      <4>2. a \in base .. break - 1
        OBVIOUS
      <4> HIDE DEF break
      <4> QED BY <4>1, <4>2, WordValuesType DEF Address
    <3>2. a < heap_break => a \in base .. heap_break - 1
      BY <1>1
    <3>3. a \in Int /\ a < heap_break'
      BY <1>1, <2>1
    <3> QED BY <1>1, <1>2, <1>3, <2>1, <3>1, <3>2, <3>3
  <2> QED BY <1>2, <1>3, <2>2, <2>3 DEF HeapMapped, base
<1> QED BY <1>4, <1>5, MemoryEffect DEF Loads, Stores

\* After any sequence of brk calls the heap from its first byte to the break is
\* mapped and does not reach into the stack, which stays mapped
\* (interpreter.cpp, execute_system: brk; physical_memory.cpp, map_region).
THEOREM HeapStaysMapped == Spec => []HeapMapped
<1>1. Init => HeapMapped
  <2> SUFFICES ASSUME Init PROVE HeapMapped
    OBVIOUS
  <2> DEFINE base == AlignUp(EndAddress)
  <2>1. base \in Nat /\ heap_break = base
    BY AlignUpType, WordValuesType DEF Init, Address
  <2> HIDE DEF base
  <2>2. base .. heap_break - 1 = {} /\ heap_break >= base /\ ~(heap_break > base)
    BY <2>1
  <2> QED BY <2>2, InitMemory DEF HeapMapped, base
<1>2. TypeInv /\ HeapMapped /\ [Next]_vars => HeapMapped'
  <2> SUFFICES ASSUME TypeInv, HeapMapped, [Next]_vars PROVE HeapMapped'
    OBVIOUS
  <2>1. CASE UNCHANGED <<mem, heap_break>>
    BY <2>1 DEF HeapMapped
  <2>2. CASE inst_count' = inst_count + 1 /\ Executes
    <3>1. Fetch(code[pc])
      BY <2>2, ExecutesType
    <3> QED BY <2>2, <3>1, ExecuteKeepsHeap DEF Executes
  <2> QED BY <2>1, <2>2 DEF Next, step, FetchTraps, vars
<1> QED BY <1>1, <1>2, TypeInvariant, PTL DEF Spec

-----------------------------------------------------------------------------
(* The data access trace.                                                  *)

LEMMA MinOfTwo == \A m, n \in Nat : Min({m, n}) = IF m <= n THEN m ELSE n
<1> SUFFICES ASSUME NEW m \in Nat, NEW n \in Nat
             PROVE  Min({m, n}) = IF m <= n THEN m ELSE n
  OBVIOUS
<1> DEFINE S == {m, n}
           least == IF m <= n THEN m ELSE n
<1>1. least \in S /\ \A k \in S : least <= k
  OBVIOUS
<1>2. \A k \in S : (\A j \in S : k <= j) => k = least
  OBVIOUS
<1> HIDE DEF S, least
<1>3. Min(S) = least
  BY <1>1, <1>2 DEF Min
<1> QED BY <1>3 DEF S, least

LegalAccess(r) == r.addr % r.size = 0 /\ Bytes(r.addr, r.size) \subseteq DOMAIN mem

\* One more access counted and, while there is room, recorded.
LEMMA AccessKeepsTrace ==
  ASSUME AccessTrace, AccessTraceLegal, NEW kind \in {"Load", "Store"},
         NEW addr \in Address, NEW size \in AccessSize,
         addr % size = 0, Bytes(addr, size) \subseteq DOMAIN mem,
         DOMAIN mem \subseteq DOMAIN mem',
         access_trace'.loads + access_trace'.stores = access_trace.loads + access_trace.stores + 1,
         access_trace'.records = AppendUpTo(MaxRecords, access_trace.records,
                                            [kind |-> kind, addr |-> addr, size |-> size])
  PROVE  AccessTraceLegal'
<1> DEFINE rec == [kind |-> kind, addr |-> addr, size |-> size]
           n == access_trace.loads + access_trace.stores
           m == access_trace'.loads + access_trace'.stores
           rs == access_trace.records
           ss == access_trace'.records
<1>1. /\ n \in Nat /\ m = n + 1 /\ MaxRecords \in Nat /\ rs \in Seq(Access)
      /\ Len(rs) = Min({n, MaxRecords}) /\ Len(rs) <= MaxRecords
      /\ ss = AppendUpTo(MaxRecords, rs, rec)
      /\ \A i \in DOMAIN rs : LegalAccess(rs[i])
  BY InterpreterAssumption DEF AccessTrace, AccessTraceLegal, LegalAccess
<1>2. rec \in Access /\ LegalAccess(rec)
  BY DEF Access, LegalAccess
<1>3. DOMAIN mem \subseteq DOMAIN mem'
  OBVIOUS
<1> HIDE DEF rec, n, m, rs, ss
<1>4. Len(rs) = IF n <= MaxRecords THEN n ELSE MaxRecords
  BY <1>1, MinOfTwo
<1>5. /\ \A i \in DOMAIN ss : (i \in DOMAIN rs /\ ss[i] = rs[i]) \/ ss[i] = rec
      /\ Len(ss) = IF Len(rs) < MaxRecords THEN Len(rs) + 1 ELSE Len(rs)
  BY <1>1, <1>2 DEF AppendUpTo
<1>6. Len(ss) = Min({m, MaxRecords})
  <2>1. Len(ss) = IF m <= MaxRecords THEN m ELSE MaxRecords
    BY <1>1, <1>4, <1>5
  <2>2. m \in Nat
    BY <1>1
  <2> QED BY <1>1, <2>1, <2>2, MinOfTwo
<1>7. \A i \in DOMAIN ss : LegalAccess(ss[i])
  BY <1>1, <1>2, <1>5
<1>8. \A r : LegalAccess(r) => LegalAccess(r)'
  BY <1>3 DEF LegalAccess
<1> QED BY <1>3, <1>6, <1>7 DEF AccessTraceLegal, LegalAccess, m, ss

\* The data access trace holds exactly the accesses that were carried out, up to
\* its cap: aligned, and to bytes that are mapped then and ever after
\* (dcache_stats.cpp; interpreter.cpp, execute_load and execute_store).
THEOREM TraceHoldsLegalAccesses == Spec => []AccessTraceLegal
<1>1. Init => AccessTraceLegal
  <2> SUFFICES ASSUME Init PROVE AccessTraceLegal
    OBVIOUS
  <2>1. access_trace = [loads |-> 0, stores |-> 0, records |-> <<>>] /\ MaxRecords \in Nat
    BY InterpreterAssumption DEF Init
  <2>2. Min({0, MaxRecords}) = 0
    BY <2>1, MinOfTwo
  <2> QED BY <2>1, <2>2 DEF AccessTraceLegal
<1>2. TypeInv /\ AccessTraceLegal /\ [Next]_vars => AccessTraceLegal'
  <2> SUFFICES ASSUME TypeInv, AccessTraceLegal, [Next]_vars PROVE AccessTraceLegal'
    OBVIOUS
  <2>1. CASE UNCHANGED access_trace /\ DOMAIN mem \subseteq DOMAIN mem'
    BY <2>1 DEF AccessTraceLegal
  <2>2. CASE inst_count' = inst_count + 1 /\ Executes
    <3> DEFINE d == code[pc]
               addr == Wrap(x[d.rs1] + d.imm)
    <3>1. Fetch(d) /\ Execute(d)
      BY <2>2, ExecutesType DEF Executes
    <3>2. DOMAIN mem \subseteq DOMAIN mem'
      BY <3>1, MemoryGrows
    <3>3. CASE Loads(d)
      <4>1. /\ addr \in Address /\ d.size \in AccessSize /\ RecordLoad(addr, d.size)
            /\ addr % d.size = 0 /\ Bytes(addr, d.size) \subseteq DOMAIN mem
        BY <3>3 DEF Loads
      <4> DEFINE size == d.size
      <4> HIDE DEF addr, d, size
      <4>2. access_trace' = [loads |-> access_trace.loads + 1, stores |-> access_trace.stores,
                             records |-> AppendUpTo(MaxRecords, access_trace.records,
                                 [kind |-> "Load", addr |-> addr, size |-> size])]
        BY <4>1, RecordAccessEffect DEF TypeInv, size
      <4>3. access_trace'.loads + access_trace'.stores
              = access_trace.loads + access_trace.stores + 1
        BY <4>2 DEF TypeInv, AccessTrace
      <4>4. access_trace'.records = AppendUpTo(MaxRecords, access_trace.records,
                                 [kind |-> "Load", addr |-> addr, size |-> size])
        BY <4>2
      <4> QED BY <3>2, <4>1, <4>3, <4>4, AccessKeepsTrace DEF TypeInv, size
    <3>4. CASE Stores(d)
      <4>1. /\ addr \in Address /\ d.size \in AccessSize /\ RecordStore(addr, d.size)
            /\ addr % d.size = 0 /\ Bytes(addr, d.size) \subseteq DOMAIN mem
        BY <3>4 DEF Stores
      <4> DEFINE size == d.size
      <4> HIDE DEF addr, d, size
      <4>2. access_trace' = [loads |-> access_trace.loads, stores |-> access_trace.stores + 1,
                             records |-> AppendUpTo(MaxRecords, access_trace.records,
                                 [kind |-> "Store", addr |-> addr, size |-> size])]
        BY <4>1, RecordAccessEffect DEF TypeInv, size
      <4>3. access_trace'.loads + access_trace'.stores
              = access_trace.loads + access_trace.stores + 1
        BY <4>2 DEF TypeInv, AccessTrace
      <4>4. access_trace'.records = AppendUpTo(MaxRecords, access_trace.records,
                                 [kind |-> "Store", addr |-> addr, size |-> size])
        BY <4>2
      <4> QED BY <3>2, <4>1, <4>3, <4>4, AccessKeepsTrace DEF TypeInv, size
    <3> QED BY <2>1, <3>1, <3>2, <3>3, <3>4, MemoryEffect
  <2> QED BY <2>1, <2>2 DEF Next, step, FetchTraps, vars
<1> QED BY <1>1, <1>2, TypeInvariant, PTL DEF Spec

-----------------------------------------------------------------------------
(* Action properties.                                                      *)

LEMMA PrefixOfConcat ==
  ASSUME NEW S, NEW s \in Seq(S), NEW t \in Seq(S)
  PROVE  IsPrefix(s, s \o t)
<1>1. /\ Len(s \o t) = Len(s) + Len(t)
      /\ \A i \in 1 .. Len(s) : (s \o t)[i] = s[i]
  OBVIOUS
<1>2. SubSeq(s, 1, Len(s)) = [i \in 1 .. Len(s) |-> s[i]]
  OBVIOUS
<1>3. SubSeq(s \o t, 1, Len(s)) = [i \in 1 .. Len(s) |-> (s \o t)[i]]
  OBVIOUS
<1> QED BY <1>1, <1>2, <1>3 DEF IsPrefix

LEMMA PrefixOfItself ==
  ASSUME Output, UNCHANGED program_output
  PROVE  IsPrefix(program_output, program_output')
<1>1. Len(program_output) \in Nat
  BY DEF Output
<1> QED BY <1>1 DEF IsPrefix

LEMMA ExecutePrecise ==
  ASSUME NEW d, Fetch(d), Execute(d), Running, halt_reason' = "TRAP"
  PROVE  /\ mepc' = pc /\ pc' = pc
         /\ UNCHANGED <<x, mem, heap_break, access_trace, branch_stats>>
         /\ IsPrefix(program_output, program_output')
<1>1. ~ \E next : Retire(next)
  BY DEF Running, Retire, NoTrap
<1>2. ~ \E value : Returns(value)
  BY DEF Running, Returns
<1>3. Output
  BY DEF Fetch, Machine
<1>4. ~ (Compute(d) \/ Branch(d) \/ Jump(d) \/ Fence(d))
  BY <1>1 DEF Compute, Branch, Jump, Fence
<1>5. CASE Load(d)
  <2>1. LoadFault(mem, Wrap(x[d.rs1] + d.imm), d.size) # NoFault
    BY <1>1, <1>5 DEF Load
  <2>2. Halt(LoadFault(mem, Wrap(x[d.rs1] + d.imm), d.size)) /\ UNCHANGED access_trace
    BY <1>5, <2>1 DEF Load
  <2>3. UNCHANGED <<mem, heap_break, program_output, branch_stats>>
    BY <1>5 DEF Load
  <2> QED BY <1>3, <2>2, <2>3, PrefixOfItself DEF Halt
<1>6. CASE Store(d)
  <2>1. StoreFault(mem, Wrap(x[d.rs1] + d.imm), d.size) # NoFault
    BY <1>1, <1>6 DEF Store
  <2>2. /\ Halt(StoreFault(mem, Wrap(x[d.rs1] + d.imm), d.size))
        /\ UNCHANGED <<mem, access_trace>>
    BY <1>6, <2>1 DEF Store
  <2>3. UNCHANGED <<heap_break, program_output, branch_stats>>
    BY <1>6 DEF Store
  <2> QED BY <1>3, <2>2, <2>3, PrefixOfItself DEF Halt
<1>7. CASE Ecall(d)
  <2>1. Write
    BY <1>2, <1>7 DEF Ecall, Exit, Brk, Unsupported
  <2>2. PICK out \in Seq(Byte) : program_output' = program_output \o out
    BY <2>1, WriteType
  <2>3. IsPrefix(program_output, program_output')
    BY <1>3, <2>2, PrefixOfConcat DEF Output
  <2>4. \E fault : Halt(fault)
    BY <1>2, <2>1 DEF Write
  <2>5. UNCHANGED <<mem, heap_break>>
    BY <2>1 DEF Write
  <2>6. UNCHANGED <<access_trace, branch_stats>>
    BY <1>7 DEF Ecall
  <2> QED BY <2>3, <2>4, <2>5, <2>6 DEF Halt
<1>8. ~ Ebreak(d)
  BY DEF Ebreak
<1>9. CASE Illegal(d)
  <2>1. \E fault : Halt(fault)
    BY <1>9 DEF Illegal
  <2> QED BY <1>3, <1>9, <2>1, PrefixOfItself DEF Illegal, Halt
<1> QED BY <1>4, <1>5, <1>6, <1>7, <1>8, <1>9 DEF Execute

\* A trap is precise: whatever the instruction that faults, the registers, the
\* memory, the break and the traces are as it found them, mepc names it, and only
\* output can have been added (interpreter.cpp, raise_trap and its callers).
THEOREM TrapsArePrecise == Spec => FaultsArePrecise
<1>1. TypeInv /\ [Next]_vars => [TrapIsPrecise]_vars
  <2> SUFFICES ASSUME TypeInv, Next, Running, halt_reason' = "TRAP"
               PROVE  /\ mepc' = pc /\ pc' = pc
                      /\ UNCHANGED <<x, mem, heap_break, access_trace, branch_stats>>
                      /\ IsPrefix(program_output, program_output')
    BY DEF TrapIsPrecise
  <2>1. inst_count' = inst_count + 1
    BY DEF Next, step
  <2>2. CASE FetchTraps
    BY <2>2, PrefixOfItself DEF FetchTraps, Halt, TypeInv
  <2>3. CASE Executes
    BY <2>1, <2>3, ExecutesType, ExecutePrecise DEF Executes
  <2> QED BY <2>2, <2>3 DEF Next, step
<1> QED BY <1>1, TypeInvariant, PTL DEF Spec, FaultsArePrecise

LEMMA StoresAreTraced ==
  ASSUME AccessTrace, NEW d, Stores(d), NEW a \in DOMAIN mem, mem'[a] # mem[a]
  PROVE  /\ access_trace'.stores = access_trace.stores + 1
         /\ Len(access_trace.records) < MaxRecords =>
                LET r == Last(access_trace'.records)
                IN  r.kind = "Store" /\ a \in Bytes(r.addr, r.size)
<1> DEFINE addr == Wrap(x[d.rs1] + d.imm)
           size == d.size
           rec == [kind |-> "Store", addr |-> addr, size |-> size]
           rs == access_trace.records
<1>1. /\ addr \in Address /\ size \in AccessSize /\ a \in Bytes(addr, size)
      /\ RecordStore(addr, size)
  BY DEF Stores
<1> HIDE DEF addr, size
<1>2. access_trace' = [loads |-> access_trace.loads, stores |-> access_trace.stores + 1,
                       records |-> AppendUpTo(MaxRecords, access_trace.records, rec)]
  BY <1>1, RecordAccessEffect
<1>3. rec \in Access /\ rec.kind = "Store" /\ rec.addr = addr /\ rec.size = size
  BY <1>1 DEF Access
<1>4. rs \in Seq(Access)
  BY DEF AccessTrace
<1> HIDE DEF rec
<1>5. access_trace'.records = AppendUpTo(MaxRecords, rs, rec)
  BY <1>2
<1> HIDE DEF rs
<1>6. Len(rs) < MaxRecords => Last(access_trace'.records) = rec
  BY <1>3, <1>4, <1>5 DEF AppendUpTo, Last
<1> QED BY <1>1, <1>2, <1>3, <1>6 DEF rs

\* The data access trace misses no write: mapped memory stays mapped, and a byte
\* of it changes only by a store that is counted and recorded; brk, which maps
\* pages, changes none (interpreter.cpp, execute_store; physical_memory.cpp).
THEOREM EveryWriteIsTraced == Spec => MemoryChangesAreTraced
<1>1. TypeInv /\ [Next]_vars => [ChangeIsTraced]_vars
  <2> SUFFICES ASSUME TypeInv, Next, NEW a \in DOMAIN mem
               PROVE  /\ a \in DOMAIN mem'
                      /\ mem'[a] # mem[a] =>
                           /\ access_trace'.stores = access_trace.stores + 1
                           /\ Len(access_trace.records) < MaxRecords =>
                                  LET r == Last(access_trace'.records)
                                  IN  r.kind = "Store" /\ a \in Bytes(r.addr, r.size)
    BY DEF ChangeIsTraced
  <2>1. inst_count' = inst_count + 1
    BY DEF Next, step
  <2>2. CASE FetchTraps
    BY <2>2 DEF FetchTraps
  <2>3. CASE Executes
    <3> DEFINE d == code[pc]
    <3>1. Fetch(d) /\ Execute(d)
      BY <2>1, <2>3, ExecutesType DEF Executes
    <3> HIDE DEF d
    <3>2. CASE UNCHANGED mem
      BY <3>2
    <3>3. CASE Stores(d)
      <4>1. a \in DOMAIN mem'
        BY <3>3 DEF Stores
      <4>2. AccessTrace
        BY DEF TypeInv
      <4> QED BY <3>3, <4>1, <4>2, StoresAreTraced
    <3>4. CASE Brk
      BY <3>1, <3>4, BrkEffect
    <3> QED BY <3>1, <3>2, <3>3, <3>4, MemoryEffect DEF Loads
  <2> QED BY <2>2, <2>3 DEF Next, step
<1> QED BY <1>1, TypeInvariant, PTL DEF Spec, MemoryChangesAreTraced

-----------------------------------------------------------------------------
(* Sums over the blocks.  IsSum says that s holds the sums of the first    *)
(* values of v; there is one such s, so SumOver is its last value.         *)

IsSum(s, v, n) ==
    /\ s \in [0 .. n -> Nat] /\ s[0] = 0
    /\ \A i \in 1 .. n : s[i] = s[i - 1] + v[i]

LEMMA SumExists ==
  ASSUME NEW n \in Nat, NEW v \in [1 .. n -> Nat]
  PROVE  \E s : IsSum(s, v, n)
<1> DEFINE body == [i \in 1 .. n |-> [value \in Nat |-> value + v[i]]]
<1>1. \A i \in 1 .. n : body[i] \in [Nat -> Nat] /\ \A value \in Nat : body[i][value] = value + v[i]
  OBVIOUS
<1> HIDE DEF body
<1> DEFINE start == 0
<1>2. start \in Nat
  OBVIOUS
<1>3. PICK s : IsLoop(s, n, Nat, start, body)
  <2> HIDE DEF start
  <2> QED BY <1>1, <1>2, LoopRuns
<1>4. ASSUME NEW i \in 1 .. n PROVE s[i] = s[i - 1] + v[i]
  <2>1. s[i - 1] \in Nat
    BY <1>3 DEF IsLoop
  <2> QED BY <1>1, <1>3, <2>1 DEF IsLoop
<1> QED BY <1>3, <1>4 DEF IsLoop, IsSum

\* A function that steps like s from 0 is s.
LEMMA SumIsUnique ==
  ASSUME NEW n \in Nat, NEW v, NEW s, IsSum(s, v, n), NEW f, f[0] = 0,
         \A i \in 1 .. n : f[i] = f[i - 1] + v[i]
  PROVE  f[n] = s[n]
<1> DEFINE Different == {i \in 0 .. n : f[i] # s[i]}
<1>1. SUFFICES ASSUME Different # {} PROVE FALSE
  OBVIOUS
<1>2. PICK m \in Different : \A k \in Different : m <= k
  <2>1. Different \in SUBSET Nat
    OBVIOUS
  <2> HIDE DEF Different
  <2> QED BY <1>1, <2>1, LeastElement
<1>3. m # 0
  BY <1>2 DEF IsSum
<1>4. m \in 1 .. n /\ m - 1 \notin Different
  <2>1. m \in 0 .. n
    BY <1>2
  <2> HIDE DEF Different
  <2> QED BY <1>2, <1>3, <2>1
<1>5. f[m - 1] = s[m - 1]
  BY <1>4
<1>6. f[m] = s[m]
  BY <1>4, <1>5 DEF IsSum
<1> QED BY <1>2, <1>6

ValuesOf(blocks, field) == [i \in 1 .. Len(blocks) |-> blocks[i][field]]

LEMMA SumOverIs ==
  ASSUME NEW blocks, Len(blocks) \in Nat, NEW field, NEW s,
         IsSum(s, ValuesOf(blocks, field), Len(blocks))
  PROVE  SumOver(blocks, field) = s[Len(blocks)]
<1> DEFINE n == Len(blocks)
           v == ValuesOf(blocks, field)
           Step(f) == [i \in 0 .. n |-> IF i = 0 THEN 0 ELSE f[i - 1] + blocks[i][field]]
           sum == CHOOSE f : f = Step(f)
<1>1. n \in Nat /\ IsSum(s, v, n) /\ \A i \in 1 .. n : v[i] = blocks[i][field]
  BY DEF ValuesOf
<1>2. SumOver(blocks, field) = sum[n]
  BY DEF SumOver
<1>3. s = Step(s)
  <2> HIDE DEF n, v
  <2>1. s \in [0 .. n -> Nat] /\ \A i \in 0 .. n : s[i] = Step(s)[i]
    BY <1>1 DEF IsSum
  <2> QED BY <2>1
<1>4. sum = Step(sum)
  <2> HIDE DEF Step
  <2> QED BY <1>3
<1> HIDE DEF n, v, sum
<1>5. \A i \in 0 .. n : Step(sum)[i] = IF i = 0 THEN 0 ELSE sum[i - 1] + blocks[i][field]
  OBVIOUS
<1>6. \A i \in 0 .. n : sum[i] = IF i = 0 THEN 0 ELSE sum[i - 1] + blocks[i][field]
  <2> HIDE DEF Step
  <2> QED BY <1>4, <1>5
<1>7. sum[0] = 0 /\ \A i \in 1 .. n : sum[i] = sum[i - 1] + v[i]
  BY <1>1, <1>6
<1>8. sum[n] = s[n]
  BY <1>1, <1>7, SumIsUnique
<1> QED BY <1>2, <1>8 DEF n

Field == {"executions", "instructions"}

LEMMA FieldType ==
  ASSUME NEW blocks \in Seq(Block), NEW field \in Field
  PROVE  ValuesOf(blocks, field) \in [1 .. Len(blocks) -> Nat]
<1> SUFFICES ASSUME NEW i \in 1 .. Len(blocks) PROVE blocks[i][field] \in Nat
  BY DEF ValuesOf
<1>1. blocks[i] \in Block
  OBVIOUS
<1>2. CASE field = "executions"
  BY <1>1, <1>2 DEF Block
<1>3. CASE field = "instructions"
  BY <1>1, <1>3 DEF Block
<1> QED BY <1>2, <1>3 DEF Field

LEMMA SumOfEmpty == \A field : SumOver(<<>>, field) = 0
<1> SUFFICES ASSUME NEW field PROVE SumOver(<<>>, field) = 0
  OBVIOUS
<1> DEFINE s == [i \in {0} |-> 0]
<1>1. Len(<<>>) = 0
  OBVIOUS
<1>2. IsSum(s, ValuesOf(<<>>, field), Len(<<>>)) /\ s[0] = 0
  BY <1>1 DEF IsSum
<1> HIDE DEF s
<1> QED BY <1>1, <1>2, SumOverIs

\* One block counts more.
LEMMA SumOfIncrease ==
  ASSUME NEW b \in Seq(Block), NEW c \in Seq(Block), NEW field \in Field, NEW id \in DOMAIN b,
         NEW k \in Nat, Len(c) = Len(b), c[id][field] = b[id][field] + k,
         \A i \in DOMAIN b : i # id => c[i] = b[i]
  PROVE  /\ SumOver(b, field) \in Nat
         /\ SumOver(c, field) = SumOver(b, field) + k
<1> DEFINE n == Len(b)
           v == ValuesOf(b, field)
           w == ValuesOf(c, field)
<1>1. n \in Nat /\ id \in 1 .. n /\ v \in [1 .. n -> Nat]
  BY FieldType
<1>2. \A i \in 1 .. n : w[i] = IF i = id THEN v[i] + k ELSE v[i]
  BY DEF ValuesOf
<1>3. Len(b) = n /\ Len(c) = n
  OBVIOUS
<1> HIDE DEF n, v, w
<1>4. PICK s : IsSum(s, v, n)
  BY <1>1, SumExists
<1> DEFINE t == [i \in 0 .. n |-> IF i < id THEN s[i] ELSE s[i] + k]
<1>5. \A i \in 0 .. n : s[i] \in Nat
  BY <1>4 DEF IsSum
<1>6. IsSum(t, w, n)
  <2>1. t \in [0 .. n -> Nat]
    BY <1>1, <1>5
  <2>3. t[0] = 0
    BY <1>1, <1>4 DEF IsSum
  <2>2. ASSUME NEW i \in 1 .. n PROVE t[i] = t[i - 1] + w[i]
    <3>1. s[i] = s[i - 1] + v[i] /\ s[i - 1] \in Nat /\ v[i] \in Nat
      BY <1>1, <1>4, <1>5 DEF IsSum
    <3>2. t[i] = (IF i < id THEN s[i] ELSE s[i] + k)
      BY <1>1
    <3>3. t[i - 1] = (IF i - 1 < id THEN s[i - 1] ELSE s[i - 1] + k)
      BY <1>1
    <3> HIDE DEF t
    <3>4. CASE i < id
      BY <1>1, <1>2, <3>1, <3>2, <3>3, <3>4
    <3>5. CASE i = id
      BY <1>1, <1>2, <3>1, <3>2, <3>3, <3>5
    <3>6. CASE i > id
      <4>1. t[i] = s[i] + k /\ t[i - 1] = s[i - 1] + k /\ w[i] = v[i]
        BY <1>1, <1>2, <3>2, <3>3, <3>6
      <4> QED BY <3>1, <4>1
    <3> QED BY <1>1, <3>4, <3>5, <3>6
  <2> HIDE DEF t
  <2> QED BY <2>1, <2>2, <2>3 DEF IsSum
<1>7. t[n] = s[n] + k /\ s[n] \in Nat
  BY <1>1, <1>5
<1> HIDE DEF t
<1>8. SumOver(b, field) = s[n] /\ SumOver(c, field) = t[n]
  BY <1>1, <1>3, <1>4, <1>6, SumOverIs DEF v, w
<1> QED BY <1>7, <1>8

\* One more block.
LEMMA SumOfMore ==
  ASSUME NEW b \in Seq(Block), NEW c \in Seq(Block), NEW field \in Field,
         Len(c) = Len(b) + 1, \A i \in DOMAIN b : c[i] = b[i]
  PROVE  /\ SumOver(b, field) \in Nat
         /\ SumOver(c, field) = SumOver(b, field) + c[Len(b) + 1][field]
<1> DEFINE n == Len(b)
           v == ValuesOf(b, field)
           w == ValuesOf(c, field)
           k == c[Len(b) + 1][field]
<1>1. n \in Nat /\ v \in [1 .. n -> Nat]
  BY FieldType
<1>2. \A i \in 1 .. n : w[i] = v[i]
  BY DEF ValuesOf
<1>3. w[n + 1] = k /\ k \in Nat
  <2>1. w \in [1 .. n + 1 -> Nat]
    BY FieldType
  <2>2. w[n + 1] = k
    BY DEF ValuesOf
  <2> HIDE DEF n, w
  <2> QED BY <1>1, <2>1, <2>2
<1>4. Len(b) = n /\ Len(c) = n + 1
  OBVIOUS
<1> HIDE DEF n, v, w, k
<1>5. PICK s : IsSum(s, v, n)
  BY <1>1, SumExists
<1>6. \A i \in 0 .. n : s[i] \in Nat
  BY <1>5 DEF IsSum
<1> DEFINE t == [i \in 0 .. n + 1 |-> IF i = n + 1 THEN s[n] + k ELSE s[i]]
<1>7. IsSum(t, w, n + 1)
  <2>1. t \in [0 .. n + 1 -> Nat] /\ t[0] = 0
    BY <1>1, <1>3, <1>5, <1>6 DEF IsSum
  <2>2. ASSUME NEW i \in 1 .. n + 1 PROVE t[i] = t[i - 1] + w[i]
    <3>1. CASE i = n + 1
      BY <1>1, <1>3, <3>1
    <3>2. CASE i # n + 1
      BY <1>1, <1>2, <1>5, <3>2 DEF IsSum
    <3> QED BY <3>1, <3>2
  <2> HIDE DEF t
  <2> QED BY <2>1, <2>2 DEF IsSum
<1>8. t[n + 1] = s[n] + k /\ s[n] \in Nat
  BY <1>1, <1>6
<1> HIDE DEF t
<1>9. SumOver(b, field) = s[n]
  BY <1>1, <1>4, <1>5, SumOverIs DEF v
<1>10. SumOver(c, field) = t[n + 1]
  BY <1>1, <1>4, <1>7, SumOverIs DEF w
<1> QED BY <1>8, <1>9, <1>10 DEF k, n

-----------------------------------------------------------------------------
(* Control flow.  An instruction goes on to the next one, makes a transfer *)
(* that is recorded, or halts.                                             *)

GoesOn(d) ==
    /\ ~EndsBlock(d.op) /\ Running'
    /\ UNCHANGED branch_stats /\ pc' = Wrap(pc + 4)
Transfers(d) ==
    /\ EndsBlock(d.op) /\ Running'
    /\ \E taken \in BOOLEAN : RecordTransfer(taken, pc')
Halts ==
    /\ ~Running' /\ UNCHANGED branch_stats

LEMMA FlowEffect ==
  ASSUME NEW d, Fetch(d), Execute(d), Running
  PROVE  /\ GoesOn(d) \/ Transfers(d) \/ Halts
         /\ mcause' = mcause
            \/ mcause' \in {"ECALL", "LOAD_MISALIGNED", "LOAD_FAULT", "STORE_MISALIGNED",
                            "STORE_FAULT", "ILLEGAL_INSTRUCTION"}
<1>1. \A next : Retire(next) => pc' = next /\ Running' /\ mcause' = mcause
  BY DEF Retire, NoTrap, Running
<1>2. \A fault : Halt(fault) => ~Running' /\ mcause' = fault.cause
  BY DEF Halt, Running
<1>3. \A value : Returns(value) => Running' /\ pc' = Wrap(pc + 4) /\ mcause' = "ECALL"
  BY DEF Returns, Running
<1>4. CASE Compute(d) \/ Fence(d)
  BY <1>1, <1>4 DEF Compute, Fence, GoesOn, EndsBlock
<1>5. CASE Branch(d)
  <2> DEFINE taken == Taken(d.cond, x[d.rs1], x[d.rs2])
             target == IF taken THEN Wrap(pc + d.imm) ELSE Wrap(pc + 4)
  <2>1. taken \in BOOLEAN
    BY OperandTypes, TakenType DEF Fetch, Instruction
  <2>2. RecordTransfer(taken, target) /\ Retire(target) /\ d.op = "branch"
    BY <1>5 DEF Branch
  <2> HIDE DEF taken, target
  <2> QED BY <1>1, <2>1, <2>2 DEF Transfers, EndsBlock
<1>6. CASE Jump(d)
  <2> DEFINE sum == Wrap((IF d.op = "jal" THEN pc ELSE x[d.rs1]) + d.imm)
             target == IF d.op = "jal" THEN sum ELSE sum - (sum % 2)
  <2>1. RecordTransfer(TRUE, target) /\ Retire(target) /\ d.op \in {"jal", "jalr"}
    BY <1>6 DEF Jump
  <2> HIDE DEF target
  <2> QED BY <1>1, <2>1 DEF Transfers, EndsBlock
<1>7. CASE Load(d)
  <2> DEFINE fault == LoadFault(mem, Wrap(x[d.rs1] + d.imm), d.size)
  <2>1. /\ IF fault # NoFault THEN Halt(fault) ELSE Retire(Wrap(pc + 4))
        /\ UNCHANGED branch_stats /\ d.op = "load"
    BY <1>7 DEF Load
  <2>2. fault = NoFault \/ fault.cause \in {"LOAD_MISALIGNED", "LOAD_FAULT"}
    <3> DEFINE addr == Wrap(x[d.rs1] + d.imm)
    <3>1. addr \in Address /\ d.size \in AccessSize
      BY OperandTypes, WrapType
    <3>2. fault = AccessFault(mem, addr, d.size, "LOAD_MISALIGNED", "LOAD_FAULT")
      BY DEF LoadFault
    <3> HIDE DEF addr, fault
    <3> QED BY <3>1, <3>2, AccessFaultCases
  <2> HIDE DEF fault
  <2> QED BY <1>1, <1>2, <2>1, <2>2 DEF GoesOn, Halts, EndsBlock
<1>8. CASE Store(d)
  <2> DEFINE fault == StoreFault(mem, Wrap(x[d.rs1] + d.imm), d.size)
  <2>1. /\ IF fault # NoFault THEN Halt(fault) ELSE Retire(Wrap(pc + 4))
        /\ UNCHANGED branch_stats /\ d.op = "store"
    BY <1>8 DEF Store
  <2>2. fault = NoFault \/ fault.cause \in {"STORE_MISALIGNED", "STORE_FAULT"}
    <3> DEFINE addr == Wrap(x[d.rs1] + d.imm)
    <3>1. addr \in Address /\ d.size \in AccessSize
      BY OperandTypes, WrapType
    <3>2. fault = AccessFault(mem, addr, d.size, "STORE_MISALIGNED", "STORE_FAULT")
      BY DEF StoreFault
    <3> HIDE DEF addr, fault
    <3> QED BY <3>1, <3>2, AccessFaultCases
  <2> HIDE DEF fault
  <2> QED BY <1>1, <1>2, <2>1, <2>2 DEF GoesOn, Halts, EndsBlock
<1>9. CASE Ecall(d)
  <2>1. UNCHANGED branch_stats /\ d.op = "ecall"
    BY <1>9 DEF Ecall
  <2>2. CASE Write
    <3>1. (\E value : Returns(value)) \/ \E value : Halt(Fault("LOAD_FAULT", value))
      BY <2>2 DEF Write
    <3>2. CASE \E value : Returns(value)
      BY <1>3, <2>1, <3>2 DEF GoesOn, EndsBlock
    <3>3. CASE \E value : Halt(Fault("LOAD_FAULT", value))
      BY <1>2, <2>1, <3>3 DEF Halts, Fault
    <3> QED BY <3>1, <3>2, <3>3
  <2>3. CASE Exit
    BY <2>1, <2>3 DEF Exit, Halts, Running
  <2>4. CASE Brk \/ Unsupported
    <3>1. \E value : Returns(value)
      BY <2>4 DEF Brk, Unsupported
    <3> QED BY <1>3, <2>1, <3>1 DEF GoesOn, EndsBlock
  <2> QED BY <1>9, <2>2, <2>3, <2>4 DEF Ecall
<1>10. CASE Ebreak(d)
  BY <1>10 DEF Ebreak, Halts, Running
<1>11. CASE Illegal(d)
  <2>1. \E raw : Halt(Fault("ILLEGAL_INSTRUCTION", raw))
    BY <1>11 DEF Illegal
  <2>2. UNCHANGED branch_stats
    BY <1>11 DEF Illegal
  <2> QED BY <1>2, <2>1, <2>2 DEF Halts, Fault
<1> QED BY <1>4, <1>5, <1>6, <1>7, <1>8, <1>9, <1>10, <1>11 DEF Execute

-----------------------------------------------------------------------------
(* The profile.  The block counts are sums of what single steps add, and   *)
(* nothing has trapped while the program runs.                             *)

DistinctEntries(b) == \A i, j \in DOMAIN b : b[i].entry_pc = b[j].entry_pc => i = j
ExecutedBlocks(b) == \A i \in DOMAIN b : b[i].executions \in 1 .. b[i].instructions
Entering == IF block_entering THEN 0 ELSE 1

Partition ==
    /\ SumOver(profile.blocks, "instructions") = profile.instructions
    /\ inst_count = profile.instructions + (IF FetchTrapped THEN 1 ELSE 0)
    /\ Running => /\ SumOver(profile.blocks, "executions") = branch_stats.control_total + Entering
                  /\ ~FetchTrapped
    /\ DistinctEntries(profile.blocks)
    /\ ExecutedBlocks(profile.blocks)

LEMMA PartitionIsProperty == Partition => BlocksPartition
BY DEF Partition, BlocksPartition, DistinctEntries, ExecutedBlocks, Entering, IsInjective

\* What profiling one instruction does to the sums and to the blocks.
LEMMA ProfilePartition ==
  ASSUME BlockProfile, pc \in Address, Profile,
         DistinctEntries(profile.blocks), ExecutedBlocks(profile.blocks)
  PROVE  /\ SumOver(profile'.blocks, "instructions") = SumOver(profile.blocks, "instructions") + 1
         /\ SumOver(profile'.blocks, "executions")
              = SumOver(profile.blocks, "executions") + (IF block_entering THEN 1 ELSE 0)
         /\ SumOver(profile.blocks, "executions") \in Nat
         /\ DistinctEntries(profile'.blocks) /\ ExecutedBlocks(profile'.blocks)
<1> DEFINE b == profile.blocks
           c == profile'.blocks
           id == current_block_id'
           one == IF block_entering THEN 1 ELSE 0
<1>1. b \in Seq(Block) /\ one \in Nat
  BY DEF BlockProfile
<1>2. /\ c \in Seq(Block)
      /\ id \in DOMAIN c
      /\ \A i \in DOMAIN b : i \in DOMAIN c /\ (i # id => c[i] = b[i])
      /\ \/ /\ id \in DOMAIN b /\ Len(c) = Len(b)
            /\ c[id] = Counted(b[id], one)
         \/ /\ one = 1 /\ id = Len(b) + 1 /\ Len(c) = Len(b) + 1
            /\ c[id] = [entry_pc |-> pc, executions |-> 1, instructions |-> 1]
            /\ \A i \in DOMAIN b : b[i].entry_pc # pc
  BY ProfileEffect
<1>3. DistinctEntries(b) /\ ExecutedBlocks(b)
  OBVIOUS
<1>4. "instructions" \in Field /\ "executions" \in Field
  BY DEF Field
<1> HIDE DEF b, c, id, one
<1>5. CASE /\ id \in DOMAIN b /\ Len(c) = Len(b)
           /\ c[id] = Counted(b[id], one)
  <2>1. /\ c[id].entry_pc = b[id].entry_pc /\ c[id].executions = b[id].executions + one
        /\ c[id].instructions = b[id].instructions + 1
    BY <1>5 DEF Counted
  <2>2. c[id]["instructions"] = b[id]["instructions"] + 1
    BY <2>1
  <2>3. c[id]["executions"] = b[id]["executions"] + one
    BY <2>1
  <2>4. \A i \in DOMAIN b : i # id => c[i] = b[i]
    BY <1>2
  <2>5. SumOver(c, "instructions") = SumOver(b, "instructions") + 1
    <3> DEFINE k == 1
    <3>1. k \in Nat /\ c[id]["instructions"] = b[id]["instructions"] + k
      BY <2>2
    <3> HIDE DEF k
    <3>2. SumOver(c, "instructions") = SumOver(b, "instructions") + k
      BY <1>1, <1>2, <1>4, <1>5, <2>4, <3>1, SumOfIncrease
    <3> QED BY <3>2 DEF k
  <2>6. /\ SumOver(b, "executions") \in Nat
        /\ SumOver(c, "executions") = SumOver(b, "executions") + one
    BY <1>1, <1>2, <1>4, <1>5, <2>3, <2>4, SumOfIncrease
  <2>7. DOMAIN c = DOMAIN b
    BY <1>1, <1>2, <1>5
  <2>8. \A i \in DOMAIN b : c[i].entry_pc = b[i].entry_pc
    BY <2>1, <2>4
  <2>9. DistinctEntries(c)
    BY <1>3, <2>7, <2>8 DEF DistinctEntries
  <2>10. ExecutedBlocks(c)
    <3> SUFFICES ASSUME NEW i \in DOMAIN b PROVE c[i].executions \in 1 .. c[i].instructions
      BY <2>7 DEF ExecutedBlocks
    <3>1. b[i].executions \in 1 .. b[i].instructions
      BY <1>3 DEF ExecutedBlocks
    <3>2. one \in {0, 1}
      BY DEF one
    <3>3. b[i] \in Block
      BY <1>1
    <3>4. CASE i = id
      BY <2>1, <3>1, <3>2, <3>3, <3>4 DEF Block
    <3>5. CASE i # id
      BY <2>4, <3>1, <3>5
    <3> QED BY <3>4, <3>5
  <2> QED BY <2>5, <2>6, <2>9, <2>10 DEF b, c, one
<1>6. CASE /\ one = 1 /\ id = Len(b) + 1 /\ Len(c) = Len(b) + 1
           /\ c[id] = [entry_pc |-> pc, executions |-> 1, instructions |-> 1]
           /\ \A i \in DOMAIN b : b[i].entry_pc # pc
  <2>1. \A i \in DOMAIN b : c[i] = b[i]
    <3>1. id \notin DOMAIN b
      BY <1>1, <1>6
    <3> QED BY <1>2, <3>1
  <2>2. /\ c[id].entry_pc = pc /\ c[id].executions = 1 /\ c[id].instructions = 1
    BY <1>6
  <2>3. c[Len(b) + 1]["instructions"] = 1
    BY <1>6
  <2>4. c[Len(b) + 1]["executions"] = one
    BY <1>6
  <2>5. SumOver(c, "instructions") = SumOver(b, "instructions") + 1
    BY <1>1, <1>2, <1>4, <1>6, <2>1, <2>3, SumOfMore
  <2>6. /\ SumOver(b, "executions") \in Nat
        /\ SumOver(c, "executions") = SumOver(b, "executions") + one
    BY <1>1, <1>2, <1>4, <1>6, <2>1, <2>4, SumOfMore
  <2>7. DOMAIN c = DOMAIN b \cup {id}
    BY <1>1, <1>2, <1>6
  <2>8. DistinctEntries(c)
    BY <1>3, <1>6, <2>1, <2>2, <2>7 DEF DistinctEntries
  <2>9. ExecutedBlocks(c)
    BY <1>3, <2>1, <2>2, <2>7 DEF ExecutedBlocks
  <2> QED BY <2>5, <2>6, <2>8, <2>9 DEF b, c, one
<1> QED BY <1>2, <1>5, <1>6

LEMMA ExecutesPartition ==
  ASSUME TypeInv, Partition, Running, inst_count' = inst_count + 1, Executes
  PROVE  Partition'
<1> DEFINE d == code[pc]
           ct == branch_stats.control_total
           e == SumOver(profile.blocks, "executions")
           f == SumOver(profile'.blocks, "executions")
<1>1. Fetch(d) /\ Execute(d) /\ Profile /\ block_entering' = EndsBlock(d.op)
  BY ExecutesType DEF Executes
<1>2. /\ SumOver(profile'.blocks, "instructions") = SumOver(profile.blocks, "instructions") + 1
      /\ f = e + (IF block_entering THEN 1 ELSE 0)
      /\ e \in Nat
      /\ DistinctEntries(profile'.blocks) /\ ExecutedBlocks(profile'.blocks)
  BY <1>1, ProfilePartition DEF TypeInv, TrapState, Partition
<1>3. profile'.instructions = profile.instructions + 1
  BY <1>1, ProfileEffect DEF TypeInv, TrapState
<1>4. /\ GoesOn(d) \/ Transfers(d) \/ Halts
      /\ ~FetchTrapped'
  <2> HIDE DEF d
  <2> QED BY <1>1, FlowEffect DEF Partition, FetchTrapped
<1>5. inst_count' = profile'.instructions + (IF FetchTrapped' THEN 1 ELSE 0)
  <2>1. inst_count \in Nat /\ profile.instructions \in Nat /\ inst_count = profile.instructions
    BY DEF TypeInv, TransferTrace, BlockProfile, Partition
  <2> QED BY <1>3, <1>4, <2>1
<1>6. Running' => f = branch_stats'.control_total + Entering'
  <2>1. ct \in Nat /\ e = ct + Entering /\ block_entering \in BOOLEAN
    BY DEF TypeInv, TransferTrace, BlockProfile, Partition
  <2>2. GoesOn(d) => branch_stats'.control_total = ct /\ ~block_entering'
    BY <1>1 DEF GoesOn
  <2>3. Transfers(d) => branch_stats'.control_total = ct + 1 /\ block_entering'
    BY <1>1 DEF Transfers, RecordTransfer
  <2>4. Halts => ~Running'
    BY DEF Halts
  <2> HIDE DEF d, ct, e, f
  <2>5. f = ct + 1
    BY <1>2, <2>1 DEF Entering
  <2> QED BY <1>4, <2>1, <2>2, <2>3, <2>4, <2>5 DEF Entering
<1> QED BY <1>2, <1>3, <1>4, <1>5, <1>6 DEF Partition

LEMMA FetchTrapsPartition ==
  ASSUME TypeInv, Partition, Running, inst_count' = inst_count + 1, FetchTraps
  PROVE  Partition'
<1>1. UNCHANGED profile /\ ~Running'
  BY DEF FetchTraps, Halt, Running
<1>2. FetchTrapped'
  <2>1. FetchFault(mem, pc).cause
          \in {"INSTRUCTION_ADDRESS_MISALIGNED", "INSTRUCTION_ACCESS_FAULT"}
    BY FetchCases DEF TypeInv, FetchTraps
  <2> QED BY <2>1 DEF FetchTraps, Halt, FetchTrapped
<1>3. inst_count = profile.instructions /\ profile.instructions \in Nat
  BY DEF TypeInv, Partition, BlockProfile
<1> QED BY <1>1, <1>2, <1>3 DEF Partition

LEMMA InitPartition == Init => Partition
<1> SUFFICES ASSUME Init PROVE Partition
  OBVIOUS
<1>1. /\ profile.instructions = 0 /\ profile.blocks = <<>>
      /\ branch_stats.control_total = 0 /\ Entering = 0 /\ inst_count = 0
      /\ ~FetchTrapped
  BY DEF Init, Entering, FetchTrapped
<1>2. SumOver(profile.blocks, "instructions") = 0 /\ SumOver(profile.blocks, "executions") = 0
  BY <1>1, SumOfEmpty
<1> QED BY <1>1, <1>2 DEF Partition, DistinctEntries, ExecutedBlocks

LEMMA StepPartition == TypeInv /\ Partition /\ [Next]_vars => Partition'
<1> SUFFICES ASSUME TypeInv, Partition, [Next]_vars PROVE Partition'
  OBVIOUS
<1>1. CASE Next
  BY <1>1, ExecutesPartition, FetchTrapsPartition DEF Next, step
<1>2. CASE UNCHANGED vars
  BY <1>2 DEF vars, cpu, Partition, Running, FetchTrapped, Entering
<1> QED BY <1>1, <1>2

\* The profile's blocks partition the run: every instruction fetched counts in
\* one block, every block was executed, blocks have entries of their own, and the
\* executions are the first entry and the transfers since (icache_stats.cpp,
\* record_block_entry and record_instruction; interpreter.cpp, step).
THEOREM ProfilePartitionsRun == Spec => []BlocksPartition
BY InitPartition, StepPartition, TypeInvariant, PartitionIsProperty, PTL DEF Spec

-----------------------------------------------------------------------------
(* The path.  After transfer k of a trace t control runs straight on from  *)
(* its target; transfer 0 stands for the start of the run.                 *)

From(t, k) == IF k = 0 THEN Entry ELSE t[k].target
CountAt(t, k) == IF k = 0 THEN 0 ELSE t[k].inst_count
Straight(t, k, n) == Wrap(From(t, k) + 4 * (n - CountAt(t, k)))

Trace == branch_stats.trace
Total == branch_stats.control_total
Entries == profile.entry_sequence

PathFollows(t) ==
    \A k \in DOMAIN t :
        t[k].pc = Wrap(From(t, k - 1) + 4 * (t[k].inst_count - CountAt(t, k - 1) - 1))

EntriesFollow(es, b, t) ==
    \A k \in DOMAIN es :
        /\ k = 1 => b[es[k]].entry_pc = Entry
        /\ k - 1 \in DOMAIN t => b[es[k]].entry_pc = t[k - 1].target

\* What is recorded is the beginning of what happened; while the program runs
\* the address of the instruction to come is where the last transfer leads.
Path ==
    /\ PathFollows(Trace)
    /\ EntriesFollow(Entries, profile.blocks, Trace)
    /\ Len(Trace) = IF Total <= MaxTrace THEN Total ELSE MaxTrace
    /\ Running =>
         /\ Len(Trace) = Total => pc = Straight(Trace, Total, inst_count)
         /\ block_entering /\ Total = 0 => pc = Entry
         /\ block_entering /\ Total > 0 /\ Len(Trace) = Total => pc = Trace[Total].target
         /\ Len(Entries) = IF Total + Entering <= MaxEntries THEN Total + Entering
                           ELSE MaxEntries

LEMMA PathIsProperty == Path => TransfersTellThePath
<1> SUFFICES ASSUME Path PROVE TransfersTellThePath
  OBVIOUS
<1>1. PathFollowsTransfers
  BY DEF Path, PathFollows, PathFollowsTransfers, Straight, From, CountAt, Trace, Total
<1>2. EntriesFollowTransfers
  BY DEF Path, EntriesFollow, EntriesFollowTransfers, Trace, Entries
<1> QED BY <1>1, <1>2 DEF TransfersTellThePath

LEMMA PathTypes ==
  ASSUME TypeInv
  PROVE  /\ Trace \in Seq(Transfer) /\ Len(Trace) <= MaxTrace /\ Total \in Nat
         /\ Entries \in Seq(Nat) /\ Len(Entries) <= MaxEntries
         /\ \A i \in DOMAIN Entries : Entries[i] \in DOMAIN profile.blocks
         /\ MaxTrace \in Nat /\ MaxEntries \in Nat /\ inst_count \in Nat
         /\ block_entering \in BOOLEAN /\ Entry \in Address /\ pc \in Address
BY InterpreterAssumption
   DEF TypeInv, TransferTrace, BlockProfile, TrapState, Trace, Total, Entries

LEMMA StraightTypes ==
  ASSUME NEW t \in Seq(Transfer), NEW k \in 0 .. Len(t)
  PROVE  From(t, k) \in Address /\ From(t, k) \in Int /\ CountAt(t, k) \in Nat
<1>1. k # 0 => t[k] \in Transfer
  OBVIOUS
<1>2. From(t, k) \in Address /\ CountAt(t, k) \in Nat
  BY <1>1, InterpreterAssumption DEF From, CountAt, Transfer
<1> QED BY <1>2, WordValuesType DEF Address

\* One instruction further on, without a transfer.
LEMMA StraightOn ==
  ASSUME NEW t \in Seq(Transfer), NEW k \in 0 .. Len(t), NEW n \in Nat
  PROVE  Straight(t, k, n + 1) = Wrap(Straight(t, k, n) + 4)
<1> DEFINE a == From(t, k)
           c == CountAt(t, k)
           m == a + 4 * (n - c)
<1>1. a \in Int /\ c \in Nat
  BY StraightTypes
<1> HIDE DEF a, c
<1>2. m \in Int /\ a + 4 * ((n + 1) - c) = m + 4
  BY <1>1
<1> HIDE DEF m
<1>3. Wrap(Wrap(m) + 4) = Wrap(m + 4)
  BY <1>2, WrapSum
<1>4. Straight(t, k, n) = Wrap(m)
  BY DEF Straight, a, c, m
<1>5. Straight(t, k, n + 1) = Wrap(a + 4 * ((n + 1) - c))
  BY DEF Straight, a, c
<1> QED BY <1>2, <1>3, <1>4, <1>5

\* A transfer that is recorded: the trace grows by where it was and leads.
LEMMA TransferFollows ==
  ASSUME TypeInv, Path, Running, NEW taken \in BOOLEAN, pc' \in Address,
         inst_count' = inst_count + 1, RecordTransfer(taken, pc'), code[pc].op \in Opcode
  PROVE  /\ Total' = Total + 1
         /\ PathFollows(Trace')
         /\ Len(Trace') = IF Total + 1 <= MaxTrace THEN Total + 1 ELSE MaxTrace
         /\ \A i \in DOMAIN Trace : i \in DOMAIN Trace' /\ Trace'[i] = Trace[i]
         /\ \A i \in DOMAIN Trace' : i \in DOMAIN Trace \/ i = Total + 1
         /\ Len(Trace') = Total + 1 =>
                /\ pc' = Straight(Trace', Total + 1, inst_count')
                /\ pc' = Trace'[Total + 1].target
<1> DEFINE t == Trace
           u == Trace'
           ct == Total
           n == inst_count
           rec == TransferRecord(taken, pc')
<1>1. /\ t \in Seq(Transfer) /\ Len(t) <= MaxTrace /\ ct \in Nat /\ MaxTrace \in Nat
      /\ n \in Nat /\ pc \in Address
  BY PathTypes
<1>2. /\ PathFollows(t) /\ Len(t) = IF ct <= MaxTrace THEN ct ELSE MaxTrace
      /\ Len(t) = ct => pc = Straight(t, ct, n)
  BY DEF Path
<1>3. u = AppendUpTo(MaxTrace, t, rec) /\ Total' = ct + 1
  BY DEF RecordTransfer, Trace, Total
<1>4. rec.pc = pc /\ rec.target = pc' /\ rec.inst_count = n + 1 /\ rec \in Transfer
  <2>1. n + 1 \in Nat
    BY <1>1
  <2> QED BY <1>1, <2>1 DEF TransferRecord, Transfer
<1>5. n' = n + 1 /\ pc' \in Address
  OBVIOUS
<1> HIDE DEF t, u, ct, n, rec
<1>6. CASE Len(t) < MaxTrace
  <2>1. ct = Len(t) /\ ct + 1 <= MaxTrace /\ u = Append(t, rec)
    BY <1>1, <1>2, <1>3, <1>6 DEF AppendUpTo
  <2>2. /\ Len(u) = ct + 1 /\ u[ct + 1] = rec /\ u \in Seq(Transfer)
        /\ \A i \in DOMAIN t : i \in DOMAIN u /\ u[i] = t[i]
        /\ \A i \in DOMAIN u : i \in DOMAIN t \/ i = ct + 1
        /\ DOMAIN t = 1 .. ct
    BY <1>1, <1>4, <2>1
  <2>3. \A k \in 0 .. ct : From(u, k) = From(t, k) /\ CountAt(u, k) = CountAt(t, k)
    BY <1>1, <2>2 DEF From, CountAt
  <2>4. PathFollows(u)
    <3> SUFFICES ASSUME NEW k \in DOMAIN u
                 PROVE  u[k].pc = Wrap(From(u, k - 1)
                                         + 4 * (u[k].inst_count - CountAt(u, k - 1) - 1))
      BY DEF PathFollows
    <3>1. CASE k \in DOMAIN t
      <4>1. k - 1 \in 0 .. ct
        BY <1>1, <2>2, <3>1
      <4> QED BY <1>2, <2>2, <2>3, <3>1, <4>1 DEF PathFollows
    <3>2. CASE k = ct + 1
      <4>1. k - 1 = ct /\ ct \in 0 .. ct /\ ct \in 0 .. Len(t)
        BY <1>1, <2>1, <3>2
      <4>2. u[k].pc = pc /\ u[k].inst_count = n + 1
        BY <1>4, <2>2, <3>2
      <4>3. pc = Wrap(From(t, ct) + 4 * (n - CountAt(t, ct)))
        BY <1>2, <2>1 DEF Straight
      <4>4. (n + 1) - CountAt(t, ct) - 1 = n - CountAt(t, ct)
        BY <1>1, <4>1, StraightTypes
      <4>5. From(u, k - 1) = From(t, ct) /\ CountAt(u, k - 1) = CountAt(t, ct)
        BY <2>3, <4>1
      <4>6. u[k].inst_count - CountAt(u, k - 1) - 1 = n - CountAt(t, ct)
        BY <4>2, <4>4, <4>5
      <4> QED BY <4>2, <4>3, <4>5, <4>6
    <3> QED BY <2>2, <3>1, <3>2
  <2>5. pc' = Straight(u, ct + 1, n + 1)
    <3>1. From(u, ct + 1) = pc' /\ CountAt(u, ct + 1) = n + 1
      BY <1>1, <1>4, <2>2 DEF From, CountAt
    <3> DEFINE next == pc'
               z == (n + 1) - (n + 1)
    <3>2. next \in Address /\ next \in Int
      BY <1>5, WordValuesType DEF Address
    <3>3. Wrap(next) = next
      BY <3>2, WrapIsIdentity
    <3>4. z = 0
      BY <1>1
    <3>5. Straight(u, ct + 1, n + 1) = Wrap(next + 4 * z)
      BY <3>1 DEF Straight
    <3> HIDE DEF next, z
    <3>6. next + 4 * z = next
      BY <3>2, <3>4
    <3>7. Straight(u, ct + 1, n + 1) = next
      BY <3>3, <3>5, <3>6
    <3> QED BY <3>7 DEF next
  <2> QED BY <1>1, <1>3, <1>4, <1>5, <2>1, <2>2, <2>4, <2>5 DEF t, u, ct, n
<1>7. CASE ~(Len(t) < MaxTrace)
  <2>1. u = t /\ Len(t) = MaxTrace /\ ct >= MaxTrace
    BY <1>1, <1>2, <1>3, <1>7 DEF AppendUpTo
  <2>2. Len(u) = MaxTrace /\ ~(ct + 1 <= MaxTrace) /\ Len(u) # ct + 1
    BY <1>1, <2>1
  <2> QED BY <1>2, <1>3, <2>1, <2>2 DEF t, u, ct, n
<1> QED BY <1>6, <1>7

\* The entries that are recorded go on with where the last transfer led.
LEMMA EntriesGoOn ==
  ASSUME TypeInv, Path, Running, Profile, NEW u,
         \A i \in DOMAIN Trace : i \in DOMAIN u /\ u[i] = Trace[i],
         \A i \in DOMAIN u : i \in DOMAIN Trace \/ i = Total + 1
  PROVE  /\ EntriesFollow(Entries', profile'.blocks, u)
         /\ Len(Entries') = IF Total + 1 <= MaxEntries THEN Total + 1 ELSE MaxEntries
<1> DEFINE es == Entries
           fs == Entries'
           b == profile.blocks
           c == profile'.blocks
           t == Trace
           ct == Total
           id == current_block_id'
<1>1. /\ t \in Seq(Transfer) /\ ct \in Nat /\ es \in Seq(Nat) /\ Len(es) <= MaxEntries
      /\ \A i \in DOMAIN es : es[i] \in DOMAIN b
      /\ MaxEntries \in Nat /\ MaxTrace \in Nat /\ block_entering \in BOOLEAN
  BY PathTypes
<1>2. /\ EntriesFollow(es, b, t)
      /\ Len(t) = IF ct <= MaxTrace THEN ct ELSE MaxTrace
      /\ block_entering /\ ct = 0 => pc = Entry
      /\ block_entering /\ ct > 0 /\ Len(t) = ct => pc = t[ct].target
      /\ Len(es) = IF ct + Entering <= MaxEntries THEN ct + Entering ELSE MaxEntries
  BY DEF Path
<1>3. /\ fs = IF block_entering THEN AppendUpTo(MaxEntries, es, id) ELSE es
      /\ id \in DOMAIN c /\ c \in Seq(Block)
      /\ \A i \in DOMAIN b : c[i].entry_pc = b[i].entry_pc
      /\ block_entering => c[id].entry_pc = pc
  <2>1. BlockProfile /\ pc \in Address
    BY DEF TypeInv, TrapState
  <2> HIDE DEF b, c
  <2>2. /\ profile'.entry_sequence =
             IF block_entering THEN AppendUpTo(MaxEntries, profile.entry_sequence, id)
             ELSE profile.entry_sequence
        /\ id \in DOMAIN c /\ c \in Seq(Block)
        /\ \A i \in DOMAIN b : i \in DOMAIN c /\ (i # id => c[i] = b[i])
        /\ \/ /\ id \in DOMAIN b
              /\ c[id] = Counted(b[id], IF block_entering THEN 1 ELSE 0)
              /\ block_entering => b[id].entry_pc = pc
           \/ /\ id = Len(b) + 1
              /\ c[id] = [entry_pc |-> pc, executions |-> 1, instructions |-> 1]
    BY <2>1, ProfileEffect DEF b, c
  <2>3. b \in Seq(Block)
    BY <2>1 DEF BlockProfile, b
  <2>4. CASE /\ id \in DOMAIN b
             /\ c[id] = Counted(b[id], IF block_entering THEN 1 ELSE 0)
             /\ block_entering => b[id].entry_pc = pc
    <3>1. c[id].entry_pc = b[id].entry_pc
      BY <2>4 DEF Counted
    <3> QED BY <2>2, <2>4, <3>1 DEF Entries
  <2>5. CASE /\ id = Len(b) + 1
             /\ c[id] = [entry_pc |-> pc, executions |-> 1, instructions |-> 1]
    <3>1. id \notin DOMAIN b
      BY <2>3, <2>5
    <3> QED BY <2>2, <2>5, <3>1 DEF Entries
  <2> QED BY <2>2, <2>4, <2>5
<1>4. Entering = IF block_entering THEN 0 ELSE 1
  BY DEF Entering
<1>5. /\ \A i \in DOMAIN t : i \in DOMAIN u /\ u[i] = t[i]
      /\ \A i \in DOMAIN u : i \in DOMAIN t \/ i = ct + 1
  OBVIOUS
<1> HIDE DEF es, fs, b, c, t, ct, id
<1>6. DOMAIN t = 1 .. Len(t) /\ DOMAIN es = 1 .. Len(es) /\ Len(t) \in Nat /\ Len(es) \in Nat
  BY <1>1
<1>7. Len(t) <= ct /\ Len(es) <= ct + 1
  BY <1>1, <1>2, <1>4, <1>6
\* The entries there are.
<1>8. ASSUME NEW k \in DOMAIN es
      PROVE  /\ k = 1 => c[es[k]].entry_pc = Entry
             /\ k - 1 \in DOMAIN u => c[es[k]].entry_pc = u[k - 1].target
  <2>1. c[es[k]].entry_pc = b[es[k]].entry_pc
    BY <1>1, <1>3
  <2>2. k - 1 # ct + 1
    BY <1>1, <1>6, <1>7
  <2>3. k - 1 \in DOMAIN u => k - 1 \in DOMAIN t /\ u[k - 1] = t[k - 1]
    BY <1>5, <2>2
  <2>4. /\ k = 1 => b[es[k]].entry_pc = Entry
        /\ k - 1 \in DOMAIN t => b[es[k]].entry_pc = t[k - 1].target
    BY <1>2 DEF EntriesFollow
  <2> QED BY <2>1, <2>3, <2>4
<1>9. CASE block_entering /\ Len(es) < MaxEntries
  <2>1. Len(es) = ct
    BY <1>1, <1>2, <1>4, <1>6, <1>9
  <2>2. /\ fs = Append(es, id) /\ Len(fs) = ct + 1
        /\ \A k \in DOMAIN es : fs[k] = es[k]
        /\ fs[ct + 1] = id
        /\ \A k \in DOMAIN fs : k \in DOMAIN es \/ k = ct + 1
    <3>1. fs = Append(es, id)
      BY <1>3, <1>9 DEF AppendUpTo
    <3> QED BY <1>1, <1>6, <2>1, <3>1
  <2>3. ct = 0 => pc = Entry
    BY <1>2, <1>9
  <2>4. ct \in DOMAIN u => pc = u[ct].target
    <3> SUFFICES ASSUME ct \in DOMAIN u PROVE pc = u[ct].target
      OBVIOUS
    <3>1. ct \in DOMAIN t /\ u[ct] = t[ct]
      BY <1>1, <1>5
    <3>2. ct > 0 /\ Len(t) = ct
      BY <1>1, <1>6, <1>7, <3>1
    <3> QED BY <1>2, <1>9, <3>1, <3>2
  <2>5. c[fs[ct + 1]].entry_pc = pc
    BY <1>3, <1>9, <2>2
  <2>6. EntriesFollow(fs, c, u)
    <3> SUFFICES ASSUME NEW k \in DOMAIN fs
                 PROVE  /\ k = 1 => c[fs[k]].entry_pc = Entry
                        /\ k - 1 \in DOMAIN u => c[fs[k]].entry_pc = u[k - 1].target
      BY DEF EntriesFollow
    <3>1. CASE k \in DOMAIN es
      BY <1>8, <2>2, <3>1
    <3>2. CASE k = ct + 1
      <4>1. k - 1 = ct /\ (k = 1 => ct = 0)
        BY <1>1, <3>2
      <4> QED BY <2>3, <2>4, <2>5, <3>2, <4>1
    <3> QED BY <2>2, <3>1, <3>2
  <2>7. ct + 1 <= MaxEntries
    BY <1>1, <1>9, <2>1
  <2> QED BY <2>2, <2>6, <2>7 DEF fs, c, ct
<1>10. CASE ~(block_entering /\ Len(es) < MaxEntries)
  <2>1. fs = es
    BY <1>3, <1>10 DEF AppendUpTo
  <2>2. EntriesFollow(fs, c, u)
    BY <1>8, <2>1 DEF EntriesFollow
  <2>3. Len(fs) = IF ct + 1 <= MaxEntries THEN ct + 1 ELSE MaxEntries
    BY <1>1, <1>2, <1>4, <1>6, <1>10, <2>1
  <2> QED BY <2>2, <2>3 DEF fs, c, ct
<1> QED BY <1>9, <1>10

LEMMA ExecutesPath ==
  ASSUME TypeInv, Path, Running, inst_count' = inst_count + 1, Executes
  PROVE  Path'
<1> DEFINE d == code[pc]
<1>1. Fetch(d) /\ Execute(d) /\ Profile /\ block_entering' = EndsBlock(d.op)
  BY ExecutesType DEF Executes
<1>2. d.op \in Opcode /\ pc' \in Address
  BY <1>1, ExecutesType, OperandTypes DEF TypeInv, TrapState
<1>3. /\ Trace \in Seq(Transfer) /\ Total \in Nat /\ inst_count \in Nat
      /\ MaxTrace \in Nat /\ MaxEntries \in Nat
  BY PathTypes
<1>4. GoesOn(d) \/ Transfers(d) \/ Halts
  <2> HIDE DEF d
  <2> QED BY <1>1, FlowEffect
<1>5. CASE UNCHANGED branch_stats /\ (GoesOn(d) \/ Halts)
  <2>1. Trace' = Trace /\ Total' = Total
    BY <1>5 DEF Trace, Total
  <2>2. /\ EntriesFollow(Entries', profile'.blocks, Trace')
        /\ Len(Entries') = IF Total + 1 <= MaxEntries THEN Total + 1 ELSE MaxEntries
    BY <1>1, <2>1, EntriesGoOn
  <2>3. PathFollows(Trace') /\ Len(Trace') = IF Total' <= MaxTrace THEN Total' ELSE MaxTrace
    BY <2>1 DEF Path
  <2>4. ASSUME Running'
        PROVE  /\ Len(Trace') = Total' => pc' = Straight(Trace', Total', inst_count')
               /\ ~block_entering'
               /\ Len(Entries') = IF Total' + Entering' <= MaxEntries THEN Total' + Entering'
                                  ELSE MaxEntries
    <3>1. GoesOn(d)
      BY <1>5, <2>4 DEF Halts
    <3>2. ~block_entering' /\ pc' = Wrap(pc + 4)
      BY <1>1, <3>1 DEF GoesOn
    <3>3. Entering' = 1
      BY <3>2 DEF Entering
    <3>4. ASSUME Len(Trace) = Total PROVE pc' = Straight(Trace, Total, inst_count + 1)
      <4>1. pc = Straight(Trace, Total, inst_count)
        BY <3>4 DEF Path
      <4>2. Total \in 0 .. Len(Trace)
        BY <1>3, <3>4
      <4> QED BY <1>3, <3>2, <4>1, <4>2, StraightOn
    <3> QED BY <2>1, <2>2, <3>2, <3>3, <3>4
  <2> QED BY <2>2, <2>3, <2>4 DEF Path
<1>6. CASE Transfers(d)
  <2>1. PICK taken \in BOOLEAN : RecordTransfer(taken, pc')
    BY <1>6 DEF Transfers
  <2>2. /\ Total' = Total + 1
        /\ PathFollows(Trace')
        /\ Len(Trace') = IF Total + 1 <= MaxTrace THEN Total + 1 ELSE MaxTrace
        /\ \A i \in DOMAIN Trace : i \in DOMAIN Trace' /\ Trace'[i] = Trace[i]
        /\ \A i \in DOMAIN Trace' : i \in DOMAIN Trace \/ i = Total + 1
        /\ Len(Trace') = Total + 1 =>
               /\ pc' = Straight(Trace', Total + 1, inst_count')
               /\ pc' = Trace'[Total + 1].target
    BY <1>2, <2>1, TransferFollows
  <2>3. /\ EntriesFollow(Entries', profile'.blocks, Trace')
        /\ Len(Entries') = IF Total + 1 <= MaxEntries THEN Total + 1 ELSE MaxEntries
    BY <1>1, <2>2, EntriesGoOn
  <2>4. block_entering'
    BY <1>1, <1>6 DEF Transfers
  <2>5. Entering' = 0 /\ Total' # 0 /\ Total' + 0 = Total + 1
    BY <1>3, <2>2, <2>4 DEF Entering
  <2> QED BY <2>2, <2>3, <2>5 DEF Path
<1> QED BY <1>4, <1>5, <1>6 DEF GoesOn, Halts

\* The recordings of a run tell one path: the transfers, with their instruction
\* counts, give the address of each of them and of the instruction to come, and
\* the blocks entered are the ones they lead to (interpreter.cpp, step and
\* record_control_transfer; icache_stats.cpp; branch_stats.cpp).
THEOREM RecordingsTellThePath == Spec => []TransfersTellThePath
<1>1. Init => Path
  <2> SUFFICES ASSUME Init PROVE Path
    OBVIOUS
  <2>1. /\ Trace = <<>> /\ Total = 0 /\ Entries = <<>> /\ inst_count = 0 /\ pc = Entry
        /\ Entering = 0
    BY DEF Init, Trace, Total, Entries, Entering
  <2>2. MaxTrace \in Nat /\ MaxEntries \in Nat /\ Entry \in Address
    BY InterpreterAssumption
  <2>3. Straight(<<>>, 0, 0) = Entry
    <3>1. Entry + 4 * (0 - 0) = Entry
      BY <2>2, WordValuesType DEF Address
    <3> QED BY <2>2, <3>1, WrapIsIdentity DEF Straight, From, CountAt
  <2> QED BY <2>1, <2>2, <2>3 DEF Path, PathFollows, EntriesFollow
<1>2. TypeInv /\ Path /\ [Next]_vars => Path'
  <2> SUFFICES ASSUME TypeInv, Path, [Next]_vars PROVE Path'
    OBVIOUS
  <2>1. CASE Next
    <3>1. CASE FetchTraps
      <4>1. ~Running' /\ UNCHANGED <<profile, branch_stats>>
        BY <3>1 DEF FetchTraps, Halt, Running
      <4> QED BY <4>1 DEF Path, Trace, Total, Entries
    <3> QED BY <2>1, <3>1, ExecutesPath DEF Next, step
  <2>2. CASE UNCHANGED vars
    BY <2>2 DEF vars, cpu, Path, Trace, Total, Entries, Running, Entering, Straight, From, CountAt
  <2> QED BY <2>1, <2>2
<1> QED BY <1>1, <1>2, TypeInvariant, PathIsProperty, PTL DEF Spec
-----------------------------------------------------------------------------
(* What is fetched.  Every block has an n such that its first n words were *)
(* executed and no execution of it was longer; the last execution has got  *)
(* to word j of them.                                                      *)

CoveredUpTo(entry, n, seen) == \A k \in 0 .. n - 1 : Wrap(entry + 4 * k) \in seen

Reaches(b, n, j, seen) ==
    /\ CoveredUpTo(b.entry_pc, n, seen)
    /\ b.instructions <= (b.executions - 1) * n + j

\* The block that is executing; between blocks there is none.
Executing(i) == Running /\ ~block_entering /\ i = current_block_id

Coverage ==
    \A i \in DOMAIN profile.blocks :
        \E n \in Nat : \E j \in 0 .. n :
            /\ Reaches(profile.blocks[i], n, j, profile.seen_pcs)
            /\ Executing(i) => pc = Wrap(profile.blocks[i].entry_pc + 4 * j)

\* No average is longer than the longest execution.
LEMMA AverageIsReached ==
  ASSUME NEW i \in Nat, NEW e \in Nat \ {0}, NEW n \in Nat, NEW j \in 0 .. n,
         i <= (e - 1) * n + j
  PROVE  i \div e \in Nat /\ i \div e <= n
<1>1. (e - 1) * n + n = e * n
  OBVIOUS
<1>2. i <= e * n
  BY <1>1
<1> DEFINE q == i \div e
<1>3. q \in Nat /\ e * q <= i
  OBVIOUS
<1> HIDE DEF q
<1>4. q <= n
  <2> SUFFICES ASSUME q >= n + 1 PROVE FALSE
    BY <1>3
  <2>1. e * q >= e * (n + 1)
    BY <1>3
  <2>2. e * (n + 1) = e * n + e
    OBVIOUS
  <2> QED BY <1>2, <1>3, <2>1, <2>2
<1> QED BY <1>3, <1>4 DEF q

LEMMA CoverageIsProperty == BlockProfile /\ Partition /\ Coverage => FetchesWereExecuted
<1> SUFFICES ASSUME BlockProfile, Partition, Coverage,
                    NEW i \in DOMAIN profile.blocks,
                    NEW k \in 0 .. PerExecution(profile.blocks[i]) - 1
             PROVE  Wrap(profile.blocks[i].entry_pc + 4 * k) \in profile.seen_pcs
  BY DEF FetchesWereExecuted
<1> DEFINE b == profile.blocks[i]
<1>1. b \in Block
  BY DEF BlockProfile
<1>2. b.executions \in Nat \ {0} /\ b.instructions \in Nat
  BY <1>1 DEF Partition, ExecutedBlocks, Block
<1>3. PICK n \in Nat : \E j \in 0 .. n : Reaches(b, n, j, profile.seen_pcs)
  BY DEF Coverage
<1>4. PICK j \in 0 .. n : Reaches(b, n, j, profile.seen_pcs)
  BY <1>3
<1>5. k \in 0 .. PerExecution(b) - 1
  OBVIOUS
<1> HIDE DEF b
<1>6. PerExecution(b) \in Nat /\ PerExecution(b) <= n
  BY <1>2, <1>4, AverageIsReached DEF PerExecution, Reaches
<1>7. k \in 0 .. n - 1
  BY <1>5, <1>6
<1> QED BY <1>4, <1>7 DEF Reaches, CoveredUpTo, b

LEMMA CoverageGrows ==
  ASSUME NEW entry, NEW n \in Nat, NEW seen, NEW more, CoveredUpTo(entry, n, seen), seen \subseteq more
  PROVE  CoveredUpTo(entry, n, more)
BY DEF CoveredUpTo

\* One more instruction, word j of its block.
LEMMA ReachesOn ==
  ASSUME NEW entry \in Int, NEW n \in Nat, NEW j \in 0 .. n, NEW e \in Nat \ {0}, NEW i \in Nat,
         NEW seen, CoveredUpTo(entry, n, seen), i <= (e - 1) * n + j
  PROVE  LET m == IF j = n THEN n + 1 ELSE n
         IN  /\ m \in Nat /\ j + 1 \in 0 .. m
             /\ CoveredUpTo(entry, m, seen \cup {Wrap(entry + 4 * j)})
             /\ i + 1 <= (e - 1) * m + (j + 1)
<1>1. CASE j = n
  <2>1. (e - 1) * (n + 1) = (e - 1) * n + (e - 1)
    OBVIOUS
  <2>2. i + 1 <= (e - 1) * (n + 1) + (j + 1)
    <3> DEFINE p == (e - 1) * n
    <3>1. p \in Int /\ i <= p + j
      OBVIOUS
    <3> HIDE DEF p
    <3>2. i + 1 <= p + (e - 1) + (j + 1)
      BY <3>1
    <3> QED BY <2>1, <3>2 DEF p
  <2>3. CoveredUpTo(entry, n + 1, seen \cup {Wrap(entry + 4 * j)})
    BY <1>1 DEF CoveredUpTo
  <2> QED BY <1>1, <2>2, <2>3
<1>2. CASE j # n
  <2>1. i + 1 <= (e - 1) * n + (j + 1)
    <3> DEFINE p == (e - 1) * n
    <3>1. p \in Int /\ i <= p + j
      OBVIOUS
    <3> HIDE DEF p
    <3>2. i + 1 <= p + (j + 1)
      BY <3>1
    <3> QED BY <3>2 DEF p
  <2>2. CoveredUpTo(entry, n, seen \cup {Wrap(entry + 4 * j)})
    BY CoverageGrows
  <2> QED BY <1>2, <2>1, <2>2
<1> QED BY <1>1, <1>2

\* The instruction at pc is word j of block b, which becomes c.
LEMMA BlockGoesOn ==
  ASSUME TypeInv, NEW d, GoesOn(d) \/ Transfers(d) \/ Halts, block_entering' = EndsBlock(d.op),
         NEW b \in Block, NEW c \in Block, NEW n \in Nat, NEW j \in 0 .. n,
         b.executions \in Nat \ {0}, c.executions = b.executions, c.entry_pc = b.entry_pc,
         c.instructions = b.instructions + 1,
         Reaches(b, n, j, profile.seen_pcs), pc = Wrap(b.entry_pc + 4 * j),
         profile'.seen_pcs = profile.seen_pcs \cup {pc}
  PROVE  \E m \in Nat : \E k \in 0 .. m :
             /\ Reaches(c, m, k, profile'.seen_pcs)
             /\ Running' /\ ~block_entering' => pc' = Wrap(c.entry_pc + 4 * k)
<1> DEFINE entry == b.entry_pc
           m == IF j = n THEN n + 1 ELSE n
<1>1. entry \in Int /\ b.instructions \in Nat
  BY WordValuesType DEF Block, Address
<1>2. /\ CoveredUpTo(entry, n, profile.seen_pcs)
      /\ b.instructions <= (b.executions - 1) * n + j
  BY DEF Reaches
<1>3. /\ m \in Nat /\ j + 1 \in 0 .. m
      /\ CoveredUpTo(entry, m, profile.seen_pcs \cup {Wrap(entry + 4 * j)})
      /\ b.instructions + 1 <= (b.executions - 1) * m + (j + 1)
  BY <1>1, <1>2, ReachesOn
<1>4. Reaches(c, m, j + 1, profile'.seen_pcs)
  <2> HIDE DEF m
  <2> QED BY <1>3 DEF Reaches
<1>5. ASSUME Running', ~block_entering' PROVE pc' = Wrap(entry + 4 * (j + 1))
  <2>1. pc' = Wrap(pc + 4)
    BY <1>5 DEF GoesOn, Transfers, Halts
  <2>2. entry + 4 * j \in Int /\ (entry + 4 * j) + 4 = entry + 4 * (j + 1)
    BY <1>1
  <2>3. Wrap(Wrap(entry + 4 * j) + 4) = Wrap((entry + 4 * j) + 4)
    BY <2>2, WrapSum
  <2> QED BY <2>1, <2>2, <2>3
<1>6. c.entry_pc = entry
  OBVIOUS
<1> HIDE DEF m, entry
<1> QED BY <1>3, <1>4, <1>5, <1>6

LEMMA ExecutesCoverage ==
  ASSUME TypeInv, Partition, Coverage, Running, inst_count' = inst_count + 1, Executes
  PROVE  Coverage'
<1> DEFINE d == code[pc]
           b == profile.blocks
           c == profile'.blocks
           id == current_block_id'
           one == IF block_entering THEN 1 ELSE 0
           seen == profile.seen_pcs
           more == profile'.seen_pcs
<1>1. Execute(d) /\ Fetch(d) /\ Profile /\ block_entering' = EndsBlock(d.op)
  BY ExecutesType DEF Executes
<1>2. GoesOn(d) \/ Transfers(d) \/ Halts
  <2> HIDE DEF d
  <2> QED BY <1>1, FlowEffect
<1>3. /\ BlockProfile /\ pc \in Address /\ b \in Seq(Block) /\ block_entering \in BOOLEAN
  BY DEF TypeInv, TrapState, BlockProfile
<1>4. /\ c \in Seq(Block)
      /\ id \in DOMAIN c
      /\ \/ /\ id \in DOMAIN b /\ Len(c) = Len(b)
            /\ c[id] = Counted(b[id], one)
            /\ block_entering => b[id].entry_pc = pc
            /\ ~block_entering => id = current_block_id
         \/ /\ block_entering /\ id = Len(b) + 1 /\ Len(c) = Len(b) + 1
            /\ c[id] = [entry_pc |-> pc, executions |-> 1, instructions |-> 1]
      /\ \A i \in DOMAIN b : i # id => c[i] = b[i]
      /\ more = seen \cup {pc}
  BY <1>1, <1>3, ProfileEffect
<1>5. SUFFICES ASSUME NEW i \in DOMAIN c
               PROVE  \E n \in Nat : \E j \in 0 .. n :
                          /\ Reaches(c[i], n, j, more)
                          /\ (Executing(i))' => pc' = Wrap(c[i].entry_pc + 4 * j)
  BY DEF Coverage
<1>6. \A k \in DOMAIN b :
          /\ b[k] \in Block /\ b[k].executions \in Nat \ {0}
          /\ \E n \in Nat : \E j \in 0 .. n :
                 /\ Reaches(b[k], n, j, seen)
                 /\ Executing(k) => pc = Wrap(b[k].entry_pc + 4 * j)
  <2> SUFFICES ASSUME NEW k \in DOMAIN b
               PROVE  b[k] \in Block /\ b[k].executions \in Nat \ {0}
    BY DEF Coverage
  <2>1. b[k] \in Block /\ b[k].executions \in 1 .. b[k].instructions
    BY <1>3 DEF Partition, ExecutedBlocks
  <2> QED BY <2>1 DEF Block
<1>7. c[i] \in Block
  BY <1>4
<1>8. CASE i # id
  <2>1. i \in DOMAIN b /\ c[i] = b[i]
    BY <1>3, <1>4, <1>5, <1>8
  <2>2. PICK n \in Nat : \E j \in 0 .. n : Reaches(b[i], n, j, seen)
    BY <1>6, <2>1
  <2>3. PICK j \in 0 .. n : Reaches(b[i], n, j, seen)
    BY <2>2
  <2>4. Reaches(c[i], n, j, more)
    BY <1>4, <2>1, <2>3, CoverageGrows DEF Reaches
  <2>5. ~(Executing(i))'
    BY <1>8 DEF Executing
  <2> QED BY <2>4, <2>5
<1>9. CASE i = id /\ id \in DOMAIN b /\ ~block_entering
  <2>1. c[i] = Counted(b[i], 0) /\ i = current_block_id
    BY <1>3, <1>4, <1>9
  <2>2. Executing(i) /\ b[i] \in Block /\ b[i].executions \in Nat \ {0}
    BY <1>6, <1>9, <2>1 DEF Executing
  <2>3. PICK n \in Nat : \E j \in 0 .. n :
            Reaches(b[i], n, j, seen) /\ pc = Wrap(b[i].entry_pc + 4 * j)
    BY <1>6, <1>9, <2>2
  <2>4. PICK j \in 0 .. n : Reaches(b[i], n, j, seen) /\ pc = Wrap(b[i].entry_pc + 4 * j)
    BY <2>3
  <2>5. /\ c[i].executions = b[i].executions /\ c[i].entry_pc = b[i].entry_pc
        /\ c[i].instructions = b[i].instructions + 1
    BY <2>1, <2>2 DEF Counted, Block
  <2> HIDE DEF d, b, c, id
  <2> QED BY <1>1, <1>2, <1>4, <1>7, <2>2, <2>4, <2>5, BlockGoesOn DEF seen, more, Executing
<1>10. CASE i = id /\ id \in DOMAIN b /\ block_entering
  <2> DEFINE again == [entry_pc |-> pc, executions |-> b[i].executions + 1,
                       instructions |-> b[i].instructions]
  <2>1. c[i] = Counted(b[i], 1) /\ b[i].entry_pc = pc /\ b[i] \in Block
    BY <1>3, <1>4, <1>6, <1>10
  <2>2. PICK n \in Nat : \E j \in 0 .. n : Reaches(b[i], n, j, seen)
    BY <1>6, <1>10
  <2>3. PICK j \in 0 .. n : Reaches(b[i], n, j, seen)
    BY <2>2
  <2>4. again \in Block /\ again.executions \in Nat \ {0}
    BY <1>3, <2>1 DEF Block
  <2>5. Reaches(again, n, 0, seen)
    <3> DEFINE e == b[i].executions
               k == b[i].instructions
    <3>1. e \in Nat /\ k \in Nat /\ k <= (e - 1) * n + j
      BY <2>1, <2>3 DEF Reaches, Block
    <3> HIDE DEF e, k
    <3>2. (e - 1) * n + n = e * n /\ ((e + 1) - 1) * n + 0 = e * n
      BY <3>1
    <3>3. k <= ((e + 1) - 1) * n + 0
      <4> DEFINE p == (e - 1) * n
      <4>1. p \in Int /\ k <= p + j
        BY <3>1
      <4> HIDE DEF p
      <4>2. k <= p + n
        BY <3>1, <4>1
      <4> QED BY <3>2, <4>2 DEF p
    <3> QED BY <2>1, <2>3, <3>3 DEF Reaches, e, k
  <2>6. pc = Wrap(again.entry_pc + 4 * 0) /\ 0 \in 0 .. n
    <3>1. pc + 4 * 0 = pc /\ Wrap(pc) = pc
      BY <1>3, WrapIsIdentity, WordValuesType DEF Address
    <3> QED BY <3>1
  <2>7. /\ c[i].executions = again.executions /\ c[i].entry_pc = again.entry_pc
        /\ c[i].instructions = again.instructions + 1
    BY <2>1 DEF Counted
  <2> HIDE DEF d, b, c, id, again
  <2> DEFINE start == 0
  <2>8. start \in 0 .. n /\ Reaches(again, n, start, seen) /\ pc = Wrap(again.entry_pc + 4 * start)
    BY <2>5, <2>6
  <2> HIDE DEF start
  <2> QED BY <1>1, <1>2, <1>4, <1>7, <2>4, <2>7, <2>8, BlockGoesOn DEF seen, more, Executing
<1>11. CASE i = id /\ id \notin DOMAIN b
  <2> DEFINE fresh == [entry_pc |-> pc, executions |-> 1, instructions |-> 0]
             start == 0
  <2>1. c[i] = [entry_pc |-> pc, executions |-> 1, instructions |-> 1]
    BY <1>4, <1>11
  <2>2. fresh \in Block /\ fresh.executions \in Nat \ {0}
    BY <1>3 DEF Block
  <2>3. /\ c[i].executions = fresh.executions /\ c[i].entry_pc = fresh.entry_pc
        /\ c[i].instructions = fresh.instructions + 1
    BY <2>1
  <2>4. Reaches(fresh, start, start, seen) /\ start \in 0 .. start /\ start \in Nat
    BY DEF Reaches, CoveredUpTo
  <2>5. pc = Wrap(fresh.entry_pc + 4 * start)
    <3>1. pc + 4 * 0 = pc /\ Wrap(pc) = pc
      BY <1>3, WrapIsIdentity, WordValuesType DEF Address
    <3> QED BY <3>1
  <2> HIDE DEF d, b, c, id, fresh, start
  <2> QED BY <1>1, <1>2, <1>4, <1>7, <2>2, <2>3, <2>4, <2>5, BlockGoesOn DEF seen, more, Executing
<1> QED BY <1>3, <1>8, <1>9, <1>10, <1>11

\* The instruction cache asks for no instruction that was not executed: the
\* rounded average length of a block's executions never reaches beyond the
\* longest of them, wherever the others were cut short (icache.cpp:135-138;
\* icache_stats.cpp, record_block_entry and record_instruction).
THEOREM FetchesExecuted == Spec => []FetchesWereExecuted
<1>1. Init => Partition /\ Coverage
  <2> SUFFICES ASSUME Init PROVE Partition /\ Coverage
    OBVIOUS
  <2>1. profile.blocks = <<>>
    BY DEF Init
  <2> QED BY <2>1, InitPartition DEF Coverage
<1>2. TypeInv /\ Partition /\ Coverage /\ [Next]_vars => Partition' /\ Coverage'
  <2> SUFFICES ASSUME TypeInv, Partition, Coverage, [Next]_vars PROVE Coverage'
    BY StepPartition
  <2>1. CASE Next
    <3>1. CASE FetchTraps
      <4>1. ~Running' /\ UNCHANGED profile
        BY <3>1 DEF FetchTraps, Halt, Running
      <4> QED BY <4>1 DEF Coverage, Executing
    <3> QED BY <2>1, <3>1, ExecutesCoverage DEF Next, step
  <2>2. CASE UNCHANGED vars
    BY <2>2 DEF vars, cpu, Coverage, Executing, Running
  <2> QED BY <2>1, <2>2
<1>3. TypeInv => BlockProfile
  BY DEF TypeInv
<1> QED BY <1>1, <1>2, <1>3, TypeInvariant, CoverageIsProperty, PTL DEF Spec

-----------------------------------------------------------------------------
(* The table of blocks.  What was executed starts a block or follows what  *)
(* was executed, word by word, and so does what a run is about to execute. *)

Follows(p, seen, entries) == p % 4 = 0 /\ (p \in entries \cup {0} \/ p - 4 \in seen)

StraightRuns ==
    /\ \A p \in profile.seen_pcs : Follows(p, profile.seen_pcs, BlockEntries)
    /\ Running /\ ~block_entering => \E q \in profile.seen_pcs : pc = Wrap(q + 4)

\* The word after an aligned word is the next one, or the first.
LEMMA NextWord ==
  ASSUME NEW q \in Address, q % 4 = 0
  PROVE  /\ Wrap(q + 4) % 4 = 0
         /\ Wrap(q + 4) = 0 \/ Wrap(q + 4) - 4 = q
         /\ q < WordValues - 1
<1> DEFINE W == WordValues
<1>1. W \in Nat \ {0} /\ W % 4 = 0 /\ q \in Nat /\ q < W
  BY WordValuesType, WordsFit DEF Address
<1>2. Wrap(q + 4) = (q + 4) % W
  BY DEF Wrap
<1> HIDE DEF W
<1>3. q + 4 <= W
  BY <1>1
<1>4. CASE q + 4 = W
  <2>1. (q + 4) % W = 0
    BY <1>1, <1>4
  <2> QED BY <1>1, <1>2, <1>3, <2>1 DEF W
<1>5. CASE q + 4 < W
  <2>1. (q + 4) % W = q + 4
    BY <1>1, <1>5
  <2> QED BY <1>1, <1>2, <2>1 DEF W
<1> QED BY <1>3, <1>4, <1>5, <1>1

LEMMA ExecutesStraight ==
  ASSUME TypeInv, StraightRuns, Running, Executes, inst_count' = inst_count + 1
  PROVE  StraightRuns'
<1> DEFINE d == code[pc]
           b == profile.blocks
           c == profile'.blocks
           id == current_block_id'
           seen == profile.seen_pcs
           more == profile'.seen_pcs
           entries == BlockEntries
<1>1. Execute(d) /\ Fetch(d) /\ Profile /\ block_entering' = EndsBlock(d.op)
  BY ExecutesType DEF Executes
<1>2. GoesOn(d) \/ Transfers(d) \/ Halts
  <2> HIDE DEF d
  <2> QED BY <1>1, FlowEffect
<1>3. /\ BlockProfile /\ pc \in Address /\ pc \in Nat /\ seen \subseteq Address
      /\ block_entering \in BOOLEAN
  BY WordValuesType DEF TypeInv, TrapState, BlockProfile, Address
<1>4. pc % 4 = 0
  <2> DEFINE f == FetchFault(mem, pc)
  <2>1. f = NoFault
    BY DEF Executes
  <2>2. f = AccessFault(mem, pc, 4, "INSTRUCTION_ADDRESS_MISALIGNED", "INSTRUCTION_ACCESS_FAULT")
    BY DEF FetchFault
  <2> HIDE DEF f
  <2>3. pc \in Address /\ 4 \in AccessSize
    BY <1>3 DEF AccessSize
  <2>4. \/ f = NoFault /\ pc % 4 = 0
        \/ /\ f.cause \in {"INSTRUCTION_ADDRESS_MISALIGNED", "INSTRUCTION_ACCESS_FAULT"}
           /\ f.value \in Address
    BY <2>2, <2>3, AccessFaultCases
  <2> QED BY <2>1, <2>4 DEF NoFault
<1>5. /\ id \in DOMAIN c
      /\ \A i \in DOMAIN b : i \in DOMAIN c /\ (i # id => c[i] = b[i])
      /\ \/ /\ id \in DOMAIN b
            /\ c[id] = Counted(b[id], IF block_entering THEN 1 ELSE 0)
            /\ block_entering => b[id].entry_pc = pc
         \/ /\ block_entering /\ id = Len(b) + 1
            /\ c[id] = [entry_pc |-> pc, executions |-> 1, instructions |-> 1]
      /\ more = seen \cup {pc}
  BY <1>1, <1>3, ProfileEffect
<1>6. entries \subseteq entries'
  <2> SUFFICES ASSUME NEW i \in DOMAIN b PROVE b[i].entry_pc \in entries'
    BY DEF BlockEntries
  <2>1. i \in DOMAIN c /\ c[i].entry_pc = b[i].entry_pc
    BY <1>3, <1>5 DEF Counted, BlockProfile
  <2> QED BY <2>1 DEF BlockEntries
<1>7. block_entering => pc \in entries'
  <2> SUFFICES ASSUME block_entering PROVE c[id].entry_pc = pc
    BY <1>5 DEF BlockEntries
  <2> QED BY <1>5 DEF Counted
<1>8. ~block_entering => pc = 0 \/ pc - 4 \in seen
  <2> SUFFICES ASSUME ~block_entering PROVE pc = 0 \/ pc - 4 \in seen
    OBVIOUS
  <2>1. PICK q \in seen : pc = Wrap(q + 4)
    BY DEF StraightRuns
  <2> QED BY <1>3, <2>1, NextWord DEF StraightRuns, Follows
<1>9. ASSUME NEW p \in more PROVE Follows(p, more, entries')
  <2>1. CASE p = pc
    BY <1>4, <1>5, <1>7, <1>8, <2>1 DEF Follows
  <2>2. CASE p \in seen
    BY <1>5, <1>6, <2>2 DEF StraightRuns, Follows
  <2> QED BY <1>5, <2>1, <2>2
<1>10. Running' /\ ~block_entering' => pc' = Wrap(pc + 4)
  BY <1>1, <1>2 DEF GoesOn, Transfers, Halts
<1> QED BY <1>5, <1>9, <1>10 DEF StraightRuns

LEMMA StraightInvariant == Spec => []StraightRuns
<1>1. Init => StraightRuns
  BY DEF Init, StraightRuns
<1>2. TypeInv /\ StraightRuns /\ [Next]_vars => StraightRuns'
  <2> SUFFICES ASSUME TypeInv, StraightRuns, [Next]_vars PROVE StraightRuns'
    OBVIOUS
  <2>1. CASE Next
    <3>1. CASE FetchTraps
      <4>1. ~Running' /\ UNCHANGED profile
        BY <3>1 DEF FetchTraps, Halt, Running
      <4> QED BY <4>1 DEF StraightRuns, BlockEntries
    <3> QED BY <2>1, <3>1, ExecutesStraight DEF Next, step
  <2>2. CASE UNCHANGED vars
    BY <2>2 DEF vars, cpu, StraightRuns, BlockEntries, Running
  <2> QED BY <2>1, <2>2
<1> QED BY <1>1, <1>2, TypeInvariant, PTL DEF Spec

\* What block i of the table counts.
Span(i) == LET entry == profile.blocks[i].entry_pc
           IN  profile.seen_pcs \cap (entry .. NextEntry(entry) - 1)

LEMMA ProfileTypes ==
  ASSUME BlockProfile
  PROVE  /\ profile.blocks \in Seq(Block) /\ Len(profile.blocks) \in Nat
         /\ DOMAIN profile.blocks = 1 .. Len(profile.blocks)
         /\ profile.seen_pcs \in SUBSET Nat /\ IsFiniteSet(profile.seen_pcs)
         /\ BlockEntries \in SUBSET Nat
         /\ \A i \in DOMAIN profile.blocks : profile.blocks[i].entry_pc \in BlockEntries
<1>1. profile.blocks \in Seq(Block) /\ profile.seen_pcs \subseteq Address
  BY DEF BlockProfile
<1>2. Address \subseteq Nat /\ IsFiniteSet(Address)
  BY WordValuesType, FS_Interval DEF Address
<1>3. IsFiniteSet(profile.seen_pcs)
  BY <1>1, <1>2, FS_Subset
<1>4. \A i \in DOMAIN profile.blocks : profile.blocks[i].entry_pc \in Nat
  <2> SUFFICES ASSUME NEW i \in DOMAIN profile.blocks PROVE profile.blocks[i].entry_pc \in Nat
    OBVIOUS
  <2>1. profile.blocks[i] \in Block
    BY <1>1
  <2> QED BY <1>2, <2>1 DEF Block
<1>5. Len(profile.blocks) \in Nat /\ DOMAIN profile.blocks = 1 .. Len(profile.blocks)
  BY <1>1
<1>6. profile.seen_pcs \in SUBSET Nat
  BY <1>1, <1>2
<1> QED BY <1>1, <1>3, <1>4, <1>5, <1>6 DEF BlockEntries

\* The entry that ends a block's span is a later one, and none lies between.
LEMMA NextEntryIs ==
  ASSUME BlockProfile, NEW e \in Nat
  PROVE  /\ \A f \in BlockEntries : f > e => NextEntry(e) <= f
         /\ \/ NextEntry(e) = WordValues - 1
            \/ NextEntry(e) \in BlockEntries /\ NextEntry(e) > e
<1> DEFINE later == {f \in BlockEntries : f > e}
<1>1. NextEntry(e) = IF later = {} THEN WordValues - 1 ELSE Min(later)
  BY DEF NextEntry
<1>2. later \in SUBSET Nat
  BY ProfileTypes
<1>3. later # {} => Min(later) \in later /\ \A f \in later : Min(later) <= f
  <2> HIDE DEF later
  <2> SUFFICES ASSUME later # {} PROVE Min(later) \in later /\ \A f \in later : Min(later) <= f
    OBVIOUS
  <2>1. \E m \in later : \A n \in later : m <= n
    BY <1>2, LeastElement
  <2> QED BY <2>1 DEF Min
<1> QED BY <1>1, <1>3

LEMMA SpansDisjoint ==
  ASSUME BlockProfile, DistinctEntries(profile.blocks),
         NEW i \in DOMAIN profile.blocks, NEW j \in DOMAIN profile.blocks, i # j
  PROVE  Span(i) \cap Span(j) = {}
<1> DEFINE entry(k) == profile.blocks[k].entry_pc
<1>1. \A k \in {i, j} : entry(k) \in BlockEntries /\ entry(k) \in Nat
  BY ProfileTypes
<1>2. entry(i) # entry(j)
  BY DEF DistinctEntries
<1>3. \A k \in {i, j} : \A p \in Span(k) : p \in Nat /\ entry(k) <= p /\ p <= NextEntry(entry(k)) - 1
  <2> SUFFICES ASSUME NEW k \in {i, j}, NEW p \in Span(k)
               PROVE  p \in Nat /\ entry(k) <= p /\ p <= NextEntry(entry(k)) - 1
    OBVIOUS
  <2>1. p \in profile.seen_pcs /\ p \in entry(k) .. NextEntry(entry(k)) - 1
    BY DEF Span
  <2> QED BY <2>1, ProfileTypes
<1>4. \A k, m \in {i, j} : entry(m) > entry(k) => NextEntry(entry(k)) <= entry(m)
  BY <1>1, NextEntryIs
<1>5. \A k \in {i, j} : NextEntry(entry(k)) \in Int
  BY <1>1, NextEntryIs, ProfileTypes, WordValuesType
<1> HIDE DEF entry
<1>6. ASSUME NEW k \in {i, j}, NEW m \in {i, j}, entry(m) > entry(k), NEW p \in Span(k), p \in Span(m)
      PROVE  FALSE
  BY <1>1, <1>3, <1>4, <1>5, <1>6
<1> QED BY <1>1, <1>2, <1>6

\* The least word without an entry at or before it would follow another.
LEMMA EntryBefore ==
  ASSUME BlockProfile, StraightRuns, ~RunsPastTheEnd, NEW p \in profile.seen_pcs
  PROVE  \E e \in BlockEntries : e <= p /\ \A f \in BlockEntries : f <= p => f <= e
<1> DEFINE Before(q) == {e \in BlockEntries : e <= q}
           Stray == {q \in profile.seen_pcs : Before(q) = {}}
<1>1. profile.seen_pcs \in SUBSET Nat /\ BlockEntries \in SUBSET Nat
  BY ProfileTypes
<1>2. Stray = {}
  <2> SUFFICES ASSUME Stray # {} PROVE FALSE
    OBVIOUS
  <2>1. PICK q \in Stray : \A r \in Stray : q <= r
    <3> HIDE DEF Stray
    <3> QED BY <1>1, LeastElement DEF Stray
  <2>2. q \in profile.seen_pcs /\ q \in Nat /\ q \notin BlockEntries
    BY <1>1, <2>1
  <2>3. q # 0 /\ q - 4 \in profile.seen_pcs
    BY <2>2 DEF StraightRuns, Follows, RunsPastTheEnd
  <2>4. q - 4 \in Stray
    <3>1. \A e \in BlockEntries : ~ (e <= q)
      BY <2>1
    <3>2. q - 4 \in Nat /\ \A e \in BlockEntries : e \in Nat
      BY <1>1, <2>3
    <3>3. \A e \in BlockEntries : ~ (e <= q - 4)
      BY <2>2, <3>1, <3>2
    <3> QED BY <2>3, <3>3
  <2> HIDE DEF Stray
  <2> QED BY <2>1, <2>2, <2>4
<1> DEFINE Ages == {p - e : e \in Before(p)}
<1>3. p \in Nat /\ Before(p) # {} /\ \A e \in Before(p) : e \in Nat /\ e <= p
  BY <1>1, <1>2
<1>4. Ages \in SUBSET Nat /\ Ages # {}
  <2> HIDE DEF Before
  <2> QED BY <1>3
<1>5. PICK a \in Ages : \A c \in Ages : a <= c
  <2> HIDE DEF Ages
  <2> QED BY <1>4, LeastElement
<1>6. PICK e \in Before(p) : a = p - e
  BY <1>5
<1>7. ASSUME NEW f \in Before(p) PROVE f <= e
  <2>1. p - e <= p - f
    BY <1>5, <1>6
  <2> HIDE DEF Before, Ages
  <2> QED BY <1>3, <2>1
<1> QED BY <1>6, <1>7

LEMMA SpansCover ==
  ASSUME BlockProfile, StraightRuns, ~RunsPastTheEnd, NEW p \in profile.seen_pcs
  PROVE  \E i \in DOMAIN profile.blocks : p \in Span(i)
<1>1. PICK e \in BlockEntries : e <= p /\ \A f \in BlockEntries : f <= p => f <= e
  BY EntryBefore
<1>2. PICK i \in DOMAIN profile.blocks : e = profile.blocks[i].entry_pc
  BY DEF BlockEntries
<1>3. p \in Nat /\ e \in Nat /\ BlockEntries \in SUBSET Nat /\ WordValues \in Nat
  BY ProfileTypes, WordValuesType
<1>4. p < WordValues - 1
  <2>1. p \in Address /\ p % 4 = 0
    BY DEF BlockProfile, StraightRuns, Follows
  <2> QED BY <2>1, NextWord
<1>5. NextEntry(e) \in Int /\ p < NextEntry(e)
  <2> DEFINE next == NextEntry(e)
  <2>1. next = WordValues - 1 \/ (next \in BlockEntries /\ next > e)
    BY <1>3, NextEntryIs
  <2> HIDE DEF next
  <2>2. CASE next = WordValues - 1
    BY <1>3, <1>4, <2>2 DEF next
  <2>3. CASE next \in BlockEntries /\ next > e
    <3>1. next \in Nat /\ ~ (next <= e)
      BY <1>3, <2>3
    <3>2. ~ (next <= p)
      BY <1>1, <2>3, <3>1
    <3> QED BY <1>3, <3>1, <3>2 DEF next
  <2> QED BY <2>1, <2>2, <2>3
<1> QED BY <1>1, <1>2, <1>3, <1>5 DEF Span

\* The sizes of disjoint spans add up to that of their union.
LEMMA SizesAddUp ==
  ASSUME BlockProfile, DistinctEntries(profile.blocks)
  PROVE  SumOver(build_block_table, "static_size")
             = Cardinality(UNION {Span(i) : i \in DOMAIN profile.blocks})
<1> DEFINE n == Len(profile.blocks)
           table == build_block_table
           v == ValuesOf(table, "static_size")
           Upto(k) == UNION {Span(i) : i \in 1 .. k}
           f == [k \in 0 .. n |-> Cardinality(Upto(k))]
<1>1. n \in Nat /\ DOMAIN profile.blocks = 1 .. n
  BY ProfileTypes
<1>2. Len(table) = n
  BY <1>1 DEF build_block_table
<1>3. \A k \in 0 .. n : IsFiniteSet(Upto(k)) /\ Upto(k) \subseteq profile.seen_pcs
  <2> SUFFICES ASSUME NEW k \in 0 .. n PROVE IsFiniteSet(Upto(k)) /\ Upto(k) \subseteq profile.seen_pcs
    OBVIOUS
  <2>1. Upto(k) \subseteq profile.seen_pcs
    BY DEF Span
  <2> HIDE DEF Upto
  <2> QED BY <2>1, ProfileTypes, FS_Subset
<1>4. \A i \in 1 .. n : IsFiniteSet(Span(i)) /\ Cardinality(Span(i)) \in Nat
  <2> SUFFICES ASSUME NEW i \in 1 .. n PROVE IsFiniteSet(Span(i)) /\ Cardinality(Span(i)) \in Nat
    OBVIOUS
  <2>1. Span(i) \subseteq profile.seen_pcs
    BY DEF Span
  <2>2. IsFiniteSet(Span(i))
    BY <2>1, ProfileTypes, FS_Subset
  <2> QED BY <2>2, FS_CardinalityType
<1>5. \A i \in 1 .. n : v[i] = Cardinality(Span(i))
  BY <1>1, <1>2 DEF ValuesOf, build_block_table, StaticSize, Span
<1>6. v \in [1 .. n -> Nat]
  <2>1. v = [i \in 1 .. n |-> v[i]]
    BY <1>2 DEF ValuesOf
  <2> HIDE DEF v
  <2> QED BY <1>4, <1>5, <2>1
<1>7. f[0] = 0
  <2>1. Upto(0) = {}
    OBVIOUS
  <2> HIDE DEF Upto
  <2>2. f[0] = Cardinality(Upto(0))
    BY <1>1
  <2> QED BY <2>1, <2>2, FS_EmptySet
<1>8. ASSUME NEW k \in 1 .. n PROVE f[k] = f[k - 1] + v[k]
  <2>1. Upto(k) = Upto(k - 1) \cup Span(k)
    <3>1. 1 .. k = (1 .. k - 1) \cup {k}
      BY <1>1
    <3> QED BY <3>1
  <2>2. Upto(k - 1) \cap Span(k) = {}
    <3> SUFFICES ASSUME NEW i \in 1 .. k - 1 PROVE Span(i) \cap Span(k) = {}
      OBVIOUS
    <3>1. i \in 1 .. n /\ i # k
      BY <1>1
    <3> QED BY <1>1, <3>1, SpansDisjoint
  <2>3. k \in 0 .. n /\ k - 1 \in 0 .. n
    BY <1>1
  <2>4. IsFiniteSet(Upto(k - 1)) /\ IsFiniteSet(Span(k))
    BY <1>3, <1>4, <2>3
  <2> HIDE DEF Upto, v
  <2>5. Cardinality(Upto(k - 1)) \in Nat /\ Cardinality(Span(k)) \in Nat
    BY <2>4, FS_CardinalityType
  <2>6. Cardinality(Upto(k)) = Cardinality(Upto(k - 1)) + Cardinality(Span(k)) - 0
    BY <2>1, <2>2, <2>4, FS_Union, FS_EmptySet
  <2> QED BY <1>5, <2>3, <2>5, <2>6
<1>9. f[n] = Cardinality(UNION {Span(i) : i \in DOMAIN profile.blocks})
  BY <1>1
<1> HIDE DEF n, v, f, table
<1>10. PICK s : IsSum(s, v, n)
  BY <1>1, <1>6, SumExists
<1>11. f[n] = s[n]
  BY <1>1, <1>7, <1>8, <1>10, SumIsUnique
<1>12. SumOver(table, "static_size") = s[n]
  BY <1>1, <1>2, <1>10, SumOverIs DEF v
<1> QED BY <1>9, <1>11, <1>12 DEF table

\* The table of blocks counts every executed instruction once, in the block that
\* starts last at or before it, for every program and however its blocks overlap,
\* unless the run goes on past the end of the address space (disasm.cpp:242-262).
THEOREM TableAlwaysCovers == Spec => []TableCoversRun
<1>1. BlockProfile /\ Partition /\ StraightRuns => TableCoversRun
  <2> SUFFICES ASSUME BlockProfile, Partition, StraightRuns, ~RunsPastTheEnd
               PROVE  SumOver(build_block_table, "static_size") = Cardinality(profile.seen_pcs)
    BY DEF TableCoversRun
  <2>1. UNION {Span(i) : i \in DOMAIN profile.blocks} = profile.seen_pcs
    <3>1. \A i \in DOMAIN profile.blocks : Span(i) \subseteq profile.seen_pcs
      BY DEF Span
    <3>2. \A p \in profile.seen_pcs : \E i \in DOMAIN profile.blocks : p \in Span(i)
      BY SpansCover
    <3> QED BY <3>1, <3>2
  <2> QED BY <2>1, SizesAddUp DEF Partition
<1>2. TypeInv => BlockProfile
  BY DEF TypeInv
<1> QED BY <1>1, <1>2, InitPartition, StepPartition, TypeInvariant, StraightInvariant, PTL DEF Spec
=============================================================================
