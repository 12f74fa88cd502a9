---------------------------- MODULE Disassembler ----------------------------
(***************************************************************************)
(* One decoded instruction as the listing names it                         *)
(* (disassemble_instruction, src/disasm/disasm.cpp) and as the machine     *)
(* executes it (Interpreter::execute, src/interpreter/interpreter.cpp).    *)
(* An instruction is its name, the registers it shows or uses, in the      *)
(* order of assembly text, and its number: an immediate, a shift amount,   *)
(* a target relative to the instruction, or the upper 20 bits.  What a     *)
(* handler computes is given by the name the instruction set has for it.   *)
(***************************************************************************)
EXTENDS Decoder, Sequences

None == <<"none", 0>>
Instruction(name, regs, number) == [name |-> name, regs |-> regs, number |-> number]
Illegal == Instruction("illegal", <<>>, None)

-----------------------------------------------------------------------------
(* The text.                                                               *)

format_r(name, d) == Instruction(name, <<d.rd, d.rs1, d.rs2>>, None)
format_i(name, d) == Instruction(name, <<d.rd, d.rs1>>, <<"imm", d.imm>>)
format_shift(name, d) == Instruction(name, <<d.rd, d.rs1>>, <<"shamt", d.rs2 % 32>>)
format_branch(name, d) == Instruction(name, <<d.rs1, d.rs2>>, <<"target", d.imm>>)
format_u(name, d) == Instruction(name, <<d.rd>>, <<"upper", Shr(d.imm, 12)>>)

\* mutant of format_offset: a store names its destination field.
FormatOffsetOfRd(name, d, is_store) == Instruction(name, <<d.rd, d.rs1>>, <<"imm", d.imm>>)

format_offset(name, d, is_store) ==
    Instruction(name, <<IF is_store THEN d.rs2 ELSE d.rd, d.rs1>>, <<"imm", d.imm>>)

\* The names of the loads, stores and branches the text knows, by funct3.
LoadText == [f \in {0, 1, 2, 4, 5} |->
    CASE f = 0 -> "lb" [] f = 1 -> "lh" [] f = 2 -> "lw" [] f = 4 -> "lbu" [] f = 5 -> "lhu"]
StoreText == [f \in 0 .. 2 |-> CASE f = 0 -> "sb" [] f = 1 -> "sh" [] f = 2 -> "sw"]
BranchText == [f \in {0, 1, 4, 5, 6, 7} |->
    CASE f = 0 -> "beq" [] f = 1 -> "bne" [] f = 4 -> "blt"
      [] f = 5 -> "bge" [] f = 6 -> "bltu" [] f = 7 -> "bgeu"]

\* OP: funct7 picks sub and sra and is otherwise ignored.
OpText(d) ==
    LET alternate == d.funct7 = 32
    IN  format_r(CASE d.funct3 = 0 -> IF alternate THEN "sub" ELSE "add"
                   [] d.funct3 = 1 -> "sll"
                   [] d.funct3 = 2 -> "slt"
                   [] d.funct3 = 3 -> "sltu"
                   [] d.funct3 = 4 -> "xor"
                   [] d.funct3 = 5 -> IF alternate THEN "sra" ELSE "srl"
                   [] d.funct3 = 6 -> "or"
                   [] d.funct3 = 7 -> "and", d)

OpImmText(d) ==
    CASE d.funct3 = 0 -> format_i("addi", d)
      [] d.funct3 = 1 -> IF d.funct7 = 0 THEN format_shift("slli", d) ELSE Illegal
      [] d.funct3 = 2 -> format_i("slti", d)
      [] d.funct3 = 3 -> format_i("sltiu", d)
      [] d.funct3 = 4 -> format_i("xori", d)
      [] d.funct3 = 5 -> IF d.funct7 = 32 THEN format_shift("srai", d)
                         ELSE IF d.funct7 = 0 THEN format_shift("srli", d) ELSE Illegal
      [] d.funct3 = 6 -> format_i("ori", d)
      [] d.funct3 = 7 -> format_i("andi", d)

\* ECALL and EBREAK: every field but the immediate is zero.
SystemText(d) ==
    LET valid_env == d.funct3 = 0 /\ d.rd = 0 /\ d.rs1 = 0
    IN  CASE valid_env /\ d.imm = Zero -> Instruction("ecall", <<>>, None)
          [] valid_env /\ d.imm = [Zero EXCEPT ![0] = 1] -> Instruction("ebreak", <<>>, None)
          [] OTHER -> Illegal

disassemble_instruction(d) ==
    CASE d.opcode = kOp -> OpText(d)
      [] d.opcode = kOpImm -> OpImmText(d)
      [] d.opcode = kLoad /\ d.funct3 \in DOMAIN LoadText ->
             format_offset(LoadText[d.funct3], d, FALSE)
      [] d.opcode = kStore /\ d.funct3 \in DOMAIN StoreText ->
             format_offset(StoreText[d.funct3], d, TRUE)
      [] d.opcode = kBranch /\ d.funct3 \in DOMAIN BranchText ->
             format_branch(BranchText[d.funct3], d)
      [] d.opcode = kLui -> format_u("lui", d)
      [] d.opcode = kAuipc -> format_u("auipc", d)
      [] d.opcode = kJal -> Instruction("jal", <<d.rd>>, <<"target", d.imm>>)
      [] d.opcode = kJalr /\ d.funct3 = 0 -> format_offset("jalr", d, FALSE)
      [] d.opcode = kMiscMem /\ d.funct3 = 0 -> Instruction("fence", <<>>, None)
      [] d.opcode = kMiscMem /\ d.funct3 = 1 -> Instruction("fence.i", <<>>, None)
      [] d.opcode = kSystem -> SystemText(d)
      [] OTHER -> Illegal

\* The instruction an assembler makes of a text: the number of lui and auipc
\* is shifted back into place.
Assembled(text) ==
    IF text.number[1] = "upper" THEN [text EXCEPT !.number[2] = Shl(@, 12)] ELSE text

-----------------------------------------------------------------------------
(* The execution.                                                          *)

is_valid_funct7(funct7, funct3) ==
    funct7 = 0 \/ (funct7 = 32 /\ funct3 \in {0, 5})

is_valid_shift(funct7, funct3) ==
    (funct3 = 1 /\ funct7 = 0) \/ (funct3 = 5 /\ funct7 \in {0, 32})

\* execute_op: what is written to rd, of rs1 and rs2.
ExecutedOp(d) ==
    LET operations == <<"add", "sll", "slt", "sltu", "xor", "srl", "or", "and">>
        operation == CASE d.funct7 = 32 /\ d.funct3 = 0 -> "sub"
                       [] d.funct7 = 32 /\ d.funct3 = 5 -> "sra"
                       [] OTHER -> operations[d.funct3 + 1]
    IN  IF is_valid_funct7(d.funct7, d.funct3)
        THEN Instruction(operation, <<d.rd, d.rs1, d.rs2>>, None) ELSE Illegal

\* execute_op_imm: of rs1 and the immediate, or the low bits of the rs2 field.
ExecutedOpImm(d) ==
    LET operations == <<"addi", "slli", "slti", "sltiu", "xori", "srli", "ori", "andi">>
    IN  IF d.funct3 \notin {1, 5}
        THEN Instruction(operations[d.funct3 + 1], <<d.rd, d.rs1>>, <<"imm", d.imm>>)
        ELSE IF ~is_valid_shift(d.funct7, d.funct3) THEN Illegal
        ELSE Instruction(IF d.funct3 = 5 /\ d.funct7 = 32 THEN "srai"
                         ELSE operations[d.funct3 + 1],
                         <<d.rd, d.rs1>>, <<"shamt", d.rs2 % 32>>)

\* execute_load and execute_store: the access at rs1 plus the immediate.
ExecutedAccess(d) ==
    LET loads == [f \in {0, 1, 2, 4, 5} |-> <<"lb", "lh", "lw", "none", "lbu", "lhu">>[f + 1]]
        stores == [f \in {0, 1, 2} |-> <<"sb", "sh", "sw">>[f + 1]]
        offset == <<"imm", d.imm>>
    IN  CASE d.opcode = kLoad /\ d.funct3 \in DOMAIN loads ->
                 Instruction(loads[d.funct3], <<d.rd, d.rs1>>, offset)
          [] d.opcode = kStore /\ d.funct3 \in DOMAIN stores ->
                 Instruction(stores[d.funct3], <<d.rs2, d.rs1>>, offset)
          [] OTHER -> Illegal

\* execute_branch compares rs1 and rs2 and goes to pc plus the immediate.
ExecutedBranch(d) ==
    LET conditions == <<"beq", "bne", "none", "none", "blt", "bge", "bltu", "bgeu">>
    IN  IF d.funct3 \in {2, 3} THEN Illegal
        ELSE Instruction(conditions[d.funct3 + 1], <<d.rs1, d.rs2>>, <<"target", d.imm>>)

\* execute_system.
ExecutedSystem(d) ==
    IF d.funct3 # 0 \/ d.rd # 0 \/ d.rs1 # 0 \/ \E i \in 1 .. 31 : d.imm[i] = 1 THEN Illegal
    ELSE Instruction(IF d.imm[0] = 0 THEN "ecall" ELSE "ebreak", <<>>, None)

\* Interpreter::execute; Illegal is the trap ILLEGAL_INSTRUCTION.
Executed(d) ==
    CASE d.opcode = kLui -> Instruction("lui", <<d.rd>>, <<"upper", d.imm>>)
      [] d.opcode = kAuipc -> Instruction("auipc", <<d.rd>>, <<"upper", d.imm>>)
      [] d.opcode = kJal -> Instruction("jal", <<d.rd>>, <<"target", d.imm>>)
      [] d.opcode = kJalr /\ d.funct3 = 0 ->
             Instruction("jalr", <<d.rd, d.rs1>>, <<"imm", d.imm>>)
      [] d.opcode = kBranch -> ExecutedBranch(d)
      [] d.opcode \in {kLoad, kStore} -> ExecutedAccess(d)
      [] d.opcode = kOpImm -> ExecutedOpImm(d)
      [] d.opcode = kOp -> ExecutedOp(d)
      [] d.opcode = kSystem -> ExecutedSystem(d)
      [] d.opcode = kMiscMem /\ d.funct3 <= 1 ->
             Instruction(IF d.funct3 = 0 THEN "fence" ELSE "fence.i", <<>>, None)
      [] OTHER -> Illegal
=============================================================================
