------------------------------ MODULE Decoder ------------------------------
(***************************************************************************)
(* The instruction decoder: decode_raw_inst (src/decoder/decoder.cpp).     *)
(* A 32-bit word is the function from its bit positions to its bits, so    *)
(* the shifts and masks of the code are functions on positions and no      *)
(* number of 32 bits is ever needed.  Fields of at most seven bits are     *)
(* numbers.                                                                *)
(***************************************************************************)
EXTENDS Integers

Bits == 0 .. 31
Word == [Bits -> {0, 1}]
Zero == [i \in Bits |-> 0]

\* Shifts: >> of an unsigned and of a signed word, and <<.
Shr(w, n) == [i \in Bits |-> IF i + n \in Bits THEN w[i + n] ELSE 0]
Sar(w, n) == [i \in Bits |-> IF i + n \in Bits THEN w[i + n] ELSE w[31]]
Shl(w, n) == [i \in Bits |-> IF i - n \in Bits THEN w[i - n] ELSE 0]

\* & with the mask whose ones are at the positions of ones, and |.
Masked(w, ones) == [i \in Bits |-> IF i \in ones THEN w[i] ELSE 0]
Or(v, w) == [i \in Bits |-> IF v[i] = 1 THEN 1 ELSE w[i]]

\* The number in bits low .. high of a word.
Field(w, low, high) ==
    LET value[i \in low .. high + 1] == IF i > high THEN 0 ELSE w[i] + 2 * value[i + 1]
    IN  value[low]

-----------------------------------------------------------------------------
(* The immediates.                                                         *)

decode_i_imm(inst) == Sar(inst, 20)

\* mutant of decode_s_imm: the low bits of the signed part are not cleared.
DecodeSUnmasked(inst) == Or(Sar(inst, 20), Masked(Shr(inst, 7), 0 .. 4))

decode_s_imm(inst) == Or(Masked(Sar(inst, 20), 5 .. 31), Masked(Shr(inst, 7), 0 .. 4))

decode_b_imm(inst) ==
    Or(Or(Masked(Sar(inst, 19), 12 .. 31), Shl(Masked(Shr(inst, 7), {0}), 11)),
       Or(Shl(Masked(Shr(inst, 25), 0 .. 5), 5), Shl(Masked(Shr(inst, 8), 0 .. 3), 1)))

decode_u_imm(inst) == Masked(inst, 12 .. 31)

decode_j_imm(inst) ==
    Or(Or(Masked(Sar(inst, 11), 20 .. 31), Shl(Masked(Shr(inst, 12), 0 .. 7), 12)),
       Or(Shl(Masked(Shr(inst, 20), {0}), 11), Shl(Masked(Shr(inst, 21), 0 .. 9), 1)))

-----------------------------------------------------------------------------
(* Opcodes (decoder/opcodes.hpp) and their formats.                        *)

kLoad == 3
kMiscMem == 15
kOpImm == 19
kAuipc == 23
kOpImm32 == 27
kStore == 35
kStoreFp == 39
kAmo == 47
kOp == 51
kLui == 55
kOp32 == 59
kBranch == 99
kJalr == 103
kJal == 111
kSystem == 115

Format == {"R", "I", "S", "B", "U", "J", "UNKNOWN"}

classify_opcode(op) ==
    CASE op \in {kLoad, kMiscMem, kOpImm, kOpImm32, kJalr, kSystem} -> "I"
      [] op \in {kLui, kAuipc} -> "U"
      [] op = kJal -> "J"
      [] op = kBranch -> "B"
      [] op \in {kStore, kStoreFp} -> "S"
      [] op \in {kOp, kOp32, kAmo} -> "R"
      [] OTHER -> "UNKNOWN"

Immediate(inst, format) ==
    CASE format = "I" -> decode_i_imm(inst)
      [] format = "S" -> decode_s_imm(inst)
      [] format = "B" -> decode_b_imm(inst)
      [] format = "U" -> decode_u_imm(inst)
      [] format = "J" -> decode_j_imm(inst)
      [] OTHER -> Zero

decode_raw_inst(inst) ==
    [raw |-> inst,
     opcode |-> Field(inst, 0, 6),
     rd |-> Field(inst, 7, 11),
     funct3 |-> Field(inst, 12, 14),
     rs1 |-> Field(inst, 15, 19),
     rs2 |-> Field(inst, 20, 24),
     funct7 |-> Field(inst, 25, 31),
     imm |-> Immediate(inst, classify_opcode(Field(inst, 0, 6)))]

-----------------------------------------------------------------------------
(* The reference: where the instruction set puts the bits of an immediate. *)

Nowhere == -1

\* The bit of the instruction that bit i of the immediate repeats.  The sign
\* is bit 31 in every format.
SourceBit(format, i) ==
    CASE format = "I" -> IF i <= 10 THEN i + 20 ELSE 31
      [] format = "S" -> IF i <= 4 THEN i + 7 ELSE IF i <= 10 THEN i + 20 ELSE 31
      [] format = "B" -> IF i = 0 THEN Nowhere ELSE IF i <= 4 THEN i + 7
                         ELSE IF i <= 10 THEN i + 20 ELSE IF i = 11 THEN 7 ELSE 31
      [] format = "U" -> IF i <= 11 THEN Nowhere ELSE i
      [] format = "J" -> IF i = 0 THEN Nowhere ELSE IF i <= 10 THEN i + 20
                         ELSE IF i = 11 THEN 20 ELSE IF i <= 19 THEN i ELSE 31
      [] OTHER -> Nowhere

Encoded(inst, format) ==
    [i \in Bits |-> IF SourceBit(format, i) = Nowhere THEN 0 ELSE inst[SourceBit(format, i)]]
=============================================================================
