--------------------------- MODULE MCInterpreter ---------------------------
(***************************************************************************)
(* A machine of 256 addresses (bytes of two bits, pages of eight bytes):   *)
(* a segment on pages 0 .. 2, the heap from 20, the stack on 48 .. 63, and  *)
(* six programs of five words.                                            *)
(***************************************************************************)
EXTENDS Interpreter

I == [ZeroWord EXCEPT !.legal = TRUE]
compute(rd, results) == [I EXCEPT !.op = "compute", !.rd = rd, !.results = results]
branch(cond, rs1, rs2, imm) ==
    [I EXCEPT !.op = "branch", !.cond = cond, !.rs1 = rs1, !.rs2 = rs2, !.imm = imm]
jal(rd, imm) == [I EXCEPT !.op = "jal", !.rd = rd, !.imm = imm]
jalr(rd, rs1, imm) == [I EXCEPT !.op = "jalr", !.rd = rd, !.rs1 = rs1, !.imm = imm]
load(rd, rs1, imm, size) ==
    [I EXCEPT !.op = "load", !.rd = rd, !.rs1 = rs1, !.imm = imm, !.size = size, !.signed = TRUE]
store(rs2, rs1, imm, size) ==
    [I EXCEPT !.op = "store", !.rs2 = rs2, !.rs1 = rs1, !.imm = imm, !.size = size]
ecall == [I EXCEPT !.op = "ecall"]
ebreak == [I EXCEPT !.op = "ebreak"]
fence == [I EXCEPT !.op = "fence"]

Words(seq) == [a \in {4 * (i - 1) : i \in DOMAIN seq} |-> seq[1 + a \div 4]]

\* Break after break, with a store to the last byte of the heap in between.
BrkProgram == Words(<<compute(a7, {BrkCall}),
                      compute(a0, {0, 19, 20, 22, 30, 48, 49}),
                      ecall,
                      store(a7, a0, -1, 1),
                      jal(0, -12)>>)

\* Loads, stores (to code too) and jumps through the same address.
AccessProgram == Words(<<compute(a0, {12, 13, 18, 40, 56, 254}),
                         load(a1, a0, 0, 2),
                         branch("bne", a1, 0, -8),
                         store(2, a0, 0, 4),
                         jalr(1, a0, 3)>>)

\* A loop that calls a system call stub, until the call is exit.
CallProgram == Words(<<compute(a7, {ExitCall, 5}),
                       jal(1, 8),
                       jal(0, -8),
                       ecall,
                       jalr(0, 1, 0)>>)

\* write, from buffers that end in unmapped memory too.
WriteProgram == Words(<<compute(a0, {1, 3}),
                        compute(a1, {2, 62, 254}),
                        compute(a2, {0, 2, 4}),
                        compute(a7, {WriteCall}),
                        ecall>>)

\* Instructions that do little, branches of both signs, illegal instructions.
OddProgram == Words(<<fence,
                      compute(0, {7}),
                      branch("blt", a0, 2, 8),
                      ebreak,
                      [jal(0, 0) EXCEPT !.op = "branch", !.legal = FALSE]>>)
OddProgram2 == Words(<<compute(a0, {1, 255}),
                       branch("bgeu", a0, 2, 8),
                       branch("bge", a0, 2, 8),
                       branch("bltu", a0, 2, -8),
                       ebreak>>)

AllPrograms == {BrkProgram, AccessProgram, CallProgram, WriteProgram, OddProgram, OddProgram2}
MCRegs == {0, 1, 2, a0, a1, a2, a7}
MCImage == [a \in 0 .. 19 |-> a % ByteValues]
MCRewrites == {ZeroWord, ebreak}
=============================================================================
