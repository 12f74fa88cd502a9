------------------------------ MODULE MCDriver ------------------------------
(***************************************************************************)
(* Instances of Driver for TLC: a machine of 256 addresses, with bytes of  *)
(* two bits and pages of 16 bytes; a file header has 12 bytes (the magic,  *)
(* e_phoff, e_phentsize and e_phnum) and a program header 4.  The 255      *)
(* words of memory stand for instructions of every opcode, function code   *)
(* and kind of immediate.                                                  *)
(***************************************************************************)
EXTENDS Driver

\* The 32-bit word with the given fields.
InstructionWord(op, rd, funct3, rs1, rs2, funct7) ==
    LET bit(n, k) == (n \div 2 ^ k) % 2
    IN  [i \in Bits |-> CASE i <= 6 -> bit(op, i)
                          [] i \in 7 .. 11 -> bit(rd, i - 7)
                          [] i \in 12 .. 14 -> bit(funct3, i - 12)
                          [] i \in 15 .. 19 -> bit(rs1, i - 15)
                          [] i \in 20 .. 24 -> bit(rs2, i - 20)
                          [] i >= 25 -> bit(funct7, i - 25)]

\* Every function code of every opcode, ecall and ebreak and what is not quite
\* one, and immediates of both signs whose fields differ.
Row(n, word(_)) == [k \in 1 .. n |-> word(k - 1)]
Pick(seq, k) == seq[1 + (k % Len(seq))]
Samples ==
    Row(48, LAMBDA k : InstructionWord(Pick(<<kOp, kOpImm>>, k \div 24), 21, k % 8, 10, 9,
                                       Pick(<<0, 1, 32>>, k \div 8)))
    \o Row(80, LAMBDA k : InstructionWord(
               Pick(<<kLoad, kStore, kBranch, kJalr, kMiscMem>>, k \div 16), 21, k % 8, 10, 9,
               Pick(<<42, 85>>, k \div 8)))
    \o Row(24, LAMBDA k : InstructionWord(Pick(<<kLui, kAuipc, kJal>>, k), Pick(<<0, 12>>, k \div 3),
                                          Pick(<<2, 5>>, k \div 6), Pick(<<7, 24>>, k \div 12), 19, 76))
    \o Row(24, LAMBDA k : InstructionWord(kSystem, (k \div 3) % 2, (k \div 6) % 2,
                                          Pick(<<0, 3>>, k \div 12), k % 3, 0))
    \o Row(5, LAMBDA k : InstructionWord(Pick(<<kAmo, kOpImm32, kOp32, kStoreFp, 127>>, k),
                                         5, 2, 17, 30, 99))

MCInstructions ==
    [n \in Address |-> IF n = 0 THEN Zero ELSE Pick(Samples, n - 1)]

\* The words of a file header: the magic, the place of the program headers, and
\* their size and number.
MCMagic == [k \in 0 .. 3 |-> Pick(<<3, 1, 2, 3>>, k)]
HeaderWords(phoff, phnum) == <<3 + 4 * 1 + 16 * 2 + 64 * 3, phoff, 4 + 16 * phnum>>

\* The bytes of a file: the headers, with room for two of the program, then the
\* words of the program.
FrontSize == 20
FileBytes(phnum, words) ==
    LET content == HeaderWords(12, phnum) \o <<57, 114>> \o words
    IN  [b \in 0 .. 4 * Len(content) - 1 |-> (content[1 + (b \div 4)] \div 4 ^ (b % 4)) % 4]

ElfFile(headers, words) ==
    [opens |-> TRUE, size |-> FrontSize + 4 * Len(words), identified |-> TRUE,
     phoff |-> 12, headers |-> headers, bytes |-> FileBytes(Len(headers), words)]

Segment(offset, vaddr, filesz, memsz, executable) ==
    [load |-> TRUE, offset |-> offset, vaddr |-> vaddr, filesz |-> filesz, memsz |-> memsz,
     executable |-> executable]
Note == [Segment(250, 0, 9, 1, TRUE) EXCEPT !.load = FALSE]

\* A text segment that begins with the headers, and data with zeros behind it.
Text(words) == Segment(0, 16, FrontSize + 4 * Len(words), FrontSize + 4 * Len(words), TRUE)
Data == Segment(22, 106, 5, 12, FALSE)
Usual(words) == ElfFile(<<Text(words), Data>>, words)

\* Files that list every word of memory, in groups of 15.
EveryWord == {Usual([k \in 1 .. 15 |-> 15 * g + k]) : g \in 0 .. 16}

Words == <<0, 7, 0, 200, 0>>
Layouts == {
    \* the text at address 0, with and without a first word, and beside a note
    ElfFile(<<Segment(20, 0, 20, 20, TRUE), Note>>, Words),
    ElfFile(<<Note, Segment(20, 0, 20, 20, TRUE)>>, <<5, 0, 6, 0, 9>>),
    ElfFile(<<Segment(20, 0, 4, 8, TRUE)>>, <<5>>),
    \* data of a text that begins like a file: behind these headers there is code,
    \* or they end behind the text, or their sizes wrap around
    ElfFile(<<Segment(20, 32, 24, 24, TRUE)>>, HeaderWords(12, 1) \o <<9, 7, 5>>),
    ElfFile(<<Segment(20, 32, 16, 16, TRUE)>>, HeaderWords(200, 1) \o <<9>>),
    ElfFile(<<Segment(20, 32, 16, 16, TRUE)>>, HeaderWords(252, 2) \o <<9>>),
    \* two texts, the second over the end of the first; an empty segment
    ElfFile(<<Segment(20, 32, 20, 40, TRUE), Segment(24, 44, 8, 30, TRUE)>>, <<3, 7, 11, 200, 255>>),
    ElfFile(<<Data, Segment(20, 64, 0, 0, TRUE)>>, Words),
    \* texts that do not start at a word, or end at a page or at the last word
    ElfFile(<<Segment(20, 34, 20, 20, TRUE), Data>>, Words),
    ElfFile(<<Segment(20, 44, 20, 20, TRUE), Data>>, <<1, 2, 3, 4, 5>>),
    ElfFile(<<Segment(20, 240, 11, 11, TRUE)>>, <<1, 2, 3>>),
    ElfFile(<<Segment(20, 240, 12, 12, TRUE)>>, <<1, 2, 3>>)}

\* Files the loader must refuse.
Refused == {
    [Usual(Words) EXCEPT !.opens = FALSE],
    [Usual(Words) EXCEPT !.identified = FALSE],
    [Usual(Words) EXCEPT !.size = 11],
    [Usual(Words) EXCEPT !.phoff = 33],
    ElfFile(<<Note>>, Words),
    ElfFile(<<Segment(20, 32, 9, 8, TRUE)>>, Words),
    ElfFile(<<Segment(32, 32, 9, 9, TRUE)>>, Words),
    ElfFile(<<Segment(20, 248, 4, 8, TRUE)>>, Words)}

MCFiles == EveryWord \cup Layouts \cup Refused
MCWrites == {<<36, 0>>, <<48, 3>>, <<106, 1>>}
MCEntries == {36, 48}
=============================================================================
