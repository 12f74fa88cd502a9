------------------------------- MODULE Loader -------------------------------
(***************************************************************************)
(* The ELF loader (load_elf, src/elf/loader.cpp) and what the interpreter  *)
(* makes of its result on construction (load_elf_segments and the          *)
(* constructor, src/interpreter/interpreter.cpp).                          *)
(*                                                                         *)
(* A file is a record: whether it can be read, its size, whether the       *)
(* fields of its header that are compared with a fixed value have that     *)
(* value, where its program headers are, what they say, and its bytes.     *)
(* The sizes of the two headers are constants.  Sums are of 64 bits in the *)
(* code and of natural numbers here: neither wraps.  The order of the      *)
(* checks is left out: every one that fails throws the same exception      *)
(* with another text.                                                      *)
(***************************************************************************)
EXTENDS PhysicalMemory, SequencesExt

CONSTANTS HeaderSize,      \* sizeof(Elf32_Ehdr)
          ProgramHeaderSize,
          StackPointer, StackSize   \* kInitialStackPointer, kStackSize

ProgramHeader == [load : BOOLEAN, offset : Nat, vaddr : Address, filesz : Nat,
                  memsz : Nat, executable : BOOLEAN]

\* A file as it can be on disk; headers beyond its end are not looked at.
File == [opens : BOOLEAN, size : Nat, identified : BOOLEAN, phoff : Nat,
         headers : Seq(ProgramHeader), bytes : [Nat -> Byte]]

ASSUME LoaderAssumption ==
    /\ HeaderSize \in Nat \ {0}
    /\ ProgramHeaderSize \in Nat \ {0}
    /\ StackPointer \in Address /\ StackSize \in 1 .. StackPointer

-----------------------------------------------------------------------------
(* load_elf.                                                               *)

\* The program headers of type PT_LOAD, in order.
LoadHeaders(file) ==
    LET upto[i \in 0 .. Len(file.headers)] ==
            IF i = 0 THEN <<>>
            ELSE IF file.headers[i].load THEN Append(upto[i - 1], file.headers[i])
            ELSE upto[i - 1]
    IN  upto[Len(file.headers)]

\* read_file and the checks of load_elf on the header and the program headers.
HeadersFit(file) ==
    /\ file.opens
    /\ file.size >= HeaderSize
    /\ file.identified
    /\ file.phoff + Len(file.headers) * ProgramHeaderSize <= file.size

\* What the loader asks of a segment: here and in extract_segments.
SegmentFits(file, h) ==
    /\ h.vaddr + h.memsz <= WordValues - 1
    /\ h.filesz <= h.memsz
    /\ h.offset + h.filesz <= file.size

\* load_elf returns; otherwise it throws.
Loadable(file) ==
    /\ HeadersFit(file)
    /\ LoadHeaders(file) # <<>>
    /\ \A i \in DOMAIN LoadHeaders(file) : SegmentFits(file, LoadHeaders(file)[i])

\* mutant of SegmentData: the file is read on into what follows the segment.
SegmentDataUnpadded(file, h) ==
    [k \in 0 .. h.memsz - 1 |-> IF h.offset + k < file.size THEN file.bytes[h.offset + k] ELSE 0]

\* seg.data: the segment's bytes in the file, then zeros.
SegmentData(file, h) ==
    [k \in 0 .. h.memsz - 1 |-> IF k < h.filesz THEN file.bytes[h.offset + k] ELSE 0]

\* extract_segments: the loadable segments in the order of their headers.
Segments(file) ==
    [i \in DOMAIN LoadHeaders(file) |->
        LET h == LoadHeaders(file)[i]
        IN  [vaddr |-> h.vaddr, size |-> h.memsz, executable |-> h.executable,
             data |-> SegmentData(file, h)]]

-----------------------------------------------------------------------------
(* The constructor of Interpreter.                                         *)

\* map_region for the stack and for every segment: the addresses mapped.
Mapped(segments) ==
    LET region(addr, size) == DOMAIN MapRegion(<<>>, addr, size)
    IN  region(StackPointer - StackSize, StackSize)
            \cup UNION {region(segments[i].vaddr, segments[i].size) : i \in DOMAIN segments}

\* store8 of every byte of a segment.
CopiedSegment(mem, seg) ==
    [a \in DOMAIN mem |-> IF a - seg.vaddr \in DOMAIN seg.data THEN seg.data[a - seg.vaddr]
                          ELSE mem[a]]

\* The segments are copied in order.
Constructed(segments) ==
    LET upto[i \in 0 .. Len(segments)] ==
            IF i = 0 THEN [a \in Mapped(segments) |-> 0]
            ELSE CopiedSegment(upto[i - 1], segments[i])
    IN  upto[Len(segments)]

-----------------------------------------------------------------------------
(* The reference.                                                          *)

Covers(h, a) == h.load /\ a \in h.vaddr .. h.vaddr + h.memsz - 1

\* The byte a program finds at an address when it starts: the last program
\* header that covers the address decides, and what it does not take from the
\* file is zero.
ImageByte(file, a) ==
    LET covering == {i \in DOMAIN file.headers : Covers(file.headers[i], a)}
        h == file.headers[CHOOSE i \in covering : \A j \in covering : j <= i]
    IN  IF covering # {} /\ a - h.vaddr < h.filesz
        THEN file.bytes[h.offset + a - h.vaddr] ELSE 0
=============================================================================
