------------------------------- MODULE Driver -------------------------------
(***************************************************************************)
(* One run of the program from the moment its arguments are known: the try *)
(* block of main (src/main.cpp), with compile_source, load_elf, the        *)
(* construction of the interpreter, the report and the listing             *)
(* (print_disassembly, src/disasm/disasm.cpp).  What the arguments are and *)
(* which components price the run is the subject of Tunables; what the     *)
(* interpreter does is the subject of Interpreter.  Here the interpreter   *)
(* is a process that stores to mapped memory, enters blocks, and halts or  *)
(* does not.                                                               *)
(*                                                                         *)
(* Instructions gives the 32-bit word a word of the small memory stands    *)
(* for; zero stands for zero.                                              *)
(***************************************************************************)
EXTENDS Loader, Disassembler

CONSTANTS Files,           \* files the loader may find, a subset of File
          Instructions,    \* per word of memory, the word it stands for
          Writes,          \* <<address, byte>> pairs the program may store
          Entries,         \* addresses at which the program may enter a block
          Magic,           \* the bytes an ELF header begins with
          PhoffAt, PhentsizeAt, PhnumAt,   \* where it has e_phoff, e_phentsize, e_phnum
          MaxStores        \* bound: stores of the program

ASSUME DriverAssumption ==
    /\ Files # {}
    /\ \A f \in Files :
          /\ f.headers \in Seq(ProgramHeader) /\ f.size \in Nat /\ f.phoff \in Nat
          /\ \A k \in 0 .. f.size - 1 : f.bytes[k] \in Byte
    /\ Instructions \in [Address -> Word]
    /\ \A n \in Address : Instructions[n] = Zero <=> n = 0
    /\ Writes \subseteq Address \X Byte
    /\ Entries \subseteq Address
    /\ Magic \in [0 .. 3 -> Byte]
    /\ PhoffAt \in Nat /\ PhentsizeAt \in Nat /\ PhnumAt \in Nat
    /\ PhoffAt + 4 <= HeaderSize /\ PhentsizeAt + 2 <= HeaderSize /\ PhnumAt + 2 <= HeaderSize
    /\ MaxStores \in Nat

VARIABLES phase,           \* the part of the try block that runs
          input,           \* "elf", or the kind of source: "c", "asm"
          disasm,          \* --disasm
          file,            \* the file at load_path
          temp, guarded,   \* temporary paths that exist, and those of TempFileGuard
          elf,             \* the loader's result until the interpreter takes it
          segments,        \* the copy of its segments kept for the listing
          mem,             \* the interpreter's memory
          halt_reason, exit_code,
          entries,         \* entry_pc of the profile's blocks
          stores,          \* stores so far
          report,          \* what the report file says, once it is written
          seg, pc, first_pc, last_pc,   \* the loops of print_disassembly
          lines,           \* the listing so far
          verdict          \* what the last line on the terminal says

starting == <<input, disasm, file>>
machine == <<mem, halt_reason, exit_code, entries, stores>>
cursor == <<seg, pc, first_pc, last_pc>>
vars == <<phase, starting, temp, guarded, elf, segments, machine, report, cursor, lines, verdict>>

NoReport == [halt_reason |-> "NONE", exit_code |-> FALSE]

Init ==
    /\ phase = "start"
    /\ input \in {"elf", "asm", "c"}
    /\ disasm \in BOOLEAN
    /\ file \in Files
    /\ temp = {} /\ guarded = {}
    /\ elf = <<>> /\ segments = <<>>
    /\ mem = <<>>
    /\ halt_reason = "NONE" /\ exit_code = FALSE
    /\ entries = {}
    /\ stores = 0
    /\ report = NoReport
    /\ seg = 1 /\ pc = 0 /\ first_pc = 0 /\ last_pc = 0
    /\ lines = <<>>
    /\ verdict = NoReport

\* The try block is left, by a return or by an exception: the guard's destructor
\* removes what it knows of, and main returns.
Leave(existing) ==
    /\ phase' = "returned"
    /\ temp' = existing \ guarded

Continue(next) == phase' = next /\ UNCHANGED temp

-----------------------------------------------------------------------------
(* compile_source.                                                         *)

\* The input is no source file: it is loaded as it is.
TakeElf ==
    /\ phase = "start" /\ input = "elf"
    /\ Continue("load")
    /\ UNCHANGED guarded

FindCompiler ==
    /\ phase = "start" /\ input # "elf"
    /\ \/ Leave(temp) /\ UNCHANGED guarded      \* none found
       \/ /\ guarded' = guarded \cup {"out"}
          /\ Continue(IF input = "c" THEN "runtime" ELSE "compile")

RegistersNothing(paths) == paths        \* mutant of RegistersRuntime
RegistersRuntime(paths) == paths \cup {"runtime"}

\* create_directories throws, or the directory exists and is registered.
CreateRuntime ==
    /\ phase = "runtime"
    /\ \/ Leave(temp) /\ UNCHANGED guarded
       \/ /\ temp' = temp \cup {"runtime"}
          /\ guarded' = RegistersRuntime(guarded)
          /\ phase' = "write"

\* crt0.S and risc-e.h, inside the directory.
WriteRuntime ==
    /\ phase = "write"
    /\ Leave(temp) \/ Continue("compile")
    /\ UNCHANGED guarded

\* A compiler that fails may have written some of its output.
Compile ==
    /\ phase = "compile"
    /\ \/ \E output \in {{}, {"out"}} : Leave(temp \cup output)
       \/ temp' = temp \cup {"out"} /\ phase' = "load"
    /\ UNCHANGED guarded

Prepare ==
    /\ TakeElf \/ FindCompiler \/ CreateRuntime \/ WriteRuntime \/ Compile
    /\ UNCHANGED <<starting, elf, segments, machine, report, cursor, lines, verdict>>

-----------------------------------------------------------------------------
(* Load, construct, run, report.                                           *)

Load ==
    /\ phase = "load"
    /\ IF Loadable(file) THEN Continue("construct") /\ elf' = Segments(file)
       ELSE Leave(temp) /\ UNCHANGED elf
    /\ UNCHANGED <<starting, guarded, segments, machine, report, cursor, lines, verdict>>

\* The listing's copy of the segments is taken before the interpreter takes the ELF.
Construct ==
    /\ phase = "construct"
    /\ segments' = IF disasm THEN elf ELSE <<>>
    /\ mem' = Constructed(elf)
    /\ elf' = <<>>
    /\ Continue("run")
    /\ UNCHANGED <<starting, guarded, halt_reason, exit_code, entries, stores, report, cursor,
                   lines, verdict>>

\* The program stores to memory that is mapped.
RunStores ==
    /\ phase = "run"
    /\ stores < MaxStores
    /\ \E w \in Writes : w[1] \in DOMAIN mem /\ mem' = Stored(mem, w[1], 1, w[2])
    /\ stores' = stores + 1
    /\ UNCHANGED <<phase, starting, temp, guarded, elf, segments, halt_reason, exit_code, entries,
                   report, cursor, lines, verdict>>

\* The program halts: Interpreter::run returns an exit code after ECALL only.
RunHalts ==
    /\ phase = "run"
    /\ halt_reason' \in {"ECALL", "EBREAK", "TRAP"}
    /\ exit_code' = (halt_reason' = "ECALL")
    /\ entries' \in SUBSET Entries
    /\ Continue("report")
    /\ UNCHANGED <<starting, guarded, elf, segments, mem, stores, report, cursor, lines, verdict>>

WriteReport ==
    /\ phase = "report"
    /\ \/ Leave(temp) /\ UNCHANGED report       \* the file cannot be opened
       \/ /\ report' = [halt_reason |-> halt_reason, exit_code |-> exit_code]
          /\ Continue(IF disasm THEN "segment" ELSE "finish")
    /\ UNCHANGED <<starting, guarded, elf, segments, machine, cursor, lines, verdict>>

-----------------------------------------------------------------------------
(* print_disassembly.                                                      *)

\* The end of a segment, which the loader keeps below the end of the address
\* space.
End(s) == s.vaddr + s.size

\* A segment whose data begins with the magic holds the headers of a file, and
\* their fields say how far they go; the walk starts behind them.
HoldsHeader(s) == s.size >= HeaderSize /\ \A k \in 0 .. 3 : s.data[k] = Magic[k]
HeadersEnd(s) ==
    Wrap(Fetched(s.data, PhoffAt, 4)
             + Fetched(s.data, PhentsizeAt, 2) * Fetched(s.data, PhnumAt, 2))
WalkStart(s) ==
    IF HoldsHeader(s) /\ HeadersEnd(s) < s.size THEN s.vaddr + HeadersEnd(s) ELSE s.vaddr

NextSegment ==
    /\ seg' = seg + 1
    /\ Continue("segment")
    /\ UNCHANGED <<pc, first_pc, last_pc>>

EnterSegment ==
    /\ phase = "segment"
    /\ IF seg > Len(segments) THEN Continue("finish") /\ UNCHANGED cursor
       ELSE IF ~segments[seg].executable THEN NextSegment
       ELSE /\ pc' = WalkStart(segments[seg])
            /\ first_pc' = 0 /\ last_pc' = 0
            /\ Continue("scan")
            /\ UNCHANGED seg
    /\ UNCHANGED <<halt_reason, lines>>

\* fetch32: a fault calls raise_trap of the interpreter that has halted, and
\* the word is 0.
FetchedWord == IF FetchFault(mem, pc) = NoFault THEN Fetched(mem, pc, 4) ELSE 0
FetchTraps ==
    halt_reason' = IF FetchFault(mem, pc) = NoFault THEN halt_reason ELSE "TRAP"

MoreUpToEnd(s) == pc <= End(s)     \* mutant of MoreToScan
MoreToScan(s) == Wrap(pc + 4) <= End(s)

\* mutant of ScanNext: padding is skipped before the address moves on.
ScanNextIfCode(word) == IF word = 0 THEN pc ELSE Wrap(pc + 4)

\* mutant of ScanNext: the address is wider than the address space.
ScanNextWide(word) == pc + 4

ScanNext(word) == Wrap(pc + 4)

\* mutant of FirstOf: the word before is the first.
FirstOfAfter(word) == IF word # 0 /\ first_pc = 0 THEN Wrap(pc + 4) ELSE first_pc

FirstOf(word) == IF word # 0 /\ first_pc = 0 THEN pc ELSE first_pc

\* One iteration of the loop that trims zero words, or its end.
Scan ==
    /\ phase = "scan"
    /\ IF MoreToScan(segments[seg])
       THEN /\ first_pc' = FirstOf(FetchedWord)
            /\ last_pc' = IF FetchedWord # 0 THEN pc ELSE last_pc
            /\ pc' = ScanNext(FetchedWord)
            /\ FetchTraps
            /\ UNCHANGED <<phase, temp, seg>>
       ELSE /\ IF first_pc = 0 THEN NextSegment
               ELSE pc' = first_pc /\ Continue("list") /\ UNCHANGED <<seg, first_pc, last_pc>>
            /\ UNCHANGED halt_reason
    /\ UNCHANGED lines

\* One line, or the end of the segment.
List ==
    /\ phase = "list"
    /\ IF pc <= last_pc
       THEN /\ lines' = Append(lines, [pc |-> pc, word |-> FetchedWord, marked |-> pc \in entries])
            /\ pc' = Wrap(pc + 4)
            /\ FetchTraps
            /\ UNCHANGED <<phase, temp, seg, first_pc, last_pc>>
       ELSE NextSegment /\ UNCHANGED <<halt_reason, lines>>

print_disassembly ==
    /\ EnterSegment \/ Scan \/ List
    /\ UNCHANGED <<starting, guarded, elf, segments, mem, exit_code, entries, stores, report,
                   verdict>>

\* The last line: the exit code, or why the program halted.
Finish ==
    /\ phase = "finish"
    /\ verdict' = [halt_reason |-> IF exit_code THEN "ECALL" ELSE halt_reason,
                   exit_code |-> exit_code]
    /\ Leave(temp)
    /\ UNCHANGED <<starting, guarded, elf, segments, machine, report, cursor, lines>>

-----------------------------------------------------------------------------
Main == Prepare \/ Load \/ Construct \/ WriteReport \/ print_disassembly \/ Finish
Next == Main \/ RunStores \/ RunHalts

\* main is one thread, and all it waits for is the compiler it starts with
\* std::system, which is taken to end (main.cpp:136); so it goes on until it
\* returns.  The simulated program may run for ever.
Spec == Init /\ [][Next]_vars /\ WF_vars(Main)

-----------------------------------------------------------------------------
(* Properties.                                                             *)

\* TypeOK: the listing is at a segment, memory holds bytes, and the guard knows
\* paths of this process only.
TypeOK ==
    /\ phase \in {"start", "runtime", "write", "compile", "load", "construct", "run", "report",
                  "segment", "scan", "list", "finish", "returned"}
    /\ temp \subseteq {"out", "runtime"} /\ guarded \subseteq {"out", "runtime"}
    /\ \A a \in DOMAIN mem : a \in Address /\ mem[a] \in Byte
    /\ halt_reason \in {"NONE", "ECALL", "EBREAK", "TRAP"} /\ exit_code \in BOOLEAN
    /\ {pc, first_pc, last_pc} \subseteq Address
    /\ seg \in 1 .. Len(segments) + 1
    /\ phase \in {"scan", "list"} => seg \in DOMAIN segments

\* TempFilesRemoved: whichever way the program leaves the try block (no
\* compiler, no directory, no runtime file, a compiler that fails with half an
\* output, a file the loader refuses, a report that cannot be written, a normal
\* return), none of its temporary files is left (main.cpp:76-140).
TempFilesRemoved == phase = "returned" => temp = {}

\* ImageIsLoaded: the interpreter starts with the image the program headers
\* describe: every segment and the stack are mapped, where segments overlap the
\* last one counts, and what comes from no file is zero (loader.cpp:66-88,
\* interpreter.cpp:272-297).
ConstructsImage ==
    phase = "construct" =>
        /\ \A a \in Address : (\E i \in DOMAIN file.headers : Covers(file.headers[i], a))
                                  => a \in DOMAIN mem'
        /\ StackPointer - StackSize .. StackPointer - 1 \subseteq DOMAIN mem'
        /\ \A a \in DOMAIN mem' : mem'[a] = ImageByte(file, a)
ImageIsLoaded == [][ConstructsImage]_vars

\* ListingComplete: the listing shows the loaded image (main.cpp:658), segment by
\* segment: every word of an executable segment from the first behind its headers
\* that is not zero to the last, once, with the entries of blocks marked
\* (disasm.hpp:28-31, disasm.cpp:203-240).  It is required where the code and these
\* comments agree on what that is: the run has left the words as they were loaded
\* (the code lists what memory holds by then), every walk starts at a word (off
\* one it lists nothing), and no code is at address 0 (where it is left out).
WordsOf(s) == {a \in Address : a % 4 = 0 /\ WalkStart(s) <= a /\ a + 4 <= End(s)}
Image(a) == Fetched([b \in Address |-> ImageByte(file, b)], a, 4)
Undisputed(s) ==
    s.executable =>
        /\ WalkStart(s) % 4 = 0
        /\ \A a \in WordsOf(s) : Fetched(mem, a, 4) = Image(a) /\ (a = 0 => Image(a) = 0)
Expected(s) ==
    LET code == {a \in WordsOf(s) : Image(a) # 0}
        first == Min(code)
    IN  IF ~s.executable \/ code = {} THEN <<>>
        ELSE [k \in 1 .. 1 + (Max(code) - first) \div 4 |->
                 LET a == first + 4 * (k - 1)
                 IN  [pc |-> a, word |-> Image(a), marked |-> a \in entries]]
ListingComplete ==
    phase = "finish" /\ disasm /\ (\A i \in DOMAIN segments : Undisputed(segments[i])) =>
        lines = FlattenSeq([i \in DOMAIN segments |-> Expected(segments[i])])

\* What the words of the listing are: as text, and as the interpreter runs them.
Decoded == [n \in Address |-> decode_raw_inst(Instructions[n])]
TextOf == [n \in Address |-> disassemble_instruction(Decoded[n])]
ExecutedOf == [n \in Address |-> Executed(Decoded[n])]

\* ImmediatesAsEncoded: the immediate of every listed word has the bits the
\* instruction set puts there, whatever shifts and masks gather them
\* (decoder.cpp:17-41).
ImmediatesAsEncoded ==
    \A i \in DOMAIN lines :
        LET d == Decoded[lines[i].word]
        IN  d.imm = Encoded(d.raw, classify_opcode(d.opcode))

\* ListedAsExecuted: an instruction the interpreter accepts is listed with the
\* operation, the registers and the number it is executed with
\* (disasm.cpp:87-177 against interpreter.cpp:90-281, 370-440).
ListedAsExecuted ==
    \A i \in DOMAIN lines :
        LET n == lines[i].word
        IN  ExecutedOf[n] # Illegal => Assembled(TextOf[n]) = ExecutedOf[n]

\* MirrorsValidity: and what the interpreter rejects is listed as illegal:
\* "Mirrors the interpreter's validity rules" (disasm.hpp:24-26).  Violated:
\* an OP with a funct7 of no instruction is listed as the one with funct7 0.
MirrorsValidity ==
    \A i \in DOMAIN lines :
        LET n == lines[i].word
        IN  ExecutedOf[n] = Illegal => TextOf[n] = Illegal

\* VerdictStands: the program ends by saying on the terminal what the report
\* says, although the listing calls back into the interpreter, as long as the
\* walk over every executable segment starts at a word.
WalksAligned ==
    \A i \in DOMAIN segments : segments[i].executable => WalkStart(segments[i]) % 4 = 0
VerdictStands ==
    phase = "returned" /\ verdict # NoReport /\ WalksAligned => verdict = report

\* EndsOnceHalted: before the run, and after a run that halts, the program goes
\* on to the run or to its return, unless it lists an executable segment that
\* reaches the last word of the address space (disasm.cpp:220).
EndsBelowLastWord ==
    \A i \in DOMAIN file.headers :
        LET h == file.headers[i]
        IN  h.load /\ h.executable => h.vaddr + h.memsz < WordValues - 4
EndsOnceHalted ==
    phase # "run" /\ (disasm => EndsBelowLastWord) ~> phase \in {"run", "returned"}
=============================================================================
