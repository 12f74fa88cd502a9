--------------------------- MODULE PhysicalMemory ---------------------------
(***************************************************************************)
(* The paged memory of the simulated machine: class PhysicalMemory         *)
(* (src/memory/physical_memory.cpp).  A memory is the function from mapped *)
(* addresses to bytes, so a page is mapped when its addresses are in the   *)
(* domain.  Accesses are judged first (AccessFault) and done afterwards    *)
(* (Fetched, Stored): every access of the code that faults returns before  *)
(* it has changed anything.                                                *)
(*                                                                         *)
(* A word has four bytes of ByteValues values and an address is a word:    *)
(* the program has ByteValues = 256 and PageSize = 4096.                   *)
(***************************************************************************)
EXTENDS Integers, FiniteSets

CONSTANTS ByteValues, PageSize

ASSUME MemoryAssumption ==
    /\ ByteValues \in Nat \ {0} /\ ByteValues % 2 = 0
    /\ PageSize \in Nat \ {0}
    /\ (ByteValues * ByteValues * ByteValues * ByteValues) % PageSize = 0

\* What byte k of a word counts for; the fourth power is the number of words.
Weight(k) == CASE k = 0 -> 1
               [] k = 1 -> ByteValues
               [] k = 2 -> ByteValues * ByteValues
               [] k = 3 -> ByteValues * ByteValues * ByteValues
               [] k = 4 -> ByteValues * ByteValues * ByteValues * ByteValues

WordValues == Weight(4)
Byte == 0 .. ByteValues - 1
Address == 0 .. WordValues - 1
AccessSize == {1, 2, 4}

\* uint32_t arithmetic wraps around.
Wrap(n) == n % WordValues

\* The bytes of an access.
Bytes(addr, size) == addr .. addr + size - 1

PageOf(addr) == addr \div PageSize

\* mutant of MapRegion: a page that is mapped already is zeroed again.
MapRegionAfresh(mem, addr, size) ==
    LET region == {a \in Address : PageOf(a) \in PageOf(addr) .. PageOf(addr + size - 1)}
    IN  IF size = 0 THEN mem
        ELSE [a \in DOMAIN mem \cup region |-> IF a \in region THEN 0 ELSE mem[a]]

\* map_region: zeroed pages that cover the region up to the end of the address
\* space; pages already mapped keep their contents.
MapRegion(mem, addr, size) ==
    LET last == IF addr + size < WordValues THEN addr + size - 1 ELSE WordValues - 1
        region == {a \in Address : PageOf(a) \in PageOf(addr) .. PageOf(last)}
    IN  IF size = 0 THEN mem
        ELSE [a \in DOMAIN mem \cup region |-> IF a \in DOMAIN mem THEN mem[a] ELSE 0]

NoFault == [cause |-> "NONE", value |-> 0]
Fault(cause, value) == [cause |-> cause, value |-> value]

\* What check_alignment, check_range and the page lookups of an access report:
\* at most one trap, of the first check that fails, at the first byte unmapped.
AccessFault(mem, addr, size, misaligned, fault) ==
    IF addr % size # 0 THEN Fault(misaligned, addr)
    ELSE IF addr > WordValues - size THEN Fault(fault, addr)
    ELSE IF Bytes(addr, size) \subseteq DOMAIN mem THEN NoFault
    ELSE Fault(fault, CHOOSE a \in Bytes(addr, size) \ DOMAIN mem :
                          \A b \in Bytes(addr, size) \ DOMAIN mem : a <= b)

LoadFault(mem, addr, size) == AccessFault(mem, addr, size, "LOAD_MISALIGNED", "LOAD_FAULT")
StoreFault(mem, addr, size) == AccessFault(mem, addr, size, "STORE_MISALIGNED", "STORE_FAULT")
FetchFault(mem, addr) ==
    AccessFault(mem, addr, 4, "INSTRUCTION_ADDRESS_MISALIGNED", "INSTRUCTION_ACCESS_FAULT")

\* The little-endian value of an access that does not fault.
Fetched(mem, addr, size) ==
    mem[addr] + (IF size >= 2 THEN mem[addr + 1] * Weight(1) ELSE 0)
              + (IF size = 4 THEN mem[addr + 2] * Weight(2) + mem[addr + 3] * Weight(3) ELSE 0)

\* The memory after a store that does not fault: the low bytes of the value.
Stored(mem, addr, size, value) ==
    [a \in DOMAIN mem |->
        IF a \in Bytes(addr, size) THEN (value \div Weight(a - addr)) % ByteValues
        ELSE mem[a]]
=============================================================================
