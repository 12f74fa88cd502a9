---------------------------- MODULE DCacheMemory ----------------------------
(***************************************************************************)
(* simulate_dcache moves no data: it decides where data would move.  This  *)
(* module lets data follow those decisions.  A refill copies the line from *)
(* the level below, a dirty eviction copies it back, a store changes the   *)
(* copies the write policy says it changes.  Were the simulator to forget  *)
(* a dirty bit, a write-back or a direct write, a later load would return  *)
(* a stale value, and Memory would not be implemented.                     *)
(***************************************************************************)
EXTENDS DCache

CONSTANTS Value,          \* what a line may hold
          InitialValues   \* what the lines hold at first, a subset of Value

ASSUME ValueAssumption == InitialValues \subseteq Value

VARIABLES data,     \* per set and way: the value of the line it holds
          below,    \* per line: the value in the level below
          result    \* the value the last access returned or wrote

Line == {LineOf(rec.addr) : rec \in Accesses}

MemInit ==
    /\ Init
    /\ below \in [Line -> InitialValues]
    /\ data \in [SetIndex -> [WayIndex -> InitialValues]]
    /\ result \in InitialValues

\* Data of a hit: the way that holds the line, and the level below as well
\* under write-through.
HitData(line, kind, value) ==
    LET set == IndexOf(line)
        way == FirstWay(Holders(set, TagOf(line)))
    IN  IF kind = "Load"
        THEN result' = data[set][way] /\ UNCHANGED <<data, below>>
        ELSE /\ result' = value
             /\ data' = [data EXCEPT ![set] = [@ EXCEPT ![way] = value]]
             /\ below' = IF WriteBack THEN below ELSE [below EXCEPT ![line] = value]

\* Data of a store that does not allocate: only the level below changes.
BypassData(line, value) ==
    /\ result' = value
    /\ below' = [below EXCEPT ![line] = value]
    /\ data' = data

\* Data of a refill: the victim is copied back if it is dirty, then the line
\* is copied up, then a store changes the copy (and, under write-through, the
\* level below).
RefillData(line, kind, value) ==
    LET set == IndexOf(line)
        slot == SlotFor(set)
        victim == LineAt(set, storage[set][slot].tag)
        written_back == IF WritesBack(set)
                        THEN [below EXCEPT ![victim] = data[set][slot]] ELSE below
        got == IF kind = "Load" THEN written_back[line] ELSE value
    IN  /\ result' = got
        /\ data' = [data EXCEPT ![set] = [@ EXCEPT ![slot] = got]]
        /\ below' = IF kind = "Store" /\ ~WriteBack
                    THEN [written_back EXCEPT ![line] = value] ELSE written_back

\* One access, and the data it moves.
MemAccess(rec, value) ==
    LET line == LineOf(rec.addr)
    IN  /\ \/ Hit(rec.kind, rec.addr) /\ HitData(line, rec.kind, value)
           \/ NoAllocateStore(rec.kind, rec.addr) /\ BypassData(line, value)
           \/ Refill(rec.kind, rec.addr) /\ RefillData(line, rec.kind, value)
        /\ trace' = Append(trace, rec)
        /\ cfg' = cfg

MemNext == \E rec \in Accesses, value \in Value :
               Len(trace) < MaxAccesses /\ MemAccess(rec, value)

MemSpec == MemInit /\ [][MemNext]_<<vars, data, below, result>>

-----------------------------------------------------------------------------
\* The value the program sees for a line: the cached copy if there is one.
Seen(line) ==
    LET set == IndexOf(line)
        held == Holders(set, TagOf(line))
    IN  IF held # {} THEN data[set][FirstWay(held)] ELSE below[line]

Promise == INSTANCE Memory WITH
              mem <- [line \in Line |-> Seen(line)],
              requests <- [i \in DOMAIN trace |->
                             [kind |-> trace[i].kind, line |-> LineOf(trace[i].addr)]]

\* Under every combination of write policy, allocation and replacement the
\* cache is invisible: no store is lost by an eviction, no load returns stale
\* data (dcache.cpp:43-73, 102-158).
ImplementsMemory == Promise!Spec
=============================================================================
