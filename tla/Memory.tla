------------------------------- MODULE Memory -------------------------------
(***************************************************************************)
(* What a program may expect of a memory with any number of caches in      *)
(* front of it: a load returns the value of the last store to its line.    *)
(***************************************************************************)
EXTENDS Sequences

CONSTANTS Line, Value

VARIABLES mem,      \* the value of every line
          result,   \* the value the last access returned or wrote
          requests  \* the accesses made, in order

Init ==
    /\ mem \in [Line -> Value]
    /\ result \in Value
    /\ requests = <<>>

Load(line) ==
    /\ result' = mem[line]
    /\ mem' = mem
    /\ requests' = Append(requests, [kind |-> "Load", line |-> line])

Store(line, value) ==
    /\ mem' = [mem EXCEPT ![line] = value]
    /\ result' = value
    /\ requests' = Append(requests, [kind |-> "Store", line |-> line])

Next == \E line \in Line : Load(line) \/ \E value \in Value : Store(line, value)

Spec == Init /\ [][Next]_<<mem, result, requests>>
=============================================================================
