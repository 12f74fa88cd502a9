----------------------------- MODULE CallReturn -----------------------------
(***************************************************************************)
(* The return address stack run against the calls and returns of a         *)
(* program: frames holds the return addresses of the functions in          *)
(* progress.  A return ends MaxUnwound functions at most: one, for a       *)
(* program whose returns match its calls; more, for one with a longjmp,    *)
(* whose last instruction is a return too.                                 *)
(***************************************************************************)
EXTENDS ReturnAddressStack

CONSTANTS Addresses,     \* return addresses
          MaxDepth,      \* ReturnAddressStack::kMaxDepth
          MaxUnwound,    \* functions one return may end
          MaxCalls       \* bound: calls of a run

ASSUME StackAssumption ==
    /\ MaxDepth \in Nat
    /\ MaxUnwound \in Nat
    /\ MaxCalls \in Nat

VARIABLES depth, entries,    \* ReturnAddressStack
          indirect_misses,   \* BranchStats, of the returns
          frames,            \* the program's own stack
          calls, deepest,    \* history: calls made, most functions in progress
          dropped            \* history: entries lost to a full stack

callVars == <<depth, entries, indirect_misses, frames, calls, deepest, dropped>>

-----------------------------------------------------------------------------
CallInit ==
    /\ depth \in 0 .. MaxDepth
    /\ entries = <<>>
    /\ indirect_misses = 0
    /\ frames = <<>>
    /\ calls = 0 /\ deepest = 0 /\ dropped = 0

\* resolve_call_return of a call that will return to a.
Call(a) ==
    /\ calls < MaxCalls
    /\ entries' = Push(depth, entries, a)
    /\ dropped' = dropped + (IF Len(entries) = depth THEN 1 ELSE 0)
    /\ frames' = Append(frames, a)
    /\ calls' = calls + 1
    /\ deepest' = IF Len(frames) < deepest THEN deepest ELSE Len(frames) + 1
    /\ UNCHANGED <<depth, indirect_misses>>

\* A return that ends the n functions called last.
Return(n) ==
    LET target == frames[Len(frames) + 1 - n]
    IN  /\ n <= Len(frames)
        /\ entries' = Resolved(depth, entries, target)
        /\ indirect_misses' = indirect_misses + (IF Predicted(entries, target) THEN 0 ELSE 1)
        /\ frames' = SubSeq(frames, 1, Len(frames) - n)
        /\ UNCHANGED <<depth, calls, deepest, dropped>>

CallNext == \/ \E a \in Addresses : Call(a)
            \/ \E n \in 1 .. MaxUnwound : Return(n)

CallSpec == CallInit /\ [][CallNext]_callVars

-----------------------------------------------------------------------------
\* CallTypeOK: the stack holds addresses, never more than its depth.
CallTypeOK ==
    /\ depth \in 0 .. MaxDepth
    /\ entries \in Seq(Addresses) /\ Len(entries) <= depth
    /\ frames \in Seq(Addresses)
    /\ {indirect_misses, calls, deepest, dropped} \subseteq Nat

\* EntriesAreTopFrames: of a program whose returns match its calls, the stack
\* holds the return addresses of the functions called last, in their order,
\* whatever overflowed before.
EntriesAreTopFrames ==
    /\ Len(entries) <= Len(frames)
    /\ \A i \in 1 .. Len(entries) : entries[i] = frames[i + Len(frames) - Len(entries)]

\* MissesPayForDrops: such a program mispredicts a return only for an entry that
\* a full stack has dropped, and only once: the functions in progress that the
\* stack no longer knows are the entries dropped and not yet missed.
MissesPayForDrops == Len(frames) - Len(entries) = dropped - indirect_misses

\* WithinDepthNeverMisses: as long as its calls nest no deeper than the stack,
\* such a program has no return mispredicted.
WithinDepthNeverMisses == deepest <= depth => dropped = 0 /\ indirect_misses = 0
=============================================================================
