------------------------- MODULE ReturnAddressStack -------------------------
(***************************************************************************)
(* The return address stack that every predictor but always-not-taken      *)
(* carries: class ReturnAddressStack                                       *)
(* (include/risc-e/component/predictor/return_address_stack.hpp) with      *)
(* predict_call_return and resolve_call_return (branch_predictor.hpp).     *)
(***************************************************************************)
EXTENDS Integers, Sequences

Top(s) == s[Len(s)]
Below(s) == SubSeq(s, 1, Len(s) - 1)

\* Mutant of Push: a full stack loses its newest entry.
PushOverTop(depth, s, a) ==
    IF depth = 0 THEN s ELSE Append(IF Len(s) = depth THEN Below(s) ELSE s, a)

\* push: a full stack loses its oldest entry.
Push(depth, s, a) ==
    IF depth = 0 THEN s ELSE Append(IF Len(s) = depth THEN Tail(s) ELSE s, a)

\* predict_call_return: a return is predicted to go to the top of the stack; an
\* empty stack predicts the fall-through, which is never where a return goes.
Predicted(s, target) == s # <<>> /\ Top(s) = target

\* Mutant of Resolved: a return leaves its entry on the stack.
ResolvedInPlace(depth, s, target) ==
    IF s = <<>> \/ Predicted(s, target) THEN s ELSE Push(depth, Below(s), target)

\* resolve_call_return of a return.
Resolved(depth, s, target) ==
    IF s = <<>> THEN s
    ELSE IF Predicted(s, target) THEN Below(s)
    ELSE Push(depth, Below(s), target)
=============================================================================
