------------------------------ MODULE Recency ------------------------------
(***************************************************************************)
(* The order ticks put things in: what the bookkeeping of an LRU cache     *)
(* stands for.  No two things of a set have the same tick.                 *)
(***************************************************************************)
EXTENDS Integers, FiniteSets

TicksDiffer(S, tick) == \A x, y \in S : tick[x] = tick[y] => x = y

\* The things of a set with a later tick.
Newer(S, tick, x) == {y \in S : tick[y] > tick[x]}

\* The things of a set, latest tick first.
NewestFirst(S, tick) ==
    [i \in 1 .. Cardinality(S) |-> CHOOSE x \in S : Cardinality(Newer(S, tick, x)) = i - 1]
=============================================================================
