---------------------------- MODULE MCHierarchy ----------------------------
(* Instances of Hierarchy for TLC.                                         *)
EXTENDS Hierarchy

\* What the constructor L1L2Cache::L1L2Cache selects for both levels.
Shipped == [policy |-> "LRU", write_policy |-> "WriteBack", write_allocate |-> TRUE]

\* Five L1 lines in three L2 lines.
FiveLines == [kind : {"Load", "Store"}, addr : {0, 1, 2, 3, 4}]
=============================================================================
