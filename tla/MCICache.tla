------------------------------ MODULE MCICache ------------------------------
(* Instances of ICacheRecency for TLC.  A line holds two instructions.     *)
EXTENDS ICacheRecency

Block(pc, n) == [entry_pc |-> pc, per_exec |-> n]

AllDesigns == Design
Plru == {[policy |-> "PLRU", prefetch |-> FALSE]}

\* Two sets of two ways: three single lines that compete for set 0, and blocks
\* of two to five lines that overlap them and each other; one starts in the
\* middle of a line and one is larger than its share of the cache.
Overlapping == <<Block(0, 2), Block(16, 2), Block(32, 1), Block(4, 4), Block(16, 8), Block(0, 9)>>

\* Six single lines in one set.
SingleLines == <<Block(0, 2), Block(8, 1), Block(16, 2), Block(24, 2), Block(32, 2), Block(44, 1)>>
=============================================================================
