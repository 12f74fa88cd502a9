------------------------- MODULE MCBranchPrediction -------------------------
(***************************************************************************)
(* Small tables and stacks.  Two branches of one history and two entries   *)
(* of the folded and local tables in a long run; or a branch with jumps,   *)
(* calls, returns and indirect jumps in a shorter one.                     *)
(***************************************************************************)
EXTENDS BranchPrediction, Bitwise

MCBitXor(a, b) == a ^^ b

branch(pc, target) ==
    [kind |-> "branch", pc |-> pc, target |-> target, call |-> FALSE, return |-> FALSE]

AllDesigns == {[name |-> "two-bit-saturating", size |-> 2, bits |-> 0, ras_depth |-> 1],
               [name |-> "gshare", size |-> 2, bits |-> 1, ras_depth |-> 0],
               [name |-> "gshare", size |-> 8, bits |-> 3, ras_depth |-> 2],
               [name |-> "tournament", size |-> 2, bits |-> 1, ras_depth |-> 1],
               [name |-> "always-not-taken", size |-> 1, bits |-> 0, ras_depth |-> 0],
               [name |-> "ras", size |-> 1, bits |-> 0, ras_depth |-> 2]}

BranchCode == {branch(4, 20), branch(20, 4)}
MixedCode == {branch(4, 20),
              [kind |-> "jal", pc |-> 8, target |-> 24, call |-> TRUE, return |-> FALSE],
              [kind |-> "jal", pc |-> 12, target |-> 4, call |-> FALSE, return |-> FALSE],
              [kind |-> "jalr", pc |-> 24, target |-> 0, call |-> FALSE, return |-> TRUE],
              [kind |-> "jalr", pc |-> 16, target |-> 0, call |-> TRUE, return |-> FALSE]}
MCJumpTargets == {12, 20}

Both == {[code |-> BranchCode, max_transfers |-> 7], [code |-> MixedCode, max_transfers |-> 5]}
=============================================================================
