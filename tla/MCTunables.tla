----------------------------- MODULE MCTunables -----------------------------
(* Command lines for TLC.  An int has four bits, a long eleven.            *)
EXTENDS Tunables

For(component, name, value) == [component |-> component, name |-> name, value |-> value]

\* Valid and invalid values, the same tunable twice, inactive and unknown
\* components, and an unknown tunable.
MCOverrides ==
    {For("two-bit", "table-size", 4), For("two-bit", "table-size", 6),
     For("gshare", "history-bits", 16), For("gshare", "history-bits", 0), For("gshare", "ras-depth", 0),
     For("icache-plru", "ways", 2), For("icache-plru", "ways", 6),
     For("icache-fa", "ways", 6), For("icache-fa", "sets", 2),
     For("pipeline", "stages", 7), For("pipeline", "stages", 16),
     For("l1-l2", "l2-sets", 3), For("l1-l2", "l2-sets", Junk),
     For("nothing", "ways", 1)}

MCNames == {"", "gshare", "icache-plru", "l1-l2", "pipeline", "predictor", "nothing"}
MCTexts == {Junk, 0, 6, 17}
=============================================================================
