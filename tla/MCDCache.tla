------------------------------ MODULE MCDCache ------------------------------
(* Instances of DCache and DCacheMemory for TLC.                           *)
EXTENDS DCacheMemory

AllConfigs == [policy : {"LRU", "PLRU"},
               write_policy : {"WriteBack", "WriteThrough"},
               write_allocate : BOOLEAN]

\* Three lines that compete for the two ways of set 1, stores to two of them,
\* and a line of set 0.
CompetingAccesses == [kind : {"Load"}, addr : {2, 6, 11, 1}] \cup [kind : {"Store"}, addr : {3, 6}]
=============================================================================
