-------------------------- MODULE MCDCacheRecency --------------------------
(* Instances of DCacheRecency for TLC.                                     *)
EXTENDS DCacheRecency

\* Every policy.
EveryPolicy == [policy : Policy, write_policy : {"WriteBack"}, write_allocate : {FALSE}]

\* One line more than a set of four ways holds, and a store, which may bypass it.
FiveLines == [kind : {"Load"}, addr : 0 .. 4] \cup [kind : {"Store"}, addr : {0}]
=============================================================================
