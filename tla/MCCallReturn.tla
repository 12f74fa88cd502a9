---------------------------- MODULE MCCallReturn ----------------------------
(***************************************************************************)
(* Two or three return addresses, stacks of depth 0 .. 3 and runs of up to *)
(* six calls: a run may overflow every stack, run dry and overflow again.  *)
(***************************************************************************)
EXTENDS CallReturn
=============================================================================
