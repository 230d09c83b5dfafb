----------------------------- MODULE MCMixQueue -----------------------------
(* A ring of four slots and two task values, with counters that wrap every *)
(* eight tasks so that the wrap happens at every fill level of the ring.   *)
EXTENDS MixQueue
CONSTANTS t1, t2
=============================================================================
