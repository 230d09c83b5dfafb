--------------------------- MODULE MCMigratePool ---------------------------
(* Two owners share two threads.  Of the three buckets thread 0 empties    *)
(* two and thread 1 one.                                                   *)
EXTENDS MigratePool

MCKeys == {10, 11, 12}
MCBucket == [k \in MCKeys |-> k - 10]
=============================================================================
