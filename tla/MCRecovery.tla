----------------------------- MODULE MCRecovery -----------------------------
(* Two blocks and three keys: the third key finds the segment full, and a  *)
(* block is used again under another key.  The data tell the keys apart,   *)
(* and for one key the writes.  Five events are enough for a full segment, *)
(* its migration, a write to a block used again, and a power failure or    *)
(* the migration of another segment, in any order.                         *)
EXTENDS Recovery

W(k, v) == [key |-> k, buf |-> v]
MCRequests == {W(1, "a"), W(1, "b"), W(2, "c"), W(3, "d")}
=============================================================================
