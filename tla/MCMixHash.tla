----------------------------- MODULE MCMixHash -----------------------------
(* Three of the four keys collide, so that an entry can be the head, in    *)
(* the middle and at the end of a list.                                    *)
EXTENDS MixHash

MCBucket == [k \in Keys |-> IF k = 3 THEN 1 ELSE 0]
=============================================================================
