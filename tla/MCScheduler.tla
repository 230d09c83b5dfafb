---------------------------- MODULE MCScheduler -----------------------------
(* Two clients that post two tasks in all, two workers, queues of one slot.*)
(* Block 0 is on the nvm, block 1 ends at the threshold, blocks 2 to 5 are *)
(* keys 0 to 3 of the ssd, in two stripes.                                 *)
EXTENDS Scheduler

Request1(o, f, l) == [op |-> o, offset |-> f, len |-> l]

(* On the nvm; up to the threshold; keys 1 to 3, a small and a large part. *)
MixedRequests == {Request1("write", 0, 1), Request1("write", 3, 3),
                  Request1("write", 1, 1),
                  Request1("read", 1, 1), Request1("read", 3, 3)}
=============================================================================
