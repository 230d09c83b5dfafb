---------------------------- MODULE MCNvmWorker ----------------------------
(* Stripes of three blocks over two segments of two blocks each: the third *)
(* small write of a segment finds it full.  Each request set is as small   *)
(* as the question of its run allows.                                      *)
EXTENDS NvmWorker

MCKeys == 0 .. 5
MCBucket == [k \in MCKeys |-> k]

W(k, n) == [offset |-> k, len |-> n]

(* Both segments are filled and migrated, and compete for the threads.     *)
BothSegments == {W(k, 1) : k \in MCKeys}
(* Segment 0 is filled and migrated.                                       *)
SmallWrites == {W(k, 1) : k \in 0 .. 2}
(* Segment 0 is also superseded by large writes.                           *)
OneSegment == SmallWrites \cup {W(0, 2), W(1, 2)}

(* The state as the guards and the invariants of the passing runs see it.  *)
(* Nothing reads the ssd, the staging area, the meta of a block or what a  *)
(* thread carries; of a block nobody indexes the content is not read, of   *)
(* an ssd_queue only the length; a local is read only until its owner is   *)
(* back at the top of its loop.                                            *)
SafetyView ==
    LET indexed == {k \in Keys : \E s \in Segments : index[s][k] # NoBlock}
        Block(s, k) == BufferBlock(s, index[s][k])
    IN  <<opc, migrate_mutex, completed, migration, tpc, hand, done, next_flag,
          migrate_segment_idx,
          [t \in Threads |-> IF tpc[t] \in {"work", "move"} THEN segment_idx[t] ELSE NoBlock],
          mpc, index, bitmap, next_bit, used,
          {<<k, small[k]>> : k \in indexed},
          {<<s, k, bdata[Block(s, k)]>> : <<s, k>> \in
              {<<u, j>> \in Segments \X indexed : index[u][j] # NoBlock}},
          wpc, [s \in Segments |-> IF wpc[s] = "idle" THEN NoTask ELSE task[s]],
          [s \in Segments |-> IF wpc[s] = "store" THEN blk[s] ELSE NoBlock],
          [s \in Segments |-> Len(ssdq[s])], queue_empty, spc>>
=============================================================================
