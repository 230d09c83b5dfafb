----------------------------- MODULE NvmWorker -----------------------------
(***************************************************************************)
(* The write path of the ssd area: nvm_worker.c with mix_meta.c,           *)
(* mix_bitmap.c, ssd_worker.c, ssd.c and the buffer part of nvm.c.         *)
(*                                                                         *)
(* Worker s owns segment s of the buffer: its hash, its bitmap and its     *)
(* blocks.  It redirects a small write into a block of its segment and     *)
(* forwards a large write through ssd_queue[s] to ssd_worker s, clearing   *)
(* the blocks it supersedes.  When the segment is full it has the migrate  *)
(* threads of MigratePool move every entry to the ssd.                     *)
(*                                                                         *)
(* Abstractions.  A hash is the map from its keys to its values; the order *)
(* in which a thread finds its entries is left open.  A queue is a         *)
(* sequence (MixQueue shows that the ring is one).  The content of a block *)
(* is one value, and so is that of all blocks of one write.  What only one *)
(* thread can see is done in one step.                                     *)
(***************************************************************************)
EXTENDS Integers, FiniteSets, Sequences

CONSTANTS SegmentNum, ThreadNum, Keys, HashSize, Bucket,  \* see MigratePool
          PerBlock,      \* per_block_num, the blocks of one segment
          Stripe,        \* stripe_size
          Threshold,     \* threshold, the longest small write
          Values,        \* what a block can hold
          Requests,      \* the writes the clients send, [offset, len]
          SsdQueueSize   \* the capacity of an ssd_queue

Segments == 0 .. SegmentNum - 1
Threads == 0 .. ThreadNum - 1
Blocks == 0 .. PerBlock - 1                       \* of one segment
BufferBlocks == 0 .. SegmentNum * PerBlock - 1    \* of the buffer
NoBlock == -1
NoKey == -1
NoValue == "zero"   \* the content of a block nobody wrote

Request == [offset : Keys, len : 1 .. Stripe]

(* mix_post_task_to_buffer cuts every client request at the stripes and    *)
(* deals the stripes to the workers in turn.                               *)
Home(k) == (k \div Stripe) % SegmentNum

Span(r) == r.offset .. r.offset + r.len - 1

ASSUME WorkerConstants ==
    /\ SegmentNum \in Nat \ {0} /\ ThreadNum \in Nat \ {0} /\ HashSize \in Nat \ {0}
    /\ Keys \subseteq Nat /\ IsFiniteSet(Keys)
    /\ Bucket \in [Keys -> 0 .. HashSize - 1]
    /\ PerBlock \in Nat \ {0, 1} /\ Stripe \in Nat \ {0}
    /\ Threshold \in Nat \ {0} /\ SsdQueueSize \in Nat \ {0}
    /\ Requests \subseteq Request
    /\ \A r \in Requests : Span(r) \subseteq Keys
                           /\ \A k \in Span(r) : k \div Stripe = r.offset \div Stripe

VARIABLES
    \* the handshake, see MigratePool
    opc, migrate_mutex, next_flag, migrate_segment_idx, completed, migration,
    tpc, segment_idx, hand, done,
    \* the metadata of each segment
    index,          \* hash[s]: the block of a key, or NoBlock
    bitmap,         \* the bits that are set
    next_bit,
    used,           \* used_block_num
    \* the buffer
    bdata, bmeta,   \* per block its content, and the key in its valid meta
    \* the worker
    wpc, task, blk,
    \* the ssd worker and its queue
    ssdq, queue_empty, spc, stask,
    \* the migrate thread's step in migrate_from_buffer_to_ssd and its locals
    mpc, kv_value, migrate_buf,
    \* the ssd
    memalign_src,   \* the staging area of mix_ssd_write, in regions
    ssd,
    small           \* history: the last small write of each key

handshake == <<opc, migrate_mutex, next_flag, migrate_segment_idx, completed,
               migration, tpc, segment_idx, hand, done>>
meta == <<index, bitmap, next_bit, used>>
buffer == <<bdata, bmeta>>
worker == <<wpc, task, blk>>
ssdworker == <<ssdq, queue_empty, spc, stask>>
mover == <<mpc, kv_value, migrate_buf>>
device == <<memalign_src, ssd>>
vars == <<handshake, meta, buffer, worker, ssdworker, mover, device, small>>

(* What MigratePool calls pending.                                         *)
Pending == [s \in Segments |-> {k \in Keys : index[s][k] # NoBlock}]

Pool == INSTANCE MigratePool WITH pending <- Pending

Content == Values \cup {NoValue}
Task == [offset : Keys, len : 1 .. Stripe, buf : Values]
NoTask == [offset |-> NoKey, len |-> 0, buf |-> NoValue]

TypeOK ==
    /\ Pool!TypeOK
    /\ index \in [Segments -> [Keys -> Blocks \cup {NoBlock}]]
    /\ bitmap \in [Segments -> SUBSET Blocks]
    /\ next_bit \in [Segments -> {0, 1}]
    /\ used \in [Segments -> 0 .. PerBlock]
    /\ bdata \in [BufferBlocks -> Content]
    /\ bmeta \in [BufferBlocks -> Keys \cup {NoKey}]
    /\ wpc \in [Segments -> {"idle", "alloc", "store", "drain", "migrate",
                             "post", "clear"}]
    /\ task \in [Segments -> Task \cup {NoTask}]
    /\ blk \in [Segments -> Blocks \cup {NoBlock}]
    /\ ssdq \in [Segments -> Seq(Task)]
    /\ queue_empty \in [Segments -> BOOLEAN]
    /\ spc \in [Segments -> {"poll", "took", "copy", "write"}]
    /\ stask \in [Segments -> Task \cup {NoTask}]
    /\ mpc \in [Threads -> {"none", "copy", "write", "clear"}]
    /\ kv_value \in [Threads -> Blocks \cup {NoBlock}]
    /\ migrate_buf \in [Threads -> Content]
    /\ memalign_src \in [Segments -> [0 .. Stripe - 1 -> Content]]
    /\ ssd \in [Keys -> Content]
    /\ small \in [Keys -> Content]

Init ==
    /\ index = [s \in Segments |-> [k \in Keys |-> NoBlock]]
    /\ Pool!Init
    /\ bitmap = [s \in Segments |-> {}]
    /\ next_bit = [s \in Segments |-> 0]
    /\ used = [s \in Segments |-> 0]
    /\ bdata = [b \in BufferBlocks |-> NoValue]
    /\ bmeta = [b \in BufferBlocks |-> NoKey]
    /\ wpc = [s \in Segments |-> "idle"]
    /\ task = [s \in Segments |-> NoTask]
    /\ blk = [s \in Segments |-> NoBlock]
    /\ ssdq = [s \in Segments |-> <<>>]
    /\ queue_empty = [s \in Segments |-> FALSE]
    /\ spc = [s \in Segments |-> "poll"]
    /\ stask = [s \in Segments |-> NoTask]
    /\ mpc = [t \in Threads |-> "none"]
    /\ kv_value = [t \in Threads |-> NoBlock]
    /\ migrate_buf = [t \in Threads |-> NoValue]
    /\ memalign_src = [s \in Segments |-> [i \in 0 .. Stripe - 1 |-> NoValue]]
    /\ ssd = [k \in Keys |-> NoValue]
    /\ small = [k \in Keys |-> NoValue]

-----------------------------------------------------------------------------
(* The bitmap.                                                             *)

(* Error: the bit is taken without a look at it.                           *)
ZeroBitUntested(B, start) == start

(* The bit the scan of mix_bitmap_next_zero_bit ends at: the first clear   *)
(* one at or after start, around the end.                                  *)
ZeroBit(B, start) ==
    CHOOSE b \in Blocks \ B :
        \A c \in Blocks \ B : (b - start) % PerBlock <= (c - start) % PerBlock

(* Error: no reduction to the size of the bitmap.                          *)
NextBitPastEnd(b) == b + 1

(* Where it begins the next time: a division stands where a remainder was  *)
(* meant, so this is 1 after the last bit and 0 after any other.           *)
NextBit(b) == (b + 1) \div PerBlock

(* The bit mix_write_redirect_blockmeta takes for that of block b: a C     *)
(* division, which truncates toward 0.                                     *)
RedirectBit(s, b) == IF b < s THEN 0 ELSE (b - s) \div SegmentNum

BufferBlock(s, b) == s * PerBlock + b

-----------------------------------------------------------------------------
(* The worker: redirect_write.                                             *)

(* A request of the clients reaches worker s through buffer_queue[s].      *)
Receive(s, r, v) ==
    /\ wpc[s] = "idle"
    /\ Home(r.offset) = s
    /\ task' = [task EXCEPT ![s] = [offset |-> r.offset, len |-> r.len, buf |-> v]]

IsSmall(r) == r.len <= Threshold

(* mix_buffer_block_test                                                   *)
InBuffer(s, k) == index[s][k] # NoBlock /\ index[s][k] \in bitmap[s]

(* Error: the block of the previous write is used again.                   *)
WriteHitStale(s, r, v) ==
    /\ IsSmall(r) /\ InBuffer(s, r.offset)
    /\ Receive(s, r, v)
    /\ wpc' = [wpc EXCEPT ![s] = "store"]
    /\ UNCHANGED <<handshake, meta, buffer, blk, ssdworker, mover, device, small>>

(* The key has a block: overwrite it.                                      *)
WriteHit(s, r, v) ==
    /\ IsSmall(r) /\ InBuffer(s, r.offset)
    /\ Receive(s, r, v)
    /\ blk' = [blk EXCEPT ![s] = index[s][r.offset]]
    /\ wpc' = [wpc EXCEPT ![s] = "store"]
    /\ UNCHANGED <<handshake, meta, buffer, ssdworker, mover, device, small>>

(* Error: one block too many is thought to fit.                            *)
FullOffByOne(s) == used[s] = PerBlock + 1

Full(s) == used[s] = PerBlock

(* The key needs a block, after a migration if there is none.              *)
WriteMiss(s, r, v) ==
    /\ IsSmall(r) /\ ~InBuffer(s, r.offset)
    /\ Receive(s, r, v)
    /\ wpc' = [wpc EXCEPT ![s] = IF Full(s) THEN "drain" ELSE "alloc"]
    /\ UNCHANGED <<handshake, meta, buffer, blk, ssdworker, mover, device, small>>

(* mix_get_next_free_block and mix_write_redirect_blockmeta.  The scan     *)
(* never ends when no bit is clear.  The second function looks at a bit of *)
(* another block, and when that was clear it sets it and does not index    *)
(* the key.                                                                *)
Allocate(s) ==
    /\ wpc[s] = "alloc"
    /\ bitmap[s] # Blocks
    /\ LET b == ZeroBit(bitmap[s], next_bit[s])
           bit == RedirectBit(s, b)
           indexed == bit \in bitmap[s] \cup {b}
       IN  /\ bitmap' = [bitmap EXCEPT ![s] = @ \cup {b, bit}]
           /\ next_bit' = [next_bit EXCEPT ![s] = NextBit(b)]
           /\ index' = IF indexed THEN [index EXCEPT ![s][task[s].offset] = b] ELSE index
           /\ used' = IF indexed THEN [used EXCEPT ![s] = @ + 1] ELSE used
           /\ blk' = [blk EXCEPT ![s] = b]
    /\ wpc' = [wpc EXCEPT ![s] = "store"]
    /\ UNCHANGED <<handshake, buffer, task, ssdworker, mover, device, small>>

(* mix_buffer_write                                                        *)
Store(s) ==
    /\ wpc[s] = "store"
    /\ bdata' = [bdata EXCEPT ![BufferBlock(s, blk[s])] = task[s].buf]
    /\ bmeta' = [bmeta EXCEPT ![BufferBlock(s, blk[s])] = task[s].offset]
    /\ small' = [small EXCEPT ![task[s].offset] = task[s].buf]
    /\ wpc' = [wpc EXCEPT ![s] = "idle"]
    /\ UNCHANGED <<handshake, meta, task, blk, ssdworker, mover, device>>

LargeWrite(s, r, v) ==
    /\ ~IsSmall(r)
    /\ Receive(s, r, v)
    /\ wpc' = [wpc EXCEPT ![s] = "post"]
    /\ UNCHANGED <<handshake, meta, buffer, blk, ssdworker, mover, device, small>>

(* mix_post_task_to_ssd, which spins while the queue is full.              *)
Post(s) ==
    /\ wpc[s] = "post"
    /\ Len(ssdq[s]) < SsdQueueSize
    /\ ssdq' = [ssdq EXCEPT ![s] = Append(@, task[s])]
    /\ wpc' = [wpc EXCEPT ![s] = "clear"]
    /\ UNCHANGED <<handshake, meta, buffer, task, blk, queue_empty, spc, stask,
                   mover, device, small>>

(* mix_clear_block returns at the first key that is not in the hash.       *)
Cleared(s) ==
    {k \in Span(task[s]) : \A j \in task[s].offset .. k : index[s][j] # NoBlock}

ClearBlock(s) ==
    /\ wpc[s] = "clear"
    /\ LET freed == {index[s][k] : k \in Cleared(s)}
       IN  /\ index' = [index EXCEPT ![s] =
                          [k \in Keys |-> IF k \in Cleared(s) THEN NoBlock ELSE @[k]]]
           /\ bitmap' = [bitmap EXCEPT ![s] = @ \ freed]
           /\ bmeta' = [b \in BufferBlocks |->
                          IF b \in {BufferBlock(s, f) : f \in freed} THEN NoKey ELSE bmeta[b]]
           /\ used' = [used EXCEPT ![s] = @ - Cardinality(Cleared(s))]
    /\ wpc' = [wpc EXCEPT ![s] = "idle"]
    /\ UNCHANGED <<handshake, next_bit, bdata, task, blk, ssdworker, mover, device, small>>

-----------------------------------------------------------------------------
(* The worker: mix_migrate_segment.                                        *)

(* while(!mix_ssd_queue_is_empty(idx))                                     *)
SsdQueueSeenEmpty(s) ==
    /\ wpc[s] = "drain"
    /\ queue_empty[s]
    /\ wpc' = [wpc EXCEPT ![s] = "migrate"]
    /\ UNCHANGED <<handshake, meta, buffer, task, blk, ssdworker, mover, device, small>>

MigrationBegin(s) ==
    /\ wpc[s] = "migrate"
    /\ UNCHANGED <<meta, buffer, worker, ssdworker, mover, device, small>>
    /\ Pool!Lock(s) \/ Pool!Begin(s) \/ Pool!Raise(s)

(* Error: the owner does not wait for the threads.                         *)
MigrationEndNoWait(s) ==
    /\ opc[s] = "wait"
    /\ bitmap' = [bitmap EXCEPT ![s] = {}]
    /\ next_bit' = [next_bit EXCEPT ![s] = 0]
    /\ opc' = [opc EXCEPT ![s] = "end"]
    /\ completed' = [completed EXCEPT ![s] = 0]
    /\ UNCHANGED <<migrate_mutex, next_flag, migrate_segment_idx, migration, tpc,
                   segment_idx, hand, done, index, used, buffer, worker, ssdworker,
                   mover, device, small>>

(* mix_segment_migration_end, with its mix_bitmap_clear.                   *)
MigrationEnd(s) ==
    /\ bitmap' = [bitmap EXCEPT ![s] = {}]
    /\ next_bit' = [next_bit EXCEPT ![s] = 0]
    /\ UNCHANGED <<index, used, buffer, worker, ssdworker, mover, device, small>>
    /\ Pool!Drained(s)

(* The mutex is released and the write that found the segment full goes on.*)
Resume(s) ==
    /\ wpc' = [wpc EXCEPT ![s] = "alloc"]
    /\ UNCHANGED <<meta, buffer, task, blk, ssdworker, mover, device, small>>
    /\ Pool!Unlock(s)

-----------------------------------------------------------------------------
(* The migrate threads.                                                    *)

(* Pop an entry and read the block into migrate_buf.  The value of an      *)
(* entry is a block of its segment, and is used as a block of the buffer.  *)
TakeEntry(t, k) ==
    LET s == segment_idx[t]
    IN  /\ index[s][k] # NoBlock
        /\ index' = [index EXCEPT ![s][k] = NoBlock]
        /\ kv_value' = [kv_value EXCEPT ![t] = index[s][k]]
        /\ migrate_buf' = [migrate_buf EXCEPT ![t] = bdata[index[s][k]]]
        /\ mpc' = [mpc EXCEPT ![t] = "copy"]
        /\ UNCHANGED <<bitmap, next_bit, used, buffer, worker, ssdworker, device, small>>
        /\ Pool!Take(t, k)

(* mix_ssd_write(migrate_buf, 1, key, 0, 0): every thread uses region 0 of *)
(* the staging area, which is also that of ssd_worker 0.                   *)
StageEntry(t) ==
    /\ mpc[t] = "copy"
    /\ memalign_src' = [memalign_src EXCEPT ![0][0] = migrate_buf[t]]
    /\ mpc' = [mpc EXCEPT ![t] = "write"]
    /\ UNCHANGED <<handshake, meta, buffer, worker, ssdworker, kv_value, migrate_buf,
                   ssd, small>>

WriteEntry(t) ==
    /\ mpc[t] = "write"
    /\ ssd' = [ssd EXCEPT ![hand[t]] = memalign_src[0][0]]
    /\ mpc' = [mpc EXCEPT ![t] = "clear"]
    /\ UNCHANGED <<handshake, meta, buffer, worker, ssdworker, kv_value, migrate_buf,
                   memalign_src, small>>

(* Error: the block is not given back.                                     *)
ClearEntryStillUsed(t) ==
    /\ mpc[t] = "clear"
    /\ bmeta' = [bmeta EXCEPT ![kv_value[t]] = NoKey]
    /\ mpc' = [mpc EXCEPT ![t] = "none"]
    /\ UNCHANGED <<meta, bdata, worker, ssdworker, kv_value, migrate_buf, device, small>>
    /\ Pool!Finish(t)

(* mix_buffer_clear and used_block_num--                                   *)
ClearEntry(t) ==
    /\ mpc[t] = "clear"
    /\ bmeta' = [bmeta EXCEPT ![kv_value[t]] = NoKey]
    /\ used' = [used EXCEPT ![segment_idx[t]] = @ - 1]
    /\ mpc' = [mpc EXCEPT ![t] = "none"]
    /\ UNCHANGED <<index, bitmap, next_bit, bdata, worker, ssdworker, kv_value,
                   migrate_buf, device, small>>
    /\ Pool!Finish(t)

ThreadControl(t) ==
    /\ UNCHANGED <<meta, buffer, worker, ssdworker, mover, device, small>>
    /\ Pool!Notice(t) \/ Pool!ReadSegment(t) \/ Pool!Count(t) \/ Pool!Lower(t)

-----------------------------------------------------------------------------
(* The ssd worker.                                                         *)

(* mix_dequeue returns 0.                                                  *)
SsdPollEmpty(s) ==
    /\ spc[s] = "poll"
    /\ ssdq[s] = <<>>
    /\ queue_empty' = [queue_empty EXCEPT ![s] = TRUE]
    /\ UNCHANGED <<handshake, meta, buffer, worker, ssdq, spc, stask, mover, device, small>>

SsdDequeue(s) ==
    /\ spc[s] = "poll"
    /\ ssdq[s] # <<>>
    /\ stask' = [stask EXCEPT ![s] = Head(ssdq[s])]
    /\ ssdq' = [ssdq EXCEPT ![s] = Tail(@)]
    /\ spc' = [spc EXCEPT ![s] = "took"]
    /\ UNCHANGED <<handshake, meta, buffer, worker, queue_empty, mover, device, small>>

SsdNotEmpty(s) ==
    /\ spc[s] = "took"
    /\ queue_empty' = [queue_empty EXCEPT ![s] = FALSE]
    /\ spc' = [spc EXCEPT ![s] = "copy"]
    /\ UNCHANGED <<handshake, meta, buffer, worker, ssdq, stask, mover, device, small>>

SsdStage(s) ==
    /\ spc[s] = "copy"
    /\ memalign_src' = [memalign_src EXCEPT ![s] =
                          [i \in DOMAIN @ |-> IF i < stask[s].len THEN stask[s].buf ELSE @[i]]]
    /\ spc' = [spc EXCEPT ![s] = "write"]
    /\ UNCHANGED <<handshake, meta, buffer, worker, ssdq, queue_empty, stask, mover, ssd, small>>

SsdWrite(s) ==
    /\ spc[s] = "write"
    /\ ssd' = [k \in Keys |-> IF k \in Span(stask[s])
                                THEN memalign_src[s][k - stask[s].offset] ELSE ssd[k]]
    /\ spc' = [spc EXCEPT ![s] = "poll"]
    /\ UNCHANGED <<handshake, meta, buffer, worker, ssdq, queue_empty, stask, mover,
                   memalign_src, small>>

-----------------------------------------------------------------------------
Accept(s) ==
    \E r \in Requests, v \in Values :
        WriteHit(s, r, v) \/ WriteMiss(s, r, v) \/ LargeWrite(s, r, v)

Work(s) ==
    \/ Allocate(s) \/ Store(s) \/ Post(s) \/ ClearBlock(s)
    \/ SsdQueueSeenEmpty(s) \/ MigrationBegin(s) \/ MigrationEnd(s) \/ Resume(s)

SsdWork(s) ==
    SsdPollEmpty(s) \/ SsdDequeue(s) \/ SsdNotEmpty(s) \/ SsdStage(s) \/ SsdWrite(s)

Move(t) ==
    \/ \E k \in Keys : TakeEntry(t, k)
    \/ StageEntry(t) \/ WriteEntry(t) \/ ClearEntry(t) \/ ThreadControl(t)

Next ==
    \/ \E s \in Segments : Accept(s) \/ Work(s) \/ SsdWork(s)
    \/ \E t \in Threads : Move(t)

Spec == Init /\ [][Next]_vars

-----------------------------------------------------------------------------
(* The worker and the threads obey the protocol of MigratePool: the worker *)
(* changes its hash only outside a migration, the threads only inside.     *)
HandshakeSpec == Pool!Spec

(* No two keys of a segment share a block, and the block of an indexed key *)
(* cannot be handed out again: neither the allocation nor clearing a block *)
(* nor mix_bitmap_clear after a migration breaks it.                       *)
BlocksAreOwned ==
    \A s \in Segments : \A k \in Keys : index[s][k] # NoBlock =>
        /\ index[s][k] \in bitmap[s]
        /\ \A j \in Keys \ {k} : index[s][j] # index[s][k]

(* used_block_num, which the worker and all the migrate threads update,    *)
(* counts the entries of the hash and those in the threads' hands.         *)
UsedCountsEntries ==
    \A s \in Segments :
        used[s] = Cardinality({k \in Keys : index[s][k] # NoBlock})
                + Cardinality({t \in Threads : mpc[t] # "none" /\ segment_idx[t] = s})

(* A write that needs a block finds the segment not full, also when it     *)
(* waited for a migration: mix_get_next_free_block does not return -1 the  *)
(* second time, which redirect_write would take for a block.               *)
RoomAfterMigration == \A s \in Segments : wpc[s] = "alloc" => used[s] < PerBlock

(* A small read served from the buffer returns the last small write of the *)
(* key: no other write ever puts its data into the key's block.  That may  *)
(* be older than a large write after it, which mix_clear_block clears only *)
(* in part (Cleared, mix_meta.c:208).                                      *)
BufferHoldsLastWrite ==
    \A s \in Segments : \A k \in Keys :
        (index[s][k] # NoBlock /\ ~(wpc[s] = "store" /\ task[s].offset = k))
            => bdata[BufferBlock(s, index[s][k])] = small[k]

-----------------------------------------------------------------------------
(* What the comments of the code and its ReadMe say and the code does not  *)
(* do.                                                                     *)

(* "store the key-value in the hash": the three steps of                   *)
(* mix_write_redirect_blockmeta are all taken for a small write.           *)
WrittenIsIndexed ==
    \A s \in Segments : wpc[s] = "store" => index[s][task[s].offset] = blk[s]

(* The data of segment idx are moved to the ssd: a thread carries what was *)
(* last written to the key it popped, and will clear the block whose meta  *)
(* names that key.                                                         *)
MovesOwnSegment ==
    \A t \in Threads : mpc[t] # "none" =>
        migrate_buf[t] = small[hand[t]] /\ bmeta[kv_value[t]] = hand[t]

(* "the data are migrated first, then the self-description is cleared":    *)
(* the key's new content is on its way to the ssd by what the thread read. *)
WritesWhatItStaged ==
    \A t \in Threads : mpc[t] = "write" => memalign_src[0][0] = migrate_buf[t]

=============================================================================
