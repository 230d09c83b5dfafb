-------------------------- MODULE NvmWorkerProofs ---------------------------
(***************************************************************************)
(* Proofs about the nvm_workers and the migrate threads.                   *)
(*                                                                         *)
(* First, that they obey the protocol of MigratePool: every step of        *)
(* NvmWorker is a step of the handshake or leaves it alone.  Base is the   *)
(* invariant this takes: the types, where a worker and a thread stand when *)
(* the handshake says they are in a migration, and what the task of a busy *)
(* worker is.                                                              *)
(*                                                                         *)
(* Then the safety invariants of NvmWorker: types, the ownership of the    *)
(* blocks, the count of used blocks and what a block holds.  They rest on  *)
(* the handshake: because a migration is over when its owner goes on, the  *)
(* owner may clear the whole bitmap of an empty segment.                   *)
(***************************************************************************)
EXTENDS NvmWorker, FiniteSetTheorems, WellFoundedInduction, TLAPS

USE DEF Segments, Threads, NoKey, Pool!Segments, Pool!Threads, Pool!Free, Pool!NoKey

LEMMA SameCardinality == \A S : Pool!Cardinality(S) = Cardinality(S)
  BY DEF Pool!Cardinality, Cardinality

LEMMA ThreadsFinite == IsFiniteSet(Threads) /\ Pool!Cardinality(Threads) = ThreadNum
  BY FS_Interval, SameCardinality, WorkerConstants

(* A set of threads is finite, and one as large as the pool is the pool.   *)
LEMMA AllThreads ==
    ASSUME NEW D \in SUBSET Threads
    PROVE  /\ IsFiniteSet(D) /\ Pool!Cardinality(D) \in Nat
           /\ Pool!Cardinality(D) >= ThreadNum => D = Threads
  <1>1. IsFiniteSet(D) /\ Pool!Cardinality(D) <= ThreadNum
        /\ (Pool!Cardinality(D) = ThreadNum => D = Threads)
    BY ThreadsFinite, FS_Subset, SameCardinality
  <1>2. Pool!Cardinality(D) \in Nat
    BY <1>1, FS_CardinalityType, SameCardinality
  <1>3. QED
    BY <1>1, <1>2, WorkerConstants

LEMMA CountOneMore ==
    ASSUME NEW D \in SUBSET Threads, NEW t \in Threads, t \notin D
    PROVE  Pool!Cardinality(D \cup {t}) = Pool!Cardinality(D) + 1
  BY AllThreads, FS_AddElement, SameCardinality

(* Every key is in some thread's share.                                    *)
LEMMA SharesCover ==
    ASSUME NEW P \in SUBSET Keys, \A t \in Threads : Pool!Share(t) \cap P = {}
    PROVE  P = {}
  <1>1. ASSUME NEW k \in P
        PROVE  FALSE
    <2>1. Bucket[k] \in Nat
      BY WorkerConstants
    <2>2. Bucket[k] % ThreadNum \in 0 .. ThreadNum - 1
      BY <2>1, WorkerConstants
    <2>3. k \in Pool!Share(Bucket[k] % ThreadNum)
      BY DEF Pool!Share
    <2>4. QED
      BY <2>2, <2>3
  <1>2. QED
    BY <1>1

LEMMA InitInv == Pool!Init => Pool!PoolInv
  <1> SUFFICES ASSUME Pool!Init PROVE Pool!PoolInv
    OBVIOUS
  <1>1. Pool!TypeOK
    BY WorkerConstants DEF Pool!Init, Pool!TypeOK
  <1>2. QED
    BY <1>1 DEF Pool!Init, Pool!PoolInv, Pool!Engaged, Pool!Migrating

-----------------------------------------------------------------------------
(* One lemma per kind of actor.                                            *)
LEMMA OwnerKeepsInv ==
    ASSUME Pool!PoolInv, NEW s \in Segments,
           (\E S \in SUBSET Keys : Pool!Fill(s, S)) \/ Pool!Lock(s) \/ Pool!Migrate(s)
    PROVE  Pool!PoolInv'
  <1> USE DEF Pool!owner, Pool!thread
  <1>1. CASE \E S \in SUBSET Keys : Pool!Fill(s, S)
    <2> PICK S \in SUBSET Keys : Pool!Fill(s, S)
      BY <1>1
    <2>1. Pool!TypeOK'
      BY DEF Pool!PoolInv, Pool!TypeOK, Pool!Fill
    <2>2. QED
      BY <2>1 DEF Pool!PoolInv, Pool!TypeOK, Pool!Fill, Pool!Engaged, Pool!Migrating, Pool!Share
  <1>2. CASE Pool!Lock(s)
    <2>1. Pool!TypeOK'
      BY <1>2 DEF Pool!PoolInv, Pool!TypeOK, Pool!Lock
    <2>2. QED
      BY <1>2, <2>1 DEF Pool!PoolInv, Pool!TypeOK, Pool!Lock, Pool!Engaged, Pool!Migrating, Pool!Share
  <1>3. CASE Pool!Begin(s)
    <2>1. Pool!TypeOK'
      BY <1>3, WorkerConstants DEF Pool!PoolInv, Pool!TypeOK, Pool!Begin
    <2>2. migrate_mutex = s /\ ~ \E t \in Threads : Pool!Engaged(t)
      BY <1>3 DEF Pool!PoolInv, Pool!TypeOK, Pool!Begin, Pool!Migrating
    <2>3. ~ (\E t \in Threads : Pool!Engaged(t))'
      BY <1>3, <2>2 DEF Pool!Begin, Pool!Engaged
    <2>4. Pool!Cardinality({}) = 0
      BY FS_EmptySet, SameCardinality
    <2>5. /\ migrate_mutex' = s /\ migrate_segment_idx' = s /\ next_flag' = 0 /\ done' = {}
          /\ completed'[s] = 0 /\ opc'[s] = "raise"
      BY <1>3, <2>2 DEF Pool!PoolInv, Pool!TypeOK, Pool!Begin
    <2>6. \A u \in Segments : u # s => opc[u] = "idle" /\ opc'[u] = "idle"
      BY <1>3, <2>2 DEF Pool!PoolInv, Pool!TypeOK, Pool!Begin
    <2>7. (\A u \in Segments : opc[u] # "idle" <=> migrate_mutex = u)'
      BY <2>5, <2>6
    <2>8. (\A u \in Segments : Pool!Migrating(u) =>
             /\ migrate_segment_idx = u
             /\ completed[u] = Pool!Cardinality(done)
             /\ opc[u] = "raise" => next_flag < ThreadNum)'
      BY <2>4, <2>5, <2>6, WorkerConstants DEF Pool!Migrating
    <2>9. /\ \A t \in Threads : tpc'[t] \in {"work", "move"} => segment_idx'[t] = migrate_mutex'
          /\ \A t \in Threads : tpc'[t] # "move" => hand'[t] = NoKey
      BY <1>3, <2>2, <2>5 DEF Pool!PoolInv, Pool!Begin, Pool!thread
    <2>10. \A u \in Segments : opc'[u] # "end"
      BY <2>5, <2>6
    <2>11. (\A t \in Threads : Pool!Engaged(t) =>
              /\ migrate_mutex # Pool!Free /\ Pool!Migrating(migrate_mutex)
              /\ t < next_flag /\ t \notin done)'
      BY <2>3
    <2>12. (\A u \in Segments : Pool!Migrating(u) =>
              \A t \in done : t < next_flag /\ Pool!Share(t) \cap Pending[u] = {})'
      BY <2>5
    <2>13. QED
      BY <2>1, <2>7, <2>8, <2>9, <2>10, <2>11, <2>12 DEF Pool!PoolInv
  <1>4. CASE Pool!Raise(s)
    <2>1. /\ migrate_mutex = s /\ next_flag \in Threads
          /\ next_flag' = next_flag + 1 /\ next_flag' \in 0 .. ThreadNum
      <3>1. opc[s] = "raise" /\ Pool!Migrating(s) /\ next_flag \in 0 .. ThreadNum
            /\ next_flag' = next_flag + 1
        BY <1>4 DEF Pool!PoolInv, Pool!TypeOK, Pool!Raise, Pool!Migrating
      <3>2. migrate_mutex = s /\ next_flag < ThreadNum
        BY <3>1 DEF Pool!PoolInv
      <3>3. QED
        BY <3>1, <3>2, WorkerConstants
    <2>2. Pool!TypeOK'
      <3>1. migration' \in [Threads -> BOOLEAN]
        BY <1>4 DEF Pool!PoolInv, Pool!TypeOK, Pool!Raise
      <3>2. opc' \in [Segments -> {"idle", "begin", "raise", "wait", "end"}]
        BY <1>4 DEF Pool!PoolInv, Pool!TypeOK, Pool!Raise
      <3>3. QED
        BY <1>4, <2>1, <3>1, <3>2 DEF Pool!PoolInv, Pool!TypeOK, Pool!Raise
    <2>3. ASSUME NEW t \in Threads, Pool!Engaged(t)'
          PROVE  (/\ migrate_mutex # Pool!Free /\ Pool!Migrating(migrate_mutex)
                  /\ t < next_flag /\ t \notin done)'
      <3>1. t = next_flag \/ Pool!Engaged(t)
        BY <1>4, <2>3, <2>1 DEF Pool!Raise, Pool!Engaged, Pool!PoolInv, Pool!TypeOK
      <3>2. CASE t = next_flag
        BY <1>4, <2>1, <3>2 DEF Pool!Raise, Pool!PoolInv, Pool!TypeOK, Pool!Migrating
      <3>3. CASE Pool!Engaged(t)
        BY <1>4, <2>1, <3>3 DEF Pool!Raise, Pool!PoolInv, Pool!TypeOK, Pool!Migrating
      <3>4. QED
        BY <3>1, <3>2, <3>3
    <2>4. (\A u \in Segments : Pool!Migrating(u) =>
             /\ migrate_segment_idx = u
             /\ completed[u] = Pool!Cardinality(done)
             /\ opc[u] = "raise" => next_flag < ThreadNum)'
      BY <1>4, <2>1, WorkerConstants DEF Pool!Raise, Pool!PoolInv, Pool!TypeOK, Pool!Migrating
    <2>5. (\A u \in Segments : Pool!Migrating(u) =>
             \A t \in done : t < next_flag /\ Pool!Share(t) \cap Pending[u] = {})'
      BY <1>4, <2>1 DEF Pool!Raise, Pool!PoolInv, Pool!TypeOK, Pool!Migrating, Pool!Share
    <2>6. QED
      BY <1>4, <2>1, <2>2, <2>3, <2>4, <2>5
         DEF Pool!PoolInv, Pool!TypeOK, Pool!Raise, Pool!Migrating
  <1>5. CASE Pool!Drained(s)
    <2>1. Pool!TypeOK'
      BY <1>5 DEF Pool!PoolInv, Pool!TypeOK, Pool!Drained
    <2>2. migrate_mutex = s /\ Pool!Migrating(s)
      BY <1>5 DEF Pool!PoolInv, Pool!TypeOK, Pool!Drained, Pool!Migrating
    <2>3. done = Threads
      BY <1>5, <2>2, AllThreads DEF Pool!PoolInv, Pool!TypeOK, Pool!Drained, Pool!AllCompleted
    <2>4. Pending[s] = {}
      BY <2>2, <2>3, SharesCover DEF Pool!PoolInv, Pool!TypeOK
    <2>5. \A t \in Threads : ~Pool!Engaged(t)
      BY <2>3 DEF Pool!PoolInv
    <2>6. \A t \in Threads : ~Pool!Engaged(t)'
      BY <1>5, <2>5 DEF Pool!Drained, Pool!Engaged
    <2>7. QED
      BY <1>5, <2>1, <2>2, <2>4, <2>5, <2>6
         DEF Pool!PoolInv, Pool!TypeOK, Pool!Drained, Pool!Migrating, Pool!Engaged
  <1>6. CASE Pool!Unlock(s)
    <2>1. Pool!TypeOK'
      BY <1>6 DEF Pool!PoolInv, Pool!TypeOK, Pool!Unlock
    <2>2. migrate_mutex = s /\ ~ \E t \in Threads : Pool!Engaged(t)
      BY <1>6 DEF Pool!PoolInv, Pool!TypeOK, Pool!Unlock
    <2>3. ~ (\E t \in Threads : Pool!Engaged(t))'
      BY <1>6, <2>2 DEF Pool!Unlock, Pool!Engaged
    <2>4. QED
      BY <1>6, <2>1, <2>2, <2>3 DEF Pool!PoolInv, Pool!TypeOK, Pool!Unlock, Pool!Migrating, Pool!Engaged
  <1>7. QED
    BY <1>1, <1>2, <1>3, <1>4, <1>5, <1>6 DEF Pool!Migrate

LEMMA ThreadKeepsInv ==
    ASSUME Pool!PoolInv, NEW t \in Threads, Pool!Run(t)
    PROVE  Pool!PoolInv'
  <1> USE DEF Pool!owner
  <1>1. CASE Pool!Notice(t)
    <2>1. Pool!TypeOK'
      BY <1>1 DEF Pool!PoolInv, Pool!TypeOK, Pool!Notice
    <2>2. \A u \in Threads : Pool!Engaged(u)' => Pool!Engaged(u)
      BY <1>1 DEF Pool!Notice, Pool!Engaged, Pool!PoolInv, Pool!TypeOK
    <2>3. QED
      BY <1>1, <2>1, <2>2 DEF Pool!PoolInv, Pool!TypeOK, Pool!Notice, Pool!Migrating, Pool!Share
  <1>2. CASE Pool!ReadSegment(t)
    <2>1. Pool!TypeOK'
      BY <1>2 DEF Pool!PoolInv, Pool!TypeOK, Pool!ReadSegment
    <2>2. \A u \in Threads : Pool!Engaged(u)' => Pool!Engaged(u)
      BY <1>2 DEF Pool!ReadSegment, Pool!Engaged, Pool!PoolInv, Pool!TypeOK
    <2>3. migrate_segment_idx = migrate_mutex
      BY <1>2 DEF Pool!ReadSegment, Pool!PoolInv, Pool!TypeOK, Pool!Engaged
    <2>4. QED
      BY <1>2, <2>1, <2>2, <2>3 DEF Pool!PoolInv, Pool!TypeOK, Pool!ReadSegment, Pool!Migrating, Pool!Share
  <1>3. CASE Pool!Pop(t)
    <2> PICK k \in Keys : Pool!Take(t, k)
      BY <1>3 DEF Pool!Pop
    <2>1. Pool!TypeOK'
      BY DEF Pool!PoolInv, Pool!TypeOK, Pool!Take
    <2>2. \A u \in Threads : Pool!Engaged(u)' => Pool!Engaged(u)
      BY DEF Pool!Take, Pool!Engaged, Pool!PoolInv, Pool!TypeOK
    <2>3. \A s \in Segments : Pending'[s] \subseteq Pending[s]
      BY DEF Pool!Take, Pool!PoolInv, Pool!TypeOK
    <2>4. QED
      BY <2>1, <2>2, <2>3 DEF Pool!PoolInv, Pool!TypeOK, Pool!Take, Pool!Migrating, Pool!Share
  <1>4. CASE Pool!Finish(t)
    <2>1. Pool!TypeOK'
      BY <1>4 DEF Pool!PoolInv, Pool!TypeOK, Pool!Finish
    <2>2. \A u \in Threads : Pool!Engaged(u)' => Pool!Engaged(u)
      BY <1>4 DEF Pool!Finish, Pool!Engaged, Pool!PoolInv, Pool!TypeOK
    <2>3. /\ \A u \in Threads : tpc'[u] \in {"work", "move"} => tpc[u] \in {"work", "move"}
          /\ \A u \in Threads : tpc'[u] # "move" => hand'[u] = NoKey
      BY <1>4 DEF Pool!Finish, Pool!PoolInv, Pool!TypeOK
    <2>4. UNCHANGED <<opc, migrate_mutex, next_flag, migrate_segment_idx, completed,
                      segment_idx, Pending, done>>
      BY <1>4 DEF Pool!Finish
    <2>5. (\A u \in Threads : Pool!Engaged(u) =>
             /\ migrate_mutex # Pool!Free /\ Pool!Migrating(migrate_mutex)
             /\ u < next_flag /\ u \notin done)'
      BY <2>2, <2>4 DEF Pool!PoolInv, Pool!Migrating
    <2>6. (\A u \in Threads : tpc[u] \in {"work", "move"} => segment_idx[u] = migrate_mutex)'
      BY <2>3, <2>4 DEF Pool!PoolInv
    <2>7. (\A s \in Segments : opc[s] = "end" =>
             Pending[s] = {} /\ \A u \in Threads : ~Pool!Engaged(u))'
      BY <2>2, <2>4 DEF Pool!PoolInv
    <2>8. QED
      BY <2>1, <2>3, <2>4, <2>5, <2>6, <2>7 DEF Pool!PoolInv, Pool!Migrating, Pool!Share
  <1>5. CASE Pool!Count(t)
    <2>1. /\ segment_idx[t] = migrate_mutex /\ migrate_mutex \in Segments
          /\ Pool!Migrating(migrate_mutex) /\ t < next_flag /\ t \notin done
      BY <1>5 DEF Pool!Count, Pool!PoolInv, Pool!TypeOK, Pool!Engaged
    <2>2. Pool!TypeOK'
      BY <1>5, <2>1 DEF Pool!PoolInv, Pool!TypeOK, Pool!Count
    <2>3. \A u \in Threads : Pool!Engaged(u)' => Pool!Engaged(u) /\ u # t
      BY <1>5 DEF Pool!Count, Pool!Engaged, Pool!PoolInv, Pool!TypeOK
    <2>4. Pool!Cardinality(done') = Pool!Cardinality(done) + 1
      BY <1>5, <2>1, CountOneMore DEF Pool!Count, Pool!PoolInv, Pool!TypeOK
    <2>5. (\A s \in Segments : Pool!Migrating(s) =>
             /\ migrate_segment_idx = s
             /\ completed[s] = Pool!Cardinality(done)
             /\ opc[s] = "raise" => next_flag < ThreadNum)'
      BY <1>5, <2>1, <2>4 DEF Pool!Count, Pool!PoolInv, Pool!TypeOK, Pool!Migrating
    <2>6. (\A s \in Segments : Pool!Migrating(s) =>
             \A u \in done : u < next_flag /\ Pool!Share(u) \cap Pending[s] = {})'
      BY <1>5, <2>1 DEF Pool!Count, Pool!PoolInv, Pool!TypeOK, Pool!Migrating, Pool!Share
    <2>7. (\A u \in Threads : Pool!Engaged(u) =>
             /\ migrate_mutex # Pool!Free /\ Pool!Migrating(migrate_mutex)
             /\ u < next_flag /\ u \notin done)'
      <3>1. ASSUME NEW u \in Threads, Pool!Engaged(u)'
            PROVE  (/\ migrate_mutex # Pool!Free /\ Pool!Migrating(migrate_mutex)
                    /\ u < next_flag /\ u \notin done)'
        <4>1. Pool!Engaged(u) /\ u # t
          BY <2>3, <3>1
        <4>2. QED
          BY <1>5, <4>1 DEF Pool!Count, Pool!PoolInv, Pool!Migrating
      <3>2. QED
        BY <3>1
    <2>8. (\A s \in Segments : opc[s] # "idle" <=> migrate_mutex = s)'
      BY <1>5 DEF Pool!Count, Pool!PoolInv
    <2>9. (\A u \in Threads : tpc[u] \in {"work", "move"}
                               => segment_idx[u] = migrate_mutex)'
      BY <1>5 DEF Pool!Count, Pool!PoolInv, Pool!TypeOK
    <2>10. (\A u \in Threads : tpc[u] # "move" => hand[u] = NoKey)'
      BY <1>5 DEF Pool!Count, Pool!PoolInv, Pool!TypeOK
    <2>11. (\A s \in Segments : opc[s] = "end" =>
              Pending[s] = {} /\ \A u \in Threads : ~Pool!Engaged(u))'
      BY <1>5, <2>3 DEF Pool!Count, Pool!PoolInv
    <2>12. QED
      BY <2>2, <2>5, <2>6, <2>7, <2>8, <2>9, <2>10, <2>11 DEF Pool!PoolInv
  <1>6. CASE Pool!Lower(t)
    <2>1. Pool!TypeOK'
      BY <1>6 DEF Pool!PoolInv, Pool!TypeOK, Pool!Lower
    <2>2. \A u \in Threads : Pool!Engaged(u)' => Pool!Engaged(u)
      BY <1>6 DEF Pool!Lower, Pool!Engaged, Pool!PoolInv, Pool!TypeOK
    <2>3. QED
      BY <1>6, <2>1, <2>2 DEF Pool!PoolInv, Pool!TypeOK, Pool!Lower, Pool!Migrating, Pool!Share
  <1>7. QED
    BY <1>1, <1>2, <1>3, <1>4, <1>5, <1>6 DEF Pool!Run

LEMMA NextKeepsInv == Pool!PoolInv /\ [Pool!Next]_Pool!vars => Pool!PoolInv'
  <1> SUFFICES ASSUME Pool!PoolInv, [Pool!Next]_Pool!vars PROVE Pool!PoolInv'
    OBVIOUS
  <1>1. CASE \E s \in Segments :
               (\E S \in SUBSET Keys : Pool!Fill(s, S)) \/ Pool!Lock(s) \/ Pool!Migrate(s)
    BY <1>1, OwnerKeepsInv
  <1>2. CASE \E t \in Threads : Pool!Run(t)
    BY <1>2, ThreadKeepsInv
  <1>3. CASE UNCHANGED Pool!vars
    BY <1>3 DEF Pool!PoolInv, Pool!TypeOK, Pool!vars, Pool!owner, Pool!thread, Pool!Engaged, Pool!Migrating, Pool!Share
  <1>4. QED
    BY <1>1, <1>2, <1>3 DEF Pool!Next

-----------------------------------------------------------------------------
(* The steps of NvmWorker.                                                 *)

(* The types of the fields that are not those of the handshake.  That used *)
(* stays within the segment is proved with what it counts.                 *)
Fields ==
    /\ index \in [Segments -> [Keys -> Blocks \cup {NoBlock}]]
    /\ bitmap \in [Segments -> SUBSET Blocks]
    /\ next_bit \in [Segments -> {0, 1}]
    /\ used \in [Segments -> Int]
    /\ bdata \in [BufferBlocks -> Content]
    /\ bmeta \in [BufferBlocks -> Keys \cup {NoKey}]
    /\ wpc \in [Segments -> {"idle", "alloc", "store", "drain", "migrate",
                             "post", "clear"}]
    /\ task \in [Segments -> Task \cup {NoTask}]
    /\ blk \in [Segments -> Blocks \cup {NoBlock}]
    /\ ssdq \in [Segments -> Seq(Task)]
    /\ queue_empty \in [Segments -> BOOLEAN]
    /\ spc \in [Segments -> {"poll", "took", "copy", "write"}]
    /\ stask \in [Segments -> Task \cup {NoTask}]
    /\ mpc \in [Threads -> {"none", "copy", "write", "clear"}]
    /\ kv_value \in [Threads -> Blocks \cup {NoBlock}]
    /\ migrate_buf \in [Threads -> Content]
    /\ memalign_src \in [Segments -> [0 .. Stripe - 1 -> Content]]
    /\ ssd \in [Keys -> Content]
    /\ small \in [Keys -> Content]

(* An owner in the handshake is in mix_migrate_segment, and a thread that  *)
(* moves an entry is in migrate_from_buffer_to_ssd.                        *)
Control ==
    /\ \A s \in Segments : opc[s] # "idle" => wpc[s] = "migrate"
    /\ \A t \in Threads : mpc[t] # "none" <=> tpc[t] = "move"

(* A busy worker has a task of its own: a stripe of its segment.           *)
Tasks ==
    \A s \in Segments : wpc[s] # "idle" =>
        /\ task[s] \in Task
        /\ Home(task[s].offset) = s
        /\ Span(task[s]) \subseteq Keys

Base == Pool!PoolInv /\ Fields /\ Control /\ Tasks

(* Any set of naturals that is not empty has a least element.              *)
LEMMA LeastNatural ==
    ASSUME NEW T \in SUBSET Nat, T # {}
    PROVE  \E x \in T : \A y \in T : x <= y
  <1> DEFINE Less == {p \in Nat \X Nat : p[1] < p[2]}
  <1>1. IsWellFoundedOn(Less, Nat)
    BY NatLessThanWellFounded DEF OpToRel
  <1>2. \E x \in T : \A y \in T : ~ (<<y, x>> \in Less)
    <2> HIDE DEF Less
    <2>1. QED
      BY <1>1, WFMin
  <1>3. \A x, y \in T : ~ (<<y, x>> \in Less) => x <= y
    OBVIOUS
  <1>4. QED
    BY <1>2, <1>3

(* The scan of mix_bitmap_next_zero_bit ends at a clear bit if there is    *)
(* one, wherever it begins.                                                *)
LEMMA ZeroBitIsClear ==
    ASSUME NEW B \in SUBSET Blocks, B # Blocks, NEW start \in {0, 1}
    PROVE  ZeroBit(B, start) \in Blocks \ B
  <1> DEFINE Distance(b) == (b - start) % PerBlock
             T == {Distance(b) : b \in Blocks \ B}
  <1>1. \A b \in Blocks : Distance(b) \in Nat
    BY WorkerConstants DEF Blocks
  <1>2. T # {} /\ T \in SUBSET Nat
    BY <1>1
  <1>3. PICK x \in T : \A y \in T : x <= y
    <2> HIDE DEF T
    <2>1. QED
      BY <1>2, LeastNatural
  <1>4. \E b \in Blocks \ B : \A c \in Blocks \ B : Distance(b) <= Distance(c)
    BY <1>3
  <1>5. QED
    BY <1>4 DEF ZeroBit

LEMMA BitsInRange ==
    ASSUME NEW s \in Segments, NEW b \in Blocks
    PROVE  RedirectBit(s, b) \in Blocks /\ NextBit(b) \in {0, 1}
  <1>1. b >= s => (b - s) \div SegmentNum \in 0 .. b - s
    BY WorkerConstants DEF Blocks
  <1>2. (b + 1) \div PerBlock \in {0, 1}
    BY WorkerConstants DEF Blocks
  <1>3. QED
    BY <1>1, <1>2, WorkerConstants DEF RedirectBit, NextBit, Blocks

-----------------------------------------------------------------------------
(* What the worker takes from the handshake.                               *)
LEMMA PoolTells ==
    ASSUME Base
    PROVE  /\ opc \in [Segments -> {"idle", "begin", "raise", "wait", "end"}]
           /\ tpc \in [Threads -> {"spin", "read", "work", "move", "lower"}]
           /\ segment_idx \in [Threads -> Segments]
           /\ hand \in [Threads -> Keys \cup {NoKey}]
  BY DEF Base, Pool!PoolInv, Pool!TypeOK

(* Steps that leave the hashes and the handshake alone are steps of neither*)
(* side of it.                                                             *)
LEMMA Apart ==
    ASSUME UNCHANGED <<handshake, index>>
    PROVE  UNCHANGED Pool!vars
  BY DEF handshake, Pool!vars, Pool!owner, Pool!thread, Pending

(* A worker outside of mix_migrate_segment that changes its hash fills it. *)
LEMMA WorkerFills ==
    ASSUME Base, NEW s \in Segments, wpc[s] # "migrate",
           UNCHANGED handshake,
           NEW entries \in [Keys -> Blocks \cup {NoBlock}],
           index' = [index EXCEPT ![s] = entries]
    PROVE  \E S \in SUBSET Keys : Pool!Fill(s, S)
  <1>1. opc[s] = "idle"
    BY PoolTells DEF Base, Control
  <1>2. Pending' = [Pending EXCEPT ![s] = {k \in Keys : entries[k] # NoBlock}]
    BY DEF Base, Fields, Pending
  <1>3. QED
    BY <1>1, <1>2 DEF Pool!Fill, handshake, Pool!owner, Pool!thread

LEMMA AllocateFills ==
    ASSUME Base, NEW s \in Segments, Allocate(s)
    PROVE  /\ \E S \in SUBSET Keys : Pool!Fill(s, S)
           /\ \E entries \in [Keys -> Blocks \cup {NoBlock}] :
                index' = [index EXCEPT ![s] = entries]
  <1> DEFINE b == ZeroBit(bitmap[s], next_bit[s])
  <1>1. b \in Blocks \ bitmap[s] /\ wpc[s] = "alloc"
    BY ZeroBitIsClear DEF Base, Fields, Allocate
  <1>2. index' = index \/ index' = [index EXCEPT ![s][task[s].offset] = b]
    BY DEF Allocate
  <1>3. PICK entries \in [Keys -> Blocks \cup {NoBlock}] :
            index' = [index EXCEPT ![s] = entries]
    <2> HIDE DEF b
    <2>1. CASE index' = index
      <3>1. index[s] \in [Keys -> Blocks \cup {NoBlock}]
            /\ index' = [index EXCEPT ![s] = index[s]]
        BY <2>1 DEF Base, Fields
      <3>2. QED
        BY <3>1
    <2>2. CASE index' = [index EXCEPT ![s][task[s].offset] = b]
      <3> DEFINE entries == [index[s] EXCEPT ![task[s].offset] = b]
      <3>1. entries \in [Keys -> Blocks \cup {NoBlock}]
        BY <1>1 DEF Base, Fields
      <3>2. index' = [index EXCEPT ![s] = entries]
        BY <2>2
      <3>3. QED
        BY <3>1, <3>2
    <2>3. QED
      BY <1>2, <2>1, <2>2
  <1>4. QED
    BY <1>1, <1>3, WorkerFills DEF Allocate

LEMMA ClearBlockFills ==
    ASSUME Base, NEW s \in Segments, ClearBlock(s)
    PROVE  /\ \E S \in SUBSET Keys : Pool!Fill(s, S)
           /\ \E entries \in [Keys -> Blocks \cup {NoBlock}] :
                index' = [index EXCEPT ![s] = entries]
  <1> DEFINE entries == [k \in Keys |-> IF k \in Cleared(s) THEN NoBlock ELSE index[s][k]]
  <1>1. entries \in [Keys -> Blocks \cup {NoBlock}]
    BY DEF Base, Fields
  <1>2. index' = [index EXCEPT ![s] = entries] /\ wpc[s] = "clear" /\ UNCHANGED handshake
    BY DEF ClearBlock
  <1>3. QED
    <2> HIDE DEF entries
    <2>1. QED
      BY <1>1, <1>2, WorkerFills

(* Every step of NvmWorker is a step of the handshake or none of it.       *)
LEMMA StepsObeyPool ==
    ASSUME Base, [Next]_vars
    PROVE  [Pool!Next]_Pool!vars
  <1>1. ASSUME NEW s \in Segments, Accept(s)
        PROVE  UNCHANGED Pool!vars
    <2>1. UNCHANGED <<handshake, index>>
      BY <1>1 DEF Accept, WriteHit, WriteMiss, LargeWrite, meta
    <2>2. QED
      BY <2>1, Apart
  <1>2. ASSUME NEW s \in Segments, Work(s)
        PROVE  Pool!Next \/ UNCHANGED Pool!vars
    <2>1. CASE Allocate(s) \/ ClearBlock(s)
      BY <2>1, AllocateFills, ClearBlockFills DEF Pool!Next
    <2>2. CASE Store(s) \/ Post(s) \/ SsdQueueSeenEmpty(s)
      <3>1. UNCHANGED <<handshake, index>>
        BY <2>2 DEF Store, Post, SsdQueueSeenEmpty, meta
      <3>2. QED
        BY <3>1, Apart
    <2>3. CASE MigrationBegin(s) \/ MigrationEnd(s) \/ Resume(s)
      BY <2>3 DEF MigrationBegin, MigrationEnd, Resume, Pool!Next, Pool!Migrate
    <2>4. QED
      BY <1>2, <2>1, <2>2, <2>3 DEF Work
  <1>3. ASSUME NEW s \in Segments, SsdWork(s)
        PROVE  UNCHANGED Pool!vars
    <2>1. UNCHANGED <<handshake, index>>
      BY <1>3 DEF SsdWork, SsdPollEmpty, SsdDequeue, SsdNotEmpty, SsdStage, SsdWrite, meta
    <2>2. QED
      BY <2>1, Apart
  <1>4. ASSUME NEW t \in Threads, Move(t)
        PROVE  Pool!Next \/ UNCHANGED Pool!vars
    <2>1. CASE \E k \in Keys : TakeEntry(t, k)
      BY <2>1 DEF TakeEntry, Pool!Next, Pool!Run, Pool!Pop
    <2>2. CASE StageEntry(t) \/ WriteEntry(t)
      <3>1. UNCHANGED <<handshake, index>>
        BY <2>2 DEF StageEntry, WriteEntry, meta
      <3>2. QED
        BY <3>1, Apart
    <2>3. CASE ClearEntry(t) \/ ThreadControl(t)
      BY <2>3 DEF ClearEntry, ThreadControl, Pool!Next, Pool!Run
    <2>4. QED
      BY <1>4, <2>1, <2>2, <2>3 DEF Move
  <1>5. CASE UNCHANGED vars
    <2>1. UNCHANGED <<handshake, index>>
      BY <1>5 DEF vars, meta
    <2>2. QED
      BY <2>1, Apart
  <1>6. QED
    BY <1>1, <1>2, <1>3, <1>4, <1>5 DEF Next

-----------------------------------------------------------------------------
(* Base is an invariant.                                                   *)

LEMMA BaseInit == Init => Base
  <1> SUFFICES ASSUME Init PROVE Base
    OBVIOUS
  <1>1. Pool!PoolInv
    BY InitInv DEF Init
  <1>2. 0 .. Stripe - 1 \subseteq Int
    BY WorkerConstants
  <1>3. Fields
    BY <1>2, WorkerConstants DEF Init, Fields, Content
  <1>4. Control /\ Tasks
    BY DEF Init, Control, Tasks, Pool!Init
  <1>5. QED
    BY <1>1, <1>3, <1>4 DEF Base

(* A block of a segment, taken for a block of the buffer, is one.          *)
LEMMA BlocksInBuffer ==
    /\ Blocks \subseteq BufferBlocks
    /\ \A s \in Segments, b \in Blocks : BufferBlock(s, b) \in BufferBlocks
  <1>1. ASSUME NEW s \in Segments, NEW b \in Blocks
        PROVE  BufferBlock(s, b) \in BufferBlocks
    <2>1. s \in Nat /\ b \in Nat /\ s + 1 <= SegmentNum /\ b + 1 <= PerBlock
          /\ SegmentNum \in Nat /\ PerBlock \in Nat
      BY WorkerConstants DEF Blocks
    <2>2. (s + 1) * PerBlock <= SegmentNum * PerBlock
      BY <2>1
    <2>3. (s + 1) * PerBlock = s * PerBlock + PerBlock /\ s * PerBlock \in Nat
      BY <2>1
    <2>4. QED
      BY <2>1, <2>2, <2>3 DEF BufferBlock, BufferBlocks
  <1>2. 0 \in Segments /\ \A b \in Blocks : BufferBlock(0, b) = b
    BY WorkerConstants DEF BufferBlock, Blocks
  <1>3. QED
    BY <1>1, <1>2

LEMMA AcceptKeepsFields ==
    ASSUME Base, NEW s \in Segments, Accept(s)
    PROVE  Fields'
  <1>1. PICK r \in Requests, v \in Values :
            WriteHit(s, r, v) \/ WriteMiss(s, r, v) \/ LargeWrite(s, r, v)
    BY DEF Accept
  <1>2. [offset |-> r.offset, len |-> r.len, buf |-> v] \in Task
    BY WorkerConstants DEF Request, Task
  <1>3. task' \in [Segments -> Task \cup {NoTask}]
    BY <1>1, <1>2 DEF Base, Fields, WriteHit, WriteMiss, LargeWrite, Receive
  <1>4. CASE WriteHit(s, r, v)
    <2>1. r.offset \in Keys
      BY WorkerConstants DEF Request
    <2>2. blk' \in [Segments -> Blocks \cup {NoBlock}]
      BY <1>4, <2>1 DEF Base, Fields, WriteHit
    <2>3. QED
      BY <1>3, <1>4, <2>2 DEF Base, Fields, WriteHit, meta, buffer, ssdworker, mover, device
  <1>5. CASE WriteMiss(s, r, v)
    BY <1>3, <1>5 DEF Base, Fields, WriteMiss, meta, buffer, ssdworker, mover, device
  <1>6. CASE LargeWrite(s, r, v)
    BY <1>3, <1>6 DEF Base, Fields, LargeWrite, meta, buffer, ssdworker, mover, device
  <1>7. QED
    BY <1>1, <1>4, <1>5, <1>6

LEMMA WorkKeepsFields ==
    ASSUME Base, NEW s \in Segments, Work(s)
    PROVE  Fields'
  <1> USE DEF meta, buffer, ssdworker, mover, device, worker
  <1>1. CASE Allocate(s)
    <2> DEFINE b == ZeroBit(bitmap[s], next_bit[s])
    <2>1. b \in Blocks
      BY <1>1, ZeroBitIsClear DEF Base, Fields, Allocate
    <2>2. RedirectBit(s, b) \in Blocks /\ NextBit(b) \in {0, 1}
      BY <2>1, BitsInRange
    <2>3. index' \in [Segments -> [Keys -> Blocks \cup {NoBlock}]]
      BY <1>1, AllocateFills DEF Base, Fields
    <2>4. /\ bitmap' = [bitmap EXCEPT ![s] = @ \cup {b, RedirectBit(s, b)}]
          /\ next_bit' = [next_bit EXCEPT ![s] = NextBit(b)]
          /\ blk' = [blk EXCEPT ![s] = b]
          /\ wpc' = [wpc EXCEPT ![s] = "store"]
          /\ used' = used \/ used' = [used EXCEPT ![s] = @ + 1]
      BY <1>1 DEF Allocate
    <2>5. /\ bitmap' \in [Segments -> SUBSET Blocks]
          /\ next_bit' \in [Segments -> {0, 1}]
          /\ blk' \in [Segments -> Blocks \cup {NoBlock}]
          /\ used' \in [Segments -> Int]
      <3> HIDE DEF b
      <3>1. QED
        BY <2>1, <2>2, <2>4 DEF Base, Fields
    <2>6. wpc' \in [Segments -> {"idle", "alloc", "store", "drain", "migrate",
                                 "post", "clear"}]
      BY <2>4 DEF Base, Fields
    <2>7. UNCHANGED <<buffer, task, ssdworker, mover, device, small>>
      BY <1>1 DEF Allocate
    <2>8. QED
      BY <2>3, <2>5, <2>6, <2>7 DEF Base, Fields
  <1>2. CASE Store(s)
    <2>1. task[s] \in Task
      BY <1>2 DEF Base, Tasks, Store
    <2>2. task[s].buf \in Content /\ task[s].offset \in Keys
      BY <2>1 DEF Task, Content
    <2>3. QED
      BY <1>2, <2>2 DEF Base, Fields, Store
  <1>3. CASE Post(s)
    <2>1. task[s] \in Task
      BY <1>3 DEF Base, Tasks, Post
    <2>2. ssdq' \in [Segments -> Seq(Task)]
      BY <1>3, <2>1 DEF Base, Fields, Post
    <2>3. QED
      BY <1>3, <2>2 DEF Base, Fields, Post
  <1>4. CASE ClearBlock(s)
    <2>1. Cleared(s) \in SUBSET Keys
      BY <1>4 DEF Base, Tasks, ClearBlock, Cleared
    <2>2. Cardinality(Cleared(s)) \in Nat
      BY <2>1, WorkerConstants, FS_Subset, FS_CardinalityType
    <2>3. index' \in [Segments -> [Keys -> Blocks \cup {NoBlock}]]
      BY <1>4, ClearBlockFills DEF Base, Fields
    <2>4. bitmap' \in [Segments -> SUBSET Blocks]
      BY <1>4 DEF Base, Fields, ClearBlock
    <2>5. bmeta' \in [BufferBlocks -> Keys \cup {NoKey}]
      BY <1>4 DEF Base, Fields, ClearBlock
    <2>6. used' = [used EXCEPT ![s] = @ - Cardinality(Cleared(s))]
          /\ wpc' = [wpc EXCEPT ![s] = "idle"]
          /\ UNCHANGED <<handshake, next_bit, bdata, task, blk, ssdworker, mover,
                         device, small>>
      BY <1>4 DEF ClearBlock
    <2>7. used' \in [Segments -> Int]
          /\ wpc' \in [Segments -> {"idle", "alloc", "store", "drain", "migrate",
                                    "post", "clear"}]
      BY <2>2, <2>6 DEF Base, Fields
    <2>8. QED
      BY <2>3, <2>4, <2>5, <2>6, <2>7 DEF Base, Fields
  <1>5. CASE SsdQueueSeenEmpty(s)
    BY <1>5 DEF Base, Fields, SsdQueueSeenEmpty
  <1>6. CASE MigrationBegin(s)
    BY <1>6 DEF Base, Fields, MigrationBegin
  <1>7. CASE MigrationEnd(s)
    BY <1>7 DEF Base, Fields, MigrationEnd
  <1>8. CASE Resume(s)
    BY <1>8 DEF Base, Fields, Resume
  <1>9. QED
    BY <1>1, <1>2, <1>3, <1>4, <1>5, <1>6, <1>7, <1>8 DEF Work

LEMMA SsdWorkKeepsFields ==
    ASSUME Base, NEW s \in Segments, SsdWork(s)
    PROVE  Fields'
  <1> USE DEF meta, buffer, worker, mover, device
  <1>1. CASE SsdPollEmpty(s)
    BY <1>1 DEF Base, Fields, SsdPollEmpty
  <1>2. CASE SsdDequeue(s)
    <2>1. Head(ssdq[s]) \in Task /\ Tail(ssdq[s]) \in Seq(Task)
      BY <1>2 DEF Base, Fields, SsdDequeue
    <2>2. QED
      BY <1>2, <2>1 DEF Base, Fields, SsdDequeue
  <1>3. CASE SsdNotEmpty(s)
    BY <1>3 DEF Base, Fields, SsdNotEmpty
  <1>4. CASE SsdStage(s)
    <2>1. stask[s].buf \in Content
      BY DEF Base, Fields, Task, NoTask, Content
    <2> DEFINE staged == [i \in DOMAIN memalign_src[s] |->
             IF i < stask[s].len THEN stask[s].buf ELSE memalign_src[s][i]]
    <2>2. staged \in [0 .. Stripe - 1 -> Content]
      <3>1. memalign_src[s] \in [0 .. Stripe - 1 -> Content]
        BY DEF Base, Fields
      <3>2. QED
        BY <2>1, <3>1
    <2>3. memalign_src' \in [Segments -> [0 .. Stripe - 1 -> Content]]
      <3>1. memalign_src' = [memalign_src EXCEPT ![s] = staged]
        BY <1>4 DEF SsdStage
      <3>2. QED
        <4> HIDE DEF staged
        <4>1. QED
          BY <2>2, <3>1 DEF Base, Fields
    <2>4. QED
      BY <1>4, <2>3 DEF Base, Fields, SsdStage
  <1>5. CASE SsdWrite(s)
    <2>1. ASSUME NEW k \in Keys, k \in Span(stask[s])
          PROVE  memalign_src[s][k - stask[s].offset] \in Content
      <3>1. stask[s] = NoTask => Span(stask[s]) = {}
        BY DEF Span, NoTask
      <3>2. stask[s] \in Task
        BY <2>1, <3>1 DEF Base, Fields
      <3>3. stask[s].offset \in Nat /\ stask[s].len \in 1 .. Stripe
        BY <3>2, WorkerConstants DEF Task
      <3>4. k - stask[s].offset \in 0 .. Stripe - 1
        BY <2>1, <3>3, WorkerConstants DEF Span
      <3>5. memalign_src[s] \in [0 .. Stripe - 1 -> Content]
        BY DEF Base, Fields
      <3>6. QED
        BY <3>4, <3>5
    <2>2. ssd' \in [Keys -> Content]
      <3>1. ssd' = [k \in Keys |-> IF k \in Span(stask[s])
                        THEN memalign_src[s][k - stask[s].offset] ELSE ssd[k]]
        BY <1>5 DEF SsdWrite
      <3>2. \A k \in Keys : ssd[k] \in Content
        BY DEF Base, Fields
      <3>3. QED
        BY <2>1, <3>1, <3>2
    <2>3. QED
      BY <1>5, <2>2 DEF Base, Fields, SsdWrite
  <1>6. QED
    BY <1>1, <1>2, <1>3, <1>4, <1>5 DEF SsdWork

LEMMA MoveKeepsFields ==
    ASSUME Base, NEW t \in Threads, Move(t)
    PROVE  Fields'
  <1> USE DEF meta, buffer, worker, ssdworker, mover, device
  <1>1. ASSUME NEW k \in Keys, TakeEntry(t, k)
        PROVE  Fields'
    <2> DEFINE s == segment_idx[t]
    <2>1. s \in Segments
      BY PoolTells
    <2>2. index[s][k] \in Blocks
      BY <1>1, <2>1 DEF Base, Fields, TakeEntry
    <2>3. bdata[index[s][k]] \in Content
      BY <2>2, BlocksInBuffer DEF Base, Fields
    <2>4. index' \in [Segments -> [Keys -> Blocks \cup {NoBlock}]]
      BY <1>1, <2>1 DEF Base, Fields, TakeEntry
    <2>5. QED
      BY <1>1, <2>2, <2>3, <2>4 DEF Base, Fields, TakeEntry
  <1>2. CASE StageEntry(t)
    <2>1. memalign_src' \in [Segments -> [0 .. Stripe - 1 -> Content]]
      BY <1>2 DEF Base, Fields, StageEntry
    <2>2. QED
      BY <1>2, <2>1 DEF Base, Fields, StageEntry
  <1>3. CASE WriteEntry(t)
    <2>1. memalign_src[0][0] \in Content
      BY WorkerConstants DEF Base, Fields
    <2>2. QED
      BY <1>3, <2>1 DEF Base, Fields, WriteEntry
  <1>4. CASE ClearEntry(t)
    <2>1. bmeta' \in [BufferBlocks -> Keys \cup {NoKey}]
      BY <1>4 DEF Base, Fields, ClearEntry
    <2>2. used' \in [Segments -> Int]
      <3>1. used' = [used EXCEPT ![segment_idx[t]] = @ - 1]
            /\ used \in [Segments -> Int]
        BY <1>4 DEF Base, Fields, ClearEntry
      <3>2. segment_idx[t] \in Segments
        BY PoolTells
      <3>3. used[segment_idx[t]] - 1 \in Int
        BY <3>1, <3>2
      <3>4. QED
        BY <3>1, <3>2, <3>3
    <2>3. mpc' \in [Threads -> {"none", "copy", "write", "clear"}]
      BY <1>4 DEF Base, Fields, ClearEntry
    <2>4. UNCHANGED <<index, bitmap, next_bit, bdata, worker, ssdworker, kv_value,
                      migrate_buf, device, small>>
      BY <1>4 DEF ClearEntry
    <2>5. QED
      BY <2>1, <2>2, <2>3, <2>4 DEF Base, Fields
  <1>5. CASE ThreadControl(t)
    BY <1>5 DEF Base, Fields, ThreadControl
  <1>6. QED
    BY <1>1, <1>2, <1>3, <1>4, <1>5 DEF Move

LEMMA FieldsKept ==
    ASSUME Base, [Next]_vars
    PROVE  Fields'
  <1>1. CASE UNCHANGED vars
    BY <1>1 DEF Base, Fields, vars, meta, buffer, worker, ssdworker, mover, device
  <1>2. QED
    BY <1>1, AcceptKeepsFields, WorkKeepsFields, SsdWorkKeepsFields, MoveKeepsFields
    DEF Next

LEMMA AcceptKeepsTasks ==
    ASSUME Base, NEW s \in Segments, Accept(s)
    PROVE  Control' /\ Tasks'
  <1>1. PICK r \in Requests, v \in Values :
            WriteHit(s, r, v) \/ WriteMiss(s, r, v) \/ LargeWrite(s, r, v)
    BY DEF Accept
  <1> DEFINE new == [offset |-> r.offset, len |-> r.len, buf |-> v]
  <1>2. new \in Task
    BY WorkerConstants DEF Request, Task
  <1>3. new.offset = r.offset /\ Span(new) \subseteq Keys
    BY WorkerConstants DEF Span
  <1>4. /\ wpc[s] = "idle" /\ Home(r.offset) = s
        /\ task' = [task EXCEPT ![s] = new]
        /\ \E pc \in {"store", "drain", "alloc", "post"} : wpc' = [wpc EXCEPT ![s] = pc]
        /\ UNCHANGED <<handshake, mpc>>
    BY <1>1 DEF WriteHit, WriteMiss, LargeWrite, Receive, mover
  <1> HIDE DEF new
  <1>5. Control'
    BY <1>4, PoolTells DEF Base, Control, Fields, handshake
  <1>6. Tasks'
    BY <1>2, <1>3, <1>4 DEF Base, Tasks, Fields
  <1>7. QED
    BY <1>5, <1>6

LEMMA WorkKeepsTasks ==
    ASSUME Base, NEW s \in Segments, Work(s)
    PROVE  Control' /\ Tasks'
  <1> USE DEF worker, mover
  <1>1. CASE Allocate(s) \/ Store(s) \/ Post(s) \/ ClearBlock(s) \/ SsdQueueSeenEmpty(s)
    <2>1. /\ wpc[s] \in {"alloc", "store", "post", "clear", "drain"}
          /\ \E pc \in {"idle", "store", "clear", "migrate"} : wpc' = [wpc EXCEPT ![s] = pc]
          /\ UNCHANGED <<handshake, mpc, task>>
      BY <1>1 DEF Allocate, Store, Post, ClearBlock, SsdQueueSeenEmpty
    <2>2. Control'
      BY <2>1, PoolTells DEF Base, Control, Fields, handshake
    <2>3. Tasks'
      BY <2>1 DEF Base, Tasks, Fields
    <2>4. QED
      BY <2>2, <2>3
  <1>2. CASE MigrationBegin(s) \/ MigrationEnd(s)
    <2>1. /\ wpc[s] = "migrate"
          /\ \E pc \in {"begin", "raise", "wait", "end"} : opc' = [opc EXCEPT ![s] = pc]
          /\ UNCHANGED <<worker, mpc, tpc>>
      <3>1. CASE MigrationBegin(s)
        BY <3>1, PoolTells
        DEF MigrationBegin, Pool!Lock, Pool!Begin, Pool!Raise, Pool!thread
      <3>2. CASE MigrationEnd(s)
        BY <3>2 DEF MigrationEnd, Pool!Drained, Pool!thread, Base, Control
      <3>3. QED
        BY <1>2, <3>1, <3>2
    <2>2. Control'
      BY <2>1, PoolTells DEF Base, Control
    <2>3. Tasks'
      BY <2>1 DEF Base, Tasks
    <2>4. QED
      BY <2>2, <2>3
  <1>3. CASE Resume(s)
    <2>1. /\ opc[s] = "end"
          /\ opc' = [opc EXCEPT ![s] = "idle"]
          /\ wpc' = [wpc EXCEPT ![s] = "alloc"]
          /\ UNCHANGED <<task, mpc, tpc>>
      BY <1>3 DEF Resume, Pool!Unlock, Pool!thread
    <2>2. wpc[s] = "migrate"
      BY <2>1 DEF Base, Control
    <2>3. Control'
      BY <2>1, PoolTells DEF Base, Control, Fields
    <2>4. Tasks'
      BY <2>1, <2>2 DEF Base, Tasks, Fields
    <2>5. QED
      BY <2>3, <2>4
  <1>4. QED
    BY <1>1, <1>2, <1>3 DEF Work

LEMMA MoveKeepsTasks ==
    ASSUME Base, NEW t \in Threads, Move(t)
    PROVE  Control' /\ Tasks'
  <1> USE DEF worker
  <1>1. Tasks'
    BY DEF Base, Tasks, Move, TakeEntry, StageEntry, WriteEntry, ClearEntry, ThreadControl
  <1>2. UNCHANGED <<opc, wpc>>
    BY DEF Move, TakeEntry, StageEntry, WriteEntry, ClearEntry, ThreadControl, handshake,
           Pool!Take, Pool!Finish, Pool!Notice, Pool!ReadSegment, Pool!Count, Pool!Lower,
           Pool!owner
  <1>3. \A u \in Threads : mpc'[u] # "none" <=> tpc'[u] = "move"
    <2>1. ASSUME NEW k \in Keys, TakeEntry(t, k)
          PROVE  mpc' = [mpc EXCEPT ![t] = "copy"] /\ tpc' = [tpc EXCEPT ![t] = "move"]
      BY <2>1 DEF TakeEntry, Pool!Take
    <2>2. CASE StageEntry(t) \/ WriteEntry(t)
      <3>1. /\ mpc[t] # "none" /\ UNCHANGED tpc
            /\ \E pc \in {"write", "clear"} : mpc' = [mpc EXCEPT ![t] = pc]
        BY <2>2 DEF StageEntry, WriteEntry, handshake
      <3>2. QED
        BY <3>1 DEF Base, Control, Fields
    <2>3. CASE ClearEntry(t)
      <3>1. mpc' = [mpc EXCEPT ![t] = "none"] /\ tpc' = [tpc EXCEPT ![t] = "work"]
        BY <2>3 DEF ClearEntry, Pool!Finish
      <3>2. QED
        BY <3>1, PoolTells DEF Base, Control, Fields
    <2>4. CASE ThreadControl(t)
      <3>1. /\ tpc[t] # "move" /\ UNCHANGED mpc
            /\ \E pc \in {"spin", "read", "work", "lower"} : tpc' = [tpc EXCEPT ![t] = pc]
        BY <2>4 DEF ThreadControl, mover, Pool!Notice, Pool!ReadSegment, Pool!Count, Pool!Lower
      <3>2. QED
        BY <3>1, PoolTells DEF Base, Control
    <2>5. CASE \E k \in Keys : TakeEntry(t, k)
      <3>1. mpc' = [mpc EXCEPT ![t] = "copy"] /\ tpc' = [tpc EXCEPT ![t] = "move"]
        BY <2>1, <2>5
      <3>2. QED
        BY <3>1, PoolTells DEF Base, Control, Fields
    <2>6. QED
      BY <2>2, <2>3, <2>4, <2>5 DEF Move
  <1>4. QED
    BY <1>1, <1>2, <1>3 DEF Base, Control

LEMMA BaseNext == Base /\ [Next]_vars => Base'
  <1> SUFFICES ASSUME Base, [Next]_vars PROVE Base'
    OBVIOUS
  <1>1. Pool!PoolInv'
    BY StepsObeyPool, NextKeepsInv DEF Base
  <1>2. Fields'
    BY FieldsKept
  <1>3. Control' /\ Tasks'
    <2>1. ASSUME NEW s \in Segments, SsdWork(s)
          PROVE  UNCHANGED <<handshake, worker, mpc>>
      BY <2>1 DEF SsdWork, SsdPollEmpty, SsdDequeue, SsdNotEmpty, SsdStage, SsdWrite, mover
    <2>2. CASE UNCHANGED <<handshake, worker, mpc>>
      BY <2>2 DEF Base, Control, Tasks, handshake, worker
    <2>3. CASE UNCHANGED vars
      BY <2>2, <2>3 DEF vars, mover
    <2>4. QED
      BY <2>1, <2>2, <2>3, AcceptKeepsTasks, WorkKeepsTasks, MoveKeepsTasks DEF Next
  <1>4. QED
    BY <1>1, <1>2, <1>3 DEF Base

LEMMA BaseHolds == Spec => []Base
  <1>1. QED
    BY BaseInit, BaseNext, PTL DEF Spec

(* HandshakeHolds: whatever the workers redirect, forward and clear, and   *)
(* whatever the threads move, the write path runs the protocol of         *)
(* MigratePool and nothing else: every step of NvmWorker is a step of the  *)
(* handshake, a change a worker makes to its hash outside of it, or a step *)
(* the handshake does not see.                                             *)
THEOREM HandshakeHolds == Spec => HandshakeSpec
  <1>1. Init => Pool!Init
    BY DEF Init
  <1>2. Base /\ [Next]_vars => [Pool!Next]_Pool!vars
    BY StepsObeyPool
  <1>3. QED
    BY <1>1, <1>2, BaseHolds, PTL DEF Spec, HandshakeSpec, Pool!Spec

-----------------------------------------------------------------------------
(* The safety invariants.                                                  *)
HIDE DEF Segments, Threads, NoKey, Pool!Segments, Pool!Threads, Pool!Free, Pool!NoKey

(* A key is only ever indexed in the segment its stripe is dealt to.       *)
AtHome ==
    \A s \in Segments : \A k \in Keys : index[s][k] # NoBlock => Home(k) = s

(* A write that waits for a block has none: neither the migration it waits *)
(* for nor another worker gives it one.                                    *)
Waiting ==
    \A s \in Segments :
        wpc[s] \in {"alloc", "drain", "migrate"} => index[s][task[s].offset] = NoBlock

(* The block a write is about to fill belongs to its key or to no key.     *)
Storing ==
    \A s \in Segments : wpc[s] = "store" =>
        /\ blk[s] \in Blocks
        /\ index[s][task[s].offset] \in {NoBlock, blk[s]}
        /\ \A j \in Keys \ {task[s].offset} : index[s][j] # blk[s]

Entries(s) == {k \in Keys : index[s][k] # NoBlock}
Carriers(s) == {t \in Threads : mpc[t] # "none" /\ segment_idx[t] = s}

UsedFits == \A s \in Segments : used[s] \in 0 .. PerBlock

Placement == AtHome /\ Waiting /\ Storing /\ BlocksAreOwned /\ BufferHoldsLastWrite
Counting == UsedCountsEntries /\ UsedFits /\ RoomAfterMigration

(* The inductive invariant.                                                *)
WorkerInv == Base /\ Placement /\ Counting

-----------------------------------------------------------------------------
LEMMA KeysAreNaturals == \A k \in Keys : k \in Nat
  BY WorkerConstants

LEMMA EntriesFinite ==
    ASSUME NEW s \in Segments
    PROVE  /\ IsFiniteSet(Entries(s)) /\ Cardinality(Entries(s)) \in Nat
           /\ IsFiniteSet(Carriers(s)) /\ Cardinality(Carriers(s)) \in Nat
  <1>1. IsFiniteSet(Entries(s))
    BY FS_Subset, WorkerConstants DEF Entries
  <1>2. IsFiniteSet(Carriers(s))
    BY FS_Subset, ThreadsFinite DEF Carriers
  <1>3. QED
    BY <1>1, <1>2, FS_CardinalityType

(* Two blocks of the buffer are different when their segments or their     *)
(* places in the segment are.                                              *)
LEMMA BufferBlockIsInjective ==
    ASSUME NEW s \in Segments, NEW u \in Segments, NEW b \in Blocks, NEW c \in Blocks,
           BufferBlock(s, b) = BufferBlock(u, c)
    PROVE  s = u /\ b = c
  <1>1. /\ PerBlock \in Nat \ {0} /\ s \in Nat /\ u \in Nat
        /\ b \in 0 .. PerBlock - 1 /\ c \in 0 .. PerBlock - 1
    BY WorkerConstants DEF Blocks, Segments
  <1>2. s * PerBlock + b = u * PerBlock + c
    BY DEF BufferBlock
  <1>3. ASSUME NEW m \in Nat, NEW n \in Nat, m < n
        PROVE  m * PerBlock + PerBlock <= n * PerBlock
    <2>1. n * PerBlock = m * PerBlock + (n - m) * PerBlock
      BY <1>1
    <2>2. PICK d \in Nat : n - m = d + 1
      <3>1. n - m - 1 \in Nat /\ n - m = (n - m - 1) + 1
        BY <1>3
      <3>2. QED
        BY <3>1
    <2>3. (n - m) * PerBlock = d * PerBlock + PerBlock /\ d * PerBlock \in Nat
      BY <1>1, <2>2
    <2>4. m * PerBlock \in Nat /\ n * PerBlock \in Nat
      BY <1>1
    <2>5. QED
      BY <1>1, <2>1, <2>3, <2>4
  <1>4. s * PerBlock \in Int /\ u * PerBlock \in Int
    BY <1>1
  <1>5. ~ (s < u)
    BY <1>1, <1>2, <1>3, <1>4
  <1>6. ~ (u < s)
    BY <1>1, <1>2, <1>3, <1>4
  <1>7. s = u
    BY <1>1, <1>5, <1>6
  <1>8. QED
    BY <1>1, <1>2, <1>4, <1>7

-----------------------------------------------------------------------------
(* Where the entries are and what their blocks hold.                       *)

(* Losing entries, in any segment, breaks nothing.                         *)
LEMMA LosingKeepsPlacement ==
    ASSUME Base, Placement, UNCHANGED <<bitmap, bdata, small, wpc, task, blk>>,
           \A s \in Segments, k \in Keys : index'[s][k] \in {index[s][k], NoBlock}
    PROVE  Placement'
  <1>1. AtHome'
    BY DEF Placement, AtHome
  <1>2. Waiting'
    BY DEF Base, Tasks, Task, Placement, Waiting
  <1>3. Storing'
    BY DEF Base, Tasks, Task, Placement, Storing, Blocks, NoBlock
  <1>4. BlocksAreOwned'
    BY DEF Placement, BlocksAreOwned
  <1>5. BufferHoldsLastWrite'
    BY DEF Placement, BufferHoldsLastWrite
  <1>6. QED
    BY <1>1, <1>2, <1>3, <1>4, <1>5 DEF Placement

LEMMA AcceptKeepsPlacement ==
    ASSUME Base, Placement, NEW s \in Segments, Accept(s)
    PROVE  Placement'
  <1>1. PICK r \in Requests, v \in Values :
            WriteHit(s, r, v) \/ WriteMiss(s, r, v) \/ LargeWrite(s, r, v)
    BY DEF Accept
  <1>2. /\ wpc[s] = "idle" /\ UNCHANGED <<index, bitmap, bdata, small>>
        /\ task' = [task EXCEPT ![s] = [offset |-> r.offset, len |-> r.len, buf |-> v]]
        /\ \E pc \in {"store", "drain", "alloc", "post"} : wpc' = [wpc EXCEPT ![s] = pc]
    BY <1>1 DEF WriteHit, WriteMiss, LargeWrite, Receive, meta, buffer
  <1>3. task'[s].offset = r.offset /\ r.offset \in Keys
        /\ \A u \in Segments \ {s} : task'[u] = task[u] /\ wpc'[u] = wpc[u]
    BY <1>2, WorkerConstants DEF Base, Fields, Request
  <1>4. AtHome'
    BY <1>2 DEF Placement, AtHome
  <1>5. Waiting'
    <2>1. wpc'[s] \in {"alloc", "drain", "migrate"} => index[s][r.offset] = NoBlock
      <3>1. CASE InBuffer(s, r.offset) \/ ~IsSmall(r)
        <4>1. wpc'[s] \in {"store", "post"}
          BY <1>1, <3>1 DEF WriteHit, WriteMiss, LargeWrite, Base, Fields
        <4>2. QED
          BY <4>1
      <3>2. CASE ~InBuffer(s, r.offset)
        BY <1>3, <3>2 DEF InBuffer, Placement, BlocksAreOwned
      <3>3. QED
        BY <3>1, <3>2
    <2>2. QED
      BY <1>2, <1>3, <2>1 DEF Placement, Waiting
  <1>6. Storing'
    <2>1. wpc'[s] = "store" => blk'[s] = index[s][r.offset] /\ index[s][r.offset] # NoBlock
      BY <1>1 DEF WriteHit, WriteMiss, LargeWrite, InBuffer, Base, Fields
    <2>2. \A u \in Segments \ {s} : blk'[u] = blk[u]
      BY <1>1 DEF WriteHit, WriteMiss, LargeWrite, Base, Fields
    <2>3. wpc'[s] = "store" => /\ blk'[s] \in Blocks
                               /\ \A j \in Keys \ {r.offset} : index[s][j] # blk'[s]
      BY <1>3, <2>1 DEF Placement, BlocksAreOwned, Base, Fields
    <2>4. QED
      BY <1>2, <1>3, <2>1, <2>2, <2>3 DEF Placement, Storing
  <1>7. BlocksAreOwned'
    BY <1>2 DEF Placement, BlocksAreOwned
  <1>8. BufferHoldsLastWrite'
    BY <1>2, <1>3 DEF Placement, BufferHoldsLastWrite
  <1>9. QED
    BY <1>4, <1>5, <1>6, <1>7, <1>8 DEF Placement

(* The effect of Allocate: the key of the write gets a block that no key   *)
(* has, or no block at all.                                                *)
LEMMA AllocateGives ==
    ASSUME Base, Placement, NEW s \in Segments, Allocate(s)
    PROVE  /\ task[s].offset \in Keys /\ Home(task[s].offset) = s
           /\ index[s][task[s].offset] = NoBlock
           /\ blk'[s] \in Blocks \ bitmap[s] /\ bitmap[s] \subseteq bitmap'[s]
           /\ \A u \in Segments \ {s} : bitmap'[u] = bitmap[u] /\ blk'[u] = blk[u]
           /\ wpc' = [wpc EXCEPT ![s] = "store"]
           /\ \/ index' = index /\ used' = used
              \/ /\ index' = [index EXCEPT ![s][task[s].offset] = blk'[s]]
                 /\ blk'[s] \in bitmap'[s]
                 /\ used' = [used EXCEPT ![s] = @ + 1]
  <1> DEFINE b == ZeroBit(bitmap[s], next_bit[s])
  <1>1. wpc[s] = "alloc" /\ b \in Blocks \ bitmap[s]
    <2>1. wpc[s] = "alloc" /\ bitmap[s] # Blocks
      BY DEF Allocate
    <2>2. bitmap[s] \in SUBSET Blocks /\ next_bit[s] \in {0, 1}
      BY DEF Base, Fields
    <2>3. QED
      BY <2>1, <2>2, ZeroBitIsClear
  <1>2. /\ task[s].offset \in Keys /\ Home(task[s].offset) = s
        /\ index[s][task[s].offset] = NoBlock
    BY <1>1 DEF Base, Tasks, Task, Placement, Waiting
  <1>3. /\ bitmap' = [bitmap EXCEPT ![s] = @ \cup {b, RedirectBit(s, b)}]
        /\ blk' = [blk EXCEPT ![s] = b] /\ wpc' = [wpc EXCEPT ![s] = "store"]
        /\ \/ index' = index /\ used' = used
           \/ /\ index' = [index EXCEPT ![s][task[s].offset] = b]
              /\ used' = [used EXCEPT ![s] = @ + 1]
    BY DEF Allocate
  <1> HIDE DEF b
  <1>4. /\ blk'[s] = b /\ bitmap'[s] = bitmap[s] \cup {b, RedirectBit(s, b)}
        /\ \A u \in Segments \ {s} : bitmap'[u] = bitmap[u] /\ blk'[u] = blk[u]
    BY <1>3 DEF Base, Fields
  <1>5. QED
    BY <1>1, <1>2, <1>3, <1>4

LEMMA AllocateKeepsPlacement ==
    ASSUME Base, Placement, NEW s \in Segments, Allocate(s)
    PROVE  Placement'
  <1> DEFINE o == task[s].offset
             b == blk'[s]
  <1>1. /\ o \in Keys /\ Home(o) = s /\ index[s][o] = NoBlock
        /\ b \in Blocks \ bitmap[s] /\ bitmap[s] \subseteq bitmap'[s]
        /\ \A u \in Segments \ {s} : bitmap'[u] = bitmap[u] /\ blk'[u] = blk[u]
        /\ wpc' = [wpc EXCEPT ![s] = "store"]
    BY AllocateGives
  <1>2. \/ index' = index
        \/ index' = [index EXCEPT ![s][o] = b] /\ b \in bitmap'[s]
    BY AllocateGives
  <1>3. UNCHANGED <<bdata, small, task>>
    BY DEF Allocate, buffer
  <1> HIDE DEF b
  <1>4. /\ \A u \in Segments \ {s} : index'[u] = index[u]
        /\ \A k \in Keys \ {o} : index'[s][k] = index[s][k]
        /\ index'[s][o] = NoBlock \/ (index'[s][o] = b /\ b \in bitmap'[s])
    BY <1>1, <1>2 DEF Base, Fields
  <1>5. wpc'[s] = "store" /\ \A u \in Segments \ {s} : wpc'[u] = wpc[u]
    BY <1>1 DEF Base, Fields
  <1>6. \A k \in Keys : index[s][k] # b
    BY <1>1 DEF Placement, BlocksAreOwned, Blocks, NoBlock
  <1> HIDE DEF o
  <1>7. AtHome'
    BY <1>1, <1>4 DEF Placement, AtHome
  <1>8. Waiting'
    BY <1>3, <1>4, <1>5 DEF Placement, Waiting
  <1>9. Storing'
    <2>1. \A j \in Keys \ {o} : index'[s][j] # b
      BY <1>4, <1>6
    <2>2. b = blk'[s] /\ task'[s].offset = o
      BY <1>3 DEF b, o
    <2>3. ASSUME NEW u \in Segments, u # s, wpc'[u] = "store"
          PROVE  /\ blk'[u] \in Blocks /\ index'[u][task'[u].offset] \in {NoBlock, blk'[u]}
                 /\ \A j \in Keys \ {task'[u].offset} : index'[u][j] # blk'[u]
      BY <1>1, <1>3, <1>4, <1>5, <2>3 DEF Placement, Storing
    <2>4. QED
      BY <1>1, <1>4, <2>1, <2>2, <2>3 DEF Storing
  <1>10. BlocksAreOwned'
    <2>1. ASSUME NEW u \in Segments, u # s, NEW k \in Keys, index'[u][k] # NoBlock
          PROVE  index'[u][k] \in bitmap'[u] /\ \A j \in Keys \ {k} : index'[u][j] # index'[u][k]
      BY <1>1, <1>4, <2>1 DEF Placement, BlocksAreOwned
    <2>2. ASSUME NEW k \in Keys, index'[s][k] # NoBlock
          PROVE  index'[s][k] \in bitmap'[s] /\ \A j \in Keys \ {k} : index'[s][j] # index'[s][k]
      <3>1. CASE k = o
        BY <1>1, <1>4, <1>6, <2>2, <3>1 DEF Blocks, NoBlock
      <3>2. CASE k # o
        BY <1>1, <1>4, <1>6, <2>2, <3>2 DEF Placement, BlocksAreOwned
      <3>3. QED
        BY <3>1, <3>2
    <2>3. QED
      BY <2>1, <2>2 DEF BlocksAreOwned
  <1>11. BufferHoldsLastWrite'
    <2>1. task'[s].offset = o
      BY <1>3 DEF o
    <2>2. wpc[s] # "store"
      BY DEF Allocate
    <2>3. QED
      BY <1>3, <1>4, <1>5, <2>1, <2>2 DEF Placement, BufferHoldsLastWrite
  <1>12. QED
    BY <1>7, <1>8, <1>9, <1>10, <1>11 DEF Placement

LEMMA StoreKeepsPlacement ==
    ASSUME Base, Placement, NEW s \in Segments, Store(s)
    PROVE  Placement'
  <1> DEFINE o == task[s].offset
  <1>1. /\ wpc[s] = "store" /\ o \in Keys /\ Home(o) = s /\ blk[s] \in Blocks
        /\ index[s][o] \in {NoBlock, blk[s]}
        /\ \A j \in Keys \ {o} : index[s][j] # blk[s]
    BY DEF Store, Base, Tasks, Task, Placement, Storing
  <1>2. /\ UNCHANGED <<index, bitmap, task, blk>>
        /\ wpc' = [wpc EXCEPT ![s] = "idle"]
        /\ bdata' = [bdata EXCEPT ![BufferBlock(s, blk[s])] = task[s].buf]
        /\ small' = [small EXCEPT ![o] = task[s].buf]
    BY DEF Store, meta
  <1>3. AtHome' /\ BlocksAreOwned'
    BY <1>2 DEF Placement, AtHome, BlocksAreOwned
  <1>4. Waiting' /\ Storing'
    BY <1>2 DEF Base, Fields, Placement, Waiting, Storing
  <1>5. BufferHoldsLastWrite'
    <2> HIDE DEF o
    <2> SUFFICES ASSUME NEW u \in Segments, NEW k \in Keys, index[u][k] # NoBlock,
                        ~ (wpc'[u] = "store" /\ task[u].offset = k)
                 PROVE  bdata'[BufferBlock(u, index[u][k])] = small'[k]
      BY <1>2 DEF BufferHoldsLastWrite
    <2>1. index[u][k] \in Blocks /\ Home(k) = u
      BY DEF Base, Fields, Placement, AtHome
    <2>2. BufferBlock(s, blk[s]) \in BufferBlocks /\ BufferBlock(u, index[u][k]) \in BufferBlocks
      BY <1>1, <2>1, BlocksInBuffer
    <2>3. CASE k = o
      <3>1. u = s /\ index[u][k] = blk[s]
        BY <1>1, <2>1, <2>3
      <3>2. QED
        BY <1>1, <1>2, <2>2, <2>3, <3>1 DEF Base, Fields
    <2>4. CASE k # o
      <3>1. BufferBlock(u, index[u][k]) # BufferBlock(s, blk[s])
        BY <1>1, <2>1, <2>4, BufferBlockIsInjective
      <3>2. bdata'[BufferBlock(u, index[u][k])] = bdata[BufferBlock(u, index[u][k])]
            /\ small'[k] = small[k]
        BY <1>2, <2>2, <2>4, <3>1 DEF Base, Fields
      <3>3. ~ (wpc[u] = "store" /\ task[u].offset = k)
        BY <1>1, <1>2, <2>4 DEF Base, Fields, o
      <3>4. QED
        BY <3>2, <3>3 DEF Placement, BufferHoldsLastWrite
    <2>5. QED
      BY <2>3, <2>4
  <1>6. QED
    BY <1>3, <1>4, <1>5 DEF Placement

(* The effect of ClearBlock on the hash and the bitmap.                    *)
LEMMA ClearBlockGives ==
    ASSUME Base, NEW s \in Segments, ClearBlock(s)
    PROVE  /\ Cleared(s) \subseteq Entries(s)
           /\ \A u \in Segments \ {s} : index'[u] = index[u] /\ bitmap'[u] = bitmap[u]
           /\ \A k \in Keys : index'[s][k] = IF k \in Cleared(s) THEN NoBlock ELSE index[s][k]
           /\ bitmap'[s] = bitmap[s] \ {index[s][k] : k \in Cleared(s)}
  <1>1. Cleared(s) \subseteq Entries(s)
    <2>1. task[s] \in Task /\ Span(task[s]) \subseteq Keys
      BY DEF Base, Tasks, ClearBlock
    <2>2. ASSUME NEW k \in Cleared(s)
          PROVE  k \in Entries(s)
      <3>1. k \in Span(task[s]) /\ task[s].offset \in Int
        <4>1. k \in Span(task[s])
          BY DEF Cleared
        <4>2. task[s].offset \in Keys
          BY <2>1 DEF Task
        <4>3. task[s].offset \in Int
          BY <4>2, KeysAreNaturals
        <4>4. QED
          BY <4>1, <4>3
      <3>2. k \in task[s].offset .. k
        BY <3>1 DEF Span
      <3>3. QED
        BY <2>1, <3>1, <3>2 DEF Cleared, Entries
    <2>3. QED
      BY <2>2
  <1>2. /\ index' = [index EXCEPT ![s] =
                       [k \in Keys |-> IF k \in Cleared(s) THEN NoBlock ELSE index[s][k]]]
        /\ bitmap' = [bitmap EXCEPT ![s] = @ \ {index[s][k] : k \in Cleared(s)}]
    BY DEF ClearBlock
  <1>3. QED
    BY <1>1, <1>2 DEF Base, Fields

LEMMA ClearBlockKeepsPlacement ==
    ASSUME Base, Placement, NEW s \in Segments, ClearBlock(s)
    PROVE  Placement'
  <1>1. /\ \A u \in Segments \ {s} : index'[u] = index[u] /\ bitmap'[u] = bitmap[u]
        /\ \A k \in Keys : index'[s][k] = IF k \in Cleared(s) THEN NoBlock ELSE index[s][k]
        /\ bitmap'[s] = bitmap[s] \ {index[s][k] : k \in Cleared(s)}
        /\ Cleared(s) \subseteq Keys
    BY ClearBlockGives DEF Entries
  <1>2. wpc[s] = "clear" /\ wpc' = [wpc EXCEPT ![s] = "idle"]
        /\ UNCHANGED <<bdata, small, task, blk>>
    BY DEF ClearBlock
  <1>3. wpc'[s] = "idle" /\ \A u \in Segments \ {s} : wpc'[u] = wpc[u]
    BY <1>2 DEF Base, Fields
  <1>4. AtHome'
    BY <1>1 DEF Placement, AtHome
  <1>5. Waiting'
    BY <1>1, <1>2, <1>3 DEF Placement, Waiting
  <1>6. Storing'
    BY <1>1, <1>2, <1>3 DEF Placement, Storing
  <1>7. BlocksAreOwned'
    <2>1. ASSUME NEW k \in Keys, index'[s][k] # NoBlock
          PROVE  index'[s][k] \in bitmap'[s] /\ \A j \in Keys \ {k} : index'[s][j] # index'[s][k]
      <3>1. index'[s][k] = index[s][k] /\ k \notin Cleared(s)
        BY <1>1, <2>1
      <3>2. index[s][k] \in bitmap[s] /\ \A j \in Keys \ {k} : index[s][j] # index[s][k]
        BY <2>1, <3>1 DEF Placement, BlocksAreOwned
      <3>3. QED
        BY <1>1, <2>1, <3>1, <3>2
    <2>2. ASSUME NEW u \in Segments, u # s, NEW k \in Keys, index'[u][k] # NoBlock
          PROVE  index'[u][k] \in bitmap'[u] /\ \A j \in Keys \ {k} : index'[u][j] # index'[u][k]
      BY <1>1, <2>2 DEF Placement, BlocksAreOwned
    <2>3. QED
      BY <2>1, <2>2 DEF BlocksAreOwned
  <1>8. BufferHoldsLastWrite'
    <2>1. ASSUME NEW u \in Segments, NEW k \in Keys, index'[u][k] # NoBlock,
                 ~ (wpc'[u] = "store" /\ task'[u].offset = k)
          PROVE  bdata'[BufferBlock(u, index'[u][k])] = small'[k]
      <3>1. index'[u][k] = index[u][k]
        BY <1>1, <2>1
      <3>2. ~ (wpc[u] = "store" /\ task[u].offset = k)
        BY <1>2, <1>3, <2>1
      <3>3. QED
        BY <1>2, <2>1, <3>1, <3>2 DEF Placement, BufferHoldsLastWrite
    <2>2. QED
      BY <2>1 DEF BufferHoldsLastWrite
  <1>9. QED
    BY <1>4, <1>5, <1>6, <1>7, <1>8 DEF Placement

(* What the handshake is for: when the owner goes on, no entry of its      *)
(* segment is left and no thread is moving one.                            *)
LEMMA MigratedIsEmpty ==
    ASSUME Base, NEW s \in Segments, opc[s] = "end"
    PROVE  Entries(s) = {} /\ Carriers(s) = {}
  <1>1. Pending[s] = {} /\ \A t \in Threads : ~ Pool!Engaged(t)
    BY DEF Base, Pool!PoolInv, Segments, Threads, Pool!Segments, Pool!Threads
  <1>2. Entries(s) = {}
    BY <1>1 DEF Pending, Entries
  <1>3. Carriers(s) = {}
    BY <1>1 DEF Carriers, Pool!Engaged, Base, Control
  <1>4. QED
    BY <1>2, <1>3

LEMMA WorkKeepsPlacement ==
    ASSUME Base, Base', Placement, NEW s \in Segments, Work(s)
    PROVE  Placement'
  <1> USE DEF meta, buffer, worker
  <1>1. CASE Post(s)
    <2>1. UNCHANGED <<index, bitmap, bdata, small, task, blk>>
          /\ wpc[s] = "post" /\ wpc' = [wpc EXCEPT ![s] = "clear"]
      BY <1>1 DEF Post
    <2>2. QED
      BY <2>1 DEF Base, Fields, Placement, AtHome, Waiting, Storing, BlocksAreOwned,
                  BufferHoldsLastWrite
  <1>2. CASE SsdQueueSeenEmpty(s)
    <2>1. UNCHANGED <<index, bitmap, bdata, small, task, blk>>
          /\ wpc[s] = "drain" /\ wpc' = [wpc EXCEPT ![s] = "migrate"]
      BY <1>2 DEF SsdQueueSeenEmpty
    <2>2. QED
      BY <2>1 DEF Base, Fields, Placement, AtHome, Waiting, Storing, BlocksAreOwned,
                  BufferHoldsLastWrite
  <1>3. CASE MigrationBegin(s)
    <2>1. UNCHANGED <<index, bitmap, bdata, small, wpc, task, blk>>
      BY <1>3 DEF MigrationBegin
    <2>2. QED
      BY <2>1, LosingKeepsPlacement
  <1>4. CASE MigrationEnd(s)
    <2>1. UNCHANGED <<index, bdata, small, wpc, task, blk>>
          /\ bitmap' = [bitmap EXCEPT ![s] = {}] /\ opc'[s] = "end"
      BY <1>4, PoolTells DEF MigrationEnd, Pool!Drained
    <2>2. Entries(s)' = {}
      <3>1. opc'[s] = "end"
        BY <2>1
      <3>2. Pending'[s] = {}
        BY <3>1 DEF Base, Pool!PoolInv, Segments, Pool!Segments
      <3>3. QED
        BY <3>2 DEF Pending, Entries
    <2>3. BlocksAreOwned'
      BY <2>1, <2>2 DEF Entries, Base, Fields, Placement, BlocksAreOwned
    <2>4. QED
      BY <2>1, <2>3 DEF Placement, AtHome, Waiting, Storing, BufferHoldsLastWrite
  <1>5. CASE Resume(s)
    <2>1. UNCHANGED <<index, bitmap, bdata, small, task, blk>>
          /\ opc[s] = "end" /\ wpc' = [wpc EXCEPT ![s] = "alloc"]
      BY <1>5 DEF Resume, Pool!Unlock
    <2>2. wpc[s] = "migrate"
      BY <2>1 DEF Base, Control
    <2>3. QED
      BY <2>1, <2>2 DEF Base, Fields, Placement, AtHome, Waiting, Storing, BlocksAreOwned,
                        BufferHoldsLastWrite
  <1>6. QED
    BY <1>1, <1>2, <1>3, <1>4, <1>5, AllocateKeepsPlacement, StoreKeepsPlacement,
       ClearBlockKeepsPlacement DEF Work

LEMMA MoveKeepsPlacement ==
    ASSUME Base, Placement, NEW t \in Threads, Move(t)
    PROVE  Placement'
  <1> USE DEF meta, buffer, worker
  <1>1. UNCHANGED <<bitmap, bdata, small, wpc, task, blk>>
    BY DEF Move, TakeEntry, StageEntry, WriteEntry, ClearEntry, ThreadControl
  <1>2. \A s \in Segments, k \in Keys : index'[s][k] \in {index[s][k], NoBlock}
    <2>1. ASSUME NEW k \in Keys, TakeEntry(t, k)
          PROVE  \A s \in Segments, j \in Keys : index'[s][j] \in {index[s][j], NoBlock}
      BY <2>1, PoolTells DEF TakeEntry, Base, Fields
    <2>2. CASE UNCHANGED index
      BY <2>2
    <2>3. QED
      BY <2>1, <2>2 DEF Move, StageEntry, WriteEntry, ClearEntry, ThreadControl
  <1>3. QED
    BY <1>1, <1>2, LosingKeepsPlacement

LEMMA PlacementNext ==
    ASSUME Base, Base', Placement, [Next]_vars
    PROVE  Placement'
  <1>1. ASSUME NEW s \in Segments, SsdWork(s)
        PROVE  UNCHANGED <<index, bitmap, bdata, small, worker>>
    BY <1>1 DEF SsdWork, SsdPollEmpty, SsdDequeue, SsdNotEmpty, SsdStage, SsdWrite, meta, buffer
  <1>2. CASE UNCHANGED <<index, bitmap, bdata, small, worker>>
    BY <1>2, LosingKeepsPlacement DEF worker
  <1>3. CASE UNCHANGED vars
    BY <1>2, <1>3 DEF vars, meta, buffer
  <1>4. QED
    BY <1>1, <1>2, <1>3, AcceptKeepsPlacement, WorkKeepsPlacement, MoveKeepsPlacement DEF Next

-----------------------------------------------------------------------------
(* How many blocks are used.                                               *)

LEMMA CountingRead ==
    /\ UsedCountsEntries <=>
         \A s \in Segments : used[s] = Cardinality(Entries(s)) + Cardinality(Carriers(s))
    /\ UsedCountsEntries' <=>
         \A s \in Segments :
             used'[s] = Cardinality(Entries(s)') + Cardinality(Carriers(s)')
  BY DEF UsedCountsEntries, Entries, Carriers

(* A step that changes neither a hash, nor a count, nor what the threads   *)
(* carry: only a worker that begins to allocate has something to show.     *)
LEMMA SameCounts ==
    ASSUME Counting, UNCHANGED <<index, used, mpc>>,
           \A t \in Threads : mpc[t] # "none" => segment_idx'[t] = segment_idx[t],
           \A s \in Segments : wpc'[s] = "alloc" => wpc[s] = "alloc" \/ used[s] < PerBlock
    PROVE  Counting'
  <1>1. \A s \in Segments : Entries(s)' = Entries(s) /\ Carriers(s)' = Carriers(s)
    BY DEF Entries, Carriers
  <1>2. UsedCountsEntries'
    BY <1>1, CountingRead DEF Counting
  <1>3. UsedFits' /\ RoomAfterMigration'
    BY DEF Counting, UsedFits, RoomAfterMigration
  <1>4. QED
    BY <1>2, <1>3 DEF Counting

LEMMA AcceptKeepsCounting ==
    ASSUME Base, Counting, NEW s \in Segments, Accept(s)
    PROVE  Counting'
  <1>1. UNCHANGED <<index, used, mpc, segment_idx>>
    BY DEF Accept, WriteHit, WriteMiss, LargeWrite, meta, mover, handshake
  <1>2. ASSUME NEW u \in Segments, wpc'[u] = "alloc"
        PROVE  wpc[u] = "alloc" \/ used[u] < PerBlock
    <2>1. PICK r \in Requests, v \in Values :
              WriteHit(s, r, v) \/ WriteMiss(s, r, v) \/ LargeWrite(s, r, v)
      BY DEF Accept
    <2>2. CASE u # s
      <3>1. \E pc \in {"store", "drain", "alloc", "post"} : wpc' = [wpc EXCEPT ![s] = pc]
        BY <2>1 DEF WriteHit, WriteMiss, LargeWrite
      <3>2. QED
        BY <1>2, <2>2, <3>1 DEF Base, Fields
    <2>3. CASE u = s
      <3>1. ~ Full(s)
        BY <1>2, <2>1, <2>3 DEF WriteHit, WriteMiss, LargeWrite, Base, Fields
      <3>2. used[s] \in 0 .. PerBlock
        BY DEF Counting, UsedFits
      <3>3. QED
        BY <2>3, <3>1, <3>2, WorkerConstants DEF Full
    <2>4. QED
      BY <2>2, <2>3
  <1>3. QED
    BY <1>1, <1>2, SameCounts

LEMMA AllocateKeepsCounting ==
    ASSUME Base, Placement, Counting, NEW s \in Segments, Allocate(s)
    PROVE  Counting'
  <1> DEFINE o == task[s].offset
  <1>1. /\ o \in Keys /\ index[s][o] = NoBlock /\ blk'[s] \in Blocks
        /\ wpc' = [wpc EXCEPT ![s] = "store"]
        /\ \/ index' = index /\ used' = used
           \/ /\ index' = [index EXCEPT ![s][o] = blk'[s]]
              /\ used' = [used EXCEPT ![s] = @ + 1]
    BY AllocateGives
  <1>2. UNCHANGED <<mpc, segment_idx>>
    BY DEF Allocate, mover, handshake
  <1> HIDE DEF o
  <1>3. \A u \in Segments : wpc'[u] = "alloc" => wpc[u] = "alloc"
    BY <1>1 DEF Base, Fields
  <1>4. CASE index' = index /\ used' = used
    BY <1>2, <1>3, <1>4, SameCounts
  <1>5. CASE /\ index' = [index EXCEPT ![s][o] = blk'[s]]
             /\ used' = [used EXCEPT ![s] = @ + 1]
    <2>1. Entries(s)' = Entries(s) \cup {o} /\ o \notin Entries(s)
      BY <1>1, <1>5 DEF Entries, Base, Fields, Blocks, NoBlock
    <2>2. Cardinality(Entries(s)') = Cardinality(Entries(s)) + 1
      BY <2>1, EntriesFinite, FS_AddElement
    <2>3. /\ \A u \in Segments : Carriers(u)' = Carriers(u)
          /\ \A u \in Segments \ {s} : Entries(u)' = Entries(u) /\ used'[u] = used[u]
          /\ used'[s] = used[s] + 1
      BY <1>2, <1>5 DEF Carriers, Entries, Base, Fields
    <2>4. UsedCountsEntries'
      <3>1. \A u \in Segments : used[u] = Cardinality(Entries(u)) + Cardinality(Carriers(u))
        BY CountingRead DEF Counting
      <3>2. used'[s] = Cardinality(Entries(s)') + Cardinality(Carriers(s)')
        BY <2>2, <2>3, <3>1, EntriesFinite
      <3>3. QED
        BY <2>3, <3>1, <3>2, CountingRead
    <2>5. used[s] < PerBlock
      BY DEF Allocate, Counting, RoomAfterMigration
    <2>6. used'[s] \in 0 .. PerBlock /\ wpc'[s] # "alloc"
      <3>1. used[s] \in 0 .. PerBlock
        BY DEF Counting, UsedFits
      <3>2. used'[s] \in 0 .. PerBlock
        BY <2>3, <2>5, <3>1, WorkerConstants
      <3>3. QED
        BY <1>1, <3>2 DEF Base, Fields
    <2>7. UsedFits' /\ RoomAfterMigration'
      BY <1>3, <2>3, <2>6 DEF Counting, UsedFits, RoomAfterMigration
    <2>8. QED
      BY <2>4, <2>7 DEF Counting
  <1>6. QED
    BY <1>1, <1>4, <1>5

LEMMA ClearBlockKeepsCounting ==
    ASSUME Base, Counting, NEW s \in Segments, ClearBlock(s)
    PROVE  Counting'
  <1> DEFINE C == Cleared(s)
  <1>1. /\ C \subseteq Entries(s)
        /\ \A u \in Segments \ {s} : index'[u] = index[u]
        /\ \A k \in Keys : index'[s][k] = IF k \in C THEN NoBlock ELSE index[s][k]
    BY ClearBlockGives
  <1>2. /\ used' = [used EXCEPT ![s] = @ - Cardinality(C)]
        /\ wpc' = [wpc EXCEPT ![s] = "idle"]
        /\ UNCHANGED <<mpc, segment_idx>>
    BY DEF ClearBlock, mover, handshake
  <1> HIDE DEF C
  <1>3. Entries(s)' = Entries(s) \ C
    BY <1>1 DEF Entries
  <1>4. /\ Cardinality(C) \in Nat
        /\ Cardinality(Entries(s)) = Cardinality(Entries(s)') + Cardinality(C)
    <2>1. IsFiniteSet(Entries(s)) /\ IsFiniteSet(C) /\ IsFiniteSet(Entries(s) \ C)
      BY <1>1, EntriesFinite, FS_Subset
    <2>2. C \cup (Entries(s) \ C) = Entries(s) /\ C \cap (Entries(s) \ C) = {}
      BY <1>1
    <2>3. Cardinality(Entries(s)) = Cardinality(C) + Cardinality(Entries(s) \ C) - 0
      BY <2>1, <2>2, FS_Union, FS_EmptySet
    <2>4. Cardinality(C) \in Nat /\ Cardinality(Entries(s) \ C) \in Nat
      BY <2>1, FS_CardinalityType
    <2>5. QED
      BY <1>3, <2>3, <2>4
  <1>5. /\ \A u \in Segments : Carriers(u)' = Carriers(u)
        /\ \A u \in Segments \ {s} : Entries(u)' = Entries(u) /\ used'[u] = used[u]
        /\ used'[s] = used[s] - Cardinality(C)
    BY <1>1, <1>2 DEF Carriers, Entries, Base, Fields
  <1>6. \A u \in Segments : used[u] = Cardinality(Entries(u)) + Cardinality(Carriers(u))
    BY CountingRead DEF Counting
  <1>7. Cardinality(Entries(s)') \in Nat
    <2>1. IsFiniteSet(Entries(s)')
      BY <1>3, EntriesFinite, FS_Subset
    <2>2. QED
      BY <2>1, FS_CardinalityType
  <1>8. used'[s] = Cardinality(Entries(s)') + Cardinality(Carriers(s)')
    BY <1>4, <1>5, <1>6, <1>7, EntriesFinite
  <1>9. UsedCountsEntries'
    BY <1>5, <1>6, <1>8, CountingRead
  <1>10. used'[s] \in 0 .. PerBlock
    BY <1>4, <1>5, <1>7, <1>8, EntriesFinite, WorkerConstants DEF Counting, UsedFits
  <1>11. UsedFits' /\ RoomAfterMigration'
    BY <1>2, <1>5, <1>10 DEF Counting, UsedFits, RoomAfterMigration, Base, Fields
  <1>12. QED
    BY <1>9, <1>11 DEF Counting

LEMMA WorkKeepsCounting ==
    ASSUME Base, Placement, Counting, NEW s \in Segments, Work(s)
    PROVE  Counting'
  <1> USE DEF meta, worker, mover, handshake
  <1>1. CASE Store(s) \/ Post(s) \/ SsdQueueSeenEmpty(s)
    <2>1. /\ UNCHANGED <<index, used, mpc, segment_idx>>
          /\ \E pc \in {"idle", "clear", "migrate"} : wpc' = [wpc EXCEPT ![s] = pc]
      BY <1>1 DEF Store, Post, SsdQueueSeenEmpty
    <2>2. \A u \in Segments : wpc'[u] = "alloc" => wpc[u] = "alloc"
      BY <2>1 DEF Base, Fields
    <2>3. QED
      BY <2>1, <2>2, SameCounts
  <1>2. CASE MigrationBegin(s) \/ MigrationEnd(s)
    <2>1. UNCHANGED <<index, used, mpc, segment_idx, wpc>>
      BY <1>2 DEF MigrationBegin, MigrationEnd, Pool!Lock, Pool!Begin, Pool!Raise,
                  Pool!Drained, Pool!thread
    <2>2. QED
      BY <2>1, SameCounts
  <1>3. CASE Resume(s)
    <2>1. /\ UNCHANGED <<index, used, mpc, segment_idx>>
          /\ opc[s] = "end" /\ wpc' = [wpc EXCEPT ![s] = "alloc"]
      BY <1>3 DEF Resume, Pool!Unlock, Pool!thread
    <2>2. used[s] = 0
      <3>1. Cardinality(Entries(s)) = 0 /\ Cardinality(Carriers(s)) = 0
        BY <2>1, MigratedIsEmpty, FS_EmptySet
      <3>2. QED
        BY <3>1, CountingRead DEF Counting
    <2>3. \A u \in Segments : wpc'[u] = "alloc" => wpc[u] = "alloc" \/ used[u] < PerBlock
      BY <2>1, <2>2, WorkerConstants DEF Base, Fields
    <2>4. QED
      BY <2>1, <2>3, SameCounts
  <1>4. QED
    BY <1>1, <1>2, <1>3, AllocateKeepsCounting, ClearBlockKeepsCounting DEF Work

LEMMA TakeEntryKeepsCounting ==
    ASSUME Base, Counting, NEW t \in Threads, NEW k \in Keys, TakeEntry(t, k)
    PROVE  Counting'
  <1> PICK s \in Segments : segment_idx[t] = s
    BY PoolTells
  <1>1. /\ s \in Segments /\ index[s][k] # NoBlock /\ mpc[t] = "none"
        /\ index' = [index EXCEPT ![s][k] = NoBlock]
        /\ mpc' = [mpc EXCEPT ![t] = "copy"]
        /\ UNCHANGED <<used, wpc, segment_idx>>
    <2>1. tpc[t] = "work"
      BY DEF TakeEntry, Pool!Take
    <2>2. mpc[t] = "none"
      BY <2>1 DEF Base, Control
    <2>3. UNCHANGED segment_idx
      BY DEF TakeEntry, Pool!Take
    <2>4. QED
      BY <2>2, <2>3, PoolTells DEF TakeEntry, worker
  <1>2. Entries(s)' = Entries(s) \ {k} /\ k \in Entries(s)
    BY <1>1 DEF Entries, Base, Fields
  <1>3. Carriers(s)' = Carriers(s) \cup {t} /\ t \notin Carriers(s)
    BY <1>1 DEF Carriers, Base, Fields
  <1>4. \A u \in Segments \ {s} : Entries(u)' = Entries(u) /\ Carriers(u)' = Carriers(u)
    <2>1. \A u \in Segments \ {s} : index'[u] = index[u]
      BY <1>1 DEF Base, Fields
    <2>2. QED
      BY <1>1, <2>1 DEF Entries, Carriers, Base, Fields
  <1>5. /\ Cardinality(Entries(s)') = Cardinality(Entries(s)) - 1
        /\ Cardinality(Carriers(s)') = Cardinality(Carriers(s)) + 1
    <2>1. Cardinality(Entries(s)') = Cardinality(Entries(s)) - 1
      BY <1>2, EntriesFinite, FS_RemoveElement
    <2>2. Cardinality(Carriers(s)') = Cardinality(Carriers(s)) + 1
      BY <1>3, EntriesFinite, FS_AddElement
    <2>3. QED
      BY <2>1, <2>2
  <1>6. UsedCountsEntries'
    <2>1. \A u \in Segments : used[u] = Cardinality(Entries(u)) + Cardinality(Carriers(u))
      BY CountingRead DEF Counting
    <2>2. used'[s] = Cardinality(Entries(s)') + Cardinality(Carriers(s)')
      BY <1>1, <1>5, <2>1, EntriesFinite
    <2>3. QED
      BY <1>1, <1>4, <2>1, <2>2, CountingRead
  <1>7. UsedFits' /\ RoomAfterMigration'
    BY <1>1 DEF Counting, UsedFits, RoomAfterMigration
  <1>8. QED
    BY <1>6, <1>7 DEF Counting

LEMMA ClearEntryKeepsCounting ==
    ASSUME Base, Counting, NEW t \in Threads, ClearEntry(t)
    PROVE  Counting'
  <1> PICK s \in Segments : segment_idx[t] = s
    BY PoolTells
  <1>1. /\ s \in Segments /\ mpc[t] = "clear"
        /\ mpc' = [mpc EXCEPT ![t] = "none"]
        /\ used' = [used EXCEPT ![s] = @ - 1]
        /\ UNCHANGED <<index, wpc, segment_idx>>
    BY PoolTells DEF ClearEntry, worker, Pool!Finish
  <1>3. Carriers(s)' = Carriers(s) \ {t} /\ t \in Carriers(s)
    BY <1>1 DEF Carriers, Base, Fields
  <1>4. /\ \A u \in Segments : Entries(u)' = Entries(u)
        /\ \A u \in Segments \ {s} : Carriers(u)' = Carriers(u) /\ used'[u] = used[u]
        /\ used'[s] = used[s] - 1
    BY <1>1 DEF Entries, Carriers, Base, Fields
  <1>5. Cardinality(Carriers(s)') = Cardinality(Carriers(s)) - 1
        /\ Cardinality(Carriers(s)') \in Nat
    <2>1. IsFiniteSet(Carriers(s)')
      BY <1>1, <1>3, EntriesFinite, FS_RemoveElement
    <2>2. QED
      BY <1>1, <1>3, <2>1, EntriesFinite, FS_RemoveElement, FS_CardinalityType
  <1>6. \A u \in Segments : used[u] = Cardinality(Entries(u)) + Cardinality(Carriers(u))
    BY CountingRead DEF Counting
  <1>7. used'[s] = Cardinality(Entries(s)') + Cardinality(Carriers(s)')
    BY <1>1, <1>4, <1>5, <1>6, EntriesFinite
  <1>8. UsedCountsEntries'
    BY <1>1, <1>4, <1>6, <1>7, CountingRead
  <1>9. used'[s] \in 0 .. PerBlock /\ used'[s] <= used[s]
    <2>1. used[s] \in 0 .. PerBlock
      BY <1>1 DEF Counting, UsedFits
    <2>2. used'[s] \in Nat
      BY <1>1, <1>4, <1>5, <1>7, EntriesFinite
    <2>3. QED
      BY <1>4, <2>1, <2>2, WorkerConstants
  <1>10. UsedFits'
    BY <1>1, <1>4, <1>9 DEF Counting, UsedFits
  <1>11. RoomAfterMigration'
    <2>1. ASSUME NEW u \in Segments, wpc[u] = "alloc"
          PROVE  used'[u] < PerBlock
      <3>1. used[u] < PerBlock
        BY <2>1 DEF Counting, RoomAfterMigration
      <3>2. CASE u = s
        BY <1>1, <1>9, <3>1, <3>2, WorkerConstants DEF Counting, UsedFits
      <3>3. CASE u # s
        BY <1>4, <3>1, <3>3
      <3>4. QED
        BY <3>2, <3>3
    <2>2. QED
      BY <1>1, <2>1 DEF RoomAfterMigration
  <1>12. QED
    BY <1>8, <1>10, <1>11 DEF Counting

LEMMA MoveKeepsCounting ==
    ASSUME Base, Counting, NEW t \in Threads, Move(t)
    PROVE  Counting'
  <1> USE DEF meta, worker
  <1>1. CASE StageEntry(t) \/ WriteEntry(t)
    <2>1. /\ UNCHANGED <<index, used, wpc, segment_idx>> /\ mpc[t] # "none"
          /\ \E pc \in {"write", "clear"} : mpc' = [mpc EXCEPT ![t] = pc]
      BY <1>1 DEF StageEntry, WriteEntry, handshake
    <2>2. \A s \in Segments : Entries(s)' = Entries(s) /\ Carriers(s)' = Carriers(s)
      BY <2>1 DEF Entries, Carriers, Base, Fields
    <2>3. UsedCountsEntries'
      BY <2>1, <2>2, CountingRead DEF Counting
    <2>4. QED
      BY <2>1, <2>3 DEF Counting, UsedFits, RoomAfterMigration
  <1>2. CASE ThreadControl(t)
    <2>1. UNCHANGED <<index, used, wpc, mpc>>
      BY <1>2 DEF ThreadControl, mover
    <2>2. \A u \in Threads : mpc[u] # "none" => segment_idx'[u] = segment_idx[u]
      <3>1. tpc[t] # "move"
            /\ (segment_idx' = segment_idx
                  \/ segment_idx' = [segment_idx EXCEPT ![t] = migrate_segment_idx])
        BY <1>2 DEF ThreadControl, Pool!Notice, Pool!ReadSegment, Pool!Count, Pool!Lower
      <3>2. QED
        BY <3>1, PoolTells DEF Base, Control
    <2>3. QED
      BY <2>1, <2>2, SameCounts
  <1>3. QED
    BY <1>1, <1>2, TakeEntryKeepsCounting, ClearEntryKeepsCounting DEF Move

LEMMA CountingNext ==
    ASSUME Base, Placement, Counting, [Next]_vars
    PROVE  Counting'
  <1>1. ASSUME NEW s \in Segments, SsdWork(s)
        PROVE  UNCHANGED <<index, used, mpc, segment_idx, wpc>>
    BY <1>1 DEF SsdWork, SsdPollEmpty, SsdDequeue, SsdNotEmpty, SsdStage, SsdWrite, meta,
                worker, mover, handshake
  <1>2. CASE UNCHANGED <<index, used, mpc, segment_idx, wpc>>
    BY <1>2, SameCounts
  <1>3. CASE UNCHANGED vars
    BY <1>2, <1>3 DEF vars, meta, worker, mover, handshake
  <1>4. QED
    BY <1>1, <1>2, <1>3, AcceptKeepsCounting, WorkKeepsCounting, MoveKeepsCounting DEF Next

-----------------------------------------------------------------------------
LEMMA WorkerInvInit == Init => WorkerInv
  <1> SUFFICES ASSUME Init PROVE WorkerInv
    OBVIOUS
  <1>1. \A s \in Segments : Entries(s) = {} /\ Carriers(s) = {}
    BY DEF Init, Entries, Carriers
  <1>2. UsedCountsEntries
    <2>1. \A s \in Segments : used[s] = 0
      BY DEF Init
    <2>2. Cardinality({}) = 0
      BY FS_EmptySet
    <2>3. \A s \in Segments : used[s] = Cardinality(Entries(s)) + Cardinality(Carriers(s))
      BY <1>1, <2>1, <2>2
    <2>4. QED
      BY <2>3 DEF UsedCountsEntries, Entries, Carriers
  <1>3. UsedFits /\ RoomAfterMigration
    BY WorkerConstants DEF Init, UsedFits, RoomAfterMigration
  <1>4. Placement
    BY DEF Init, Placement, AtHome, Waiting, Storing, BlocksAreOwned, BufferHoldsLastWrite
  <1>5. QED
    BY <1>2, <1>3, <1>4, BaseInit DEF WorkerInv, Counting

LEMMA WorkerInvHolds == Spec => []WorkerInv
  <1>1. WorkerInv /\ [Next]_vars => WorkerInv'
    BY BaseNext, PlacementNext, CountingNext DEF WorkerInv
  <1>2. QED
    BY WorkerInvInit, <1>1, PTL DEF Spec

(* WorkerTypes: every field keeps its range, the count of used blocks of a *)
(* segment never leaves 0 .. per_block_num, every index of an array is one *)
(* of its elements.                                                        *)
THEOREM WorkerTypes == Spec => []TypeOK
  <1>1. WorkerInv => TypeOK
    BY DEF WorkerInv, Base, Fields, Counting, UsedFits, TypeOK, Pool!PoolInv
  <1>2. QED
    BY WorkerInvHolds, <1>1, PTL

(* BlocksAreOwnedHolds: no two keys of a segment ever share a block, and   *)
(* the bit of an indexed block is set, whatever redirect_write,            *)
(* mix_clear_block and mix_bitmap_clear after a migration do.              *)
THEOREM BlocksAreOwnedHolds == Spec => []BlocksAreOwned
  <1>1. WorkerInv => BlocksAreOwned
    BY DEF WorkerInv, Placement
  <1>2. QED
    BY WorkerInvHolds, <1>1, PTL

(* UsedCountsEntriesHolds: used_block_num is the number of entries in the  *)
(* hash and in the hands of the migrate threads, although the worker and   *)
(* all the threads update it.                                              *)
THEOREM UsedCountsEntriesHolds == Spec => []UsedCountsEntries
  <1>1. WorkerInv => UsedCountsEntries
    BY DEF WorkerInv, Counting
  <1>2. QED
    BY WorkerInvHolds, <1>1, PTL

(* RoomAfterMigrationHolds: mix_get_next_free_block never returns -1 to    *)
(* redirect_write the second time.                                         *)
THEOREM RoomAfterMigrationHolds == Spec => []RoomAfterMigration
  <1>1. WorkerInv => RoomAfterMigration
    BY DEF WorkerInv, Counting
  <1>2. QED
    BY WorkerInvHolds, <1>1, PTL

(* BufferHoldsLastWriteHolds: the block of an indexed key holds the last   *)
(* small write of that key (a later large write may have passed it by).    *)
THEOREM BufferHoldsLastWriteHolds == Spec => []BufferHoldsLastWrite
  <1>1. WorkerInv => BufferHoldsLastWrite
    BY DEF WorkerInv, Placement
  <1>2. QED
    BY WorkerInvHolds, <1>1, PTL
=============================================================================
