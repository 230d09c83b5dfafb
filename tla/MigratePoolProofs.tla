------------------------- MODULE MigratePoolProofs -------------------------
(***************************************************************************)
(* Proofs about the migration handshake, for every number of segments and  *)
(* threads and every distribution of the keys over the buckets: Exclusive  *)
(* and EmptyWhenDone, by the inductive invariant PoolInv.                  *)
(***************************************************************************)
EXTENDS MigratePool, FiniteSetTheorems, TLAPS

USE DEF Segments, Threads, Free, NoKey

LEMMA ThreadsFinite == IsFiniteSet(Threads) /\ Cardinality(Threads) = ThreadNum
  BY FS_Interval, PoolConstants

(* A set of threads is finite, and one as large as the pool is the pool.   *)
LEMMA AllThreads ==
    ASSUME NEW D \in SUBSET Threads
    PROVE  /\ IsFiniteSet(D) /\ Cardinality(D) \in Nat
           /\ Cardinality(D) >= ThreadNum => D = Threads
  <1>1. IsFiniteSet(D) /\ Cardinality(D) <= ThreadNum
        /\ (Cardinality(D) = ThreadNum => D = Threads)
    BY ThreadsFinite, FS_Subset
  <1>2. Cardinality(D) \in Nat
    BY <1>1, FS_CardinalityType
  <1>3. QED
    BY <1>1, <1>2, PoolConstants

LEMMA CountOneMore ==
    ASSUME NEW D \in SUBSET Threads, NEW t \in Threads, t \notin D
    PROVE  Cardinality(D \cup {t}) = Cardinality(D) + 1
  BY AllThreads, FS_AddElement

(* Every key is in some thread's share.                                    *)
LEMMA SharesCover ==
    ASSUME NEW P \in SUBSET Keys, \A t \in Threads : Share(t) \cap P = {}
    PROVE  P = {}
  <1>1. ASSUME NEW k \in P
        PROVE  FALSE
    <2>1. Bucket[k] \in Nat
      BY PoolConstants
    <2>2. Bucket[k] % ThreadNum \in 0 .. ThreadNum - 1
      BY <2>1, PoolConstants
    <2>3. k \in Share(Bucket[k] % ThreadNum)
      BY DEF Share
    <2>4. QED
      BY <2>2, <2>3
  <1>2. QED
    BY <1>1

LEMMA InitInv == Init => PoolInv
  <1> SUFFICES ASSUME Init PROVE PoolInv
    OBVIOUS
  <1>1. TypeOK
    BY PoolConstants DEF Init, TypeOK
  <1>2. QED
    BY <1>1 DEF Init, PoolInv, Engaged, Migrating

-----------------------------------------------------------------------------
(* One lemma per kind of actor.                                            *)
LEMMA OwnerKeepsInv ==
    ASSUME PoolInv, NEW s \in Segments,
           (\E S \in SUBSET Keys : Fill(s, S)) \/ Lock(s) \/ Migrate(s)
    PROVE  PoolInv'
  <1> USE DEF owner, thread
  <1>1. CASE \E S \in SUBSET Keys : Fill(s, S)
    <2> PICK S \in SUBSET Keys : Fill(s, S)
      BY <1>1
    <2>1. TypeOK'
      BY DEF PoolInv, TypeOK, Fill
    <2>2. QED
      BY <2>1 DEF PoolInv, TypeOK, Fill, Engaged, Migrating, Share
  <1>2. CASE Lock(s)
    <2>1. TypeOK'
      BY <1>2 DEF PoolInv, TypeOK, Lock
    <2>2. QED
      BY <1>2, <2>1 DEF PoolInv, TypeOK, Lock, Engaged, Migrating, Share
  <1>3. CASE Begin(s)
    <2>1. TypeOK'
      BY <1>3, PoolConstants DEF PoolInv, TypeOK, Begin
    <2>2. migrate_mutex = s /\ ~ \E t \in Threads : Engaged(t)
      BY <1>3 DEF PoolInv, TypeOK, Begin, Migrating
    <2>3. ~ (\E t \in Threads : Engaged(t))'
      BY <1>3, <2>2 DEF Begin, Engaged
    <2>4. Cardinality({}) = 0
      BY FS_EmptySet
    <2>5. /\ migrate_mutex' = s /\ migrate_segment_idx' = s /\ next_flag' = 0 /\ done' = {}
          /\ completed'[s] = 0 /\ opc'[s] = "raise"
      BY <1>3, <2>2 DEF PoolInv, TypeOK, Begin
    <2>6. \A u \in Segments : u # s => opc[u] = "idle" /\ opc'[u] = "idle"
      BY <1>3, <2>2 DEF PoolInv, TypeOK, Begin
    <2>7. (\A u \in Segments : opc[u] # "idle" <=> migrate_mutex = u)'
      BY <2>5, <2>6
    <2>8. (\A u \in Segments : Migrating(u) =>
             /\ migrate_segment_idx = u
             /\ completed[u] = Cardinality(done)
             /\ opc[u] = "raise" => next_flag < ThreadNum)'
      BY <2>4, <2>5, <2>6, PoolConstants DEF Migrating
    <2>9. /\ \A t \in Threads : tpc'[t] \in {"work", "move"} => segment_idx'[t] = migrate_mutex'
          /\ \A t \in Threads : tpc'[t] # "move" => hand'[t] = NoKey
      BY <1>3, <2>2, <2>5 DEF PoolInv, Begin, thread
    <2>10. \A u \in Segments : opc'[u] # "end"
      BY <2>5, <2>6
    <2>11. (\A t \in Threads : Engaged(t) =>
              /\ migrate_mutex # Free /\ Migrating(migrate_mutex)
              /\ t < next_flag /\ t \notin done)'
      BY <2>3
    <2>12. (\A u \in Segments : Migrating(u) =>
              \A t \in done : t < next_flag /\ Share(t) \cap pending[u] = {})'
      BY <2>5
    <2>13. QED
      BY <2>1, <2>7, <2>8, <2>9, <2>10, <2>11, <2>12 DEF PoolInv
  <1>4. CASE Raise(s)
    <2>1. /\ migrate_mutex = s /\ next_flag \in Threads
          /\ next_flag' = next_flag + 1 /\ next_flag' \in 0 .. ThreadNum
      <3>1. opc[s] = "raise" /\ Migrating(s) /\ next_flag \in 0 .. ThreadNum
            /\ next_flag' = next_flag + 1
        BY <1>4 DEF PoolInv, TypeOK, Raise, Migrating
      <3>2. migrate_mutex = s /\ next_flag < ThreadNum
        BY <3>1 DEF PoolInv
      <3>3. QED
        BY <3>1, <3>2, PoolConstants
    <2>2. TypeOK'
      <3>1. migration' \in [Threads -> BOOLEAN]
        BY <1>4 DEF PoolInv, TypeOK, Raise
      <3>2. opc' \in [Segments -> {"idle", "begin", "raise", "wait", "end"}]
        BY <1>4 DEF PoolInv, TypeOK, Raise
      <3>3. QED
        BY <1>4, <2>1, <3>1, <3>2 DEF PoolInv, TypeOK, Raise
    <2>3. ASSUME NEW t \in Threads, Engaged(t)'
          PROVE  (/\ migrate_mutex # Free /\ Migrating(migrate_mutex)
                  /\ t < next_flag /\ t \notin done)'
      <3>1. t = next_flag \/ Engaged(t)
        BY <1>4, <2>3, <2>1 DEF Raise, Engaged, PoolInv, TypeOK
      <3>2. CASE t = next_flag
        BY <1>4, <2>1, <3>2 DEF Raise, PoolInv, TypeOK, Migrating
      <3>3. CASE Engaged(t)
        BY <1>4, <2>1, <3>3 DEF Raise, PoolInv, TypeOK, Migrating
      <3>4. QED
        BY <3>1, <3>2, <3>3
    <2>4. (\A u \in Segments : Migrating(u) =>
             /\ migrate_segment_idx = u
             /\ completed[u] = Cardinality(done)
             /\ opc[u] = "raise" => next_flag < ThreadNum)'
      BY <1>4, <2>1, PoolConstants DEF Raise, PoolInv, TypeOK, Migrating
    <2>5. (\A u \in Segments : Migrating(u) =>
             \A t \in done : t < next_flag /\ Share(t) \cap pending[u] = {})'
      BY <1>4, <2>1 DEF Raise, PoolInv, TypeOK, Migrating, Share
    <2>6. QED
      BY <1>4, <2>1, <2>2, <2>3, <2>4, <2>5
         DEF PoolInv, TypeOK, Raise, Migrating
  <1>5. CASE Drained(s)
    <2>1. TypeOK'
      BY <1>5 DEF PoolInv, TypeOK, Drained
    <2>2. migrate_mutex = s /\ Migrating(s)
      BY <1>5 DEF PoolInv, TypeOK, Drained, Migrating
    <2>3. done = Threads
      BY <1>5, <2>2, AllThreads DEF PoolInv, TypeOK, Drained, AllCompleted
    <2>4. pending[s] = {}
      BY <2>2, <2>3, SharesCover DEF PoolInv, TypeOK
    <2>5. \A t \in Threads : ~Engaged(t)
      BY <2>3 DEF PoolInv
    <2>6. \A t \in Threads : ~Engaged(t)'
      BY <1>5, <2>5 DEF Drained, Engaged
    <2>7. QED
      BY <1>5, <2>1, <2>2, <2>4, <2>5, <2>6
         DEF PoolInv, TypeOK, Drained, Migrating, Engaged
  <1>6. CASE Unlock(s)
    <2>1. TypeOK'
      BY <1>6 DEF PoolInv, TypeOK, Unlock
    <2>2. migrate_mutex = s /\ ~ \E t \in Threads : Engaged(t)
      BY <1>6 DEF PoolInv, TypeOK, Unlock
    <2>3. ~ (\E t \in Threads : Engaged(t))'
      BY <1>6, <2>2 DEF Unlock, Engaged
    <2>4. QED
      BY <1>6, <2>1, <2>2, <2>3 DEF PoolInv, TypeOK, Unlock, Migrating, Engaged
  <1>7. QED
    BY <1>1, <1>2, <1>3, <1>4, <1>5, <1>6 DEF Migrate

LEMMA ThreadKeepsInv ==
    ASSUME PoolInv, NEW t \in Threads, Run(t)
    PROVE  PoolInv'
  <1> USE DEF owner
  <1>1. CASE Notice(t)
    <2>1. TypeOK'
      BY <1>1 DEF PoolInv, TypeOK, Notice
    <2>2. \A u \in Threads : Engaged(u)' => Engaged(u)
      BY <1>1 DEF Notice, Engaged, PoolInv, TypeOK
    <2>3. QED
      BY <1>1, <2>1, <2>2 DEF PoolInv, TypeOK, Notice, Migrating, Share
  <1>2. CASE ReadSegment(t)
    <2>1. TypeOK'
      BY <1>2 DEF PoolInv, TypeOK, ReadSegment
    <2>2. \A u \in Threads : Engaged(u)' => Engaged(u)
      BY <1>2 DEF ReadSegment, Engaged, PoolInv, TypeOK
    <2>3. migrate_segment_idx = migrate_mutex
      BY <1>2 DEF ReadSegment, PoolInv, TypeOK, Engaged
    <2>4. QED
      BY <1>2, <2>1, <2>2, <2>3 DEF PoolInv, TypeOK, ReadSegment, Migrating, Share
  <1>3. CASE Pop(t)
    <2> PICK k \in Keys : Take(t, k)
      BY <1>3 DEF Pop
    <2>1. TypeOK'
      BY DEF PoolInv, TypeOK, Take
    <2>2. \A u \in Threads : Engaged(u)' => Engaged(u)
      BY DEF Take, Engaged, PoolInv, TypeOK
    <2>3. \A s \in Segments : pending'[s] \subseteq pending[s]
      BY DEF Take, PoolInv, TypeOK
    <2>4. QED
      BY <2>1, <2>2, <2>3 DEF PoolInv, TypeOK, Take, Migrating, Share
  <1>4. CASE Finish(t)
    <2>1. TypeOK'
      BY <1>4 DEF PoolInv, TypeOK, Finish
    <2>2. \A u \in Threads : Engaged(u)' => Engaged(u)
      BY <1>4 DEF Finish, Engaged, PoolInv, TypeOK
    <2>3. /\ \A u \in Threads : tpc'[u] \in {"work", "move"} => tpc[u] \in {"work", "move"}
          /\ \A u \in Threads : tpc'[u] # "move" => hand'[u] = NoKey
      BY <1>4 DEF Finish, PoolInv, TypeOK
    <2>4. UNCHANGED <<opc, migrate_mutex, next_flag, migrate_segment_idx, completed,
                      segment_idx, pending, done>>
      BY <1>4 DEF Finish
    <2>5. (\A u \in Threads : Engaged(u) =>
             /\ migrate_mutex # Free /\ Migrating(migrate_mutex)
             /\ u < next_flag /\ u \notin done)'
      BY <2>2, <2>4 DEF PoolInv, Migrating
    <2>6. (\A u \in Threads : tpc[u] \in {"work", "move"} => segment_idx[u] = migrate_mutex)'
      BY <2>3, <2>4 DEF PoolInv
    <2>7. (\A s \in Segments : opc[s] = "end" =>
             pending[s] = {} /\ \A u \in Threads : ~Engaged(u))'
      BY <2>2, <2>4 DEF PoolInv
    <2>8. QED
      BY <2>1, <2>3, <2>4, <2>5, <2>6, <2>7 DEF PoolInv, Migrating, Share
  <1>5. CASE Count(t)
    <2>1. /\ segment_idx[t] = migrate_mutex /\ migrate_mutex \in Segments
          /\ Migrating(migrate_mutex) /\ t < next_flag /\ t \notin done
      BY <1>5 DEF Count, PoolInv, TypeOK, Engaged
    <2>2. TypeOK'
      BY <1>5, <2>1 DEF PoolInv, TypeOK, Count
    <2>3. \A u \in Threads : Engaged(u)' => Engaged(u) /\ u # t
      BY <1>5 DEF Count, Engaged, PoolInv, TypeOK
    <2>4. Cardinality(done') = Cardinality(done) + 1
      BY <1>5, <2>1, CountOneMore DEF Count, PoolInv, TypeOK
    <2>5. (\A s \in Segments : Migrating(s) =>
             /\ migrate_segment_idx = s
             /\ completed[s] = Cardinality(done)
             /\ opc[s] = "raise" => next_flag < ThreadNum)'
      BY <1>5, <2>1, <2>4 DEF Count, PoolInv, TypeOK, Migrating
    <2>6. (\A s \in Segments : Migrating(s) =>
             \A u \in done : u < next_flag /\ Share(u) \cap pending[s] = {})'
      BY <1>5, <2>1 DEF Count, PoolInv, TypeOK, Migrating, Share
    <2>7. (\A u \in Threads : Engaged(u) =>
             /\ migrate_mutex # Free /\ Migrating(migrate_mutex)
             /\ u < next_flag /\ u \notin done)'
      <3>1. ASSUME NEW u \in Threads, Engaged(u)'
            PROVE  (/\ migrate_mutex # Free /\ Migrating(migrate_mutex)
                    /\ u < next_flag /\ u \notin done)'
        <4>1. Engaged(u) /\ u # t
          BY <2>3, <3>1
        <4>2. QED
          BY <1>5, <4>1 DEF Count, PoolInv, Migrating
      <3>2. QED
        BY <3>1
    <2>8. (\A s \in Segments : opc[s] # "idle" <=> migrate_mutex = s)'
      BY <1>5 DEF Count, PoolInv
    <2>9. (\A u \in Threads : tpc[u] \in {"work", "move"}
                               => segment_idx[u] = migrate_mutex)'
      BY <1>5 DEF Count, PoolInv, TypeOK
    <2>10. (\A u \in Threads : tpc[u] # "move" => hand[u] = NoKey)'
      BY <1>5 DEF Count, PoolInv, TypeOK
    <2>11. (\A s \in Segments : opc[s] = "end" =>
              pending[s] = {} /\ \A u \in Threads : ~Engaged(u))'
      BY <1>5, <2>3 DEF Count, PoolInv
    <2>12. QED
      BY <2>2, <2>5, <2>6, <2>7, <2>8, <2>9, <2>10, <2>11 DEF PoolInv
  <1>6. CASE Lower(t)
    <2>1. TypeOK'
      BY <1>6 DEF PoolInv, TypeOK, Lower
    <2>2. \A u \in Threads : Engaged(u)' => Engaged(u)
      BY <1>6 DEF Lower, Engaged, PoolInv, TypeOK
    <2>3. QED
      BY <1>6, <2>1, <2>2 DEF PoolInv, TypeOK, Lower, Migrating, Share
  <1>7. QED
    BY <1>1, <1>2, <1>3, <1>4, <1>5, <1>6 DEF Run

LEMMA NextKeepsInv == PoolInv /\ [Next]_vars => PoolInv'
  <1> SUFFICES ASSUME PoolInv, [Next]_vars PROVE PoolInv'
    OBVIOUS
  <1>1. CASE \E s \in Segments :
               (\E S \in SUBSET Keys : Fill(s, S)) \/ Lock(s) \/ Migrate(s)
    BY <1>1, OwnerKeepsInv
  <1>2. CASE \E t \in Threads : Run(t)
    BY <1>2, ThreadKeepsInv
  <1>3. CASE UNCHANGED vars
    BY <1>3 DEF PoolInv, TypeOK, vars, owner, thread, Engaged, Migrating, Share
  <1>4. QED
    BY <1>1, <1>2, <1>3 DEF Next

(* The handshake keeps its invariant: mix_segment_migration_begin and _end *)
(* and the loop of migrate() agree on who is working on what.              *)
THEOREM PoolInvariant == Spec => []PoolInv
  <1>1. QED
    BY InitInv, NextKeepsInv, PTL DEF Spec

LEMMA InvIsExclusive == PoolInv => Exclusive
  BY DEF PoolInv, TypeOK, Exclusive, Engaged, Migrating

LEMMA InvIsEmptyWhenDone == PoolInv => EmptyWhenDone
  BY DEF PoolInv, TypeOK, EmptyWhenDone, Engaged

(* The fields of the handshake keep their types.                           *)
THEOREM PoolTypes == Spec => []TypeOK
  <1>1. PoolInv => TypeOK
    BY DEF PoolInv
  <1>2. QED
    BY <1>1, PoolInvariant, PTL

(* Threads pop entries only from the segment whose owner is waiting for    *)
(* them in mix_segment_migration_end or still raising their flags.         *)
THEOREM ExclusiveHolds == Spec => []Exclusive
  <1>1. QED
    BY PoolInvariant, InvIsExclusive, PTL

(* When the owner's spin ends, the segment is empty and no thread is left  *)
(* in it, although completed_migrate_thread_num counts anonymous threads.  *)
THEOREM EmptyWhenDoneHolds == Spec => []EmptyWhenDone
  <1>1. QED
    BY PoolInvariant, InvIsEmptyWhenDone, PTL

=============================================================================
