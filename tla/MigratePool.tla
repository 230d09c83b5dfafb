---------------------------- MODULE MigratePool ----------------------------
(***************************************************************************)
(* The handshake of mix_migrate_segment between the nvm_workers, each the  *)
(* owner of one segment of the buffer, and the pool of migrate threads     *)
(* they share.  An owner whose segment is full takes migrate_mutex, names  *)
(* its segment in migrate_segment_idx, raises one flag per thread and      *)
(* spins until completed_migrate_thread_num says that all threads are      *)
(* done.  A thread spins on its flag, pops the entries of its share of the *)
(* segment's hash, counts itself, and lowers its flag.                     *)
(*                                                                         *)
(* What moving an entry does (read, write, clear) is in NvmWorker; here an *)
(* entry is pending in the hash, or in a thread's hand, or gone.           *)
(***************************************************************************)
EXTENDS Integers, FiniteSets

CONSTANTS SegmentNum,   \* SEGMENT_NUM, also the number of nvm_workers
          ThreadNum,    \* migrate_thread_num
          Keys,         \* the block numbers a hash can hold
          HashSize,     \* hash_size, the number of buckets
          Bucket        \* mix_hash_hash, the bucket of a key

Segments == 0 .. SegmentNum - 1
Threads == 0 .. ThreadNum - 1

ASSUME PoolConstants ==
    /\ SegmentNum \in Nat \ {0}
    /\ ThreadNum \in Nat \ {0}
    /\ HashSize \in Nat \ {0}
    /\ Keys \subseteq Nat
    /\ Bucket \in [Keys -> 0 .. HashSize - 1]

Free == -1   \* nobody holds migrate_mutex
NoKey == -1  \* the key of no entry, as mix_hash_get_entry_by_idx has it

VARIABLES
    opc,                  \* where each owner is in mix_migrate_segment
    migrate_mutex,        \* the owner that holds it, or Free
    next_flag,            \* i in the loop of mix_segment_migration_begin
    migrate_segment_idx,  \* the segment to migrate
    completed,            \* completed_migrate_thread_num
    migration,            \* the flag of each thread
    tpc,                  \* where each thread is in migrate()
    segment_idx,          \* the thread's own copy of migrate_segment_idx
    hand,                 \* the key of the entry the thread is moving
    pending,              \* the keys in each segment's hash
    done                  \* history: the threads that counted themselves
                          \* since the last mix_segment_migration_begin

owner == <<opc, migrate_mutex, next_flag, migrate_segment_idx>>
thread == <<tpc, segment_idx, hand>>
vars == <<owner, completed, migration, thread, pending, done>>

TypeOK ==
    /\ opc \in [Segments -> {"idle", "begin", "raise", "wait", "end"}]
    /\ migrate_mutex \in Segments \cup {Free}
    /\ next_flag \in 0 .. ThreadNum
    /\ migrate_segment_idx \in Segments
    /\ completed \in [Segments -> Nat]
    /\ migration \in [Threads -> BOOLEAN]
    /\ tpc \in [Threads -> {"spin", "read", "work", "move", "lower"}]
    /\ segment_idx \in [Threads -> Segments]
    /\ hand \in [Threads -> Keys \cup {NoKey}]
    /\ pending \in [Segments -> SUBSET Keys]
    /\ done \in SUBSET Threads

-----------------------------------------------------------------------------
Init ==
    /\ opc = [s \in Segments |-> "idle"]
    /\ migrate_mutex = Free
    /\ next_flag = 0
    /\ migrate_segment_idx = 0
    /\ completed = [s \in Segments |-> 0]
    /\ migration = [t \in Threads |-> FALSE]
    /\ tpc = [t \in Threads |-> "spin"]
    /\ segment_idx = [t \in Threads |-> 0]
    /\ hand = [t \in Threads |-> NoKey]
    /\ pending = [s \in Segments |-> {}]
    /\ done = {}

(* Outside a migration the owner puts and deletes entries as it likes.     *)
Fill(s, S) ==
    /\ opc[s] = "idle"
    /\ pending' = [pending EXCEPT ![s] = S]
    /\ UNCHANGED <<owner, completed, migration, thread, done>>

Lock(s) ==
    /\ opc[s] = "idle"
    /\ migrate_mutex = Free
    /\ migrate_mutex' = s
    /\ opc' = [opc EXCEPT ![s] = "begin"]
    /\ UNCHANGED <<next_flag, migrate_segment_idx, completed, migration,
                   thread, pending, done>>

(* mix_segment_migration_begin up to its loop.                             *)
Begin(s) ==
    /\ opc[s] = "begin"
    /\ migrate_segment_idx' = s
    /\ completed' = [completed EXCEPT ![s] = 0]
    /\ next_flag' = 0
    /\ done' = {}
    /\ opc' = [opc EXCEPT ![s] = "raise"]
    /\ UNCHANGED <<migrate_mutex, migration, thread, pending>>

(* Error: the loop runs one round too long.                                *)
RaiseTooLong(s) ==
    /\ opc[s] = "raise"
    /\ migration' = [migration EXCEPT ![next_flag] = TRUE]
    /\ next_flag' = next_flag + 1
    /\ opc' = [opc EXCEPT ![s] = IF next_flag = ThreadNum THEN "wait" ELSE @]
    /\ UNCHANGED <<migrate_mutex, migrate_segment_idx, completed, thread,
                   pending, done>>

(* Error: the counter is reset after the flags are up, not before.         *)
RaiseThenReset(s) ==
    /\ opc[s] = "raise"
    /\ migration' = [migration EXCEPT ![next_flag] = TRUE]
    /\ next_flag' = next_flag + 1
    /\ completed' = [completed EXCEPT ![s] = IF next_flag + 1 = ThreadNum THEN 0 ELSE @]
    /\ opc' = [opc EXCEPT ![s] = IF next_flag + 1 = ThreadNum THEN "wait" ELSE @]
    /\ UNCHANGED <<migrate_mutex, migrate_segment_idx, thread, pending, done>>

(* One round of its loop.                                                  *)
Raise(s) ==
    /\ opc[s] = "raise"
    /\ migration' = [migration EXCEPT ![next_flag] = TRUE]
    /\ next_flag' = next_flag + 1
    /\ opc' = [opc EXCEPT ![s] = IF next_flag + 1 = ThreadNum THEN "wait" ELSE @]
    /\ UNCHANGED <<migrate_mutex, migrate_segment_idx, completed, thread,
                   pending, done>>

(* Error: the spin ends one thread too early.                              *)
AllCompletedOffByOne(s) == completed[s] >= ThreadNum - 1

AllCompleted(s) == completed[s] >= ThreadNum

(* mix_segment_migration_end.                                              *)
Drained(s) ==
    /\ opc[s] = "wait"
    /\ AllCompleted(s)
    /\ completed' = [completed EXCEPT ![s] = 0]
    /\ opc' = [opc EXCEPT ![s] = "end"]
    /\ UNCHANGED <<migrate_mutex, next_flag, migrate_segment_idx, migration,
                   thread, pending, done>>

Unlock(s) ==
    /\ opc[s] = "end"
    /\ migrate_mutex' = Free
    /\ opc' = [opc EXCEPT ![s] = "idle"]
    /\ UNCHANGED <<next_flag, migrate_segment_idx, completed, migration,
                   thread, pending, done>>

-----------------------------------------------------------------------------
(* The buckets t, t + ThreadNum, ... that thread t empties.                *)
Share(t) == {k \in Keys : Bucket[k] % ThreadNum = t}

(* The thread leaves its while (!migration[thread_idx]).                   *)
Notice(t) ==
    /\ tpc[t] = "spin"
    /\ migration[t]
    /\ tpc' = [tpc EXCEPT ![t] = "read"]
    /\ UNCHANGED <<owner, completed, migration, segment_idx, hand, pending, done>>

ReadSegment(t) ==
    /\ tpc[t] = "read"
    /\ segment_idx' = [segment_idx EXCEPT ![t] = migrate_segment_idx]
    /\ tpc' = [tpc EXCEPT ![t] = "work"]
    /\ UNCHANGED <<owner, completed, migration, hand, pending, done>>

(* mix_hash_get_entry_by_idx returns an entry, which is out of the hash.   *)
Take(t, k) ==
    /\ tpc[t] = "work"
    /\ k \in Share(t) \cap pending[segment_idx[t]]
    /\ hand' = [hand EXCEPT ![t] = k]
    /\ pending' = [pending EXCEPT ![segment_idx[t]] = @ \ {k}]
    /\ tpc' = [tpc EXCEPT ![t] = "move"]
    /\ UNCHANGED <<owner, completed, migration, segment_idx, done>>

(* The entry is on the ssd, its block is cleared.                          *)
Finish(t) ==
    /\ tpc[t] = "move"
    /\ hand' = [hand EXCEPT ![t] = NoKey]
    /\ tpc' = [tpc EXCEPT ![t] = "work"]
    /\ UNCHANGED <<owner, completed, migration, segment_idx, pending, done>>

(* Error: the thread counts itself before it has emptied its buckets.      *)
CountTooEarly(t) ==
    /\ tpc[t] = "work"
    /\ completed' = [completed EXCEPT ![segment_idx[t]] = @ + 1]
    /\ done' = done \cup {t}
    /\ tpc' = [tpc EXCEPT ![t] = "lower"]
    /\ UNCHANGED <<owner, migration, segment_idx, hand, pending>>

Count(t) ==
    /\ tpc[t] = "work"
    /\ Share(t) \cap pending[segment_idx[t]] = {}
    /\ completed' = [completed EXCEPT ![segment_idx[t]] = @ + 1]
    /\ done' = done \cup {t}
    /\ tpc' = [tpc EXCEPT ![t] = "lower"]
    /\ UNCHANGED <<owner, migration, segment_idx, hand, pending>>

(* Error: the thread goes back to its spin with its flag still up.         *)
LowerForgotten(t) ==
    /\ tpc[t] = "lower"
    /\ tpc' = [tpc EXCEPT ![t] = "spin"]
    /\ UNCHANGED <<owner, completed, migration, segment_idx, hand, pending, done>>

(* migration[thread_idx] = false, whoever raised it.                       *)
Lower(t) ==
    /\ tpc[t] = "lower"
    /\ migration' = [migration EXCEPT ![t] = FALSE]
    /\ tpc' = [tpc EXCEPT ![t] = "spin"]
    /\ UNCHANGED <<owner, completed, segment_idx, hand, pending, done>>

-----------------------------------------------------------------------------
Migrate(s) == Begin(s) \/ Raise(s) \/ Drained(s) \/ Unlock(s)
Pop(t) == \E k \in Keys : Take(t, k)
Run(t) == Notice(t) \/ ReadSegment(t) \/ Pop(t) \/ Finish(t) \/ Count(t) \/ Lower(t)

Next ==
    \/ \E s \in Segments : (\E S \in SUBSET Keys : Fill(s, S)) \/ Lock(s) \/ Migrate(s)
    \/ \E t \in Threads : Run(t)

Spec == Init /\ [][Next]_vars

(* Every owner and every thread is a pthread that runs or spins.           *)
Fairness ==
    /\ \A s \in Segments : WF_vars(Migrate(s))
    /\ \A t \in Threads : WF_vars(Run(t))

FairSpec == Spec /\ Fairness

-----------------------------------------------------------------------------
(* A thread is working on a migration, or its flag tells it to start.      *)
Engaged(t) ==
    \/ tpc[t] \in {"read", "work", "move"}
    \/ tpc[t] = "spin" /\ migration[t]

Migrating(s) == opc[s] \in {"raise", "wait"}

(* The threads touch the hash and the blocks of a segment only while its   *)
(* owner waits for them in mix_migrate_segment: the metadata needs no lock *)
(* of its own.                                                             *)
Exclusive ==
    \A t \in Threads :
        tpc[t] \in {"work", "move"} =>
            Migrating(segment_idx[t]) /\ migrate_mutex = segment_idx[t]

(* When the owner goes on, no entry of its segment is left behind, in the  *)
(* hash or in a thread's hand, and no thread will start late: it may clear *)
(* the bitmap and hand out every block again.                              *)
EmptyWhenDone ==
    \A s \in Segments : opc[s] = "end" =>
        /\ pending[s] = {}
        /\ \A t \in Threads : ~Engaged(t) /\ hand[t] = NoKey

(* No thread's flag is pulled down behind the back of the owner of s: each *)
(* has counted itself, or will see its flag.                               *)
Heard(s) ==
    /\ opc[s] = "wait"
    /\ \A t \in Threads : t \in done \/ Engaged(t)

(* A migration whose flags were all heard ends, whatever the number of     *)
(* entries and whichever way they fall into the threads' shares.           *)
HeardMigrationEnds == \A s \in Segments : Heard(s) ~> opc[s] = "idle"

(* What mix_migrate_segment is for: a full segment does reach the ssd and  *)
(* its owner goes on.                                                      *)
MigrationEnds == \A s \in Segments : opc[s] = "wait" ~> opc[s] = "idle"

(* The inductive invariant behind Exclusive and EmptyWhenDone.  The        *)
(* counter of the segment in migration counts the threads of this round    *)
(* only, none of them twice; whoever is engaged was raised in this round   *)
(* and has not counted itself; whoever has counted itself left nothing in  *)
(* its share.                                                              *)
PoolInv ==
    /\ TypeOK
    /\ \A s \in Segments : opc[s] # "idle" <=> migrate_mutex = s
    /\ \A s \in Segments : Migrating(s) =>
        /\ migrate_segment_idx = s
        /\ completed[s] = Cardinality(done)
        /\ opc[s] = "raise" => next_flag < ThreadNum
    /\ \A t \in Threads : Engaged(t) =>
        /\ migrate_mutex # Free /\ Migrating(migrate_mutex)
        /\ t < next_flag /\ t \notin done
    /\ \A t \in Threads : tpc[t] \in {"work", "move"} => segment_idx[t] = migrate_mutex
    /\ \A t \in Threads : tpc[t] # "move" => hand[t] = NoKey
    /\ \A s \in Segments : Migrating(s) =>
        \A t \in done : t < next_flag /\ Share(t) \cap pending[s] = {}
    /\ \A s \in Segments : opc[s] = "end" =>
        pending[s] = {} /\ \A t \in Threads : ~Engaged(t)

=============================================================================
