# MIXDK in TLA+

MIXDK puts a byte-addressable NVM device in front of an SSD.  Block numbers
below a threshold live on the NVM, the others on the SSD; small writes to the
SSD are redirected into a *buffer* on the NVM and migrated to the SSD when a
quarter (*segment*) of the buffer is full.  Everything runs on spinning
pthreads joined by ring buffers.  These modules model the part of it where the
threads meet and what it keeps when the power fails, check it with TLC, and
prove with TLAPS the protocols it rests on and every safety invariant the runs
check: the ring, the hash, the migration handshake and the workers that use it,
the way of tasks and their counting, the start-up and the durability of counted
writes, and the counters of the Bloom filter.

Paths below are relative to the repository's root (`src/nvm_worker.c` is the
file of that name in its directory `src`).

## Inventory of the system

| part | state it keeps | operations | talks to |
| --- | --- | --- | --- |
| client API, `mixdk.c` | one static task per submit queue, a `ret` counter per read | `mixdk_init/read/write`, `mix_completed_task_num` | submit queues; spins on `ret` |
| `scheduler.c` | which submit queue is next | `handle_task`, `do_schedule` | takes from the submit queues, fills `nvm_queue[i]`, `buffer_queue[i]` |
| `mix_queue.c` | `in`, `out`, the ring | enqueue, dequeue (and unused lock-free variants) | one producer and one consumer thread each |
| `nvm_worker.c`, 4 threads | its current task | `redirect_read/write`, `mix_migrate_segment`, NVM reads and writes | owns segment *i* of the metadata; fills `ssd_queue[i]`; waits for the migrate threads |
| `mix_meta.c` | per segment: hash, bitmap, `used_block_num`; per migration: mutex, segment index, flags, counter | allocate, index, clear, test, rebuild | 8 migrate threads, shared by the 4 workers |
| `mix_hash.c` | chains and their lengths | put, get, delete, pop | worker and migrate threads |
| `mix_bitmap.c` | bits and `next_bit` | next zero bit, set, clear, test | its worker |
| `ssd_worker.c`, 4 threads | `queue_empty`, current task | write, read, count | `ssd.c` |
| `ssd.c` | staging areas of four regions | `memcpy` + `pwrite`, `pread` + `memcpy` | the device |
| `nvm.c` | blocks and their self-describing meta | read, write, clear | the device |
| start-up: `mix_init_scheduler`, `mix_rebuild` | `rebuild`, `rebuild_num`, a condition variable | create threads, map the device, clear the metas, open the gate, start the scheduler | every worker waits at the gate, then rebuilds its index from the metas |
| `mix_bloom_filter.c` | four-bit counters | add, remove, test | nobody: the calls are commented out |
| `mix_logging.c`, `mix_log.c` | - | - | unused stub; prints |

What is hard here: the rings have no lock; a migration is a hand-made barrier
of flags and a counter without identities; the metadata have no lock of their
own and rely on that barrier; `memcpy`/`pwrite` pairs share staging memory;
flags (`queue_empty`) are stale when read; the gate of the start-up is a
condition variable signalled without its mutex; data and meta of a block are
non-temporal stores without a fence; and several functions are correct
only for the sequences of calls their callers happen to make (`mix_hash_put`
without a lookup, the bitmap's `next_bit`).  What makes each part correct:

* a ring is a bounded FIFO, also when its counters wrap;
* a hash is a map, and its lengths are exact;
* migrate threads touch a segment only while its owner waits, and leave nothing
  behind; a migration ends;
* two keys never share a block, `used_block_num` is the number of entries, and
  a block holds the last small write to its key (a large write may leave such a
  block behind, see below);
* a block that leaves the buffer reaches the SSD as it was; a large write
  supersedes the buffer; a read sees the last write (the data of reads are
  planned);
* every block of a task reaches the worker of its key, in the order of its
  client, and is counted once; a read returns when all of it was read;
* no worker looks at the device before it is mapped and its metas are as the
  start-up wants them, and nothing is served before all have rebuilt;
* what was counted as written is on the NVM or the ssd at any moment the power
  may fail (the code keeps this with exceptions, which are listed under *Proofs*),
  and the index never leads to a block that is torn or another key's;
* the counters of the Bloom filter count the keys that use them.

`PROJECT.json` lists every component with its status and every hazard at its
line.

## Modules

| module | models | abstraction |
| --- | --- | --- |
| `FifoQueue` | what a queue promises | abstract specification |
| `MixQueue` | `mix_enqueue` and `mix_dequeue` of one producer and one consumer | a task is a value; 2^32 is the constant `Wrap` |
| `MixQueueProofs` | theorems about `MixQueue` | |
| `KeyMap` | what `mix_meta.c` expects of a hash | abstract specification |
| `MixHash` | chains and lengths of `mix_hash.c` | `mix_hash_hash` is any function `Bucket`; the locks are not modelled, every call is one step |
| `MixHashProofs` | theorems about `MixHash`, which include that it implements `KeyMap` | |
| `MigratePool` | the migration handshake: `mix_segment_migration_begin/_end`, the control of `migrate()` | an entry is a key, pending or in a hand or gone |
| `MigratePoolProofs` | theorems about `MigratePool` | |
| `NvmWorker` | `redirect_write`, `mix_migrate_segment`, allocation, bitmap, buffer blocks and meta, ssd worker, staging area, ssd | a hash is a map, a queue a sequence, the content of a block a value |
| `NvmWorkerProofs` | theorems about `NvmWorker`, which include that it implements `MigratePool` | |
| `Scheduler` | the way of a task: `mixdk_read/write`, `scheduler()`, `mix_post_task_to_nvm/_buffer`, the loops of `nvm_worker` and `ssd_worker`, the control of `redirect_read`, all completion counters | queues are sequences; no data: which blocks are in the buffer is left open, a small write ends in one step |
| `SchedulerProofs` | theorems about `Scheduler` | |
| `Sums`, `SumProofs` | sums of functions, as a recursive function, and facts about them; induction over a set of numbers | |
| `Recovery` | the thread in `mix_init_scheduler`, `mix_rebuild`, the gate of the workers, `mix_buffer_rebuild`, `mix_segments_clear`, the stores of a small write and of a migration, the shared staging region, the clears of other segments' migrations, power failures | the blocks, keys and writes are those of segment 0; of the other segments' migrations only what they clear there; which thread takes which bucket is open; no large writes of the keys |
| `RecoveryProofs` | theorems about start-up and durability | |
| `CountingFilter` | `mix_bloom_filter.c` and the packed counters of `mix_bitmap.c` | Murmur's checksum is any two words per key |
| `CountingFilterProofs` | theorems about `CountingFilter` | |
| `MC*` | constants for TLC | |

How they compose.  `MixQueue` implements `FifoQueue`, which is why `NvmWorker`
may take `ssd_queue`, and `Scheduler` every queue, for a sequence; `MixHash` implements `KeyMap`, which is
why `NvmWorker` may take a hash for a function.  The guards of `KeyMap`
(put only what was just not found, delete only what was just found) are the
discipline of `redirect_write` and `mix_clear_block`.  `NvmWorker` instantiates
`MigratePool` as `Pool`, its `pending` being the keys of the index, takes its
steps as conjuncts of its own and is checked and proved to implement `Pool!Spec`:
that its worker changes its hash only outside a migration is then what makes the
theorems about `MigratePool` hold of it.

`Scheduler` and `NvmWorker` overlap in the `nvm_worker`: the first
has its queues and counters without data, the second its data with requests from
anywhere; `HomeServes` is what the second relies on when worker *i* gets only
keys of segment *i*.

`Recovery` and `NvmWorker` overlap in the small write and the migration of an
entry.  `NvmWorker` has every segment and large write, on a device that takes a
store at once; `Recovery` has segment 0 alone, on a device that takes it late or
never.  Both have any number of migrate threads, the one staging region these
share, and the missing base by which a migration of another segment clears blocks
of segment 0.  `Recovery` takes its migrations in a coarser form than
`MigratePool`: a thread takes an entry while the owner has the mutex, and the owner
goes on when the index is empty and every thread rests; `Exclusive` and
`EmptyWhenDone` say that the handshake gives this.  The two modules are not joined by
a refinement, and what `Recovery` leaves out (large writes, the data that segments
1 to 3 lose because their blocks are never read) is not covered by its properties.
`CountingFilter` stands alone, as the filter does in the code.

State and code.  `MixQueue`: `in`, `out`, `data` are the fields of
`mix_queue_t`; `ppc`/`cpc` say where the two calls are, between the check of
the other side's counter, the copy and the update of the own counter.
`MigratePool`: `migration`, `migrate_segment_idx`, `migrate_mutex` are fields of
`mix_metadata_t`, `completed` is `completed_migrate_thread_num`, `segment_idx`
the thread's local; each load and store that another thread can see is a step.
`NvmWorker`: `index`, `bitmap`, `next_bit`, `used` are a segment's metadata,
`bdata` and `bmeta` the buffer, `wpc`/`task`/`blk` the worker's place in
`redirect_write` and its locals, `ssdq`, `queue_empty`, `spc`, `stask` the ssd
worker, `mpc`, `kv_value`, `migrate_buf` a thread inside
`migrate_from_buffer_to_ssd`, `memalign_src` the staging area.  `Scheduler`: `pc`, `task`, `ret` a client and its call,
`idx` and `toPost` the scheduler's loop and the part of its task it has not
enqueued, `seq` and `hand` an `nvm_worker`'s turn and the task it is at, `ssdTask`
an `ssd_worker`'s.  A task that ends at the threshold or crosses it keeps the
type that happened to be in its memory, so `HandledTasks` has all three outcomes;
the blocks of those that vanish are in the history `unplaced`.  What only one
thread can see at that point (its own hash and bitmap outside a migration) is
done in one step: no other thread could tell.  `done`, `small`, `accepted` and `unplaced` are history
variables, read by properties only.  Operators marked `Error:` are the faulty
variants the properties are tested against; they are no part of a specification.

`Recovery`: `ipc` is the thread in `mix_init_scheduler`, through `mix_nvm_worker_init`
("create"), `mix_mmap`, the loop and the broadcast of `mix_rebuild` and its spin, to the
running scheduler ("serve").  `wpc` is a worker, first at the gate: "test" of
`rebuild`, the "gap" between test and wait, "asleep" in `pthread_cond_wait`, "rebuild";
worker 0 then goes through `redirect_write`.  `nvm` is what the medium holds, status,
offset and data per block; `wc` the stores still in the write buffer of each thread,
`Evict` one of them leaving, `Drain` the locked instruction that drives them all out.
`Land` is what a store does on the medium, and `Tear` a failure within the 512 stores
of a block's data.  `mpc`, `kv`, `migrate_buf` are a thread in
`migrate_from_buffer_to_ssd`; `memalign_src` is the thread whose data region 0 of the
staging area holds, so that a thread that writes from the region after another has
filled it (`StageSsd`, or `StageLarge` of `ssd_worker` 0) puts foreign data on the ssd.
`lock` says whose migration has `migrate_mutex`: worker 0's own, or that of another
segment, which clears each of the block numbers in `left` once (`OtherClear`).
Histories: `expect`, the last counted write of each key, or `NoPromise` when it was
cleared by a start, torn, or lost on the way to the ssd; `dimmed`, the blocks whose
meta was last cleared from outside; `missed`, the workers the broadcast did not reach;
`events`, which bounds a run.  A power failure keeps `nvm` and `ssd`, loses the rest
and starts the process again.

`CountingFilter`: `array` is the bytes behind the header, `count` the header's
counter; `held` and `refused` are histories.  The comment at `src/mix_bitmap.c:123-125`
gives a counter three bits and 8 for its maximum.  The functions below it mask four
bits and refuse to go past 15, and so does the module: `CellCounts` holds of counts
the comment excludes.

In `NvmWorker` the code is modelled as it is, known faults included: the
truncated and misplaced division in `NextBit` and `RedirectBit`, the early return
in `Cleared` (which leaves blocks of a large write in the index, older than the ssd),
the block of a foreign segment in `TakeEntry`, the shared region in
`StageEntry`, the stale flag in `SsdQueueSeenEmpty`.  The invariants of the
passing runs hold in spite of them.

## Runs

| run | bounds | result |
| --- | --- | --- |
| `ring` | 4 slots, counters modulo 8, 2 task values | `NoOverrun`, `FifoSpec` (refinement), `PostReturns` (liveness), `RingInv` hold |
| `hash` | 4 keys, three of which collide, 2 values | `LenIsExact`, `OneEntryPerKey`, `MapSpec` (refinement) hold |
| `pool` | 2 owners, 2 threads, 3 keys in 3 buckets | `Exclusive`, `EmptyWhenDone`, `PoolInv`, `HeardMigrationEnds` (liveness) hold |
| `worker` | segment 0 in use, 2 blocks, 3 keys, 2 values, small and large writes, 2 threads, `ssd_queue` of 1 | `BlocksAreOwned`, `UsedCountsEntries`, `BufferHoldsLastWrite`, `RoomAfterMigration`, `HandshakeSpec` (refinement) hold |
| `scheduler` | 2 clients, 2 tasks in all, 2 workers, stripes of 2 blocks, queues of 1, 5 requests on both sides of the threshold | `EveryWriteCountedOnce`, `ReadIsWhole`, `HomeServes`, `InOrder`, `WritesComplete` and `ReadsReturn` (liveness) hold |
| `recovery` | 2 workers, 2 migrate threads, 3 keys, 2 blocks, 4 requests, 5 events | `RebuildsFromCleared`, `ServesRebuilt`, `CountedIsDurable`, `IndexedIsCounted`, `BlocksDescribeIndex`, `StartEnds` (liveness) hold |
| `filter` | 3 keys, 2 rows of 3 counters of 16 values in 3 bytes, each key added up to 9 times | `CellCounts`, `ZeroMeansAbsent` hold |
| `pool_lost_flag` | as `pool` | `MigrationEnds` fails: a late `migration[t] = false` erases the next migration's flag |
| `lost_index` | as `worker`, 1 value | `WrittenIsIndexed` fails: after a full segment and a large write a small write is not indexed |
| `wrong_segment_read` | 2 segments, 1 thread, 2 values | `MovesOwnSegment` fails: segment 1's migration moves and clears blocks of segment 0 |
| `shared_staging` | 1 segment in use, 2 threads, 2 values | `WritesWhatItStaged` fails: the threads share one staging region |
| `restart_forgets` | as `recovery` | `StartForgetsNothing` fails: the start clears the metas it would rebuild from |

The failing runs state what a comment or the ReadMe says; `findings` in
`PROJECT.json` quotes them.

Why the bounds are enough.  `ring`: eight counter values for four slots put the
wrap at every fill level; two values tell a stale slot from a fresh one; the
proof covers all sizes.  `hash`: three colliding keys put an entry at the head,
in the middle and at the end.  `pool`: two owners make a next migration that a
late thread can meet, three buckets give one thread two; the proof covers all
numbers.  `worker`: two blocks and three keys make a segment full with one key
left, and two is the least size for which `next_bit` differs from 0; segment 0 is
the one whose numbers block and buffer share.  The bits of `RedirectBit` need
`SegmentNum` to differ from 1, which is why segment 1 is there although idle: both
at once are too many states, and what segments share, the mutex and the threads, is
the subject of `pool` and its theorems.  Two threads empty the segment at once.
There is no bound on the number of writes there.  `recovery`: the third key finds
the two blocks full, so that a block is migrated and used again under another key;
two writes to one key tell its last from an earlier one; a failure may come at every
step of the life that led there, and the start after it meets whatever it left.
`MaxEvents` bounds writes, migrations of other segments and failures together, and not
the proofs: five events are a full segment, its migration, a block used again and one
thing that goes wrong.  Two workers make one that waits for the other, two threads one
that stages while the other is about to write.  `filter`: keys 1 and 2 share a counter, which overflows only by both; keys 1
and 3 one in the other half of the same byte; the checksum of key 3 wraps.  `scheduler`: two tasks are
enough for one to overtake, block or be mistaken for the other, from one client
or from two; queues of one task are full whenever a second comes (the rings hold
4096, and never less than 2); a task of three blocks has a part of one block and a
part of two, hence a small and a large write, and a read with every mix of blocks
in and out of the buffer; `MaxTasks` bounds the tasks.  Two submit queues are a
power of two, as the mask of the round robin needs: with three,
only queue 0 is ever polled and `WritesComplete` fails.  The run `worker` uses `SafetyView`: of what no guard and none of its
properties reads (the ssd, staging area, meta, dead locals) states are not told
apart.  Deadlock is not checked where the code does stop: `pool` and the
`worker` runs, by the lost flag and by the scan that does not end.

Fairness.  `MixQueue`: both threads run, the consumer polls for ever, a producer
that has entered the loop of a post goes on; clients need not post.
`MigratePool`: weak fairness of each thread and of each owner that has the mutex;
nothing for taking the mutex, which pthreads do not hand out fairly.
`Scheduler`: weak fairness of the scheduler, of each worker and of a client inside
a call, none for making one; that a small write ends is assumed (a migration that
hangs, `pool_lost_flag`, is outside of this module).  `Recovery`: weak fairness of the
starting thread and of each worker up to its loop, none for waking up without a
signal, for a store leaving the write buffer or for a failure to happen;
`StartEnds` is claimed of starts whose broadcast reached every worker, since the
others do hang.  Each is a
pthread that runs or spins, without priorities.

## Proofs

`MixQueueProofs`.  `RingInvariant`: `RingInv` is inductive.  It says that the
counters are at most `Size` apart, that each side's check is still true when it
acts (the other side can only make it truer), and that the slot in transfer holds
the task in hand.  `NoOverrun` alone is not inductive: it needs the distance.
`RingImplementsFifo` maps the slots from `out` on to the abstract queue; publishing
is `Put`, releasing is `Get`, all else stutters.  The arithmetic is modulo `Wrap`
and rests on the assumption `QueueSizes`, that `Size` divides `Wrap`, which a
power of two below 2^32 does.

`MigratePoolProofs`.  `PoolInvariant`: `PoolInv` is inductive, for every number of
segments and threads and every `Bucket`.  `Exclusive` and `EmptyWhenDone` follow.
They are not inductive because the counter is anonymous: the invariant ties it to
the history `done`, the set of threads that counted themselves in this round, and
says that whoever is engaged (has its flag up or is at work) was raised in this
round and is not in `done`.  A counter equal to the number of threads then means
that `done` is all of them (`AllThreads`), that none is engaged, and, since the
shares of the threads cover all keys (`SharesCover`), that the segment is empty.
Assumed is only `PoolConstants`: positive numbers and a function into the buckets.

`MixHashProofs`.  `HashInv` is inductive, for every set of keys and values, every
number of buckets and every hash function: each list is a *chain* of its bucket
(its keys belong there, none twice), the length is exact, and what the worker
knows of the key it asked for is still true.  The last part carries the proof:
without it `mix_hash_put` could add a second entry, and `mix_hash_delete` count down
for nothing.  It survives the pops of a migration because these only remove.
`PrependChain` and `RemovedChain` say what a put and a removal do to a list,
`OnlyPosition` that the walk finds the one entry there is; from them
`HashImplementsMap` follows action by action.

`RecoveryProofs`.  `GateInv` ties the counter `rebuild_num` to the workers that are
past the gate, so that the spin of `mix_rebuild` ends only when all are
(`RebuiltBeforeService`).  `ClearInv` follows the cleared metas from the loop through
the write buffer to the medium, and says that the only way to "rebuild" is
through the flag, which the locked store sets behind them
(`RebuiltFromCleared`).  Both hold for every number of workers and with a power failure
at every step.

The rest of it is about what segment 0 keeps.  `CountedIsDurable` alone is not
inductive: that a block holds a counted write does not say that nobody else is about to
write there.  `LockInv` ties the threads to the migration that has the mutex: only
in worker 0's own does one have an entry in hand, and only in some migration a store
that waits.  `PlacesInv` says that no two keys share a block, nor a key one that a thread has
in hand; `StoresInv` which stores may still wait, in whose write buffer, and that
together with the medium they make a block whole; `KeptInv` where a counted write is,
depending on whether it is indexed, in the hand of a thread or moved, and during a
start.  Together with the type invariant and the two above they are inductive, and give
`CountedWritesAreDurable` and `IndexedWritesAreCounted` for every number of keys,
blocks, threads and events.  `IndexIsDescribed` (`BlocksDescribeIndex`) adds
`DescribedInv`: a valid block is indexed or in the hand of a thread, or its clear waits
in the write buffer of the thread that let it go (`Leaves`), which the migration does
not end before; and an indexed block is valid and its key's except while its write is
under way or when it was dimmed.

`CountedIsDurable` is not a claim that the program loses nothing.  It excepts each way
in which the model shows the code to lose a counted write, and what remains is that
among small writes and migrations there is no other:

* `InFlight`: the next small write of the key overwrites the block in place, and a
  failure between its stores leaves neither of the two whole, against the
  "self-description guarantees atomicity" of `src/mix_meta.c:165`;
* `Dimmed`: the meta of the block was cleared by a migration of segment 1, 2 or 3
  (`src/mix_meta.c:35`, finding `wrong_segment_read`) or by `mix_segments_clear`;
  `BlocksDescribeIndex` excepts the same blocks, and no others;
* `NoPromise` after `WriteSsd`: another thread, or `ssd_worker` 0, filled the staging
  region in between (finding `shared_staging`);
* `NoPromise` after a start, which clears the metas (finding `restart_forgets`), and
  after a failure in one of the first two cases.

Segments 1 to 3 keep less: a migration reads and clears blocks of segment 0 instead of
theirs.  The durability theorems say nothing of their keys.  Nor do they
speak of large writes, one of which is enough to have a later small write counted and not
indexed (finding `lost_index`).

What the durability rests on besides the code: on x86 the atomic increments that
count a write or a moved block are locked instructions, which empty the write
combining buffers (a compiler for another processor may use the `relaxed` order the
code asks for, and `NoDrain`, the mutant, is what then happens); `pwrite` is durable
when it returns, and is not torn.

`NvmWorkerProofs`.  `HandshakeHolds`: every step of `NvmWorker` is a step of
`MigratePool` or leaves its variables alone, with the keys of the index as the
entries.  The invariant it takes, `Base`, has that of the handshake, the types, where
a worker and a thread stand when the handshake says that they are in a migration, and
what the task of a busy worker is.  The prover does not use the theorems of a module
that is instantiated, so what `MigratePoolProofs` shows of the handshake is laid out
again for `Pool`.  `WorkerInv` adds `Placement` and `Counting`.  That two keys never
share a block (`BlocksAreOwnedHolds`) rests on the handshake: `mix_bitmap_clear` clears the
bits of all blocks when a migration ends, which is harmless only because the segment
has no entry left then.  For the rest the bitmap is enough: a worker takes a block
whose bit is clear, and although `NextBit` and `RedirectBit` are computed wrongly, a
block the worker indexes has its bit set.  `UsedCountsEntriesHolds` counts entries and
hands; `RoomAfterMigrationHolds` follows since both are none after a migration.
`BufferHoldsLastWriteHolds` needs that a key is indexed only in the segment its stripe is
dealt to (`AtHome`), that a write that waits for a block has none (`Waiting`) and that the
block it then fills is indexed by no other key (`Storing`).  It does not say that the block
is current: a large write that starts outside of the buffer leaves the blocks of its
other keys there (`src/mix_meta.c:208`).  Assumed is `WorkerConstants`: finitely
many keys, and requests within one stripe, which is what `mix_post_task_to_buffer` sends.

`SchedulerProofs`.  The proofs hold for every number of clients (the code has at most 16,
and no more than workers) and of workers, every set
of requests and every capacity.  `Located` says which tasks can be in which queue or
hand; it gives `SchedulerTypes` and, because a task for the ssd is cut at the borders of
stripes (`StripesGoHome`), `HomeServesHolds`.  `Ordered` says for each client and each
way to a worker that along the way (in hand, queue, parts to post, submit queue) tasks
stand in the order in which they were posted; since overlapping tasks have a way in
common, `InOrderHolds` follows.  For the counters a state is measured by `InFlight(T)`,
the blocks on the way that belong to tasks in `T`.  One lemma per action says how it
moves them, for any `T` that holds all tasks of one client and number or none (`Plain`); two lemmas about the
cutting carry these, that the stripes of a task have its blocks and that the runs
`redirect_read` makes of the missing blocks have as many as there are missing.  With all
writes for `T`, `EveryWriteCountedOnceHolds` is inductive.  With the reads of one client
and number, `ReadsAreKept` is: what its `ret` lacks is in flight as long as it waits, and
nothing is in flight of any other read.  `ReadIsWholeHolds` follows.

`CountingFilterProofs`.  `IncrementOne` and `DecrementOne` say that a step of one
counter leaves the other half of its byte alone, `IndexFacts` that the functions of a
key use cells of their own, so that `Incremented` moves each counter of a key
once (`ChainChanges`, by induction over the functions).  `FilterInv`, which adds that the
header's count is the number of entries, is inductive: an add makes one entry more,
and one user more of each cell of the key (`OneUserMore`), and a remove one less.  This
holds for every number of functions and counters, every set of keys and any checksums.

How induction is done.  The library's induction theorems take a predicate as a
parameter and cannot be instantiated; `SumProofs` takes a least element from the order
of the naturals, which is well-founded, and states induction for a *set* of numbers.
`SumBelow`, `Ascending`, `Incremented` and `Decremented` are recursive or explicit functions, and not the
folds of the libraries, so that they can be proved about in this way.

Model-checked only: liveness (`PostReturns`, `HeardMigrationEnds`, `WritesComplete`,
`ReadsReturn`, `StartEnds`), which is beyond the prover.  Every invariant and every
refinement that a passing run checks is also a theorem.

## Not modelled, and the plan

* The data of reads, and of the NVM area, whose only state they are: `Scheduler` has
  the control of reads, with the blocks found in the buffer left open.
* Several clients on one submit queue, as `main.c` starts them: they race on its task
  (`mixdk.c:35`) and on the producer's side of its ring, and no outcome is promised.
* Indices beyond an array: `migration[4..7]` (`mix_meta.c:326`) and `nvm_queue[4..]`
  (`nvm_worker.c:359`) have no outcome in C; the modules assume the arrays are long
  enough.
* `completed_read_task` counts reads where its neighbours count blocks
  (`scheduler.c:33`); properties take the count of writes, as `main.c` does.
* `NvmWorker` has the stale flag of the ssd worker (`ssd_worker.c:58`) and the early
  stop of `mix_clear_block`; that the ssd may therefore end with older data than it
  had is a consequence of code that no property claims otherwise.
* The lock-free variants of the queue, `mix_hash_has_key`, `mix_hash_get_entry`,
  `mix_migrate` and the log: without a caller.
* Large writes during a failure; `mix_segments_clear` in another state than that in which
  `main.c:113` calls it, after all writes were counted.
* Allocation failures and leaks, a failed `mmap` (`nvm.c:45`), after which freed memory is
  used, and device errors: return values of `pread` and `pwrite` are ignored.
* Benchmarks, traces, tests, printing.

The models are sequentially consistent but for the non-temporal stores of `Recovery`:
`in` and `out` of a ring are plain `unsigned int`s ordered by compiler barriers on x86,
whose stores become visible in order.

Next, in this order:

1. `RedirectRead`: `redirect_read` over the state of `NvmWorker`, the ssd reads it
   posts, the `ret` counter and its `free`.  Properties: a read returns the last
   write where the write path kept it; `ret` is not touched after the client
   returned; a read completes.
2. Proofs: action properties of the workers and the scheduler, and what the queues
   of `Scheduler` owe to `FifoQueue`.
3. Large writes in `Recovery`, with the two ways a large write leaves a key.
