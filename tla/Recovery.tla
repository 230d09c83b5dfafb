------------------------------ MODULE Recovery ------------------------------
(***************************************************************************)
(* Start-up, power failure and what the buffer keeps: mix_init_scheduler,  *)
(* mix_rebuild and the gate of the nvm workers in nvm_worker.c, the        *)
(* self-described blocks of nvm.c and mix_buffer_rebuild of mix_meta.c.    *)
(*                                                                         *)
(* Every block carries a meta, its status and the key it holds.  Data and  *)
(* meta are written with non-temporal stores: each waits in the write      *)
(* buffer of its thread, leaves it in any order, and is lost with the      *)
(* power.  There is no fence; but the locked instruction by which a thread *)
(* counts what it did (completed_nvm_write_block_num, used_block_num) or   *)
(* opens the gate (rebuild) empties the buffer of that thread.             *)
(*                                                                         *)
(* Two faults of the migration are part of it.  All migrate threads write  *)
(* to the ssd through region 0 of the staging area (mix_meta.c:34), and so *)
(* does ssd_worker 0.  And they address a block without the base of its    *)
(* segment (mix_meta.c:33, :35): a migration of segment 1 to 3 clears the  *)
(* metas of the blocks of segment 0, the ones that are indexed included.   *)
(*                                                                         *)
(* Abstractions.  The blocks, keys and writes are those of segment 0,      *)
(* which worker 0 serves; the other workers pass the gate, each with a     *)
(* mutex of its own, and migrate.  Which thread takes which bucket is left *)
(* open (MigratePool), and there are no large writes of the keys (they are *)
(* in NvmWorker).  pwrite is one durable step, and the staging region is   *)
(* kept as the name of the thread it was filled by.  What nobody reads     *)
(* again is reset.                                                         *)
(***************************************************************************)
EXTENDS Integers, FiniteSets

CONSTANTS Workers,      \* the nvm workers
          Keys, Values,
          Requests,     \* the small writes the clients send
          PerBlock,     \* per_block_num
          Threads,      \* the migrate threads
          MaxEvents     \* bound: writes, other migrations and power failures

Task == [key : Keys, buf : Values]
Blocks == 0 .. PerBlock - 1
NoBlock == -1
NoKey == -1
Junk == "junk"      \* no write of the key: torn, another's or from before
NoPromise == "none" \* nothing was counted of the key, or it was given up

Nobody == "nobody"

(* Who has a write buffer; "init" is the thread in mix_init_scheduler.     *)
Writers == {"init", "worker"} \cup Threads

ASSUME RecoveryConstants ==
    /\ Workers \subseteq Nat /\ IsFiniteSet(Workers) /\ 0 \in Workers
    /\ PerBlock \in Nat \ {0} /\ MaxEvents \in Nat
    /\ Keys \subseteq Nat /\ Requests \subseteq Task
    /\ {Junk, NoPromise} \cap Values = {}
    /\ {"init", "worker"} \cap Threads = {}

VARIABLES
    nvm,          \* per block its status, offset and data
    wc,           \* the stores that wait in the write buffer of each writer
    ssd,
    memalign_src, \* the thread whose data region 0 of the staging area holds
    ipc,          \* the thread in mix_init_scheduler
    rebuild, rebuild_num,
    wpc,          \* the nvm workers
    index, bitmap, task,        \* of worker 0, see NvmWorker
    lock,         \* whose migration holds migrate_mutex
    left,         \* the entries another segment's migration has not taken
    mpc, kv, migrate_buf,       \* of the migrate threads
    \* history
    dimmed,       \* blocks whose meta was last cleared from outside
    expect,       \* the last counted write of each key, or NoPromise
    missed,       \* the workers that did not hear the broadcast
    events

device == <<nvm, wc, dimmed>>
disk == <<ssd, memalign_src>>
boot == <<ipc, rebuild, rebuild_num, missed>>
tables == <<index, bitmap, task>>
mutex == <<lock, left>>
movers == <<mpc, kv, migrate_buf>>
history == <<expect, events>>
vars == <<device, disk, boot, wpc, tables, mutex, movers, history>>

Content == Values \cup {Junk}
NoTask == [key |-> NoKey, buf |-> Junk]
NoEntry == [key |-> NoKey, value |-> NoBlock]
NoStores == [t \in Writers |-> {}]
AtGate == {"none", "test", "gap", "asleep", "rebuild"}

TypeOK ==
    /\ nvm \in [Blocks -> [status : {0, 1}, offset : Keys \cup {NoKey}, data : Content]]
    /\ ssd \in [Keys -> Content] /\ memalign_src \in Threads \cup {Nobody}
    /\ DOMAIN wc = Writers
    /\ ipc \in {"create", "mmap", "clear", "broadcast", "spin", "serve"}
    /\ rebuild \in BOOLEAN /\ rebuild_num \in 0 .. Cardinality(Workers)
    /\ wpc \in [Workers -> AtGate \cup {"idle", "alloc", "store", "count", "migrate"}]
    /\ index \in [Keys -> Blocks \cup {NoBlock}] /\ bitmap \subseteq Blocks
    /\ task \in Requests \cup {NoTask}
    /\ lock \in {"free", "own", "other"} /\ left \subseteq Blocks
    /\ mpc \in [Threads -> {"none", "stage", "write", "clear"}]
    /\ kv \in [Threads -> [key : Keys, value : Blocks] \cup {NoEntry}]
    /\ migrate_buf \in [Threads -> Content]
    /\ dimmed \subseteq Blocks /\ expect \in [Keys -> Values \cup {NoPromise}]
    /\ missed \subseteq Workers /\ events \in 0 .. MaxEvents

Init ==
    /\ nvm = [b \in Blocks |-> [status |-> 0, offset |-> NoKey, data |-> Junk]]
    /\ ssd = [k \in Keys |-> Junk] /\ memalign_src = Nobody
    /\ expect = [k \in Keys |-> NoPromise] /\ dimmed = {} /\ events = 0
    /\ wc = NoStores
    /\ ipc = "create" /\ rebuild = FALSE /\ rebuild_num = 0 /\ missed = {}
    /\ wpc = [w \in Workers |-> "none"]
    /\ index = [k \in Keys |-> NoBlock] /\ bitmap = {} /\ task = NoTask
    /\ lock = "free" /\ left = {}
    /\ mpc = [t \in Threads |-> "none"] /\ kv = [t \in Threads |-> NoEntry]
    /\ migrate_buf = [t \in Threads |-> Junk]

-----------------------------------------------------------------------------
(* Non-temporal stores, <<block, field, value>>.                           *)

Written(S) ==
    [b \in Blocks |-> [f \in DOMAIN nvm[b] |->
        IF \E x \in S : x[1] = b /\ x[2] = f
          THEN (CHOOSE x \in S : x[1] = b /\ x[2] = f)[3]
          ELSE nvm[b][f]]]

Issue(t, S) == wc' = [wc EXCEPT ![t] = @ \cup S] /\ UNCHANGED <<nvm, dimmed>>

(* Writer t is at work for another segment.                                *)
Foreign(t) == t \in Threads /\ lock = "other"

Marked(S, s) == {b \in Blocks : <<b, "status", s>> \in S}

(* The stores S of writer t reach the device.                              *)
Land(t, S) ==
    /\ nvm' = Written(S)
    /\ dimmed' = IF Foreign(t) THEN dimmed \cup Marked(S, 0) ELSE dimmed \ Marked(S, 1)

(* Error: the count is an ordinary store, which empties no write buffer.   *)
NoDrain(t) == UNCHANGED device

(* A locked instruction of thread t.                                       *)
Drain(t) == wc' = [wc EXCEPT ![t] = {}] /\ Land(t, wc[t])

(* One store leaves a write buffer on its own.                             *)
Evict(t) ==
    /\ \E x \in wc[t] : Land(t, {x}) /\ wc' = [wc EXCEPT ![t] = @ \ {x}]
    /\ UNCHANGED <<disk, boot, wpc, tables, mutex, movers, history>>

(* The 512 stores of a block's data leave one after the other.             *)
Tear(t) ==
    /\ \E x \in wc[t] : x[2] = "data" /\ nvm' = [nvm EXCEPT ![x[1]].data = Junk]
    /\ UNCHANGED <<wc, dimmed, disk, boot, wpc, tables, mutex, movers, history>>

(* The write of key k is in the buffer or on its way there, uncounted: it  *)
(* may overwrite the counted one in place.                                 *)
InFlight(k) == wpc[0] = "count" /\ task.key = k

(* The block of key k does not say so any more.                            *)
Dimmed(k) ==
    index[k] \in dimmed \/ \E t \in Threads : kv[t].key = k /\ kv[t].value \in dimmed

(* What is promised of the keys of K unless the ssd has it.                *)
GivenUp(K) ==
    [k \in Keys |-> IF k \in K /\ ssd[k] # expect[k]
                    THEN NoPromise ELSE expect[k]]

(* What is stored stays; the process begins anew.                          *)
PowerFails ==
    /\ events < MaxEvents /\ events' = events + 1
    /\ expect' = GivenUp({k \in Keys : InFlight(k) \/ Dimmed(k)}) /\ dimmed' = {}
    /\ wc' = NoStores /\ memalign_src' = Nobody
    /\ ipc' = "create" /\ rebuild' = FALSE /\ rebuild_num' = 0 /\ missed' = {}
    /\ wpc' = [w \in Workers |-> "none"]
    /\ index' = [k \in Keys |-> NoBlock] /\ bitmap' = {} /\ task' = NoTask
    /\ lock' = "free" /\ left' = {}
    /\ mpc' = [t \in Threads |-> "none"] /\ kv' = [t \in Threads |-> NoEntry]
    /\ migrate_buf' = [t \in Threads |-> Junk]
    /\ UNCHANGED <<nvm, ssd>>

-----------------------------------------------------------------------------
(* mix_init_scheduler creates the workers, maps the device, and calls      *)
(* mix_rebuild; when that returns it starts the scheduler.                 *)

Advance(from, to) == ipc = from /\ ipc' = to

CreateWorkers ==
    /\ Advance("create", "mmap")
    /\ wpc' = [w \in Workers |-> "test"]
    /\ UNCHANGED <<device, disk, rebuild, rebuild_num, missed, tables, mutex, movers, history>>

mix_mmap ==
    /\ Advance("mmap", "clear")
    /\ UNCHANGED <<device, disk, rebuild, rebuild_num, missed, wpc, tables, mutex, movers,
                   history>>

(* Error: the loop ends before the last block.                             *)
AllButLast == {<<b, "status", 0>> : b \in Blocks \ {PerBlock - 1}}

(* mix_segment_clear                                                       *)
ClearedMeta == {<<b, "status", 0>> : b \in Blocks}

ClearMetas ==
    /\ Advance("clear", "broadcast")
    /\ Issue("init", ClearedMeta)
    /\ expect' = GivenUp(Keys)
    /\ UNCHANGED <<disk, rebuild, rebuild_num, missed, wpc, tables, mutex, movers, events>>

(* Error: nobody is woken.                                                 *)
NotNotified == wpc

Notified == [w \in Workers |-> IF wpc[w] = "asleep" THEN "test" ELSE wpc[w]]

(* mix_rebuild holds no mutex: a worker between its test and its wait does *)
(* not hear the broadcast.                                                 *)
OpenGate ==
    /\ Advance("broadcast", "spin")
    /\ Drain("init")
    /\ rebuild' = TRUE
    /\ wpc' = Notified
    /\ missed' = {w \in Workers : wpc[w] = "gap"}
    /\ UNCHANGED <<disk, rebuild_num, tables, mutex, movers, history>>

(* Error: one short.                                                       *)
AllButOneRebuilt == rebuild_num >= Cardinality(Workers) - 1

AllRebuilt == rebuild_num >= Cardinality(Workers)

StartScheduler ==
    /\ AllRebuilt
    /\ Advance("spin", "serve")
    /\ UNCHANGED <<device, disk, rebuild, rebuild_num, missed, wpc, tables, mutex, movers,
                   history>>

(* mix_segments_clear runs mix_rebuild again, with the gate open; main.c   *)
(* calls it when every write has been counted.  The index stays.           *)
mix_segments_clear ==
    /\ ipc = "serve" /\ wpc[0] = "idle" /\ lock = "free"
    /\ nvm' = Written(ClearedMeta) /\ dimmed' = Blocks
    /\ UNCHANGED <<wc, disk, boot, wpc, tables, mutex, movers, history>>

-----------------------------------------------------------------------------
(* nvm_worker before its loop.                                             *)

Goto(w, from, to) == wpc[w] = from /\ wpc' = [wpc EXCEPT ![w] = to]
GateOnly == UNCHANGED <<device, disk, boot, tables, mutex, movers, history>>

(* Error: an if stands where the while is.                                 *)
WakeUnasked(w) == Goto(w, "asleep", "rebuild") /\ GateOnly

(* pthread_cond_wait may return without a signal.                          *)
WakeUp(w) == Goto(w, "asleep", "test") /\ GateOnly

Test(w) == Goto(w, "test", IF rebuild THEN "rebuild" ELSE "gap") /\ GateOnly

Sleep(w) == Goto(w, "gap", "asleep") /\ GateOnly

Valid == {b \in Blocks : nvm[b].status = 1}
Holding(k) == {b \in Valid : nvm[b].offset = k}

(* mix_buffer_rebuild: of two valid blocks with one key the later is found.*)
Rebuilt ==
    [k \in Keys |-> IF Holding(k) = {} THEN NoBlock
                    ELSE CHOOSE b \in Holding(k) : \A c \in Holding(k) : c <= b]

Rebuild(w) ==
    /\ Goto(w, "rebuild", "idle")
    /\ IF w = 0 THEN index' = Rebuilt /\ bitmap' = Valid ELSE UNCHANGED <<index, bitmap>>
    /\ rebuild_num' = rebuild_num + 1
    /\ UNCHANGED <<device, disk, ipc, rebuild, missed, task, mutex, movers, history>>

-----------------------------------------------------------------------------
(* Worker 0: small writes, as in NvmWorker.  Without large writes the      *)
(* first clear bit follows the last set one, and the key is indexed.       *)

Receive(r) ==
    /\ events < MaxEvents /\ events' = events + 1
    /\ ipc = "serve"
    /\ task' = r
    /\ Goto(0, "idle", IF index[r.key] # NoBlock THEN "store"
                       ELSE IF bitmap = Blocks THEN "migrate" ELSE "alloc")
    /\ UNCHANGED <<device, disk, boot, index, bitmap, mutex, movers, expect>>

(* Error: the bit after that.                                              *)
SecondFree == {Cardinality(bitmap) + 1}

FirstFree == {b \in Blocks \ bitmap : \A c \in Blocks \ bitmap : b <= c}

Allocate ==
    /\ Goto(0, "alloc", "store")
    /\ \E b \in FirstFree :
        bitmap' = bitmap \cup {b} /\ index' = [index EXCEPT ![task.key] = b]
    /\ UNCHANGED <<device, disk, boot, task, mutex, movers, history>>

(* mix_buffer_write                                                        *)
Store ==
    /\ Goto(0, "store", "count")
    /\ LET b == index[task.key]
       IN  Issue("worker", {<<b, "data", task.buf>>, <<b, "status", 1>>,
                            <<b, "offset", task.key>>})
    /\ UNCHANGED <<disk, boot, tables, mutex, movers, history>>

(* mix_nvm_write_block_completed                                           *)
CountWrite ==
    /\ Goto(0, "count", "idle")
    /\ Drain("worker")
    /\ expect' = [expect EXCEPT ![task.key] = task.buf]
    /\ task' = NoTask
    /\ UNCHANGED <<disk, boot, index, bitmap, mutex, movers, events>>

(* mix_migrate_segment                                                     *)
Lock ==
    /\ wpc[0] = "migrate"
    /\ lock = "free" /\ lock' = "own"
    /\ UNCHANGED <<device, disk, boot, wpc, tables, left, movers, history>>

(* mix_segment_migration_end, with its mix_bitmap_clear, and the unlock.   *)
MigrationEnd ==
    /\ lock = "own" /\ lock' = "free"
    /\ \A k \in Keys : index[k] = NoBlock
    /\ \A t \in Threads : mpc[t] = "none" /\ wc[t] = {}
    /\ Goto(0, "migrate", "alloc")
    /\ bitmap' = {}
    /\ UNCHANGED <<device, disk, boot, index, task, left, movers, history>>

-----------------------------------------------------------------------------
(* Error: the block stays valid.                                           *)
ClearNothing(t, b) == Issue(t, {})

mix_buffer_clear(t, b) == Issue(t, {<<b, "status", 0>>})

(* The workers of other segments migrate theirs when it is full: its       *)
(* entries have each block number once.  The threads clear the blocks of   *)
(* segment 0 that have these numbers; all else they do is not seen here.   *)
(* A thread counts each block with a locked instruction, which empties its *)
(* write buffer before it takes the next (Evict).                          *)

OtherBegin ==
    /\ events < MaxEvents /\ events' = events + 1
    /\ ipc = "serve"
    /\ lock = "free" /\ lock' = "other" /\ left' = Blocks
    /\ UNCHANGED <<device, disk, boot, wpc, tables, movers, expect>>

OtherClear(t, b) ==
    /\ lock = "other" /\ b \in left /\ left' = left \ {b}
    /\ wc[t] = {} /\ mix_buffer_clear(t, b)
    /\ UNCHANGED <<disk, boot, wpc, tables, lock, movers, history>>

OtherEnd ==
    /\ lock = "other" /\ lock' = "free"
    /\ left = {} /\ \A t \in Threads : wc[t] = {}
    /\ UNCHANGED <<device, disk, boot, wpc, tables, left, movers, history>>

(* ssd_worker 0 stages the data of a large write; as long as no thread is  *)
(* about to write from the region that is not seen.                        *)
StageLarge ==
    /\ \E t \in Threads : mpc[t] = "write"
    /\ memalign_src # Nobody /\ memalign_src' = Nobody
    /\ UNCHANGED <<device, ssd, boot, wpc, tables, mutex, movers, history>>

-----------------------------------------------------------------------------
(* The migrate threads.                                                    *)

TakeEntry(t, k) ==
    /\ lock = "own" /\ index[k] # NoBlock
    /\ wc[t] = {} /\ mpc[t] = "none" /\ mpc' = [mpc EXCEPT ![t] = "stage"]
    /\ kv' = [kv EXCEPT ![t] = [key |-> k, value |-> index[k]]]
    /\ migrate_buf' = [migrate_buf EXCEPT ![t] = nvm[index[k]].data]
    /\ index' = [index EXCEPT ![k] = NoBlock]
    /\ UNCHANGED <<device, disk, boot, wpc, bitmap, task, mutex, history>>

(* mix_ssd_write: memcpy                                                   *)
StageSsd(t) ==
    /\ mpc[t] = "stage" /\ mpc' = [mpc EXCEPT ![t] = "write"]
    /\ memalign_src' = t
    /\ UNCHANGED <<device, ssd, boot, wpc, tables, mutex, kv, migrate_buf, history>>

(* mix_ssd_write: pwrite, of what is staged by now.                        *)
WriteSsd(t) ==
    LET own == memalign_src = t
    IN  /\ mpc[t] = "write" /\ mpc' = [mpc EXCEPT ![t] = "clear"]
        /\ ssd' = [k \in Keys |-> IF k # kv[t].key THEN ssd[k]
                                  ELSE IF own THEN migrate_buf[t] ELSE Junk]
        /\ expect' = [k \in Keys |-> IF k = kv[t].key /\ ~own THEN NoPromise ELSE expect[k]]
        /\ memalign_src' = IF own THEN Nobody ELSE memalign_src
        /\ migrate_buf' = [migrate_buf EXCEPT ![t] = Junk]
        /\ UNCHANGED <<device, boot, wpc, tables, mutex, kv, events>>

(* The counts that follow (mix_meta.c:36, :62) empty the write buffer: the *)
(* thread takes nothing else, and the migration does not end, before.      *)
ClearBlock(t) ==
    /\ mpc[t] = "clear" /\ mpc' = [mpc EXCEPT ![t] = "none"]
    /\ mix_buffer_clear(t, kv[t].value)
    /\ kv' = [kv EXCEPT ![t] = NoEntry]
    /\ UNCHANGED <<disk, boot, wpc, tables, mutex, migrate_buf, history>>

-----------------------------------------------------------------------------
StartUp == CreateWorkers \/ mix_mmap \/ ClearMetas \/ OpenGate \/ StartScheduler
PassGate(w) == Test(w) \/ Sleep(w) \/ Rebuild(w)
Serve ==
    (\E r \in Requests : Receive(r)) \/ Allocate \/ Store \/ CountWrite \/ Lock \/ MigrationEnd
Migrate(t) ==
    \/ (\E k \in Keys : TakeEntry(t, k)) \/ (\E b \in Blocks : OtherClear(t, b))
    \/ StageSsd(t) \/ WriteSsd(t) \/ ClearBlock(t)

Next ==
    \/ StartUp \/ mix_segments_clear \/ Serve \/ OtherBegin \/ OtherEnd \/ StageLarge
    \/ PowerFails
    \/ \E w \in Workers : PassGate(w) \/ WakeUp(w)
    \/ \E t \in Threads : Migrate(t)
    \/ \E t \in Writers : Evict(t) \/ Tear(t)

Spec == Init /\ [][Next]_vars

(* Every thread that can go on does so in the end; a sleeper need not.     *)
FairSpec == Spec /\ WF_vars(StartUp) /\ \A w \in Workers : WF_vars(PassGate(w))

-----------------------------------------------------------------------------
(* No worker looks at the device before it is mapped, nor at the metas     *)
(* before all of them have reached the device as cleared.                  *)
RebuildsFromCleared ==
    \A w \in Workers : wpc[w] = "rebuild" => ipc \notin {"create", "mmap"} /\ Valid = {}

(* When the scheduler hands out tasks every segment has been rebuilt.      *)
ServesRebuilt == ipc = "serve" => \A w \in Workers : wpc[w] \notin AtGate

(* "The data are migrated first, then the self-description is cleared": at *)
(* any moment the power may fail, and what was last counted of a key of    *)
(* segment 0 is in a valid block of its own or on the ssd.  Excepted are,  *)
(* besides what start-up clears, three cases in which the code does not    *)
(* keep it: a key whose block is being overwritten in place (its data may  *)
(* be torn, against mix_meta.c:165), a key whose block was cleared by a    *)
(* migration of another segment or by the client (dimmed), and a key that  *)
(* got other data on the ssd through the shared staging region, whose      *)
(* write is given up (NoPromise).                                          *)
CountedIsDurable ==
    \A k \in Keys : (expect[k] \in Values /\ ~InFlight(k) /\ ~Dimmed(k)) =>
        \/ ssd[k] = expect[k]
        \/ \E b \in Holding(k) : nvm[b].data = expect[k]

(* A block torn by a power failure, or valid with the key it held before   *)
(* and the data of another, is never indexed.                              *)
IndexedIsCounted ==
    \A k \in Keys : (index[k] # NoBlock /\ expect[k] \in Values
                     /\ ~(wpc[0] \in {"store", "count"} /\ task.key = k))
                       => nvm[index[k]].data = expect[k]

(* Between two writes the bits are those of the indexed blocks, and of     *)
(* these exactly the ones are valid, each under its key, that were not     *)
(* cleared from outside since they were written: by a migration of another *)
(* segment, which misses its own blocks and hits these (mix_meta.c:35), or *)
(* by mix_segments_clear.  A rebuild would give back those and no others.  *)
BlocksDescribeIndex ==
    (ipc = "serve" /\ wpc[0] = "idle") =>
        /\ bitmap = {index[k] : k \in Keys} \ {NoBlock}
        /\ Valid = bitmap \ dimmed
        /\ \A k \in Keys : Rebuilt[k] = IF index[k] \in dimmed THEN NoBlock ELSE index[k]

(* A start that all workers hear of ends with the scheduler running.       *)
StartEnds == ipc = "create" ~> (ipc = "serve" \/ missed # {})

(* "After a restart of the application the index is built anew": nothing   *)
(* that was counted is given up on the way.                                *)
StartForgetsNothing ==
    [][ipc # "serve" => \A k \in Keys : expect'[k] = NoPromise => expect[k] = NoPromise]_vars

=============================================================================
