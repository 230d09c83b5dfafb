------------------------------ MODULE Scheduler ------------------------------
(***************************************************************************)
(* The way of a task through MIXDK: a client posts it to its submit queue, *)
(* the scheduler thread polls the submit queues in turn, sends a task for  *)
(* the nvm to nvm_queue[queue_idx] and cuts a task for the ssd into the    *)
(* stripes of buffer_queue; nvm_worker w serves nvm_queue[w] and           *)
(* buffer_queue[w] in turn and hands what goes to the device to            *)
(* ssd_queue[w], which ssd_worker w serves.  A write is counted where it   *)
(* is served, a read adds the blocks served to the client's counter ret,   *)
(* on which the client spins.                                              *)
(*                                                                         *)
(* The queues are the bounded FIFOs of FifoQueue, which MixQueue           *)
(* implements: an enqueue waits for room as the mix_post_task_to_ loops do. *)
(* Data, and with them the index and the migration (module NvmWorker), are *)
(* left out: which blocks of a read are in the buffer is left open, and a  *)
(* small write is one step that ends.  Each submit queue has one client.   *)
(***************************************************************************)
EXTENDS Integers, Sequences, FiniteSetsExt, SequencesExt, Sums

CONSTANTS SubmitNum,   \* submit_queue_num
          QueueNum,    \* BUFFER_QUEUE_NUM = NVM_QUEUE_NUM = SSD_QUEUE_NUM, 4
          Threshold,   \* scheduler.c's: the first block of the ssd
          SmallWrite,  \* nvm_worker.c's threshold: the longest write buffered
          StripeSize,  \* blocks in a stripe, 4
          Capacity,    \* tasks in a queue
          Requests,    \* what clients ask for: op, offset (block), len
          MaxTasks     \* bound: the tasks all clients post

(* mixdk_init takes up to 16 submit queues, of which nvm_queue[queue_idx]  *)
(* has room for QueueNum.                                                  *)
ASSUME SchedulerConstants ==
    /\ SubmitNum \in 1 .. 16 /\ QueueNum \in Nat /\ SubmitNum <= QueueNum
    /\ {Threshold, SmallWrite, StripeSize, Capacity, MaxTasks} \subseteq Nat \ {0}
    /\ Requests \subseteq [op : {"read", "write"}, offset : Nat, len : Nat \ {0}]

Clients == 0 .. SubmitNum - 1
Workers == 0 .. QueueNum - 1

VARIABLES
    pc,           \* per client: idle, in mix_post_task_to_io, or waiting
    task,         \* per client: its task
    ret,          \* per client: *task->ret of its read
    posted,       \* per client: tasks so far, which numbers them
    submitQueue,  \* per client: the queue to the scheduler
    idx,          \* the scheduler: the queue it polls next
    toPost,       \* the scheduler: what it has yet to enqueue of its task
    nvmQueue, bufferQueue, ssdQueue,
    seq,          \* per nvm_worker: seq & mask
    hand,         \* per nvm_worker: its task, <<>> for none
    ssdTask,      \* per ssd_worker: its task, <<>> for none
    completedNvm, completedSsd, completedRead,   \* the counters
    accepted,     \* history: the blocks of all writes that were enqueued
    unplaced      \* history: those of them that do_schedule let go

client == <<pc, task, ret, posted, completedRead>>
scheduler == <<idx, toPost, unplaced>>
nvm == <<seq, hand, completedNvm>>
ssd == <<ssdTask, completedSsd>>
vars == <<client, submitQueue, scheduler, nvmQueue, bufferQueue, nvm, ssdQueue, ssd, accepted>>

(* io_task_t without buf.  id is the number of the task among those of its *)
(* client, which is queue_idx; to is the worker a part is for.             *)
Task == [op : {"read", "write"}, type : {"none", "nvm", "ssd"}, offset : Nat, len : Nat,
         queue_idx : Clients, id : Nat, to : Workers]

NoTask == [op |-> "write", type |-> "none", offset |-> 0, len |-> 0,
           queue_idx |-> 0, id |-> 0, to |-> 0]

IsQueue(q) == q \in Seq(Task) /\ Len(q) <= Capacity

TypeOK ==
    /\ pc \in [Clients -> {"idle", "post", "wait"}]
    /\ task \in [Clients -> Task]
    /\ ret \in [Clients -> Nat]
    /\ posted \in [Clients -> 0 .. MaxTasks]
    /\ idx \in Clients
    /\ toPost \in Seq(Task)
    /\ \A c \in Clients : IsQueue(submitQueue[c])
    /\ seq \in [Workers -> BOOLEAN]
    /\ \A w \in Workers :
        /\ IsQueue(nvmQueue[w]) /\ IsQueue(bufferQueue[w]) /\ IsQueue(ssdQueue[w])
        /\ ssdTask[w] \in Seq(Task) /\ Len(ssdTask[w]) <= 1
        /\ hand[w] \in Seq([task : Task, misses : Seq(Task), hits : Nat])
        /\ Len(hand[w]) <= 1
    /\ {completedNvm, completedSsd, completedRead, accepted, unplaced} \subseteq Nat

Init ==
    /\ pc = [c \in Clients |-> "idle"]
    /\ task = [c \in Clients |-> NoTask]
    /\ ret = [c \in Clients |-> 0] /\ posted = [c \in Clients |-> 0]
    /\ submitQueue = [c \in Clients |-> <<>>]
    /\ idx = 0 /\ toPost = <<>>
    /\ nvmQueue = [w \in Workers |-> <<>>]
    /\ bufferQueue = [w \in Workers |-> <<>>]
    /\ ssdQueue = [w \in Workers |-> <<>>]
    /\ seq = [w \in Workers |-> FALSE] /\ hand = [w \in Workers |-> <<>>]
    /\ ssdTask = [w \in Workers |-> <<>>]
    /\ completedNvm = 0 /\ completedSsd = 0 /\ completedRead = 0
    /\ accepted = 0 /\ unplaced = 0

WriteLen(t) == IF t.op = "write" THEN t.len ELSE 0

-----------------------------------------------------------------------------
(* Clients                                                                 *)

(* mixdk_write and mixdk_read, up to the loop of mix_post_task_to_io.  The *)
(* type of the task is not set.                                            *)
Request(c, r) ==
    /\ pc[c] = "idle"
    /\ SumBelow(SubmitNum, posted) < MaxTasks
    /\ posted' = [posted EXCEPT ![c] = @ + 1]
    /\ task' = [task EXCEPT ![c] = [op |-> r.op, type |-> "none", offset |-> r.offset, len |-> r.len,
                                    queue_idx |-> c, id |-> posted'[c], to |-> c]]
    /\ ret' = [ret EXCEPT ![c] = 0]
    /\ pc' = [pc EXCEPT ![c] = "post"]
    /\ UNCHANGED <<completedRead, submitQueue, scheduler, nvmQueue, bufferQueue, nvm, ssdQueue, ssd, accepted>>

(* The enqueue that succeeds.  mixdk_write returns, mixdk_read waits.      *)
Submit(c) ==
    /\ pc[c] = "post"
    /\ Len(submitQueue[c]) < Capacity
    /\ submitQueue' = [submitQueue EXCEPT ![c] = Append(@, task[c])]
    /\ accepted' = accepted + WriteLen(task[c])
    /\ pc' = [pc EXCEPT ![c] = IF task[c].op = "write" THEN "idle" ELSE "wait"]
    /\ UNCHANGED <<task, ret, posted, completedRead, scheduler, nvmQueue, bufferQueue, nvm, ssdQueue, ssd>>

(* mix_wait_for_task_completed, and the frees of mixdk_read                *)
ReadReturns(c) ==
    /\ pc[c] = "wait"
    /\ ret[c] >= task[c].len
    /\ completedRead' = completedRead + 1
    /\ pc' = [pc EXCEPT ![c] = "idle"]
    /\ UNCHANGED <<task, ret, posted, submitQueue, scheduler, nvmQueue, bufferQueue, nvm, ssdQueue, ssd, accepted>>

-----------------------------------------------------------------------------
(* The scheduler thread                                                    *)

(* a & b for a, b < 32                                                     *)
And(a, b) ==
    LET Bit(n, k) == (n \div k) % 2 = 1
        Both(k) == IF Bit(a, k) /\ Bit(b, k) THEN k ELSE 0
    IN  Both(1) + Both(2) + Both(4) + Both(8) + Both(16)

(* Error: the mask is the number of queues.                                *)
NextQueueUnmasked(i) == And(i + 1, SubmitNum)

(* Error: the index is not masked.                                        *)
NextQueueEndless(i) == i + 1

(* idx = (idx + 1) & mask                                                  *)
NextQueue(i) == And(i + 1, SubmitNum - 1)

(* handle_task.  A task that ends at the threshold or beyond it and begins *)
(* before it falls through both conditions and keeps a type that nobody    *)
(* set: whatever byte was in the memory of the client's task.              *)
HandledTasks(t) ==
    IF t.offset + t.len < Threshold THEN {[t EXCEPT !.type = "nvm"]}
    ELSE IF t.offset >= Threshold
         THEN {[t EXCEPT !.type = "ssd", !.offset = @ - Threshold]}
         ELSE {[t EXCEPT !.type = y] : y \in {"none", "nvm", "ssd"}}

Stripe(block) == block \div StripeSize
Home(block) == Stripe(block) % QueueNum

(* Error: every part is a whole stripe long, also the first.               *)
StripesUnaligned(t) ==
    [k \in 1 .. (t.len + StripeSize - 1) \div StripeSize |->
        LET first == t.offset + (k - 1) * StripeSize
        IN  [t EXCEPT !.offset = first,
                      !.len = Min({StripeSize, t.offset + t.len - first}),
                      !.to = (Home(t.offset) + k - 1) % QueueNum]]

(* mix_post_task_to_buffer: the parts of a task, one for each stripe, for  *)
(* the buffer_queues in turn from that of the first stripe on.             *)
Stripes(t) ==
    [k \in 1 .. Stripe(t.offset + t.len - 1) - Stripe(t.offset) + 1 |->
        LET stripe == Stripe(t.offset) + k - 1
            first == Max({t.offset, stripe * StripeSize})
            end == Min({t.offset + t.len, (stripe + 1) * StripeSize})
        IN  [t EXCEPT !.offset = first, !.len = end - first,
                      !.to = (Home(t.offset) + k - 1) % QueueNum]]

(* Error: do_schedule sends a task for the nvm to the queues by turns.     *)
PartsInTurn(t) ==
    CASE t.type = "nvm" -> <<[t EXCEPT !.to = (t.queue_idx + t.id) % QueueNum]>>
      [] t.type = "ssd" -> Stripes(t)
      [] OTHER -> <<>>

(* do_schedule                                                             *)
Parts(t) ==
    CASE t.type = "nvm" -> <<t>>
      [] t.type = "ssd" -> Stripes(t)
      [] OTHER -> <<>>

(* One round of the loop of scheduler() until the first enqueue.           *)
Poll ==
    /\ toPost = <<>>
    /\ idx' = NextQueue(idx)
    /\ \/ submitQueue[idx] = <<>> /\ UNCHANGED <<submitQueue, toPost, unplaced>>
       \/ /\ submitQueue[idx] # <<>>
          /\ submitQueue' = [submitQueue EXCEPT ![idx] = Tail(@)]
          /\ \E t \in HandledTasks(Head(submitQueue[idx])) :
                /\ toPost' = Parts(t)
                /\ unplaced' = unplaced + IF t.type = "none" THEN WriteLen(t) ELSE 0
    /\ UNCHANGED <<client, nvmQueue, bufferQueue, nvm, ssdQueue, ssd, accepted>>

(* mix_post_task_to_nvm                                                    *)
PostToNvm ==
    /\ toPost # <<>>
    /\ LET t == Head(toPost) IN
        /\ t.type = "nvm"
        /\ Len(nvmQueue[t.to]) < Capacity
        /\ nvmQueue' = [nvmQueue EXCEPT ![t.to] = Append(@, t)]
    /\ toPost' = Tail(toPost)
    /\ UNCHANGED <<client, submitQueue, idx, unplaced, bufferQueue, nvm, ssdQueue, ssd, accepted>>

(* One round of the loop of mix_post_task_to_buffer                        *)
PostToBuffer ==
    /\ toPost # <<>>
    /\ LET t == Head(toPost) IN
        /\ t.type = "ssd"
        /\ Len(bufferQueue[t.to]) < Capacity
        /\ bufferQueue' = [bufferQueue EXCEPT ![t.to] = Append(@, t)]
    /\ toPost' = Tail(toPost)
    /\ UNCHANGED <<client, submitQueue, idx, unplaced, nvmQueue, nvm, ssdQueue, ssd, accepted>>

SchedulerStep == Poll \/ PostToNvm \/ PostToBuffer

-----------------------------------------------------------------------------
(* nvm_worker w                                                            *)

(* The elements of a set of numbers, the least one first.                  *)
Ascending(S) ==
    [k \in 1 .. Cardinality(S) |-> CHOOSE b \in S : Cardinality({c \in S : c <= b}) = k]

(* Error: the run that ends with the task is not posted after the loop.    *)
RunsUnflushed(t, missing) ==
    LET starts == Ascending({b \in missing : b - 1 \notin missing})
        RunLen(b) == Min({n \in 1 .. t.len : b + n \notin missing})
    IN  SelectSeq([k \in DOMAIN starts |-> [t EXCEPT !.offset = starts[k], !.len = RunLen(starts[k])]],
                  LAMBDA r : r.offset + r.len < t.offset + t.len)

(* redirect_read: the blocks that are not in the buffer, as one task for   *)
(* every run of neighbours.                                                *)
Runs(t, missing) ==
    LET starts == Ascending({b \in missing : b - 1 \notin missing})
        RunLen(b) == Min({n \in 1 .. t.len : b + n \notin missing})
    IN  [k \in DOMAIN starts |-> [t EXCEPT !.offset = starts[k], !.len = RunLen(starts[k])]]

(* What the worker has to do for a task it took.  Only a read of the ssd   *)
(* looks for its blocks in the buffer.                                     *)
Errands(t) ==
    IF t.type = "ssd" /\ t.op = "read"
    THEN {[task |-> t, misses |-> Runs(t, missing), hits |-> t.len - Cardinality(missing)] :
             missing \in SUBSET (t.offset .. t.offset + t.len - 1)}
    ELSE {[task |-> t, misses |-> <<>>, hits |-> 0]}

(* Error: seq is only advanced when there was a task.                      *)
TakeSticky(w) ==
    /\ hand[w] = <<>>
    /\ LET q == IF seq[w] THEN nvmQueue[w] ELSE bufferQueue[w] IN
        /\ q # <<>>
        /\ \E e \in Errands(Head(q)) : hand' = [hand EXCEPT ![w] = <<e>>]
        /\ nvmQueue' = IF seq[w] THEN [nvmQueue EXCEPT ![w] = Tail(@)] ELSE nvmQueue
        /\ bufferQueue' = IF seq[w] THEN bufferQueue ELSE [bufferQueue EXCEPT ![w] = Tail(@)]
    /\ seq' = [seq EXCEPT ![w] = ~@]
    /\ UNCHANGED <<client, submitQueue, scheduler, completedNvm, ssdQueue, ssd, accepted>>

(* get_task_from_nvm_queue and get_task_from_buffer_queue, by turns        *)
Take(w) ==
    /\ hand[w] = <<>>
    /\ seq' = [seq EXCEPT ![w] = ~@]
    /\ LET q == IF seq[w] THEN nvmQueue[w] ELSE bufferQueue[w] IN
        \/ q = <<>> /\ UNCHANGED <<hand, nvmQueue, bufferQueue>>
        \/ /\ q # <<>>
           /\ \E e \in Errands(Head(q)) : hand' = [hand EXCEPT ![w] = <<e>>]
           /\ nvmQueue' = IF seq[w] THEN [nvmQueue EXCEPT ![w] = Tail(@)] ELSE nvmQueue
           /\ bufferQueue' = IF seq[w] THEN bufferQueue ELSE [bufferQueue EXCEPT ![w] = Tail(@)]
    /\ UNCHANGED <<client, submitQueue, scheduler, completedNvm, ssdQueue, ssd, accepted>>

(* Whether the counter ret of the task t is still allocated.               *)
Awaited(t) == pc[t.queue_idx] = "wait" /\ task[t.queue_idx].id = t.id

(* atomic_fetch_add_explicit(task->ret, n, ...).  Adding to a counter that *)
(* is freed shows in no counter.                                           *)
AddToRet(t, n) == ret' = IF Awaited(t) THEN [ret EXCEPT ![t.queue_idx] = @ + n] ELSE ret

(* A task of the nvm is served at once.                                    *)
ServeNvm(w) ==
    /\ hand[w] # <<>>
    /\ LET t == Head(hand[w]).task IN
        /\ t.type = "nvm"
        /\ \/ t.op = "write" /\ completedNvm' = completedNvm + t.len /\ UNCHANGED ret
           \/ t.op = "read" /\ AddToRet(t, t.len) /\ UNCHANGED completedNvm
    /\ hand' = [hand EXCEPT ![w] = <<>>]
    /\ UNCHANGED <<pc, task, posted, completedRead, submitQueue, scheduler, nvmQueue, bufferQueue,
                   seq, ssdQueue, ssd, accepted>>

(* redirect_write for a small write: it ends in the buffer.                *)
RedirectSmallWrite(w) ==
    /\ hand[w] # <<>>
    /\ LET t == Head(hand[w]).task IN
        /\ t.type = "ssd" /\ t.op = "write" /\ t.len <= SmallWrite
        /\ completedNvm' = completedNvm + t.len
    /\ hand' = [hand EXCEPT ![w] = <<>>]
    /\ UNCHANGED <<client, submitQueue, scheduler, nvmQueue, bufferQueue, seq, ssdQueue, ssd, accepted>>

(* Error: the worker counts a large write that the ssd_worker will count.  *)
RedirectLargeWriteCounted(w) ==
    /\ hand[w] # <<>>
    /\ LET t == Head(hand[w]).task IN
        /\ t.type = "ssd" /\ t.op = "write" /\ t.len > SmallWrite
        /\ Len(ssdQueue[w]) < Capacity
        /\ ssdQueue' = [ssdQueue EXCEPT ![w] = Append(@, t)]
        /\ completedNvm' = completedNvm + t.len
    /\ hand' = [hand EXCEPT ![w] = <<>>]
    /\ UNCHANGED <<client, submitQueue, scheduler, nvmQueue, bufferQueue, seq, ssd, accepted>>

(* redirect_write for a large write: posted to the ssd, 0 is counted here. *)
RedirectLargeWrite(w) ==
    /\ hand[w] # <<>>
    /\ LET t == Head(hand[w]).task IN
        /\ t.type = "ssd" /\ t.op = "write" /\ t.len > SmallWrite
        /\ Len(ssdQueue[w]) < Capacity
        /\ ssdQueue' = [ssdQueue EXCEPT ![w] = Append(@, t)]
    /\ hand' = [hand EXCEPT ![w] = <<>>]
    /\ UNCHANGED <<client, submitQueue, scheduler, nvmQueue, bufferQueue, seq, completedNvm, ssd, accepted>>

(* redirect_read posts the next run of blocks that are not in the buffer.  *)
RedirectReadMiss(w) ==
    /\ hand[w] # <<>> /\ Head(hand[w]).misses # <<>>
    /\ Len(ssdQueue[w]) < Capacity
    /\ ssdQueue' = [ssdQueue EXCEPT ![w] = Append(@, Head(Head(hand[w]).misses))]
    /\ hand' = [hand EXCEPT ![w][1].misses = Tail(@)]
    /\ UNCHANGED <<client, submitQueue, scheduler, nvmQueue, bufferQueue, seq, completedNvm, ssd, accepted>>

(* redirect_read returned the number of blocks it read from the buffer.    *)
RedirectReadDone(w) ==
    /\ hand[w] # <<>>
    /\ LET e == Head(hand[w]) IN
        /\ e.task.type = "ssd" /\ e.task.op = "read" /\ e.misses = <<>>
        /\ AddToRet(e.task, e.hits)
    /\ hand' = [hand EXCEPT ![w] = <<>>]
    /\ UNCHANGED <<pc, task, posted, completedRead, submitQueue, scheduler, nvmQueue, bufferQueue,
                   seq, completedNvm, ssdQueue, ssd, accepted>>

NvmWorkerStep(w) ==
    Take(w) \/ ServeNvm(w) \/ RedirectSmallWrite(w) \/ RedirectLargeWrite(w)
        \/ RedirectReadMiss(w) \/ RedirectReadDone(w)

-----------------------------------------------------------------------------
(* ssd_worker w                                                            *)

(* get_task_from_ssd_queue                                                 *)
TakeSsd(w) ==
    /\ ssdTask[w] = <<>> /\ ssdQueue[w] # <<>>
    /\ ssdTask' = [ssdTask EXCEPT ![w] = <<Head(ssdQueue[w])>>]
    /\ ssdQueue' = [ssdQueue EXCEPT ![w] = Tail(@)]
    /\ UNCHANGED <<client, submitQueue, scheduler, nvmQueue, bufferQueue, nvm, completedSsd, accepted>>

ServeSsd(w) ==
    /\ ssdTask[w] # <<>>
    /\ LET t == Head(ssdTask[w]) IN
        \/ t.op = "write" /\ completedSsd' = completedSsd + t.len /\ UNCHANGED ret
        \/ t.op = "read" /\ AddToRet(t, t.len) /\ UNCHANGED completedSsd
    /\ ssdTask' = [ssdTask EXCEPT ![w] = <<>>]
    /\ UNCHANGED <<pc, task, posted, completedRead, submitQueue, scheduler, nvmQueue, bufferQueue,
                   nvm, ssdQueue, accepted>>

SsdWorkerStep(w) == TakeSsd(w) \/ ServeSsd(w)

-----------------------------------------------------------------------------
Next ==
    \/ \E c \in Clients : (\E r \in Requests : Request(c, r)) \/ Submit(c) \/ ReadReturns(c)
    \/ SchedulerStep
    \/ \E w \in Workers : NvmWorkerStep(w) \/ SsdWorkerStep(w)

Spec == Init /\ [][Next]_vars

(* Every thread is a pthread that spins: a client that is in a call goes   *)
(* on with it; what a client asks for, and whether, is its own affair.     *)
Fairness ==
    /\ \A c \in Clients : WF_vars(Submit(c)) /\ WF_vars(ReadReturns(c))
    /\ WF_vars(SchedulerStep)
    /\ \A w \in Workers : WF_vars(NvmWorkerStep(w)) /\ WF_vars(SsdWorkerStep(w))

FairSpec == Spec /\ Fairness

-----------------------------------------------------------------------------
(* get_completed_task_num without the reads                                *)
CompletedWrites == completedNvm + completedSsd

(* The blocks nvm_worker w has yet to serve or to post of what it took     *)
InHand(w) ==
    IF hand[w] = <<>> THEN <<>>
    ELSE LET e == Head(hand[w])
         IN  IF e.task.type = "ssd" /\ e.task.op = "read"
             THEN Append(e.misses, [e.task EXCEPT !.len = e.hits])
             ELSE <<e.task>>

(* Tasks past the submit queues that no nvm_worker took yet                *)
Untaken == ToSet(toPost) \cup UNION {ToSet(nvmQueue[w]) \cup ToSet(bufferQueue[w]) : w \in Workers}

(* The blocks of those tasks of a queue that are in T                      *)
BlocksIn(q, T) ==
    SumBelow(Len(q), [i \in 0 .. Len(q) - 1 |-> IF q[i + 1] \in T THEN q[i + 1].len ELSE 0])

(* At nvm_worker w and ssd_worker w                                        *)
BlocksAt(w, T) ==
    BlocksIn(nvmQueue[w], T) + BlocksIn(bufferQueue[w], T) + BlocksIn(InHand(w), T)
        + BlocksIn(ssdQueue[w], T) + BlocksIn(ssdTask[w], T)

(* The blocks of the tasks in T that were submitted and are not served     *)
InFlight(T) ==
    SumBelow(SubmitNum, [c \in Clients |-> BlocksIn(submitQueue[c], T)])
        + BlocksIn(toPost, T)
        + SumBelow(QueueNum, [w \in Workers |-> BlocksAt(w, T)])

Writes == {t \in Task : t.op = "write"}
Reads(c, i) == {t \in Task : t.op = "read" /\ t.queue_idx = c /\ t.id = i}

(* main.c takes mix_completed_task_num() = task_num for the end of all its *)
(* writes and reuses their buffer: a written block is counted once, by the *)
(* nvm_worker or by the ssd_worker, and not before it is served, whatever  *)
(* stripes, queues and full queues it went through.                        *)
EveryWriteCountedOnce ==
    accepted = CompletedWrites + unplaced + InFlight(Writes)

(* handle_task finds the device of a task.                                 *)
Placed(t) == t.offset + t.len < Threshold \/ t.offset >= Threshold

(* mixdk_read returns, and frees ret, only when all blocks it asked for    *)
(* were read: no block of its i-th task is in flight, or will be added to  *)
(* ret, unless the client still waits for it and lacks exactly these       *)
(* blocks.                                                                 *)
ReadIsWhole ==
    \A c \in Clients, i \in 1 .. MaxTasks :
        IF pc[c] = "wait" /\ i = posted[c]
        THEN Placed(task[c]) => ret[c] + InFlight(Reads(c, i)) = task[c].len
        ELSE InFlight(Reads(c, i)) = 0

(* Every key of the ssd has one nvm_worker, whose segment alone indexes    *)
(* it: a part never reaches a worker that is not the home of all its       *)
(* blocks, wherever a task begins and ends.                                *)
HomeServes ==
    \A w \in Workers :
        \A t \in ToSet(bufferQueue[w] \o InHand(w) \o ssdQueue[w] \o ssdTask[w]) :
            t.type = "ssd" => \A b \in t.offset .. t.offset + t.len - 1 : Home(b) = w

(* Two tasks of a client that touch the same block are taken in the order  *)
(* the client posted them, although they may go to different threads: no   *)
(* task a worker has in hand overlaps an earlier one that waits somewhere. *)
InOrder ==
    \A w \in Workers : hand[w] # <<>> =>
        LET t == Head(hand[w]).task
            Earlier(u) == u.queue_idx = t.queue_idx /\ u.id < t.id
            Overlaps(u) == /\ u.type = t.type
                           /\ u.offset < t.offset + t.len
                           /\ t.offset < u.offset + u.len
            others == UNION {ToSet(InHand(v)) : v \in Workers \ {w}}
        IN  /\ \A u \in ToSet(submitQueue[t.queue_idx]) : ~Earlier(u)
            /\ \A u \in Untaken \cup others : ~(Earlier(u) /\ Overlaps(u))

(* The loop of main.c ends: once the clients have nothing more to write,   *)
(* the count reaches what they wrote, less what do_schedule let go.  This  *)
(* takes that every submit queue is polled and no circle of full queues    *)
(* keeps the threads waiting for each other.                               *)
WritesComplete == []<>(accepted = CompletedWrites + unplaced)

(* mix_wait_for_task_completed ends for every read whose device            *)
(* handle_task finds.                                                      *)
ReadsReturn ==
    \A c \in Clients : (pc[c] = "wait" /\ Placed(task[c])) ~> (pc[c] # "wait")
=============================================================================
