------------------------------ MODULE MixQueue ------------------------------
(***************************************************************************)
(* The ring buffer of mix_queue.c between one producer and one consumer    *)
(* thread.  Every queue of MIXDK is used that way: a submit queue between  *)
(* a client and the scheduler, nvm_queue and buffer_queue between the      *)
(* scheduler and an nvm_worker, ssd_queue between an nvm_worker and an     *)
(* ssd_worker.  There is no lock: the two sides share the counters in and  *)
(* out, unsigned ints that are never reduced to the ring's size and wrap   *)
(* at Wrap (2^32 in the code).                                             *)
(*                                                                         *)
(* Every caller passes len = 1 and, on the producing side, calls again     *)
(* until mix_enqueue returns 1 (the mix_post_task_to functions), so the length *)
(* that is transferred is 0 or 1 and a copy never runs over the end of the *)
(* ring.  Returning 0 changes nothing, so it is a stuttering step.         *)
(***************************************************************************)
EXTENDS Integers, Sequences

CONSTANTS Task,    \* the io_task_t values
          Size,    \* mask + 1, the number of slots
          Wrap,    \* 2^32, where the counters wrap
          NoTask   \* the content of a slot or a buffer before it is written

(* __mix_queue_init rounds the size up to a power of two and refuses fewer *)
(* than two slots; a power of two below 2^32 divides 2^32.                 *)
ASSUME QueueSizes ==
    /\ Size \in Nat /\ Size >= 2
    /\ Wrap \in Nat /\ Size < Wrap
    /\ Wrap % Size = 0

VARIABLES in, out,   \* the two counters
          data,      \* the slots
          ppc, src,  \* the producer: where it is in mix_enqueue, and *src
          cpc, dst,  \* the consumer: where it is in mix_dequeue, and *dst
          got        \* the task the last successful mix_dequeue returned

vars == <<in, out, data, ppc, src, cpc, dst, got>>

Slots == 0 .. Size - 1
Counter == 0 .. Wrap - 1

TypeOK ==
    /\ in \in Counter /\ out \in Counter
    /\ data \in [Slots -> Task \cup {NoTask}]
    /\ ppc \in {"idle", "check", "copy", "publish"}
    /\ src \in Task \cup {NoTask}
    /\ cpc \in {"check", "copy", "release"}
    /\ dst \in Task \cup {NoTask}
    /\ got \in Task \cup {NoTask}

-----------------------------------------------------------------------------
(* queue->in - queue->out in unsigned arithmetic.                          *)
Count == (in - out) % Wrap

(* Error: size + 1 slots taken for the capacity.                           *)
UnusedOffByOne == (Size + 1 - Count) % Wrap

(* __mix_queue_unused                                                      *)
Unused == (Size - Count) % Wrap

(* off &= queue->mask                                                      *)
Slot(off) == off % Size

(* Error: a counter that does not wrap.                                    *)
AdvanceNoWrap(counter) == counter + 1

(* queue->in += len and queue->out += len                                  *)
Advance(counter) == (counter + 1) % Wrap

Init ==
    /\ in = 0 /\ out = 0
    /\ data = [i \in Slots |-> NoTask]
    /\ ppc = "idle" /\ src = NoTask
    /\ cpc = "check" /\ dst = NoTask /\ got = NoTask

consumer == <<out, cpc, dst, got>>
producer == <<in, data, ppc, src>>

(* The caller enters its while (!mix_enqueue(queue, task, 1)) loop.        *)
Post(t) ==
    /\ ppc = "idle"
    /\ ppc' = "check" /\ src' = t
    /\ UNCHANGED <<in, data, consumer>>

EnqueueCheck ==
    /\ ppc = "check"
    /\ Unused # 0
    /\ ppc' = "copy"
    /\ UNCHANGED <<in, data, src, consumer>>

(* Error: in is published before the task is copied.                       *)
EnqueueCopyTooLate ==
    /\ ppc = "copy"
    /\ in' = Advance(in)
    /\ ppc' = "idle"
    /\ UNCHANGED <<data, src, consumer>>

EnqueueCopy ==
    /\ ppc = "copy"
    /\ data' = [data EXCEPT ![Slot(in)] = src]
    /\ ppc' = "publish"
    /\ UNCHANGED <<in, src, consumer>>

EnqueuePublish ==
    /\ ppc = "publish"
    /\ in' = Advance(in)
    /\ ppc' = "idle"
    /\ UNCHANGED <<data, src, consumer>>

(* Error: the counters compared as if they never wrapped.                  *)
DequeueCheckNoWrap ==
    /\ cpc = "check"
    /\ in > out
    /\ cpc' = "copy"
    /\ UNCHANGED <<out, dst, got, producer>>

DequeueCheck ==
    /\ cpc = "check"
    /\ Count # 0
    /\ cpc' = "copy"
    /\ UNCHANGED <<out, dst, got, producer>>

DequeueCopy ==
    /\ cpc = "copy"
    /\ dst' = data[Slot(out)]
    /\ cpc' = "release"
    /\ UNCHANGED <<out, got, producer>>

DequeueRelease ==
    /\ cpc = "release"
    /\ out' = Advance(out)
    /\ got' = dst
    /\ cpc' = "check"
    /\ UNCHANGED <<dst, producer>>

Producer == (\E t \in Task : Post(t)) \/ EnqueueCheck \/ EnqueueCopy \/ EnqueuePublish
Consumer == DequeueCheck \/ DequeueCopy \/ DequeueRelease
Next == Producer \/ Consumer

Spec == Init /\ [][Next]_vars

(* Both threads run on their own pthread and never block: the consumer     *)
(* polls for ever, and a producer that has entered mix_enqueue goes on.    *)
(* Whether a client posts another task is its own affair.                  *)
Fairness ==
    /\ WF_vars(EnqueueCheck) /\ WF_vars(EnqueueCopy) /\ WF_vars(EnqueuePublish)
    /\ WF_vars(Consumer)

FairSpec == Spec /\ Fairness

-----------------------------------------------------------------------------
(* The tasks in the ring, oldest first: the refinement mapping.            *)
Contents == [i \in 1 .. Count |-> data[Slot(out + i - 1)]]

Fifo == INSTANCE FifoQueue WITH Capacity <- Size, q <- Contents

(* The ring is a FIFO of Size tasks: nothing is lost, duplicated or        *)
(* reordered by mix_enqueue and mix_dequeue racing each other, also when   *)
(* the counters wrap.                                                      *)
FifoSpec == Fifo!Spec

(* The slot mix_enqueue is copying a task into is never the one            *)
(* mix_dequeue is copying a task out of, whatever stale value of the other *)
(* counter each of them made its check with.                               *)
NoOverrun ==
    (ppc \in {"copy", "publish"} /\ cpc \in {"copy", "release"})
        => Slot(in) # Slot(out)

(* mix_post_task_to_ssd's while (!mix_enqueue(...)) loop ends: a full ring   *)
(* is always drained, even after the counters wrapped.                     *)
PostReturns == ppc = "check" ~> ppc = "idle"

(* The inductive invariant behind NoOverrun and FifoSpec: the counters are *)
(* never further apart than the ring is long, each side's check is still   *)
(* true when it acts on it, and the slot being filled, respectively        *)
(* emptied, holds the task the side has in hand.                           *)
RingInv ==
    /\ TypeOK
    /\ Count <= Size
    /\ ppc \in {"copy", "publish"} => Count < Size
    /\ ppc = "publish" => data[Slot(in)] = src
    /\ ppc # "idle" => src \in Task
    /\ cpc \in {"copy", "release"} => Count > 0
    /\ cpc = "release" => dst = data[Slot(out)]

=============================================================================
