----------------------------- MODULE FifoQueue ------------------------------
(***************************************************************************)
(* What a task queue of MIXDK promises its two sides: a bounded FIFO.      *)
(* mix_enqueue appends one task when there is room, mix_dequeue hands out  *)
(* the oldest one.  MixQueue is the ring buffer that implements it.        *)
(***************************************************************************)
EXTENDS Integers, Sequences

CONSTANTS Task,      \* the io_task_t values that travel through the queue
          Capacity,  \* the number of tasks the queue holds
          NoTask     \* what got is before the first mix_dequeue

VARIABLES q,    \* the tasks in the queue, oldest first
          got   \* the task the last successful mix_dequeue handed out

Init == q = <<>> /\ got = NoTask

Put(t) ==
    /\ Len(q) < Capacity
    /\ q' = Append(q, t)
    /\ UNCHANGED got

Get ==
    /\ q # <<>>
    /\ got' = Head(q)
    /\ q' = Tail(q)

Next == (\E t \in Task : Put(t)) \/ Get

Spec == Init /\ [][Next]_<<q, got>>
=============================================================================
