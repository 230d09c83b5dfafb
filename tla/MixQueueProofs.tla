--------------------------- MODULE MixQueueProofs ---------------------------
(***************************************************************************)
(* Proofs about the ring buffer, for every ring size, every counter width  *)
(* and every set of tasks.                                                 *)
(***************************************************************************)
EXTENDS MixQueue, SequenceTheorems, TLAPS

(* Division with remainder.                                                *)
LEMMA DivMod ==
    ASSUME NEW n \in Nat, n > 0, NEW x \in Int
    PROVE  /\ x \div n \in Int
           /\ x % n \in 0 .. n - 1
           /\ x = n * (x \div n) + (x % n)
  OBVIOUS

(* The remainder is the only one there is.                                 *)
LEMMA ModUnique ==
    ASSUME NEW n \in Nat, n > 0, NEW x \in Int, NEW d \in Int,
           NEW r \in 0 .. n - 1, x = n * d + r
    PROVE  x % n = r
  OBVIOUS

(* Adding a multiple of the modulus changes nothing.                       *)
LEMMA ModAddMultiple ==
    ASSUME NEW n \in Nat, n > 0, NEW x \in Int, NEW m \in Int
    PROVE  (x + n * m) % n = x % n
  <1>1. PICK d \in Int, r \in 0 .. n - 1 : x = n * d + r /\ r = x % n
    BY DivMod
  <1>2. x + n * m = n * (d + m) + r
    BY <1>1
  <1>3. QED
    BY <1>1, <1>2, ModUnique

(* Two numbers less than the modulus apart have different remainders.      *)
LEMMA ModDistinct ==
    ASSUME NEW n \in Nat, n > 0, NEW x \in Int, NEW d \in Int, 0 < d, d < n
    PROVE  (x + d) % n # x % n
  <1>1. PICK a \in Int, r \in 0 .. n - 1 : x = n * a + r /\ r = x % n
    BY DivMod
  <1>2. CASE r + d < n
    <2>1. (x + d) % n = r + d
      BY <1>1, <1>2, ModUnique
    <2>2. QED
      BY <1>1, <2>1
  <1>3. CASE r + d >= n
    <2>1. a + 1 \in Int /\ x + d \in Int /\ r + d - n \in Int /\ r + d - n \in 0 .. n - 1
      BY <1>3
    <2>2. x + d = n * (a + 1) + (r + d - n)
      BY <1>1
    <2>3. \A u, v, w \in Int : w \in 0 .. n - 1 /\ u = n * v + w => u % n = w
      BY ModUnique
    <2>4. (x + d) % n = r + d - n
      BY <2>1, <2>2, <2>3, Zenon
    <2>5. QED
      BY <1>1, <2>4
  <1>4. QED
    BY <1>2, <1>3

(* The modular distance between two counters, without the modulus.         *)
LEMMA Distance ==
    ASSUME NEW i \in Counter, NEW o \in Counter
    PROVE  (i - o) % Wrap = IF i >= o THEN i - o ELSE i - o + Wrap
  BY QueueSizes DEF Counter

(* Incrementing a counter, without the modulus.                            *)
LEMMA AdvanceIs ==
    ASSUME NEW i \in Counter
    PROVE  /\ Advance(i) = IF i + 1 = Wrap THEN 0 ELSE i + 1
           /\ Advance(i) \in Counter
  BY QueueSizes DEF Counter, Advance

(* The slot of a counter that has wrapped is the slot it would have had.   *)
LEMMA SlotWrap ==
    ASSUME NEW x \in Int
    PROVE  Slot(x + Wrap) = Slot(x)
  <1>1. PICK m \in Int : Wrap = Size * m
    <2>1. Wrap = Size * (Wrap \div Size) + (Wrap % Size) /\ Wrap \div Size \in Int
      BY QueueSizes, DivMod
    <2>2. QED
      BY <2>1, QueueSizes
  <1>2. (x + Size * m) % Size = x % Size
    <2>1. Size \in Nat /\ Size > 0
      BY QueueSizes
    <2>2. QED
      BY <2>1, ModAddMultiple, Zenon
  <1>3. QED
    BY <1>1, <1>2 DEF Slot

(* The slot after the newest task is Count slots behind the oldest one.    *)
LEMMA SlotOfIn ==
    ASSUME NEW i \in Counter, NEW o \in Counter
    PROVE  Slot(i) = Slot(o + ((i - o) % Wrap))
  <1>1. CASE i >= o
    BY <1>1, Distance, QueueSizes DEF Counter
  <1>2. CASE i < o
    <2>1. o + ((i - o) % Wrap) = i + Wrap
      BY <1>2, Distance, QueueSizes DEF Counter
    <2>2. QED
      BY <2>1, SlotWrap DEF Counter
  <1>3. QED
    BY <1>1, <1>2 DEF Counter

(* Releasing the oldest task shifts every slot by one.                     *)
LEMMA SlotAdvance ==
    ASSUME NEW o \in Counter, NEW d \in Nat
    PROVE  Slot(Advance(o) + d) = Slot(o + 1 + d)
  <1>1. CASE o + 1 = Wrap
    <2>1. Advance(o) = 0 /\ o + 1 + d = d + Wrap
      BY <1>1, AdvanceIs, QueueSizes DEF Counter
    <2>2. QED
      BY <2>1, SlotWrap
  <1>2. CASE o + 1 # Wrap
    BY <1>2, AdvanceIs
  <1>3. QED
    BY <1>1, <1>2

LEMMA SlotType ==
    ASSUME NEW x \in Int
    PROVE  Slot(x) \in Slots
  BY QueueSizes, DivMod DEF Slot, Slots

LEMMA SlotsDistinct ==
    ASSUME NEW x \in Int, NEW d \in Int, 0 < d, d < Size
    PROVE  Slot(x + d) # Slot(x)
  <1>1. Size \in Nat /\ Size > 0
    BY QueueSizes
  <1>2. (x + d) % Size # x % Size
    BY <1>1, ModDistinct, Zenon
  <1>3. QED
    BY <1>2 DEF Slot

-----------------------------------------------------------------------------
(* How the number of tasks in the ring changes when a counter moves.       *)
LEMMA CountOnPublish ==
    ASSUME RingInv, ppc = "publish", in' = Advance(in), out' = out
    PROVE  in' \in Counter /\ Count' = Count + 1
  <1>1. in \in Counter /\ out \in Counter /\ Advance(in) \in Counter /\ Count < Size
    BY AdvanceIs DEF RingInv, TypeOK
  <1>2. /\ Count = IF in >= out THEN in - out ELSE in - out + Wrap
        /\ Count' = IF Advance(in) >= out THEN Advance(in) - out
                                          ELSE Advance(in) - out + Wrap
    BY <1>1, Distance DEF Count
  <1>3. Advance(in) = IF in + 1 = Wrap THEN 0 ELSE in + 1
    BY <1>1, AdvanceIs
  <1>4. QED
    BY <1>1, <1>2, <1>3, QueueSizes DEF Counter

LEMMA CountOnRelease ==
    ASSUME RingInv, cpc = "release", out' = Advance(out), in' = in
    PROVE  out' \in Counter /\ Count' = Count - 1
  <1>1. in \in Counter /\ out \in Counter /\ Advance(out) \in Counter /\ Count > 0
    BY AdvanceIs DEF RingInv, TypeOK
  <1>2. /\ Count = IF in >= out THEN in - out ELSE in - out + Wrap
        /\ Count' = IF in >= Advance(out) THEN in - Advance(out)
                                          ELSE in - Advance(out) + Wrap
    BY <1>1, Distance DEF Count
  <1>3. Advance(out) = IF out + 1 = Wrap THEN 0 ELSE out + 1
    BY <1>1, AdvanceIs
  <1>4. QED
    BY <1>1, <1>2, <1>3, QueueSizes DEF Counter

LEMMA CountType ==
    ASSUME TypeOK
    PROVE  Count \in Nat /\ Count < Wrap
  BY Distance, QueueSizes DEF TypeOK, Count, Counter

(* The slot being filled is none of the slots that hold a task.            *)
LEMMA FreeSlot ==
    ASSUME RingInv, Count < Size, NEW i \in 1 .. Count
    PROVE  Slot(out + i - 1) # Slot(in)
  <1>1. in \in Counter /\ out \in Counter /\ Count \in Nat
    BY CountType DEF RingInv, TypeOK
  <1>2. Slot(in) = Slot(out + Count)
    BY <1>1, SlotOfIn DEF Count
  <1>3. /\ out + i - 1 \in Int /\ Count - i + 1 \in Int
        /\ 0 < Count - i + 1 /\ Count - i + 1 < Size
        /\ (out + i - 1) + (Count - i + 1) = out + Count
    BY <1>1, QueueSizes DEF Counter
  <1>4. Slot((out + i - 1) + (Count - i + 1)) # Slot(out + i - 1)
    BY <1>3, SlotsDistinct
  <1>5. QED
    BY <1>2, <1>3, <1>4

-----------------------------------------------------------------------------
LEMMA RingInvInit == Init => RingInv
  BY QueueSizes DEF Init, RingInv, TypeOK, Count, Counter, Slots

LEMMA RingInvStep == RingInv /\ [Next]_vars => RingInv'
  <1> SUFFICES ASSUME RingInv, [Next]_vars PROVE RingInv'
    OBVIOUS
  <1>0. Count \in Nat /\ Count < Wrap
    BY CountType DEF RingInv
  <1>1. CASE \E t \in Task : Post(t)
    BY <1>1 DEF Post, consumer, RingInv, TypeOK, Count
  <1>2. CASE EnqueueCheck
    <2>1. Count < Size
      BY <1>0, <1>2, QueueSizes DEF EnqueueCheck, Unused, RingInv
    <2>2. QED
      BY <1>2, <2>1 DEF EnqueueCheck, consumer, RingInv, TypeOK, Count
  <1>3. CASE EnqueueCopy
    <2>1. /\ in' = in /\ out' = out /\ cpc' = cpc /\ dst' = dst /\ got' = got /\ src' = src
          /\ ppc = "copy" /\ ppc' = "publish"
          /\ data' = [data EXCEPT ![Slot(in)] = src]
      BY <1>3 DEF EnqueueCopy, consumer
    <2>2. Slot(in) \in Slots /\ in \in Int /\ out \in Int
      BY SlotType DEF RingInv, TypeOK, Counter
    <2>3. data' \in [Slots -> Task \cup {NoTask}] /\ data'[Slot(in)] = src
      BY <2>1, <2>2 DEF RingInv, TypeOK
    <2>4. Count' = Count
      BY <2>1 DEF Count
    <2>5. cpc = "release" => data'[Slot(out)] = data[Slot(out)]
      <3> SUFFICES ASSUME cpc = "release" PROVE data'[Slot(out)] = data[Slot(out)]
        OBVIOUS
      <3>1. Count < Size /\ 1 \in 1 .. Count
        BY <1>0, <2>1 DEF RingInv
      <3>2. Slot(out) # Slot(in)
        <4>1. Slot(out + 1 - 1) # Slot(in)
          BY <3>1, FreeSlot
        <4>2. QED
          BY <4>1, <2>2
      <3>3. QED
        BY <2>1, <2>2, <3>2, SlotType DEF RingInv, TypeOK
    <2>6. QED
      BY <2>1, <2>3, <2>4, <2>5 DEF RingInv, TypeOK
  <1>4. CASE EnqueuePublish
    <2>1. in' \in Counter /\ Count' = Count + 1
      BY <1>4, CountOnPublish DEF EnqueuePublish, consumer
    <2>2. QED
      BY <1>0, <1>4, <2>1, QueueSizes DEF EnqueuePublish, consumer, RingInv, TypeOK
  <1>5. CASE DequeueCheck
    BY <1>0, <1>5 DEF DequeueCheck, producer, RingInv, TypeOK, Count
  <1>6. CASE DequeueCopy
    <2>1. data[Slot(out)] \in Task \cup {NoTask}
      BY SlotType DEF RingInv, TypeOK, Counter
    <2>2. QED
      BY <1>6, <2>1 DEF DequeueCopy, producer, RingInv, TypeOK, Count
  <1>7. CASE DequeueRelease
    <2>1. out' \in Counter /\ Count' = Count - 1
      BY <1>7, CountOnRelease DEF DequeueRelease, producer
    <2>2. QED
      BY <1>0, <1>7, <2>1, QueueSizes DEF DequeueRelease, producer, RingInv, TypeOK
  <1>8. CASE UNCHANGED vars
    BY <1>8 DEF vars, RingInv, TypeOK, Count
  <1>9. QED
    BY <1>1, <1>2, <1>3, <1>4, <1>5, <1>6, <1>7, <1>8 DEF Next, Producer, Consumer

(* The ring's inductive invariant, for every Size and Wrap: the counters   *)
(* never drift further apart than the ring is long, and the check each     *)
(* side made against a stale counter of the other still holds when the     *)
(* side acts on it.                                                        *)
THEOREM RingInvariant == Spec => []RingInv
  <1>1. QED
    BY RingInvInit, RingInvStep, PTL DEF Spec

(* Counters and slots keep their types.                                    *)
THEOREM RingTypes == Spec => []TypeOK
  <1>1. RingInv => TypeOK
    BY DEF RingInv
  <1>2. QED
    BY <1>1, RingInvariant, PTL

(* mix_enqueue never writes the slot mix_dequeue is reading.               *)
THEOREM NoOverrunHolds == Spec => []NoOverrun
  <1>1. RingInv => NoOverrun
    <2> SUFFICES ASSUME RingInv, ppc \in {"copy", "publish"}, cpc \in {"copy", "release"}
                 PROVE  Slot(in) # Slot(out)
      BY DEF NoOverrun
    <2>1. Count \in Nat /\ Count < Size /\ 1 \in 1 .. Count /\ out + 1 - 1 = out
      BY CountType DEF RingInv, TypeOK, Counter
    <2>2. QED
      BY <2>1, FreeSlot
  <1>2. QED
    BY <1>1, RingInvariant, PTL

-----------------------------------------------------------------------------
(* The contents of the ring as a sequence.                                 *)
LEMMA ContentsSeq ==
    ASSUME RingInv
    PROVE  /\ Contents \in Seq(Task \cup {NoTask})
           /\ Len(Contents) = Count
           /\ \A i \in 1 .. Count : Contents[i] = data[Slot(out + i - 1)]
  <1>1. Count \in Nat
    BY CountType DEF RingInv
  <1>2. \A i \in 1 .. Count : data[Slot(out + i - 1)] \in Task \cup {NoTask}
    BY <1>1, SlotType DEF RingInv, TypeOK, Counter
  <1>3. QED
    BY <1>1, <1>2 DEF Contents

LEMMA PublishIsPut ==
    ASSUME RingInv, RingInv', EnqueuePublish
    PROVE  Fifo!Put(src)
  <1>1. /\ in' \in Counter /\ Count' = Count + 1 /\ Count \in Nat /\ Count < Size
        /\ out' = out /\ data' = data /\ got' = got /\ src \in Task
    BY CountOnPublish, CountType DEF EnqueuePublish, consumer, RingInv
  <1>2. data[Slot(out + Count)] = src
    BY SlotOfIn DEF EnqueuePublish, RingInv, TypeOK, Count
  <1>3. Contents' = Append(Contents, src)
    <2>1. /\ Contents \in Seq(Task \cup {NoTask}) /\ Len(Contents) = Count
          /\ Append(Contents, src) \in Seq(Task \cup {NoTask})
          /\ Len(Append(Contents, src)) = Count + 1
      BY <1>1, ContentsSeq
    <2>2. /\ Contents' \in Seq(Task \cup {NoTask}) /\ Len(Contents') = Count + 1
          /\ \A i \in 1 .. Count + 1 : Contents'[i] = data[Slot(out + i - 1)]
      <3>1. Contents' = [i \in 1 .. Count + 1 |-> data[Slot(out + i - 1)]]
        BY <1>1 DEF Contents
      <3>2. \A i \in 1 .. Count + 1 : data[Slot(out + i - 1)] \in Task \cup {NoTask}
        BY <1>1, SlotType DEF RingInv, TypeOK, Counter
      <3>3. QED
        BY <1>1, <3>1, <3>2
    <2>3. ASSUME NEW i \in 1 .. Count + 1
          PROVE  Append(Contents, src)[i] = data[Slot(out + i - 1)]
      <3>1. CASE i = Count + 1
        <4>1. out + i - 1 = out + Count
          BY <1>1, <3>1 DEF RingInv, TypeOK, Counter
        <4>2. QED
          BY <1>1, <1>2, <2>1, <3>1, <4>1
      <3>2. CASE i \in 1 .. Count
        <4>1. Contents[i] = data[Slot(out + i - 1)]
          BY <3>2, ContentsSeq
        <4>2. Append(Contents, src)[i] = Contents[i]
          BY <1>1, <2>1, <3>2
        <4>3. QED
          BY <4>1, <4>2
      <3>3. i \in 1 .. Count \/ i = Count + 1
        BY <1>1
      <3>4. QED
        BY <3>1, <3>2, <3>3
    <2>4. QED
      BY <1>1, <2>1, <2>2, <2>3, SeqEqual
  <1>4. QED
    BY <1>1, <1>3, ContentsSeq DEF Fifo!Put

LEMMA ReleaseIsGet ==
    ASSUME RingInv, RingInv', DequeueRelease
    PROVE  Fifo!Get
  <1>1. /\ out' = Advance(out) /\ out \in Counter /\ out' \in Counter
        /\ Count' = Count - 1 /\ Count \in Nat /\ Count > 0
        /\ in' = in /\ data' = data /\ got' = dst /\ dst = data[Slot(out)]
    BY CountOnRelease, CountType DEF DequeueRelease, producer, RingInv, TypeOK
  <1>2. Contents # <<>> /\ Head(Contents) = data[Slot(out)]
    <2>1. out + 1 - 1 = out /\ 1 \in 1 .. Count
      BY <1>1 DEF Counter
    <2>2. Contents[1] = data[Slot(out)]
      BY <2>1, ContentsSeq
    <2>3. QED
      BY <1>1, <2>2, ContentsSeq
  <1>3. Contents' = Tail(Contents)
    <2>1. /\ Contents \in Seq(Task \cup {NoTask}) /\ Len(Contents) = Count
          /\ Tail(Contents) \in Seq(Task \cup {NoTask})
          /\ Len(Tail(Contents)) = Count - 1
          /\ \A i \in 1 .. Count - 1 : Tail(Contents)[i] = Contents[i + 1]
      BY <1>1, <1>2, ContentsSeq
    <2>2. /\ Contents' \in Seq(Task \cup {NoTask}) /\ Len(Contents') = Count - 1
          /\ \A i \in 1 .. Count - 1 : Contents'[i] = data[Slot(Advance(out) + i - 1)]
      <3>1. Contents' = [i \in 1 .. Count - 1 |-> data[Slot(Advance(out) + i - 1)]]
        BY <1>1 DEF Contents
      <3>2. \A i \in 1 .. Count - 1 :
              data[Slot(Advance(out) + i - 1)] \in Task \cup {NoTask}
        BY <1>1, SlotType DEF RingInv, TypeOK, Counter
      <3>3. QED
        BY <1>1, <3>1, <3>2
    <2>3. ASSUME NEW i \in 1 .. Count - 1
          PROVE  Tail(Contents)[i] = Contents'[i]
      <3>1. /\ Advance(out) + i - 1 = Advance(out) + (i - 1)
            /\ out + 1 + (i - 1) = out + (i + 1) - 1
            /\ i - 1 \in Nat /\ i + 1 \in 1 .. Count
        BY <1>1, AdvanceIs DEF Counter
      <3>2. Slot(Advance(out) + (i - 1)) = Slot(out + 1 + (i - 1))
        BY <1>1, <3>1, SlotAdvance
      <3>3. Tail(Contents)[i] = Contents[i + 1]
        BY <2>1
      <3>4. Contents[i + 1] = data[Slot(out + (i + 1) - 1)]
        BY <3>1, ContentsSeq
      <3>5. Contents'[i] = data[Slot(Advance(out) + i - 1)]
        BY <2>2
      <3>6. QED
        BY <3>1, <3>2, <3>3, <3>4, <3>5
    <2>4. QED
      BY <1>1, <2>1, <2>2, <2>3, SeqEqual
  <1>4. QED
    BY <1>1, <1>2, <1>3 DEF Fifo!Get

(* Copying a task into the free slot does not disturb the others.          *)
LEMMA CopyIsInvisible ==
    ASSUME RingInv, EnqueueCopy
    PROVE  Contents' = Contents
  <1>1. /\ in' = in /\ out' = out /\ Count' = Count /\ Count < Size /\ Count \in Nat
        /\ data' = [data EXCEPT ![Slot(in)] = src]
    BY CountType DEF EnqueueCopy, consumer, Count, RingInv
  <1>2. ASSUME NEW i \in 1 .. Count
        PROVE  data'[Slot(out + i - 1)] = data[Slot(out + i - 1)]
    <2>1. Slot(out + i - 1) # Slot(in)
      BY <1>1, FreeSlot
    <2>2. QED
      BY <1>1, <2>1, SlotType DEF RingInv, TypeOK, Counter
  <1>3. QED
    BY <1>1, <1>2 DEF Contents

(* The ring buffer implements the bounded FIFO, for every ring size and    *)
(* every width of the counters it divides: no interleaving of mix_enqueue  *)
(* and mix_dequeue loses, duplicates or reorders a task.                   *)
THEOREM RingImplementsFifo == Spec => FifoSpec
  <1>1. Init => Fifo!Init
    <2> SUFFICES ASSUME Init PROVE Fifo!Init
      OBVIOUS
    <2>1. Count = 0
      BY QueueSizes DEF Init, Count
    <2>2. QED
      BY <2>1 DEF Init, Fifo!Init, Contents
  <1>2. RingInv /\ RingInv' /\ [Next]_vars => [Fifo!Next]_<<Contents, got>>
    <2> SUFFICES ASSUME RingInv, RingInv', [Next]_vars
                 PROVE  [Fifo!Next]_<<Contents, got>>
      OBVIOUS
    <2>1. CASE EnqueuePublish
      <3>1. src \in Task
        BY <2>1 DEF EnqueuePublish, RingInv
      <3>2. QED
        BY <2>1, <3>1, PublishIsPut DEF Fifo!Next
    <2>2. CASE DequeueRelease
      BY <2>2, ReleaseIsGet DEF Fifo!Next
    <2>3. CASE EnqueueCopy
      BY <2>3, CopyIsInvisible DEF EnqueueCopy, consumer
    <2>4. CASE \/ \E t \in Task : Post(t)
               \/ EnqueueCheck \/ DequeueCheck \/ DequeueCopy \/ UNCHANGED vars
      <3>1. in' = in /\ out' = out /\ data' = data /\ got' = got
        BY <2>4 DEF Post, EnqueueCheck, DequeueCheck, DequeueCopy, consumer, producer, vars
      <3>2. QED
        BY <3>1 DEF Contents, Count
    <2>5. QED
      BY <2>1, <2>2, <2>3, <2>4 DEF Next, Producer, Consumer
  <1>3. QED
    BY <1>1, <1>2, RingInvariant, PTL DEF Spec, FifoSpec, Fifo!Spec
=============================================================================
