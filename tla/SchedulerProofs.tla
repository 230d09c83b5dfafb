-------------------------- MODULE SchedulerProofs ---------------------------
(***************************************************************************)
(* Proofs about the way of a task through MIXDK, for every number of       *)
(* clients and workers, every request and every capacity.                  *)
(*                                                                         *)
(* First where a task can be (Located) and in which order those of a client*)
(* stand (Ordered): the types, that a part is served at its home, and that *)
(* overlapping tasks of a client are taken in the order it posted them.    *)
(*                                                                         *)
(* Then how every step changes the number of blocks in flight, and from it *)
(* that no block is lost and none counted twice: each write is counted once*)
(* and each read returns whole.                                            *)
(***************************************************************************)
EXTENDS Scheduler, SumProofs, FiniteSetTheorems

-----------------------------------------------------------------------------
(* Queues, and the operators of the model.                                 *)

LEMMA QueueFacts ==
    ASSUME NEW S, NEW q \in Seq(S)
    PROVE  /\ Len(q) \in Nat
           /\ \A e \in S : Append(q, e) \in Seq(S) /\ Len(Append(q, e)) = Len(q) + 1
           /\ q # <<>> => /\ Head(q) \in S /\ Head(q) = q[1] /\ Len(q) > 0
                          /\ Tail(q) \in Seq(S) /\ Len(Tail(q)) = Len(q) - 1
                          /\ \A i \in 1 .. Len(q) - 1 : Tail(q)[i] = q[i + 1]
           /\ \A i \in 1 .. Len(q) : q[i] \in S
           /\ ToSet(q) \subseteq S
  <1>1. q # <<>> => /\ Head(q) \in S /\ Head(q) = q[1] /\ Len(q) > 0
                    /\ Tail(q) \in Seq(S) /\ Len(Tail(q)) = Len(q) - 1
                    /\ \A i \in 1 .. Len(q) - 1 : Tail(q)[i] = q[i + 1]
    OBVIOUS
  <1>2. ToSet(q) \subseteq S
    BY DEF ToSet
  <1>3. \A e \in S : Append(q, e) \in Seq(S) /\ Len(Append(q, e)) = Len(q) + 1
    OBVIOUS
  <1>4. QED
    BY <1>1, <1>2, <1>3

LEMMA SeqByElements ==
    ASSUME NEW S, NEW T, NEW q \in Seq(T), \A k \in 1 .. Len(q) : q[k] \in S
    PROVE  q \in Seq(S)
  OBVIOUS

(* Masking with n cannot give more than n.                                 *)
LEMMA AndIsBelow ==
    ASSUME NEW a \in Nat, NEW n \in 0 .. 15
    PROVE  And(a, n) \in 0 .. n
  <1> DEFINE Bit(k) == (n \div k) % 2 = 1
             Value(k) == IF Bit(k) THEN k ELSE 0
  <1>1. Value(1) + Value(2) + Value(4) + Value(8) + Value(16) = n
    BY SMTT(60)
  <1>2. QED
    BY <1>1 DEF And

LEMMA DivMod ==
    ASSUME NEW n \in Nat, NEW d \in Nat \ {0}
    PROVE  /\ n = (n \div d) * d + (n % d) /\ n % d \in 0 .. d - 1
           /\ n \div d \in Nat /\ (n \div d) * d \in Nat
  OBVIOUS

LEMMA DivIs ==
    ASSUME NEW n \in Nat, NEW d \in Nat \ {0}, NEW q \in Nat, q * d <= n, n < q * d + d
    PROVE  n \div d = q
  <1>1. q * d \in Nat /\ n - q * d \in 0 .. d - 1
    OBVIOUS
  <1>2. ASSUME NEW r \in 0 .. d - 1
        PROVE  (q * d + r) \div d = q
    OBVIOUS
  <1>3. q * d + (n - q * d) = n
    BY <1>1
  <1>4. QED
    BY <1>1, <1>2, <1>3

LEMMA ModOfSum ==
    ASSUME NEW a \in Nat, NEW j \in Nat, NEW d \in Nat \ {0}
    PROVE  ((a % d) + j) % d = (a + j) % d
  <1> DEFINE b == (a % d) + j
             q == a \div d
  <1>1. a = q * d + (a % d) /\ a % d \in Nat /\ q \in Nat /\ q * d \in Nat
    BY DivMod
  <1>2. b \in Nat /\ a + j = q * d + b
    BY <1>1
  <1> HIDE DEF b, q
  <1>3. b = (b \div d) * d + (b % d) /\ b % d \in 0 .. d - 1
        /\ b \div d \in Nat /\ (b \div d) * d \in Nat
    BY <1>2, DivMod
  <1>4. PICK p \in Nat : p = q + (b \div d)
    BY <1>1, <1>3
  <1>5. p * d = q * d + (b \div d) * d
    BY <1>1, <1>3, <1>4
  <1>6. a + j = p * d + (b % d)
    BY <1>1, <1>2, <1>3, <1>5
  <1>7. ASSUME NEW r \in 0 .. d - 1
        PROVE  (p * d + r) % d = r
    OBVIOUS
  <1>8. QED
    BY <1>3, <1>6, <1>7 DEF b

LEMMA MinMax ==
    ASSUME NEW a \in Nat, NEW b \in Nat
    PROVE  /\ Min({a, b}) = IF a <= b THEN a ELSE b
           /\ Max({a, b}) = IF a <= b THEN b ELSE a
  BY DEF Min, Max

LEMMA WorkersTake ==
    /\ StripeSize \in Nat \ {0} /\ QueueNum \in Nat \ {0} /\ SubmitNum \in Nat \ {0}
    /\ Capacity \in Nat \ {0} /\ MaxTasks \in Nat \ {0} /\ SmallWrite \in Nat \ {0}
    /\ Threshold \in Nat \ {0} /\ Clients \subseteq Workers
    /\ \A n \in Nat : n % QueueNum \in Workers
  <1>1. /\ StripeSize \in Nat \ {0} /\ Capacity \in Nat \ {0} /\ MaxTasks \in Nat \ {0}
        /\ SmallWrite \in Nat \ {0} /\ Threshold \in Nat \ {0}
    BY SchedulerConstants
  <1>2. SubmitNum \in 1 .. 16 /\ SubmitNum <= QueueNum /\ QueueNum \in Int
    BY SchedulerConstants
  <1>3. QED
    BY <1>1, <1>2 DEF Clients, Workers

(* The two steps of a queue keep its elements and its bound.               *)
LEMMA Enqueued ==
    ASSUME NEW S, NEW q \in Seq(S), NEW e \in S, Len(q) < Capacity
    PROVE  Append(q, e) \in Seq(S) /\ Len(Append(q, e)) <= Capacity
  <1>1. Append(q, e) \in Seq(S) /\ Len(Append(q, e)) = Len(q) + 1 /\ Len(q) \in Nat
    BY QueueFacts
  <1>2. Capacity \in Nat
    BY WorkersTake
  <1>3. QED
    BY <1>1, <1>2

LEMMA Dequeued ==
    ASSUME NEW S, NEW q \in Seq(S), q # <<>>, Len(q) <= Capacity
    PROVE  Head(q) \in S /\ Tail(q) \in Seq(S) /\ Len(Tail(q)) <= Capacity
  <1>1. /\ Head(q) \in S /\ Tail(q) \in Seq(S) /\ Len(Tail(q)) = Len(q) - 1
        /\ Len(q) \in Nat
    BY QueueFacts
  <1>2. Capacity \in Nat
    BY WorkersTake
  <1>3. QED
    BY <1>1, <1>2

LEMMA TaskFacts ==
    ASSUME NEW t \in Task
    PROVE  /\ t.offset \in Nat /\ t.len \in Nat /\ t.id \in Nat
           /\ t.queue_idx \in Clients /\ t.to \in Workers
           /\ t.op \in {"read", "write"} /\ t.type \in {"none", "nvm", "ssd"}
           /\ \A o, l : LET p == [t EXCEPT !.offset = o, !.len = l]
                        IN  /\ p.op = t.op /\ p.type = t.type /\ p.queue_idx = t.queue_idx
                            /\ p.id = t.id /\ p.to = t.to /\ p.offset = o /\ p.len = l
           /\ \A o, l, v : LET p == [t EXCEPT !.offset = o, !.len = l, !.to = v]
                           IN  /\ p.op = t.op /\ p.type = t.type /\ p.queue_idx = t.queue_idx
                               /\ p.id = t.id /\ p.to = v /\ p.offset = o /\ p.len = l
  BY DEF Task

(* The k-th part mix_post_task_to_buffer cuts from t.                      *)
First(t, k) == Max({t.offset, (Stripe(t.offset) + k - 1) * StripeSize})
End(t, k) == Min({t.offset + t.len, (Stripe(t.offset) + k - 1 + 1) * StripeSize})
Parts_(t) == Stripe(t.offset + t.len - 1) - Stripe(t.offset) + 1

(* A task served by worker w: at least one block, and all of them have     *)
(* their home there.                                                       *)
BelongsTo(t, w) ==
    /\ t.len > 0
    /\ \A b \in t.offset .. t.offset + t.len - 1 : Home(b) = w

(* The first and the last stripe of a task.                                *)
LEMMA StripeBounds ==
    ASSUME NEW t \in Task, t.len > 0
    PROVE  LET S == Stripe(t.offset)
               L == Stripe(t.offset + t.len - 1)
           IN  /\ S \in Nat /\ S * StripeSize \in Nat
               /\ S * StripeSize <= t.offset /\ t.offset < S * StripeSize + StripeSize
               /\ L \in Nat /\ L * StripeSize \in Nat
               /\ L * StripeSize <= t.offset + t.len - 1
               /\ t.offset + t.len - 1 < L * StripeSize + StripeSize
               /\ S <= L /\ Parts_(t) = L - S + 1
  <1> DEFINE o == t.offset
             e == t.offset + t.len - 1
             S == Stripe(o)
             L == Stripe(e)
  <1>1. o \in Nat /\ t.len \in Nat \ {0} /\ e \in Nat /\ o <= e /\ StripeSize \in Nat \ {0}
    BY WorkersTake, TaskFacts
  <1>2. ASSUME NEW b \in Nat
        PROVE  /\ Stripe(b) \in Nat /\ Stripe(b) * StripeSize \in Nat
               /\ Stripe(b) * StripeSize <= b /\ b < Stripe(b) * StripeSize + StripeSize
    <2>1. /\ b = (b \div StripeSize) * StripeSize + (b % StripeSize)
          /\ b % StripeSize \in 0 .. StripeSize - 1 /\ b \div StripeSize \in Nat
          /\ (b \div StripeSize) * StripeSize \in Nat
      BY <1>1, DivMod
    <2>2. Stripe(b) = b \div StripeSize
      BY DEF Stripe
    <2>3. (b \div StripeSize) * StripeSize <= b
          /\ b < (b \div StripeSize) * StripeSize + StripeSize
      BY <1>1, <2>1
    <2>4. QED
      BY <2>1, <2>2, <2>3
  <1>3. /\ S \in Nat /\ S * StripeSize \in Nat /\ S * StripeSize <= o /\ o < S * StripeSize + StripeSize
        /\ L \in Nat /\ L * StripeSize \in Nat /\ L * StripeSize <= e /\ e < L * StripeSize + StripeSize
    BY <1>1, <1>2
  <1> HIDE DEF S, L
  <1>4. S <= L
    <2>1. ASSUME L < S PROVE FALSE
      <3>1. L + 1 <= S /\ (L + 1) * StripeSize <= S * StripeSize
        BY <1>1, <1>3, <2>1
      <3>2. (L + 1) * StripeSize = L * StripeSize + StripeSize
        BY <1>1, <1>3
      <3>3. QED
        BY <1>1, <1>3, <3>1, <3>2
    <2>2. QED
      BY <1>3, <2>1
  <1>5. Parts_(t) = L - S + 1
    BY DEF Parts_, S, L
  <1>6. QED
    BY <1>3, <1>4, <1>5 DEF S, L

(* The parts follow each other from the first block of the task to its last*)
LEMMA StripeCuts ==
    ASSUME NEW t \in Task, t.len > 0
    PROVE  /\ Parts_(t) \in Nat \ {0}
           /\ First(t, 1) = t.offset /\ End(t, Parts_(t)) = t.offset + t.len
           /\ \A k \in 1 .. Parts_(t) - 1 : End(t, k) = First(t, k + 1)
  <1>1. PICK S \in Nat : S = Stripe(t.offset)
    BY StripeBounds
  <1>2. PICK L \in Nat : L = Stripe(t.offset + t.len - 1)
    BY StripeBounds
  <1>3. /\ S * StripeSize \in Nat
        /\ S * StripeSize <= t.offset /\ t.offset < S * StripeSize + StripeSize
        /\ L * StripeSize \in Nat
        /\ L * StripeSize <= t.offset + t.len - 1
        /\ t.offset + t.len - 1 < L * StripeSize + StripeSize
        /\ S <= L /\ Parts_(t) = L - S + 1
    BY <1>1, <1>2, StripeBounds
  <1>4. /\ t.offset \in Nat /\ t.len \in Nat \ {0} /\ t.offset + t.len \in Nat
        /\ StripeSize \in Nat \ {0}
    BY WorkersTake, TaskFacts
  <1>5. First(t, 1) = t.offset
    <2>1. S + 1 - 1 = S
      OBVIOUS
    <2>2. First(t, 1) = Max({t.offset, S * StripeSize})
      BY <1>1, <2>1 DEF First
    <2>3. Max({t.offset, S * StripeSize}) =
             IF t.offset <= S * StripeSize THEN S * StripeSize ELSE t.offset
      BY <1>3, <1>4, MinMax
    <2>4. QED
      BY <1>3, <1>4, <2>2, <2>3
  <1>6. End(t, Parts_(t)) = t.offset + t.len
    <2>1. S + Parts_(t) - 1 + 1 = L + 1 /\ (L + 1) * StripeSize = L * StripeSize + StripeSize
      BY <1>3, <1>4
    <2>2. End(t, Parts_(t)) = Min({t.offset + t.len, L * StripeSize + StripeSize})
      BY <1>1, <2>1 DEF End
    <2>3. L * StripeSize + StripeSize \in Nat /\ t.offset + t.len <= L * StripeSize + StripeSize
      BY <1>3, <1>4
    <2>4. QED
      BY <1>4, <2>2, <2>3, MinMax
  <1>7. ASSUME NEW k \in 1 .. Parts_(t) - 1
        PROVE  End(t, k) = First(t, k + 1)
    <2>1. PICK m \in Nat : m = S + k
      BY <1>3
    <2>2. S + k - 1 + 1 = m /\ S + (k + 1) - 1 = m /\ S + 1 <= m /\ m <= L
      BY <1>3, <2>1
    <2>3. m * StripeSize \in Nat /\ S * StripeSize + StripeSize <= m * StripeSize
          /\ m * StripeSize <= L * StripeSize
      <3>1. ASSUME NEW i \in Nat, NEW j \in Nat, i <= j
            PROVE  i * StripeSize <= j * StripeSize
        BY <1>4, <3>1
      <3>2. (S + 1) * StripeSize = S * StripeSize + StripeSize /\ m * StripeSize \in Nat
        BY <1>4
      <3>3. PICK r \in Nat : r = S + 1
        OBVIOUS
      <3>4. r * StripeSize <= m * StripeSize /\ m * StripeSize <= L * StripeSize
        BY <2>2, <3>1, <3>3
      <3>5. QED
        BY <3>2, <3>3, <3>4
    <2>4. End(t, k) = Min({t.offset + t.len, m * StripeSize})
      BY <1>1, <2>2 DEF End
    <2>5. First(t, k + 1) = Max({t.offset, m * StripeSize})
      BY <1>1, <2>2 DEF First
    <2>6. ~ (t.offset + t.len <= m * StripeSize) /\ t.offset <= m * StripeSize
      BY <1>3, <1>4, <2>3
    <2>7. Min({t.offset + t.len, m * StripeSize}) = m * StripeSize
      BY <1>4, <2>3, <2>6, MinMax
    <2>8. Max({t.offset, m * StripeSize}) = m * StripeSize
      BY <1>4, <2>3, <2>6, MinMax
    <2>9. QED
      BY <2>4, <2>5, <2>7, <2>8
  <1>8. QED
    BY <1>3, <1>5, <1>6, <1>7

(* The parts of a task are tasks, not empty, of one stripe each, and go to *)
(* the home of all their blocks.                                           *)
LEMMA StripesGoHome ==
    ASSUME NEW t \in Task, t.len > 0
    PROVE  /\ Stripes(t) \in Seq(Task) /\ Len(Stripes(t)) = Parts_(t)
           /\ \A k \in 1 .. Parts_(t) : First(t, k) \in Nat /\ End(t, k) \in Nat
           /\ \A k \in 1 .. Len(Stripes(t)) :
                /\ Stripes(t)[k] = [t EXCEPT !.offset = First(t, k),
                                             !.len = End(t, k) - First(t, k),
                                             !.to = (Home(t.offset) + k - 1) % QueueNum]
                /\ BelongsTo(Stripes(t)[k], Stripes(t)[k].to)
  <1> DEFINE n == Parts_(t)
             o == t.offset
             S == Stripe(o)
  <1>1. /\ o \in Nat /\ t.len \in Nat \ {0} /\ o + t.len - 1 \in Nat
        /\ StripeSize \in Nat \ {0} /\ QueueNum \in Nat \ {0}
    BY WorkersTake DEF Task
  <1>2. /\ S \in Nat /\ S * StripeSize <= o /\ o < S * StripeSize + StripeSize
        /\ S * StripeSize \in Nat
    BY StripeBounds
  <1> DEFINE L == Stripe(o + t.len - 1)
  <1>3. /\ L \in Nat /\ L * StripeSize <= o + t.len - 1 /\ L * StripeSize \in Nat
        /\ o + t.len - 1 < L * StripeSize + StripeSize
        /\ n = L - S + 1
    BY StripeBounds
  <1>4. ASSUME NEW k \in 1 .. n
        PROVE  /\ First(t, k) \in Nat /\ End(t, k) \in Nat /\ First(t, k) < End(t, k)
               /\ (S + k - 1) * StripeSize <= First(t, k)
               /\ End(t, k) <= (S + k - 1) * StripeSize + StripeSize
               /\ S + k - 1 \in Nat
    <2>1. PICK m \in Nat : m = S + k - 1
      BY <1>2, <1>3
    <2>2. /\ S * StripeSize <= m * StripeSize /\ m * StripeSize <= L * StripeSize
          /\ m * StripeSize \in Nat
          /\ (m + 1) * StripeSize = m * StripeSize + StripeSize
          /\ S <= m /\ m <= L /\ S + k = m + 1
      <3>1. S <= m /\ m <= L /\ S + k = m + 1
        BY <1>2, <1>3, <2>1
      <3>2. ASSUME NEW i \in Nat, NEW j \in Nat, i <= j
            PROVE  i * StripeSize <= j * StripeSize
        BY <1>1, <3>2
      <3>3. m * StripeSize \in Nat /\ (m + 1) * StripeSize = m * StripeSize + StripeSize
        BY <1>1
      <3>4. QED
        BY <1>2, <1>3, <3>1, <3>2, <3>3
    <2>3. First(t, k) = IF o <= m * StripeSize THEN m * StripeSize ELSE o
      BY <1>1, <2>1, <2>2, MinMax DEF First
    <2>4. End(t, k) = IF o + t.len <= m * StripeSize + StripeSize
                      THEN o + t.len ELSE m * StripeSize + StripeSize
      <3>1. S + k - 1 + 1 = m + 1
        BY <2>1
      <3>2. o + t.len \in Nat /\ m * StripeSize + StripeSize \in Nat
        BY <1>1, <2>2
      <3>3. End(t, k) = Min({o + t.len, m * StripeSize + StripeSize})
        BY <2>2, <3>1 DEF End
      <3>4. QED
        BY <3>2, <3>3, MinMax
    <2>5. QED
      BY <1>1, <1>2, <1>3, <2>1, <2>2, <2>3, <2>4
  <1>5. ASSUME NEW k \in 1 .. n
        PROVE  /\ [t EXCEPT !.offset = First(t, k), !.len = End(t, k) - First(t, k),
                            !.to = (Home(o) + k - 1) % QueueNum] \in Task
               /\ BelongsTo([t EXCEPT !.offset = First(t, k), !.len = End(t, k) - First(t, k),
                                      !.to = (Home(o) + k - 1) % QueueNum],
                            (Home(o) + k - 1) % QueueNum)
    <2>1. Home(o) \in Nat /\ k - 1 \in Nat
      BY <1>1, <1>2 DEF Home
    <2>2. (Home(o) + k - 1) % QueueNum \in Workers
      <3>1. Home(o) + k - 1 \in Nat
        BY <2>1
      <3>2. QED
        BY <3>1, WorkersTake
    <2>3. (Home(o) + k - 1) % QueueNum = (S + k - 1) % QueueNum
      <3>1. (Home(o) + (k - 1)) % QueueNum = (S + (k - 1)) % QueueNum
        BY <1>1, <1>2, <2>1, ModOfSum DEF Home
      <3>2. Home(o) + (k - 1) = Home(o) + k - 1 /\ S + (k - 1) = S + k - 1
        BY <1>2, <2>1
      <3>3. QED
        BY <3>1, <3>2
    <2>4. ASSUME NEW b \in First(t, k) .. End(t, k) - 1
          PROVE  Home(b) = (Home(o) + k - 1) % QueueNum
      <3>1. PICK m \in Nat : m = S + k - 1
        BY <1>4
      <3>2. b \in Nat /\ m * StripeSize <= b /\ b < m * StripeSize + StripeSize
        <4>1. m * StripeSize \in Nat
          BY <1>1
        <4>2. QED
          BY <1>1, <1>4, <3>1, <4>1
      <3>3. Stripe(b) = m
        BY <1>1, <3>2, DivIs DEF Stripe
      <3>4. QED
        BY <2>3, <3>1, <3>3 DEF Home
    <2>5. First(t, k) + (End(t, k) - First(t, k)) - 1 = End(t, k) - 1
          /\ End(t, k) - First(t, k) \in Nat \ {0}
      BY <1>4
    <2> DEFINE p == [t EXCEPT !.offset = First(t, k), !.len = End(t, k) - First(t, k),
                              !.to = (Home(o) + k - 1) % QueueNum]
    <2>6. p \in Task
      BY <1>4, <2>2, <2>5 DEF Task
    <2>7. p.offset = First(t, k) /\ p.len = End(t, k) - First(t, k)
      BY DEF Task
    <2>8. BelongsTo(p, (Home(o) + k - 1) % QueueNum)
      BY <2>4, <2>5, <2>7 DEF BelongsTo
    <2>9. QED
      BY <2>6, <2>8
  <1>6. Stripes(t) = [k \in 1 .. n |-> [t EXCEPT !.offset = First(t, k),
                                                 !.len = End(t, k) - First(t, k),
                                                 !.to = (Home(o) + k - 1) % QueueNum]]
    BY Zenon DEF Stripes, First, End, Parts_
  <1>7. n \in Nat
    BY StripeCuts
  <1>8. QED
    <2> DEFINE part(k) == [t EXCEPT !.offset = First(t, k), !.len = End(t, k) - First(t, k),
                                    !.to = (Home(o) + k - 1) % QueueNum]
    <2>1. \A k \in 1 .. n : part(k) \in Task /\ BelongsTo(part(k), part(k).to)
      <3>1. \A k \in 1 .. n : part(k).to = (Home(o) + k - 1) % QueueNum
        BY DEF Task
      <3>2. QED
        BY <1>5, <3>1
    <2>2. Stripes(t) = [k \in 1 .. n |-> part(k)]
      BY <1>6
    <2> HIDE DEF part, n
    <2>3. Stripes(t) \in Seq(Task) /\ Len(Stripes(t)) = n
      BY <1>7, <2>1, <2>2
    <2>4. QED
      BY <1>4, <2>1, <2>2, <2>3 DEF part, n

Rank(S, b) == Cardinality({c \in S : c <= b})

(* Every element of a finite set of naturals has a rank of its own, so     *)
(* every rank has an element.                                              *)
LEMMA AscendingFacts ==
    ASSUME NEW S, \A b \in S : b \in Nat, IsFiniteSet(S)
    PROVE  /\ Cardinality(S) \in Nat
           /\ Ascending(S) \in [1 .. Cardinality(S) -> S]
           /\ \A k \in 1 .. Cardinality(S) : Rank(S, Ascending(S)[k]) = k
           /\ \A b, c \in S : b < c => Rank(S, b) < Rank(S, c)
           /\ \A b \in S : Rank(S, b) \in 1 .. Cardinality(S)
  <1> DEFINE n == Cardinality(S)
             Upto(b) == {c \in S : c <= b}
             rank == [b \in S |-> Rank(S, b)]
  <1>1. n \in Nat
    BY FS_CardinalityType
  <1>2. ASSUME NEW b \in S
        PROVE  IsFiniteSet(Upto(b)) /\ Rank(S, b) \in 1 .. n
    <2>1. Upto(b) \in SUBSET S /\ b \in Upto(b)
      OBVIOUS
    <2>2. IsFiniteSet(Upto(b)) /\ Cardinality(Upto(b)) <= n
      BY <2>1, FS_Subset
    <2>3. Cardinality(Upto(b)) \in Nat /\ Cardinality(Upto(b)) # 0
      BY <2>1, <2>2, FS_CardinalityType, FS_EmptySet
    <2>4. QED
      BY <1>1, <2>2, <2>3 DEF Rank
  <1>3. ASSUME NEW b \in S, NEW c \in S, b < c
        PROVE  Rank(S, b) < Rank(S, c)
    <2>1. Upto(b) \in SUBSET Upto(c) /\ c \in Upto(c) /\ c \notin Upto(b)
      <3>1. b \in Nat /\ c \in Nat
        OBVIOUS
      <3>2. ASSUME NEW x \in S, x <= b
            PROVE  x <= c
        <4>1. x \in Nat
          OBVIOUS
        <4>2. QED
          BY <1>3, <3>1, <3>2, <4>1
      <3>3. c <= c /\ ~ (c <= b)
        BY <1>3, <3>1
      <3>4. QED
        BY <3>2, <3>3
    <2>2. /\ Cardinality(Upto(b)) <= Cardinality(Upto(c))
          /\ Cardinality(Upto(c)) = Cardinality(Upto(b)) => Upto(c) = Upto(b)
      <3> HIDE DEF Upto
      <3>1. IsFiniteSet(Upto(c))
        BY <1>2
      <3>2. QED
        BY <2>1, <3>1, FS_Subset
    <2>3. Rank(S, b) \in Nat /\ Rank(S, c) \in Nat
      <3>1. Rank(S, b) \in 1 .. n /\ Rank(S, c) \in 1 .. n
        BY <1>2
      <3> HIDE DEF n
      <3>2. QED
        BY <1>1, <3>1
    <2>4. QED
      BY <2>1, <2>2, <2>3 DEF Rank
  <1>4. \A k \in 1 .. n : \E b \in S : Rank(S, b) = k
    <2>1. rank \in [S -> 1 .. n]
      BY <1>2
    <2>2. \A b, c \in S : rank[b] = rank[c] => b = c
      <3>1. ASSUME NEW b \in S, NEW c \in S, Rank(S, b) = Rank(S, c)
            PROVE  b = c
        <4>1. b \in Nat /\ c \in Nat
          OBVIOUS
        <4>3. Rank(S, b) \in 1 .. n
          BY <1>2
        <4>4. Rank(S, b) \in Nat
          <5> HIDE DEF n
          <5>1. QED
            BY <1>1, <4>3
        <4>5. ~ (b < c) /\ ~ (c < b)
          BY <1>3, <3>1, <4>4
        <4>6. QED
          BY <4>1, <4>5
      <3>2. QED
        BY <3>1
    <2>3. rank \in Injection(S, 1 .. n)
      BY <2>1, <2>2 DEF Injection, IsInjective
    <2>4. IsFiniteSet(1 .. n) /\ Cardinality(1 .. n) = n
      BY <1>1, FS_Interval
    <2> HIDE DEF rank
    <2>5. rank \in Surjection(S, 1 .. n)
      BY <2>3, <2>4, FS_Injection
    <2>6. \A k \in 1 .. n : \E b \in S : rank[b] = k
      BY <2>5 DEF Surjection
    <2>7. QED
      BY <2>6 DEF rank
  <1>5. ASSUME NEW k \in 1 .. n
        PROVE  Ascending(S)[k] \in S /\ Rank(S, Ascending(S)[k]) = k
    <2>1. Ascending(S)[k] = CHOOSE b \in S : Rank(S, b) = k
      BY DEF Ascending, Rank
    <2>2. \E b \in S : Rank(S, b) = k
      BY <1>4
    <2>3. QED
      BY <2>1, <2>2
  <1>6. Ascending(S) \in [1 .. n -> S]
    <2>1. Ascending(S) = [k \in 1 .. n |-> Ascending(S)[k]]
      BY DEF Ascending
    <2>2. QED
      BY <1>5, <2>1
  <1>7. QED
    BY <1>1, <1>2, <1>3, <1>5, <1>6

(* The first blocks of the runs.                                           *)
Starts(missing) == {b \in missing : b - 1 \notin missing}

(* The tasks redirect_read cuts from t for the blocks it misses: each is a *)
(* run of missing blocks that goes on to the next block that is not missing*)
LEMMA RunsAreMissing ==
    ASSUME NEW t \in Task, t.len > 0,
           NEW missing \in SUBSET (t.offset .. t.offset + t.len - 1)
    PROVE  /\ Runs(t, missing) \in Seq(Task) /\ IsFiniteSet(Starts(missing))
           /\ Len(Runs(t, missing)) = Cardinality(Starts(missing))
           /\ \A k \in 1 .. Len(Runs(t, missing)) :
                LET run == Runs(t, missing)[k]
                IN  /\ run.queue_idx = t.queue_idx /\ run.id = t.id
                    /\ run.type = t.type /\ run.op = t.op
                    /\ run.len \in 1 .. t.len
                    /\ run.offset .. run.offset + run.len - 1 \subseteq missing
                    /\ run.offset = Ascending(Starts(missing))[k]
                    /\ run.offset + run.len \notin missing
  <1> DEFINE S == {b \in missing : b - 1 \notin missing}
             After(b) == {n \in 1 .. t.len : b + n \notin missing}
             RunLen(b) == Min(After(b))
             run(k) == [t EXCEPT !.offset = Ascending(S)[k], !.len = RunLen(Ascending(S)[k])]
  <1>1. t.offset \in Nat /\ t.len \in Nat /\ \A b \in missing : b \in Nat
    BY DEF Task
  <1>2. IsFiniteSet(S) /\ \A b \in S : b \in Nat
    <2>1. IsFiniteSet(t.offset .. t.offset + t.len - 1)
      <3>1. t.offset \in Int /\ t.offset + t.len - 1 \in Int
        BY <1>1
      <3>2. QED
        BY <3>1, FS_Interval
    <2>2. S \in SUBSET (t.offset .. t.offset + t.len - 1)
      OBVIOUS
    <2>3. QED
      <3>1. IsFiniteSet(S)
        BY <2>1, <2>2, FS_Subset
      <3>2. \A b \in S : b \in Nat
        BY <1>1, <2>2
      <3>3. QED
        BY <3>1, <3>2
  <1>3. ASSUME NEW b \in missing
        PROVE  /\ RunLen(b) \in 1 .. t.len /\ b + RunLen(b) \notin missing
               /\ b .. b + RunLen(b) - 1 \subseteq missing
    <2>1. b \in Nat /\ t.offset <= b /\ b < t.offset + t.len
      BY <1>1
    <2>2. t.offset + t.len - b \in After(b)
      <3>1. t.offset + t.len - b \in 1 .. t.len
        BY <1>1, <2>1
      <3>2. b + (t.offset + t.len - b) = t.offset + t.len
        BY <1>1, <2>1
      <3>3. t.offset + t.len \notin missing
        BY <1>1
      <3>4. QED
        BY <3>1, <3>2, <3>3
    <2>3. After(b) \in SUBSET Nat /\ After(b) # {}
      BY <2>2
    <2>4. RunLen(b) \in After(b) /\ \A n \in After(b) : RunLen(b) <= n
      <3> HIDE DEF After
      <3>1. \E x \in After(b) : \A y \in After(b) : x <= y
        BY <2>3, LeastNatural
      <3>2. QED
        BY <3>1 DEF Min
    <2> HIDE DEF RunLen
    <2>5. ASSUME NEW c \in b .. b + RunLen(b) - 1
          PROVE  c \in missing
      <3>1. CASE c = b
        BY <3>1
      <3>2. CASE c # b
        <4>1. c - b \in 1 .. t.len /\ c - b < RunLen(b) /\ b + (c - b) = c
          BY <1>1, <2>1, <2>4, <3>2
        <4>2. c - b \notin After(b)
          BY <2>4, <4>1
        <4>3. QED
          BY <4>1, <4>2
      <3>3. QED
        BY <3>1, <3>2
    <2>6. QED
      BY <2>4, <2>5
  <1>4. Runs(t, missing) = [k \in DOMAIN Ascending(S) |-> run(k)]
    BY Zenon DEF Runs
  <1> HIDE DEF S, RunLen, After
  <1>5. /\ Cardinality(S) \in Nat /\ DOMAIN Ascending(S) = 1 .. Cardinality(S)
        /\ \A k \in 1 .. Cardinality(S) : Ascending(S)[k] \in missing
    <2>1. \A b \in S : b \in missing
      BY DEF S
    <2>2. Cardinality(S) \in Nat /\ Ascending(S) \in [1 .. Cardinality(S) -> S]
      BY <1>2, AscendingFacts
    <2>3. QED
      BY <2>1, <2>2
  <1>6. ASSUME NEW k \in 1 .. Cardinality(S)
        PROVE  /\ run(k) \in Task
               /\ run(k).offset = Ascending(S)[k] /\ run(k).len = RunLen(Ascending(S)[k])
               /\ run(k).queue_idx = t.queue_idx /\ run(k).id = t.id
               /\ run(k).type = t.type /\ run(k).op = t.op
    <2>1. Ascending(S)[k] \in Nat /\ RunLen(Ascending(S)[k]) \in Nat
      <3>1. PICK b \in missing : b = Ascending(S)[k]
        BY <1>5
      <3>2. b \in Nat
        BY <1>1
      <3>3. RunLen(b) \in 1 .. t.len
        BY <1>3
      <3>4. QED
        BY <1>1, <3>1, <3>2, <3>3
    <2>2. QED
      BY <2>1 DEF Task
  <1> HIDE DEF run
  <1>7. Runs(t, missing) = [k \in 1 .. Cardinality(S) |-> run(k)]
    BY <1>4, <1>5
  <1>8. /\ Runs(t, missing) \in Seq(Task) /\ Len(Runs(t, missing)) = Cardinality(S)
    BY <1>5, <1>6, <1>7
  <1>9. ASSUME NEW k \in 1 .. Cardinality(S)
        PROVE  /\ run(k).queue_idx = t.queue_idx /\ run(k).id = t.id
               /\ run(k).type = t.type /\ run(k).op = t.op
               /\ run(k).len \in 1 .. t.len
               /\ run(k).offset .. run(k).offset + run(k).len - 1 \subseteq missing
               /\ run(k).offset = Ascending(S)[k]
               /\ run(k).offset + run(k).len \notin missing
    BY <1>3, <1>5, <1>6
  <1>10. S = Starts(missing)
    BY DEF S, Starts
  <1>11. QED
    BY <1>2, <1>7, <1>8, <1>9, <1>10

LEMMA NextQueueIsClient == \A i \in Clients : NextQueue(i) \in Clients
  <1> SUFFICES ASSUME NEW i \in Clients PROVE NextQueue(i) \in Clients
    OBVIOUS
  <1>1. SubmitNum - 1 \in 0 .. 15 /\ i + 1 \in Nat
    BY SchedulerConstants DEF Clients
  <1>2. And(i + 1, SubmitNum - 1) \in 0 .. SubmitNum - 1
    BY <1>1, AndIsBelow
  <1>3. QED
    BY <1>2 DEF NextQueue, Clients

-----------------------------------------------------------------------------
(* Where a task can be.                                                    *)

(* A task in the submit queue of client c.                                 *)
Submitted(c) == {t \in Task : t.queue_idx = c /\ t.to = c /\ t.len > 0}

(* The tasks for worker w.                                                 *)
NvmPart(w) == {t \in Task : t.type = "nvm" /\ t.queue_idx = w /\ t.to = w /\ t.len > 0}
SsdPart(w) == {t \in Task : t.type = "ssd" /\ BelongsTo(t, w)}
Part == {t \in Task : t \in NvmPart(t.to) \/ t \in SsdPart(t.to)}

(* Tasks like t about some of its blocks, or about none.                   *)
PiecesOf(t) ==
    {u \in Task : /\ u.queue_idx = t.queue_idx /\ u.id = t.id /\ u.type = t.type /\ u.op = t.op
                  /\ t.offset <= u.offset /\ u.offset < t.offset + t.len
                  /\ u.offset + u.len <= t.offset + t.len}

(* Tasks like t about some of its blocks.                                  *)
RunsOf(t) == {u \in PiecesOf(t) : u.len > 0}

Errand == [task : Task, misses : Seq(Task), hits : Nat]

ErrandsAt(w) ==
    {e \in Errand : /\ e.task \in NvmPart(w) \cup SsdPart(w)
                    /\ e.misses \in Seq(RunsOf(e.task))
                    /\ e.misses # <<>> => e.task.type = "ssd" /\ e.task.op = "read"
                    /\ e.hits <= e.task.len}

ClientsAre ==
    /\ pc \in [Clients -> {"idle", "post", "wait"}]
    /\ task \in [Clients -> Task] /\ ret \in [Clients -> Nat]
    /\ posted \in [Clients -> 0 .. MaxTasks]
    /\ \A c \in Clients : pc[c] # "idle" => task[c] \in Submitted(c) /\ task[c].id = posted[c]

SubmitsAre ==
    /\ submitQueue \in [Clients -> Seq(Task)]
    /\ \A c \in Clients : submitQueue[c] \in Seq(Submitted(c)) /\ Len(submitQueue[c]) <= Capacity

PollsAre == idx \in Clients /\ toPost \in Seq(Part)

NvmQueuesAre ==
    /\ nvmQueue \in [Workers -> Seq(Task)]
    /\ \A w \in Workers : nvmQueue[w] \in Seq(NvmPart(w)) /\ Len(nvmQueue[w]) <= Capacity

BufferQueuesAre ==
    /\ bufferQueue \in [Workers -> Seq(Task)]
    /\ \A w \in Workers : bufferQueue[w] \in Seq(SsdPart(w)) /\ Len(bufferQueue[w]) <= Capacity

HandsAre ==
    /\ seq \in [Workers -> BOOLEAN] /\ hand \in [Workers -> Seq(Errand)]
    /\ \A w \in Workers : hand[w] \in Seq(ErrandsAt(w)) /\ Len(hand[w]) <= 1

SsdQueuesAre ==
    /\ ssdQueue \in [Workers -> Seq(Task)]
    /\ \A w \in Workers : ssdQueue[w] \in Seq(SsdPart(w)) /\ Len(ssdQueue[w]) <= Capacity

SsdTasksAre ==
    /\ ssdTask \in [Workers -> Seq(Task)]
    /\ \A w \in Workers : ssdTask[w] \in Seq(SsdPart(w)) /\ Len(ssdTask[w]) <= 1

CountersAre ==
    /\ completedNvm \in Nat /\ completedSsd \in Nat /\ completedRead \in Nat
    /\ accepted \in Nat /\ unplaced \in Nat

Located ==
    /\ ClientsAre /\ SubmitsAre /\ PollsAre /\ NvmQueuesAre /\ BufferQueuesAre
    /\ HandsAre /\ SsdQueuesAre /\ SsdTasksAre /\ CountersAre

(* What the scheduler makes of a task from the submit queue of client c.   *)
LEMMA PartsAreParts ==
    ASSUME NEW c \in Clients, NEW h \in Submitted(c), NEW t \in HandledTasks(h)
    PROVE  /\ t \in Submitted(c) /\ t.op = h.op /\ t.len = h.len /\ t.id = h.id
           /\ Parts(t) \in Seq(Part)
           /\ \A i \in 1 .. Len(Parts(t)) :
                Parts(t)[i].id = h.id /\ Parts(t)[i].queue_idx = c /\ Parts(t)[i].op = h.op
  <1>1. h \in Task /\ h.offset \in Nat /\ h.len \in Nat /\ h.queue_idx = c /\ h.to = c
        /\ h.len > 0
    BY DEF Submitted, Task
  <1>2. Threshold \in Nat
    BY WorkersTake
  <1>3. /\ t \in Task /\ t.op = h.op /\ t.len = h.len /\ t.id = h.id /\ t.queue_idx = c /\ t.to = c
    <2>1. CASE t = [h EXCEPT !.type = "nvm"]
      BY <1>1, <2>1 DEF Task
    <2>2. CASE h.offset >= Threshold
               /\ t = [h EXCEPT !.type = "ssd", !.offset = @ - Threshold]
      <3>1. h.offset - Threshold \in Nat
        BY <1>1, <1>2, <2>2
      <3>2. QED
        BY <1>1, <2>2, <3>1 DEF Task
    <2>3. CASE \E y \in {"none", "nvm", "ssd"} : t = [h EXCEPT !.type = y]
      BY <1>1, <2>3 DEF Task
    <2>4. QED
      BY <2>1, <2>2, <2>3 DEF HandledTasks
  <1>4. t \in Submitted(c)
    BY <1>1, <1>3 DEF Submitted
  <1>5. CASE t.type = "nvm"
    <2>1. t \in Part /\ Parts(t) = <<t>>
      <3>1. t \in NvmPart(t.to)
        BY <1>1, <1>3, <1>5 DEF NvmPart
      <3>2. QED
        BY <1>3, <1>5, <3>1 DEF Part, Parts
    <2>2. QED
      BY <1>3, <1>4, <2>1
  <1>6. CASE t.type = "ssd"
    <2>1. Parts(t) = Stripes(t)
      BY <1>6 DEF Parts
    <2>2. /\ Stripes(t) \in Seq(Task)
          /\ \A k \in 1 .. Len(Stripes(t)) :
                /\ Stripes(t)[k] = [t EXCEPT !.offset = First(t, k),
                                             !.len = End(t, k) - First(t, k),
                                             !.to = (Home(t.offset) + k - 1) % QueueNum]
                /\ BelongsTo(Stripes(t)[k], Stripes(t)[k].to)
      BY <1>1, <1>3, StripesGoHome
    <2> DEFINE P == Stripes(t)
    <2>3. ASSUME NEW k \in 1 .. Len(P)
          PROVE  P[k] \in Part /\ P[k].id = h.id /\ P[k].queue_idx = c /\ P[k].op = h.op
      <3>1. P[k] \in Task
        <4> HIDE DEF P
        <4>1. P \in Seq(Task)
          BY <2>2 DEF P
        <4>2. QED
          BY <4>1
      <3>2. P[k].id = h.id /\ P[k].queue_idx = c /\ P[k].type = "ssd" /\ P[k].op = h.op
        <4>1. P[k].id = t.id /\ P[k].queue_idx = t.queue_idx /\ P[k].type = t.type
              /\ P[k].op = t.op
          <5>1. P[k] = [t EXCEPT !.offset = First(t, k), !.len = End(t, k) - First(t, k),
                                 !.to = (Home(t.offset) + k - 1) % QueueNum]
            BY <2>2
          <5> HIDE DEF P
          <5>2. QED
            BY <1>3, <5>1, TaskFacts
        <4>2. QED
          BY <1>3, <1>6, <4>1
      <3>3. P[k] \in SsdPart(P[k].to)
        BY <2>2, <3>1, <3>2 DEF SsdPart
      <3>4. QED
        BY <3>1, <3>2, <3>3 DEF Part
    <2> HIDE DEF P
    <2>4. P \in Seq(Task)
      BY <2>2 DEF P
    <2>5. P \in Seq(Part)
      BY <2>3, <2>4
    <2>6. QED
      BY <1>3, <1>4, <2>1, <2>3, <2>5 DEF P
  <1>7. CASE t.type \notin {"nvm", "ssd"}
    <2>1. Parts(t) = <<>>
      BY <1>7 DEF Parts
    <2>2. QED
      BY <1>3, <1>4, <2>1
  <1>8. QED
    BY <1>5, <1>6, <1>7

(* What worker w makes of a task from its queues.                          *)
LEMMA ErrandsAreErrands ==
    ASSUME NEW w \in Workers, NEW t \in NvmPart(w) \cup SsdPart(w), NEW e \in Errands(t)
    PROVE  e \in ErrandsAt(w) /\ e.task = t
  <1>1. t \in Task /\ t.len > 0 /\ t.len \in Nat /\ t.offset \in Nat
    <2>1. t \in Task /\ t.len > 0
      BY DEF NvmPart, SsdPart, BelongsTo
    <2>2. QED
      BY <2>1, TaskFacts
  <1>2. CASE e = [task |-> t, misses |-> <<>>, hits |-> 0]
    <2>1. e.task = t /\ e.misses = <<>> /\ e.hits = 0
      BY <1>2
    <2>2. e \in Errand
      BY <1>1, <1>2 DEF Errand
    <2>3. e.hits <= e.task.len
      BY <1>1, <2>1
    <2>4. e.misses \in Seq(RunsOf(e.task))
      BY <2>1
    <2>5. QED
      BY <2>1, <2>2, <2>3, <2>4 DEF ErrandsAt
  <1>3. CASE t.type = "ssd" /\ t.op = "read" /\ \E missing \in SUBSET (t.offset .. t.offset + t.len - 1) :
               e = [task |-> t, misses |-> Runs(t, missing), hits |-> t.len - Cardinality(missing)]
    <2>1. PICK missing \in SUBSET (t.offset .. t.offset + t.len - 1) :
               e = [task |-> t, misses |-> Runs(t, missing), hits |-> t.len - Cardinality(missing)]
      BY <1>3
    <2>2. t.len - Cardinality(missing) \in Nat /\ t.len - Cardinality(missing) <= t.len
      <3>1. IsFiniteSet(t.offset .. t.offset + t.len - 1)
            /\ Cardinality(t.offset .. t.offset + t.len - 1) = t.len
        <4>1. t.offset \in Int /\ t.offset + t.len - 1 \in Int /\ t.offset <= t.offset + t.len - 1
              /\ (t.offset + t.len - 1) - t.offset + 1 = t.len
          BY <1>1
        <4>2. QED
          BY <4>1, FS_Interval
      <3>2. Cardinality(missing) <= t.len /\ IsFiniteSet(missing)
        BY <3>1, FS_Subset
      <3>3. Cardinality(missing) \in Nat
        BY <3>2, FS_CardinalityType
      <3>4. QED
        BY <1>1, <3>2, <3>3
    <2> DEFINE R == Runs(t, missing)
    <2>3. /\ R \in Seq(Task)
          /\ \A k \in 1 .. Len(R) :
                /\ R[k].queue_idx = t.queue_idx /\ R[k].id = t.id
                /\ R[k].type = t.type /\ R[k].op = t.op
                /\ R[k].len \in 1 .. t.len
                /\ R[k].offset .. R[k].offset + R[k].len - 1 \subseteq missing
                /\ R[k].offset = Ascending(Starts(missing))[k]
                /\ R[k].offset + R[k].len \notin missing
      BY <1>1, RunsAreMissing
    <2> HIDE DEF R
    <2>4. ASSUME NEW k \in 1 .. Len(R)
          PROVE  R[k] \in RunsOf(t)
      <3>1. R[k] \in Task /\ R[k].len \in 1 .. t.len
        BY <2>3, QueueFacts
      <3>2. R[k].offset \in Nat /\ R[k].len \in Nat /\ R[k].len > 0
        BY <1>1, <3>1, TaskFacts
      <3>3. R[k].offset \in missing /\ R[k].offset + R[k].len - 1 \in missing
        <4>1. R[k].offset .. R[k].offset + R[k].len - 1 \subseteq missing
          BY <2>3
        <4>2. QED
          BY <3>2, <4>1
      <3>4. /\ t.offset <= R[k].offset /\ R[k].offset < t.offset + t.len
            /\ R[k].offset + R[k].len <= t.offset + t.len
        <4>1. \A b \in missing : t.offset <= b /\ b <= t.offset + t.len - 1
          BY <1>1
        <4>2. /\ t.offset <= R[k].offset /\ R[k].offset <= t.offset + t.len - 1
              /\ R[k].offset + R[k].len - 1 <= t.offset + t.len - 1
          BY <3>3, <4>1
        <4> HIDE DEF R
        <4>3. QED
          BY <1>1, <3>2, <4>2
      <3>5. /\ R[k].queue_idx = t.queue_idx /\ R[k].id = t.id
            /\ R[k].type = t.type /\ R[k].op = t.op
        BY <2>3
      <3>6. QED
        BY <3>1, <3>2, <3>4, <3>5 DEF RunsOf, PiecesOf
    <2>5. R \in Seq(RunsOf(t))
      BY <2>3, <2>4, SeqByElements
    <2>6. e.task = t /\ e.misses = R /\ e.hits \in Nat /\ e.hits <= t.len /\ e \in Errand
      BY <1>1, <2>1, <2>2, <2>3 DEF Errand, R
    <2>7. QED
      BY <1>3, <2>5, <2>6 DEF ErrandsAt
  <1>4. QED
    BY <1>2, <1>3 DEF Errands

LEMMA LocatedStarts == Init => Located
  <1> SUFFICES ASSUME Init PROVE Located
    OBVIOUS
  <1> USE DEF Init
  <1>1. NoTask \in Task /\ 0 \in Clients
    <2>1. 0 \in Clients /\ 0 \in Workers
      BY WorkersTake DEF Clients, Workers
    <2>2. QED
      BY <2>1 DEF NoTask, Task
  <1>2. ClientsAre /\ SubmitsAre
    BY <1>1, WorkersTake DEF ClientsAre, SubmitsAre
  <1>3. PollsAre /\ NvmQueuesAre /\ BufferQueuesAre
    BY <1>1, WorkersTake DEF PollsAre, NvmQueuesAre, BufferQueuesAre
  <1>4. HandsAre /\ SsdQueuesAre /\ SsdTasksAre /\ CountersAre
    BY WorkersTake DEF HandsAre, SsdQueuesAre, SsdTasksAre, CountersAre
  <1>5. QED
    BY <1>2, <1>3, <1>4 DEF Located

(* The parts of the state that one part of the system keeps.               *)
LEMMA LocatedClients ==
    ASSUME Located, NEW c \in Clients,
           (\E r \in Requests : Request(c, r)) \/ Submit(c) \/ ReadReturns(c)
    PROVE  Located'
  <1>1. /\ ClientsAre /\ SubmitsAre /\ PollsAre /\ NvmQueuesAre /\ BufferQueuesAre
        /\ HandsAre /\ SsdQueuesAre /\ SsdTasksAre /\ CountersAre
    BY DEF Located
  <1>2. /\ UNCHANGED <<idx, toPost, unplaced, nvmQueue, bufferQueue, seq, hand, completedNvm,
                       ssdQueue, ssdTask, completedSsd>>
    BY DEF Request, Submit, ReadReturns, scheduler, nvm, ssd
  <1>3. PollsAre' /\ NvmQueuesAre' /\ BufferQueuesAre' /\ HandsAre' /\ SsdQueuesAre' /\ SsdTasksAre'
    BY <1>1, <1>2 DEF PollsAre, NvmQueuesAre, BufferQueuesAre, HandsAre, SsdQueuesAre, SsdTasksAre
  <1>4. ASSUME NEW r \in Requests, Request(c, r)
        PROVE  ClientsAre' /\ SubmitsAre' /\ CountersAre'
    <2>1. /\ pc[c] = "idle" /\ posted' = [posted EXCEPT ![c] = @ + 1]
          /\ SumBelow(SubmitNum, posted) < MaxTasks
          /\ task' = [task EXCEPT ![c] =
                [op |-> r.op, type |-> "none", offset |-> r.offset, len |-> r.len,
                 queue_idx |-> c, id |-> posted'[c], to |-> c]]
          /\ ret' = [ret EXCEPT ![c] = 0] /\ pc' = [pc EXCEPT ![c] = "post"]
          /\ UNCHANGED <<submitQueue, accepted, completedRead>>
      BY <1>4 DEF Request
    <2>2. posted[c] + 1 \in 0 .. MaxTasks
      <3>1. \A d \in 0 .. SubmitNum - 1 : posted[d] \in Nat
        BY <1>1 DEF ClientsAre, Clients
      <3>2. SumBelow(SubmitNum, posted) \in Nat /\ posted[c] <= SumBelow(SubmitNum, posted)
        BY <3>1, WorkersTake, SumOfNaturals DEF Clients
      <3>3. posted[c] \in Nat /\ MaxTasks \in Nat
        BY <3>1, WorkersTake DEF Clients
      <3>4. QED
        BY <2>1, <3>2, <3>3
    <2>3. posted' \in [Clients -> 0 .. MaxTasks] /\ posted'[c] = posted[c] + 1
      BY <1>1, <2>1, <2>2 DEF ClientsAre
    <2>4. task'[c] \in Task /\ task'[c] \in Submitted(c) /\ task'[c].id = posted'[c]
      <3>1. r.op \in {"read", "write"} /\ r.offset \in Nat /\ r.len \in Nat \ {0}
        BY SchedulerConstants
      <3>2. posted'[c] \in Nat /\ c \in Workers
        BY <2>3, WorkersTake
      <3>3. task'[c] = [op |-> r.op, type |-> "none", offset |-> r.offset, len |-> r.len,
                        queue_idx |-> c, id |-> posted'[c], to |-> c]
        BY <1>1, <2>1 DEF ClientsAre
      <3>4. task'[c] \in Task
        BY <3>1, <3>2, <3>3 DEF Task
      <3>5. QED
        BY <3>1, <3>3, <3>4 DEF Submitted
    <2>5. pc' \in [Clients -> {"idle", "post", "wait"}] /\ ret' \in [Clients -> Nat]
      BY <1>1, <2>1 DEF ClientsAre
    <2>6. task' \in [Clients -> Task]
      BY <1>1, <2>1, <2>4 DEF ClientsAre
    <2>7. ASSUME NEW d \in Clients, pc'[d] # "idle"
          PROVE  task'[d] \in Submitted(d) /\ task'[d].id = posted'[d]
      <3>1. CASE d = c
        BY <2>4, <3>1
      <3>2. CASE d # c
        <4>1. pc'[d] = pc[d] /\ task'[d] = task[d] /\ posted'[d] = posted[d]
          BY <1>1, <2>1, <3>2 DEF ClientsAre
        <4>2. QED
          BY <1>1, <2>7, <4>1 DEF ClientsAre
      <3>3. QED
        BY <3>1, <3>2
    <2>8. QED
      BY <1>1, <1>2, <2>1, <2>3, <2>5, <2>6, <2>7 DEF ClientsAre, SubmitsAre, CountersAre
  <1>5. ASSUME Submit(c)
        PROVE  ClientsAre' /\ SubmitsAre' /\ CountersAre'
    <2>1. /\ pc[c] = "post" /\ Len(submitQueue[c]) < Capacity
          /\ submitQueue' = [submitQueue EXCEPT ![c] = Append(@, task[c])]
          /\ accepted' = accepted + WriteLen(task[c])
          /\ pc' = [pc EXCEPT ![c] = IF task[c].op = "write" THEN "idle" ELSE "wait"]
          /\ UNCHANGED <<task, ret, posted, completedRead>>
      BY <1>5 DEF Submit
    <2>2. task[c] \in Submitted(c) /\ task[c] \in Task
      BY <1>1, <2>1 DEF ClientsAre
    <2>3. ClientsAre'
      BY <1>1, <2>1 DEF ClientsAre
    <2>4. WriteLen(task[c]) \in Nat
      BY <2>2, TaskFacts DEF WriteLen
    <2>5. CountersAre'
      BY <1>1, <1>2, <2>1, <2>4 DEF CountersAre
    <2>6. /\ Append(submitQueue[c], task[c]) \in Seq(Task)
          /\ Append(submitQueue[c], task[c]) \in Seq(Submitted(c))
          /\ Len(Append(submitQueue[c], task[c])) <= Capacity
      <3>1. submitQueue[c] \in Seq(Task) /\ submitQueue[c] \in Seq(Submitted(c))
        BY <1>1 DEF SubmitsAre
      <3>2. QED
        BY <2>1, <2>2, <3>1, Enqueued
    <2>7. SubmitsAre'
      BY <1>1, <2>1, <2>6 DEF SubmitsAre
    <2>8. QED
      BY <2>3, <2>5, <2>7
  <1>6. ASSUME ReadReturns(c)
        PROVE  ClientsAre' /\ SubmitsAre' /\ CountersAre'
    BY <1>1, <1>2, <1>6 DEF ReadReturns, ClientsAre, SubmitsAre, CountersAre
  <1>7. QED
    BY <1>3, <1>4, <1>5, <1>6 DEF Located

LEMMA LocatedScheduler ==
    ASSUME Located, SchedulerStep
    PROVE  Located'
  <1>1. /\ ClientsAre /\ SubmitsAre /\ PollsAre /\ NvmQueuesAre /\ BufferQueuesAre
        /\ HandsAre /\ SsdQueuesAre /\ SsdTasksAre /\ CountersAre
    BY DEF Located
  <1>2. UNCHANGED <<pc, task, ret, posted, completedRead, seq, hand, completedNvm,
                    ssdQueue, ssdTask, completedSsd, accepted>>
    BY DEF SchedulerStep, Poll, PostToNvm, PostToBuffer, client, nvm, ssd
  <1>3. ClientsAre' /\ HandsAre' /\ SsdQueuesAre' /\ SsdTasksAre'
    BY <1>1, <1>2 DEF ClientsAre, HandsAre, SsdQueuesAre, SsdTasksAre
  <1>4. ASSUME Poll
        PROVE  SubmitsAre' /\ PollsAre' /\ NvmQueuesAre' /\ BufferQueuesAre' /\ CountersAre'
    <2>1. NvmQueuesAre' /\ BufferQueuesAre'
      BY <1>1, <1>4 DEF Poll, NvmQueuesAre, BufferQueuesAre
    <2>2. idx \in Clients /\ idx' \in Clients
      BY <1>1, <1>4, NextQueueIsClient DEF Poll, PollsAre
    <2>3. CASE submitQueue[idx] = <<>> /\ UNCHANGED <<submitQueue, toPost, unplaced>>
      BY <1>1, <1>2, <2>1, <2>2, <2>3 DEF SubmitsAre, PollsAre, CountersAre
    <2>4. CASE submitQueue[idx] # <<>>
      <3>1. PICK t \in HandledTasks(Head(submitQueue[idx])) :
               /\ toPost' = Parts(t)
               /\ unplaced' = unplaced + IF t.type = "none" THEN WriteLen(t) ELSE 0
        BY <1>4, <2>4 DEF Poll
      <3>2. submitQueue' = [submitQueue EXCEPT ![idx] = Tail(@)]
        BY <1>4, <2>4 DEF Poll
      <3>3. submitQueue[idx] \in Seq(Submitted(idx)) /\ submitQueue[idx] \in Seq(Task)
        BY <1>1, <2>2 DEF SubmitsAre
      <3>4. Head(submitQueue[idx]) \in Submitted(idx)
        BY <2>4, <3>3, QueueFacts
      <3>5. /\ Tail(submitQueue[idx]) \in Seq(Submitted(idx))
            /\ Tail(submitQueue[idx]) \in Seq(Task)
            /\ Len(Tail(submitQueue[idx])) <= Capacity
        <4>1. Len(submitQueue[idx]) <= Capacity
          BY <1>1, <2>2 DEF SubmitsAre
        <4>2. QED
          BY <2>4, <3>3, <4>1, Dequeued
      <3>6. SubmitsAre'
        BY <1>1, <3>2, <3>5 DEF SubmitsAre
      <3>7. Parts(t) \in Seq(Part) /\ t \in Submitted(idx)
        BY <2>2, <3>4, PartsAreParts
      <3>8. WriteLen(t) \in Nat
        BY <3>7, TaskFacts DEF WriteLen, Submitted
      <3>9. CountersAre'
        BY <1>1, <1>2, <3>1, <3>8 DEF CountersAre
      <3>10. QED
        BY <2>1, <2>2, <3>1, <3>6, <3>7, <3>9 DEF PollsAre
    <2>5. QED
      BY <1>4, <2>3, <2>4 DEF Poll
  <1>5. ASSUME toPost # <<>>
        PROVE  /\ Head(toPost) \in Part /\ Tail(toPost) \in Seq(Part)
               /\ Head(toPost) \in Task /\ Head(toPost).to \in Workers
    <2>1. Head(toPost) \in Part /\ Tail(toPost) \in Seq(Part)
      BY <1>1, <1>5, QueueFacts DEF PollsAre
    <2>2. Head(toPost) \in Task
      BY <2>1 DEF Part
    <2>3. QED
      BY <2>1, <2>2, TaskFacts
  <1>6. ASSUME PostToNvm
        PROVE  SubmitsAre' /\ PollsAre' /\ NvmQueuesAre' /\ BufferQueuesAre' /\ CountersAre'
    <2>1. SubmitsAre' /\ BufferQueuesAre' /\ CountersAre'
      BY <1>1, <1>2, <1>6 DEF PostToNvm, SubmitsAre, BufferQueuesAre, CountersAre
    <2>2. PollsAre'
      BY <1>1, <1>5, <1>6 DEF PostToNvm, PollsAre
    <2>3. PICK t \in Part : t = Head(toPost)
      BY <1>5, <1>6 DEF PostToNvm
    <2>4. /\ t.type = "nvm" /\ Len(nvmQueue[t.to]) < Capacity
          /\ nvmQueue' = [nvmQueue EXCEPT ![t.to] = Append(@, t)]
      BY <1>6, <2>3 DEF PostToNvm
    <2>5. t.to \in Workers /\ t \in NvmPart(t.to) /\ t \in Task
      BY <1>5, <1>6, <2>3, <2>4 DEF PostToNvm, Part, NvmPart, SsdPart
    <2>6. /\ Append(nvmQueue[t.to], t) \in Seq(Task)
          /\ Append(nvmQueue[t.to], t) \in Seq(NvmPart(t.to))
          /\ Len(Append(nvmQueue[t.to], t)) <= Capacity
      <3>1. nvmQueue[t.to] \in Seq(Task) /\ nvmQueue[t.to] \in Seq(NvmPart(t.to))
        BY <1>1, <2>5 DEF NvmQueuesAre
      <3>2. QED
        BY <2>4, <2>5, <3>1, Enqueued
    <2>7. NvmQueuesAre'
      BY <1>1, <2>4, <2>5, <2>6 DEF NvmQueuesAre
    <2>8. QED
      BY <2>1, <2>2, <2>7
  <1>7. ASSUME PostToBuffer
        PROVE  SubmitsAre' /\ PollsAre' /\ NvmQueuesAre' /\ BufferQueuesAre' /\ CountersAre'
    <2>1. SubmitsAre' /\ NvmQueuesAre' /\ CountersAre'
      BY <1>1, <1>2, <1>7 DEF PostToBuffer, SubmitsAre, NvmQueuesAre, CountersAre
    <2>2. PollsAre'
      BY <1>1, <1>5, <1>7 DEF PostToBuffer, PollsAre
    <2>3. PICK t \in Part : t = Head(toPost)
      BY <1>5, <1>7 DEF PostToBuffer
    <2>4. /\ t.type = "ssd" /\ Len(bufferQueue[t.to]) < Capacity
          /\ bufferQueue' = [bufferQueue EXCEPT ![t.to] = Append(@, t)]
      BY <1>7, <2>3 DEF PostToBuffer
    <2>5. t.to \in Workers /\ t \in SsdPart(t.to) /\ t \in Task
      BY <1>5, <1>7, <2>3, <2>4 DEF PostToBuffer, Part, NvmPart, SsdPart
    <2>6. /\ Append(bufferQueue[t.to], t) \in Seq(Task)
          /\ Append(bufferQueue[t.to], t) \in Seq(SsdPart(t.to))
          /\ Len(Append(bufferQueue[t.to], t)) <= Capacity
      <3>1. bufferQueue[t.to] \in Seq(Task) /\ bufferQueue[t.to] \in Seq(SsdPart(t.to))
        BY <1>1, <2>5 DEF BufferQueuesAre
      <3>2. QED
        BY <2>4, <2>5, <3>1, Enqueued
    <2>7. BufferQueuesAre'
      BY <1>1, <2>4, <2>5, <2>6 DEF BufferQueuesAre
    <2>8. QED
      BY <2>1, <2>2, <2>7
  <1>8. QED
    BY <1>3, <1>4, <1>6, <1>7 DEF Located, SchedulerStep

LEMMA RetStaysNatural ==
    ASSUME ClientsAre, NEW t \in Task, NEW n \in Nat, AddToRet(t, n)
    PROVE  ret' \in [Clients -> Nat]
  <1>1. t.queue_idx \in Clients /\ ret \in [Clients -> Nat]
    BY TaskFacts DEF ClientsAre
  <1>2. QED
    BY <1>1 DEF AddToRet

LEMMA MissIsPosted ==
    ASSUME Located, NEW w \in Workers, RedirectReadMiss(w)
    PROVE  /\ hand' = [hand EXCEPT ![w] = <<[Head(hand[w]) EXCEPT !.misses = Tail(@)]>>]
           /\ hand[w] # <<>> /\ Head(hand[w]) \in ErrandsAt(w) /\ hand[w] = <<Head(hand[w])>>
  <1>1. hand[w] # <<>> /\ hand' = [hand EXCEPT ![w][1].misses = Tail(@)]
    BY DEF RedirectReadMiss
  <1>2. hand[w] \in Seq(ErrandsAt(w)) /\ Len(hand[w]) <= 1
    BY DEF Located, HandsAre
  <1>3. PICK e \in ErrandsAt(w) : e = Head(hand[w]) /\ hand[w] = <<e>>
    <2>1. Head(hand[w]) \in ErrandsAt(w)
      BY <1>1, <1>2, QueueFacts
    <2>2. hand[w] = <<Head(hand[w])>>
      BY <1>1, <1>2
    <2>3. QED
      BY <2>1, <2>2
  <1>4. PICK f : f = [e EXCEPT !.misses = Tail(@)]
    OBVIOUS
  <1>5. hand' = [hand EXCEPT ![w] = [hand[w] EXCEPT ![1] = f]]
    BY <1>1, <1>3, <1>4
  <1>6. [<<e>> EXCEPT ![1] = f] = <<f>>
    OBVIOUS
  <1>7. QED
    BY <1>1, <1>3, <1>4, <1>5, <1>6

LEMMA LocatedNvmWorker ==
    ASSUME Located, NEW w \in Workers, NvmWorkerStep(w)
    PROVE  Located'
  <1>1. /\ ClientsAre /\ SubmitsAre /\ PollsAre /\ NvmQueuesAre /\ BufferQueuesAre
        /\ HandsAre /\ SsdQueuesAre /\ SsdTasksAre /\ CountersAre
    BY DEF Located
  <1>2. UNCHANGED <<pc, task, posted, completedRead, submitQueue, idx, toPost, unplaced,
                    ssdTask, completedSsd, accepted>>
    BY DEF NvmWorkerStep, Take, ServeNvm, RedirectSmallWrite, RedirectLargeWrite,
           RedirectReadMiss, RedirectReadDone, client, scheduler, nvm, ssd
  <1>3. SubmitsAre' /\ PollsAre' /\ SsdTasksAre'
    BY <1>1, <1>2 DEF SubmitsAre, PollsAre, SsdTasksAre
  <1>4. hand \in [Workers -> Seq(Errand)] /\ hand[w] \in Seq(Errand)
        /\ hand[w] \in Seq(ErrandsAt(w)) /\ Len(hand[w]) <= 1
    BY <1>1 DEF HandsAre
  <1>5. ASSUME hand[w] # <<>>
        PROVE  /\ Head(hand[w]) \in ErrandsAt(w) /\ hand[w] = <<Head(hand[w])>>
               /\ Head(hand[w]).task \in Task
               /\ Head(hand[w]).task \in NvmPart(w) \cup SsdPart(w)
               /\ Head(hand[w]).hits \in Nat
    <2>1. Head(hand[w]) \in ErrandsAt(w)
      BY <1>4, <1>5, QueueFacts
    <2>2. hand[w] = <<Head(hand[w])>>
      BY <1>4, <1>5
    <2>3. QED
      BY <2>1, <2>2 DEF ErrandsAt, Errand
  <1>6. ASSUME hand' = [hand EXCEPT ![w] = <<>>], UNCHANGED seq
        PROVE  HandsAre'
    BY <1>1, <1>6 DEF HandsAre
  <1>7. ASSUME NEW t \in Task, NEW n \in Nat, AddToRet(t, n), UNCHANGED <<pc, task, posted>>
        PROVE  ClientsAre'
    <2>1. ret' \in [Clients -> Nat]
      BY <1>1, <1>7, RetStaysNatural
    <2>2. QED
      BY <1>1, <1>7, <2>1 DEF ClientsAre
  <1>8. CASE Take(w)
    <2>1. /\ ClientsAre' /\ SsdQueuesAre' /\ CountersAre'
      BY <1>1, <1>2, <1>8 DEF Take, client, ClientsAre, SsdQueuesAre, CountersAre
    <2>2. seq' \in [Workers -> BOOLEAN]
      BY <1>1, <1>8 DEF Take, HandsAre
    <2> DEFINE q == IF seq[w] THEN nvmQueue[w] ELSE bufferQueue[w]
    <2>3. CASE q = <<>> /\ UNCHANGED <<hand, nvmQueue, bufferQueue>>
      BY <1>1, <1>3, <2>1, <2>2, <2>3
         DEF HandsAre, NvmQueuesAre, BufferQueuesAre, Located
    <2>4. CASE q # <<>>
      <3>1. PICK e \in Errands(Head(q)) : hand' = [hand EXCEPT ![w] = <<e>>]
        BY <1>8, <2>4 DEF Take
      <3>2. /\ nvmQueue' = IF seq[w] THEN [nvmQueue EXCEPT ![w] = Tail(@)] ELSE nvmQueue
            /\ bufferQueue' = IF seq[w] THEN bufferQueue ELSE [bufferQueue EXCEPT ![w] = Tail(@)]
        BY <1>8, <2>4 DEF Take
      <3>3. Head(q) \in NvmPart(w) \cup SsdPart(w) /\ NvmQueuesAre' /\ BufferQueuesAre'
        <4>1. CASE seq[w]
          <5>1. nvmQueue[w] \in Seq(Task) /\ nvmQueue[w] \in Seq(NvmPart(w))
                /\ Len(nvmQueue[w]) <= Capacity
            BY <1>1 DEF NvmQueuesAre
          <5>2. /\ Head(q) \in NvmPart(w)
                /\ Tail(q) \in Seq(Task) /\ Tail(q) \in Seq(NvmPart(w)) /\ Len(Tail(q)) <= Capacity
            BY <2>4, <4>1, <5>1, Dequeued
          <5>3. nvmQueue' = [nvmQueue EXCEPT ![w] = Tail(q)] /\ UNCHANGED bufferQueue
            BY <3>2, <4>1
          <5> HIDE DEF q
          <5>4. NvmQueuesAre'
            BY <1>1, <5>2, <5>3 DEF NvmQueuesAre
          <5>5. BufferQueuesAre'
            BY <1>1, <5>3 DEF BufferQueuesAre
          <5>6. QED
            BY <5>2, <5>4, <5>5
        <4>2. CASE ~ seq[w]
          <5>1. bufferQueue[w] \in Seq(Task) /\ bufferQueue[w] \in Seq(SsdPart(w))
                /\ Len(bufferQueue[w]) <= Capacity
            BY <1>1 DEF BufferQueuesAre
          <5>2. /\ Head(q) \in SsdPart(w)
                /\ Tail(q) \in Seq(Task) /\ Tail(q) \in Seq(SsdPart(w)) /\ Len(Tail(q)) <= Capacity
            BY <2>4, <4>2, <5>1, Dequeued
          <5>3. bufferQueue' = [bufferQueue EXCEPT ![w] = Tail(q)] /\ UNCHANGED nvmQueue
            BY <3>2, <4>2
          <5> HIDE DEF q
          <5>4. BufferQueuesAre'
            BY <1>1, <5>2, <5>3 DEF BufferQueuesAre
          <5>5. NvmQueuesAre'
            BY <1>1, <5>3 DEF NvmQueuesAre
          <5>6. QED
            BY <5>2, <5>4, <5>5
        <4>3. QED
          BY <4>1, <4>2
      <3> HIDE DEF q
      <3>4. e \in ErrandsAt(w)
        BY <3>3, ErrandsAreErrands
      <3>5. <<e>> \in Seq(ErrandsAt(w)) /\ <<e>> \in Seq(Errand) /\ Len(<<e>>) <= 1
        BY <3>4 DEF ErrandsAt
      <3>6. HandsAre'
        BY <1>1, <2>2, <3>1, <3>5 DEF HandsAre
      <3>7. QED
        BY <1>3, <2>1, <3>3, <3>6 DEF Located
    <2>5. QED
      BY <1>8, <2>3, <2>4 DEF Take
  <1>9. CASE ServeNvm(w)
    <2>1. PICK t \in Task : t = Head(hand[w]).task
      BY <1>5, <1>9 DEF ServeNvm
    <2>2. /\ \/ completedNvm' = completedNvm + t.len /\ UNCHANGED ret
             \/ AddToRet(t, t.len) /\ UNCHANGED completedNvm
          /\ hand' = [hand EXCEPT ![w] = <<>>]
          /\ UNCHANGED <<nvmQueue, bufferQueue, seq, ssdQueue>>
      BY <1>9, <2>1 DEF ServeNvm
    <2>3. t.len \in Nat
      BY TaskFacts
    <2>4. ClientsAre'
      BY <1>1, <1>2, <1>7, <2>2, <2>3 DEF ClientsAre
    <2>5. CountersAre'
      BY <1>1, <1>2, <2>2, <2>3 DEF CountersAre
    <2>6. NvmQueuesAre' /\ BufferQueuesAre' /\ SsdQueuesAre'
      BY <1>1, <2>2 DEF NvmQueuesAre, BufferQueuesAre, SsdQueuesAre
    <2>7. QED
      BY <1>3, <1>6, <2>2, <2>4, <2>5, <2>6 DEF Located
  <1>10. CASE RedirectSmallWrite(w)
    <2>1. PICK t \in Task : t = Head(hand[w]).task
      BY <1>5, <1>10 DEF RedirectSmallWrite
    <2>2. /\ completedNvm' = completedNvm + t.len /\ hand' = [hand EXCEPT ![w] = <<>>]
          /\ UNCHANGED <<ret, nvmQueue, bufferQueue, seq, ssdQueue>>
      BY <1>10, <2>1 DEF RedirectSmallWrite, client
    <2>3. t.len \in Nat
      BY TaskFacts
    <2>4. ClientsAre'
      BY <1>1, <1>2, <2>2 DEF ClientsAre
    <2>5. CountersAre'
      BY <1>1, <1>2, <2>2, <2>3 DEF CountersAre
    <2>6. NvmQueuesAre' /\ BufferQueuesAre' /\ SsdQueuesAre'
      BY <1>1, <2>2 DEF NvmQueuesAre, BufferQueuesAre, SsdQueuesAre
    <2>7. QED
      BY <1>3, <1>6, <2>2, <2>4, <2>5, <2>6 DEF Located
  <1>11. ASSUME NEW t \in SsdPart(w), Len(ssdQueue[w]) < Capacity,
                ssdQueue' = [ssdQueue EXCEPT ![w] = Append(@, t)]
         PROVE  SsdQueuesAre'
    <2>1. t \in Task /\ ssdQueue[w] \in Seq(Task) /\ ssdQueue[w] \in Seq(SsdPart(w))
      BY <1>1 DEF SsdPart, SsdQueuesAre
    <2>2. /\ Append(ssdQueue[w], t) \in Seq(Task) /\ Append(ssdQueue[w], t) \in Seq(SsdPart(w))
          /\ Len(Append(ssdQueue[w], t)) <= Capacity
      BY <1>11, <2>1, Enqueued
    <2>3. QED
      BY <1>1, <1>11, <2>2 DEF SsdQueuesAre
  <1>12. CASE RedirectLargeWrite(w)
    <2>1. PICK t \in Task : t = Head(hand[w]).task
      BY <1>5, <1>12 DEF RedirectLargeWrite
    <2>2. /\ t.type = "ssd" /\ Len(ssdQueue[w]) < Capacity
          /\ ssdQueue' = [ssdQueue EXCEPT ![w] = Append(@, t)] /\ hand' = [hand EXCEPT ![w] = <<>>]
          /\ UNCHANGED <<ret, nvmQueue, bufferQueue, seq, completedNvm>>
      BY <1>12, <2>1 DEF RedirectLargeWrite, client
    <2>3. t \in SsdPart(w)
      BY <1>5, <1>12, <2>1, <2>2 DEF RedirectLargeWrite, NvmPart
    <2>4. ClientsAre' /\ CountersAre'
      BY <1>1, <1>2, <2>2 DEF ClientsAre, CountersAre
    <2>5. NvmQueuesAre' /\ BufferQueuesAre'
      BY <1>1, <2>2 DEF NvmQueuesAre, BufferQueuesAre
    <2>6. QED
      BY <1>3, <1>6, <1>11, <2>2, <2>3, <2>4, <2>5 DEF Located
  <1>13. CASE RedirectReadMiss(w)
    <2>1. PICK e \in ErrandsAt(w) : e = Head(hand[w])
      BY <1>5, <1>13 DEF RedirectReadMiss
    <2>2. /\ hand[w] # <<>> /\ e.misses # <<>> /\ Len(ssdQueue[w]) < Capacity
          /\ ssdQueue' = [ssdQueue EXCEPT ![w] = Append(@, Head(e.misses))]
          /\ hand' = [hand EXCEPT ![w][1].misses = Tail(@)]
          /\ UNCHANGED <<ret, nvmQueue, bufferQueue, seq, completedNvm>>
      BY <1>13, <2>1 DEF RedirectReadMiss, client
    <2>3. /\ e \in Errand /\ e.task \in Task /\ e.task \in SsdPart(w)
          /\ e.misses \in Seq(RunsOf(e.task)) /\ e.misses \in Seq(Task)
      <3>1. e.task \in NvmPart(w) \cup SsdPart(w) /\ e.task.type = "ssd"
        BY <2>2 DEF ErrandsAt
      <3>2. e.task \in SsdPart(w)
        BY <3>1 DEF NvmPart
      <3>3. QED
        BY <3>2 DEF ErrandsAt, Errand
    <2>4. /\ Head(e.misses) \in RunsOf(e.task)
          /\ Tail(e.misses) \in Seq(RunsOf(e.task)) /\ Tail(e.misses) \in Seq(Task)
      BY <2>2, <2>3, QueueFacts
    <2>5. ASSUME NEW r \in RunsOf(e.task)
          PROVE  r \in SsdPart(w)
      <3>1. /\ r \in Task /\ r.len > 0 /\ e.task.offset <= r.offset
            /\ r.offset + r.len <= e.task.offset + e.task.len /\ r.type = e.task.type
        BY DEF RunsOf, PiecesOf
      <3>2. r.type = "ssd"
        BY <2>3, <3>1 DEF SsdPart
      <3>3. /\ r.offset \in Nat /\ r.len \in Nat
            /\ e.task.offset \in Nat /\ e.task.len \in Nat
        BY <2>3, <3>1, TaskFacts
      <3>4. \A b \in r.offset .. r.offset + r.len - 1 :
               b \in e.task.offset .. e.task.offset + e.task.len - 1
        BY <3>1, <3>3
      <3>5. BelongsTo(e.task, w)
        BY <2>3 DEF SsdPart
      <3>6. BelongsTo(r, w)
        BY <3>1, <3>4, <3>5 DEF BelongsTo
      <3>7. QED
        BY <3>1, <3>2, <3>6 DEF SsdPart
    <2>6. PICK f : f = [e EXCEPT !.misses = Tail(e.misses)]
      OBVIOUS
    <2>7. f \in ErrandsAt(w) /\ f \in Errand
      <3>1. f.task = e.task /\ f.hits = e.hits /\ f.misses = Tail(e.misses) /\ f \in Errand
        BY <2>3, <2>4, <2>6 DEF Errand
      <3>2. e.task.type = "ssd" /\ e.task.op = "read"
        BY <2>2 DEF ErrandsAt
      <3>3. QED
        BY <2>4, <3>1, <3>2 DEF ErrandsAt
    <2>8. hand' = [hand EXCEPT ![w] = <<f>>]
      BY <1>13, <2>1, <2>6, MissIsPosted
    <2>9. HandsAre'
      <3>1. <<f>> \in Seq(ErrandsAt(w)) /\ <<f>> \in Seq(Errand) /\ Len(<<f>>) <= 1
        BY <2>7
      <3>2. QED
        BY <1>1, <2>2, <2>8, <3>1 DEF HandsAre
    <2>10. ClientsAre' /\ CountersAre'
      BY <1>1, <1>2, <2>2 DEF ClientsAre, CountersAre
    <2>11. NvmQueuesAre' /\ BufferQueuesAre'
      BY <1>1, <2>2 DEF NvmQueuesAre, BufferQueuesAre
    <2>12. QED
      BY <1>3, <1>11, <2>2, <2>4, <2>5, <2>9, <2>10, <2>11 DEF Located
  <1>14. CASE RedirectReadDone(w)
    <2>1. PICK e \in ErrandsAt(w) : e = Head(hand[w])
      BY <1>5, <1>14 DEF RedirectReadDone
    <2>2. /\ AddToRet(e.task, e.hits) /\ hand' = [hand EXCEPT ![w] = <<>>]
          /\ UNCHANGED <<nvmQueue, bufferQueue, seq, completedNvm, ssdQueue>>
      BY <1>14, <2>1 DEF RedirectReadDone
    <2>3. e.task \in Task /\ e.hits \in Nat
      BY DEF ErrandsAt, Errand
    <2>4. ClientsAre'
      BY <1>2, <1>7, <2>2, <2>3
    <2>5. CountersAre' /\ NvmQueuesAre' /\ BufferQueuesAre' /\ SsdQueuesAre'
      BY <1>1, <1>2, <2>2 DEF CountersAre, NvmQueuesAre, BufferQueuesAre, SsdQueuesAre
    <2>6. QED
      BY <1>3, <1>6, <2>2, <2>4, <2>5 DEF Located
  <1>15. QED
    BY <1>8, <1>9, <1>10, <1>12, <1>13, <1>14 DEF NvmWorkerStep

LEMMA LocatedSsdWorker ==
    ASSUME Located, NEW w \in Workers, SsdWorkerStep(w)
    PROVE  Located'
  <1>1. /\ ClientsAre /\ SubmitsAre /\ PollsAre /\ NvmQueuesAre /\ BufferQueuesAre
        /\ HandsAre /\ SsdQueuesAre /\ SsdTasksAre /\ CountersAre
    BY DEF Located
  <1>2. UNCHANGED <<pc, task, posted, completedRead, submitQueue, idx, toPost, unplaced,
                    nvmQueue, bufferQueue, seq, hand, completedNvm, accepted>>
    BY DEF SsdWorkerStep, TakeSsd, ServeSsd, client, scheduler, nvm
  <1>3. SubmitsAre' /\ PollsAre' /\ NvmQueuesAre' /\ BufferQueuesAre' /\ HandsAre'
    BY <1>1, <1>2 DEF SubmitsAre, PollsAre, NvmQueuesAre, BufferQueuesAre, HandsAre
  <1>4. CASE TakeSsd(w)
    <2>1. /\ ssdQueue[w] # <<>> /\ ssdTask' = [ssdTask EXCEPT ![w] = <<Head(ssdQueue[w])>>]
          /\ ssdQueue' = [ssdQueue EXCEPT ![w] = Tail(@)] /\ UNCHANGED <<ret, completedSsd>>
      BY <1>4 DEF TakeSsd, client
    <2>2. /\ ssdQueue[w] \in Seq(Task) /\ ssdQueue[w] \in Seq(SsdPart(w))
          /\ Len(ssdQueue[w]) <= Capacity
      BY <1>1 DEF SsdQueuesAre
    <2>3. /\ Head(ssdQueue[w]) \in Task /\ Head(ssdQueue[w]) \in SsdPart(w)
          /\ Tail(ssdQueue[w]) \in Seq(Task) /\ Tail(ssdQueue[w]) \in Seq(SsdPart(w))
          /\ Len(Tail(ssdQueue[w])) <= Capacity
      BY <2>1, <2>2, Dequeued
    <2>4. SsdQueuesAre'
      BY <1>1, <2>1, <2>3 DEF SsdQueuesAre
    <2>5. SsdTasksAre'
      <3>1. \A t : t \in Task /\ t \in SsdPart(w) =>
               <<t>> \in Seq(Task) /\ <<t>> \in Seq(SsdPart(w)) /\ Len(<<t>>) <= 1
        OBVIOUS
      <3>2. QED
        BY <1>1, <2>1, <2>3, <3>1 DEF SsdTasksAre
    <2>6. ClientsAre' /\ CountersAre'
      BY <1>1, <1>2, <2>1 DEF ClientsAre, CountersAre
    <2>7. QED
      BY <1>3, <2>4, <2>5, <2>6 DEF Located
  <1>5. CASE ServeSsd(w)
    <2>1. ssdTask[w] # <<>> /\ ssdTask[w] \in Seq(Task)
      BY <1>1, <1>5 DEF ServeSsd, SsdTasksAre
    <2>2. PICK t \in Task : t = Head(ssdTask[w])
      BY <2>1, QueueFacts
    <2>3. /\ \/ completedSsd' = completedSsd + t.len /\ UNCHANGED ret
             \/ AddToRet(t, t.len) /\ UNCHANGED completedSsd
          /\ ssdTask' = [ssdTask EXCEPT ![w] = <<>>] /\ UNCHANGED ssdQueue
      BY <1>5, <2>2 DEF ServeSsd
    <2>4. t.len \in Nat
      BY TaskFacts
    <2>5. ret' \in [Clients -> Nat]
      BY <1>1, <2>3, <2>4, RetStaysNatural DEF ClientsAre
    <2>6. ClientsAre'
      BY <1>1, <1>2, <2>5 DEF ClientsAre
    <2>7. CountersAre'
      BY <1>1, <1>2, <2>3, <2>4 DEF CountersAre
    <2>8. SsdQueuesAre' /\ SsdTasksAre'
      BY <1>1, <2>3 DEF SsdQueuesAre, SsdTasksAre
    <2>9. QED
      BY <1>3, <2>6, <2>7, <2>8 DEF Located
  <1>6. QED
    BY <1>4, <1>5 DEF SsdWorkerStep

LEMMA LocatedStep == Located /\ [Next]_vars => Located'
  <1> SUFFICES ASSUME Located, [Next]_vars PROVE Located'
    OBVIOUS
  <1>1. CASE Next
    <2>1. CASE \E c \in Clients : (\E r \in Requests : Request(c, r)) \/ Submit(c) \/ ReadReturns(c)
      BY <2>1, LocatedClients
    <2>2. CASE SchedulerStep
      BY <2>2, LocatedScheduler
    <2>3. CASE \E w \in Workers : NvmWorkerStep(w) \/ SsdWorkerStep(w)
      BY <2>3, LocatedNvmWorker, LocatedSsdWorker
    <2>4. QED
      BY <1>1, <2>1, <2>2, <2>3 DEF Next
  <1>2. CASE UNCHANGED vars
    <2>1. UNCHANGED <<pc, task, ret, posted, completedRead, submitQueue, idx, toPost, unplaced,
                      nvmQueue, bufferQueue, seq, hand, completedNvm, ssdQueue, ssdTask,
                      completedSsd, accepted>>
      BY <1>2 DEF vars, client, scheduler, nvm, ssd
    <2>2. ClientsAre' /\ SubmitsAre' /\ PollsAre' /\ NvmQueuesAre' /\ BufferQueuesAre'
      BY <2>1 DEF Located, ClientsAre, SubmitsAre, PollsAre, NvmQueuesAre, BufferQueuesAre
    <2>3. HandsAre' /\ SsdQueuesAre' /\ SsdTasksAre' /\ CountersAre'
      BY <2>1 DEF Located, HandsAre, SsdQueuesAre, SsdTasksAre, CountersAre
    <2>4. QED
      BY <2>2, <2>3 DEF Located
  <1>3. QED
    BY <1>1, <1>2

LEMMA LocatedHolds == Spec => []Located
  BY LocatedStarts, LocatedStep, PTL DEF Spec

(* The state keeps its type: every queue its capacity, whatever waits for  *)
(* room in it, and every index its range.                                  *)
THEOREM SchedulerTypes == Spec => []TypeOK
  <1>1. Located => TypeOK
    <2> SUFFICES ASSUME Located PROVE TypeOK
      OBVIOUS
    <2>1. /\ pc \in [Clients -> {"idle", "post", "wait"}] /\ task \in [Clients -> Task]
          /\ ret \in [Clients -> Nat] /\ posted \in [Clients -> 0 .. MaxTasks]
      BY DEF Located, ClientsAre
    <2>2. idx \in Clients /\ toPost \in Seq(Task)
      <3>1. idx \in Clients /\ toPost \in Seq(Part)
        BY DEF Located, PollsAre
      <3>2. \A p \in Part : p \in Task
        BY DEF Part
      <3>3. QED
        BY <3>1, <3>2
    <2>3. \A c \in Clients : IsQueue(submitQueue[c])
      BY DEF Located, SubmitsAre, IsQueue
    <2>4. \A w \in Workers : IsQueue(nvmQueue[w]) /\ IsQueue(bufferQueue[w]) /\ IsQueue(ssdQueue[w])
      BY DEF Located, NvmQueuesAre, BufferQueuesAre, SsdQueuesAre, IsQueue
    <2>5. \A w \in Workers : ssdTask[w] \in Seq(Task) /\ Len(ssdTask[w]) <= 1
      BY DEF Located, SsdTasksAre
    <2>6. seq \in [Workers -> BOOLEAN] /\ \A w \in Workers : hand[w] \in Seq(Errand) /\ Len(hand[w]) <= 1
      BY DEF Located, HandsAre
    <2>7. {completedNvm, completedSsd, completedRead, accepted, unplaced} \subseteq Nat
      BY DEF Located, CountersAre
    <2>8. QED
      BY <2>1, <2>2, <2>3, <2>4, <2>5, <2>6, <2>7 DEF TypeOK, Errand
  <1>2. QED
    BY <1>1, LocatedHolds, PTL

LEMMA InHandFacts ==
    ASSUME Located, NEW w \in Workers
    PROVE  /\ hand[w] = <<>> => InHand(w) = <<>>
           /\ hand[w] # <<>> => /\ Head(hand[w]) \in ErrandsAt(w)
                                /\ Head(hand[w]).task \in NvmPart(w) \cup SsdPart(w)
                                /\ InHand(w) \in Seq(PiecesOf(Head(hand[w]).task))
  <1>1. hand[w] = <<>> => InHand(w) = <<>>
    BY DEF InHand
  <1>2. ASSUME hand[w] # <<>>
        PROVE  /\ Head(hand[w]) \in ErrandsAt(w)
               /\ Head(hand[w]).task \in NvmPart(w) \cup SsdPart(w)
               /\ InHand(w) \in Seq(PiecesOf(Head(hand[w]).task))
    <2>1. PICK e \in ErrandsAt(w) : e = Head(hand[w])
      BY <1>2, QueueFacts DEF Located, HandsAre
    <2>2. PICK t \in Task : t = e.task
      BY DEF ErrandsAt, Errand
    <2>3. /\ t \in NvmPart(w) \cup SsdPart(w) /\ t.len > 0
          /\ t.offset \in Nat /\ t.len \in Nat
          /\ e.misses \in Seq(RunsOf(t)) /\ e.hits \in Nat /\ e.hits <= t.len
      <3>1. /\ t \in NvmPart(w) \cup SsdPart(w)
            /\ e.misses \in Seq(RunsOf(t)) /\ e.hits \in Nat /\ e.hits <= t.len
        BY <2>2 DEF ErrandsAt, Errand
      <3>2. t.len > 0
        BY <3>1 DEF NvmPart, SsdPart, BelongsTo
      <3>3. QED
        BY <3>1, <3>2, TaskFacts
    <2>4. t \in PiecesOf(t)
      BY <2>3 DEF PiecesOf
    <2>5. [t EXCEPT !.len = e.hits] \in PiecesOf(t)
      <3>1. PICK u : u = [t EXCEPT !.len = e.hits]
        OBVIOUS
      <3>2. /\ u \in Task /\ u.len = e.hits /\ u.offset = t.offset /\ u.queue_idx = t.queue_idx
            /\ u.id = t.id /\ u.type = t.type /\ u.op = t.op
        BY <2>3, <3>1 DEF Task
      <3>3. /\ t.offset <= u.offset /\ u.offset < t.offset + t.len
            /\ u.offset + u.len <= t.offset + t.len
        BY <2>3, <3>2
      <3>4. u \in PiecesOf(t)
        BY <3>2, <3>3 DEF PiecesOf
      <3>5. QED
        BY <3>1, <3>4
    <2>6. RunsOf(t) \subseteq PiecesOf(t)
      BY DEF RunsOf
    <2>7. e.misses \in Seq(PiecesOf(t))
      BY <2>3, <2>6
    <2>8. InHand(w) \in Seq(PiecesOf(t))
      <3>1. InHand(w) = IF t.type = "ssd" /\ t.op = "read"
                        THEN Append(e.misses, [t EXCEPT !.len = e.hits]) ELSE <<t>>
        BY <1>2, <2>1, <2>2 DEF InHand
      <3>2. Append(e.misses, [t EXCEPT !.len = e.hits]) \in Seq(PiecesOf(t))
        BY <2>5, <2>7, QueueFacts
      <3>3. <<t>> \in Seq(PiecesOf(t))
        BY <2>4
      <3>4. QED
        BY <3>1, <3>2, <3>3
    <2>9. QED
      BY <2>1, <2>2, <2>3, <2>8
  <1>3. QED
    BY <1>1, <1>2

(* A piece of a part that belongs to w does too.                           *)
LEMMA PiecesGoHome ==
    ASSUME NEW w \in Workers, NEW t \in SsdPart(w), NEW u \in PiecesOf(t)
    PROVE  /\ Home(u.offset) = w
           /\ \A b \in u.offset .. u.offset + u.len - 1 : Home(b) = w
  <1>1. /\ t.offset \in Nat /\ t.len \in Nat /\ u.offset \in Nat /\ u.len \in Nat
        /\ t.offset <= u.offset /\ u.offset < t.offset + t.len
        /\ u.offset + u.len <= t.offset + t.len
    BY TaskFacts DEF SsdPart, PiecesOf
  <1>2. \A b \in t.offset .. t.offset + t.len - 1 : Home(b) = w
    BY DEF SsdPart, BelongsTo
  <1>3. u.offset \in t.offset .. t.offset + t.len - 1
        /\ \A b \in u.offset .. u.offset + u.len - 1 : b \in t.offset .. t.offset + t.len - 1
    BY <1>1
  <1>4. QED
    BY <1>2, <1>3

(* A part of a task for the ssd is only ever in the hands of the home of   *)
(* its blocks, for every stripe size, number of workers and task.          *)
THEOREM HomeServesHolds == Spec => []HomeServes
  <1>1. Located => HomeServes
    <2> SUFFICES ASSUME Located, NEW w \in Workers,
                        NEW t \in ToSet(bufferQueue[w] \o InHand(w) \o ssdQueue[w] \o ssdTask[w]),
                        t.type = "ssd", NEW b \in t.offset .. t.offset + t.len - 1
                 PROVE  Home(b) = w
      BY DEF HomeServes
    <2> DEFINE A == {u \in Task : u.type = "ssd" =>
                        \A d \in u.offset .. u.offset + u.len - 1 : Home(d) = w}
    <2>1. SsdPart(w) \subseteq A /\ NvmPart(w) \subseteq A
      BY DEF SsdPart, NvmPart, BelongsTo
    <2>2. /\ bufferQueue[w] \in Seq(SsdPart(w)) /\ ssdQueue[w] \in Seq(SsdPart(w))
          /\ ssdTask[w] \in Seq(SsdPart(w)) /\ hand[w] \in Seq(ErrandsAt(w))
      BY DEF Located, BufferQueuesAre, SsdQueuesAre, SsdTasksAre, HandsAre
    <2>3. InHand(w) \in Seq(A)
      <3>1. CASE hand[w] = <<>>
        <4>1. InHand(w) = <<>>
          BY <3>1, InHandFacts
        <4> HIDE DEF A
        <4>2. QED
          BY <4>1
      <3>2. CASE hand[w] # <<>>
        <4>1. PICK h \in NvmPart(w) \cup SsdPart(w) :
                 h = Head(hand[w]).task /\ InHand(w) \in Seq(PiecesOf(h))
          BY <3>2, InHandFacts
        <4>2. \A u \in PiecesOf(h) : u \in A
          BY PiecesGoHome DEF PiecesOf, NvmPart
        <4> HIDE DEF A
        <4>3. QED
          BY <4>1, <4>2
      <3>3. QED
        BY <3>1, <3>2
    <2>4. bufferQueue[w] \in Seq(A) /\ ssdQueue[w] \in Seq(A) /\ ssdTask[w] \in Seq(A)
      <3> HIDE DEF A
      <3>1. QED
        BY <2>1, <2>2
    <2>5. t \in A
      <3> HIDE DEF A
      <3>1. bufferQueue[w] \o InHand(w) \o ssdQueue[w] \o ssdTask[w] \in Seq(A)
        BY <2>3, <2>4
      <3>2. QED
        BY <3>1, QueueFacts
    <2>6. QED
      BY <2>5
  <1>2. QED
    BY <1>1, LocatedHolds, PTL

-----------------------------------------------------------------------------
(* The order of a client's tasks on their way.                             *)

(* No task of q comes before a task of p that is of the same client.       *)
Before(p, q) ==
    \A i \in 1 .. Len(p), j \in 1 .. Len(q) :
        p[i].queue_idx = q[j].queue_idx => p[i].id <= q[j].id

(* Neither does any of q before one in front of it.                        *)
Sorted(q) ==
    \A i, j \in 1 .. Len(q) :
        i <= j /\ q[i].queue_idx = q[j].queue_idx => q[i].id <= q[j].id

LEMMA BeforeEmpty == \A p : Before(p, <<>>) /\ Before(<<>>, p)
  BY DEF Before

LEMMA BeforeAppended ==
    ASSUME NEW p \in Seq(Task), NEW q \in Seq(Task), NEW e \in Task,
           Before(p, q), Before(p, <<e>>)
    PROVE  Before(p, Append(q, e))
  <1> SUFFICES ASSUME NEW i \in 1 .. Len(p), NEW j \in 1 .. Len(Append(q, e)),
                      p[i].queue_idx = Append(q, e)[j].queue_idx
               PROVE  p[i].id <= Append(q, e)[j].id
    BY DEF Before
  <1>1. CASE j = Len(q) + 1
    <2>1. Append(q, e)[j] = e
      BY <1>1
    <2>2. QED
      BY <2>1 DEF Before
  <1>2. CASE j # Len(q) + 1
    <2>1. j \in 1 .. Len(q) /\ Append(q, e)[j] = q[j]
      BY <1>2
    <2>2. QED
      BY <2>1 DEF Before
  <1>3. QED
    BY <1>1, <1>2

LEMMA AppendedBefore ==
    ASSUME NEW p \in Seq(Task), NEW q \in Seq(Task), NEW e \in Task,
           Before(q, p), Before(<<e>>, p)
    PROVE  Before(Append(q, e), p)
  <1> SUFFICES ASSUME NEW i \in 1 .. Len(p), NEW j \in 1 .. Len(Append(q, e)),
                      p[i].queue_idx = Append(q, e)[j].queue_idx
               PROVE  Append(q, e)[j].id <= p[i].id
    BY DEF Before
  <1>1. CASE j = Len(q) + 1
    <2>1. Append(q, e)[j] = e
      BY <1>1
    <2>2. QED
      BY <2>1 DEF Before
  <1>2. CASE j # Len(q) + 1
    <2>1. j \in 1 .. Len(q) /\ Append(q, e)[j] = q[j]
      BY <1>2
    <2>2. QED
      BY <2>1 DEF Before
  <1>3. QED
    BY <1>1, <1>2

LEMMA SortedAppended ==
    ASSUME NEW q \in Seq(Task), NEW e \in Task, Sorted(q), Before(q, <<e>>)
    PROVE  Sorted(Append(q, e))
  <1> DEFINE a == Append(q, e)
  <1> SUFFICES ASSUME NEW i \in 1 .. Len(a), NEW j \in 1 .. Len(a), i <= j,
                      a[i].queue_idx = a[j].queue_idx
               PROVE  a[i].id <= a[j].id
    BY DEF Sorted
  <1>1. Len(a) = Len(q) + 1 /\ Len(q) \in Nat /\ a[Len(q) + 1] = e
        /\ \A k \in 1 .. Len(q) : a[k] = q[k]
    OBVIOUS
  <1>2. e.id \in Nat
    BY TaskFacts
  <1> HIDE DEF a
  <1>3. CASE j = Len(q) + 1 /\ i = Len(q) + 1
    BY <1>1, <1>2, <1>3
  <1>4. CASE j = Len(q) + 1 /\ i # Len(q) + 1
    <2>1. i \in 1 .. Len(q) /\ a[i] = q[i] /\ a[j] = e
      BY <1>1, <1>4
    <2>2. Len(<<e>>) = 1 /\ <<e>>[1] = e /\ 1 \in 1 .. 1
      OBVIOUS
    <2>3. q[i].queue_idx = e.queue_idx => q[i].id <= e.id
      BY <2>1, <2>2 DEF Before
    <2>4. QED
      BY <2>1, <2>3
  <1>5. CASE j # Len(q) + 1
    <2>1. i \in 1 .. Len(q) /\ j \in 1 .. Len(q) /\ a[i] = q[i] /\ a[j] = q[j]
      BY <1>1, <1>5
    <2>2. QED
      BY <2>1 DEF Sorted
  <1>6. QED
    BY <1>3, <1>4, <1>5

LEMMA BeforeShorter ==
    ASSUME NEW p \in Seq(Task), NEW q \in Seq(Task), q # <<>>
    PROVE  /\ Before(p, q) => Before(p, Tail(q)) /\ Before(p, <<Head(q)>>)
           /\ Before(q, p) => Before(Tail(q), p) /\ Before(<<Head(q)>>, p)
  <1>1. /\ Len(q) \in Nat /\ Len(q) > 0 /\ Head(q) = q[1] /\ Len(Tail(q)) = Len(q) - 1
        /\ \A i \in 1 .. Len(q) - 1 : Tail(q)[i] = q[i + 1]
        /\ Len(<<Head(q)>>) = 1 /\ <<Head(q)>>[1] = q[1]
    BY QueueFacts
  <1>2. \A i \in 1 .. Len(Tail(q)) : i + 1 \in 1 .. Len(q) /\ Tail(q)[i] = q[i + 1]
    BY <1>1
  <1>3. 1 \in 1 .. Len(q) /\ \A i \in 1 .. Len(<<Head(q)>>) : <<Head(q)>>[i] = q[1]
    BY <1>1
  <1>4. Before(p, q) => Before(p, Tail(q))
    BY <1>2 DEF Before
  <1>5. Before(p, q) => Before(p, <<Head(q)>>)
    BY <1>3 DEF Before
  <1>6. Before(q, p) => Before(Tail(q), p)
    BY <1>2 DEF Before
  <1>7. Before(q, p) => Before(<<Head(q)>>, p)
    BY <1>3 DEF Before
  <1>8. QED
    BY <1>4, <1>5, <1>6, <1>7

LEMMA SortedShorter ==
    ASSUME NEW q \in Seq(Task), q # <<>>, Sorted(q)
    PROVE  Sorted(Tail(q)) /\ Before(<<Head(q)>>, Tail(q))
  <1>1. /\ Len(q) \in Nat /\ Len(q) > 0 /\ Head(q) = q[1] /\ Len(Tail(q)) = Len(q) - 1
        /\ \A i \in 1 .. Len(q) - 1 : Tail(q)[i] = q[i + 1]
        /\ Len(<<Head(q)>>) = 1 /\ <<Head(q)>>[1] = q[1]
    BY QueueFacts
  <1>2. \A i \in 1 .. Len(Tail(q)) : i + 1 \in 1 .. Len(q) /\ Tail(q)[i] = q[i + 1] /\ 1 <= i + 1
    BY <1>1
  <1>3. 1 \in 1 .. Len(q) /\ \A i \in 1 .. Len(<<Head(q)>>) : <<Head(q)>>[i] = q[1]
    BY <1>1
  <1>4. Sorted(Tail(q))
    <2>1. \A i, j \in 1 .. Len(Tail(q)) : i <= j => i + 1 <= j + 1
      OBVIOUS
    <2>2. QED
      BY <1>2, <2>1 DEF Sorted
  <1>5. Before(<<Head(q)>>, Tail(q))
    BY <1>2, <1>3 DEF Before, Sorted
  <1>6. QED
    BY <1>4, <1>5

(* What a task passes on its way, from its end to its beginning: h, what a *)
(* worker has in hand; q, the worker's queue; p, what the scheduler has    *)
(* yet to post; s, the submit queue of a client; l, the client's last task.*)
InLine(h, q, p, s, l) ==
    /\ Sorted(q) /\ Sorted(p) /\ Sorted(s)
    /\ Before(h, q) /\ Before(h, p) /\ Before(h, s) /\ Before(h, l)
    /\ Before(q, p) /\ Before(q, s) /\ Before(q, l)
    /\ Before(p, s) /\ Before(p, l) /\ Before(s, l)

(* The client has a later task.                                            *)
LEMMA LaterInLine ==
    ASSUME NEW h \in Seq(Task), NEW q \in Seq(Task), NEW p \in Seq(Task), NEW s \in Seq(Task),
           NEW d \in Task, NEW e \in Task, InLine(h, q, p, s, <<d>>),
           d.queue_idx = e.queue_idx, d.id <= e.id
    PROVE  InLine(h, q, p, s, <<e>>)
  <1>1. ASSUME NEW x \in Seq(Task), Before(x, <<d>>)
        PROVE  Before(x, <<e>>)
    <2>1. ASSUME NEW i \in 1 .. Len(x), x[i].queue_idx = e.queue_idx
          PROVE  x[i].id <= e.id
      <3>1. x[i] \in Task
        BY QueueFacts
      <3>2. x[i].id \in Nat /\ d.id \in Nat /\ e.id \in Nat
        BY <3>1, TaskFacts
      <3>3. x[i].id <= d.id
        <4>1. 1 \in 1 .. Len(<<d>>) /\ <<d>>[1] = d
          OBVIOUS
        <4>2. QED
          BY <1>1, <2>1, <4>1 DEF Before
      <3>4. QED
        BY <3>2, <3>3
    <2>2. \A j \in 1 .. Len(<<e>>) : <<e>>[j] = e
      OBVIOUS
    <2>3. QED
      BY <2>1, <2>2 DEF Before
  <1>2. QED
    BY <1>1 DEF InLine

(* The client's last task is submitted.                                    *)
LEMMA SubmittedInLine ==
    ASSUME NEW h \in Seq(Task), NEW q \in Seq(Task), NEW p \in Seq(Task), NEW s \in Seq(Task),
           NEW d \in Task, NEW e \in Task, InLine(h, q, p, s, <<d>>),
           d.queue_idx = e.queue_idx, d.id = e.id
    PROVE  InLine(h, q, p, Append(s, e), <<d>>)
  <1>1. d.id \in Nat /\ e.id \in Nat
    BY TaskFacts
  <1>2. InLine(h, q, p, s, <<e>>)
    BY <1>1, LaterInLine
  <1>3. Before(<<e>>, <<d>>)
    <2>1. \A i \in 1 .. Len(<<e>>), j \in 1 .. Len(<<d>>) : <<e>>[i] = e /\ <<d>>[j] = d
      OBVIOUS
    <2>2. QED
      BY <1>1, <2>1 DEF Before
  <1>4. <<d>> \in Seq(Task)
    OBVIOUS
  <1>5. Sorted(Append(s, e))
    BY <1>2, SortedAppended DEF InLine
  <1>6. Before(h, Append(s, e)) /\ Before(q, Append(s, e)) /\ Before(p, Append(s, e))
    BY <1>2, BeforeAppended DEF InLine
  <1>7. Before(Append(s, e), <<d>>)
    BY <1>3, <1>4, AppendedBefore DEF InLine
  <1>8. QED
    BY <1>5, <1>6, <1>7 DEF InLine

(* The scheduler has cut the first task that was submitted into parts P.   *)
LEMMA PolledInLine ==
    ASSUME NEW h \in Seq(Task), NEW q \in Seq(Task), NEW s \in Seq(Task), NEW l \in Seq(Task),
           InLine(h, q, <<>>, s, l), s # <<>>, NEW P \in Seq(Task),
           \A i \in 1 .. Len(P) : P[i].id = Head(s).id /\ P[i].queue_idx = Head(s).queue_idx
    PROVE  InLine(h, q, P, Tail(s), l)
  <1>1. ASSUME NEW x \in Seq(Task), Before(x, <<Head(s)>>)
        PROVE  Before(x, P)
    <2>1. 1 \in 1 .. Len(<<Head(s)>>) /\ <<Head(s)>>[1] = Head(s)
      OBVIOUS
    <2>2. QED
      BY <1>1, <2>1 DEF Before
  <1>2. ASSUME NEW x \in Seq(Task), Before(<<Head(s)>>, x)
        PROVE  Before(P, x)
    <2>1. 1 \in 1 .. Len(<<Head(s)>>) /\ <<Head(s)>>[1] = Head(s)
      OBVIOUS
    <2>2. QED
      BY <1>2, <2>1 DEF Before
  <1>3. Sorted(P)
    <2>1. Head(s) \in Task /\ Head(s).id \in Nat
      BY QueueFacts, TaskFacts
    <2>2. QED
      BY <2>1 DEF Sorted
  <1>4. Tail(s) \in Seq(Task)
    BY QueueFacts
  <1>5. Sorted(Tail(s)) /\ Before(<<Head(s)>>, Tail(s))
    BY SortedShorter DEF InLine
  <1>6. /\ Before(h, <<Head(s)>>) /\ Before(q, <<Head(s)>>) /\ Before(<<Head(s)>>, l)
        /\ Before(h, Tail(s)) /\ Before(q, Tail(s)) /\ Before(Tail(s), l)
    BY BeforeShorter DEF InLine
  <1>7. Before(h, P) /\ Before(q, P) /\ Before(P, Tail(s)) /\ Before(P, l)
    BY <1>1, <1>2, <1>4, <1>5, <1>6
  <1>8. QED
    BY <1>3, <1>5, <1>6, <1>7 DEF InLine

(* The first part is posted, here or elsewhere.                            *)
LEMMA PostedInLine ==
    ASSUME NEW h \in Seq(Task), NEW q \in Seq(Task), NEW p \in Seq(Task), NEW s \in Seq(Task),
           NEW l \in Seq(Task), InLine(h, q, p, s, l), p # <<>>
    PROVE  InLine(h, q, Tail(p), s, l) /\ InLine(h, Append(q, Head(p)), Tail(p), s, l)
  <1>1. Head(p) \in Task /\ Tail(p) \in Seq(Task)
    BY QueueFacts
  <1>2. Sorted(Tail(p)) /\ Before(<<Head(p)>>, Tail(p))
    BY SortedShorter DEF InLine
  <1>3. /\ Before(h, Tail(p)) /\ Before(q, Tail(p)) /\ Before(Tail(p), s) /\ Before(Tail(p), l)
        /\ Before(h, <<Head(p)>>) /\ Before(q, <<Head(p)>>)
        /\ Before(<<Head(p)>>, s) /\ Before(<<Head(p)>>, l)
    BY BeforeShorter DEF InLine
  <1>4. Sorted(Append(q, Head(p))) /\ Before(h, Append(q, Head(p)))
    BY <1>1, <1>3, SortedAppended, BeforeAppended DEF InLine
  <1>5. /\ Before(Append(q, Head(p)), Tail(p)) /\ Before(Append(q, Head(p)), s)
        /\ Before(Append(q, Head(p)), l)
    BY <1>1, <1>2, <1>3, AppendedBefore DEF InLine
  <1>6. QED
    BY <1>2, <1>3, <1>4, <1>5 DEF InLine

(* The worker takes the first task of its queue, or ends the one it had.   *)
LEMMA TakenInLine ==
    ASSUME NEW h \in Seq(Task), NEW q \in Seq(Task), NEW p \in Seq(Task), NEW s \in Seq(Task),
           NEW l \in Seq(Task), InLine(h, q, p, s, l)
    PROVE  /\ InLine(<<>>, q, p, s, l)
           /\ q # <<>> => InLine(<<Head(q)>>, Tail(q), p, s, l)
  <1>1. InLine(<<>>, q, p, s, l)
    BY BeforeEmpty DEF InLine
  <1>2. ASSUME q # <<>>
        PROVE  InLine(<<Head(q)>>, Tail(q), p, s, l)
    <2>1. Sorted(Tail(q)) /\ Before(<<Head(q)>>, Tail(q))
      BY <1>2, SortedShorter DEF InLine
    <2>2. /\ Before(<<Head(q)>>, p) /\ Before(<<Head(q)>>, s) /\ Before(<<Head(q)>>, l)
          /\ Before(Tail(q), p) /\ Before(Tail(q), s) /\ Before(Tail(q), l)
      BY <1>2, BeforeShorter DEF InLine
    <2>3. QED
      BY <2>1, <2>2 DEF InLine
  <1>3. QED
    BY <1>1, <1>2

(* The scheduler has cut a task of another client.                         *)
LEMMA PolledElsewhere ==
    ASSUME NEW h \in Seq(Task), NEW q \in Seq(Task), NEW s \in Seq(Task), NEW l \in Seq(Task),
           InLine(h, q, <<>>, s, l), NEW P \in Seq(Task),
           Sorted(P), Before(h, P), Before(q, P), NEW c, NEW d, c # d,
           \A i \in 1 .. Len(P) : P[i].queue_idx = c,
           \A i \in 1 .. Len(s) : s[i].queue_idx = d,
           \A i \in 1 .. Len(l) : l[i].queue_idx = d
    PROVE  InLine(h, q, P, s, l)
  <1>1. Before(P, s) /\ Before(P, l)
    BY DEF Before
  <1>2. QED
    BY <1>1 DEF InLine

Queue(w, y) == IF y = "nvm" THEN nvmQueue[w] ELSE bufferQueue[w]

Held(w, y) ==
    IF hand[w] # <<>> /\ Head(hand[w]).task.type = y THEN <<Head(hand[w]).task>> ELSE <<>>

LastTask(c) == [NoTask EXCEPT !.queue_idx = c, !.id = posted[c]]

Lanes == {"nvm", "ssd"}

(* For every worker, either of its queues and every client.                *)
Ordered ==
    \A w \in Workers, y \in Lanes, c \in Clients :
        InLine(Held(w, y), Queue(w, y), toPost, submitQueue[c], <<LastTask(c)>>)

LEMMA LineTypes ==
    ASSUME Located, NEW w \in Workers, NEW y \in Lanes, NEW c \in Clients
    PROVE  /\ Held(w, y) \in Seq(Task) /\ Queue(w, y) \in Seq(Task) /\ toPost \in Seq(Task)
           /\ submitQueue[c] \in Seq(Task) /\ LastTask(c) \in Task /\ <<LastTask(c)>> \in Seq(Task)
           /\ LastTask(c).queue_idx = c /\ LastTask(c).id = posted[c] /\ posted[c] \in Nat
           /\ \A i \in 1 .. Len(submitQueue[c]) : submitQueue[c][i].queue_idx = c
  <1>1. Held(w, y) \in Seq(Task)
    <2>1. CASE hand[w] # <<>>
      <3>1. Head(hand[w]).task \in NvmPart(w) \cup SsdPart(w)
        BY <2>1, InHandFacts
      <3>2. Head(hand[w]).task \in Task
        BY <3>1 DEF NvmPart, SsdPart
      <3>3. QED
        BY <3>2 DEF Held
    <2>2. CASE hand[w] = <<>>
      BY <2>2 DEF Held
    <2>3. QED
      BY <2>1, <2>2
  <1>2. Queue(w, y) \in Seq(Task)
    BY DEF Located, NvmQueuesAre, BufferQueuesAre, Queue
  <1>3. toPost \in Seq(Task)
    <2>1. toPost \in Seq(Part) /\ \A p \in Part : p \in Task
      BY DEF Located, PollsAre, Part
    <2>2. QED
      BY <2>1
  <1>4. /\ submitQueue[c] \in Seq(Task)
        /\ \A i \in 1 .. Len(submitQueue[c]) : submitQueue[c][i].queue_idx = c
    <2>1. submitQueue[c] \in Seq(Task) /\ submitQueue[c] \in Seq(Submitted(c))
      BY DEF Located, SubmitsAre
    <2>2. \A i \in 1 .. Len(submitQueue[c]) : submitQueue[c][i] \in Submitted(c)
      BY <2>1, QueueFacts
    <2>3. QED
      BY <2>1, <2>2 DEF Submitted
  <1>5. posted[c] \in Nat
    BY DEF Located, ClientsAre
  <1>6. LastTask(c) \in Task /\ LastTask(c).queue_idx = c /\ LastTask(c).id = posted[c]
    <2>1. 0 \in Workers /\ 0 \in Clients
      BY WorkersTake DEF Workers, Clients
    <2>2. QED
      BY <1>5, <2>1 DEF LastTask, NoTask, Task
  <1>7. <<LastTask(c)>> \in Seq(Task)
    BY <1>6
  <1>8. QED
    BY <1>1, <1>2, <1>3, <1>4, <1>5, <1>6, <1>7

LEMMA OrderedStarts == Init => Ordered
  <1> SUFFICES ASSUME Init, NEW w \in Workers, NEW y \in Lanes, NEW c \in Clients
               PROVE  InLine(Held(w, y), Queue(w, y), toPost, submitQueue[c], <<LastTask(c)>>)
    BY DEF Ordered
  <1>1. /\ Held(w, y) = <<>> /\ Queue(w, y) = <<>> /\ toPost = <<>> /\ submitQueue[c] = <<>>
    BY DEF Init, Held, Queue
  <1>2. Sorted(<<>>)
    BY DEF Sorted
  <1>3. QED
    BY <1>1, <1>2, BeforeEmpty DEF InLine

LEMMA OrderedClients ==
    ASSUME Located, Located', Ordered, NEW c \in Clients,
           (\E r \in Requests : Request(c, r)) \/ Submit(c) \/ ReadReturns(c)
    PROVE  Ordered'
  <1> SUFFICES ASSUME NEW w \in Workers, NEW y \in Lanes, NEW d \in Clients
               PROVE  InLine(Held(w, y)', Queue(w, y)', toPost', submitQueue'[d], <<LastTask(d)'>>)
    BY DEF Ordered
  <1>1. InLine(Held(w, y), Queue(w, y), toPost, submitQueue[d], <<LastTask(d)>>)
    BY DEF Ordered
  <1>2. UNCHANGED <<nvmQueue, bufferQueue, toPost, hand>>
    BY DEF Request, Submit, ReadReturns, scheduler, nvm
  <1>3. Held(w, y)' = Held(w, y) /\ Queue(w, y)' = Queue(w, y) /\ toPost' = toPost
    BY <1>2 DEF Held, Queue
  <1>4. PICK h \in Seq(Task) : h = Held(w, y)
    BY LineTypes
  <1>5. PICK q \in Seq(Task) : q = Queue(w, y)
    BY LineTypes
  <1>6. PICK p \in Seq(Task) : p = toPost
    BY LineTypes
  <1>7. PICK s \in Seq(Task) : s = submitQueue[d]
    BY LineTypes
  <1>8. PICK last \in Task : last = LastTask(d)
    BY LineTypes
  <1>9. InLine(h, q, p, s, <<last>>)
    BY <1>1, <1>4, <1>5, <1>6, <1>7, <1>8
  <1>10. last.queue_idx = d /\ last.id = posted[d] /\ posted[d] \in Nat
    BY <1>8, LineTypes
  <1>11. CASE \E r \in Requests : Request(c, r)
    <2>1. submitQueue' = submitQueue /\ posted' = [posted EXCEPT ![c] = @ + 1]
      BY <1>11 DEF Request
    <2>2. posted[d] <= posted'[d]
      BY <1>10, <2>1 DEF Located, ClientsAre
    <2>3. LastTask(d)' \in Task /\ LastTask(d)'.queue_idx = d /\ LastTask(d)'.id = posted'[d]
      <3>1. posted'[d] \in Nat /\ 0 \in Workers
        BY WorkersTake DEF Located, ClientsAre, Workers
      <3>2. QED
        BY <3>1 DEF LastTask, NoTask, Task
    <2>4. PICK e \in Task : e = LastTask(d)'
      BY <2>3
    <2>5. InLine(h, q, p, s, <<e>>)
      BY <1>9, <1>10, <2>2, <2>3, <2>4, LaterInLine
    <2>6. QED
      BY <1>3, <1>4, <1>5, <1>6, <1>7, <2>1, <2>4, <2>5
  <1>12. CASE Submit(c)
    <2>1. /\ pc[c] = "post" /\ submitQueue' = [submitQueue EXCEPT ![c] = Append(@, task[c])]
          /\ posted' = posted
      BY <1>12 DEF Submit
    <2>2. LastTask(d)' = last
      BY <1>8, <2>1 DEF LastTask
    <2>3. CASE d = c
      <3>1. task[c] \in Submitted(c) /\ task[c].id = posted[c]
        BY <2>1 DEF Located, ClientsAre
      <3>2. PICK e \in Task : e = task[c]
        BY <3>1 DEF Submitted
      <3>3. e.queue_idx = last.queue_idx /\ e.id = last.id
        BY <1>10, <2>3, <3>1, <3>2 DEF Submitted
      <3>4. InLine(h, q, p, Append(s, e), <<last>>)
        BY <1>9, <3>3, SubmittedInLine
      <3>5. submitQueue'[d] = Append(s, e)
        BY <1>7, <2>1, <2>3, <3>2 DEF Located, SubmitsAre
      <3>6. QED
        BY <1>3, <1>4, <1>5, <1>6, <2>2, <3>4, <3>5
    <2>4. CASE d # c
      <3>1. submitQueue'[d] = s
        BY <1>7, <2>1, <2>4 DEF Located, SubmitsAre
      <3>2. QED
        BY <1>3, <1>4, <1>5, <1>6, <1>9, <2>2, <3>1
    <2>5. QED
      BY <2>3, <2>4
  <1>13. CASE ReadReturns(c)
    <2>1. submitQueue' = submitQueue /\ posted' = posted
      BY <1>13 DEF ReadReturns
    <2>2. LastTask(d)' = LastTask(d)
      BY <2>1 DEF LastTask
    <2>3. QED
      BY <1>1, <1>3, <2>1, <2>2
  <1>14. QED
    BY <1>11, <1>12, <1>13

LEMMA OrderedScheduler ==
    ASSUME Located, Ordered, SchedulerStep
    PROVE  Ordered'
  <1> SUFFICES ASSUME NEW w \in Workers, NEW y \in Lanes, NEW d \in Clients
               PROVE  InLine(Held(w, y)', Queue(w, y)', toPost', submitQueue'[d], <<LastTask(d)'>>)
    BY DEF Ordered
  <1>1. InLine(Held(w, y), Queue(w, y), toPost, submitQueue[d], <<LastTask(d)>>)
    BY DEF Ordered
  <1>2. UNCHANGED <<hand, posted>>
    BY DEF SchedulerStep, Poll, PostToNvm, PostToBuffer, client, nvm
  <1>3. Held(w, y)' = Held(w, y) /\ LastTask(d)' = LastTask(d)
    BY <1>2 DEF Held, LastTask
  <1>4. PICK h \in Seq(Task) : h = Held(w, y)
    BY LineTypes
  <1>5. PICK q \in Seq(Task) : q = Queue(w, y)
    BY LineTypes
  <1>6. PICK p \in Seq(Task) : p = toPost
    BY LineTypes
  <1>7. PICK s \in Seq(Task) : s = submitQueue[d]
    BY LineTypes
  <1>8. PICK l \in Seq(Task) : l = <<LastTask(d)>>
    BY LineTypes
  <1>9. InLine(h, q, p, s, l)
    BY <1>1, <1>4, <1>5, <1>6, <1>7, <1>8
  <1>10. CASE Poll
    <2>1. p = <<>> /\ Queue(w, y)' = q
      BY <1>5, <1>6, <1>10 DEF Poll, Queue
    <2>2. idx \in Clients
      BY DEF Located, PollsAre
    <2>3. CASE submitQueue[idx] = <<>> /\ UNCHANGED <<submitQueue, toPost, unplaced>>
      BY <1>3, <1>4, <1>6, <1>7, <1>8, <1>9, <2>1, <2>3
    <2>4. CASE submitQueue[idx] # <<>>
      <3>1. PICK t \in HandledTasks(Head(submitQueue[idx])) : toPost' = Parts(t)
        BY <1>10, <2>4 DEF Poll
      <3>2. submitQueue' = [submitQueue EXCEPT ![idx] = Tail(@)]
        BY <1>10, <2>4 DEF Poll
      <3>3. PICK r \in Seq(Task) : r = submitQueue[idx]
        BY <2>2, LineTypes
      <3>4. Head(r) \in Submitted(idx)
        BY <2>2, <2>4, <3>3, QueueFacts DEF Located, SubmitsAre
      <3>5. Head(r).queue_idx = idx
        BY <3>4 DEF Submitted
      <3>6. PICK P \in Seq(Task) : P = toPost'
        <4>1. Parts(t) \in Seq(Part)
          BY <2>2, <3>1, <3>3, <3>4, PartsAreParts
        <4>2. \A u \in Part : u \in Task
          BY DEF Part
        <4>3. Parts(t) \in Seq(Task)
          BY <4>1, <4>2
        <4>4. QED
          BY <3>1, <4>3
      <3>7. \A i \in 1 .. Len(P) : P[i].id = Head(r).id /\ P[i].queue_idx = Head(r).queue_idx
        <4>1. PICK f \in Submitted(idx) : f = Head(r)
          BY <3>4
        <4>2. t \in HandledTasks(f)
          BY <3>1, <3>3, <4>1
        <4>3. \A i \in 1 .. Len(Parts(t)) : Parts(t)[i].id = f.id /\ Parts(t)[i].queue_idx = idx
          BY <2>2, <4>1, <4>2, PartsAreParts
        <4>4. QED
          BY <3>1, <3>5, <3>6, <4>1, <4>3
      <3>8. PICK m \in Seq(Task) : m = <<LastTask(idx)>>
        BY <2>2, LineTypes
      <3>9. InLine(h, q, <<>>, r, m)
        BY <1>4, <1>5, <1>6, <2>1, <2>2, <3>3, <3>8 DEF Ordered
      <3>10. InLine(h, q, P, Tail(r), m)
        BY <2>4, <3>3, <3>7, <3>9, PolledInLine
      <3>11. CASE d = idx
        <4>1. submitQueue'[d] = Tail(r) /\ l = m
          BY <1>8, <3>2, <3>3, <3>8, <3>11 DEF Located, SubmitsAre
        <4>2. QED
          BY <1>3, <1>4, <1>8, <2>1, <3>6, <3>10, <4>1
      <3>12. CASE d # idx
        <4>1. submitQueue'[d] = s
          BY <1>7, <3>2, <3>12 DEF Located, SubmitsAre
        <4>2. \A i \in 1 .. Len(s) : s[i].queue_idx = d
          BY <1>7, LineTypes
        <4>3. \A i \in 1 .. Len(l) : l[i].queue_idx = d
          <5>1. Len(<<LastTask(d)>>) = 1 /\ <<LastTask(d)>>[1] = LastTask(d) /\ LastTask(d).queue_idx = d
            BY LineTypes
          <5>2. QED
            BY <1>8, <5>1
        <4>4. \A i \in 1 .. Len(P) : P[i].queue_idx = idx
          BY <3>5, <3>7
        <4>5. Sorted(P) /\ Before(h, P) /\ Before(q, P)
          BY <3>10 DEF InLine
        <4>6. InLine(h, q, <<>>, s, l)
          BY <1>9, <2>1
        <4>7. InLine(h, q, P, s, l)
          BY <3>12, <4>2, <4>3, <4>4, <4>5, <4>6, PolledElsewhere
        <4>8. QED
          BY <1>3, <1>4, <1>8, <2>1, <3>6, <4>1, <4>7
      <3>13. QED
        BY <3>11, <3>12
    <2>5. QED
      BY <1>10, <2>3, <2>4 DEF Poll
  <1>11. ASSUME p # <<>>, toPost' = Tail(p), submitQueue' = submitQueue,
                Queue(w, y)' = q \/ Queue(w, y)' = Append(q, Head(p))
         PROVE  InLine(Held(w, y)', Queue(w, y)', toPost', submitQueue'[d], <<LastTask(d)'>>)
    <2>1. InLine(h, q, Tail(p), s, l) /\ InLine(h, Append(q, Head(p)), Tail(p), s, l)
      BY <1>9, <1>11, PostedInLine
    <2>2. QED
      BY <1>3, <1>4, <1>7, <1>8, <1>11, <2>1
  <1>12. CASE PostToNvm
    <2>1. /\ p # <<>> /\ toPost' = Tail(p) /\ UNCHANGED <<submitQueue, bufferQueue>>
          /\ nvmQueue' = [nvmQueue EXCEPT ![Head(p).to] = Append(@, Head(p))]
      BY <1>6, <1>12 DEF PostToNvm
    <2>2. nvmQueue'[w] = nvmQueue[w] \/ nvmQueue'[w] = Append(nvmQueue[w], Head(p))
      BY <2>1 DEF Located, NvmQueuesAre
    <2>3. Queue(w, y)' = q \/ Queue(w, y)' = Append(q, Head(p))
      BY <1>5, <2>1, <2>2 DEF Queue
    <2>4. QED
      BY <1>11, <2>1, <2>3
  <1>13. CASE PostToBuffer
    <2>1. /\ p # <<>> /\ toPost' = Tail(p) /\ UNCHANGED <<submitQueue, nvmQueue>>
          /\ bufferQueue' = [bufferQueue EXCEPT ![Head(p).to] = Append(@, Head(p))]
      BY <1>6, <1>13 DEF PostToBuffer
    <2>2. bufferQueue'[w] = bufferQueue[w] \/ bufferQueue'[w] = Append(bufferQueue[w], Head(p))
      BY <2>1 DEF Located, BufferQueuesAre
    <2>3. Queue(w, y)' = q \/ Queue(w, y)' = Append(q, Head(p))
      BY <1>5, <2>1, <2>2 DEF Queue
    <2>4. QED
      BY <1>11, <2>1, <2>3
  <1>14. QED
    BY <1>10, <1>12, <1>13 DEF SchedulerStep

LEMMA OrderedWorkers ==
    ASSUME Located, Ordered, NEW v \in Workers, NvmWorkerStep(v) \/ SsdWorkerStep(v)
    PROVE  Ordered'
  <1> SUFFICES ASSUME NEW w \in Workers, NEW y \in Lanes, NEW d \in Clients
               PROVE  InLine(Held(w, y)', Queue(w, y)', toPost', submitQueue'[d], <<LastTask(d)'>>)
    BY DEF Ordered
  <1>1. InLine(Held(w, y), Queue(w, y), toPost, submitQueue[d], <<LastTask(d)>>)
    BY DEF Ordered
  <1>2. UNCHANGED <<submitQueue, toPost, posted>>
    BY DEF NvmWorkerStep, SsdWorkerStep, Take, ServeNvm, RedirectSmallWrite, RedirectLargeWrite,
           RedirectReadMiss, RedirectReadDone, TakeSsd, ServeSsd, client, scheduler
  <1>3. LastTask(d)' = LastTask(d) /\ hand \in [Workers -> Seq(Errand)]
    BY <1>2 DEF LastTask, Located, HandsAre
  <1>4. PICK q \in Seq(Task) : q = Queue(w, y)
    BY LineTypes
  <1>5. /\ InLine(<<>>, q, toPost, submitQueue[d], <<LastTask(d)>>)
        /\ q # <<>> => InLine(<<Head(q)>>, Tail(q), toPost, submitQueue[d], <<LastTask(d)>>)
    <2>1. PICK h \in Seq(Task) : h = Held(w, y)
      BY LineTypes
    <2>2. PICK p \in Seq(Task) : p = toPost
      BY LineTypes
    <2>3. PICK s \in Seq(Task) : s = submitQueue[d]
      BY LineTypes
    <2>4. PICK l \in Seq(Task) : l = <<LastTask(d)>>
      BY LineTypes
    <2>5. InLine(h, q, p, s, l)
      BY <1>1, <1>4, <2>1, <2>2, <2>3, <2>4
    <2>6. InLine(<<>>, q, p, s, l) /\ (q # <<>> => InLine(<<Head(q)>>, Tail(q), p, s, l))
      BY <2>5, TakenInLine
    <2>7. QED
      BY <2>2, <2>3, <2>4, <2>6
  <1>6. ASSUME \/ Held(w, y)' = Held(w, y) /\ Queue(w, y)' = q
               \/ Held(w, y)' = <<>> /\ Queue(w, y)' = q
               \/ q # <<>> /\ Held(w, y)' = <<Head(q)>> /\ Queue(w, y)' = Tail(q)
        PROVE  InLine(Held(w, y)', Queue(w, y)', toPost', submitQueue'[d], <<LastTask(d)'>>)
    BY <1>1, <1>2, <1>3, <1>4, <1>5, <1>6
  <1>7. ASSUME v # w, UNCHANGED <<hand[w], nvmQueue[w], bufferQueue[w]>>
        PROVE  InLine(Held(w, y)', Queue(w, y)', toPost', submitQueue'[d], <<LastTask(d)'>>)
    BY <1>4, <1>6, <1>7 DEF Held, Queue
  <1>8. ASSUME UNCHANGED <<nvmQueue, bufferQueue>>,
               hand' = hand \/ hand' = [hand EXCEPT ![v] = <<>>]
        PROVE  InLine(Held(w, y)', Queue(w, y)', toPost', submitQueue'[d], <<LastTask(d)'>>)
    <2>1. Queue(w, y)' = q
      BY <1>4, <1>8 DEF Queue
    <2>2. hand'[w] = hand[w] \/ hand'[w] = <<>>
      BY <1>3, <1>8
    <2>3. Held(w, y)' = Held(w, y) \/ Held(w, y)' = <<>>
      BY <2>2 DEF Held
    <2>4. QED
      BY <1>6, <2>1, <2>3
  <1>9. CASE Take(v)
    <2> DEFINE f == IF seq[v] THEN nvmQueue[v] ELSE bufferQueue[v]
    <2>1. CASE f = <<>> /\ UNCHANGED <<hand, nvmQueue, bufferQueue>>
      BY <1>8, <2>1
    <2>2. CASE f # <<>>
      <3>1. PICK e \in Errands(Head(f)) : hand' = [hand EXCEPT ![v] = <<e>>]
        BY <1>9, <2>2 DEF Take
      <3>2. /\ nvmQueue' = IF seq[v] THEN [nvmQueue EXCEPT ![v] = Tail(@)] ELSE nvmQueue
            /\ bufferQueue' = IF seq[v] THEN bufferQueue ELSE [bufferQueue EXCEPT ![v] = Tail(@)]
        BY <1>9, <2>2 DEF Take
      <3>3. /\ nvmQueue \in [Workers -> Seq(Task)] /\ nvmQueue[v] \in Seq(NvmPart(v))
            /\ bufferQueue \in [Workers -> Seq(Task)] /\ bufferQueue[v] \in Seq(SsdPart(v))
        BY DEF Located, NvmQueuesAre, BufferQueuesAre
      <3>4. CASE w # v
        BY <1>3, <1>7, <3>1, <3>2, <3>3, <3>4
      <3>5. CASE w = v
        <4>1. /\ seq[v] => Head(f) \in NvmPart(v)
              /\ ~ seq[v] => Head(f) \in SsdPart(v)
          BY <2>2, <3>3, QueueFacts
        <4>2. e.task = Head(f)
          BY <4>1, ErrandsAreErrands
        <4>3. Head(f).type = IF seq[v] THEN "nvm" ELSE "ssd"
          BY <4>1 DEF NvmPart, SsdPart
        <4>4. hand'[w] = <<e>> /\ hand'[w] # <<>> /\ Head(hand'[w]) = e
          BY <1>3, <3>1, <3>5
        <4>5. CASE y = (IF seq[v] THEN "nvm" ELSE "ssd")
          <5>1. q = f
            BY <1>4, <3>5, <4>5 DEF Queue
          <5>2. Queue(w, y)' = Tail(q)
            <6>1. CASE seq[v]
              BY <3>2, <3>3, <3>5, <4>5, <5>1, <6>1 DEF Queue
            <6>2. CASE ~ seq[v]
              BY <3>2, <3>3, <3>5, <4>5, <5>1, <6>2 DEF Queue
            <6>3. QED
              BY <6>1, <6>2
          <5>3. Held(w, y)' = <<Head(q)>>
            BY <4>2, <4>3, <4>4, <4>5, <5>1 DEF Held
          <5>4. QED
            BY <1>6, <2>2, <5>1, <5>2, <5>3
        <4>6. CASE y # (IF seq[v] THEN "nvm" ELSE "ssd")
          <5>1. Held(w, y)' = <<>>
            BY <4>2, <4>3, <4>4, <4>6 DEF Held
          <5>2. Queue(w, y)' = q
            <6>1. CASE seq[v]
              BY <1>4, <3>2, <3>5, <4>6, <6>1 DEF Queue
            <6>2. CASE ~ seq[v]
              BY <1>4, <3>2, <3>5, <4>6, <6>2 DEF Queue, Lanes
            <6>3. QED
              BY <6>1, <6>2
          <5>3. QED
            BY <1>6, <5>1, <5>2
        <4>7. QED
          BY <4>5, <4>6
      <3>6. QED
        BY <3>4, <3>5
    <2>3. QED
      BY <1>9, <2>1, <2>2 DEF Take
  <1>10. CASE ServeNvm(v) \/ RedirectSmallWrite(v) \/ RedirectLargeWrite(v) \/ RedirectReadDone(v)
    <2>1. UNCHANGED <<nvmQueue, bufferQueue>> /\ hand' = [hand EXCEPT ![v] = <<>>]
      BY <1>10 DEF ServeNvm, RedirectSmallWrite, RedirectLargeWrite, RedirectReadDone
    <2>2. QED
      BY <1>8, <2>1
  <1>11. CASE RedirectReadMiss(v)
    <2>1. /\ UNCHANGED <<nvmQueue, bufferQueue>> /\ hand[v] # <<>>
          /\ hand' = [hand EXCEPT ![v][1].misses = Tail(@)]
      BY <1>11 DEF RedirectReadMiss
    <2>2. CASE w # v
      BY <1>3, <1>7, <2>1, <2>2
    <2>3. CASE w = v
      <3>1. PICK e \in Errand : e = Head(hand[w])
        BY <1>11, <2>3, MissIsPosted DEF ErrandsAt
      <3>2. PICK f : f = [e EXCEPT !.misses = Tail(@)]
        OBVIOUS
      <3>3. f.task = e.task
        BY <3>2 DEF Errand
      <3>4. hand' = [hand EXCEPT ![w] = <<f>>]
        BY <1>11, <2>3, <3>1, <3>2, MissIsPosted
      <3>5. hand'[w] # <<>> /\ Head(hand'[w]) = f
        BY <1>3, <3>4
      <3>6. Held(w, y)' = Held(w, y)
        BY <2>1, <2>3, <3>1, <3>3, <3>5 DEF Held
      <3>7. Queue(w, y)' = q
        BY <1>4, <2>1 DEF Queue
      <3>8. QED
        BY <1>6, <3>6, <3>7
    <2>4. QED
      BY <2>2, <2>3
  <1>12. CASE SsdWorkerStep(v)
    <2>1. UNCHANGED <<nvmQueue, bufferQueue, hand>>
      BY <1>12 DEF SsdWorkerStep, TakeSsd, ServeSsd, nvm
    <2>2. QED
      BY <1>8, <2>1
  <1>13. QED
    BY <1>9, <1>10, <1>11, <1>12 DEF NvmWorkerStep

LEMMA OrderedHolds == Spec => [](Located /\ Ordered)
  <1>1. Located /\ Ordered /\ [Next]_vars => Ordered'
    <2> SUFFICES ASSUME Located, Ordered, [Next]_vars PROVE Ordered'
      OBVIOUS
    <2>1. Located'
      BY LocatedStep
    <2>2. CASE \E c \in Clients : (\E r \in Requests : Request(c, r)) \/ Submit(c) \/ ReadReturns(c)
      BY <2>1, <2>2, OrderedClients
    <2>3. CASE SchedulerStep
      BY <2>3, OrderedScheduler
    <2>4. CASE \E w \in Workers : NvmWorkerStep(w) \/ SsdWorkerStep(w)
      BY <2>4, OrderedWorkers
    <2>5. CASE UNCHANGED vars
      <3>1. UNCHANGED <<hand, nvmQueue, bufferQueue, toPost, submitQueue, posted>>
        BY <2>5 DEF vars, client, scheduler, nvm
      <3>2. \A w, y : Held(w, y)' = Held(w, y) /\ Queue(w, y)' = Queue(w, y)
        BY <3>1 DEF Held, Queue
      <3>3. \A c : LastTask(c)' = LastTask(c)
        BY <3>1 DEF LastTask
      <3>4. QED
        BY <3>1, <3>2, <3>3 DEF Ordered
    <2>6. QED
      BY <2>2, <2>3, <2>4, <2>5 DEF Next
  <1>2. QED
    BY <1>1, LocatedStarts, LocatedStep, OrderedStarts, PTL DEF Spec

(* Tasks for the ssd that overlap have the same home.                      *)
LEMMA OverlapAtHome ==
    ASSUME NEW v \in Workers, NEW w \in Workers, NEW t \in SsdPart(w), NEW u \in Task,
           Home(u.offset) = v, \A b \in u.offset .. u.offset + u.len - 1 : Home(b) = v,
           u.offset < t.offset + t.len, t.offset < u.offset + u.len
    PROVE  v = w
  <1>1. /\ u.offset \in Nat /\ u.len \in Nat /\ t.offset \in Nat /\ t.len \in Nat /\ t.len > 0
        /\ \A b \in t.offset .. t.offset + t.len - 1 : Home(b) = w
    BY TaskFacts DEF SsdPart, BelongsTo
  <1>2. CASE t.offset <= u.offset
    <2>1. u.offset \in t.offset .. t.offset + t.len - 1
      BY <1>1, <1>2
    <2>2. QED
      BY <1>1, <2>1
  <1>3. CASE u.offset < t.offset
    <2>1. t.offset \in u.offset .. u.offset + u.len - 1
          /\ t.offset \in t.offset .. t.offset + t.len - 1
      BY <1>1, <1>3
    <2>2. QED
      BY <1>1, <2>1
  <1>4. QED
    BY <1>1, <1>2, <1>3

(* A worker never has a task in hand while an earlier one of the same      *)
(* client that touches one of its blocks waits in any queue, or is in the  *)
(* hands of another worker: however many workers serve the client's tasks. *)
THEOREM InOrderHolds == Spec => []InOrder
  <1>1. Located /\ Ordered => InOrder
    <2> SUFFICES ASSUME Located, Ordered, NEW w \in Workers, hand[w] # <<>>
                 PROVE  LET t == Head(hand[w]).task
                            Earlier(u) == u.queue_idx = t.queue_idx /\ u.id < t.id
                            Overlaps(u) == /\ u.type = t.type
                                           /\ u.offset < t.offset + t.len
                                           /\ t.offset < u.offset + u.len
                            others == UNION {ToSet(InHand(v)) : v \in Workers \ {w}}
                        IN  /\ \A u \in ToSet(submitQueue[t.queue_idx]) : ~Earlier(u)
                            /\ \A u \in Untaken \cup others : ~(Earlier(u) /\ Overlaps(u))
      BY DEF InOrder
    <2>1. PICK t \in NvmPart(w) \cup SsdPart(w) : t = Head(hand[w]).task
      BY InHandFacts
    <2> DEFINE Earlier(u) == u.queue_idx = t.queue_idx /\ u.id < t.id
               Overlaps(u) == /\ u.type = t.type
                              /\ u.offset < t.offset + t.len
                              /\ t.offset < u.offset + u.len
    <2>2. /\ t \in Task /\ t.type \in Lanes /\ t.queue_idx \in Clients /\ t.id \in Nat
          /\ t.type = "nvm" => t \in NvmPart(w)
          /\ t.type = "ssd" => t \in SsdPart(w)
      <3>1. t \in Task /\ t.type \in Lanes
        BY DEF NvmPart, SsdPart, Lanes
      <3>2. (t.type = "nvm" => t \in NvmPart(w)) /\ (t.type = "ssd" => t \in SsdPart(w))
        BY DEF NvmPart, SsdPart
      <3>3. QED
        BY <3>1, <3>2, TaskFacts
    <2>3. /\ Before(<<t>>, submitQueue[t.queue_idx]) /\ Before(<<t>>, toPost)
          /\ Before(<<t>>, Queue(w, t.type))
      <3>1. Held(w, t.type) = <<t>>
        BY <2>1 DEF Held
      <3>2. InLine(Held(w, t.type), Queue(w, t.type), toPost, submitQueue[t.queue_idx],
                   <<LastTask(t.queue_idx)>>)
        BY <2>2 DEF Ordered
      <3>3. QED
        BY <3>1, <3>2 DEF InLine
    <2>4. ASSUME NEW q \in Seq(Task), Before(<<t>>, q), NEW u \in ToSet(q)
          PROVE  ~ Earlier(u)
      <3>1. PICK i \in 1 .. Len(q) : u = q[i]
        BY DEF ToSet
      <3>2. u \in Task /\ u.id \in Nat
        BY <3>1, QueueFacts, TaskFacts
      <3>3. 1 \in 1 .. Len(<<t>>) /\ <<t>>[1] = t
        OBVIOUS
      <3>4. u.queue_idx = t.queue_idx => t.id <= u.id
        BY <2>4, <3>1, <3>3 DEF Before
      <3>5. QED
        BY <2>2, <3>2, <3>4
    <2>5. ASSUME NEW u \in ToSet(submitQueue[t.queue_idx])
          PROVE  ~ Earlier(u)
      <3>1. submitQueue[t.queue_idx] \in Seq(Task)
        BY <2>2 DEF Located, SubmitsAre
      <3>2. QED
        BY <2>3, <2>4, <3>1
    <2>6. ASSUME NEW u \in ToSet(toPost)
          PROVE  ~ Earlier(u)
      <3>1. toPost \in Seq(Task)
        BY <2>2, LineTypes
      <3>2. QED
        BY <2>3, <2>4, <3>1
    <2>7. ASSUME NEW v \in Workers, NEW u \in ToSet(nvmQueue[v]), Earlier(u), Overlaps(u)
          PROVE  FALSE
      <3>1. nvmQueue[v] \in Seq(NvmPart(v)) /\ nvmQueue[v] \in Seq(Task)
        BY DEF Located, NvmQueuesAre
      <3>2. u \in NvmPart(v)
        BY <3>1, QueueFacts
      <3>3. t.type = "nvm" /\ v = w
        BY <2>2, <2>7, <3>2 DEF NvmPart
      <3>4. Before(<<t>>, nvmQueue[v])
        BY <2>3, <3>3 DEF Queue
      <3>5. QED
        BY <2>4, <2>7, <3>1, <3>4
    <2>8. ASSUME NEW v \in Workers, NEW u \in ToSet(bufferQueue[v]), Earlier(u), Overlaps(u)
          PROVE  FALSE
      <3>1. bufferQueue[v] \in Seq(SsdPart(v)) /\ bufferQueue[v] \in Seq(Task)
        BY DEF Located, BufferQueuesAre
      <3>2. u \in SsdPart(v)
        BY <3>1, QueueFacts
      <3>3. u \in Task /\ u.type = "ssd" /\ t \in SsdPart(w)
        BY <2>2, <2>8, <3>2 DEF SsdPart
      <3>4. Home(u.offset) = v /\ \A b \in u.offset .. u.offset + u.len - 1 : Home(b) = v
        <4>1. u.offset \in Nat /\ u.len \in Nat /\ u.len > 0
              /\ \A b \in u.offset .. u.offset + u.len - 1 : Home(b) = v
          BY <3>2, <3>3, TaskFacts DEF SsdPart, BelongsTo
        <4>2. u.offset \in u.offset .. u.offset + u.len - 1
          BY <4>1
        <4>3. QED
          BY <4>1, <4>2
      <3>5. v = w
        BY <2>8, <3>3, <3>4, OverlapAtHome
      <3>6. Before(<<t>>, bufferQueue[v])
        BY <2>3, <2>8, <3>3, <3>5 DEF Queue
      <3>7. QED
        BY <2>4, <2>8, <3>1, <3>6
    <2>9. ASSUME NEW v \in Workers \ {w}, NEW u \in ToSet(InHand(v)), Earlier(u), Overlaps(u)
          PROVE  FALSE
      <3>1. hand[v] # <<>>
        <4>1. ToSet(<<>>) = {}
          BY DEF ToSet
        <4>2. QED
          BY <4>1, InHandFacts
      <3>2. PICK g \in NvmPart(v) \cup SsdPart(v) :
               g = Head(hand[v]).task /\ InHand(v) \in Seq(PiecesOf(g))
        BY <3>1, InHandFacts
      <3>3. u \in PiecesOf(g)
        BY <3>2, QueueFacts
      <3>4. u \in Task /\ u.type = g.type /\ u.queue_idx = g.queue_idx
        BY <3>3 DEF PiecesOf
      <3>5. CASE t.type = "nvm"
        BY <2>2, <2>9, <3>2, <3>4, <3>5 DEF NvmPart, SsdPart
      <3>6. CASE t.type = "ssd"
        <4>1. g \in SsdPart(v) /\ t \in SsdPart(w)
          BY <2>2, <2>9, <3>2, <3>4, <3>6 DEF NvmPart
        <4>2. Home(u.offset) = v /\ \A b \in u.offset .. u.offset + u.len - 1 : Home(b) = v
          BY <3>3, <4>1, PiecesGoHome
        <4>3. v = w
          BY <2>9, <3>4, <4>1, <4>2, OverlapAtHome
        <4>4. QED
          BY <4>3
      <3>7. QED
        BY <2>2, <3>5, <3>6 DEF Lanes
    <2>10. ASSUME NEW u \in Untaken \cup UNION {ToSet(InHand(v)) : v \in Workers \ {w}},
                  Earlier(u), Overlaps(u)
           PROVE  FALSE
      <3> HIDE DEF Earlier, Overlaps
      <3>1. QED
        BY <2>6, <2>7, <2>8, <2>9, <2>10 DEF Untaken
    <2>11. QED
      <3>1. \A u \in ToSet(submitQueue[t.queue_idx]) : ~Earlier(u)
        BY <2>5
      <3>2. \A u \in Untaken \cup UNION {ToSet(InHand(v)) : v \in Workers \ {w}} :
               ~(Earlier(u) /\ Overlaps(u))
        BY <2>10
      <3>3. QED
        BY <2>1, <3>1, <3>2
  <1>2. QED
    BY <1>1, OrderedHolds, PTL

-----------------------------------------------------------------------------
(* The blocks of queues and of tasks cut into parts.                       *)

LenIn(t, T) == IF t \in T THEN t.len ELSE 0

LEMMA BlocksInEmpty == \A T : BlocksIn(<<>>, T) = 0
  BY SumEmpty DEF BlocksIn

LEMMA BlocksInQueue ==
    ASSUME NEW T, NEW q \in Seq(Task)
    PROVE  /\ BlocksIn(q, T) \in Nat
           /\ \A e \in Task : BlocksIn(Append(q, e), T) = BlocksIn(q, T) + LenIn(e, T)
           /\ q # <<>> => BlocksIn(q, T) = LenIn(Head(q), T) + BlocksIn(Tail(q), T)
  <1> DEFINE W(s) == [i \in 0 .. Len(s) - 1 |-> IF s[i + 1] \in T THEN s[i + 1].len ELSE 0]
  <1>1. \A s : BlocksIn(s, T) = SumBelow(Len(s), W(s))
    BY DEF BlocksIn
  <1>2. ASSUME NEW s \in Seq(Task), NEW i \in 0 .. Len(s) - 1
        PROVE  W(s)[i] = LenIn(s[i + 1], T) /\ W(s)[i] \in Nat
    <2>1. i + 1 \in 1 .. Len(s)
      OBVIOUS
    <2>2. s[i + 1] \in Task
      BY <2>1, QueueFacts
    <2>3. s[i + 1].len \in Nat
      BY <2>2, TaskFacts
    <2>4. QED
      BY <2>3 DEF LenIn
  <1> HIDE DEF W
  <1>3. BlocksIn(q, T) \in Nat
    <2>1. \A i \in 0 .. Len(q) - 1 : W(q)[i] \in Nat
      BY <1>2
    <2>2. QED
      BY <1>1, <2>1, SumOfNaturals
  <1>4. ASSUME NEW e \in Task
        PROVE  BlocksIn(Append(q, e), T) = BlocksIn(q, T) + LenIn(e, T)
    <2>1. PICK a \in Seq(Task) : a = Append(q, e)
      BY QueueFacts
    <2>2. Len(a) = Len(q) + 1 /\ Len(q) \in Nat /\ a[Len(q) + 1] = e
          /\ \A i \in 1 .. Len(q) : a[i] = q[i]
      BY <2>1
    <2>3. \A i \in 0 .. Len(q) - 1 : W(q)[i] = W(a)[i]
      <3>1. \A i \in 0 .. Len(q) - 1 : /\ i \in 0 .. Len(a) - 1 /\ i + 1 \in 1 .. Len(q)
        BY <2>2
      <3>2. QED
        BY <1>2, <2>2, <3>1
    <2>4. W(a)[Len(q)] = LenIn(e, T)
      <3>1. Len(q) \in 0 .. Len(a) - 1
        BY <2>2
      <3>2. QED
        BY <1>2, <2>2, <3>1
    <2>5. SumBelow(Len(q), W(q)) = SumBelow(Len(q), W(a))
      BY <2>2, <2>3, SumSame
    <2>6. SumBelow(Len(q) + 1, W(a)) = SumBelow(Len(q), W(a)) + W(a)[Len(q)]
      BY <2>2, SumStep
    <2>7. QED
      BY <1>1, <2>1, <2>2, <2>4, <2>5, <2>6
  <1>5. ASSUME q # <<>>
        PROVE  BlocksIn(q, T) = LenIn(Head(q), T) + BlocksIn(Tail(q), T)
    <2>1. PICK r \in Seq(Task) : r = Tail(q)
      BY <1>5, QueueFacts
    <2>2. PICK n \in Nat : n = Len(r)
      OBVIOUS
    <2>3. Len(q) = n + 1 /\ Head(q) = q[1] /\ \A i \in 1 .. n : r[i] = q[i + 1]
      BY <1>5, <2>1, <2>2
    <2>4. \A i \in 0 .. n : W(q)[i] \in Nat
      BY <1>2, <2>3
    <2>5. \A i \in 0 .. n - 1 : W(r)[i] = W(q)[i + 1]
      <3>1. \A i \in 0 .. n - 1 :
               /\ i \in 0 .. Len(r) - 1 /\ i + 1 \in 0 .. Len(q) - 1
               /\ i + 1 \in 1 .. n /\ (i + 1) + 1 = i + 2
        BY <2>2, <2>3
      <3>2. QED
        BY <1>2, <2>3, <3>1
    <2>6. W(q)[0] = LenIn(Head(q), T)
      <3>1. 0 \in 0 .. Len(q) - 1 /\ 0 + 1 = 1
        BY <2>3
      <3>2. QED
        BY <1>2, <2>3, <3>1
    <2>7. SumBelow(n + 1, W(q)) = W(q)[0] + SumBelow(n, W(r))
      BY <2>4, <2>5, SumShift
    <2>8. QED
      BY <1>1, <2>1, <2>2, <2>3, <2>6, <2>7
  <1>6. QED
    BY <1>3, <1>4, <1>5

(* The parts of a task have its blocks.                                    *)
LEMMA StripesAreWhole ==
    ASSUME NEW T, NEW t \in Task, t.len > 0,
           \A k \in 1 .. Len(Stripes(t)) : Stripes(t)[k] \in T <=> t \in T
    PROVE  BlocksIn(Stripes(t), T) = LenIn(t, T)
  <1>1. PICK n \in Nat \ {0} : n = Parts_(t)
    BY StripeCuts
  <1>2. PICK P \in Seq(Task) : P = Stripes(t) /\ Len(P) = n
    BY <1>1, StripesGoHome
  <1>3. PICK W : W = [i \in 0 .. n - 1 |-> IF P[i + 1] \in T THEN P[i + 1].len ELSE 0]
    OBVIOUS
  <1>4. BlocksIn(P, T) = SumBelow(n, W)
    BY <1>2, <1>3 DEF BlocksIn
  <1>5. t.offset \in Nat /\ t.len \in Nat
    BY TaskFacts
  <1>6. ASSUME NEW k \in 1 .. n
        PROVE  /\ P[k].len = End(t, k) - First(t, k) /\ (P[k] \in T <=> t \in T)
               /\ First(t, k) \in Nat /\ End(t, k) \in Nat
    <2>1. P[k] = [t EXCEPT !.offset = First(t, k), !.len = End(t, k) - First(t, k),
                           !.to = (Home(t.offset) + k - 1) % QueueNum]
      BY <1>2, StripesGoHome
    <2>2. P[k].len = End(t, k) - First(t, k)
      BY <2>1, TaskFacts
    <2>3. First(t, k) \in Nat /\ End(t, k) \in Nat
      BY <1>1, StripesGoHome
    <2>4. P[k] \in T <=> t \in T
      BY <1>2
    <2>5. QED
      BY <2>2, <2>3, <2>4
  <1>7. CASE t \notin T
    <2>1. \A i \in 0 .. n - 1 : W[i] = 0
      <3>1. \A i \in 0 .. n - 1 : i + 1 \in 1 .. n
        OBVIOUS
      <3>2. QED
        BY <1>3, <1>6, <1>7, <3>1
    <2>2. SumBelow(n, W) = 0
      BY <2>1, SumOfZeros
    <2>3. QED
      BY <1>2, <1>4, <1>7, <2>2 DEF LenIn
  <1>8. CASE t \in T
    <2> DEFINE M == {m \in Nat : 1 <= m /\ m <= n => SumBelow(m, W) = End(t, m) - t.offset}
    <2>1. 0 \in M
      OBVIOUS
    <2>2. ASSUME NEW m \in M
          PROVE  m + 1 \in M
      <3>1. CASE m + 1 <= n
        <4>1. SumBelow(m + 1, W) = SumBelow(m, W) + W[m]
          BY SumStep
        <4>2. m + 1 \in 1 .. n /\ m \in 0 .. n - 1
          BY <3>1
        <4>3. /\ W[m] = End(t, m + 1) - First(t, m + 1)
              /\ First(t, m + 1) \in Nat /\ End(t, m + 1) \in Nat
          BY <1>3, <1>6, <1>8, <4>2
        <4>4. CASE m = 0
          <5>1. First(t, m + 1) = t.offset /\ SumBelow(m, W) = 0
            BY <4>4, SumEmpty, StripeCuts
          <5>2. QED
            BY <1>5, <4>1, <4>3, <5>1
        <4>5. CASE m # 0
          <5>1. m \in 1 .. n - 1 /\ m \in 1 .. n
            BY <3>1, <4>5
          <5>2. First(t, m + 1) = End(t, m)
            BY <1>1, <5>1, StripeCuts
          <5>3. SumBelow(m, W) = End(t, m) - t.offset /\ End(t, m) \in Nat
            BY <1>6, <5>1
          <5>4. QED
            BY <1>5, <4>1, <4>3, <5>2, <5>3
        <4>6. QED
          BY <4>4, <4>5
      <3>2. CASE ~ (m + 1 <= n)
        BY <3>2
      <3>3. QED
        BY <3>1, <3>2
    <2>3. M = Nat
      <3> HIDE DEF M
      <3>1. QED
        BY <2>1, <2>2, Induction DEF M
    <2>4. SumBelow(n, W) = End(t, n) - t.offset
      BY <2>3
    <2>5. QED
      BY <1>1, <1>2, <1>4, <1>5, <1>8, <2>4, StripeCuts DEF LenIn
  <1>9. QED
    BY <1>7, <1>8

(* A missing block lies in a run.                                          *)
LEMMA StartBelow ==
    ASSUME NEW missing, \A b \in missing : b \in Nat, NEW b \in missing
    PROVE  \E x \in Starts(missing) : x \in Nat /\ x <= b /\ x .. b \subseteq missing
  <1> DEFINE X == {x \in Nat : x <= b /\ x .. b \subseteq missing}
  <1>1. b \in Nat
    OBVIOUS
  <1>2. b \in X
    <2>1. b .. b = {b}
      BY <1>1
    <2>2. QED
      BY <1>1, <2>1
  <1>3. PICK x \in X : \A y \in X : x <= y
    <2>1. X \in SUBSET Nat /\ X # {}
      BY <1>2
    <2> HIDE DEF X
    <2>2. QED
      BY <2>1, LeastNatural
  <1>4. x \in Nat /\ x <= b /\ x .. b \subseteq missing /\ x \in x .. b
    BY <1>1
  <1>5. x - 1 \notin missing
    <2>1. ASSUME x - 1 \in missing PROVE FALSE
      <3>1. x - 1 \in Nat
        BY <2>1
      <3>2. (x - 1) .. b \subseteq missing
        <4>1. ASSUME NEW y \in (x - 1) .. b
              PROVE  y \in missing
          <5>1. y = x - 1 \/ y \in x .. b
            BY <1>1, <1>4
          <5>2. QED
            BY <1>4, <2>1, <5>1
        <4>2. QED
          BY <4>1
      <3>3. x - 1 \in X
        BY <1>1, <1>4, <3>1, <3>2
      <3>4. x <= x - 1
        BY <1>3, <3>3
      <3>5. QED
        BY <1>4, <3>4
    <2>2. QED
      BY <2>1
  <1>6. x \in missing
    BY <1>4
  <1>7. QED
    BY <1>4, <1>5, <1>6 DEF Starts

(* The k-th run of missing blocks begins at s and has l blocks.            *)
RunAt(missing, k, s, l) ==
    /\ k \in 1 .. Cardinality(Starts(missing)) /\ s = Ascending(Starts(missing))[k]
    /\ s \in Nat /\ l \in Nat \ {0}
    /\ s .. s + l - 1 \subseteq missing /\ s + l \notin missing

(* A missing block is in the run that its rank among the first blocks of   *)
(* the runs tells, and in no other.                                        *)
LEMMA RunByRank ==
    ASSUME NEW missing, \A b \in missing : b \in Nat, IsFiniteSet(missing),
           NEW k, NEW s, NEW l, RunAt(missing, k, s, l)
    PROVE  \A b : (b \in missing /\ Rank(Starts(missing), b) = k) <=> b \in s .. s + l - 1
  <1> PICK S : S = Starts(missing)
    OBVIOUS
  <1>   /\ k \in 1 .. Cardinality(S) /\ s = Ascending(S)[k]
        /\ s \in Nat /\ l \in Nat \ {0}
        /\ s .. s + l - 1 \subseteq missing /\ s + l \notin missing
    BY DEF RunAt
  <1>1. S \in SUBSET missing /\ \A b \in S : b \in missing /\ b - 1 \notin missing
    BY DEF Starts
  <1>2. IsFiniteSet(S) /\ \A b \in S : b \in Nat
    BY <1>1, FS_Subset
  <1>3. /\ Ascending(S) \in [1 .. Cardinality(S) -> S]
        /\ \A i \in 1 .. Cardinality(S) : Rank(S, Ascending(S)[i]) = i
        /\ \A b, c \in S : b < c => Rank(S, b) < Rank(S, c)
        /\ Cardinality(S) \in Nat
    BY <1>2, AscendingFacts
  <1>4. s \in S /\ Rank(S, s) = k /\ k \in Nat
    BY <1>3
  (* Ranks do not fall. *)
  <1>5. ASSUME NEW b \in Nat, NEW c \in Nat, b <= c
        PROVE  Rank(S, b) <= Rank(S, c)
    <2>1. {x \in S : x <= b} \in SUBSET {x \in S : x <= c}
      <3>1. ASSUME NEW x \in S, x <= b
            PROVE  x <= c
        <4>1. x \in Nat
          BY <1>2
        <4>2. QED
          BY <1>5, <3>1, <4>1
      <3>2. QED
        BY <3>1
    <2>2. IsFiniteSet({x \in S : x <= c})
      BY <1>2, FS_Subset
    <2>3. Cardinality({x \in S : x <= b}) <= Cardinality({x \in S : x <= c})
      BY <2>1, <2>2, FS_Subset
    <2>4. QED
      BY <2>3 DEF Rank
  (* Within the run no other run begins. *)
  <1>6. ASSUME NEW b \in s .. s + l - 1
        PROVE  b \in missing /\ Rank(S, b) = k
    <2>1. ASSUME NEW x \in S, x <= b
          PROVE  x <= s
      <3>1. x \in Nat /\ x - 1 \notin missing
        BY <1>1, <1>2
      <3>2. ~ (x - 1 \in s .. s + l - 1)
        BY <3>1
      <3>3. QED
        BY <2>1, <3>1, <3>2
    <2>2. \A x \in S : x <= b <=> x <= s
      <3>1. ASSUME NEW x \in S, x <= s
            PROVE  x <= b
        <4>1. x \in Nat
          BY <1>2
        <4>2. QED
          BY <3>1, <4>1
      <3>2. QED
        BY <2>1, <3>1
    <2>3. {x \in S : x <= b} = {x \in S : x <= s}
      BY <2>2
    <2>4. QED
      BY <1>4, <2>3 DEF Rank
  (* Outside of it the rank is another. *)
  <1>7. ASSUME NEW b \in missing, Rank(S, b) = k, b \notin s .. s + l - 1
        PROVE  FALSE
    <2>1. b \in Nat
      OBVIOUS
    <2>2. PICK x \in S : x \in Nat /\ x <= b /\ x .. b \subseteq missing
      BY StartBelow
    <2>3. CASE b < s
      <3>1. Rank(S, x) <= Rank(S, b) /\ Rank(S, b) = k
        BY <1>5, <1>7, <2>1, <2>2
      <3>2. {y \in S : y <= b} \in SUBSET {y \in S : y <= s} \ {s}
        <4>1. ASSUME NEW y \in S, y <= b
              PROVE  y <= s /\ y # s
          <5>1. y \in Nat
            BY <1>2
          <5>2. QED
            BY <2>1, <2>3, <4>1, <5>1
        <4>2. QED
          BY <4>1
      <3>3. s \in {y \in S : y <= s} /\ IsFiniteSet({y \in S : y <= s})
        BY <1>2, <1>4, FS_Subset
      <3>4. Cardinality({y \in S : y <= s} \ {s}) = Cardinality({y \in S : y <= s}) - 1
            /\ IsFiniteSet({y \in S : y <= s} \ {s})
        BY <3>3, FS_RemoveElement
      <3>5. Cardinality({y \in S : y <= b}) <= Cardinality({y \in S : y <= s} \ {s})
        BY <3>2, <3>4, FS_Subset
      <3>6. k <= k - 1
        BY <1>4, <1>7, <3>4, <3>5 DEF Rank
      <3>7. QED
        BY <1>4, <3>6
    <2>4. CASE s + l <= b
      <3>1. s < x
        <4>1. ASSUME x <= s PROVE FALSE
          <5>1. s + l \in x .. b
            BY <2>1, <2>2, <2>4, <4>1
          <5>2. QED
            BY <2>2, <5>1
        <4>2. QED
          BY <2>2, <4>1
      <3>2. Rank(S, s) < Rank(S, x)
        BY <1>3, <1>4, <2>2, <3>1
      <3>3. Rank(S, x) <= Rank(S, b)
        BY <1>5, <2>1, <2>2
      <3>4. Rank(S, x) \in Nat
        <4>1. Rank(S, x) \in 1 .. Cardinality(S)
          BY <1>2, <2>2, AscendingFacts
        <4>2. QED
          BY <1>3, <4>1
      <3>5. QED
        BY <1>4, <1>7, <3>2, <3>3, <3>4
    <2>5. QED
      BY <1>7, <2>1, <2>3, <2>4
  <1>8. QED
    BY <1>6, <1>7

RunsAt(missing, n, s, W) == \A k \in 1 .. n : RunAt(missing, k, s[k], W[k - 1])

LEMMA IntervalSize ==
    ASSUME NEW a \in Nat, NEW l \in Nat \ {0}
    PROVE  IsFiniteSet(a .. a + l - 1) /\ Cardinality(a .. a + l - 1) = l
  <1>1. a + l - 1 \in Int /\ a <= a + l - 1 /\ (a + l - 1) - a + 1 = l
    OBVIOUS
  <1>2. QED
    BY <1>1, FS_Interval

(* The runs have as many blocks as there are missing.                      *)
LEMMA RunLengths ==
    ASSUME NEW missing, \A b \in missing : b \in Nat, IsFiniteSet(missing),
           NEW n \in Nat, n = Cardinality(Starts(missing)), NEW s, NEW W,
           RunsAt(missing, n, s, W)
    PROVE  SumBelow(n, W) = Cardinality(missing)
  <1>1. PICK S : S = Starts(missing)
    OBVIOUS
  <1>2. /\ IsFiniteSet(S) /\ n = Cardinality(S)
        /\ \A b \in S : b \in missing /\ b - 1 \notin missing
    <2>1. S \in SUBSET missing /\ \A b \in S : b \in missing /\ b - 1 \notin missing
      BY <1>1 DEF Starts
    <2>2. QED
      BY <1>1, <2>1, FS_Subset
  <1>3. ASSUME NEW k \in 1 .. n
        PROVE  /\ s[k] \in Nat /\ W[k - 1] \in Nat \ {0}
               /\ \A b : (b \in missing /\ Rank(S, b) = k) <=> b \in s[k] .. s[k] + W[k - 1] - 1
    <2>1. RunAt(missing, k, s[k], W[k - 1])
      BY DEF RunsAt
    <2>2. \A b : (b \in missing /\ Rank(S, b) = k) <=> b \in s[k] .. s[k] + W[k - 1] - 1
      BY <1>1, <2>1, RunByRank
    <2>3. QED
      BY <2>1, <2>2 DEF RunAt
  <1>4. ASSUME NEW b \in missing
        PROVE  Rank(S, b) \in 1 .. n
    <2>1. PICK x \in S : x <= b
      BY <1>1, StartBelow
    <2>2. {c \in S : c <= b} \in SUBSET S /\ {c \in S : c <= b} # {}
      BY <2>1
    <2>3. IsFiniteSet({c \in S : c <= b}) /\ Rank(S, b) <= n
      BY <1>2, <2>2, FS_Subset DEF Rank
    <2>4. Rank(S, b) \in Nat /\ Rank(S, b) # 0
      BY <2>2, <2>3, FS_CardinalityType, FS_EmptySet DEF Rank
    <2>5. QED
      BY <2>3, <2>4
  <1> DEFINE U(m) == {b \in missing : Rank(S, b) <= m}
             M == {m \in Nat : m <= n => SumBelow(m, W) = Cardinality(U(m))}
  <1>5. 0 \in M
    <2>1. \A b \in missing : ~ (Rank(S, b) <= 0)
      BY <1>4
    <2> HIDE DEF M
    <2>2. U(0) = {}
      BY <2>1
    <2>3. SumBelow(0, W) = Cardinality(U(0))
      BY <2>2, SumEmpty, FS_EmptySet
    <2>4. QED
      BY <2>3 DEF M
  <1>6. ASSUME NEW m \in M
        PROVE  m + 1 \in M
    <2>1. CASE m + 1 <= n
      <3>1. SumBelow(m + 1, W) = SumBelow(m, W) + W[m]
        BY SumStep
      <3>2. m + 1 \in 1 .. n /\ m \in 0 .. n - 1 /\ SumBelow(m, W) = Cardinality(U(m))
        BY <2>1
      <3>3. PICK a \in Nat : a = s[m + 1]
        BY <1>3, <3>2
      <3>4. PICK z \in Nat \ {0} : z = W[m]
        <4>1. (m + 1) - 1 = m
          OBVIOUS
        <4>2. QED
          BY <1>3, <3>2, <4>1
      <3>5. \A b : (b \in missing /\ Rank(S, b) = m + 1) <=> b \in a .. a + z - 1
        <4>1. (m + 1) - 1 = m
          OBVIOUS
        <4>2. QED
          BY <1>3, <3>2, <3>3, <3>4, <4>1
      <3>6. IsFiniteSet(a .. a + z - 1) /\ Cardinality(a .. a + z - 1) = z
        BY <3>3, <3>4, IntervalSize
      <3>7. PICK I : I = a .. a + z - 1
        OBVIOUS
      <3>8. IsFiniteSet(U(m)) /\ Cardinality(U(m)) \in Nat
        <4>1. U(m) \in SUBSET missing
          OBVIOUS
        <4>2. QED
          BY <4>1, FS_Subset, FS_CardinalityType
      <3>9. U(m + 1) = U(m) \cup I /\ U(m) \cap I = {}
        <4>1. \A b \in missing : Rank(S, b) \in Nat
          BY <1>4
        <4>2. \A b \in missing : /\ Rank(S, b) <= m + 1 <=> (Rank(S, b) <= m \/ Rank(S, b) = m + 1)
                                 /\ ~ (Rank(S, b) <= m /\ Rank(S, b) = m + 1)
          BY <4>1
        <4>3. \A b : (b \in missing /\ Rank(S, b) = m + 1) <=> b \in I
          BY <3>5, <3>7
        <4>4. QED
          BY <4>2, <4>3
      <3> HIDE DEF U
      <3>10. Cardinality(U(m) \cup I) =
                Cardinality(U(m)) + Cardinality(I) - Cardinality(U(m) \cap I)
        BY <3>6, <3>7, <3>8, FS_Union
      <3>11. Cardinality(U(m) \cap I) = 0 /\ Cardinality(I) = z
        BY <3>6, <3>7, <3>9, FS_EmptySet
      <3>12. Cardinality(U(m + 1)) = Cardinality(U(m)) + z
        <4>1. PICK x \in Nat : x = Cardinality(U(m))
          BY <3>8
        <4>2. x + z - 0 = x + z
          BY <3>4, <4>1
        <4>3. QED
          BY <3>9, <3>10, <3>11, <4>1, <4>2
      <3>13. QED
        BY <3>1, <3>2, <3>4, <3>12
    <2>2. CASE ~ (m + 1 <= n)
      BY <2>2
    <2>3. QED
      BY <2>1, <2>2
  <1>7. M = Nat
    <2> HIDE DEF M
    <2>1. QED
      BY <1>5, <1>6, Induction DEF M
  <1>8. SumBelow(n, W) = Cardinality(U(n))
    BY <1>7
  <1>9. U(n) = missing
    BY <1>4
  <1>10. QED
    BY <1>8, <1>9

LEMMA RunsCountMissing ==
    ASSUME NEW t \in Task, t.len > 0,
           NEW missing \in SUBSET (t.offset .. t.offset + t.len - 1)
    PROVE  /\ Cardinality(missing) \in Nat
           /\ LET R == Runs(t, missing)
              IN  SumBelow(Len(R), [i \in 0 .. Len(R) - 1 |-> R[i + 1].len]) = Cardinality(missing)
  <1>1. /\ IsFiniteSet(missing) /\ Cardinality(missing) \in Nat
        /\ \A b \in missing : b \in Nat
    <2>1. t.offset \in Nat /\ t.len \in Nat
      BY TaskFacts
    <2>2. t.offset \in Int /\ t.offset + t.len - 1 \in Int
      BY <2>1
    <2>3. IsFiniteSet(t.offset .. t.offset + t.len - 1)
      BY <2>2, FS_Interval
    <2>4. IsFiniteSet(missing)
      BY <2>3, FS_Subset
    <2>5. Cardinality(missing) \in Nat
      BY <2>4, FS_CardinalityType
    <2>6. \A b \in missing : b \in Nat
      BY <2>1
    <2>7. QED
      BY <2>4, <2>5, <2>6
  <1>2. PICK R \in Seq(Task) : R = Runs(t, missing)
    BY RunsAreMissing
  <1>3. PICK n \in Nat : n = Len(R)
    OBVIOUS
  <1>4. n = Cardinality(Starts(missing))
    BY <1>2, <1>3, RunsAreMissing
  <1>5. PICK s : s = [k \in 1 .. n |-> R[k].offset]
    OBVIOUS
  <1>6. PICK W : W = [i \in 0 .. n - 1 |-> R[i + 1].len]
    OBVIOUS
  <1>7. ASSUME NEW k \in 1 .. n
        PROVE  s[k] = R[k].offset /\ W[k - 1] = R[k].len
    <2>1. k - 1 \in 0 .. n - 1 /\ (k - 1) + 1 = k
      OBVIOUS
    <2>2. QED
      BY <1>5, <1>6, <2>1
  <1>8. ASSUME NEW k \in 1 .. n
        PROVE  RunAt(missing, k, s[k], W[k - 1])
    <2>1. R[k] \in Task /\ s[k] = R[k].offset /\ W[k - 1] = R[k].len
      BY <1>3, <1>7, QueueFacts
    <2>2. k \in 1 .. Len(Runs(t, missing)) /\ R[k] = Runs(t, missing)[k]
      BY <1>2, <1>3
    <2>3. LET run == Runs(t, missing)[k]
          IN  /\ run.len \in 1 .. t.len
              /\ run.offset .. run.offset + run.len - 1 \subseteq missing
              /\ run.offset = Ascending(Starts(missing))[k]
              /\ run.offset + run.len \notin missing
      BY <2>2, RunsAreMissing
    <2>4. t.len \in Nat /\ R[k].offset \in Nat
      BY <2>1, TaskFacts
    <2>5. R[k].len \in Nat \ {0}
      BY <2>2, <2>3, <2>4
    <2>6. QED
      BY <1>4, <2>1, <2>2, <2>3, <2>4, <2>5 DEF RunAt
  <1>9. RunsAt(missing, n, s, W)
    BY <1>8 DEF RunsAt
  <1>10. SumBelow(n, W) = Cardinality(missing)
    BY <1>1, <1>4, <1>9, RunLengths
  <1>11. QED
    BY <1>1, <1>2, <1>3, <1>6, <1>10

LEMMA RunsAreWhole ==
    ASSUME NEW T, NEW t \in Task, t.len > 0,
           NEW missing \in SUBSET (t.offset .. t.offset + t.len - 1),
           \A k \in 1 .. Len(Runs(t, missing)) : Runs(t, missing)[k] \in T <=> t \in T
    PROVE  BlocksIn(Runs(t, missing), T) = IF t \in T THEN Cardinality(missing) ELSE 0
  <1>1. PICK R \in Seq(Task) : R = Runs(t, missing)
    BY RunsAreMissing
  <1>2. PICK n \in Nat : n = Len(R)
    OBVIOUS
  <1>3. PICK W : W = [i \in 0 .. n - 1 |-> IF R[i + 1] \in T THEN R[i + 1].len ELSE 0]
    OBVIOUS
  <1>4. PICK V : V = [i \in 0 .. n - 1 |-> R[i + 1].len]
    OBVIOUS
  <1>5. BlocksIn(R, T) = SumBelow(n, W)
    BY <1>2, <1>3 DEF BlocksIn
  <1>6. SumBelow(n, V) = Cardinality(missing)
    BY <1>1, <1>2, <1>4, RunsCountMissing
  <1>7. \A i \in 0 .. n - 1 : R[i + 1] \in T <=> t \in T
    <2>1. \A i \in 0 .. n - 1 : i + 1 \in 1 .. n
      OBVIOUS
    <2>2. QED
      BY <1>1, <1>2, <2>1
  <1>8. CASE t \notin T
    <2>1. \A i \in 0 .. n - 1 : W[i] = 0
      BY <1>3, <1>7, <1>8
    <2>2. SumBelow(n, W) = 0
      BY <2>1, SumOfZeros
    <2>3. QED
      BY <1>1, <1>5, <1>8, <2>2
  <1>9. CASE t \in T
    <2>1. \A i \in 0 .. n - 1 : W[i] = V[i]
      BY <1>3, <1>4, <1>7, <1>9
    <2>2. SumBelow(n, W) = SumBelow(n, V)
      BY <2>1, SumSame
    <2>3. QED
      BY <1>1, <1>5, <1>6, <1>9, <2>2
  <1>10. QED
    BY <1>8, <1>9

-----------------------------------------------------------------------------
(* Sets of tasks that hold all parts of a task or none.                    *)

Plain(T) ==
    \A t, u \in Task : t.op = u.op /\ t.queue_idx = u.queue_idx /\ t.id = u.id
                           => (t \in T <=> u \in T)

(* The blocks an errand has yet to serve or to post.                       *)
Unserved(e) ==
    IF e.task.type = "ssd" /\ e.task.op = "read"
    THEN Append(e.misses, [e.task EXCEPT !.len = e.hits]) ELSE <<e.task>>

LEMMA BlocksInOne ==
    ASSUME NEW T, NEW t \in Task
    PROVE  BlocksIn(<<t>>, T) = LenIn(t, T) /\ LenIn(t, T) \in Nat
  <1>1. <<>> \in Seq(Task) /\ Append(<<>>, t) = <<t>>
    OBVIOUS
  <1>2. BlocksIn(Append(<<>>, t), T) = BlocksIn(<<>>, T) + LenIn(t, T)
    BY <1>1, BlocksInQueue
  <1>3. LenIn(t, T) \in Nat
    BY TaskFacts DEF LenIn
  <1>4. QED
    BY <1>1, <1>2, <1>3, BlocksInEmpty

(* What is in hand of an errand.                                           *)
LEMMA UnservedFacts ==
    ASSUME NEW T, Plain(T), NEW w \in Workers, NEW e \in ErrandsAt(w)
    PROVE  /\ Unserved(e) \in Seq(Task)
           /\ BlocksIn(Unserved(e), T) =
                 IF e.task.type = "ssd" /\ e.task.op = "read"
                 THEN BlocksIn(e.misses, T) + (IF e.task \in T THEN e.hits ELSE 0)
                 ELSE LenIn(e.task, T)
  <1>1. PICK t \in Task : t = e.task
    BY DEF ErrandsAt, Errand
  <1>2. e.misses \in Seq(Task) /\ e.hits \in Nat
    BY DEF ErrandsAt, Errand
  <1>3. CASE t.type = "ssd" /\ t.op = "read"
    <2>1. PICK u : u = [t EXCEPT !.len = e.hits]
      OBVIOUS
    <2>2. /\ u \in Task /\ u.len = e.hits /\ u.queue_idx = t.queue_idx
          /\ u.id = t.id /\ u.op = t.op
      BY <1>2, <2>1 DEF Task
    <2>3. u \in T <=> t \in T
      BY <2>2 DEF Plain
    <2>4. Unserved(e) = Append(e.misses, u)
      BY <1>1, <1>3, <2>1 DEF Unserved
    <2>5. LenIn(u, T) = IF t \in T THEN e.hits ELSE 0
      BY <2>2, <2>3 DEF LenIn
    <2>6. BlocksIn(Append(e.misses, u), T) = BlocksIn(e.misses, T) + LenIn(u, T)
      BY <1>2, <2>2, BlocksInQueue
    <2>7. Append(e.misses, u) \in Seq(Task)
      BY <1>2, <2>2, QueueFacts
    <2>8. QED
      BY <1>1, <1>3, <2>4, <2>5, <2>6, <2>7
  <1>4. CASE ~ (t.type = "ssd" /\ t.op = "read")
    <2>1. Unserved(e) = <<t>>
      BY <1>1, <1>4 DEF Unserved
    <2>2. <<t>> \in Seq(Task)
      OBVIOUS
    <2>3. QED
      BY <1>1, <1>4, <2>1, <2>2, BlocksInOne
  <1>5. QED
    BY <1>3, <1>4

(* A worker that takes a task has all its blocks in hand.                  *)
LEMMA ErrandsAreWhole ==
    ASSUME NEW T, Plain(T), NEW w \in Workers,
           NEW t \in NvmPart(w) \cup SsdPart(w), NEW e \in Errands(t)
    PROVE  BlocksIn(Unserved(e), T) = LenIn(t, T)
  <1>1. e \in ErrandsAt(w) /\ e.task = t
    BY ErrandsAreErrands
  <1>2. t \in Task /\ t.len > 0 /\ t.len \in Nat
    <2>1. t \in Task /\ t.len > 0
      BY DEF NvmPart, SsdPart, BelongsTo
    <2>2. QED
      BY <2>1, TaskFacts
  <1>3. CASE ~ (t.type = "ssd" /\ t.op = "read")
    BY <1>1, <1>3, UnservedFacts
  <1>4. CASE t.type = "ssd" /\ t.op = "read"
    <2>1. PICK missing \in SUBSET (t.offset .. t.offset + t.len - 1) :
               e = [task |-> t, misses |-> Runs(t, missing), hits |-> t.len - Cardinality(missing)]
      BY <1>4 DEF Errands
    <2>2. e.misses = Runs(t, missing) /\ e.hits = t.len - Cardinality(missing)
      BY <2>1
    <2>3. ASSUME NEW k \in 1 .. Len(Runs(t, missing))
          PROVE  Runs(t, missing)[k] \in T <=> t \in T
      <3>1. e.misses \in Seq(RunsOf(t))
        BY <1>1 DEF ErrandsAt
      <3>2. Runs(t, missing)[k] \in RunsOf(t)
        BY <2>2, <3>1, QueueFacts
      <3>3. QED
        BY <1>2, <3>2 DEF Plain, RunsOf, PiecesOf
    <2>4. BlocksIn(e.misses, T) = IF t \in T THEN Cardinality(missing) ELSE 0
      BY <1>2, <2>2, <2>3, RunsAreWhole
    <2>5. Cardinality(missing) \in Nat
      BY <1>2, RunsCountMissing
    <2>6. BlocksIn(Unserved(e), T) = BlocksIn(e.misses, T) + (IF t \in T THEN e.hits ELSE 0)
      BY <1>1, <1>4, UnservedFacts
    <2>7. QED
      BY <1>2, <2>2, <2>4, <2>5, <2>6 DEF LenIn
  <1>5. QED
    BY <1>3, <1>4

(* do_schedule loses no block of a task whose device it found.             *)
LEMMA PartsAreWhole ==
    ASSUME NEW T, Plain(T), NEW c \in Clients, NEW h \in Submitted(c), NEW t \in HandledTasks(h)
    PROVE  BlocksIn(Parts(t), T) = IF t.type = "none" THEN 0 ELSE LenIn(h, T)
  <1>1. t \in Task /\ t.len > 0 /\ t.op = h.op /\ t.len = h.len /\ t.id = h.id
        /\ t.queue_idx = c /\ h.queue_idx = c /\ h \in Task
    <2>1. t \in Submitted(c) /\ t.op = h.op /\ t.len = h.len /\ t.id = h.id
      BY PartsAreParts
    <2>2. QED
      BY <2>1 DEF Submitted
  <1>2. (t \in T <=> h \in T) /\ LenIn(t, T) = LenIn(h, T)
    BY <1>1 DEF Plain, LenIn
  <1>3. CASE t.type = "none"
    <2>1. Parts(t) = <<>>
      BY <1>3 DEF Parts
    <2>2. QED
      BY <1>3, <2>1, BlocksInEmpty
  <1>4. CASE t.type = "nvm"
    <2>1. Parts(t) = <<t>>
      BY <1>4 DEF Parts
    <2>2. QED
      BY <1>1, <1>2, <1>4, <2>1, BlocksInOne
  <1>5. CASE t.type = "ssd"
    <2>1. Parts(t) = Stripes(t)
      BY <1>5 DEF Parts
    <2>2. ASSUME NEW k \in 1 .. Len(Stripes(t))
          PROVE  Stripes(t)[k] \in T <=> t \in T
      <3>1. Stripes(t) \in Seq(Task)
        BY <1>1, StripesGoHome
      <3>2. Stripes(t)[k] \in Task
        BY <3>1, QueueFacts
      <3>3. Stripes(t)[k] = [t EXCEPT !.offset = First(t, k), !.len = End(t, k) - First(t, k),
                                      !.to = (Home(t.offset) + k - 1) % QueueNum]
        BY <1>1, <3>1, StripesGoHome
      <3>4. PICK o, l, v : Stripes(t)[k] = [t EXCEPT !.offset = o, !.len = l, !.to = v]
        BY <3>3
      <3>5. /\ Stripes(t)[k].op = t.op /\ Stripes(t)[k].queue_idx = t.queue_idx
            /\ Stripes(t)[k].id = t.id
        BY <1>1, <3>4, TaskFacts
      <3>6. QED
        BY <1>1, <3>2, <3>5 DEF Plain
    <2>3. BlocksIn(Stripes(t), T) = LenIn(t, T)
      BY <1>1, <2>2, StripesAreWhole
    <2>4. QED
      BY <1>2, <1>5, <2>1, <2>3
  <1>6. QED
    BY <1>1, <1>3, <1>4, <1>5, TaskFacts

-----------------------------------------------------------------------------
(* How a step moves blocks.                                                *)

FromClients(T) == SumBelow(SubmitNum, [c \in Clients |-> BlocksIn(submitQueue[c], T)])
AtWorkers(T) == SumBelow(QueueNum, [w \in Workers |-> BlocksAt(w, T)])

LEMMA InFlightIs ==
    \A T : InFlight(T) = FromClients(T) + BlocksIn(toPost, T) + AtWorkers(T)
  BY DEF InFlight, FromClients, AtWorkers

(* The queues hold tasks.                                                  *)
LEMMA QueuesAre ==
    ASSUME Located
    PROVE  /\ \A c \in Clients : submitQueue[c] \in Seq(Task)
           /\ toPost \in Seq(Task)
           /\ \A w \in Workers : /\ nvmQueue[w] \in Seq(Task) /\ bufferQueue[w] \in Seq(Task)
                                 /\ ssdQueue[w] \in Seq(Task) /\ ssdTask[w] \in Seq(Task)
                                 /\ InHand(w) \in Seq(Task)
  <1>1. \A c \in Clients : submitQueue[c] \in Seq(Task)
    BY DEF Located, SubmitsAre
  <1>2. toPost \in Seq(Task)
    <2>1. toPost \in Seq(Part) /\ Part \subseteq Task
      BY DEF Located, PollsAre, Part
    <2>2. QED
      BY <2>1
  <1>3. ASSUME NEW w \in Workers
        PROVE  /\ nvmQueue[w] \in Seq(Task) /\ bufferQueue[w] \in Seq(Task)
               /\ ssdQueue[w] \in Seq(Task) /\ ssdTask[w] \in Seq(Task)
    BY DEF Located, NvmQueuesAre, BufferQueuesAre, SsdQueuesAre, SsdTasksAre
  <1>4. ASSUME NEW w \in Workers
        PROVE  InHand(w) \in Seq(Task)
    <2>1. CASE hand[w] = <<>>
      <3>1. InHand(w) = <<>>
        BY <2>1, InHandFacts
      <3>2. QED
        BY <3>1
    <2>2. CASE hand[w] # <<>>
      <3>1. InHand(w) \in Seq(PiecesOf(Head(hand[w]).task))
        BY <2>2, InHandFacts
      <3>2. PiecesOf(Head(hand[w]).task) \subseteq Task
        BY DEF PiecesOf
      <3>3. QED
        BY <3>1, <3>2
    <2>3. QED
      BY <2>1, <2>2
  <1>5. QED
    BY <1>1, <1>2, <1>3, <1>4

LEMMA BlocksAreNatural ==
    ASSUME Located, NEW T
    PROVE  /\ \A c \in Clients : BlocksIn(submitQueue[c], T) \in Nat
           /\ BlocksIn(toPost, T) \in Nat
           /\ \A w \in Workers :
                /\ BlocksIn(nvmQueue[w], T) \in Nat /\ BlocksIn(bufferQueue[w], T) \in Nat
                /\ BlocksIn(InHand(w), T) \in Nat
                /\ BlocksIn(ssdQueue[w], T) \in Nat /\ BlocksIn(ssdTask[w], T) \in Nat
                /\ BlocksAt(w, T) \in Nat
           /\ FromClients(T) \in Nat /\ AtWorkers(T) \in Nat /\ InFlight(T) \in Nat
           /\ \A c \in Clients : BlocksIn(submitQueue[c], T) <= FromClients(T)
           /\ \A w \in Workers : BlocksAt(w, T) <= AtWorkers(T)
  <1>1. \A c \in Clients : BlocksIn(submitQueue[c], T) \in Nat
    BY QueuesAre, BlocksInQueue
  <1>2. BlocksIn(toPost, T) \in Nat
    BY QueuesAre, BlocksInQueue
  <1>3. ASSUME NEW w \in Workers
        PROVE  /\ BlocksIn(nvmQueue[w], T) \in Nat /\ BlocksIn(bufferQueue[w], T) \in Nat
               /\ BlocksIn(InHand(w), T) \in Nat
               /\ BlocksIn(ssdQueue[w], T) \in Nat /\ BlocksIn(ssdTask[w], T) \in Nat
    BY QueuesAre, BlocksInQueue
  <1>4. ASSUME NEW w \in Workers
        PROVE  BlocksAt(w, T) \in Nat
    BY <1>3 DEF BlocksAt
  <1>5. SubmitNum \in Nat /\ QueueNum \in Nat
    BY WorkersTake
  <1>6. FromClients(T) \in Nat /\ \A c \in Clients : BlocksIn(submitQueue[c], T) <= FromClients(T)
    <2>1. PICK v : v = [c \in Clients |-> BlocksIn(submitQueue[c], T)]
      OBVIOUS
    <2>2. \A c \in 0 .. SubmitNum - 1 : v[c] \in Nat
      BY <1>1, <2>1 DEF Clients
    <2>3. SumBelow(SubmitNum, v) \in Nat /\ \A c \in 0 .. SubmitNum - 1 : v[c] <= SumBelow(SubmitNum, v)
      BY <1>5, <2>2, SumOfNaturals
    <2>4. FromClients(T) = SumBelow(SubmitNum, v)
      BY <2>1 DEF FromClients
    <2>5. QED
      BY <2>1, <2>3, <2>4 DEF Clients
  <1>7. AtWorkers(T) \in Nat /\ \A w \in Workers : BlocksAt(w, T) <= AtWorkers(T)
    <2>1. PICK v : v = [w \in Workers |-> BlocksAt(w, T)]
      OBVIOUS
    <2>2. \A w \in 0 .. QueueNum - 1 : v[w] \in Nat
      BY <1>4, <2>1 DEF Workers
    <2>3. SumBelow(QueueNum, v) \in Nat /\ \A w \in 0 .. QueueNum - 1 : v[w] <= SumBelow(QueueNum, v)
      BY <1>5, <2>2, SumOfNaturals
    <2>4. AtWorkers(T) = SumBelow(QueueNum, v)
      BY <2>1 DEF AtWorkers
    <2>5. QED
      BY <2>1, <2>3, <2>4 DEF Workers
  <1>8. InFlight(T) \in Nat
    BY <1>2, <1>6, <1>7, InFlightIs
  <1>9. QED
    BY <1>1, <1>2, <1>3, <1>4, <1>6, <1>7, <1>8

(* When one submit queue changes, and when one worker's queues do.         *)
LEMMA ClientsFlow ==
    ASSUME Located, Located', NEW T, NEW c \in Clients,
           \A d \in Clients \ {c} : submitQueue'[d] = submitQueue[d]
    PROVE  FromClients(T)' =
              FromClients(T) - BlocksIn(submitQueue[c], T) + BlocksIn(submitQueue'[c], T)
  <1>1. PICK v : v = [d \in Clients |-> BlocksIn(submitQueue[d], T)]
    OBVIOUS
  <1>2. PICK u : u = [d \in Clients |-> BlocksIn(submitQueue'[d], T)]
    OBVIOUS
  <1>3. FromClients(T) = SumBelow(SubmitNum, v)
    BY <1>1 DEF FromClients
  <1>4. FromClients(T)' = SumBelow(SubmitNum, u)
    BY <1>2 DEF FromClients
  <1>5. \A d \in Clients : v[d] \in Nat
    BY <1>1, BlocksAreNatural
  <1>6. \A d \in Clients : u[d] \in Nat
    <2>1. \A d \in Clients : submitQueue'[d] \in Seq(Task)
      BY DEF Located, SubmitsAre
    <2>2. QED
      BY <1>2, <2>1, BlocksInQueue
  <1>7. \A d \in Clients : d # c => v[d] = u[d]
    BY <1>1, <1>2
  <1>8. SubmitNum \in Nat /\ c \in 0 .. SubmitNum - 1
    BY WorkersTake DEF Clients
  <1>9. SumBelow(SubmitNum, u) = SumBelow(SubmitNum, v) - v[c] + u[c]
    <2>1. /\ \A d \in 0 .. SubmitNum - 1 : v[d] \in Nat /\ u[d] \in Nat
          /\ \A d \in 0 .. SubmitNum - 1 : d # c => v[d] = u[d]
      BY <1>5, <1>6, <1>7 DEF Clients
    <2>2. QED
      BY <1>8, <2>1, SumExcept
  <1>10. QED
    BY <1>1, <1>2, <1>3, <1>4, <1>9

LEMMA WorkersFlow ==
    ASSUME Located, NEW T, NEW w \in Workers, BlocksAt(w, T)' \in Nat,
           \A v \in Workers \ {w} :
              /\ nvmQueue'[v] = nvmQueue[v] /\ bufferQueue'[v] = bufferQueue[v]
              /\ hand'[v] = hand[v] /\ ssdQueue'[v] = ssdQueue[v] /\ ssdTask'[v] = ssdTask[v]
    PROVE  AtWorkers(T)' = AtWorkers(T) - BlocksAt(w, T) + BlocksAt(w, T)'
  <1>1. PICK f : f = [v \in Workers |-> BlocksAt(v, T)]
    OBVIOUS
  <1>2. PICK g : g = [v \in Workers |-> BlocksAt(v, T)']
    OBVIOUS
  <1>3. AtWorkers(T) = SumBelow(QueueNum, f)
    BY <1>1 DEF AtWorkers
  <1>4. AtWorkers(T)' = SumBelow(QueueNum, g)
    BY <1>2 DEF AtWorkers
  <1>5. \A v \in Workers : f[v] \in Nat
    BY <1>1, BlocksAreNatural
  <1>6. \A v \in Workers : v # w => BlocksAt(v, T)' = BlocksAt(v, T)
    <2>1. ASSUME NEW v \in Workers, v # w
          PROVE  BlocksAt(v, T)' = BlocksAt(v, T)
      <3>1. /\ nvmQueue'[v] = nvmQueue[v] /\ bufferQueue'[v] = bufferQueue[v]
            /\ hand'[v] = hand[v] /\ ssdQueue'[v] = ssdQueue[v] /\ ssdTask'[v] = ssdTask[v]
        BY <2>1
      <3>2. InHand(v)' = InHand(v)
        BY <3>1 DEF InHand
      <3>3. QED
        BY <3>1, <3>2 DEF BlocksAt
    <2>2. QED
      BY <2>1
  <1>7. \A v \in Workers : v # w => f[v] = g[v]
    BY <1>1, <1>2, <1>6
  <1>8. QueueNum \in Nat /\ w \in 0 .. QueueNum - 1
    BY WorkersTake DEF Workers
  <1>9. SumBelow(QueueNum, g) = SumBelow(QueueNum, f) - f[w] + g[w]
    <2>1. g[w] = BlocksAt(w, T)'
      BY <1>2
    <2>2. \A v \in Workers : g[v] \in Nat
      BY <1>5, <1>7, <2>1
    <2>3. /\ \A v \in 0 .. QueueNum - 1 : f[v] \in Nat /\ g[v] \in Nat
          /\ \A v \in 0 .. QueueNum - 1 : v # w => f[v] = g[v]
      BY <1>5, <1>7, <2>2 DEF Workers
    <2>4. QED
      BY <1>8, <2>3, SumExcept
  <1>10. QED
    BY <1>1, <1>2, <1>3, <1>4, <1>9

(* The scheduler's steps and the clients': no worker's hand moves.         *)
LEMMA RequestFlow ==
    ASSUME NEW T, NEW c \in Clients,
           (\E r \in Requests : Request(c, r)) \/ ReadReturns(c)
    PROVE  InFlight(T)' = InFlight(T)
  <1>1. UNCHANGED <<submitQueue, toPost, nvmQueue, bufferQueue, hand, ssdQueue, ssdTask>>
    BY DEF Request, ReadReturns, scheduler, nvm, ssd
  <1>2. FromClients(T)' = FromClients(T) /\ BlocksIn(toPost, T)' = BlocksIn(toPost, T)
    BY <1>1 DEF FromClients
  <1>3. AtWorkers(T)' = AtWorkers(T)
    BY <1>1 DEF AtWorkers, BlocksAt, InHand
  <1>4. QED
    BY <1>2, <1>3, InFlightIs DEF InFlight, FromClients, AtWorkers

LEMMA SubmitFlow ==
    ASSUME Located, Located', NEW T, NEW c \in Clients, Submit(c)
    PROVE  InFlight(T)' = InFlight(T) + LenIn(task[c], T)
  <1>1. UNCHANGED <<toPost, nvmQueue, bufferQueue, hand, ssdQueue, ssdTask>>
    BY DEF Submit, scheduler, nvm, ssd
  <1>2. submitQueue' = [submitQueue EXCEPT ![c] = Append(@, task[c])]
    BY DEF Submit
  <1>3. submitQueue \in [Clients -> Seq(Task)] /\ submitQueue[c] \in Seq(Task) /\ task[c] \in Task
    BY DEF Located, SubmitsAre, ClientsAre
  <1>4. /\ submitQueue'[c] = Append(submitQueue[c], task[c])
        /\ \A d \in Clients \ {c} : submitQueue'[d] = submitQueue[d]
    BY <1>2, <1>3
  <1>5. BlocksIn(submitQueue'[c], T) = BlocksIn(submitQueue[c], T) + LenIn(task[c], T)
    BY <1>3, <1>4, BlocksInQueue
  <1>6. FromClients(T)' =
           FromClients(T) - BlocksIn(submitQueue[c], T) + BlocksIn(submitQueue'[c], T)
    BY <1>4, ClientsFlow
  <1>7. LenIn(task[c], T) \in Nat
    BY <1>3, BlocksInOne
  <1>8. AtWorkers(T)' = AtWorkers(T) /\ BlocksIn(toPost, T)' = BlocksIn(toPost, T)
    BY <1>1 DEF AtWorkers, BlocksAt, InHand
  <1>9. InFlight(T)' = FromClients(T)' + BlocksIn(toPost, T)' + AtWorkers(T)'
    BY DEF InFlight, FromClients, AtWorkers
  <1>10. QED
    BY <1>5, <1>6, <1>7, <1>8, <1>9, InFlightIs, BlocksAreNatural

(* do_schedule takes h and lets it go when it finds no device for it.      *)
PollsTask(h, t) ==
    /\ submitQueue[idx] # <<>> /\ h = Head(submitQueue[idx])
    /\ h \in Submitted(idx) /\ t \in HandledTasks(h)
    /\ submitQueue' = [submitQueue EXCEPT ![idx] = Tail(@)]
    /\ toPost' = Parts(t)
    /\ unplaced' = unplaced + IF t.type = "none" THEN WriteLen(t) ELSE 0

LEMMA PollFlow ==
    ASSUME Located, Located', Poll
    PROVE  \/ /\ UNCHANGED <<submitQueue, unplaced>>
              /\ \A T : InFlight(T)' = InFlight(T)
           \/ \E h, t :
                 /\ PollsTask(h, t)
                 /\ \A T : Plain(T) =>
                       /\ InFlight(T)' = InFlight(T) - IF t.type = "none" THEN LenIn(h, T) ELSE 0
                       /\ LenIn(h, T) <= InFlight(T)
  <1>1. UNCHANGED <<nvmQueue, bufferQueue, hand, ssdQueue, ssdTask>> /\ toPost = <<>>
    BY DEF Poll, nvm, ssd
  <1>2. \A T : AtWorkers(T)' = AtWorkers(T)
    BY <1>1 DEF AtWorkers, BlocksAt, InHand
  <1>3. \A T : InFlight(T)' = FromClients(T)' + BlocksIn(toPost', T) + AtWorkers(T)'
    BY DEF InFlight, FromClients, AtWorkers
  <1>4. CASE UNCHANGED <<submitQueue, toPost, unplaced>>
    <2>1. \A T : FromClients(T)' = FromClients(T)
      BY <1>4 DEF FromClients
    <2>2. QED
      BY <1>2, <1>3, <1>4, <2>1, InFlightIs
  <1>5. CASE submitQueue[idx] # <<>> /\ submitQueue' = [submitQueue EXCEPT ![idx] = Tail(@)]
    <2>1. PICK t \in HandledTasks(Head(submitQueue[idx])) :
             /\ toPost' = Parts(t)
             /\ unplaced' = unplaced + IF t.type = "none" THEN WriteLen(t) ELSE 0
      BY <1>5 DEF Poll
    <2>2. /\ idx \in Clients /\ submitQueue \in [Clients -> Seq(Task)]
          /\ submitQueue[idx] \in Seq(Submitted(idx)) /\ submitQueue[idx] \in Seq(Task)
      BY DEF Located, PollsAre, SubmitsAre
    <2>3. PICK h \in Submitted(idx) : h = Head(submitQueue[idx])
      BY <1>5, <2>2, QueueFacts
    <2>4. /\ submitQueue'[idx] = Tail(submitQueue[idx]) /\ submitQueue'[idx] \in Seq(Task)
          /\ \A d \in Clients \ {idx} : submitQueue'[d] = submitQueue[d]
      <3>1. Tail(submitQueue[idx]) \in Seq(Task)
        BY <1>5, <2>2, QueueFacts
      <3>2. QED
        BY <1>5, <2>2, <3>1
    <2>5. ASSUME NEW T, Plain(T)
          PROVE  /\ InFlight(T)' = InFlight(T) - IF t.type = "none" THEN LenIn(h, T) ELSE 0
                 /\ LenIn(h, T) <= InFlight(T)
      <3>1. BlocksIn(submitQueue[idx], T) = LenIn(h, T) + BlocksIn(submitQueue'[idx], T)
        BY <1>5, <2>2, <2>3, <2>4, BlocksInQueue
      <3>2. FromClients(T)' =
               FromClients(T) - BlocksIn(submitQueue[idx], T) + BlocksIn(submitQueue'[idx], T)
        BY <2>2, <2>4, ClientsFlow
      <3>3. h \in Task /\ LenIn(h, T) \in Nat
        BY BlocksInOne DEF Submitted
      <3>4. BlocksIn(submitQueue'[idx], T) \in Nat
        BY <2>4, BlocksInQueue
      <3>5. BlocksIn(toPost', T) = IF t.type = "none" THEN 0 ELSE LenIn(h, T)
        BY <2>1, <2>2, <2>3, <2>5, PartsAreWhole
      <3>6. BlocksIn(toPost, T) = 0
        BY <1>1, BlocksInEmpty
      <3>7. /\ FromClients(T) \in Nat /\ AtWorkers(T) \in Nat
            /\ BlocksIn(submitQueue[idx], T) <= FromClients(T)
        BY <2>2, BlocksAreNatural
      <3>8. /\ InFlight(T) = FromClients(T) + AtWorkers(T)
            /\ InFlight(T)' = FromClients(T)' + BlocksIn(toPost', T) + AtWorkers(T)
        BY <1>2, <1>3, <3>6, <3>7, InFlightIs
      <3>9. QED
        BY <3>1, <3>2, <3>3, <3>4, <3>5, <3>7, <3>8
    <2>6. PollsTask(h, t)
      BY <1>5, <2>1, <2>3 DEF PollsTask
    <2>7. QED
      BY <2>5, <2>6
  <1>6. QED
    BY <1>4, <1>5 DEF Poll

LEMMA PostFlow ==
    ASSUME Located, NEW T, PostToNvm \/ PostToBuffer
    PROVE  InFlight(T)' = InFlight(T)
  <1>1. UNCHANGED <<submitQueue, hand, ssdQueue, ssdTask>> /\ toPost # <<>>
        /\ toPost' = Tail(toPost)
    BY DEF PostToNvm, PostToBuffer, nvm, ssd
  <1>2. PICK t \in Task : t = Head(toPost) /\ t.to \in Workers
    <2>1. Head(toPost) \in Task
      BY <1>1, QueuesAre, QueueFacts
    <2>2. QED
      BY <2>1, TaskFacts
  <1>3. PICK w \in Workers : w = t.to
    BY <1>2
  <1>4. BlocksIn(toPost, T) = LenIn(t, T) + BlocksIn(toPost', T) /\ BlocksIn(toPost', T) \in Nat
    <2>1. toPost \in Seq(Task) /\ toPost' \in Seq(Task)
      BY <1>1, QueuesAre, QueueFacts
    <2>2. QED
      BY <1>1, <1>2, <2>1, BlocksInQueue
  <1>5. /\ nvmQueue \in [Workers -> Seq(Task)] /\ bufferQueue \in [Workers -> Seq(Task)]
        /\ nvmQueue[w] \in Seq(Task) /\ bufferQueue[w] \in Seq(Task)
    BY DEF Located, NvmQueuesAre, BufferQueuesAre
  <1>6. LenIn(t, T) \in Nat
    BY BlocksInOne
  <1>7. /\ BlocksIn(nvmQueue'[w], T) + BlocksIn(bufferQueue'[w], T) =
              BlocksIn(nvmQueue[w], T) + BlocksIn(bufferQueue[w], T) + LenIn(t, T)
        /\ \A v \in Workers \ {w} : nvmQueue'[v] = nvmQueue[v] /\ bufferQueue'[v] = bufferQueue[v]
    <2>1. CASE PostToNvm
      <3>1. nvmQueue' = [nvmQueue EXCEPT ![w] = Append(@, t)] /\ UNCHANGED bufferQueue
        BY <1>2, <1>3, <2>1 DEF PostToNvm
      <3>2. BlocksIn(Append(nvmQueue[w], t), T) = BlocksIn(nvmQueue[w], T) + LenIn(t, T)
        BY <1>5, BlocksInQueue
      <3>3. BlocksIn(nvmQueue[w], T) \in Nat /\ BlocksIn(bufferQueue[w], T) \in Nat
        BY <1>5, BlocksInQueue
      <3>4. nvmQueue'[w] = Append(nvmQueue[w], t) /\ bufferQueue'[w] = bufferQueue[w]
        BY <1>5, <3>1
      <3>5. \A v \in Workers \ {w} : nvmQueue'[v] = nvmQueue[v] /\ bufferQueue'[v] = bufferQueue[v]
        BY <1>5, <3>1
      <3>6. QED
        BY <1>6, <3>2, <3>3, <3>4, <3>5
    <2>2. CASE PostToBuffer
      <3>1. bufferQueue' = [bufferQueue EXCEPT ![w] = Append(@, t)] /\ UNCHANGED nvmQueue
        BY <1>2, <1>3, <2>2 DEF PostToBuffer
      <3>2. BlocksIn(Append(bufferQueue[w], t), T) = BlocksIn(bufferQueue[w], T) + LenIn(t, T)
        BY <1>5, BlocksInQueue
      <3>3. BlocksIn(nvmQueue[w], T) \in Nat /\ BlocksIn(bufferQueue[w], T) \in Nat
        BY <1>5, BlocksInQueue
      <3>4. bufferQueue'[w] = Append(bufferQueue[w], t) /\ nvmQueue'[w] = nvmQueue[w]
        BY <1>5, <3>1
      <3>5. \A v \in Workers \ {w} : nvmQueue'[v] = nvmQueue[v] /\ bufferQueue'[v] = bufferQueue[v]
        BY <1>5, <3>1
      <3>6. QED
        BY <1>6, <3>2, <3>3, <3>4, <3>5
    <2>3. QED
      BY <2>1, <2>2
  <1>8. BlocksAt(w, T)' = BlocksAt(w, T) + LenIn(t, T) /\ BlocksAt(w, T)' \in Nat
    <2>1. PICK h \in Nat, q \in Nat, z \in Nat :
             /\ h = BlocksIn(InHand(w), T) /\ q = BlocksIn(ssdQueue[w], T)
             /\ z = BlocksIn(ssdTask[w], T)
      BY BlocksAreNatural
    <2>2. BlocksAt(w, T) = BlocksIn(nvmQueue[w], T) + BlocksIn(bufferQueue[w], T) + h + q + z
      BY <2>1 DEF BlocksAt
    <2>3. InHand(w)' = InHand(w)
      BY <1>1 DEF InHand
    <2>4. BlocksIn(nvmQueue'[w], T) \in Nat /\ BlocksIn(bufferQueue'[w], T) \in Nat
      <3>1. nvmQueue'[w] \in Seq(Task) /\ bufferQueue'[w] \in Seq(Task)
        <4>1. Append(nvmQueue[w], t) \in Seq(Task) /\ Append(bufferQueue[w], t) \in Seq(Task)
          BY <1>5, QueueFacts
        <4>2. QED
          BY <1>2, <1>3, <1>5, <4>1 DEF PostToNvm, PostToBuffer
      <3>2. QED
        BY <3>1, BlocksInQueue
    <2>5. BlocksAt(w, T)' = BlocksIn(nvmQueue'[w], T) + BlocksIn(bufferQueue'[w], T) + h + q + z
      BY <1>1, <2>1, <2>3 DEF BlocksAt
    <2>6. BlocksIn(nvmQueue[w], T) \in Nat /\ BlocksIn(bufferQueue[w], T) \in Nat
      BY BlocksAreNatural
    <2>7. QED
      BY <1>6, <1>7, <2>1, <2>2, <2>4, <2>5, <2>6
  <1>9. AtWorkers(T)' = AtWorkers(T) - BlocksAt(w, T) + BlocksAt(w, T)'
    BY <1>1, <1>7, <1>8, WorkersFlow
  <1>10. InFlight(T)' = FromClients(T) + BlocksIn(toPost', T) + AtWorkers(T)'
    BY <1>1 DEF InFlight, FromClients, AtWorkers
  <1>11. /\ FromClients(T) \in Nat /\ AtWorkers(T) \in Nat /\ BlocksAt(w, T) \in Nat
         /\ BlocksAt(w, T) <= AtWorkers(T)
    BY BlocksAreNatural
  <1>12. QED
    BY <1>4, <1>6, <1>8, <1>9, <1>10, <1>11, InFlightIs

(* A step of a worker moves the blocks at this worker alone.               *)
LEMMA AtWorkerFlow ==
    ASSUME Located, NEW T, NEW w \in Workers, BlocksAt(w, T)' \in Nat,
           UNCHANGED <<submitQueue, toPost>>,
           \A v \in Workers \ {w} :
              /\ nvmQueue'[v] = nvmQueue[v] /\ bufferQueue'[v] = bufferQueue[v]
              /\ hand'[v] = hand[v] /\ ssdQueue'[v] = ssdQueue[v] /\ ssdTask'[v] = ssdTask[v]
    PROVE  /\ InFlight(T)' = InFlight(T) - BlocksAt(w, T) + BlocksAt(w, T)'
           /\ BlocksAt(w, T) <= InFlight(T)
  <1>1. AtWorkers(T)' = AtWorkers(T) - BlocksAt(w, T) + BlocksAt(w, T)'
    BY WorkersFlow
  <1>2. InFlight(T)' = FromClients(T) + BlocksIn(toPost, T) + AtWorkers(T)'
    BY DEF InFlight, FromClients, AtWorkers
  <1>3. /\ FromClients(T) \in Nat /\ AtWorkers(T) \in Nat /\ BlocksAt(w, T) \in Nat
        /\ BlocksIn(toPost, T) \in Nat /\ BlocksAt(w, T) <= AtWorkers(T)
    BY BlocksAreNatural
  <1>4. QED
    BY <1>1, <1>2, <1>3, InFlightIs

LEMMA HandFacts ==
    ASSUME Located, NEW w \in Workers, hand[w] # <<>>
    PROVE  /\ Head(hand[w]) \in ErrandsAt(w) /\ hand[w] = <<Head(hand[w])>>
           /\ Head(hand[w]).task \in Task /\ Head(hand[w]).hits \in Nat
           /\ Head(hand[w]).misses \in Seq(Task)
           /\ Head(hand[w]).misses # <<>> =>
                 Head(hand[w]).task.type = "ssd" /\ Head(hand[w]).task.op = "read"
           /\ InHand(w) = Unserved(Head(hand[w]))
  <1>1. hand[w] \in Seq(ErrandsAt(w)) /\ Len(hand[w]) <= 1
    BY DEF Located, HandsAre
  <1>2. Head(hand[w]) \in ErrandsAt(w) /\ hand[w] = <<Head(hand[w])>>
    BY <1>1, QueueFacts
  <1>3. InHand(w) = Unserved(Head(hand[w]))
    BY DEF InHand, Unserved
  <1>4. QED
    BY <1>2, <1>3 DEF ErrandsAt, Errand

(* nvm_worker w ends a task, and may post it to ssd_worker w.              *)
LEMMA HandEmptied ==
    ASSUME Located, NEW T, NEW w \in Workers,
           hand' = [hand EXCEPT ![w] = <<>>],
           UNCHANGED <<submitQueue, toPost, nvmQueue, bufferQueue, ssdTask>>,
           \A v \in Workers \ {w} : ssdQueue'[v] = ssdQueue[v],
           NEW n \in Nat, BlocksIn(ssdQueue'[w], T) = BlocksIn(ssdQueue[w], T) + n
    PROVE  /\ InFlight(T)' = InFlight(T) - BlocksIn(InHand(w), T) + n
           /\ BlocksIn(InHand(w), T) <= InFlight(T)
  <1>1. hand \in [Workers -> Seq(Errand)]
    BY DEF Located, HandsAre
  <1>2. hand'[w] = <<>> /\ \A v \in Workers \ {w} : hand'[v] = hand[v]
    BY <1>1
  <1>3. InHand(w)' = <<>>
    BY <1>2 DEF InHand
  <1>4. PICK a \in Nat, b \in Nat, h \in Nat, q \in Nat, z \in Nat :
           /\ a = BlocksIn(nvmQueue[w], T) /\ b = BlocksIn(bufferQueue[w], T)
           /\ h = BlocksIn(InHand(w), T) /\ q = BlocksIn(ssdQueue[w], T)
           /\ z = BlocksIn(ssdTask[w], T)
    BY BlocksAreNatural
  <1>5. BlocksAt(w, T) = a + b + h + q + z
    BY <1>4 DEF BlocksAt
  <1>6. BlocksAt(w, T)' = a + b + 0 + (q + n) + z
    <2>1. BlocksAt(w, T)' = a + b + BlocksIn(<<>>, T) + BlocksIn(ssdQueue'[w], T) + z
      BY <1>3, <1>4 DEF BlocksAt
    <2>2. QED
      BY <1>4, <2>1, BlocksInEmpty
  <1>7. BlocksAt(w, T)' \in Nat
    BY <1>4, <1>6
  <1>8. /\ InFlight(T)' = InFlight(T) - BlocksAt(w, T) + BlocksAt(w, T)'
        /\ BlocksAt(w, T) <= InFlight(T)
    BY <1>2, <1>7, AtWorkerFlow
  <1>9. PICK f \in Nat : f = InFlight(T)
    BY BlocksAreNatural
  <1>10. /\ InFlight(T)' = f - (a + b + h + q + z) + (a + b + 0 + (q + n) + z)
         /\ a + b + h + q + z <= f
    BY <1>5, <1>6, <1>8, <1>9
  <1>11. /\ f - (a + b + h + q + z) + (a + b + 0 + (q + n) + z) = f - h + n
         /\ a + b + h + q + z <= f => h <= f
    BY <1>4, <1>9
  <1>12. QED
    BY <1>4, <1>9, <1>10, <1>11

LEMMA TakeFlow ==
    ASSUME Located, NEW T, Plain(T), NEW w \in Workers, Take(w)
    PROVE  InFlight(T)' = InFlight(T)
  <1>1. UNCHANGED <<submitQueue, toPost, ssdQueue, ssdTask>> /\ hand[w] = <<>>
    BY DEF Take, scheduler, ssd
  <1>2. PICK q : q = IF seq[w] THEN nvmQueue[w] ELSE bufferQueue[w]
    OBVIOUS
  <1>3. CASE UNCHANGED <<hand, nvmQueue, bufferQueue>>
    BY <1>1, <1>3 DEF InFlight, BlocksAt, InHand
  <1>4. CASE /\ q # <<>>
             /\ \E e \in Errands(Head(q)) : hand' = [hand EXCEPT ![w] = <<e>>]
             /\ nvmQueue' = IF seq[w] THEN [nvmQueue EXCEPT ![w] = Tail(@)] ELSE nvmQueue
             /\ bufferQueue' = IF seq[w] THEN bufferQueue ELSE [bufferQueue EXCEPT ![w] = Tail(@)]
    <2>1. PICK e \in Errands(Head(q)) : hand' = [hand EXCEPT ![w] = <<e>>]
      BY <1>4
    <2>2. /\ nvmQueue \in [Workers -> Seq(Task)] /\ bufferQueue \in [Workers -> Seq(Task)]
          /\ nvmQueue[w] \in Seq(NvmPart(w)) /\ bufferQueue[w] \in Seq(SsdPart(w))
          /\ nvmQueue[w] \in Seq(Task) /\ bufferQueue[w] \in Seq(Task)
          /\ hand \in [Workers -> Seq(Errand)]
      BY DEF Located, NvmQueuesAre, BufferQueuesAre, HandsAre
    <2>3. PICK t : t = Head(q)
      OBVIOUS
    <2>4. t \in NvmPart(w) \cup SsdPart(w) /\ t \in Task
      <3>1. CASE seq[w]
        <4>1. t \in NvmPart(w)
          BY <1>2, <1>4, <2>2, <2>3, <3>1, QueueFacts
        <4>2. QED
          BY <4>1 DEF NvmPart
      <3>2. CASE ~ seq[w]
        <4>1. t \in SsdPart(w)
          BY <1>2, <1>4, <2>2, <2>3, <3>2, QueueFacts
        <4>2. QED
          BY <4>1 DEF SsdPart
      <3>3. QED
        BY <3>1, <3>2
    <2>5. BlocksIn(Unserved(e), T) = LenIn(t, T) /\ LenIn(t, T) \in Nat
      BY <2>1, <2>3, <2>4, ErrandsAreWhole, BlocksInOne
    <2>6. /\ InHand(w)' = Unserved(e) /\ InHand(w) = <<>>
          /\ \A v \in Workers \ {w} : hand'[v] = hand[v]
      <3>1. hand'[w] = <<e>> /\ \A v \in Workers \ {w} : hand'[v] = hand[v]
        BY <2>1, <2>2
      <3>2. hand'[w] # <<>> /\ Head(hand'[w]) = e
        BY <3>1
      <3>3. InHand(w)' = Unserved(e)
        BY <3>2 DEF InHand, Unserved
      <3>4. QED
        BY <1>1, <3>1, <3>3 DEF InHand
    <2>7. /\ \A v \in Workers \ {w} : nvmQueue'[v] = nvmQueue[v] /\ bufferQueue'[v] = bufferQueue[v]
          /\ BlocksIn(nvmQueue'[w], T) \in Nat /\ BlocksIn(bufferQueue'[w], T) \in Nat
          /\ BlocksIn(nvmQueue[w], T) + BlocksIn(bufferQueue[w], T) =
                LenIn(t, T) + BlocksIn(nvmQueue'[w], T) + BlocksIn(bufferQueue'[w], T)
      <3>1. CASE seq[w]
        <4>1. nvmQueue' = [nvmQueue EXCEPT ![w] = Tail(@)] /\ UNCHANGED bufferQueue
          BY <1>4, <3>1
        <4>2. nvmQueue[w] # <<>> /\ t = Head(nvmQueue[w])
          BY <1>2, <1>4, <2>3, <3>1
        <4>3. nvmQueue'[w] = Tail(nvmQueue[w]) /\ nvmQueue'[w] \in Seq(Task)
          BY <2>2, <4>1, <4>2, QueueFacts
        <4>4. /\ BlocksIn(nvmQueue[w], T) = LenIn(t, T) + BlocksIn(nvmQueue'[w], T)
              /\ BlocksIn(nvmQueue'[w], T) \in Nat /\ BlocksIn(bufferQueue[w], T) \in Nat
          BY <2>2, <4>2, <4>3, BlocksInQueue
        <4>5. \A v \in Workers \ {w} : nvmQueue'[v] = nvmQueue[v]
          BY <2>2, <4>1
        <4>6. QED
          BY <2>5, <4>1, <4>4, <4>5
      <3>2. CASE ~ seq[w]
        <4>1. bufferQueue' = [bufferQueue EXCEPT ![w] = Tail(@)] /\ UNCHANGED nvmQueue
          BY <1>4, <3>2
        <4>2. bufferQueue[w] # <<>> /\ t = Head(bufferQueue[w])
          BY <1>2, <1>4, <2>3, <3>2
        <4>3. bufferQueue'[w] = Tail(bufferQueue[w]) /\ bufferQueue'[w] \in Seq(Task)
          BY <2>2, <4>1, <4>2, QueueFacts
        <4>4. /\ BlocksIn(bufferQueue[w], T) = LenIn(t, T) + BlocksIn(bufferQueue'[w], T)
              /\ BlocksIn(bufferQueue'[w], T) \in Nat /\ BlocksIn(nvmQueue[w], T) \in Nat
          BY <2>2, <4>2, <4>3, BlocksInQueue
        <4>5. \A v \in Workers \ {w} : bufferQueue'[v] = bufferQueue[v]
          BY <2>2, <4>1
        <4>6. QED
          BY <2>5, <4>1, <4>4, <4>5
      <3>3. QED
        BY <3>1, <3>2
    <2>8. PICK n \in Nat, b \in Nat, s \in Nat, z \in Nat :
             /\ n = BlocksIn(nvmQueue[w], T) /\ b = BlocksIn(bufferQueue[w], T)
             /\ s = BlocksIn(ssdQueue[w], T) /\ z = BlocksIn(ssdTask[w], T)
      BY BlocksAreNatural
    <2>9. BlocksAt(w, T) = n + b + 0 + s + z
      BY <2>6, <2>8, BlocksInEmpty DEF BlocksAt
    <2>10. BlocksAt(w, T)' = BlocksIn(nvmQueue'[w], T) + BlocksIn(bufferQueue'[w], T)
                               + LenIn(t, T) + s + z
      <3>1. BlocksAt(w, T)' = BlocksIn(nvmQueue'[w], T) + BlocksIn(bufferQueue'[w], T)
                               + BlocksIn(Unserved(e), T) + s + z
        BY <1>1, <2>6, <2>8 DEF BlocksAt
      <3>2. QED
        BY <2>5, <3>1
    <2>11. BlocksAt(w, T)' \in Nat /\ BlocksAt(w, T)' = BlocksAt(w, T)
      BY <2>5, <2>7, <2>8, <2>9, <2>10
    <2>12. /\ InFlight(T)' = InFlight(T) - BlocksAt(w, T) + BlocksAt(w, T)'
           /\ BlocksAt(w, T) <= InFlight(T)
      BY <1>1, <2>6, <2>7, <2>11, AtWorkerFlow
    <2>13. InFlight(T) \in Nat
      BY BlocksAreNatural
    <2>14. QED
      BY <2>11, <2>12, <2>13
  <1>5. QED
    BY <1>2, <1>3, <1>4 DEF Take

(* n blocks of the task t are served.                                      *)
Serves(t, n) ==
    \A T : Plain(T) => /\ InFlight(T)' = InFlight(T) - IF t \in T THEN n ELSE 0
                       /\ (t \in T => n <= InFlight(T))

LEMMA ServeNvmFlow ==
    ASSUME Located, NEW w \in Workers, ServeNvm(w) \/ RedirectSmallWrite(w)
    PROVE  /\ Head(hand[w]).task \in Task
           /\ Serves(Head(hand[w]).task, Head(hand[w]).task.len)
  <1>1. /\ hand[w] # <<>> /\ hand' = [hand EXCEPT ![w] = <<>>]
        /\ UNCHANGED <<submitQueue, toPost, nvmQueue, bufferQueue, ssdQueue, ssdTask>>
    BY DEF ServeNvm, RedirectSmallWrite, scheduler, ssd
  <1>2. PICK e \in ErrandsAt(w) : e = Head(hand[w])
    BY <1>1, HandFacts
  <1>3. PICK t \in Task : t = e.task
    BY <1>1, <1>2, HandFacts
  <1>4. ~ (t.type = "ssd" /\ t.op = "read")
    BY <1>2, <1>3 DEF ServeNvm, RedirectSmallWrite
  <1>5. ASSUME NEW T, Plain(T)
        PROVE  /\ InFlight(T)' = InFlight(T) - IF t \in T THEN t.len ELSE 0
               /\ (t \in T => t.len <= InFlight(T))
    <2>1. BlocksIn(InHand(w), T) = LenIn(t, T)
      BY <1>1, <1>2, <1>3, <1>4, <1>5, HandFacts, UnservedFacts
    <2>2. BlocksIn(ssdQueue[w], T) \in Nat /\ InFlight(T) \in Nat
      BY BlocksAreNatural
    <2>3. BlocksIn(ssdQueue'[w], T) = BlocksIn(ssdQueue[w], T) + 0
      BY <1>1, <2>2
    <2>4. /\ InFlight(T)' = InFlight(T) - BlocksIn(InHand(w), T) + 0
          /\ BlocksIn(InHand(w), T) <= InFlight(T)
      BY <1>1, <2>3, HandEmptied
    <2>5. t.len \in Nat
      BY TaskFacts
    <2>6. QED
      BY <2>1, <2>2, <2>4, <2>5 DEF LenIn
  <1>6. QED
    BY <1>2, <1>3, <1>5 DEF Serves

LEMMA ReadDoneFlow ==
    ASSUME Located, NEW w \in Workers, RedirectReadDone(w)
    PROVE  /\ Head(hand[w]).task \in Task /\ Head(hand[w]).hits \in Nat
           /\ Serves(Head(hand[w]).task, Head(hand[w]).hits)
  <1>1. /\ hand[w] # <<>> /\ hand' = [hand EXCEPT ![w] = <<>>]
        /\ UNCHANGED <<submitQueue, toPost, nvmQueue, bufferQueue, ssdQueue, ssdTask>>
    BY DEF RedirectReadDone, scheduler, ssd
  <1>2. PICK e \in ErrandsAt(w) : e = Head(hand[w])
    BY <1>1, HandFacts
  <1>3. PICK t \in Task : t = e.task /\ e.hits \in Nat
    BY <1>1, <1>2, HandFacts
  <1>4. t.type = "ssd" /\ t.op = "read" /\ e.misses = <<>>
    BY <1>2, <1>3 DEF RedirectReadDone
  <1>5. ASSUME NEW T, Plain(T)
        PROVE  /\ InFlight(T)' = InFlight(T) - IF t \in T THEN e.hits ELSE 0
               /\ (t \in T => e.hits <= InFlight(T))
    <2>1. BlocksIn(InHand(w), T) = 0 + IF t \in T THEN e.hits ELSE 0
      <3>1. BlocksIn(e.misses, T) = 0
        BY <1>4, BlocksInEmpty
      <3>2. QED
        BY <1>1, <1>2, <1>3, <1>4, <1>5, <3>1, HandFacts, UnservedFacts
    <2>2. BlocksIn(ssdQueue[w], T) \in Nat /\ InFlight(T) \in Nat
      BY BlocksAreNatural
    <2>3. BlocksIn(ssdQueue'[w], T) = BlocksIn(ssdQueue[w], T) + 0
      BY <1>1, <2>2
    <2>4. /\ InFlight(T)' = InFlight(T) - BlocksIn(InHand(w), T) + 0
          /\ BlocksIn(InHand(w), T) <= InFlight(T)
      BY <1>1, <2>3, HandEmptied
    <2>5. QED
      BY <1>3, <2>1, <2>2, <2>4
  <1>6. QED
    BY <1>2, <1>3, <1>5 DEF Serves

LEMMA LargeWriteFlow ==
    ASSUME Located, NEW T, Plain(T), NEW w \in Workers, RedirectLargeWrite(w)
    PROVE  InFlight(T)' = InFlight(T)
  <1>1. /\ hand[w] # <<>> /\ hand' = [hand EXCEPT ![w] = <<>>]
        /\ UNCHANGED <<submitQueue, toPost, nvmQueue, bufferQueue, ssdTask>>
    BY DEF RedirectLargeWrite, scheduler, ssd
  <1>2. PICK e \in ErrandsAt(w) : e = Head(hand[w])
    BY <1>1, HandFacts
  <1>3. PICK t \in Task : t = e.task
    BY <1>1, <1>2, HandFacts
  <1>4. t.op = "write" /\ ssdQueue' = [ssdQueue EXCEPT ![w] = Append(@, t)]
    BY <1>2, <1>3 DEF RedirectLargeWrite
  <1>5. t.op # "read"
    BY <1>4
  <1>6. BlocksIn(InHand(w), T) = LenIn(t, T)
    BY <1>1, <1>2, <1>3, <1>5, HandFacts, UnservedFacts
  <1>7. ssdQueue \in [Workers -> Seq(Task)] /\ ssdQueue[w] \in Seq(Task)
    BY DEF Located, SsdQueuesAre
  <1>8. /\ \A v \in Workers \ {w} : ssdQueue'[v] = ssdQueue[v]
        /\ ssdQueue'[w] = Append(ssdQueue[w], t)
    BY <1>4, <1>7
  <1>9. BlocksIn(ssdQueue'[w], T) = BlocksIn(ssdQueue[w], T) + LenIn(t, T)
    BY <1>7, <1>8, BlocksInQueue
  <1>10. PICK n \in Nat : n = LenIn(t, T)
    BY BlocksInOne
  <1>11. InFlight(T)' = InFlight(T) - BlocksIn(InHand(w), T) + n
    BY <1>1, <1>8, <1>9, <1>10, HandEmptied
  <1>12. InFlight(T) \in Nat
    BY BlocksAreNatural
  <1>13. QED
    BY <1>6, <1>10, <1>11, <1>12

LEMMA MissFlow ==
    ASSUME Located, NEW T, Plain(T), NEW w \in Workers, RedirectReadMiss(w)
    PROVE  InFlight(T)' = InFlight(T)
  <1>1. /\ hand[w] # <<>> /\ hand' = [hand EXCEPT ![w] = <<[Head(hand[w]) EXCEPT !.misses = Tail(@)]>>]
        /\ Head(hand[w]) \in ErrandsAt(w) /\ Head(hand[w]).misses # <<>>
        /\ UNCHANGED <<submitQueue, toPost, nvmQueue, bufferQueue, ssdTask>>
    BY MissIsPosted DEF RedirectReadMiss, scheduler, ssd
  <1>2. PICK e \in ErrandsAt(w) : e = Head(hand[w])
    BY <1>1
  <1>3. PICK t \in Task : t = e.task
    BY <1>1, <1>2, HandFacts
  <1>4. /\ t.type = "ssd" /\ t.op = "read" /\ e.misses # <<>> /\ e.misses \in Seq(Task)
        /\ e.misses \in Seq(RunsOf(t)) /\ e.hits \in Nat
        /\ InHand(w) = Unserved(e)
    BY <1>1, <1>2, <1>3, HandFacts DEF ErrandsAt
  <1>5. PICK m \in Task : m = Head(e.misses)
    BY <1>4, QueueFacts
  <1>6. PICK f : f = [e EXCEPT !.misses = Tail(e.misses)]
    OBVIOUS
  <1>7. f \in ErrandsAt(w) /\ f.misses = Tail(e.misses) /\ f.task = t /\ f.hits = e.hits
    <2>1. Tail(e.misses) \in Seq(Task) /\ Tail(e.misses) \in Seq(RunsOf(t))
      BY <1>4, QueueFacts
    <2>2. e \in Errand
      BY DEF ErrandsAt
    <2>3. f \in Errand /\ f.misses = Tail(e.misses) /\ f.task = t /\ f.hits = e.hits
      BY <1>3, <1>6, <2>1, <2>2 DEF Errand
    <2>4. QED
      BY <1>3, <1>4, <2>1, <2>3 DEF ErrandsAt
  <1>8. /\ hand'[w] = <<f>> /\ \A v \in Workers \ {w} : hand'[v] = hand[v]
    <2>1. hand \in [Workers -> Seq(Errand)]
      BY DEF Located, HandsAre
    <2>2. hand' = [hand EXCEPT ![w] = <<f>>]
      BY <1>1, <1>2, <1>6
    <2>3. QED
      BY <2>1, <2>2
  <1>9. InHand(w)' = Unserved(f)
    <2>1. hand'[w] # <<>> /\ Head(hand'[w]) = f
      BY <1>8
    <2>2. QED
      BY <2>1 DEF InHand, Unserved
  <1>10. BlocksIn(e.misses, T) = LenIn(m, T) + BlocksIn(f.misses, T)
    BY <1>4, <1>5, <1>7, BlocksInQueue
  <1>11. PICK r \in Nat, l \in Nat, k \in Nat :
            /\ r = BlocksIn(f.misses, T) /\ l = LenIn(m, T)
            /\ k = IF t \in T THEN e.hits ELSE 0
    <2>1. f.misses \in Seq(Task)
      BY <1>4, <1>7, QueueFacts
    <2>2. BlocksIn(f.misses, T) \in Nat
      BY <2>1, BlocksInQueue
    <2>3. LenIn(m, T) \in Nat
      BY BlocksInOne
    <2>4. QED
      BY <1>4, <2>2, <2>3
  <1>12. BlocksIn(Unserved(e), T) = (l + r) + k /\ BlocksIn(Unserved(f), T) = r + k
    <2>1. BlocksIn(Unserved(e), T) = BlocksIn(e.misses, T) + (IF t \in T THEN e.hits ELSE 0)
      BY <1>3, <1>4, UnservedFacts
    <2>2. BlocksIn(Unserved(f), T) = BlocksIn(f.misses, T) + (IF t \in T THEN e.hits ELSE 0)
      BY <1>4, <1>7, UnservedFacts
    <2>3. QED
      BY <1>10, <1>11, <2>1, <2>2
  <1>13. ssdQueue \in [Workers -> Seq(Task)] /\ ssdQueue[w] \in Seq(Task)
    BY DEF Located, SsdQueuesAre
  <1>14. /\ \A v \in Workers \ {w} : ssdQueue'[v] = ssdQueue[v]
         /\ ssdQueue'[w] = Append(ssdQueue[w], m)
    BY <1>2, <1>5, <1>13 DEF RedirectReadMiss
  <1>15. BlocksIn(ssdQueue'[w], T) = BlocksIn(ssdQueue[w], T) + l
    BY <1>11, <1>13, <1>14, BlocksInQueue
  <1>16. PICK a \in Nat, b \in Nat, q \in Nat, z \in Nat :
            /\ a = BlocksIn(nvmQueue[w], T) /\ b = BlocksIn(bufferQueue[w], T)
            /\ q = BlocksIn(ssdQueue[w], T) /\ z = BlocksIn(ssdTask[w], T)
    BY BlocksAreNatural
  <1>17. BlocksAt(w, T) = a + b + ((l + r) + k) + q + z
    BY <1>4, <1>12, <1>16 DEF BlocksAt
  <1>18. BlocksAt(w, T)' = a + b + (r + k) + (q + l) + z
    BY <1>1, <1>9, <1>12, <1>15, <1>16 DEF BlocksAt
  <1>19. BlocksAt(w, T)' = BlocksAt(w, T) /\ BlocksAt(w, T)' \in Nat
    BY <1>11, <1>16, <1>17, <1>18
  <1>20. InFlight(T)' = InFlight(T) - BlocksAt(w, T) + BlocksAt(w, T)'
    BY <1>1, <1>8, <1>14, <1>19, AtWorkerFlow
  <1>21. InFlight(T) \in Nat
    BY BlocksAreNatural
  <1>22. QED
    BY <1>19, <1>20, <1>21

LEMMA TakeSsdFlow ==
    ASSUME Located, NEW T, NEW w \in Workers, TakeSsd(w)
    PROVE  InFlight(T)' = InFlight(T)
  <1>1. /\ UNCHANGED <<submitQueue, toPost, nvmQueue, bufferQueue, hand>>
        /\ ssdTask[w] = <<>> /\ ssdQueue[w] # <<>>
        /\ ssdTask' = [ssdTask EXCEPT ![w] = <<Head(ssdQueue[w])>>]
        /\ ssdQueue' = [ssdQueue EXCEPT ![w] = Tail(@)]
    BY DEF TakeSsd, scheduler, nvm
  <1>2. /\ ssdQueue \in [Workers -> Seq(Task)] /\ ssdQueue[w] \in Seq(Task)
        /\ ssdTask \in [Workers -> Seq(Task)]
    BY DEF Located, SsdQueuesAre, SsdTasksAre
  <1>3. PICK t \in Task : t = Head(ssdQueue[w])
    BY <1>1, <1>2, QueueFacts
  <1>4. /\ \A v \in Workers \ {w} : ssdQueue'[v] = ssdQueue[v] /\ ssdTask'[v] = ssdTask[v]
        /\ ssdQueue'[w] = Tail(ssdQueue[w]) /\ ssdTask'[w] = <<t>>
    BY <1>1, <1>2, <1>3
  <1>5. PICK l \in Nat : l = LenIn(t, T) /\ BlocksIn(ssdTask'[w], T) = l
    BY <1>4, BlocksInOne
  <1>6. PICK r \in Nat : r = BlocksIn(ssdQueue'[w], T) /\ BlocksIn(ssdQueue[w], T) = l + r
    <2>1. Tail(ssdQueue[w]) \in Seq(Task)
      BY <1>1, <1>2, QueueFacts
    <2>2. BlocksIn(ssdQueue'[w], T) \in Nat
      BY <1>4, <2>1, BlocksInQueue
    <2>3. QED
      BY <1>1, <1>2, <1>3, <1>4, <1>5, <2>2, BlocksInQueue
  <1>7. InHand(w)' = InHand(w)
    BY <1>1 DEF InHand
  <1>8. PICK a \in Nat, b \in Nat, h \in Nat :
           /\ a = BlocksIn(nvmQueue[w], T) /\ b = BlocksIn(bufferQueue[w], T)
           /\ h = BlocksIn(InHand(w), T)
    BY BlocksAreNatural
  <1>9. BlocksAt(w, T) = a + b + h + (l + r) + 0
    BY <1>1, <1>6, <1>8, BlocksInEmpty DEF BlocksAt
  <1>10. BlocksAt(w, T)' = a + b + h + r + l
    BY <1>1, <1>5, <1>6, <1>7, <1>8 DEF BlocksAt
  <1>11. BlocksAt(w, T)' = BlocksAt(w, T) /\ BlocksAt(w, T)' \in Nat
    BY <1>5, <1>6, <1>8, <1>9, <1>10
  <1>12. InFlight(T)' = InFlight(T) - BlocksAt(w, T) + BlocksAt(w, T)'
    BY <1>1, <1>4, <1>11, AtWorkerFlow
  <1>13. InFlight(T) \in Nat
    BY BlocksAreNatural
  <1>14. QED
    BY <1>11, <1>12, <1>13

LEMMA ServeSsdFlow ==
    ASSUME Located, NEW w \in Workers, ServeSsd(w)
    PROVE  Head(ssdTask[w]) \in Task /\ Serves(Head(ssdTask[w]), Head(ssdTask[w]).len)
  <1>1. /\ UNCHANGED <<submitQueue, toPost, nvmQueue, bufferQueue, hand, ssdQueue>>
        /\ ssdTask[w] # <<>> /\ ssdTask' = [ssdTask EXCEPT ![w] = <<>>]
    BY DEF ServeSsd, scheduler, nvm
  <1>2. /\ ssdTask \in [Workers -> Seq(Task)] /\ ssdTask[w] \in Seq(Task)
        /\ Len(ssdTask[w]) <= 1
    BY DEF Located, SsdTasksAre
  <1>3. PICK t \in Task : t = Head(ssdTask[w])
    BY <1>1, <1>2, QueueFacts
  <1>4. /\ \A v \in Workers \ {w} : ssdTask'[v] = ssdTask[v]
        /\ ssdTask'[w] = <<>> /\ ssdTask[w] = <<t>>
    BY <1>1, <1>2, <1>3
  <1>5. ASSUME NEW T, Plain(T)
        PROVE  /\ InFlight(T)' = InFlight(T) - IF t \in T THEN t.len ELSE 0
               /\ (t \in T => t.len <= InFlight(T))
    <2>1. PICK l \in Nat : l = LenIn(t, T) /\ BlocksIn(ssdTask[w], T) = l
      BY <1>4, BlocksInOne
    <2>2. PICK a \in Nat, b \in Nat, h \in Nat, q \in Nat :
             /\ a = BlocksIn(nvmQueue[w], T) /\ b = BlocksIn(bufferQueue[w], T)
             /\ h = BlocksIn(InHand(w), T) /\ q = BlocksIn(ssdQueue[w], T)
      BY BlocksAreNatural
    <2>3. InHand(w)' = InHand(w)
      BY <1>1 DEF InHand
    <2>4. BlocksAt(w, T) = a + b + h + q + l
      BY <2>1, <2>2 DEF BlocksAt
    <2>5. BlocksAt(w, T)' = a + b + h + q + 0
      BY <1>1, <1>4, <2>2, <2>3, BlocksInEmpty DEF BlocksAt
    <2>6. BlocksAt(w, T)' \in Nat
      BY <2>2, <2>5
    <2>7. /\ InFlight(T)' = InFlight(T) - BlocksAt(w, T) + BlocksAt(w, T)'
          /\ BlocksAt(w, T) <= InFlight(T)
      BY <1>1, <1>4, <2>6, AtWorkerFlow
    <2>8. PICK f \in Nat : f = InFlight(T)
      BY BlocksAreNatural
    <2>9. InFlight(T)' = f - l /\ l <= f
      BY <2>1, <2>2, <2>4, <2>5, <2>7, <2>8
    <2>10. QED
      BY <2>1, <2>8, <2>9 DEF LenIn
  <1>6. QED
    BY <1>3, <1>5 DEF Serves

-----------------------------------------------------------------------------
(* Writes.                                                                 *)

LEMMA WritesArePlain ==
    Plain(Writes) /\ \A t \in Task : /\ WriteLen(t) = LenIn(t, Writes)
                                     /\ t \in Writes <=> t.op = "write"
  <1>1. \A t \in Task : t \in Writes <=> t.op = "write"
    BY DEF Writes
  <1>2. Plain(Writes)
    BY <1>1 DEF Plain
  <1>3. \A t \in Task : WriteLen(t) = LenIn(t, Writes)
    BY <1>1 DEF WriteLen, LenIn
  <1>4. QED
    BY <1>1, <1>2, <1>3

LEMMA NothingInFlight ==
    ASSUME Init, NEW T
    PROVE  InFlight(T) = 0
  <1>1. \A c \in Clients : BlocksIn(submitQueue[c], T) = 0
    BY BlocksInEmpty DEF Init
  <1>2. ASSUME NEW w \in Workers
        PROVE  BlocksAt(w, T) = 0
    <2>1. /\ nvmQueue[w] = <<>> /\ bufferQueue[w] = <<>> /\ InHand(w) = <<>>
          /\ ssdQueue[w] = <<>> /\ ssdTask[w] = <<>>
      BY DEF Init, InHand
    <2>2. QED
      BY <2>1, BlocksInEmpty DEF BlocksAt
  <1>3. SubmitNum \in Nat /\ QueueNum \in Nat
    BY WorkersTake
  <1>4. FromClients(T) = 0
    <2>1. PICK v : v = [c \in Clients |-> BlocksIn(submitQueue[c], T)]
      OBVIOUS
    <2>2. \A c \in 0 .. SubmitNum - 1 : v[c] = 0
      BY <1>1, <2>1 DEF Clients
    <2>3. SumBelow(SubmitNum, v) = 0
      BY <1>3, <2>2, SumOfZeros
    <2>4. QED
      BY <2>1, <2>3 DEF FromClients
  <1>5. AtWorkers(T) = 0
    <2>1. PICK v : v = [w \in Workers |-> BlocksAt(w, T)]
      OBVIOUS
    <2>2. \A w \in 0 .. QueueNum - 1 : v[w] = 0
      BY <1>2, <2>1 DEF Workers
    <2>3. SumBelow(QueueNum, v) = 0
      BY <1>3, <2>2, SumOfZeros
    <2>4. QED
      BY <2>1, <2>3 DEF AtWorkers
  <1>6. BlocksIn(toPost, T) = 0
    BY BlocksInEmpty DEF Init
  <1>7. QED
    BY <1>4, <1>5, <1>6, InFlightIs

(* A served task is counted when it is a write.                            *)
LEMMA WriteServed ==
    ASSUME Located, EveryWriteCountedOnce, NEW t \in Task, NEW n \in Nat, Serves(t, n),
           UNCHANGED <<accepted, unplaced>>,
           CompletedWrites' = CompletedWrites + IF t.op = "write" THEN n ELSE 0
    PROVE  EveryWriteCountedOnce'
  <1>1. /\ InFlight(Writes)' = InFlight(Writes) - IF t \in Writes THEN n ELSE 0
        /\ (t \in Writes => n <= InFlight(Writes))
    BY WritesArePlain DEF Serves
  <1>2. t \in Writes <=> t.op = "write"
    BY WritesArePlain
  <1>3. InFlight(Writes) \in Nat /\ CompletedWrites \in Nat /\ unplaced \in Nat
    BY BlocksAreNatural DEF Located, CountersAre, CompletedWrites
  <1>4. accepted = CompletedWrites + unplaced + InFlight(Writes)
    BY DEF EveryWriteCountedOnce
  <1>5. accepted' = CompletedWrites' + unplaced' + InFlight(Writes)'
    BY <1>1, <1>2, <1>3, <1>4
  <1>6. QED
    BY <1>5 DEF EveryWriteCountedOnce

LEMMA WritesStep ==
    ASSUME Located, Located', EveryWriteCountedOnce, [Next]_vars
    PROVE  EveryWriteCountedOnce'
  <1>1. /\ InFlight(Writes) \in Nat /\ CompletedWrites \in Nat
        /\ completedNvm \in Nat /\ completedSsd \in Nat
        /\ unplaced \in Nat /\ accepted \in Nat
        /\ accepted = CompletedWrites + unplaced + InFlight(Writes)
    BY BlocksAreNatural DEF Located, CountersAre, CompletedWrites, EveryWriteCountedOnce
  <1>2. ASSUME UNCHANGED <<completedNvm, completedSsd, accepted, unplaced>>,
               InFlight(Writes)' = InFlight(Writes)
        PROVE  EveryWriteCountedOnce'
    <2>1. CompletedWrites' = CompletedWrites
      BY <1>2 DEF CompletedWrites
    <2>2. accepted' = CompletedWrites' + unplaced' + InFlight(Writes)'
      BY <1>1, <1>2, <2>1
    <2>3. QED
      BY <2>2 DEF EveryWriteCountedOnce
  <1>3. CASE UNCHANGED vars
    <2>1. UNCHANGED <<submitQueue, toPost, nvmQueue, bufferQueue, hand, ssdQueue, ssdTask,
                      completedNvm, completedSsd, accepted, unplaced>>
      BY <1>3 DEF vars, client, scheduler, nvm, ssd
    <2>2. InFlight(Writes)' = InFlight(Writes)
      BY <2>1 DEF InFlight, BlocksAt, InHand
    <2>3. QED
      BY <1>2, <2>1, <2>2
  <1>4. ASSUME NEW c \in Clients, (\E r \in Requests : Request(c, r)) \/ ReadReturns(c)
        PROVE  EveryWriteCountedOnce'
    <2>1. InFlight(Writes)' = InFlight(Writes)
      BY <1>4, RequestFlow
    <2>2. UNCHANGED <<completedNvm, completedSsd, accepted, unplaced>>
      BY <1>4 DEF Request, ReadReturns, scheduler, nvm, ssd
    <2>3. QED
      BY <1>2, <2>1, <2>2
  <1>5. ASSUME NEW c \in Clients, Submit(c)
        PROVE  EveryWriteCountedOnce'
    <2>1. InFlight(Writes)' = InFlight(Writes) + LenIn(task[c], Writes)
      BY <1>5, SubmitFlow
    <2>2. task[c] \in Task
      BY DEF Located, ClientsAre
    <2>3. accepted' = accepted + LenIn(task[c], Writes) /\ LenIn(task[c], Writes) \in Nat
      BY <1>5, <2>2, WritesArePlain, BlocksInOne DEF Submit
    <2>4. unplaced' = unplaced /\ CompletedWrites' = CompletedWrites
      BY <1>5 DEF Submit, scheduler, nvm, ssd, CompletedWrites
    <2>5. accepted' = CompletedWrites' + unplaced' + InFlight(Writes)'
      BY <1>1, <2>1, <2>3, <2>4
    <2>6. QED
      BY <2>5 DEF EveryWriteCountedOnce
  <1>6. CASE Poll
    <2>1. /\ UNCHANGED <<completedNvm, completedSsd, accepted>>
          /\ CompletedWrites' = CompletedWrites
      BY <1>6 DEF Poll, nvm, ssd, CompletedWrites
    <2>2. CASE /\ UNCHANGED <<submitQueue, unplaced>>
               /\ \A T : InFlight(T)' = InFlight(T)
      <3>1. InFlight(Writes)' = InFlight(Writes)
        BY <2>2
      <3>2. QED
        BY <1>2, <2>1, <2>2, <3>1
    <2>3. CASE \E h, t :
                 /\ PollsTask(h, t)
                 /\ \A T : Plain(T) =>
                       /\ InFlight(T)' = InFlight(T) - IF t.type = "none" THEN LenIn(h, T) ELSE 0
                       /\ LenIn(h, T) <= InFlight(T)
      <3>1. PICK h, t :
               /\ PollsTask(h, t)
               /\ \A T : Plain(T) =>
                     /\ InFlight(T)' = InFlight(T) - IF t.type = "none" THEN LenIn(h, T) ELSE 0
                     /\ LenIn(h, T) <= InFlight(T)
        BY <2>3
      <3>2. /\ InFlight(Writes)' = InFlight(Writes) - IF t.type = "none" THEN LenIn(h, Writes) ELSE 0
            /\ LenIn(h, Writes) <= InFlight(Writes)
        BY <3>1, WritesArePlain
      <3>3. /\ h \in Submitted(idx) /\ t \in HandledTasks(h) /\ idx \in Clients
            /\ unplaced' = unplaced + IF t.type = "none" THEN WriteLen(t) ELSE 0
        BY <3>1 DEF PollsTask, Located, PollsAre
      <3>4. h \in Task /\ t \in Task /\ t.op = h.op /\ t.len = h.len
        BY <3>3, PartsAreParts DEF Submitted
      <3>5. WriteLen(t) = LenIn(h, Writes) /\ LenIn(h, Writes) \in Nat
        BY <3>4, WritesArePlain, BlocksInOne DEF WriteLen
      <3>6. accepted' = CompletedWrites' + unplaced' + InFlight(Writes)'
        BY <1>1, <2>1, <3>2, <3>3, <3>5
      <3>7. QED
        BY <3>6 DEF EveryWriteCountedOnce
    <2>4. QED
      BY <1>6, <2>2, <2>3, PollFlow
  <1>7. CASE PostToNvm \/ PostToBuffer
    <2>1. InFlight(Writes)' = InFlight(Writes)
      BY <1>7, PostFlow
    <2>2. UNCHANGED <<completedNvm, completedSsd, accepted, unplaced>>
      BY <1>7 DEF PostToNvm, PostToBuffer, nvm, ssd
    <2>3. QED
      BY <1>2, <2>1, <2>2
  <1>8. ASSUME NEW w \in Workers,
               Take(w) \/ RedirectLargeWrite(w) \/ RedirectReadMiss(w) \/ TakeSsd(w)
        PROVE  EveryWriteCountedOnce'
    <2>1. InFlight(Writes)' = InFlight(Writes)
      BY <1>8, TakeFlow, LargeWriteFlow, MissFlow, TakeSsdFlow, WritesArePlain
    <2>2. UNCHANGED <<completedNvm, completedSsd, accepted, unplaced>>
      BY <1>8 DEF Take, RedirectLargeWrite, RedirectReadMiss, TakeSsd, scheduler, nvm, ssd
    <2>3. QED
      BY <1>2, <2>1, <2>2
  <1>9. ASSUME NEW w \in Workers, ServeNvm(w) \/ RedirectSmallWrite(w)
        PROVE  EveryWriteCountedOnce'
    <2>1. PICK t \in Task : t = Head(hand[w]).task /\ Serves(t, t.len)
      BY <1>9, ServeNvmFlow
    <2>2. t.len \in Nat
      BY TaskFacts
    <2>3. UNCHANGED <<completedSsd, accepted, unplaced>>
      BY <1>9 DEF ServeNvm, RedirectSmallWrite, scheduler, ssd
    <2>4. completedNvm' = completedNvm + IF t.op = "write" THEN t.len ELSE 0
      BY <1>1, <1>9, <2>1 DEF ServeNvm, RedirectSmallWrite
    <2>5. CompletedWrites' = CompletedWrites + IF t.op = "write" THEN t.len ELSE 0
      BY <1>1, <2>2, <2>3, <2>4 DEF CompletedWrites
    <2>6. QED
      BY <2>1, <2>2, <2>3, <2>5, WriteServed
  <1>10. ASSUME NEW w \in Workers, RedirectReadDone(w)
         PROVE  EveryWriteCountedOnce'
    <2>1. PICK t \in Task, n \in Nat :
             t = Head(hand[w]).task /\ n = Head(hand[w]).hits /\ Serves(t, n)
      BY <1>10, ReadDoneFlow
    <2>2. UNCHANGED <<completedNvm, completedSsd, accepted, unplaced>> /\ t.op = "read"
      BY <1>10, <2>1 DEF RedirectReadDone, scheduler, ssd
    <2>3. CompletedWrites' = CompletedWrites + IF t.op = "write" THEN n ELSE 0
      BY <1>1, <2>2 DEF CompletedWrites
    <2>4. QED
      BY <2>1, <2>2, <2>3, WriteServed
  <1>11. ASSUME NEW w \in Workers, ServeSsd(w)
         PROVE  EveryWriteCountedOnce'
    <2>1. PICK t \in Task : t = Head(ssdTask[w]) /\ Serves(t, t.len)
      BY <1>11, ServeSsdFlow
    <2>2. t.len \in Nat
      BY TaskFacts
    <2>3. UNCHANGED <<completedNvm, accepted, unplaced>>
      BY <1>11 DEF ServeSsd, scheduler, nvm
    <2>4. completedSsd' = completedSsd + IF t.op = "write" THEN t.len ELSE 0
      BY <1>1, <1>11, <2>1 DEF ServeSsd
    <2>5. CompletedWrites' = CompletedWrites + IF t.op = "write" THEN t.len ELSE 0
      BY <1>1, <2>2, <2>3, <2>4 DEF CompletedWrites
    <2>6. QED
      BY <2>1, <2>2, <2>3, <2>5, WriteServed
  <1>12. QED
    BY <1>3, <1>4, <1>5, <1>6, <1>7, <1>8, <1>9, <1>10, <1>11
       DEF Next, SchedulerStep, NvmWorkerStep, SsdWorkerStep

(* EveryWriteCountedOnce: the counters of mix_completed_task_num miss no   *)
(* written block that was served and hold none twice, in every state.      *)
THEOREM EveryWriteCountedOnceHolds == Spec => []EveryWriteCountedOnce
  <1>1. Init => EveryWriteCountedOnce
    <2>1. SUFFICES ASSUME Init PROVE EveryWriteCountedOnce
      OBVIOUS
    <2>2. InFlight(Writes) = 0
      BY <2>1, NothingInFlight
    <2>3. QED
      BY <2>1, <2>2 DEF Init, EveryWriteCountedOnce, CompletedWrites
  <1>2. Located /\ Located' /\ EveryWriteCountedOnce /\ [Next]_vars => EveryWriteCountedOnce'
    BY WritesStep
  <1>3. QED
    BY <1>1, <1>2, LocatedHolds, PTL DEF Spec

-----------------------------------------------------------------------------
(* Reads.                                                                  *)

(* Of the tasks in its submit queue only the last is the client's task.    *)
QueuedIsTask ==
    \A c \in Clients : \A k \in 1 .. Len(submitQueue[c]) :
        /\ submitQueue[c][k].id <= posted[c]
        /\ submitQueue[c][k].id = posted[c] => submitQueue[c][k] = task[c]

RetIsFresh == \A c \in Clients : pc[c] = "post" => ret[c] = 0

(* The i-th task of client c, when it is a read.                           *)
ReadKept(c, i) ==
    IF pc[c] = "wait" /\ i = posted[c]
    THEN /\ ret[c] + InFlight(Reads(c, i)) <= task[c].len
         /\ Placed(task[c]) => ret[c] + InFlight(Reads(c, i)) = task[c].len
    ELSE InFlight(Reads(c, i)) = 0

ReadsAreKept ==
    /\ QueuedIsTask /\ RetIsFresh
    /\ \A c \in Clients, i \in Nat : ReadKept(c, i)

LEMMA ReadsArePlain ==
    ASSUME NEW c \in Clients, NEW i
    PROVE  /\ Plain(Reads(c, i))
           /\ \A t \in Task : t \in Reads(c, i) <=>
                 t.op = "read" /\ t.queue_idx = c /\ t.id = i
  <1>1. \A t \in Task : t \in Reads(c, i) <=> t.op = "read" /\ t.queue_idx = c /\ t.id = i
    BY DEF Reads
  <1>2. QED
    BY <1>1 DEF Plain

LEMMA QueuedIsTaskStep ==
    ASSUME Located, QueuedIsTask, [Next]_vars
    PROVE  QueuedIsTask'
  <1>1. /\ submitQueue \in [Clients -> Seq(Task)] /\ posted \in [Clients -> 0 .. MaxTasks]
        /\ task \in [Clients -> Task] /\ MaxTasks \in Nat
    BY WorkersTake DEF Located, SubmitsAre, ClientsAre
  <1>2. CASE UNCHANGED <<submitQueue, posted, task>>
    BY <1>2 DEF QueuedIsTask
  <1>3. ASSUME NEW c \in Clients, NEW r \in Requests, Request(c, r)
        PROVE  QueuedIsTask'
    <2>1. /\ posted' = [posted EXCEPT ![c] = @ + 1] /\ UNCHANGED submitQueue
          /\ \A d \in Clients \ {c} : task'[d] = task[d]
      BY <1>1, <1>3 DEF Request
    <2>2. SUFFICES ASSUME NEW d \in Clients, NEW k \in 1 .. Len(submitQueue[d])
                   PROVE  /\ submitQueue[d][k].id <= posted'[d]
                          /\ submitQueue[d][k].id = posted'[d] => submitQueue[d][k] = task'[d]
      BY <2>1 DEF QueuedIsTask
    <2>3. PICK u \in Task : u = submitQueue[d][k]
      BY <1>1, QueueFacts
    <2>4. u.id \in Nat /\ u.id <= posted[d] /\ (u.id = posted[d] => u = task[d])
      BY <2>3, TaskFacts DEF QueuedIsTask
    <2>5. posted[d] \in Nat
      BY <1>1
    <2>6. CASE d = c
      <3>1. posted'[d] = posted[d] + 1
        BY <1>1, <2>1, <2>6
      <3>2. QED
        BY <2>3, <2>4, <2>5, <3>1
    <2>7. CASE d # c
      <3>1. posted'[d] = posted[d] /\ task'[d] = task[d]
        BY <1>1, <2>1, <2>7
      <3>2. QED
        BY <2>3, <2>4, <3>1
    <2>8. QED
      BY <2>6, <2>7
  <1>4. ASSUME NEW c \in Clients, Submit(c)
        PROVE  QueuedIsTask'
    <2>1. submitQueue' = [submitQueue EXCEPT ![c] = Append(@, task[c])] /\ UNCHANGED <<posted, task>>
      BY <1>4 DEF Submit
    <2>2. task[c].id = posted[c] /\ posted[c] \in Nat /\ task[c] \in Task
      BY <1>1, <1>4 DEF Submit, Located, ClientsAre
    <2>3. SUFFICES ASSUME NEW d \in Clients, NEW k \in 1 .. Len(submitQueue'[d])
                   PROVE  /\ submitQueue'[d][k].id <= posted[d]
                          /\ submitQueue'[d][k].id = posted[d] => submitQueue'[d][k] = task[d]
      BY <2>1 DEF QueuedIsTask
    <2>4. CASE d = c
      <3>1. submitQueue'[d] = Append(submitQueue[c], task[c]) /\ submitQueue[c] \in Seq(Task)
        BY <1>1, <2>1, <2>4
      <3>2. \/ k \in 1 .. Len(submitQueue[c]) /\ submitQueue'[d][k] = submitQueue[c][k]
            \/ submitQueue'[d][k] = task[c]
        BY <2>2, <3>1
      <3>3. QED
        BY <2>2, <2>4, <3>2 DEF QueuedIsTask
    <2>5. CASE d # c
      <3>1. submitQueue'[d] = submitQueue[d]
        BY <1>1, <2>1, <2>5
      <3>2. QED
        BY <3>1 DEF QueuedIsTask
    <2>6. QED
      BY <2>4, <2>5
  <1>5. CASE Poll
    <2>1. UNCHANGED <<posted, task>> /\ idx \in Clients
      BY <1>5 DEF Poll, client, Located, PollsAre
    <2>2. CASE UNCHANGED submitQueue
      BY <1>2, <2>1, <2>2
    <2>3. CASE submitQueue[idx] # <<>> /\ submitQueue' = [submitQueue EXCEPT ![idx] = Tail(@)]
      <3>1. SUFFICES ASSUME NEW d \in Clients, NEW k \in 1 .. Len(submitQueue'[d])
                     PROVE  /\ submitQueue'[d][k].id <= posted[d]
                            /\ submitQueue'[d][k].id = posted[d] => submitQueue'[d][k] = task[d]
        BY <2>1 DEF QueuedIsTask
      <3>2. CASE d = idx
        <4>1. submitQueue'[d] = Tail(submitQueue[d]) /\ submitQueue[d] # <<>>
              /\ submitQueue[d] \in Seq(Task)
          BY <1>1, <2>1, <2>3, <3>2
        <4>2. k + 1 \in 1 .. Len(submitQueue[d]) /\ submitQueue'[d][k] = submitQueue[d][k + 1]
          BY <4>1
        <4>3. PICK m \in 1 .. Len(submitQueue[d]) : submitQueue'[d][k] = submitQueue[d][m]
          BY <4>2
        <4>4. QED
          BY <4>3 DEF QueuedIsTask
      <3>3. CASE d # idx
        <4>1. submitQueue'[d] = submitQueue[d]
          BY <1>1, <2>3, <3>3
        <4>2. QED
          BY <4>1 DEF QueuedIsTask
      <3>4. QED
        BY <3>2, <3>3
    <2>4. QED
      BY <1>5, <2>2, <2>3 DEF Poll
  <1>6. CASE UNCHANGED vars \/ PostToNvm \/ PostToBuffer \/ (\E c \in Clients : ReadReturns(c))
             \/ \E w \in Workers : NvmWorkerStep(w) \/ SsdWorkerStep(w)
    <2>1. UNCHANGED <<submitQueue, posted, task>>
      BY <1>6 DEF vars, client, PostToNvm, PostToBuffer, ReadReturns, NvmWorkerStep, Take, ServeNvm,
         RedirectSmallWrite, RedirectLargeWrite, RedirectReadMiss, RedirectReadDone,
         SsdWorkerStep, TakeSsd, ServeSsd
    <2>2. QED
      BY <1>2, <2>1
  <1>7. QED
    BY <1>3, <1>4, <1>5, <1>6 DEF Next, SchedulerStep

(* ret changes only by what the client still waits for.                    *)
LEMMA ReadServed ==
    ASSUME Located, ReadsAreKept, NEW t \in Task, NEW n \in Nat, Serves(t, n),
           \/ t.op = "read" /\ AddToRet(t, n)
           \/ t.op = "write" /\ UNCHANGED ret,
           UNCHANGED <<pc, task, posted>>
    PROVE  RetIsFresh' /\ \A c \in Clients, i \in Nat : ReadKept(c, i)'
  <1>1. /\ ret \in [Clients -> Nat] /\ t.queue_idx \in Clients
        /\ \A c \in Clients : pc[c] # "idle" => task[c].id = posted[c]
    BY TaskFacts DEF Located, ClientsAre
  <1>2. ASSUME NEW c \in Clients, c # t.queue_idx \/ pc[c] # "wait" \/ posted[c] # t.id \/ t.op # "read"
        PROVE  ret'[c] = ret[c]
    <2>1. CASE c # t.queue_idx \/ t.op # "read"
      BY <1>1, <2>1 DEF AddToRet
    <2>2. CASE c = t.queue_idx /\ (pc[c] # "wait" \/ posted[c] # t.id)
      <3>1. ~ Awaited(t)
        BY <1>1, <2>2 DEF Awaited
      <3>2. QED
        BY <3>1 DEF AddToRet
    <2>3. QED
      BY <1>2, <2>1, <2>2
  <1>3. RetIsFresh'
    <2>1. SUFFICES ASSUME NEW c \in Clients, pc[c] = "post"
                   PROVE  ret'[c] = 0
      BY DEF RetIsFresh
    <2>2. pc[c] # "wait"
      BY <2>1
    <2>3. ret'[c] = ret[c]
      BY <1>2, <2>2
    <2>4. QED
      BY <2>1, <2>3 DEF ReadsAreKept, RetIsFresh
  <1>4. ASSUME NEW c \in Clients, NEW i \in Nat
        PROVE  ReadKept(c, i)'
    <2>1. /\ InFlight(Reads(c, i))' = InFlight(Reads(c, i)) - IF t \in Reads(c, i) THEN n ELSE 0
          /\ t \in Reads(c, i) => n <= InFlight(Reads(c, i))
      BY ReadsArePlain DEF Serves
    <2>2. PICK f \in Nat : f = InFlight(Reads(c, i))
      BY BlocksAreNatural
    <2>3. ReadKept(c, i)
      BY DEF ReadsAreKept
    <2>4. t \in Reads(c, i) <=> t.op = "read" /\ t.queue_idx = c /\ t.id = i
      BY ReadsArePlain
    <2>5. CASE t \notin Reads(c, i)
      <3>1. InFlight(Reads(c, i))' = InFlight(Reads(c, i))
        BY <2>1, <2>2, <2>5
      <3>2. pc[c] = "wait" /\ i = posted[c] => ret'[c] = ret[c]
        BY <1>2, <2>4, <2>5
      <3>3. Placed(task[c])' <=> Placed(task[c])
        BY DEF Placed
      <3>4. QED
        BY <2>3, <3>1, <3>2, <3>3 DEF ReadKept
    <2>6. CASE t \in Reads(c, i)
      <3>1. InFlight(Reads(c, i))' = f - n /\ n <= f
        BY <2>1, <2>2, <2>6
      <3>2. CASE pc[c] = "wait" /\ i = posted[c]
        <4>1. Awaited(t)
          BY <1>1, <2>4, <2>6, <3>2 DEF Awaited
        <4>2. ret'[c] = ret[c] + n /\ ret[c] \in Nat
          BY <1>1, <2>4, <2>6, <4>1 DEF AddToRet
        <4>3. ret'[c] + InFlight(Reads(c, i))' = ret[c] + f
          BY <2>2, <3>1, <4>2
        <4>4. Placed(task[c])' <=> Placed(task[c])
          BY DEF Placed
        <4>5. QED
          BY <2>2, <2>3, <3>2, <4>3, <4>4 DEF ReadKept
      <3>3. CASE ~ (pc[c] = "wait" /\ i = posted[c])
        <4>1. f = 0
          BY <2>2, <2>3, <3>3 DEF ReadKept
        <4>2. InFlight(Reads(c, i))' = 0
          BY <2>2, <3>1, <4>1
        <4>3. QED
          BY <3>3, <4>2 DEF ReadKept
      <3>4. QED
        BY <3>2, <3>3
    <2>7. QED
      BY <2>5, <2>6
  <1>5. QED
    BY <1>3, <1>4

LEMMA ReadsSame ==
    ASSUME ReadsAreKept, UNCHANGED <<pc, task, ret, posted>>,
           \A T : Plain(T) => InFlight(T)' = InFlight(T)
    PROVE  RetIsFresh' /\ \A c \in Clients, i \in Nat : ReadKept(c, i)'
  <1>1. RetIsFresh'
    BY DEF ReadsAreKept, RetIsFresh
  <1>2. ASSUME NEW c \in Clients, NEW i \in Nat
        PROVE  ReadKept(c, i)'
    <2>1. InFlight(Reads(c, i))' = InFlight(Reads(c, i))
      BY ReadsArePlain
    <2>2. Placed(task[c])' <=> Placed(task[c])
      BY DEF Placed
    <2>3. ReadKept(c, i)
      BY DEF ReadsAreKept
    <2>4. QED
      BY <2>1, <2>2, <2>3 DEF ReadKept
  <1>3. QED
    BY <1>1, <1>2

(* The clients' own steps.                                                 *)
LEMMA ReadsOfClients ==
    ASSUME Located, Located', ReadsAreKept, NEW c \in Clients,
           (\E r \in Requests : Request(c, r)) \/ Submit(c) \/ ReadReturns(c)
    PROVE  RetIsFresh' /\ \A d \in Clients, i \in Nat : ReadKept(d, i)'
  <1>1. /\ pc \in [Clients -> {"idle", "post", "wait"}] /\ ret \in [Clients -> Nat]
        /\ task \in [Clients -> Task] /\ posted \in [Clients -> 0 .. MaxTasks]
        /\ MaxTasks \in Nat
        /\ pc[c] # "idle" => task[c] \in Submitted(c) /\ task[c].id = posted[c]
    BY WorkersTake DEF Located, ClientsAre
  <1>2. ASSUME NEW d \in Clients, NEW i \in Nat
        PROVE  ReadKept(d, i) /\ InFlight(Reads(d, i)) \in Nat
    BY BlocksAreNatural DEF ReadsAreKept
  (* Only c moves. *)
  <1>3. ASSUME NEW d \in Clients, NEW i \in Nat, pc'[d] = pc[d], task'[d] = task[d],
               ret'[d] = ret[d], posted'[d] = posted[d],
               InFlight(Reads(d, i))' = InFlight(Reads(d, i))
        PROVE  ReadKept(d, i)'
    <2>1. Placed(task[d])' <=> Placed(task[d])
      BY <1>3 DEF Placed
    <2>2. QED
      BY <1>2, <1>3, <2>1 DEF ReadKept
  <1>4. ASSUME NEW r \in Requests, Request(c, r)
        PROVE  RetIsFresh' /\ \A d \in Clients, i \in Nat : ReadKept(d, i)'
    <2>1. /\ pc[c] = "idle" /\ pc' = [pc EXCEPT ![c] = "post"] /\ ret' = [ret EXCEPT ![c] = 0]
          /\ posted' = [posted EXCEPT ![c] = @ + 1]
          /\ \A d \in Clients \ {c} : task'[d] = task[d]
      BY <1>1, <1>4 DEF Request
    <2>2. \A T : InFlight(T)' = InFlight(T)
      BY <1>4, RequestFlow
    <2>3. RetIsFresh'
      BY <1>1, <2>1 DEF ReadsAreKept, RetIsFresh
    <2>4. ASSUME NEW d \in Clients, NEW i \in Nat
          PROVE  ReadKept(d, i)'
      <3>1. CASE d = c
        <4>1. pc'[d] # "wait" /\ pc[d] # "wait"
          BY <1>1, <2>1, <3>1
        <4>2. InFlight(Reads(d, i))' = 0
          BY <1>2, <2>2, <4>1 DEF ReadKept
        <4>3. QED
          BY <4>1, <4>2 DEF ReadKept
      <3>2. CASE d # c
        <4>1. /\ pc'[d] = pc[d] /\ task'[d] = task[d] /\ ret'[d] = ret[d]
              /\ posted'[d] = posted[d]
          BY <1>1, <2>1, <3>2
        <4>2. QED
          BY <1>3, <2>2, <4>1
      <3>3. QED
        BY <3>1, <3>2
    <2>5. QED
      BY <2>3, <2>4
  <1>5. CASE Submit(c)
    <2>1. /\ pc[c] = "post" /\ UNCHANGED <<task, ret, posted>>
          /\ pc' = [pc EXCEPT ![c] = IF task[c].op = "write" THEN "idle" ELSE "wait"]
      BY <1>5 DEF Submit
    <2>2. \A T : InFlight(T)' = InFlight(T) + LenIn(task[c], T)
      BY <1>5, SubmitFlow
    <2>3. RetIsFresh'
      BY <1>1, <2>1 DEF ReadsAreKept, RetIsFresh
    <2>4. ret[c] = 0
      BY <2>1 DEF ReadsAreKept, RetIsFresh
    <2>5. /\ task[c] \in Task /\ task[c].queue_idx = c /\ task[c].id = posted[c]
          /\ task[c].op \in {"read", "write"} /\ task[c].len \in Nat
      BY <1>1, <2>1, TaskFacts DEF Submitted
    <2>6. ASSUME NEW d \in Clients, NEW i \in Nat
          PROVE  ReadKept(d, i)'
      <3>1. LenIn(task[c], Reads(d, i)) =
               IF task[c].op = "read" /\ d = c /\ i = posted[c] THEN task[c].len ELSE 0
        BY <2>5, ReadsArePlain DEF LenIn
      <3>2. CASE d # c
        <4>1. pc'[d] = pc[d]
          BY <1>1, <2>1, <3>2
        <4>2. InFlight(Reads(d, i))' = InFlight(Reads(d, i))
          BY <1>2, <2>2, <3>1, <3>2
        <4>3. QED
          BY <1>3, <2>1, <4>1, <4>2
      <3>3. CASE d = c
        <4>1. InFlight(Reads(d, i)) = 0
          BY <1>2, <2>1, <3>3 DEF ReadKept
        <4>2. InFlight(Reads(d, i))' =
                 IF task[c].op = "read" /\ i = posted[c] THEN task[c].len ELSE 0
          BY <2>2, <2>5, <3>1, <3>3, <4>1
        <4>3. pc'[c] = IF task[c].op = "write" THEN "idle" ELSE "wait"
          BY <1>1, <2>1
        <4>4. CASE task[c].op = "write"
          <5>1. pc'[d] # "wait" /\ InFlight(Reads(d, i))' = 0
            BY <3>3, <4>2, <4>3, <4>4
          <5>2. QED
            BY <5>1 DEF ReadKept
        <4>5. CASE task[c].op = "read"
          <5>1. pc'[d] = "wait"
            BY <3>3, <4>3, <4>5
          <5>2. CASE i = posted[c]
            <6>1. ret'[d] + InFlight(Reads(d, i))' = task'[d].len /\ task'[d].len \in Nat
              BY <2>1, <2>4, <2>5, <3>3, <4>2, <4>5, <5>2
            <6>2. QED
              BY <6>1, <5>1, <5>2, <2>1, <3>3 DEF ReadKept
          <5>3. CASE i # posted[c]
            <6>1. InFlight(Reads(d, i))' = 0 /\ i # posted'[d]
              BY <2>1, <3>3, <4>2, <5>3
            <6>2. QED
              BY <6>1 DEF ReadKept
          <5>4. QED
            BY <5>2, <5>3
        <4>6. QED
          BY <2>5, <4>4, <4>5
      <3>4. QED
        BY <3>2, <3>3
    <2>7. QED
      BY <2>3, <2>6
  <1>6. CASE ReadReturns(c)
    <2>1. /\ pc[c] = "wait" /\ ret[c] >= task[c].len /\ pc' = [pc EXCEPT ![c] = "idle"]
          /\ UNCHANGED <<task, ret, posted>>
      BY <1>6 DEF ReadReturns
    <2>2. \A T : InFlight(T)' = InFlight(T)
      BY <1>6, RequestFlow
    <2>3. RetIsFresh'
      BY <1>1, <2>1 DEF ReadsAreKept, RetIsFresh
    <2>4. ASSUME NEW d \in Clients, NEW i \in Nat
          PROVE  ReadKept(d, i)'
      <3>1. CASE d = c
        <4>1. pc'[d] # "wait"
          BY <1>1, <2>1, <3>1
        <4>2. InFlight(Reads(d, i)) = 0
          <5>1. CASE i # posted[d]
            BY <1>2, <5>1 DEF ReadKept
          <5>2. CASE i = posted[d]
            <6>1. ret[d] + InFlight(Reads(d, i)) <= task[d].len
              BY <1>2, <2>1, <3>1, <5>2 DEF ReadKept
            <6>2. ret[d] \in Nat /\ task[d].len \in Nat
              BY <1>1, TaskFacts
            <6>3. QED
              BY <1>2, <2>1, <3>1, <6>1, <6>2
          <5>3. QED
            BY <5>1, <5>2
        <4>3. QED
          BY <2>2, <4>1, <4>2 DEF ReadKept
      <3>2. CASE d # c
        <4>1. pc'[d] = pc[d]
          BY <1>1, <2>1, <3>2
        <4>2. QED
          BY <1>3, <2>1, <2>2, <4>1
      <3>3. QED
        BY <3>1, <3>2
    <2>5. QED
      BY <2>3, <2>4
  <1>7. QED
    BY <1>4, <1>5, <1>6

(* A task that do_schedule lets go is one that no device has.              *)
LEMMA LetGoIsUnplaced ==
    ASSUME NEW h \in Task, NEW t \in HandledTasks(h), t.type = "none"
    PROVE  ~ Placed(h)
  <1>1. CASE h.offset + h.len < Threshold
    <2>1. t = [h EXCEPT !.type = "nvm"]
      BY <1>1 DEF HandledTasks
    <2>2. t.type = "nvm"
      BY <2>1 DEF Task
    <2>3. QED
      BY <2>2
  <1>2. CASE ~ (h.offset + h.len < Threshold) /\ h.offset >= Threshold
    <2>1. t = [h EXCEPT !.type = "ssd", !.offset = @ - Threshold]
      BY <1>2 DEF HandledTasks
    <2>2. t.type = "ssd"
      BY <2>1 DEF Task
    <2>3. QED
      BY <2>2
  <1>3. QED
    BY <1>1, <1>2 DEF Placed

LEMMA ReadsOfPoll ==
    ASSUME Located, Located', ReadsAreKept, Poll
    PROVE  RetIsFresh' /\ \A c \in Clients, i \in Nat : ReadKept(c, i)'
  <1>1. UNCHANGED <<pc, task, ret, posted>>
    BY DEF Poll, client
  <1>2. CASE \A T : InFlight(T)' = InFlight(T)
    BY <1>1, <1>2, ReadsSame
  <1>3. ASSUME NEW h, NEW t, PollsTask(h, t),
               \A T : Plain(T) =>
                  /\ InFlight(T)' = InFlight(T) - IF t.type = "none" THEN LenIn(h, T) ELSE 0
                  /\ LenIn(h, T) <= InFlight(T)
        PROVE  RetIsFresh' /\ \A c \in Clients, i \in Nat : ReadKept(c, i)'
    <2>1. /\ idx \in Clients /\ submitQueue[idx] \in Seq(Task) /\ submitQueue[idx] # <<>>
          /\ h = submitQueue[idx][1] /\ 1 \in 1 .. Len(submitQueue[idx])
          /\ h \in Task /\ h.queue_idx = idx /\ t \in HandledTasks(h)
      <3>1. /\ idx \in Clients /\ submitQueue[idx] \in Seq(Task) /\ submitQueue[idx] # <<>>
            /\ h = Head(submitQueue[idx])
            /\ h \in Task /\ h.queue_idx = idx /\ t \in HandledTasks(h)
        BY <1>3 DEF PollsTask, Located, PollsAre, SubmitsAre, Submitted
      <3>2. QED
        BY <3>1
    <2>2. h.id = posted[idx] => h = task[idx]
      BY <2>1 DEF ReadsAreKept, QueuedIsTask
    <2>3. t.type = "none" => ~ Placed(h)
      BY <2>1, LetGoIsUnplaced
    <2>4. RetIsFresh'
      BY <1>1 DEF ReadsAreKept, RetIsFresh
    <2>5. ASSUME NEW c \in Clients, NEW i \in Nat
          PROVE  ReadKept(c, i)'
      <3>1. /\ InFlight(Reads(c, i))' =
                  InFlight(Reads(c, i)) - IF t.type = "none" THEN LenIn(h, Reads(c, i)) ELSE 0
            /\ LenIn(h, Reads(c, i)) <= InFlight(Reads(c, i))
        BY <1>3, ReadsArePlain
      <3>2. PICK f \in Nat : f = InFlight(Reads(c, i))
        BY BlocksAreNatural
      <3>3. PICK n \in Nat : n = LenIn(h, Reads(c, i))
        BY <2>1, BlocksInOne
      <3>4. PICK g \in Nat : g = InFlight(Reads(c, i))' /\ g <= f /\ (t.type # "none" \/ n = 0 => g = f)
        <4>1. InFlight(Reads(c, i))' = f - IF t.type = "none" THEN n ELSE 0
          BY <3>1, <3>2, <3>3
        <4>2. n <= f
          BY <3>1, <3>2, <3>3
        <4>3. QED
          BY <4>1, <4>2
      <3>5. ReadKept(c, i)
        BY DEF ReadsAreKept
      <3>6. Placed(task[c])' <=> Placed(task[c])
        BY <1>1 DEF Placed
      <3>7. CASE pc[c] = "wait" /\ i = posted[c]
        <4>1. PICK r \in Nat, l \in Nat : r = ret[c] /\ l = task[c].len
          BY TaskFacts DEF Located, ClientsAre
        <4>2. r + f <= l /\ (Placed(task[c]) => r + f = l)
          BY <3>2, <3>5, <3>7, <4>1 DEF ReadKept
        <4>3. Placed(task[c]) => g = f
          <5>1. CASE h \in Reads(c, i)
            <6>1. h = task[c]
              BY <2>1, <2>2, <3>7, <5>1, ReadsArePlain
            <6>2. QED
              BY <2>3, <3>4, <6>1
          <5>2. CASE h \notin Reads(c, i)
            BY <3>3, <3>4, <5>2 DEF LenIn
          <5>3. QED
            BY <5>1, <5>2
        <4>4. r + g <= l /\ (Placed(task[c]) => r + g = l)
          BY <3>4, <4>2, <4>3
        <4>5. QED
          BY <1>1, <3>4, <3>6, <3>7, <4>1, <4>4 DEF ReadKept
      <3>8. CASE ~ (pc[c] = "wait" /\ i = posted[c])
        <4>1. f = 0
          BY <3>2, <3>5, <3>8 DEF ReadKept
        <4>2. g = 0
          BY <3>4, <4>1
        <4>3. QED
          BY <1>1, <3>4, <3>8, <4>2 DEF ReadKept
      <3>9. QED
        BY <3>7, <3>8
    <2>6. QED
      BY <2>4, <2>5
  <1>4. QED
    BY <1>2, <1>3, PollFlow

LEMMA ReadsStep ==
    ASSUME Located, Located', ReadsAreKept, [Next]_vars
    PROVE  ReadsAreKept'
  <1>1. QueuedIsTask'
    BY QueuedIsTaskStep DEF ReadsAreKept
  <1>2. SUFFICES RetIsFresh' /\ \A c \in Clients, i \in Nat : ReadKept(c, i)'
    BY <1>1 DEF ReadsAreKept
  <1>3. CASE UNCHANGED vars
    <2>1. UNCHANGED <<submitQueue, toPost, nvmQueue, bufferQueue, hand, ssdQueue, ssdTask,
                      pc, task, ret, posted>>
      BY <1>3 DEF vars, client, scheduler, nvm, ssd
    <2>2. \A T : InFlight(T)' = InFlight(T)
      BY <2>1 DEF InFlight, BlocksAt, InHand
    <2>3. QED
      BY <2>1, <2>2, ReadsSame
  <1>4. CASE PostToNvm \/ PostToBuffer
    <2>1. \A T : InFlight(T)' = InFlight(T)
      BY <1>4, PostFlow
    <2>2. UNCHANGED <<pc, task, ret, posted>>
      BY <1>4 DEF PostToNvm, PostToBuffer, client
    <2>3. QED
      BY <2>1, <2>2, ReadsSame
  <1>5. ASSUME NEW w \in Workers,
               Take(w) \/ RedirectLargeWrite(w) \/ RedirectReadMiss(w) \/ TakeSsd(w)
        PROVE  RetIsFresh' /\ \A c \in Clients, i \in Nat : ReadKept(c, i)'
    <2>1. \A T : Plain(T) => InFlight(T)' = InFlight(T)
      BY <1>5, TakeFlow, LargeWriteFlow, MissFlow, TakeSsdFlow
    <2>2. UNCHANGED <<pc, task, ret, posted>>
      BY <1>5 DEF Take, RedirectLargeWrite, RedirectReadMiss, TakeSsd, client
    <2>3. QED
      BY <2>1, <2>2, ReadsSame
  <1>6. ASSUME NEW w \in Workers, ServeNvm(w) \/ RedirectSmallWrite(w)
        PROVE  RetIsFresh' /\ \A c \in Clients, i \in Nat : ReadKept(c, i)'
    <2>1. PICK t \in Task : t = Head(hand[w]).task /\ Serves(t, t.len)
      BY <1>6, ServeNvmFlow
    <2>2. t.len \in Nat
      BY TaskFacts
    <2>3. UNCHANGED <<pc, task, posted>>
      BY <1>6 DEF ServeNvm, RedirectSmallWrite, client
    <2>4. \/ t.op = "read" /\ AddToRet(t, t.len)
          \/ t.op = "write" /\ UNCHANGED ret
      BY <1>6, <2>1 DEF ServeNvm, RedirectSmallWrite, client
    <2>5. QED
      BY <2>1, <2>2, <2>3, <2>4, ReadServed
  <1>7. ASSUME NEW w \in Workers, RedirectReadDone(w)
        PROVE  RetIsFresh' /\ \A c \in Clients, i \in Nat : ReadKept(c, i)'
    <2>1. PICK t \in Task, n \in Nat :
             t = Head(hand[w]).task /\ n = Head(hand[w]).hits /\ Serves(t, n)
      BY <1>7, ReadDoneFlow
    <2>2. UNCHANGED <<pc, task, posted>> /\ t.op = "read" /\ AddToRet(t, n)
      BY <1>7, <2>1 DEF RedirectReadDone
    <2>3. QED
      BY <2>1, <2>2, ReadServed
  <1>8. ASSUME NEW w \in Workers, ServeSsd(w)
        PROVE  RetIsFresh' /\ \A c \in Clients, i \in Nat : ReadKept(c, i)'
    <2>1. PICK t \in Task : t = Head(ssdTask[w]) /\ Serves(t, t.len)
      BY <1>8, ServeSsdFlow
    <2>2. t.len \in Nat
      BY TaskFacts
    <2>3. UNCHANGED <<pc, task, posted>>
      BY <1>8 DEF ServeSsd
    <2>4. \/ t.op = "read" /\ AddToRet(t, t.len)
          \/ t.op = "write" /\ UNCHANGED ret
      BY <1>8, <2>1 DEF ServeSsd
    <2>5. QED
      BY <2>1, <2>2, <2>3, <2>4, ReadServed
  <1>9. ASSUME NEW c \in Clients,
               (\E r \in Requests : Request(c, r)) \/ Submit(c) \/ ReadReturns(c)
        PROVE  RetIsFresh' /\ \A d \in Clients, i \in Nat : ReadKept(d, i)'
    BY <1>9, ReadsOfClients
  <1>10. CASE Poll
    BY <1>10, ReadsOfPoll
  <1>11. QED
    BY <1>3, <1>4, <1>5, <1>6, <1>7, <1>8, <1>9, <1>10
       DEF Next, SchedulerStep, NvmWorkerStep, SsdWorkerStep

(* ReadIsWhole: what a read of a client lacks is in flight as long as the  *)
(* client waits for it, and nothing of a read is in flight afterwards, so  *)
(* that no worker adds to a counter mixdk_read has freed, in every state.  *)
THEOREM ReadIsWholeHolds == Spec => []ReadIsWhole
  <1>1. Init => ReadsAreKept
    <2>1. SUFFICES ASSUME Init PROVE ReadsAreKept
      OBVIOUS
    <2>2. \A c \in Clients : pc[c] = "idle" /\ submitQueue[c] = <<>>
      BY <2>1 DEF Init
    <2>3. QueuedIsTask /\ RetIsFresh
      BY <2>2 DEF QueuedIsTask, RetIsFresh
    <2>4. \A T : InFlight(T) = 0
      BY <2>1, NothingInFlight
    <2>5. \A c \in Clients, i \in Nat : ReadKept(c, i)
      BY <2>2, <2>4 DEF ReadKept
    <2>6. QED
      BY <2>3, <2>5 DEF ReadsAreKept
  <1>2. Located /\ Located' /\ ReadsAreKept /\ [Next]_vars => ReadsAreKept'
    BY ReadsStep
  <1>3. ReadsAreKept => ReadIsWhole
    <2>1. \A i \in 1 .. MaxTasks : i \in Nat
      OBVIOUS
    <2>2. QED
      BY <2>1 DEF ReadsAreKept, ReadKept, ReadIsWhole
  <1>4. QED
    BY <1>1, <1>2, <1>3, LocatedHolds, PTL DEF Spec
=============================================================================
