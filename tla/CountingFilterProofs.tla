------------------------ MODULE CountingFilterProofs ------------------------
(***************************************************************************)
(* Proofs about the counting Bloom filter, for every number of functions   *)
(* and counters, every set of keys and every checksum: a counter never     *)
(* disturbs the one it shares a byte with, and so counts the keys that use *)
(* it until it is full.                                                    *)
(***************************************************************************)
EXTENDS CountingFilter, SumProofs, FiniteSetTheorems

Bytes == [0 .. NumBytes - 1 -> 0 .. Half * Half - 1]

-----------------------------------------------------------------------------
(* Two counters in a byte.                                                 *)

LEMMA CellFacts ==
    /\ NFuncs \in Nat /\ CountsPerFunc \in Nat /\ NFuncs > 0 /\ CountsPerFunc > 0
    /\ NFuncs * CountsPerFunc \in Nat
    /\ \A c \in Cells : c \in Nat /\ c \div 2 \in 0 .. NumBytes - 1 /\ c % 2 \in {0, 1}
                        /\ c = 2 * (c \div 2) + (c % 2)
  <1>1. NFuncs \in Nat /\ CountsPerFunc \in Nat /\ NFuncs > 0 /\ CountsPerFunc > 0
    BY FilterConstants
  <1>2. PICK n \in Nat : n = NFuncs * CountsPerFunc
    BY <1>1
  <1>3. ASSUME NEW c \in 0 .. n - 1
        PROVE  c \in Nat /\ c \div 2 \in 0 .. (n + 1) \div 2 - 1 /\ c % 2 \in {0, 1}
               /\ c = 2 * (c \div 2) + (c % 2)
    OBVIOUS
  <1>4. QED
    BY <1>1, <1>2, <1>3 DEF Cells, NumBytes

LEMMA ByteFacts ==
    ASSUME NEW a \in Bytes, NEW c \in Cells
    PROVE  /\ c \div 2 \in DOMAIN a /\ a[c \div 2] \in 0 .. 255
           /\ \A m \in 0 .. 255 : [a EXCEPT ![c \div 2] = m] \in Bytes
  <1>1. 16 * 16 - 1 = 255
    OBVIOUS
  <1>2. Bytes = [0 .. NumBytes - 1 -> 0 .. 255]
    BY <1>1 DEF Bytes, Half
  <1>3. c \div 2 \in 0 .. NumBytes - 1
    BY CellFacts
  <1>4. a \in [0 .. NumBytes - 1 -> 0 .. 255]
    BY <1>2
  <1>5. \A m \in 0 .. 255 : [a EXCEPT ![c \div 2] = m] \in [0 .. NumBytes - 1 -> 0 .. 255]
    BY <1>3, <1>4
  <1>6. QED
    BY <1>2, <1>3, <1>4, <1>5

LEMMA CounterRange ==
    ASSUME NEW a \in Bytes, NEW c \in Cells
    PROVE  Counter(a, c) \in 0 .. 15
  <1>1. PICK n \in 0 .. 255 : n = a[c \div 2]
    BY ByteFacts
  <1>2. n % 16 \in 0 .. 15 /\ n \div 16 \in 0 .. 15
    OBVIOUS
  <1>3. QED
    BY <1>1, <1>2 DEF Counter, Half

(* In b the byte of c is m, of which only the half of c is new.            *)
OnlyHalfIsNew(a, b, c, m) ==
    /\ b = [a EXCEPT ![c \div 2] = m]
    /\ c % 2 = 1 => m \div 16 = a[c \div 2] \div 16
    /\ c % 2 = 0 => m % 16 = a[c \div 2] % 16

HalfOf(m, c) == IF c % 2 = 1 THEN m % 16 ELSE m \div 16

LEMMA NewByte ==
    ASSUME NEW a \in Bytes, NEW c \in Cells, NEW m \in 0 .. 255, NEW b \in Bytes,
           OnlyHalfIsNew(a, b, c, m)
    PROVE  \A d \in Cells : Counter(b, d) =
              IF d = c THEN HalfOf(m, c) ELSE Counter(a, d)
  <1> SUFFICES ASSUME NEW d \in Cells
               PROVE  Counter(b, d) =
                  IF d = c THEN HalfOf(m, c) ELSE Counter(a, d)
    OBVIOUS
  <1>0. /\ b = [a EXCEPT ![c \div 2] = m]
        /\ c % 2 = 1 => m \div 16 = a[c \div 2] \div 16
        /\ c % 2 = 0 => m % 16 = a[c \div 2] % 16
    BY DEF OnlyHalfIsNew
  <1>1. c \div 2 \in DOMAIN a /\ d \div 2 \in DOMAIN a /\ c % 2 \in {0, 1} /\ d % 2 \in {0, 1}
    BY CellFacts DEF Bytes
  <1>2. CASE d = c
    <2>1. b[d \div 2] = m
      BY <1>0, <1>1, <1>2
    <2>2. QED
      BY <1>1, <1>2, <2>1 DEF Counter, Half, HalfOf
  <1>3. CASE d # c /\ d \div 2 # c \div 2
    <2>1. b[d \div 2] = a[d \div 2]
      BY <1>0, <1>1, <1>3
    <2>2. QED
      BY <1>3, <2>1 DEF Counter
  <1>4. CASE d # c /\ d \div 2 = c \div 2
    <2>1. b[d \div 2] = m
      BY <1>0, <1>1, <1>4
    <2>2. d % 2 # c % 2
      BY <1>4, CellFacts
    <2>3. CASE d % 2 = 0
      <3>1. c % 2 = 1 /\ d % 2 = 0
        BY <1>1, <2>2, <2>3
      <3>2. m \div 16 = a[d \div 2] \div 16
        BY <1>0, <1>4, <3>1
      <3>3. Counter(b, d) = m \div 16 /\ Counter(a, d) = a[d \div 2] \div 16
        BY <2>1, <3>1 DEF Counter, Half
      <3>4. QED
        BY <1>4, <3>2, <3>3
    <2>4. CASE d % 2 = 1
      <3>1. c % 2 = 0 /\ d % 2 = 1
        BY <1>1, <2>2, <2>4
      <3>2. m % 16 = a[d \div 2] % 16
        BY <1>0, <1>4, <3>1
      <3>3. Counter(b, d) = m % 16 /\ Counter(a, d) = a[d \div 2] % 16
        BY <2>1, <3>1 DEF Counter, Half
      <3>4. QED
        BY <1>4, <3>2, <3>3
    <2>5. QED
      BY <1>1, <2>3, <2>4
  <1>5. QED
    BY <1>2, <1>3, <1>4

LEMMA IncrementOne ==
    ASSUME NEW a \in Bytes, NEW c \in Cells
    PROVE  /\ Increment(a, c) \in Bytes
           /\ \A d \in Cells : Counter(Increment(a, c), d) =
                 IF d = c /\ Counter(a, c) # 15 THEN Counter(a, c) + 1 ELSE Counter(a, d)
  <1>1. CASE Counter(a, c) = 15
    BY <1>1 DEF Increment, Half
  <1>2. CASE Counter(a, c) # 15
    <2>1. PICK n \in 0 .. 255 : n = a[c \div 2]
      BY ByteFacts
    <2>2. c % 2 \in {0, 1}
      BY CellFacts
    <2>3. PICK m \in 0 .. 255 :
             /\ m = n + Unit(c)
             /\ c % 2 = 1 => m \div 16 = n \div 16 /\ m % 16 = (n % 16) + 1
             /\ c % 2 = 0 => m % 16 = n % 16 /\ m \div 16 = (n \div 16) + 1
      <3>1. CASE c % 2 = 1
        <4>1. n % 16 # 15
          <5>1. Counter(a, c) = n % 16
            BY <2>1, <3>1 DEF Counter, Half
          <5>2. QED
            BY <1>2, <5>1
        <4>2. n + 1 \in 0 .. 255 /\ (n + 1) \div 16 = n \div 16 /\ (n + 1) % 16 = (n % 16) + 1
          BY <4>1
        <4>3. QED
          BY <3>1, <4>2 DEF Unit
      <3>2. CASE c % 2 = 0
        <4>1. n \div 16 # 15
          BY <1>2, <2>1, <3>2 DEF Counter, Half
        <4>2. n + 16 \in 0 .. 255 /\ (n + 16) \div 16 = (n \div 16) + 1 /\ (n + 16) % 16 = n % 16
          BY <4>1
        <4>3. QED
          BY <3>2, <4>2 DEF Unit, Half
      <3>3. QED
        BY <2>2, <3>1, <3>2
    <2>4. Increment(a, c) = [a EXCEPT ![c \div 2] = m]
      BY <1>2, <2>1, <2>3 DEF Increment, Half
    <2>5. Increment(a, c) \in Bytes
      BY <2>4, ByteFacts
    <2>6. \A d \in Cells : Counter(Increment(a, c), d) =
             IF d = c THEN HalfOf(m, c) ELSE Counter(a, d)
      <3>1. PICK b \in Bytes : b = Increment(a, c) /\ b = [a EXCEPT ![c \div 2] = m]
        BY <2>4, <2>5
      <3>2. OnlyHalfIsNew(a, b, c, m)
        BY <2>1, <2>3, <3>1 DEF OnlyHalfIsNew
      <3>3. \A d \in Cells : Counter(b, d) =
               IF d = c THEN HalfOf(m, c) ELSE Counter(a, d)
        BY <3>1, <3>2, NewByte
      <3>4. QED
        BY <3>1, <3>3
    <2>7. Counter(a, c) = IF c % 2 = 1 THEN n % 16 ELSE n \div 16
      BY <2>1, <2>2 DEF Counter, Half
    <2>8. QED
      BY <1>2, <2>2, <2>3, <2>5, <2>6, <2>7 DEF HalfOf
  <1>3. QED
    BY <1>1, <1>2

LEMMA DecrementOne ==
    ASSUME NEW a \in Bytes, NEW c \in Cells
    PROVE  /\ Decrement(a, c) \in Bytes
           /\ \A d \in Cells : Counter(Decrement(a, c), d) =
                 IF d = c /\ Counter(a, c) # 0 THEN Counter(a, c) - 1 ELSE Counter(a, d)
  <1>1. CASE Counter(a, c) = 0
    BY <1>1 DEF Decrement
  <1>2. CASE Counter(a, c) # 0
    <2>1. PICK n \in 0 .. 255 : n = a[c \div 2]
      BY ByteFacts
    <2>2. c % 2 \in {0, 1}
      BY CellFacts
    <2>3. PICK m \in 0 .. 255 :
             /\ m = n - Unit(c)
             /\ c % 2 = 1 => m \div 16 = n \div 16 /\ m % 16 = (n % 16) - 1
             /\ c % 2 = 0 => m % 16 = n % 16 /\ m \div 16 = (n \div 16) - 1
      <3>1. CASE c % 2 = 1
        <4>1. n % 16 # 0
          <5>1. Counter(a, c) = n % 16
            BY <2>1, <3>1 DEF Counter, Half
          <5>2. QED
            BY <1>2, <5>1
        <4>2. n - 1 \in 0 .. 255 /\ (n - 1) \div 16 = n \div 16 /\ (n - 1) % 16 = (n % 16) - 1
          BY <4>1
        <4>3. QED
          BY <3>1, <4>2 DEF Unit
      <3>2. CASE c % 2 = 0
        <4>1. n \div 16 # 0
          BY <1>2, <2>1, <3>2 DEF Counter, Half
        <4>2. n - 16 \in 0 .. 255 /\ (n - 16) \div 16 = (n \div 16) - 1 /\ (n - 16) % 16 = n % 16
          BY <4>1
        <4>3. QED
          BY <3>2, <4>2 DEF Unit, Half
      <3>3. QED
        BY <2>2, <3>1, <3>2
    <2>4. Decrement(a, c) = [a EXCEPT ![c \div 2] = m]
      BY <1>2, <2>1, <2>3 DEF Decrement
    <2>5. Decrement(a, c) \in Bytes
      BY <2>4, ByteFacts
    <2>6. \A d \in Cells : Counter(Decrement(a, c), d) =
             IF d = c THEN HalfOf(m, c) ELSE Counter(a, d)
      <3>1. PICK b \in Bytes : b = Decrement(a, c) /\ b = [a EXCEPT ![c \div 2] = m]
        BY <2>4, <2>5
      <3>2. OnlyHalfIsNew(a, b, c, m)
        BY <2>1, <2>3, <3>1 DEF OnlyHalfIsNew
      <3>3. \A d \in Cells : Counter(b, d) =
               IF d = c THEN HalfOf(m, c) ELSE Counter(a, d)
        BY <3>1, <3>2, NewByte
      <3>4. QED
        BY <3>1, <3>3
    <2>7. Counter(a, c) = IF c % 2 = 1 THEN n % 16 ELSE n \div 16
      BY <2>1, <2>2 DEF Counter, Half
    <2>8. QED
      BY <1>2, <2>2, <2>3, <2>5, <2>6, <2>7 DEF HalfOf
  <1>3. QED
    BY <1>1, <1>2

-----------------------------------------------------------------------------
(* The counters of a key.                                                  *)

LEMMA IndexFacts ==
    ASSUME NEW k \in Keys
    PROVE  /\ \A i \in Funcs : Index(k, i) \in Cells
           /\ \A i, j \in Funcs : Index(k, i) = Index(k, j) => i = j
           /\ CellsOf(k) \subseteq Cells
  <1>1. ASSUME NEW i \in Funcs
        PROVE  /\ i \in Nat /\ i < NFuncs
               /\ \E h \in 0 .. CountsPerFunc - 1 : Index(k, i) = h + i * CountsPerFunc
    <2>1. i \in Nat /\ i < NFuncs
      BY CellFacts DEF Funcs
    <2>2. PICK p \in Nat, q \in Nat, w \in Nat : p = H1[k] /\ q = H2[k] /\ w = Word /\ w > 0
      BY FilterConstants
    <2>3. PICK s \in Nat : s = i * q
      BY <2>1
    <2>4. PICK r \in Nat : r = (p + s) % w
      BY <2>2, <2>3
    <2>5. r % CountsPerFunc \in 0 .. CountsPerFunc - 1
      BY CellFacts
    <2>6. Index(k, i) = (r % CountsPerFunc) + i * CountsPerFunc
      BY <2>2, <2>3, <2>4 DEF Index
    <2>7. QED
      BY <2>1, <2>5, <2>6
  <1>2. ASSUME NEW i \in Nat, NEW j \in Nat, i < j
        PROVE  /\ i * CountsPerFunc \in Nat /\ j * CountsPerFunc \in Nat
               /\ i * CountsPerFunc + CountsPerFunc <= j * CountsPerFunc
    <2>1. PICK d \in Nat : j = i + 1 + d
      <3>1. j - i - 1 \in Nat /\ j = i + 1 + (j - i - 1)
        BY <1>2
      <3>2. QED
        BY <3>1
    <2>2. PICK p \in Nat, q \in Nat : p = i * CountsPerFunc /\ q = d * CountsPerFunc
      BY CellFacts
    <2>3. j * CountsPerFunc = p + CountsPerFunc + q
      BY <2>1, <2>2, CellFacts
    <2>4. QED
      BY <2>2, <2>3, CellFacts
  <1>3. ASSUME NEW i \in Funcs
        PROVE  Index(k, i) \in Cells
    <2>1. PICK h \in 0 .. CountsPerFunc - 1 : Index(k, i) = h + i * CountsPerFunc
      BY <1>1
    <2>2. i \in Nat /\ NFuncs \in Nat /\ i < NFuncs
      BY <1>1, CellFacts
    <2>3. i * CountsPerFunc \in Nat /\ i * CountsPerFunc + CountsPerFunc <= NFuncs * CountsPerFunc
      BY <1>2, <2>2
    <2>4. PICK p \in Nat, n \in Nat : p = i * CountsPerFunc /\ n = NFuncs * CountsPerFunc
      BY <2>3, CellFacts
    <2>5. h + p \in 0 .. n - 1
      BY <2>3, <2>4, CellFacts
    <2>6. QED
      BY <2>1, <2>4, <2>5 DEF Cells
  <1>4. ASSUME NEW i \in Funcs, NEW j \in Funcs, i < j
        PROVE  Index(k, i) # Index(k, j)
    <2>1. PICK h \in 0 .. CountsPerFunc - 1 : Index(k, i) = h + i * CountsPerFunc
      BY <1>1
    <2>2. PICK g \in 0 .. CountsPerFunc - 1 : Index(k, j) = g + j * CountsPerFunc
      BY <1>1
    <2>3. /\ i * CountsPerFunc \in Nat /\ j * CountsPerFunc \in Nat
          /\ i * CountsPerFunc + CountsPerFunc <= j * CountsPerFunc
      BY <1>1, <1>2, <1>4
    <2>4. QED
      BY <2>1, <2>2, <2>3, CellFacts
  <1>5. ASSUME NEW i \in Funcs, NEW j \in Funcs, Index(k, i) = Index(k, j)
        PROVE  i = j
    <2>1. i \in Nat /\ j \in Nat
      BY <1>1
    <2>2. QED
      BY <1>4, <1>5, <2>1
  <1>6. QED
    BY <1>3, <1>5 DEF CellsOf
-----------------------------------------------------------------------------
(* All counters of a key, in turn.                                         *)

Changed(up, a, c) == IF up THEN Increment(a, c) ELSE Decrement(a, c)
Moved(up, n) == IF up THEN IF n = 15 THEN n ELSE n + 1
                     ELSE IF n = 0 THEN n ELSE n - 1

(* f holds the arrays after each of the first n functions.                 *)
Chain(up, f, n, k) ==
    f = [i \in 0 .. n |-> IF i = 0 THEN array ELSE Changed(up, f[i - 1], Index(k, i - 1))]

LEMMA ChainExists ==
    ASSUME NEW up, NEW k, NEW n \in Nat
    PROVE  \E f : Chain(up, f, n, k)
  <1> DEFINE S == {m \in Nat : \E f : Chain(up, f, m, k)}
  <1>1. 0 \in S
    <2> DEFINE f == [i \in 0 .. 0 |-> array]
    <2>1. f = [i \in 0 .. 0 |-> IF i = 0 THEN array ELSE Changed(up, f[i - 1], Index(k, i - 1))]
      OBVIOUS
    <2>2. Chain(up, f, 0, k)
      BY <2>1 DEF Chain
    <2>3. QED
      BY <2>2
  <1>2. ASSUME NEW m \in S
        PROVE  m + 1 \in S
    <2>1. PICK f : Chain(up, f, m, k)
      OBVIOUS
    <2> DEFINE g == [i \in 0 .. m + 1 |-> IF i <= m THEN f[i] ELSE Changed(up, f[m], Index(k, m))]
    <2>2. ASSUME NEW i \in 0 .. m + 1
          PROVE  g[i] = IF i = 0 THEN array ELSE Changed(up, g[i - 1], Index(k, i - 1))
      <3>1. CASE i = 0
        BY <2>1, <3>1 DEF Chain
      <3>2. CASE i # 0 /\ i <= m
        <4>1. i - 1 \in 0 .. m /\ i - 1 \in 0 .. m + 1 /\ i \in 0 .. m
          BY <3>2
        <4>2. f[i] = Changed(up, f[i - 1], Index(k, i - 1))
          BY <2>1, <3>2, <4>1 DEF Chain
        <4>3. QED
          BY <3>2, <4>1, <4>2
      <3>3. CASE i = m + 1
        <4>1. i - 1 = m /\ m \in 0 .. m + 1 /\ ~ (i <= m) /\ i # 0
          BY <3>3
        <4>2. QED
          BY <4>1
      <3>4. QED
        BY <3>1, <3>2, <3>3
    <2>3. g = [i \in 0 .. m + 1 |->
                  IF i = 0 THEN array ELSE Changed(up, g[i - 1], Index(k, i - 1))]
      BY <2>2
    <2>4. Chain(up, g, m + 1, k)
      BY <2>3 DEF Chain
    <2>5. QED
      BY <2>4
  <1>3. S = Nat
    <2> HIDE DEF S
    <2>1. QED
      BY <1>1, <1>2, Induction DEF S
  <1>4. QED
    BY <1>3

LEMMA ChangedOne ==
    ASSUME NEW up \in BOOLEAN, NEW a \in Bytes, NEW c \in Cells
    PROVE  /\ Changed(up, a, c) \in Bytes
           /\ \A d \in Cells : Counter(Changed(up, a, c), d) =
                 IF d = c THEN Moved(up, Counter(a, c)) ELSE Counter(a, d)
  <1>1. CASE up
    BY <1>1, IncrementOne DEF Changed, Moved
  <1>2. CASE ~ up
    BY <1>2, DecrementOne DEF Changed, Moved
  <1>3. QED
    BY <1>1, <1>2

(* Every counter of the first functions has changed once, no other has.    *)
LEMMA ChainChanges ==
    ASSUME NEW up \in BOOLEAN, NEW k \in Keys, NEW f, Chain(up, f, NFuncs, k), array \in Bytes
    PROVE  /\ f[NFuncs] \in Bytes
           /\ \A c \in Cells : Counter(f[NFuncs], c) =
                 IF c \in CellsOf(k) THEN Moved(up, Counter(array, c)) ELSE Counter(array, c)
  <1> DEFINE Before(i, c) == \E j \in Funcs : j < i /\ c = Index(k, j)
             Good(i) == /\ f[i] \in Bytes
                        /\ \A c \in Cells : Counter(f[i], c) =
                              IF Before(i, c) THEN Moved(up, Counter(array, c))
                                              ELSE Counter(array, c)
             S == {i \in Nat : i <= NFuncs => Good(i)}
  <1>1. 0 \in S
    <2>1. f[0] = array
      BY CellFacts DEF Chain
    <2>2. \A c : ~ Before(0, c)
      BY CellFacts DEF Funcs
    <2>3. QED
      BY <2>1, <2>2
  <1>2. ASSUME NEW i \in S
        PROVE  i + 1 \in S
    <2>1. CASE i + 1 <= NFuncs
      <3>1. i \in Nat /\ i \in Funcs /\ i + 1 \in 0 .. NFuncs /\ (i + 1) - 1 = i /\ i + 1 # 0
            /\ i <= NFuncs
        BY <2>1, CellFacts DEF Funcs
      <3>2. f[i + 1] = Changed(up, f[i], Index(k, i))
        BY <3>1 DEF Chain
      <3>3. PICK a \in Bytes : a = f[i]
        BY <3>1
      <3>4. PICK x \in Cells : x = Index(k, i)
        BY <3>1, IndexFacts
      <3>5. /\ f[i + 1] \in Bytes
            /\ \A c \in Cells : Counter(f[i + 1], c) =
                  IF c = x THEN Moved(up, Counter(a, x)) ELSE Counter(a, c)
        BY <3>2, <3>3, <3>4, ChangedOne
      <3>6. \A c \in Cells : Counter(a, c) =
               IF Before(i, c) THEN Moved(up, Counter(array, c)) ELSE Counter(array, c)
        BY <3>1, <3>3
      <3>7. ~ Before(i, x)
        BY <3>1, <3>4, IndexFacts DEF Funcs
      <3>8. \A c \in Cells : Before(i + 1, c) <=> Before(i, c) \/ c = x
        <4>1. \A j \in Funcs : j < i + 1 <=> j < i \/ j = i
          BY <3>1, CellFacts DEF Funcs
        <4>2. QED
          BY <3>1, <3>4, <4>1
      <3>9. Good(i + 1)
        BY <3>5, <3>6, <3>7, <3>8
      <3>10. QED
        BY <3>1, <3>9
    <2>2. CASE ~ (i + 1 <= NFuncs)
      BY <2>2
    <2>3. QED
      BY <2>1, <2>2
  <1>3. S = Nat
    <2> HIDE DEF S
    <2>1. QED
      BY <1>1, <1>2, Induction DEF S
  <1>4. Good(NFuncs)
    BY <1>3, CellFacts
  <1>5. \A c : Before(NFuncs, c) <=> c \in CellsOf(k)
    BY CellFacts DEF Funcs, CellsOf
  <1>6. QED
    BY <1>4, <1>5

LEMMA AddChanges ==
    ASSUME NEW k \in Keys, array \in Bytes
    PROVE  /\ Incremented(k) \in Bytes
           /\ \A c \in Cells : Counter(Incremented(k), c) =
                 IF c \in CellsOf(k) THEN Moved(TRUE, Counter(array, c)) ELSE Counter(array, c)
  <1> DEFINE f == CHOOSE f : f = [i \in 0 .. NFuncs |->
                                    IF i = 0 THEN array ELSE Increment(f[i - 1], Index(k, i - 1))]
  <1>1. \E g : Chain(TRUE, g, NFuncs, k)
    BY ChainExists, CellFacts
  <1>2. f = [i \in 0 .. NFuncs |-> IF i = 0 THEN array ELSE Increment(f[i - 1], Index(k, i - 1))]
    BY <1>1 DEF Chain, Changed
  <1>3. Incremented(k) = f[NFuncs]
    BY DEF Incremented
  <1>4. PICK g : g = f
    OBVIOUS
  <1>5. Chain(TRUE, g, NFuncs, k)
    BY <1>2, <1>4 DEF Chain, Changed
  <1>6. Incremented(k) = g[NFuncs]
    BY <1>3, <1>4
  <1> HIDE DEF f
  <1>7. PICK b : b = g[NFuncs]
    OBVIOUS
  <1>8. /\ b \in Bytes
        /\ \A c \in Cells : Counter(b, c) =
              IF c \in CellsOf(k) THEN Moved(TRUE, Counter(array, c)) ELSE Counter(array, c)
    <2>1. TRUE \in BOOLEAN
      OBVIOUS
    <2>2. g[NFuncs] \in Bytes
          /\ \A c \in Cells : Counter(g[NFuncs], c) =
              IF c \in CellsOf(k) THEN Moved(TRUE, Counter(array, c)) ELSE Counter(array, c)
      BY <1>5, <2>1, ChainChanges
    <2>3. QED
      BY <1>7, <2>2
  <1>9. QED
    BY <1>6, <1>7, <1>8
LEMMA RemoveChanges ==
    ASSUME NEW k \in Keys, array \in Bytes
    PROVE  /\ Decremented(k) \in Bytes
           /\ \A c \in Cells : Counter(Decremented(k), c) =
                 IF c \in CellsOf(k) THEN Moved(FALSE, Counter(array, c)) ELSE Counter(array, c)
  <1> DEFINE f == CHOOSE f : f = [i \in 0 .. NFuncs |->
                                    IF i = 0 THEN array ELSE Decrement(f[i - 1], Index(k, i - 1))]
  <1>1. \E g : Chain(FALSE, g, NFuncs, k)
    BY ChainExists, CellFacts
  <1>2. f = [i \in 0 .. NFuncs |-> IF i = 0 THEN array ELSE Decrement(f[i - 1], Index(k, i - 1))]
    BY <1>1 DEF Chain, Changed
  <1>3. Decremented(k) = f[NFuncs]
    BY DEF Decremented
  <1>4. PICK g : g = f
    OBVIOUS
  <1>5. Chain(FALSE, g, NFuncs, k)
    BY <1>2, <1>4 DEF Chain, Changed
  <1>6. Decremented(k) = g[NFuncs]
    BY <1>3, <1>4
  <1> HIDE DEF f
  <1>7. PICK b : b = g[NFuncs]
    OBVIOUS
  <1>8. /\ b \in Bytes
        /\ \A c \in Cells : Counter(b, c) =
              IF c \in CellsOf(k) THEN Moved(FALSE, Counter(array, c)) ELSE Counter(array, c)
    <2>1. FALSE \in BOOLEAN
      OBVIOUS
    <2>2. g[NFuncs] \in Bytes
          /\ \A c \in Cells : Counter(g[NFuncs], c) =
              IF c \in CellsOf(k) THEN Moved(FALSE, Counter(array, c)) ELSE Counter(array, c)
      BY <1>5, <2>1, ChainChanges
    <2>3. QED
      BY <1>7, <2>2
  <1>9. QED
    BY <1>6, <1>7, <1>8

-----------------------------------------------------------------------------
(* What is in the filter, and how it grows by one.                         *)

EntriesOf(h) == {e \in Keys \X (1 .. MaxAdds) : e[2] <= h[e[1]]}
UsersOf(h, c) == {e \in EntriesOf(h) : c \in CellsOf(e[1])}

(* g holds k once more than h does.                                        *)
OnceMore(h, g, k) ==
    /\ h \in [Keys -> 0 .. MaxAdds] /\ g \in [Keys -> 0 .. MaxAdds]
    /\ g = [h EXCEPT ![k] = h[k] + 1]

LEMMA EntriesFinite ==
    ASSUME NEW h
    PROVE  /\ IsFiniteSet(EntriesOf(h)) /\ Cardinality(EntriesOf(h)) \in Nat
           /\ \A c : IsFiniteSet(UsersOf(h, c)) /\ Cardinality(UsersOf(h, c)) \in Nat
  <1>1. IsFiniteSet(1 .. MaxAdds)
    BY FilterConstants, FS_Interval
  <1>2. IsFiniteSet(Keys \X (1 .. MaxAdds))
    BY <1>1, FilterConstants, FS_Product
  <1>3. EntriesOf(h) \subseteq Keys \X (1 .. MaxAdds)
    BY DEF EntriesOf
  <1>4. IsFiniteSet(EntriesOf(h))
    BY <1>2, <1>3, FS_Subset
  <1>5. ASSUME NEW c
        PROVE  IsFiniteSet(UsersOf(h, c)) /\ Cardinality(UsersOf(h, c)) \in Nat
    <2>1. UsersOf(h, c) \subseteq EntriesOf(h)
      BY DEF UsersOf
    <2>2. IsFiniteSet(UsersOf(h, c))
      BY <1>4, <2>1, FS_Subset
    <2>3. QED
      BY <2>2, FS_CardinalityType
  <1>6. QED
    BY <1>4, <1>5, FS_CardinalityType

LEMMA OneEntryMore ==
    ASSUME NEW h, NEW g, NEW k \in Keys, OnceMore(h, g, k)
    PROVE  /\ EntriesOf(g) = EntriesOf(h) \cup {<<k, h[k] + 1>>}
           /\ <<k, h[k] + 1>> \notin EntriesOf(h)
  <1>1. h \in [Keys -> 0 .. MaxAdds] /\ g \in [Keys -> 0 .. MaxAdds]
        /\ g = [h EXCEPT ![k] = h[k] + 1] /\ MaxAdds \in Nat
    BY FilterConstants DEF OnceMore
  <1>2. PICK n \in 0 .. MaxAdds : n = h[k]
    BY <1>1
  <1>3. g[k] = n + 1 /\ n + 1 \in 1 .. MaxAdds
    <2>1. g[k] = n + 1 /\ g[k] \in 0 .. MaxAdds
      BY <1>1, <1>2
    <2>2. QED
      BY <2>1, <1>1
  <1>4. ASSUME NEW q \in Keys, NEW m \in 1 .. MaxAdds
        PROVE  (m <= g[q]) <=> (m <= h[q] \/ (q = k /\ m = n + 1))
    <2>1. CASE q = k
      BY <1>2, <1>3, <2>1
    <2>2. CASE q # k
      BY <1>1, <2>2
    <2>3. QED
      BY <2>1, <2>2
  <1>5. ASSUME NEW e
        PROVE  e \in EntriesOf(g) <=> e \in EntriesOf(h) \/ e = <<k, n + 1>>
    <2>1. CASE e \in Keys \X (1 .. MaxAdds)
      <3>1. PICK q \in Keys, m \in 1 .. MaxAdds : e = <<q, m>>
        BY <2>1
      <3>2. e[1] = q /\ e[2] = m /\ (e = <<k, n + 1>> <=> (q = k /\ m = n + 1))
        BY <3>1
      <3>3. (e \in EntriesOf(g) <=> m <= g[q]) /\ (e \in EntriesOf(h) <=> m <= h[q])
        BY <2>1, <3>2 DEF EntriesOf
      <3>4. QED
        BY <1>4, <3>2, <3>3
    <2>2. CASE e \notin Keys \X (1 .. MaxAdds)
      BY <1>3, <2>2 DEF EntriesOf
    <2>3. QED
      BY <2>1, <2>2
  <1>6. <<k, n + 1>> \notin EntriesOf(h)
    <2>1. ~ (n + 1 <= h[k])
      BY <1>2
    <2>2. QED
      BY <2>1 DEF EntriesOf
  <1>7. EntriesOf(g) = EntriesOf(h) \cup {<<k, n + 1>>}
    BY <1>5
  <1>8. QED
    BY <1>2, <1>6, <1>7

(* One entry more, and one user more of each counter of k.                 *)
LEMMA OneUserMore ==
    ASSUME NEW h, NEW g, NEW k \in Keys, OnceMore(h, g, k)
    PROVE  /\ Cardinality(EntriesOf(g)) = Cardinality(EntriesOf(h)) + 1
           /\ \A c : Cardinality(UsersOf(g, c)) =
                 IF c \in CellsOf(k) THEN Cardinality(UsersOf(h, c)) + 1
                                     ELSE Cardinality(UsersOf(h, c))
  <1>1. PICK e : e = <<k, h[k] + 1>>
    OBVIOUS
  <1>2. EntriesOf(g) = EntriesOf(h) \cup {e} /\ e \notin EntriesOf(h) /\ e[1] = k
    BY <1>1, OneEntryMore
  <1>3. Cardinality(EntriesOf(g)) = Cardinality(EntriesOf(h)) + 1
    BY <1>2, EntriesFinite, FS_AddElement
  <1>4. ASSUME NEW c, c \in CellsOf(k)
        PROVE  Cardinality(UsersOf(g, c)) = Cardinality(UsersOf(h, c)) + 1
    <2>1. UsersOf(g, c) = UsersOf(h, c) \cup {e} /\ e \notin UsersOf(h, c)
      BY <1>2, <1>4 DEF UsersOf
    <2>2. QED
      BY <2>1, EntriesFinite, FS_AddElement
  <1>5. ASSUME NEW c, c \notin CellsOf(k)
        PROVE  UsersOf(g, c) = UsersOf(h, c)
    BY <1>2, <1>5 DEF UsersOf
  <1>6. QED
    BY <1>3, <1>4, <1>5
-----------------------------------------------------------------------------
(* The inductive invariant.  The number of counted keys is what keeps the  *)
(* header's count from going below zero.                                   *)

FilterInv == TypeOK /\ CellCounts /\ count = Cardinality(Entries)

LEMMA EntriesAre ==
    Entries = EntriesOf(held) /\ \A c : Held(c) = Cardinality(UsersOf(held, c))
  BY DEF Entries, EntriesOf, Held, UsersOf

LEMMA EntriesAreNext ==
    Entries' = EntriesOf(held') /\ \A c : Held(c)' = Cardinality(UsersOf(held', c))
  BY DEF Entries, EntriesOf, Held, UsersOf

LEMMA FilterInit == Init => FilterInv
  <1> SUFFICES ASSUME Init
               PROVE  FilterInv
    OBVIOUS
  <1>1. TypeOK
    <2>1. 0 \in 0 .. Half * Half - 1 /\ 0 \in 0 .. MaxAdds
      BY FilterConstants DEF Half
    <2>2. QED
      BY <2>1 DEF Init, TypeOK
  <1>2. Entries = {}
    <2>1. \A e \in Keys \X (1 .. MaxAdds) : ~ (e[2] <= held[e[1]])
      BY FilterConstants DEF Init
    <2>2. QED
      BY <2>1 DEF Entries
  <1>3. \A c : Held(c) = 0
    BY <1>2, FS_EmptySet DEF Held
  <1>4. ASSUME NEW c \in Cells
        PROVE  Counter(array, c) = 0
    <2>1. array[c \div 2] = 0
      BY CellFacts DEF Init
    <2>2. QED
      BY <2>1 DEF Counter, Half
  <1>5. CellCounts
    BY <1>3, <1>4 DEF CellCounts
  <1>6. count = Cardinality(Entries)
    BY <1>2, FS_EmptySet DEF Init
  <1>7. QED
    BY <1>1, <1>5, <1>6 DEF FilterInv

LEMMA AddKeeps ==
    ASSUME FilterInv, NEW k \in Keys, mix_counting_bloom_filter_add(k)
    PROVE  FilterInv'
  <1>1. /\ array \in Bytes /\ held \in [Keys -> 0 .. MaxAdds] /\ refused \subseteq Cells
        /\ MaxAdds \in Nat
    BY FilterConstants DEF FilterInv, TypeOK, Bytes
  <1>2. held' \in [Keys -> 0 .. MaxAdds] /\ OnceMore(held, held', k)
    <2>1. held' = [held EXCEPT ![k] = held[k] + 1] /\ held[k] + 1 \in 0 .. MaxAdds
      BY <1>1 DEF mix_counting_bloom_filter_add
    <2>2. held' \in [Keys -> 0 .. MaxAdds]
      BY <1>1, <2>1
    <2>3. QED
      BY <1>1, <2>1, <2>2 DEF OnceMore
  <1>3. /\ array' \in Bytes
        /\ \A c \in Cells : Counter(array', c) =
              IF c \in CellsOf(k) THEN Moved(TRUE, Counter(array, c)) ELSE Counter(array, c)
    BY <1>1, AddChanges DEF mix_counting_bloom_filter_add
  <1>4. /\ Cardinality(EntriesOf(held')) = Cardinality(EntriesOf(held)) + 1
        /\ \A c : Cardinality(UsersOf(held', c)) =
              IF c \in CellsOf(k) THEN Cardinality(UsersOf(held, c)) + 1
                                  ELSE Cardinality(UsersOf(held, c))
    BY <1>2, OneUserMore
  <1>5. refused' = refused \cup {c \in CellsOf(k) : Counter(array, c) = 15}
    BY DEF mix_counting_bloom_filter_add, Half
  <1>6. count' = Cardinality(Entries') /\ count' \in Nat
    <2>1. count = Cardinality(EntriesOf(held)) /\ count \in Nat
      BY EntriesAre DEF FilterInv, TypeOK
    <2>2. QED
      BY <1>4, <2>1, EntriesAreNext DEF mix_counting_bloom_filter_add
  <1>7. TypeOK'
    <2>1. refused' \subseteq Cells
      BY <1>1, <1>5, IndexFacts
    <2>2. QED
      BY <1>2, <1>3, <1>6, <2>1 DEF TypeOK, Bytes
  <1>8. ASSUME NEW c \in Cells
        PROVE  /\ Counter(array', c) <= Held(c)'
               /\ c \notin refused' => Counter(array', c) = Held(c)'
    <2>1. PICK n \in 0 .. 15 : n = Counter(array, c)
      BY <1>1, CounterRange
    <2>2. PICK h \in Nat : h = Cardinality(UsersOf(held, c))
      BY EntriesFinite
    <2>3. n <= h /\ (c \notin refused => n = h)
      BY <2>1, <2>2, EntriesAre DEF FilterInv, CellCounts
    <2>4. CASE c \in CellsOf(k)
      <3>1. Counter(array', c) = (IF n = 15 THEN n ELSE n + 1) /\ Held(c)' = h + 1
        BY <1>3, <1>4, <2>1, <2>2, <2>4, EntriesAreNext DEF Moved
      <3>2. c \notin refused' => c \notin refused /\ n # 15
        BY <1>5, <2>1, <2>4
      <3>3. QED
        BY <2>3, <3>1, <3>2
    <2>5. CASE c \notin CellsOf(k)
      <3>1. Counter(array', c) = n /\ Held(c)' = h
        BY <1>3, <1>4, <2>1, <2>2, <2>5, EntriesAreNext
      <3>2. c \notin refused' => c \notin refused
        BY <1>5
      <3>3. QED
        BY <2>3, <3>1, <3>2
    <2>6. QED
      BY <2>4, <2>5
  <1>9. CellCounts'
    BY <1>8 DEF CellCounts, Counter
  <1>10. QED
    BY <1>6, <1>7, <1>9 DEF FilterInv

LEMMA RemoveKeeps ==
    ASSUME FilterInv, NEW k \in Keys, mix_counting_bloom_filter_remove(k)
    PROVE  FilterInv'
  <1>1. /\ array \in Bytes /\ held \in [Keys -> 0 .. MaxAdds] /\ refused \subseteq Cells
        /\ MaxAdds \in Nat
    BY FilterConstants DEF FilterInv, TypeOK, Bytes
  <1>2. held' \in [Keys -> 0 .. MaxAdds] /\ OnceMore(held', held, k)
    <2>1. held' = [held EXCEPT ![k] = held[k] - 1] /\ held[k] - 1 \in 0 .. MaxAdds
      BY <1>1 DEF mix_counting_bloom_filter_remove
    <2>2. held' \in [Keys -> 0 .. MaxAdds]
      BY <1>1, <2>1
    <2>3. held'[k] + 1 = held[k]
      <3>1. held'[k] = held[k] - 1 /\ held[k] \in 0 .. MaxAdds
        BY <1>1, <2>1
      <3>2. QED
        BY <3>1
    <2>4. held = [held' EXCEPT ![k] = held'[k] + 1]
      BY <1>1, <2>1, <2>3
    <2>5. QED
      BY <1>1, <2>2, <2>4 DEF OnceMore
  <1>3. /\ array' \in Bytes
        /\ \A c \in Cells : Counter(array', c) =
              IF c \in CellsOf(k) THEN Moved(FALSE, Counter(array, c)) ELSE Counter(array, c)
    BY <1>1, RemoveChanges DEF mix_counting_bloom_filter_remove
  <1>4. /\ Cardinality(EntriesOf(held)) = Cardinality(EntriesOf(held')) + 1
        /\ \A c : Cardinality(UsersOf(held, c)) =
              IF c \in CellsOf(k) THEN Cardinality(UsersOf(held', c)) + 1
                                  ELSE Cardinality(UsersOf(held', c))
    BY <1>2, OneUserMore
  <1>5. refused' = refused
    BY DEF mix_counting_bloom_filter_remove
  <1>6. count' = Cardinality(Entries') /\ count' \in Nat
    <2>1. count = Cardinality(EntriesOf(held)) /\ count' = count - 1
      BY EntriesAre DEF FilterInv, mix_counting_bloom_filter_remove
    <2>2. PICK m \in Nat : m = Cardinality(EntriesOf(held'))
      BY EntriesFinite
    <2>3. count' = m
      BY <1>4, <2>1, <2>2
    <2>4. QED
      BY <2>2, <2>3, EntriesAreNext
  <1>7. TypeOK'
    BY <1>1, <1>2, <1>3, <1>5, <1>6 DEF TypeOK, Bytes
  <1>8. ASSUME NEW c \in Cells
        PROVE  /\ Counter(array', c) <= Held(c)'
               /\ c \notin refused' => Counter(array', c) = Held(c)'
    <2>1. PICK n \in 0 .. 15 : n = Counter(array, c)
      BY <1>1, CounterRange
    <2>2. PICK h \in Nat : h = Cardinality(UsersOf(held', c))
      BY EntriesFinite
    <2>3. n <= Held(c) /\ (c \notin refused => n = Held(c))
      BY <2>1 DEF FilterInv, CellCounts
    <2>4. CASE c \in CellsOf(k)
      <3>1. /\ Counter(array', c) = (IF n = 0 THEN n ELSE n - 1)
            /\ Held(c) = h + 1 /\ Held(c)' = h
        BY <1>3, <1>4, <2>1, <2>2, <2>4, EntriesAre, EntriesAreNext DEF Moved
      <3>2. QED
        BY <1>5, <2>3, <3>1
    <2>5. CASE c \notin CellsOf(k)
      <3>1. Counter(array', c) = n /\ Held(c) = h /\ Held(c)' = h
        BY <1>3, <1>4, <2>1, <2>2, <2>5, EntriesAre, EntriesAreNext
      <3>2. QED
        BY <1>5, <2>3, <3>1
    <2>6. QED
      BY <2>4, <2>5
  <1>9. CellCounts'
    BY <1>8 DEF CellCounts, Counter
  <1>10. QED
    BY <1>6, <1>7, <1>9 DEF FilterInv

LEMMA FilterStep == FilterInv /\ [Next]_vars => FilterInv'
  <1> SUFFICES ASSUME FilterInv, [Next]_vars
               PROVE  FilterInv'
    OBVIOUS
  <1>1. ASSUME NEW k \in Keys, mix_counting_bloom_filter_add(k)
        PROVE  FilterInv'
    BY <1>1, AddKeeps
  <1>2. ASSUME NEW k \in Keys, mix_counting_bloom_filter_remove(k)
        PROVE  FilterInv'
    BY <1>2, RemoveKeeps
  <1>3. CASE UNCHANGED vars
    BY <1>3 DEF vars, FilterInv, TypeOK, CellCounts, Counter, Held, Entries
  <1>4. QED
    BY <1>1, <1>2, <1>3 DEF Next

LEMMA FilterInvHolds == Spec => []FilterInv
  BY FilterInit, FilterStep, PTL DEF Spec

(* The bytes of the counters stay bytes and the header's count a natural,  *)
(* whatever is added to the filter and removed from it.                    *)
THEOREM FilterTypes == Spec => []TypeOK
  <1>1. FilterInv => TypeOK
    BY DEF FilterInv
  <1>2. QED
    BY <1>1, FilterInvHolds, PTL

(* A counter counts the keys that use it, never more, and until it refuses *)
(* to go past 15 no fewer: its neighbour in the byte is never disturbed.   *)
THEOREM CellCountsHolds == Spec => []CellCounts
  <1>1. FilterInv => CellCounts
    BY DEF FilterInv
  <1>2. QED
    BY <1>1, FilterInvHolds, PTL

(* mix_counting_bloom_filter_test denies no key that is in the filter,     *)
(* unless one of its counters has refused to go up.                        *)
THEOREM ZeroMeansAbsentHolds == Spec => []ZeroMeansAbsent
  <1>1. FilterInv => ZeroMeansAbsent
    <2> SUFFICES ASSUME FilterInv, NEW k \in Keys, held[k] # 0, CellsOf(k) \cap refused = {}
                 PROVE  MayContain(k)
      BY DEF ZeroMeansAbsent
    <2>1. <<k, 1>> \in Entries
      <3>1. held[k] \in 0 .. MaxAdds /\ MaxAdds \in Nat
        BY FilterConstants DEF FilterInv, TypeOK
      <3>2. 1 \in 1 .. MaxAdds /\ 1 <= held[k]
        BY <3>1
      <3>3. QED
        BY <3>2 DEF Entries
    <2>2. ASSUME NEW c \in CellsOf(k)
          PROVE  Counter(array, c) # 0
      <3>1. <<k, 1>> \in UsersOf(held, c)
        BY <2>1, EntriesAre DEF UsersOf
      <3>2. Cardinality(UsersOf(held, c)) # 0
        BY <3>1, EntriesFinite, FS_EmptySet
      <3>3. c \in Cells /\ c \notin refused
        BY IndexFacts
      <3>4. Counter(array, c) = Held(c)
        BY <3>3 DEF FilterInv, CellCounts
      <3>5. QED
        BY <3>2, <3>4, EntriesAre
    <2>3. QED
      BY <2>2 DEF MayContain
  <1>2. QED
    BY <1>1, FilterInvHolds, PTL
=============================================================================
