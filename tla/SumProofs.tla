------------------------------ MODULE SumProofs ------------------------------
(***************************************************************************)
(* Facts about the natural numbers and about sums over them, by induction. *)
(* The theorems of the library that take a predicate as a parameter cannot *)
(* be used by the provers; that the order of the naturals is well-founded  *)
(* can, and induction is stated here for a set of numbers.                 *)
(***************************************************************************)
EXTENDS Sums, WellFoundedInduction, TLAPS

(* Any set of naturals that is not empty has a least element.              *)
LEMMA LeastNatural ==
    ASSUME NEW T \in SUBSET Nat, T # {}
    PROVE  \E x \in T : \A y \in T : x <= y
  <1> DEFINE Less == {p \in Nat \X Nat : p[1] < p[2]}
  <1>1. IsWellFoundedOn(Less, Nat)
    BY NatLessThanWellFounded DEF OpToRel
  <1>2. \E x \in T : \A y \in T : ~ (<<y, x>> \in Less)
    <2> HIDE DEF Less
    <2>1. QED
      BY <1>1, WFMin
  <1>3. \A x, y \in T : ~ (<<y, x>> \in Less) => x <= y
    OBVIOUS
  <1>4. QED
    BY <1>2, <1>3

LEMMA Induction ==
    ASSUME NEW S \in SUBSET Nat, 0 \in S, \A n \in S : n + 1 \in S
    PROVE  S = Nat
  <1> SUFFICES ASSUME Nat \ S # {} PROVE FALSE
    OBVIOUS
  <1>1. PICK x \in Nat \ S : \A y \in Nat \ S : x <= y
    BY LeastNatural
  <1>2. x # 0 /\ x - 1 \in Nat
    OBVIOUS
  <1>3. x - 1 \in S
    BY <1>1, <1>2
  <1>4. QED
    BY <1>2, <1>3

-----------------------------------------------------------------------------
(* f holds the partial sums of w up to n.                                  *)
PartialSums(f, n, w) == f = [i \in 0 .. n |-> IF i = 0 THEN 0 ELSE f[i - 1] + w[i - 1]]

LEMMA PartialSumsExist ==
    ASSUME NEW w, NEW n \in Nat
    PROVE  \E f : PartialSums(f, n, w)
  <1> DEFINE S == {m \in Nat : \E f : PartialSums(f, m, w)}
  <1>1. 0 \in S
    <2> DEFINE f == [i \in 0 .. 0 |-> 0]
    <2>1. f = [i \in 0 .. 0 |-> IF i = 0 THEN 0 ELSE f[i - 1] + w[i - 1]]
      OBVIOUS
    <2>2. PartialSums(f, 0, w)
      BY <2>1 DEF PartialSums
    <2>3. QED
      BY <2>2
  <1>2. ASSUME NEW m \in S
        PROVE  m + 1 \in S
    <2>1. PICK f : PartialSums(f, m, w)
      OBVIOUS
    <2> DEFINE g == [i \in 0 .. m + 1 |-> IF i <= m THEN f[i] ELSE f[m] + w[m]]
    <2>2. ASSUME NEW i \in 0 .. m + 1
          PROVE  g[i] = IF i = 0 THEN 0 ELSE g[i - 1] + w[i - 1]
      <3>1. CASE i = 0
        BY <2>1, <3>1 DEF PartialSums
      <3>2. CASE i # 0 /\ i <= m
        <4>1. i - 1 \in 0 .. m /\ i - 1 \in 0 .. m + 1 /\ i \in 0 .. m
          BY <3>2
        <4>2. f[i] = f[i - 1] + w[i - 1]
          BY <2>1, <3>2, <4>1 DEF PartialSums
        <4>3. QED
          BY <3>2, <4>1, <4>2
      <3>3. CASE i = m + 1
        <4>1. i - 1 = m /\ m \in 0 .. m + 1 /\ ~ (i <= m) /\ i # 0
          BY <3>3
        <4>2. QED
          BY <4>1
      <3>4. QED
        BY <3>1, <3>2, <3>3
    <2>3. g = [i \in 0 .. m + 1 |-> IF i = 0 THEN 0 ELSE g[i - 1] + w[i - 1]]
      BY <2>2
    <2>4. PartialSums(g, m + 1, w)
      BY <2>3 DEF PartialSums
    <2>5. QED
      BY <2>4
  <1>3. S = Nat
    <2> HIDE DEF S
    <2>1. QED
      BY <1>1, <1>2, Induction DEF S
  <1>4. QED
    BY <1>3

(* The partial sums of functions that agree so far agree.                  *)
LEMMA PartialSumsAgree ==
    ASSUME NEW v, NEW w, NEW n \in Nat, NEW m \in Nat, NEW f, NEW g,
           PartialSums(f, n, v), PartialSums(g, m, w), n <= m,
           \A i \in 0 .. n - 1 : v[i] = w[i]
    PROVE  \A i \in 0 .. n : f[i] = g[i]
  <1> DEFINE S == {i \in Nat : i <= n => f[i] = g[i]}
  <1>1. 0 \in S
    BY DEF PartialSums
  <1>2. ASSUME NEW i \in S
        PROVE  i + 1 \in S
    <2>1. CASE i + 1 <= n
      <3>1. i + 1 \in 0 .. n /\ i + 1 \in 0 .. m /\ (i + 1) - 1 = i /\ i + 1 # 0
            /\ i \in 0 .. n - 1
        BY <2>1
      <3>2. f[i + 1] = f[i] + v[i] /\ g[i + 1] = g[i] + w[i]
        BY <3>1 DEF PartialSums
      <3>3. f[i] = g[i] /\ v[i] = w[i]
        BY <2>1, <3>1
      <3>4. QED
        BY <3>2, <3>3
    <2>2. CASE ~ (i + 1 <= n)
      BY <2>2
    <2>3. QED
      BY <2>1, <2>2
  <1>3. S = Nat
    <2> HIDE DEF S
    <2>1. QED
      BY <1>1, <1>2, Induction DEF S
  <1>4. QED
    BY <1>3

LEMMA SumBelowIsPartialSum ==
    ASSUME NEW w, NEW n \in Nat
    PROVE  \E f : PartialSums(f, n, w) /\ SumBelow(n, w) = f[n]
  <1> DEFINE f == CHOOSE f : PartialSums(f, n, w)
  <1>1. PartialSums(f, n, w)
    BY PartialSumsExist
  <1>2. SumBelow(n, w) = f[n]
    BY DEF SumBelow, PartialSums
  <1>3. QED
    BY <1>1, <1>2

-----------------------------------------------------------------------------
LEMMA SumEmpty == \A w : SumBelow(0, w) = 0
  <1> SUFFICES ASSUME NEW w PROVE SumBelow(0, w) = 0
    OBVIOUS
  <1>1. PICK f : PartialSums(f, 0, w) /\ SumBelow(0, w) = f[0]
    BY SumBelowIsPartialSum
  <1>2. QED
    BY <1>1 DEF PartialSums

LEMMA SumStep ==
    ASSUME NEW w, NEW n \in Nat
    PROVE  SumBelow(n + 1, w) = SumBelow(n, w) + w[n]
  <1>1. PICK f : PartialSums(f, n, w) /\ SumBelow(n, w) = f[n]
    BY SumBelowIsPartialSum
  <1>2. PICK g : PartialSums(g, n + 1, w) /\ SumBelow(n + 1, w) = g[n + 1]
    BY SumBelowIsPartialSum
  <1>3. f[n] = g[n]
    <2>1. PICK m \in Nat : m = n + 1
      OBVIOUS
    <2>2. PartialSums(f, n, w) /\ PartialSums(g, m, w) /\ n <= m
      BY <1>1, <1>2, <2>1
    <2>3. \A v : (\A i \in 0 .. n - 1 : v[i] = w[i]) /\ PartialSums(f, n, v)
                    => \A i \in 0 .. n : f[i] = g[i]
      BY <2>2, PartialSumsAgree
    <2>4. \A i \in 0 .. n : f[i] = g[i]
      BY <2>2, <2>3
    <2>5. QED
      BY <2>4
  <1>4. g[n + 1] = g[n] + w[n]
    <2>1. n + 1 \in 0 .. n + 1 /\ n + 1 # 0 /\ (n + 1) - 1 = n
      OBVIOUS
    <2>2. QED
      BY <1>2, <2>1 DEF PartialSums
  <1>5. QED
    BY <1>1, <1>2, <1>3, <1>4

(* A sum depends on the summands only.                                     *)
LEMMA SumSame ==
    ASSUME NEW n \in Nat, NEW v, NEW w, \A i \in 0 .. n - 1 : v[i] = w[i]
    PROVE  SumBelow(n, v) = SumBelow(n, w)
  <1>1. PICK f : PartialSums(f, n, v) /\ SumBelow(n, v) = f[n]
    BY SumBelowIsPartialSum
  <1>2. PICK g : PartialSums(g, n, w) /\ SumBelow(n, w) = g[n]
    BY SumBelowIsPartialSum
  <1>3. QED
    BY <1>1, <1>2, PartialSumsAgree

(* A sum of naturals is a natural and not less than any of them.           *)
LEMMA SumOfNaturals ==
    ASSUME NEW n \in Nat, NEW w, \A i \in 0 .. n - 1 : w[i] \in Nat
    PROVE  SumBelow(n, w) \in Nat /\ \A i \in 0 .. n - 1 : w[i] <= SumBelow(n, w)
  <1> DEFINE S == {m \in Nat : m <= n => /\ SumBelow(m, w) \in Nat
                                         /\ \A i \in 0 .. m - 1 : w[i] <= SumBelow(m, w)}
  <1>1. 0 \in S
    BY SumEmpty
  <1>2. ASSUME NEW m \in S
        PROVE  m + 1 \in S
    <2>1. CASE m + 1 <= n
      <3>1. SumBelow(m + 1, w) = SumBelow(m, w) + w[m]
        BY SumStep
      <3>2. w[m] \in Nat /\ SumBelow(m, w) \in Nat
            /\ \A i \in 0 .. m - 1 : w[i] <= SumBelow(m, w)
        BY <2>1
      <3>3. ASSUME NEW i \in 0 .. (m + 1) - 1
            PROVE  w[i] <= SumBelow(m + 1, w)
        <4>1. CASE i = m
          BY <3>1, <3>2, <4>1
        <4>2. CASE i # m
          <5>1. i \in 0 .. m - 1 /\ w[i] \in Nat
            BY <2>1, <4>2
          <5>2. QED
            BY <3>1, <3>2, <5>1
        <4>3. QED
          BY <4>1, <4>2
      <3>4. QED
        BY <3>1, <3>2, <3>3
    <2>2. CASE ~ (m + 1 <= n)
      BY <2>2
    <2>3. QED
      BY <2>1, <2>2
  <1>3. S = Nat
    <2> HIDE DEF S
    <2>1. QED
      BY <1>1, <1>2, Induction DEF S
  <1>4. QED
    BY <1>3

(* One summand changes.                                                    *)
LEMMA SumExcept ==
    ASSUME NEW n \in Nat, NEW v, NEW w, NEW j \in 0 .. n - 1,
           \A i \in 0 .. n - 1 : v[i] \in Nat /\ w[i] \in Nat,
           \A i \in 0 .. n - 1 : i # j => v[i] = w[i]
    PROVE  SumBelow(n, w) = SumBelow(n, v) - v[j] + w[j]
  <1> DEFINE S == {m \in Nat : j < m /\ m <= n =>
                                 SumBelow(m, w) = SumBelow(m, v) - v[j] + w[j]}
  <1>1. 0 \in S
    OBVIOUS
  <1>2. ASSUME NEW m \in S
        PROVE  m + 1 \in S
    <2>1. SumBelow(m + 1, w) = SumBelow(m, w) + w[m]
          /\ SumBelow(m + 1, v) = SumBelow(m, v) + v[m]
      BY SumStep
    <2>2. CASE j < m /\ m + 1 <= n
      <3>1. SumBelow(m, w) = SumBelow(m, v) - v[j] + w[j]
        BY <2>2
      <3>2. v[m] = w[m] /\ v[m] \in Nat
        BY <2>2
      <3>3. SumBelow(m, v) \in Nat
        BY <2>2, SumOfNaturals
      <3>4. v[j] \in Nat /\ w[j] \in Nat
        OBVIOUS
      <3>5. QED
        BY <2>1, <3>1, <3>2, <3>3, <3>4
    <2>3. CASE j = m /\ m + 1 <= n
      <3>1. SumBelow(m, v) = SumBelow(m, w)
        BY <2>3, SumSame
      <3>2. SumBelow(m, v) \in Nat
        BY <2>3, SumOfNaturals
      <3>3. v[j] \in Nat /\ w[j] \in Nat
        OBVIOUS
      <3>4. QED
        BY <2>1, <2>3, <3>1, <3>2, <3>3
    <2>4. CASE ~ (j <= m /\ m + 1 <= n)
      BY <2>4
    <2>5. QED
      BY <2>2, <2>3, <2>4
  <1>3. S = Nat
    <2> HIDE DEF S
    <2>1. QED
      BY <1>1, <1>2, Induction DEF S
  <1>4. QED
    BY <1>3

(* The first summand goes and the others move up.                          *)
LEMMA SumShift ==
    ASSUME NEW n \in Nat, NEW v, NEW w,
           \A i \in 0 .. n : w[i] \in Nat,
           \A i \in 0 .. n - 1 : v[i] = w[i + 1]
    PROVE  SumBelow(n + 1, w) = w[0] + SumBelow(n, v)
  <1> DEFINE S == {m \in Nat : m <= n => SumBelow(m + 1, w) = w[0] + SumBelow(m, v)}
  <1>1. 0 \in S
    <2>1. SumBelow(0 + 1, w) = SumBelow(0, w) + w[0] /\ SumBelow(0, w) = 0
          /\ SumBelow(0, v) = 0
      BY SumStep, SumEmpty
    <2>2. w[0] \in Nat
      OBVIOUS
    <2>3. QED
      BY <2>1, <2>2
  <1>2. ASSUME NEW m \in S
        PROVE  m + 1 \in S
    <2>1. CASE m + 1 <= n
      <3>1. SumBelow((m + 1) + 1, w) = SumBelow(m + 1, w) + w[m + 1]
            /\ SumBelow(m + 1, v) = SumBelow(m, v) + v[m]
        BY SumStep
      <3>2. v[m] = w[m + 1] /\ w[m + 1] \in Nat /\ w[0] \in Nat
        BY <2>1
      <3>3. \A i \in 0 .. m - 1 : v[i] \in Nat
        BY <2>1
      <3>4. SumBelow(m, v) \in Nat
        BY <3>3, SumOfNaturals
      <3>5. SumBelow(m + 1, w) = w[0] + SumBelow(m, v)
        BY <2>1
      <3>6. QED
        BY <3>1, <3>2, <3>4, <3>5
    <2>2. CASE ~ (m + 1 <= n)
      BY <2>2
    <2>3. QED
      BY <2>1, <2>2
  <1>3. S = Nat
    <2> HIDE DEF S
    <2>1. QED
      BY <1>1, <1>2, Induction DEF S
  <1>4. QED
    BY <1>3

LEMMA SumOfZeros ==
    ASSUME NEW n \in Nat, NEW w, \A i \in 0 .. n - 1 : w[i] = 0
    PROVE  SumBelow(n, w) = 0
  <1> DEFINE S == {m \in Nat : m <= n => SumBelow(m, w) = 0}
  <1>1. 0 \in S
    BY SumEmpty
  <1>2. ASSUME NEW m \in S
        PROVE  m + 1 \in S
    <2>1. SumBelow(m + 1, w) = SumBelow(m, w) + w[m]
      BY SumStep
    <2>2. QED
      BY <2>1
  <1>3. S = Nat
    <2> HIDE DEF S
    <2>1. QED
      BY <1>1, <1>2, Induction DEF S
  <1>4. QED
    BY <1>3

=============================================================================
