--------------------------- MODULE MixHashProofs ---------------------------
(***************************************************************************)
(* Proofs about the chained hash, for every set of keys and values and     *)
(* every hash function: the lengths are exact, no key has two entries, and *)
(* for callers that test first the table is a map.                         *)
(***************************************************************************)
EXTENDS MixHash, SequenceTheorems, TLAPS

(* A list that can be that of bucket b.                                    *)
Chain(l, b) ==
    /\ l \in Seq(Entry)
    /\ \A i \in 1 .. Len(l) : Bucket[l[i].key] = b
    /\ \A i, j \in 1 .. Len(l) : l[i].key = l[j].key => i = j

Has(l, k, v) == \E i \in 1 .. Len(l) : l[i].key = k /\ l[i].value = v

(* What the worker knows of the key it asked for.                          *)
AskedInv ==
    asked # None =>
        IF ret = None THEN \A v \in Values : ~Has(list[Bucket[asked]], asked, v)
                      ELSE Has(list[Bucket[asked]], asked, ret)

(* The inductive invariant.                                                *)
HashInv ==
    /\ TypeOK /\ LenIsExact
    /\ \A b \in Buckets : Chain(list[b], b)
    /\ AskedInv

-----------------------------------------------------------------------------
(* Lists.                                                                  *)
LEMMA EntryFields ==
    ASSUME NEW l \in Seq(Entry), NEW i \in 1 .. Len(l)
    PROVE  l[i] \in Entry /\ l[i].key \in Keys /\ l[i].value \in Values
           /\ l[i] = [key |-> l[i].key, value |-> l[i].value]
  <1>1. l[i] \in Entry
    BY ElementOfSeq
  <1>2. QED
    BY <1>1 DEF Entry

Prepended(l, k, v) == <<[key |-> k, value |-> v]>> \o l

(* An entry of a new key put before a list.                                *)
LEMMA PrependChain ==
    ASSUME NEW b \in Buckets, NEW l, Chain(l, b), NEW k \in Keys, Bucket[k] = b,
           NEW v \in Values, \A u \in Values : ~Has(l, k, u)
    PROVE  /\ Chain(Prepended(l, k, v), b) /\ Len(Prepended(l, k, v)) = Len(l) + 1
           /\ \A j \in Keys, u \in Values :
                Has(Prepended(l, k, v), j, u) <=> (j = k /\ u = v) \/ Has(l, j, u)
  <1> DEFINE m == Prepended(l, k, v)
  <1>0. l \in Seq(Entry) /\ Len(l) \in Nat
    BY LenProperties DEF Chain
  <1>1. <<[key |-> k, value |-> v]>> \in Seq(Entry) /\ Len(<<[key |-> k, value |-> v]>>) = 1
        /\ <<[key |-> k, value |-> v]>>[1] = [key |-> k, value |-> v]
    BY DEF Entry
  <1>2. m \in Seq(Entry) /\ Len(m) = Len(l) + 1
    BY <1>0, <1>1, ConcatProperties DEF Prepended
  <1>3. \A i \in 1 .. Len(m) : m[i] = IF i = 1 THEN [key |-> k, value |-> v] ELSE l[i - 1]
    <2>1. \A i \in 1 .. Len(m) :
            m[i] = IF i <= 1 THEN <<[key |-> k, value |-> v]>>[i] ELSE l[i - 1]
      BY <1>0, <1>1, <1>2, ConcatProperties DEF Prepended
    <2>2. QED
      BY <1>0, <1>1, <1>2, <2>1
  <1> HIDE DEF m
  <1>4. \A i \in 1 .. Len(l) : l[i].key # k
    BY <1>0, EntryFields DEF Has
  <1>5. Chain(m, b)
    <2>0. /\ \A i \in 1 .. Len(m) : i = 1 => m[i].key = k
          /\ \A i \in 1 .. Len(m) : i # 1 => i - 1 \in 1 .. Len(l) /\ m[i].key = l[i - 1].key
      BY <1>0, <1>2, <1>3
    <2>1. ASSUME NEW i \in 1 .. Len(m) PROVE Bucket[m[i].key] = b
      BY <2>0 DEF Chain
    <2>2. ASSUME NEW i \in 1 .. Len(m), NEW j \in 1 .. Len(m), m[i].key = m[j].key
          PROVE  i = j
      <3>1. CASE i = 1 \/ j = 1
        BY <1>4, <2>0, <2>2, <3>1
      <3>2. CASE i # 1 /\ j # 1
        <4>1. i - 1 \in 1 .. Len(l) /\ j - 1 \in 1 .. Len(l)
              /\ m[i] = l[i - 1] /\ m[j] = l[j - 1]
          BY <1>0, <1>2, <1>3, <3>2
        <4>2. i - 1 = j - 1
          BY <2>2, <4>1 DEF Chain
        <4>3. QED
          BY <1>0, <1>2, <4>2
      <3>3. QED
        BY <3>1, <3>2
    <2>3. QED
      BY <1>2, <2>1, <2>2 DEF Chain
  <1>6. ASSUME NEW j \in Keys, NEW u \in Values
        PROVE  Has(m, j, u) <=> (j = k /\ u = v) \/ Has(l, j, u)
    <2>1. ASSUME Has(m, j, u) PROVE (j = k /\ u = v) \/ Has(l, j, u)
      <3>1. PICK i \in 1 .. Len(m) : m[i].key = j /\ m[i].value = u
        BY <2>1 DEF Has
      <3>2. CASE i = 1
        BY <1>3, <3>1, <3>2
      <3>3. CASE i # 1
        <4>1. i - 1 \in 1 .. Len(l) /\ m[i] = l[i - 1]
          BY <1>0, <1>2, <1>3, <3>3
        <4>2. QED
          BY <3>1, <4>1 DEF Has
      <3>4. QED
        BY <3>2, <3>3
    <2>2. ASSUME j = k, u = v PROVE Has(m, j, u)
      <3>1. 1 \in 1 .. Len(m) /\ m[1].key = j /\ m[1].value = u
        BY <1>0, <1>2, <1>3, <2>2
      <3>2. QED
        BY <3>1 DEF Has
    <2>3. ASSUME Has(l, j, u) PROVE Has(m, j, u)
      <3>1. PICK i \in 1 .. Len(l) : l[i].key = j /\ l[i].value = u
        BY <2>3 DEF Has
      <3>2. i + 1 \in 1 .. Len(m) /\ m[i + 1] = l[i]
        BY <1>0, <1>2, <1>3
      <3>3. QED
        BY <3>1, <3>2 DEF Has
    <2>4. QED
      BY <2>1, <2>2, <2>3
  <1>7. QED
    BY <1>2, <1>5, <1>6 DEF m

(* A list from which the entry at p was taken.                             *)
LEMMA RemovedChain ==
    ASSUME NEW b \in Buckets, NEW l, Chain(l, b), NEW p \in 1 .. Len(l),
           NEW m \in Seq(Entry), Len(m) = Len(l) - 1,
           \A i \in 1 .. Len(m) : m[i] = IF i < p THEN l[i] ELSE l[i + 1]
    PROVE  /\ Chain(m, b)
           /\ \A j \in Keys, u \in Values : Has(m, j, u) <=> Has(l, j, u) /\ j # l[p].key
  <1>0. Len(l) \in Nat /\ Len(m) \in Nat
    BY LenProperties DEF Chain
  <1>1. \A i \in 1 .. Len(m) : \E h \in 1 .. Len(l) :
            m[i] = l[h] /\ h # p /\ (i < p => h = i) /\ (i >= p => h = i + 1)
    <2> TAKE i \in 1 .. Len(m)
    <2>1. CASE i < p
      BY <1>0, <2>1
    <2>2. CASE i >= p
      <3>1. i + 1 \in 1 .. Len(l) /\ i + 1 # p /\ ~(i < p)
        BY <1>0, <2>2
      <3>2. m[i] = l[i + 1]
        BY <3>1
      <3>3. QED
        BY <3>1, <3>2
    <2>3. QED
      BY <1>0, <2>1, <2>2
  <1>2. \A h \in 1 .. Len(l) : h # p => \E i \in 1 .. Len(m) : m[i] = l[h]
    <2> TAKE h \in 1 .. Len(l)
    <2> HAVE h # p
    <2>1. CASE h < p
      BY <1>0, <2>1
    <2>2. CASE h > p
      <3>1. h - 1 \in 1 .. Len(m) /\ ~(h - 1 < p) /\ (h - 1) + 1 = h
        BY <1>0, <2>2
      <3>2. QED
        BY <3>1
    <2>3. QED
      BY <2>1, <2>2
  <1>3. Chain(m, b)
    <2>1. \A i \in 1 .. Len(m) : Bucket[m[i].key] = b
      BY <1>1 DEF Chain
    <2>2. ASSUME NEW i \in 1 .. Len(m), NEW j \in 1 .. Len(m), m[i].key = m[j].key
          PROVE  i = j
      <3>1. PICK g \in 1 .. Len(l) : m[i] = l[g] /\ (i < p => g = i) /\ (i >= p => g = i + 1)
        BY <1>1
      <3>2. PICK h \in 1 .. Len(l) : m[j] = l[h] /\ (j < p => h = j) /\ (j >= p => h = j + 1)
        BY <1>1
      <3>3. g = h
        BY <2>2, <3>1, <3>2 DEF Chain
      <3>4. QED
        BY <1>0, <3>1, <3>2, <3>3
    <2>3. QED
      BY <2>1, <2>2 DEF Chain
  <1>4. ASSUME NEW j \in Keys, NEW u \in Values
        PROVE  Has(m, j, u) <=> Has(l, j, u) /\ j # l[p].key
    <2>1. ASSUME Has(m, j, u) PROVE Has(l, j, u) /\ j # l[p].key
      BY <1>1, <2>1 DEF Has, Chain
    <2>2. ASSUME Has(l, j, u), j # l[p].key PROVE Has(m, j, u)
      BY <1>2, <2>2 DEF Has
    <2>3. QED
      BY <2>1, <2>2
  <1>5. QED
    BY <1>3, <1>4

LEMMA WithoutIs ==
    ASSUME NEW l \in Seq(Entry), NEW p \in 1 .. Len(l)
    PROVE  /\ Without(l, p) \in Seq(Entry)
           /\ Len(Without(l, p)) = Len(l) - 1
           /\ \A i \in 1 .. Len(l) - 1 :
                Without(l, p)[i] = IF i < p THEN l[i] ELSE l[i + 1]
  <1> DEFINE f == SubSeq(l, 1, p - 1)
             g == SubSeq(l, p + 1, Len(l))
  <1>0. Len(l) \in Nat /\ p \in Nat
    BY LenProperties
  <1>1. f \in Seq(Entry) /\ Len(f) = p - 1 /\ \A i \in 1 .. p - 1 : f[i] = l[i]
    <2>1. \A i \in 1 .. p - 1 : l[i] \in Entry
      BY <1>0, ElementOfSeq
    <2>2. f \in Seq(Entry) /\ Len(f) = (IF 1 <= p - 1 THEN p - 1 - 1 + 1 ELSE 0)
          /\ \A i \in 1 .. p - 1 - 1 + 1 : f[i] = l[1 + i - 1]
      BY <1>0, <2>1, SubSeqProperties
    <2>3. QED
      BY <1>0, <2>2
  <1>2. g \in Seq(Entry) /\ Len(g) = Len(l) - p
        /\ \A i \in 1 .. Len(l) - p : g[i] = l[p + i]
    <2>1. \A i \in p + 1 .. Len(l) : l[i] \in Entry
      BY <1>0, ElementOfSeq
    <2>2. g \in Seq(Entry) /\ Len(g) = (IF p + 1 <= Len(l) THEN Len(l) - (p + 1) + 1 ELSE 0)
          /\ \A i \in 1 .. Len(l) - (p + 1) + 1 : g[i] = l[(p + 1) + i - 1]
      BY <1>0, <2>1, SubSeqProperties
    <2>3. QED
      BY <1>0, <2>2
  <1> HIDE DEF f, g
  <1>3. f \o g \in Seq(Entry) /\ Len(f \o g) = Len(l) - 1
        /\ \A i \in 1 .. Len(l) - 1 : (f \o g)[i] = IF i <= p - 1 THEN f[i] ELSE g[i - (p - 1)]
    BY <1>0, <1>1, <1>2, ConcatProperties
  <1>4. \A i \in 1 .. Len(l) - 1 : (f \o g)[i] = IF i < p THEN l[i] ELSE l[i + 1]
    <2> TAKE i \in 1 .. Len(l) - 1
    <2>1. CASE i < p
      BY <1>0, <1>1, <1>3, <2>1
    <2>2. CASE ~(i < p)
      <3>1. i - (p - 1) \in 1 .. Len(l) - p /\ p + (i - (p - 1)) = i + 1
        BY <1>0, <2>2
      <3>2. (f \o g)[i] = g[i - (p - 1)]
        BY <1>0, <1>3, <2>2
      <3>3. g[i - (p - 1)] = l[p + (i - (p - 1))]
        BY <1>2, <3>1
      <3>4. QED
        BY <1>0, <2>2, <3>1, <3>2, <3>3
    <2>3. QED
      BY <2>1, <2>2, Zenon
  <1>5. QED
    BY <1>3, <1>4 DEF Without, f, g

-----------------------------------------------------------------------------
(* What the walk finds in a list.                                          *)
Pos(l, k) == {i \in DOMAIN l : l[i].key = k}

Lookup(l, k) == IF Pos(l, k) = {} THEN None ELSE l[First(Pos(l, k))].value

LEMMA FoundIsLookup ==
    ASSUME NEW k \in Keys
    PROVE  Found(k) = Lookup(list[Bucket[k]], k) /\ Found(k)' = Lookup(list'[Bucket[k]], k)
  BY DEF Found, Positions, Lookup, Pos

(* In a chain a key has one position, which the walk finds.                *)
LEMMA OnlyPosition ==
    ASSUME NEW b \in Buckets, NEW l, Chain(l, b), NEW p \in 1 .. Len(l)
    PROVE  Pos(l, l[p].key) = {p} /\ First(Pos(l, l[p].key)) = p
           /\ Lookup(l, l[p].key) = l[p].value
  <1>1. DOMAIN l = 1 .. Len(l) /\ Len(l) \in Nat
    BY LenProperties DEF Chain
  <1>2. Pos(l, l[p].key) = {p}
    BY <1>1 DEF Pos, Chain
  <1>3. First({p}) = p
    BY <1>1 DEF First
  <1>4. QED
    BY <1>2, <1>3 DEF Lookup

LEMMA LookupIs ==
    ASSUME NEW b \in Buckets, NEW l, Chain(l, b), NEW k \in Keys
    PROVE  /\ Lookup(l, k) \in Values \cup {None}
           /\ Lookup(l, k) = None <=> \A v \in Values : ~Has(l, k, v)
           /\ \A v \in Values : Lookup(l, k) = v <=> Has(l, k, v)
  <1>1. l \in Seq(Entry) /\ DOMAIN l = 1 .. Len(l)
    BY LenProperties DEF Chain
  <1>2. CASE Pos(l, k) = {}
    <2>1. \A v : ~Has(l, k, v)
      BY <1>1, <1>2 DEF Pos, Has
    <2>2. QED
      BY <1>2, <2>1, HashConstants DEF Lookup
  <1>3. CASE Pos(l, k) # {}
    <2>1. PICK p \in 1 .. Len(l) : l[p].key = k
      BY <1>1, <1>3 DEF Pos
    <2>2. Lookup(l, k) = l[p].value /\ l[p].value \in Values
      <3>1. Lookup(l, l[p].key) = l[p].value
        BY OnlyPosition, Zenon
      <3>2. l[p].value \in Values
        BY <1>1, EntryFields, Zenon
      <3>3. QED
        BY <2>1, <3>1, <3>2
    <2>3. ASSUME NEW v \in Values PROVE Has(l, k, v) <=> v = l[p].value
      <3>1. ASSUME Has(l, k, v) PROVE v = l[p].value
        <4>1. PICK i \in 1 .. Len(l) : l[i].key = k /\ l[i].value = v
          BY <3>1 DEF Has
        <4>2. i = p
          BY <2>1, <4>1 DEF Chain
        <4>3. QED
          BY <4>1, <4>2
      <3>2. QED
        BY <2>1, <3>1 DEF Has
    <2>4. QED
      BY <2>2, <2>3, HashConstants
  <1>4. QED
    BY <1>2, <1>3

-----------------------------------------------------------------------------
LEMMA HashInit == Init => HashInv
  <1> SUFFICES ASSUME Init PROVE HashInv
    OBVIOUS
  <1>1. <<>> \in Seq(Entry) /\ Len(<<>>) = 0
    BY EmptySeq
  <1>2. \A b \in Buckets : Chain(list[b], b)
    BY <1>1 DEF Init, Chain
  <1>3. QED
    BY <1>1, <1>2 DEF Init, HashInv, TypeOK, LenIsExact, AskedInv

(* A step that replaces the list of one bucket.                            *)
LEMMA OneBucket ==
    ASSUME HashInv, NEW b \in Buckets, NEW m, Chain(m, b),
           list' = [list EXCEPT ![b] = m], len' = [len EXCEPT ![b] = Len(m)]
    PROVE  /\ list' \in [Buckets -> Seq(Entry)] /\ len' \in [Buckets -> Int]
           /\ LenIsExact' /\ \A c \in Buckets : Chain(list'[c], c)
           /\ list'[b] = m /\ \A c \in Buckets \ {b} : list'[c] = list[c]
  <1>1. m \in Seq(Entry) /\ Len(m) \in Nat
    BY LenProperties DEF Chain
  <1>2. list' \in [Buckets -> Seq(Entry)] /\ len' \in [Buckets -> Int]
        /\ list'[b] = m /\ len'[b] = Len(m)
    BY <1>1 DEF HashInv, TypeOK
  <1>3. \A c \in Buckets \ {b} : list'[c] = list[c] /\ len'[c] = len[c]
    BY DEF HashInv, TypeOK
  <1>4. LenIsExact'
    BY <1>2, <1>3 DEF HashInv, LenIsExact
  <1>5. \A c \in Buckets : Chain(list'[c], c)
    BY <1>2, <1>3 DEF HashInv
  <1>6. QED
    BY <1>2, <1>3, <1>4, <1>5

(* What put does: the new key gets its value, no other key notices.        *)
LEMMA PutStep ==
    ASSUME HashInv, NEW v \in Values, mix_hash_put(v)
    PROVE  HashInv' /\ \A k \in Keys : Found(k)' = IF k = asked THEN v ELSE Found(k)
  <1> DEFINE b == Bucket[asked]
             m == Prepended(list[b], asked, v)
  <1>1. asked \in Keys /\ b \in Buckets /\ Chain(list[b], b) /\ len[b] = Len(list[b])
    BY HashConstants DEF HashInv, TypeOK, LenIsExact, mix_hash_put
  <1>2. \A u \in Values : ~Has(list[b], asked, u)
    BY DEF HashInv, AskedInv, mix_hash_put
  <1>3. list' = [list EXCEPT ![b] = m] /\ len' = [len EXCEPT ![b] = len[b] + 1]
    BY DEF mix_hash_put, Prepended
  <1>4. asked' = None /\ ret' = None /\ kv' = kv
    BY DEF mix_hash_put
  <1>5. Bucket[asked] = b /\ m = Prepended(list[b], asked, v)
    OBVIOUS
  <1> HIDE DEF b, m
  <1>6. /\ Chain(m, b) /\ Len(m) = len[b] + 1
        /\ \A j \in Keys, u \in Values :
              Has(m, j, u) <=> (j = asked /\ u = v) \/ Has(list[b], j, u)
    <2>1. /\ Chain(m, b) /\ Len(m) = Len(list[b]) + 1
          /\ \A j \in Keys, u \in Values :
                Has(m, j, u) <=> (j = asked /\ u = v) \/ Has(list[b], j, u)
      BY <1>1, <1>2, <1>5, PrependChain
    <2>2. QED
      BY <1>1, <2>1, Zenon
  <1>7. /\ list' \in [Buckets -> Seq(Entry)] /\ len' \in [Buckets -> Int]
        /\ LenIsExact' /\ \A c \in Buckets : Chain(list'[c], c)
        /\ list'[b] = m /\ \A c \in Buckets \ {b} : list'[c] = list[c]
    BY <1>1, <1>3, <1>6, OneBucket
  <1>8. HashInv'
    <2>1. TypeOK'
      BY <1>4, <1>7 DEF HashInv, TypeOK
    <2>2. QED
      BY <1>4, <1>7, <2>1 DEF HashInv, AskedInv
  <1>9. ASSUME NEW k \in Keys PROVE Found(k)' = IF k = asked THEN v ELSE Found(k)
    <2>1. Bucket[k] \in Buckets
      BY HashConstants
    <2>2. Found(k) = Lookup(list[Bucket[k]], k) /\ Found(k)' = Lookup(list'[Bucket[k]], k)
      BY FoundIsLookup
    <2>3. CASE Bucket[k] # b
      BY <1>5, <1>7, <2>1, <2>2, <2>3
    <2>4. CASE Bucket[k] = b
      <3>1. \A u \in Values : (Lookup(m, k) = u <=> Has(m, k, u))
                             /\ (Lookup(list[b], k) = u <=> Has(list[b], k, u))
        BY <1>1, <1>6, LookupIs
      <3>2. Lookup(m, k) \in Values \cup {None} /\ Lookup(list[b], k) \in Values \cup {None}
        BY <1>1, <1>6, LookupIs
      <3>3. CASE k = asked
        BY <1>6, <1>7, <2>2, <2>4, <3>1, <3>3
      <3>4. CASE k # asked
        BY <1>6, <1>7, <2>2, <2>4, <3>1, <3>2, <3>4
      <3>5. QED
        BY <3>3, <3>4
    <2>5. QED
      BY <2>3, <2>4
  <1>10. QED
    BY <1>8, <1>9

(* What taking the entry at p of bucket b does, by delete or by pop.       *)
LEMMA RemoveStep ==
    ASSUME HashInv, NEW b \in Buckets, NEW p \in 1 .. Len(list[b]), NEW m \in Seq(Entry),
           Len(m) = Len(list[b]) - 1,
           \A i \in 1 .. Len(m) : m[i] = IF i < p THEN list[b][i] ELSE list[b][i + 1],
           list' = [list EXCEPT ![b] = m], len' = [len EXCEPT ![b] = @ - 1]
    PROVE  /\ list' \in [Buckets -> Seq(Entry)] /\ len' \in [Buckets -> Int]
           /\ LenIsExact' /\ \A c \in Buckets : Chain(list'[c], c)
           /\ \A k \in Keys : Found(k)' = IF k = list[b][p].key THEN None ELSE Found(k)
           /\ \A k \in Keys, u \in Values :
                Has(list'[Bucket[k]], k, u) => Has(list[Bucket[k]], k, u)
  <1>1. Chain(list[b], b) /\ len[b] = Len(list[b])
    BY DEF HashInv, LenIsExact
  <1>2. /\ Chain(m, b)
        /\ \A j \in Keys, u \in Values :
             Has(m, j, u) <=> Has(list[b], j, u) /\ j # list[b][p].key
    BY <1>1, RemovedChain
  <1>3. len' = [len EXCEPT ![b] = Len(m)]
    BY <1>1
  <1>4. /\ list' \in [Buckets -> Seq(Entry)] /\ len' \in [Buckets -> Int]
        /\ LenIsExact' /\ \A c \in Buckets : Chain(list'[c], c)
        /\ list'[b] = m /\ \A c \in Buckets \ {b} : list'[c] = list[c]
    BY <1>2, <1>3, OneBucket
  <1>5. ASSUME NEW k \in Keys
        PROVE  /\ Found(k)' = IF k = list[b][p].key THEN None ELSE Found(k)
               /\ \A u \in Values : Has(list'[Bucket[k]], k, u) => Has(list[Bucket[k]], k, u)
    <2>1. Bucket[k] \in Buckets
      BY HashConstants
    <2>2. Found(k) = Lookup(list[Bucket[k]], k) /\ Found(k)' = Lookup(list'[Bucket[k]], k)
      BY FoundIsLookup
    <2>3. Bucket[list[b][p].key] = b
      BY <1>1 DEF Chain
    <2>4. CASE Bucket[k] # b
      BY <1>4, <2>1, <2>2, <2>3, <2>4
    <2>5. CASE Bucket[k] = b
      <3>1. \A u \in Values : (Lookup(m, k) = u <=> Has(m, k, u))
                             /\ (Lookup(list[b], k) = u <=> Has(list[b], k, u))
        BY <1>1, <1>2, LookupIs
      <3>2. Lookup(m, k) \in Values \cup {None} /\ Lookup(list[b], k) \in Values \cup {None}
        BY <1>1, <1>2, LookupIs
      <3>3. Found(k)' = Lookup(m, k) /\ Found(k) = Lookup(list[b], k)
        BY <1>4, <2>2, <2>5
      <3>4. Found(k)' = IF k = list[b][p].key THEN None ELSE Found(k)
        BY <1>2, <3>1, <3>2, <3>3
      <3>5. QED
        BY <1>2, <1>4, <2>5, <3>4
    <2>6. QED
      BY <2>4, <2>5
  <1>6. QED
    BY <1>4, <1>5

LEMMA GetStep ==
    ASSUME HashInv, NEW k \in Keys, mix_hash_get(k)
    PROVE  HashInv' /\ \A j \in Keys : Found(j)' = Found(j)
  <1>1. list' = list /\ len' = len /\ kv' = kv /\ asked' = k /\ ret' = Found(k)
    BY DEF mix_hash_get
  <1>2. Bucket[k] \in Buckets /\ Chain(list[Bucket[k]], Bucket[k])
    BY HashConstants DEF HashInv
  <1>3. Found(k) = Lookup(list[Bucket[k]], k)
    BY FoundIsLookup
  <1>4. /\ Found(k) \in Values \cup {None}
        /\ Found(k) = None <=> \A v \in Values : ~Has(list[Bucket[k]], k, v)
        /\ \A v \in Values : Found(k) = v <=> Has(list[Bucket[k]], k, v)
    BY <1>2, <1>3, LookupIs
  <1>5. AskedInv'
    BY <1>1, <1>4 DEF AskedInv
  <1>6. TypeOK' /\ LenIsExact'
    BY <1>1, <1>4 DEF HashInv, TypeOK, LenIsExact
  <1>7. HashInv'
    BY <1>1, <1>5, <1>6 DEF HashInv
  <1>8. \A j \in Keys : Found(j)' = Found(j)
    BY <1>1, FoundIsLookup
  <1>9. QED
    BY <1>7, <1>8

(* What delete does to a key that was found: it is gone, and only it.      *)
LEMMA DeleteStep ==
    ASSUME HashInv, mix_hash_delete
    PROVE  HashInv' /\ \A k \in Keys : Found(k)' = IF k = asked THEN None ELSE Found(k)
  <1>1. asked \in Keys /\ ret # None /\ asked' = None /\ ret' = None /\ kv' = kv
    BY DEF mix_hash_delete, HashInv, TypeOK
  <1>2. Bucket[asked] \in Buckets /\ Chain(list[Bucket[asked]], Bucket[asked])
    BY <1>1, HashConstants DEF HashInv
  <1>3. PICK p \in 1 .. Len(list[Bucket[asked]]) : list[Bucket[asked]][p].key = asked
    BY <1>1, HashConstants DEF HashInv, AskedInv, Has
  <1>4. Positions(asked) # {} /\ First(Positions(asked)) = p
    <2> DEFINE l == list[Bucket[asked]]
    <2>1. Bucket[asked] \in Buckets /\ Chain(l, Bucket[asked]) /\ p \in 1 .. Len(l)
      BY <1>2
    <2>2. Positions(asked) = Pos(l, asked)
      BY DEF Pos, Positions
    <2>3. l[p].key = asked
      BY <1>3
    <2> HIDE DEF l
    <2>4. Pos(l, l[p].key) = {p} /\ First(Pos(l, l[p].key)) = p
      BY <2>1, OnlyPosition, Zenon
    <2>5. QED
      BY <2>2, <2>3, <2>4
  <1>5. /\ list' = [list EXCEPT ![Bucket[asked]] = Without(list[Bucket[asked]], p)]
        /\ len' = [len EXCEPT ![Bucket[asked]] = @ - 1]
    BY <1>4 DEF mix_hash_delete
  <1>6. list[Bucket[asked]] \in Seq(Entry)
    BY <1>2 DEF Chain
  <1>7. /\ Without(list[Bucket[asked]], p) \in Seq(Entry)
        /\ Len(Without(list[Bucket[asked]], p)) = Len(list[Bucket[asked]]) - 1
        /\ \A i \in 1 .. Len(list[Bucket[asked]]) - 1 :
             Without(list[Bucket[asked]], p)[i] =
               IF i < p THEN list[Bucket[asked]][i] ELSE list[Bucket[asked]][i + 1]
    BY <1>6, WithoutIs
  <1>8. /\ list' \in [Buckets -> Seq(Entry)] /\ len' \in [Buckets -> Int]
        /\ LenIsExact' /\ \A c \in Buckets : Chain(list'[c], c)
        /\ \A k \in Keys : Found(k)' = IF k = list[Bucket[asked]][p].key THEN None ELSE Found(k)
    BY <1>2, <1>5, <1>7, RemoveStep
  <1>9. HashInv'
    BY <1>1, <1>8 DEF HashInv, TypeOK, AskedInv
  <1>10. QED
    BY <1>3, <1>8, <1>9

(* What a migrate thread does to a bucket: its head is gone from the map.  *)
LEMMA PopStep ==
    ASSUME HashInv, NEW b \in Buckets, mix_hash_get_entry_by_idx(b), len[b] > 0
    PROVE  /\ HashInv'
           /\ Head(list[b]) \in Entry /\ kv' = Head(list[b])
           /\ Found(Head(list[b]).key) = Head(list[b]).value
           /\ \A k \in Keys : Found(k)' = IF k = Head(list[b]).key THEN None ELSE Found(k)
  <1>1. list[b] \in Seq(Entry) /\ Len(list[b]) > 0 /\ Chain(list[b], b)
    BY DEF HashInv, LenIsExact, Chain
  <1>2. list[b] # <<>> /\ 1 \in 1 .. Len(list[b])
    BY <1>1, LenProperties, EmptySeq
  <1>3. Head(list[b]) = list[b][1]
    BY <1>1, <1>2
  <1>4. /\ Tail(list[b]) \in Seq(Entry)
        /\ Len(Tail(list[b])) = Len(list[b]) - 1
        /\ \A i \in 1 .. Len(Tail(list[b])) : Tail(list[b])[i] = list[b][i + 1]
    BY <1>1, <1>2, HeadTailProperties
  <1>5. /\ list' = [list EXCEPT ![b] = Tail(list[b])] /\ len' = [len EXCEPT ![b] = @ - 1]
        /\ kv' = Head(list[b]) /\ ret' = None /\ asked' = IF ret = None THEN asked ELSE None
    BY DEF mix_hash_get_entry_by_idx
  <1>6. \A i \in 1 .. Len(Tail(list[b])) :
            Tail(list[b])[i] = IF i < 1 THEN list[b][i] ELSE list[b][i + 1]
    BY <1>4, LenProperties
  <1>7. /\ list' \in [Buckets -> Seq(Entry)] /\ len' \in [Buckets -> Int]
        /\ LenIsExact' /\ \A c \in Buckets : Chain(list'[c], c)
        /\ \A k \in Keys : Found(k)' = IF k = list[b][1].key THEN None ELSE Found(k)
        /\ \A k \in Keys, u \in Values :
             Has(list'[Bucket[k]], k, u) => Has(list[Bucket[k]], k, u)
    BY <1>2, <1>4, <1>5, <1>6, RemoveStep
  <1>8. list[b][1] \in Entry /\ list[b][1].key \in Keys
    BY <1>1, <1>2, EntryFields
  <1>9. Found(list[b][1].key) = list[b][1].value
    <2>1. Bucket[list[b][1].key] = b
      BY <1>1, <1>2 DEF Chain
    <2>2. Lookup(list[b], list[b][1].key) = list[b][1].value
      BY <1>1, <1>2, OnlyPosition
    <2>3. QED
      BY <1>8, <2>1, <2>2, FoundIsLookup
  <1>10. TypeOK'
    BY <1>3, <1>5, <1>7, <1>8 DEF HashInv, TypeOK
  <1>11. AskedInv'
    BY <1>5, <1>7 DEF HashInv, TypeOK, AskedInv
  <1>12. HashInv'
    BY <1>7, <1>10, <1>11 DEF HashInv
  <1>13. QED
    BY <1>3, <1>5, <1>7, <1>8, <1>9, <1>12

(* It finds nothing in a bucket exactly when no key of the bucket is there.*)
LEMMA PopNothingStep ==
    ASSUME HashInv, NEW b \in Buckets, mix_hash_get_entry_by_idx(b), ~(len[b] > 0)
    PROVE  /\ HashInv' /\ kv' = NoEntry
           /\ \A k \in Keys : Found(k)' = Found(k)
           /\ \A k \in Keys : Bucket[k] = b => Found(k) = None
  <1>1. list' = list /\ len' = len /\ kv' = NoEntry /\ ret' = None
        /\ asked' = IF ret = None THEN asked ELSE None
    BY DEF mix_hash_get_entry_by_idx
  <1>2. TypeOK' /\ LenIsExact' /\ AskedInv'
    BY <1>1 DEF HashInv, TypeOK, LenIsExact, AskedInv
  <1>3. HashInv'
    BY <1>1, <1>2 DEF HashInv
  <1>4. \A k \in Keys : Found(k)' = Found(k)
    BY <1>1, FoundIsLookup
  <1>5. list[b] \in Seq(Entry) /\ Len(list[b]) = 0
    <2>1. list[b] \in Seq(Entry) /\ len[b] = Len(list[b])
      BY DEF HashInv, LenIsExact, Chain
    <2>2. QED
      BY <2>1, LenProperties
  <1>6. ASSUME NEW k \in Keys, Bucket[k] = b PROVE Found(k) = None
    <2>1. Pos(list[b], k) = {}
      BY <1>5, LenProperties DEF Pos
    <2>2. QED
      BY <1>6, <2>1, FoundIsLookup DEF Lookup
  <1>7. QED
    BY <1>1, <1>3, <1>4, <1>6

LEMMA HashNext == HashInv /\ [Next]_vars => HashInv'
  <1> SUFFICES ASSUME HashInv, [Next]_vars PROVE HashInv'
    OBVIOUS
  <1>1. CASE \E k \in Keys : mix_hash_get(k)
    BY <1>1, GetStep
  <1>2. CASE \E v \in Values : mix_hash_put(v)
    BY <1>2, PutStep
  <1>3. CASE mix_hash_delete
    BY <1>3, DeleteStep
  <1>4. CASE \E b \in Buckets : mix_hash_get_entry_by_idx(b)
    BY <1>4, PopStep, PopNothingStep
  <1>5. CASE UNCHANGED vars
    BY <1>5 DEF vars, HashInv, TypeOK, LenIsExact, AskedInv
  <1>6. QED
    BY <1>1, <1>2, <1>3, <1>4, <1>5 DEF Next

LEMMA HashInvariant == Spec => []HashInv
  <1>1. QED
    BY HashInit, HashNext, PTL DEF Spec

(* Every variable of the hash keeps its type.                              *)
THEOREM HashTypes == Spec => []TypeOK
  <1>1. HashInv => TypeOK
    BY DEF HashInv
  <1>2. QED
    BY <1>1, HashInvariant, PTL

(* hash_nodes[i].len is the length of the list through every mixture of    *)
(* calls, so that mix_hash_get_entry_by_idx never takes the head of an     *)
(* empty list.                                                             *)
THEOREM LenIsExactHolds == Spec => []LenIsExact
  <1>1. HashInv => LenIsExact
    BY DEF HashInv
  <1>2. QED
    BY <1>1, HashInvariant, PTL

(* mix_hash_put, which does not look for the key, makes no second entry.   *)
THEOREM OneEntryPerKeyHolds == Spec => []OneEntryPerKey
  <1>1. ASSUME HashInv PROVE OneEntryPerKey
    <2>1. \A b \in Buckets : DOMAIN list[b] = 1 .. Len(list[b])
      BY <1>1, LenProperties DEF HashInv, Chain
    <2>2. QED
      BY <1>1, <2>1 DEF HashInv, Chain, OneEntryPerKey
  <1>2. QED
    BY <1>1, HashInvariant, PTL

-----------------------------------------------------------------------------
FoundMap == [k \in Keys |-> Found(k)]

LEMMA MapInit == Init => Map!Init
  <1> SUFFICES ASSUME Init PROVE Map!Init
    OBVIOUS
  <1>1. ASSUME NEW k \in Keys PROVE Found(k) = None
    <2>1. list[Bucket[k]] = <<>>
      BY HashConstants DEF Init
    <2>2. DOMAIN list[Bucket[k]] = {}
      BY <2>1
    <2>3. QED
      BY <2>2 DEF Found, Positions
  <1>2. QED
    BY <1>1 DEF Init, Map!Init, NoEntry, Map!NoEntry

LEMMA MapNext == HashInv /\ [Next]_vars => [Map!Next]_(Map!vars)
  <1> SUFFICES ASSUME HashInv, [Next]_vars PROVE [Map!Next]_(Map!vars)
    OBVIOUS
  <1>0. ASSUME \A k \in Keys : Found(k)' = Found(k) PROVE FoundMap' = FoundMap
    BY <1>0 DEF FoundMap
  <1>1. CASE \E k \in Keys : mix_hash_get(k)
    <2>1. PICK k \in Keys : mix_hash_get(k)
      BY <1>1
    <2>2. FoundMap' = FoundMap
      BY <1>0, <2>1, GetStep
    <2>3. FoundMap[k] = Found(k)
      BY DEF FoundMap
    <2>4. Map!Get(k)
      BY <2>1, <2>2, <2>3 DEF mix_hash_get, Map!Get, FoundMap
    <2>5. QED
      BY <2>4 DEF Map!Next
  <1>2. CASE \E v \in Values : mix_hash_put(v)
    <2>1. PICK v \in Values : mix_hash_put(v)
      BY <1>2
    <2>2. \A k \in Keys : Found(k)' = IF k = asked THEN v ELSE Found(k)
      BY <2>1, PutStep
    <2>3. FoundMap' = [FoundMap EXCEPT ![asked] = v]
      BY <2>2 DEF FoundMap
    <2>4. Map!Put(v)
      BY <2>1, <2>3 DEF mix_hash_put, Map!Put, FoundMap
    <2>5. QED
      BY <2>4 DEF Map!Next
  <1>3. CASE mix_hash_delete
    <2>1. \A k \in Keys : Found(k)' = IF k = asked THEN None ELSE Found(k)
      BY <1>3, DeleteStep
    <2>2. FoundMap' = [FoundMap EXCEPT ![asked] = None]
      BY <2>1 DEF FoundMap
    <2>3. Map!Delete
      BY <1>3, <2>2 DEF mix_hash_delete, Map!Delete, FoundMap
    <2>4. QED
      BY <2>3 DEF Map!Next
  <1>4. CASE \E b \in Buckets : mix_hash_get_entry_by_idx(b)
    <2>1. PICK b \in Buckets : mix_hash_get_entry_by_idx(b)
      BY <1>4
    <2>2. Map!Forget
      BY <2>1 DEF mix_hash_get_entry_by_idx, Map!Forget
    <2>3. CASE len[b] > 0
      <3> DEFINE e == Head(list[b])
      <3>1. /\ e \in Entry /\ kv' = e /\ Found(e.key) = e.value
            /\ \A k \in Keys : Found(k)' = IF k = e.key THEN None ELSE Found(k)
        BY <2>1, <2>3, PopStep
      <3> HIDE DEF e
      <3>2. e.key \in Keys /\ e.value \in Values /\ e.value # None
            /\ e = [key |-> e.key, value |-> e.value]
        BY <3>1, HashConstants DEF Entry
      <3>3. FoundMap' = [FoundMap EXCEPT ![e.key] = None] /\ FoundMap[e.key] = e.value
        BY <3>1, <3>2 DEF FoundMap
      <3>4. Map!Pop(e.key)
        BY <2>2, <3>1, <3>2, <3>3 DEF Map!Pop, FoundMap
      <3>5. QED
        BY <3>2, <3>4 DEF Map!Next
    <2>4. CASE ~(len[b] > 0)
      <3>1. /\ kv' = NoEntry /\ \A k \in Keys : Found(k)' = Found(k)
            /\ \A k \in Keys : Bucket[k] = b => Found(k) = None
        BY <2>1, <2>4, PopNothingStep
      <3>2. FoundMap' = FoundMap
        BY <1>0, <3>1
      <3>3. Map!PopNothing({k \in Keys : Bucket[k] = b})
        BY <2>2, <3>1, <3>2 DEF Map!PopNothing, FoundMap, NoEntry, Map!NoEntry
      <3>4. QED
        BY <3>3 DEF Map!Next
    <2>5. QED
      BY <2>3, <2>4
  <1>5. CASE UNCHANGED vars
    <2>1. FoundMap' = FoundMap
      BY <1>5 DEF vars, FoundMap, Found, Positions
    <2>2. QED
      BY <1>5, <2>1 DEF vars, Map!vars, FoundMap
  <1>6. QED
    BY <1>1, <1>2, <1>3, <1>4, <1>5 DEF Next

(* For callers that test a key before they put or delete it, as            *)
(* redirect_write and mix_clear_block do, the chained hash is the map that *)
(* mix_meta.c takes it for.                                                *)
THEOREM HashImplementsMap == Spec => MapSpec
  <1>1. QED
    BY MapInit, MapNext, HashInvariant, PTL DEF Spec, MapSpec, Map!Spec

=============================================================================
