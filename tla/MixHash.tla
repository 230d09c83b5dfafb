------------------------------ MODULE MixHash ------------------------------
(***************************************************************************)
(* The chained hash table of mix_hash.c: HashSize buckets, each a list of  *)
(* entries and its length, kept separately.  mix_hash_put prepends without *)
(* looking for the key, mix_hash_delete removes the first entry of the key *)
(* if there is one and counts down in any case, and                        *)
(* mix_hash_get_entry_by_idx takes the head of a list on the word of its   *)
(* length.  It is a map only for callers that put absent keys and delete   *)
(* present ones, as redirect_write and mix_clear_block do, after a         *)
(* mix_hash_get that no other thread can outdate: a segment's hash is used *)
(* by its worker, or by the migrate threads (MigratePool), each on its own *)
(* buckets.                                                                *)
(***************************************************************************)
EXTENDS Integers, Sequences

CONSTANTS Keys,      \* block numbers
          Values,    \* blocks of the segment
          HashSize,  \* hash_size
          Bucket,    \* mix_hash_hash
          None       \* -1

Buckets == 0 .. HashSize - 1

ASSUME HashConstants ==
    /\ HashSize \in Nat \ {0}
    /\ Bucket \in [Keys -> Buckets]
    /\ None \notin Keys \cup Values

VARIABLES list,   \* the entries of each bucket, the head first
          len,    \* hash_nodes[i].len
          asked,  \* the key the worker tested last and acts upon, or None
          ret,    \* the value mix_hash_get found for it
          kv      \* what mix_hash_get_entry_by_idx returned last

vars == <<list, len, asked, ret, kv>>

Entry == [key : Keys, value : Values]
NoEntry == [key |-> None, value |-> None]

TypeOK ==
    /\ list \in [Buckets -> Seq(Entry)]
    /\ len \in [Buckets -> Int]
    /\ asked \in Keys \cup {None}
    /\ ret \in Values \cup {None}
    /\ kv \in Entry \cup {NoEntry}

Init ==
    /\ list = [b \in Buckets |-> <<>>]
    /\ len = [b \in Buckets |-> 0]
    /\ asked = None
    /\ ret = None
    /\ kv = NoEntry

-----------------------------------------------------------------------------
(* The positions of a key in its bucket.                                   *)
Positions(k) == {i \in DOMAIN list[Bucket[k]] : list[Bucket[k]][i].key = k}

First(S) == CHOOSE i \in S : \A j \in S : i <= j

(* Error: the walk ends at the head.                                       *)
FoundAtHead(k) ==
    IF 1 \in Positions(k) THEN list[Bucket[k]][1].value ELSE None

(* What the walk of mix_hash_get finds: the value of the first entry.      *)
Found(k) ==
    IF Positions(k) = {} THEN None
                         ELSE list[Bucket[k]][First(Positions(k))].value

(* Error: the link skips the successor too.                                *)
WithoutTwo(s, i) == SubSeq(s, 1, i - 1) \o SubSeq(s, i + 2, Len(s))

Without(s, i) == SubSeq(s, 1, i - 1) \o SubSeq(s, i + 1, Len(s))

mix_hash_get(k) ==
    /\ ret' = Found(k)
    /\ asked' = k
    /\ UNCHANGED <<list, len, kv>>

(* Error: key and value change places.                                     *)
PutSwapped(v) ==
    /\ asked # None /\ ret = None
    /\ list' = [list EXCEPT ![Bucket[asked]] = <<[key |-> v, value |-> asked]>> \o @]
    /\ len' = [len EXCEPT ![Bucket[asked]] = @ + 1]
    /\ asked' = None /\ ret' = None
    /\ UNCHANGED kv

(* By mix_write_redirect_blockmeta, for a key that was not in the buffer.  *)
mix_hash_put(v) ==
    /\ asked # None /\ ret = None
    /\ list' = [list EXCEPT ![Bucket[asked]] = <<[key |-> asked, value |-> v]>> \o @]
    /\ len' = [len EXCEPT ![Bucket[asked]] = @ + 1]
    /\ asked' = None /\ ret' = None
    /\ UNCHANGED kv

(* Error: the length is counted down only when the entry was not the head. *)
DeleteHeadUncounted ==
    /\ asked # None /\ ret # None
    /\ LET b == Bucket[asked]
           i == First(Positions(asked))
       IN  /\ list' = [list EXCEPT ![b] = Without(@, i)]
           /\ len' = [len EXCEPT ![b] = IF i = 1 THEN @ ELSE @ - 1]
    /\ asked' = None /\ ret' = None
    /\ UNCHANGED kv

(* By mix_clear_block, for a key whose value it has just got.              *)
mix_hash_delete ==
    /\ asked # None /\ ret # None
    /\ LET b == Bucket[asked]
       IN  /\ list' = [list EXCEPT ![b] =
                         IF Positions(asked) = {} THEN @
                                                  ELSE Without(@, First(Positions(asked)))]
           /\ len' = [len EXCEPT ![b] = @ - 1]
    /\ asked' = None /\ ret' = None
    /\ UNCHANGED kv

(* By the migrate thread that empties bucket b.  A worker that missed its  *)
(* key before the migration puts it afterwards without another test; one   *)
(* that found it has used what it found by then.                           *)
mix_hash_get_entry_by_idx(b) ==
    /\ IF len[b] > 0
         THEN /\ kv' = Head(list[b])
              /\ list' = [list EXCEPT ![b] = Tail(@)]
              /\ len' = [len EXCEPT ![b] = @ - 1]
         ELSE kv' = NoEntry /\ UNCHANGED <<list, len>>
    /\ asked' = IF ret = None THEN asked ELSE None
    /\ ret' = None

Next ==
    \/ \E k \in Keys : mix_hash_get(k)
    \/ \E v \in Values : mix_hash_put(v)
    \/ mix_hash_delete
    \/ \E b \in Buckets : mix_hash_get_entry_by_idx(b)

Spec == Init /\ [][Next]_vars

-----------------------------------------------------------------------------
(* The length of a bucket is that of its list, through every mixture of    *)
(* puts, deletes and pops: mix_hash_get_entry_by_idx never takes the head  *)
(* of an empty list and never leaves an entry behind.                      *)
LenIsExact == \A b \in Buckets : len[b] = Len(list[b])

(* No entry is hidden behind another of the same key, to come back when    *)
(* that one is deleted.                                                    *)
OneEntryPerKey ==
    \A b \in Buckets : \A i, j \in DOMAIN list[b] :
        list[b][i].key = list[b][j].key => i = j

Map == INSTANCE KeyMap WITH map <- [k \in Keys |-> Found(k)]

(* Used this way the table is the map NvmWorker takes it for.              *)
MapSpec == Map!Spec

=============================================================================
