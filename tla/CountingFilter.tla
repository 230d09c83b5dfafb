--------------------------- MODULE CountingFilter ---------------------------
(***************************************************************************)
(* The counting Bloom filter of mix_bloom_filter.c and its counters, which *)
(* mix_bitmap.c packs two to a byte: the even one in the high half, the    *)
(* odd one in the low half.  A counter does not go past its maximum, and   *)
(* the refusal is not told to the caller.  The comment above the functions *)
(* (mix_bitmap.c:123-125) has three bits for a counter and 8 for its       *)
(* maximum; the functions mask four bits and refuse at 15, and Half is     *)
(* what they do.  mix_metadata_init makes one filter per segment; the      *)
(* calls in mix_meta.c that add a key with its first block and remove it   *)
(* with its last are commented out, and the callers here are those: a key  *)
(* is removed as often as it was added.                                    *)
(*                                                                         *)
(* Abstraction.  The two words of Murmur's checksum that are used may be   *)
(* any two words for each key.                                             *)
(***************************************************************************)
EXTENDS Integers, FiniteSets

CONSTANTS Keys,
          H1, H2,          \* checksum[0] and checksum[1] of each key
          Word,            \* 2^32, the range of a uint32_t
          NFuncs,          \* nfuncs
          CountsPerFunc,   \* counts_per_func
          MaxAdds          \* bound: how often a key is in the filter

Funcs == 0 .. NFuncs - 1
Cells == 0 .. NFuncs * CountsPerFunc - 1
NumBytes == (NFuncs * CountsPerFunc + 1) \div 2     \* without the header

Half == 16      \* the values of half a byte

ASSUME FilterConstants ==
    /\ IsFiniteSet(Keys)
    /\ {Word, NFuncs, CountsPerFunc, MaxAdds} \subseteq Nat \ {0}
    /\ H1 \in [Keys -> 0 .. Word - 1] /\ H2 \in [Keys -> 0 .. Word - 1]

VARIABLES array,    \* the bytes after the header
          count,    \* header->count
          held,     \* history: how often each key was added and not removed
          refused   \* history: the counters that have refused to go up

vars == <<array, count, held, refused>>

TypeOK ==
    /\ array \in [0 .. NumBytes - 1 -> 0 .. Half * Half - 1]
    /\ count \in Nat
    /\ held \in [Keys -> 0 .. MaxAdds]
    /\ refused \subseteq Cells

Init ==
    /\ array = [i \in 0 .. NumBytes - 1 |-> 0]
    /\ count = 0
    /\ held = [k \in Keys |-> 0]
    /\ refused = {}

-----------------------------------------------------------------------------
(* mix_counting_bitmap_check, as a number below Half.                      *)
Counter(a, c) == IF c % 2 # 0 THEN a[c \div 2] % Half ELSE a[c \div 2] \div Half

Unit(c) == IF c % 2 # 0 THEN 1 ELSE Half

(* Error: three bits are compared, as the comment above the function has it.*)
IncrementThreeBits(a, c) ==
    IF Counter(a, c) % (Half \div 2) = Half \div 2 - 1 THEN a
                                                       ELSE [a EXCEPT ![c \div 2] = @ + Unit(c)]

(* Error: no look at the old value; the counter runs into its neighbour.   *)
IncrementUnchecked(a, c) == [a EXCEPT ![c \div 2] = (@ + Unit(c)) % (Half * Half)]

Increment(a, c) ==
    IF Counter(a, c) = Half - 1 THEN a ELSE [a EXCEPT ![c \div 2] = @ + Unit(c)]

(* Error: the same for the way down.                                       *)
DecrementUnchecked(a, c) == [a EXCEPT ![c \div 2] = @ - Unit(c)]

Decrement(a, c) ==
    IF Counter(a, c) = 0 THEN a ELSE [a EXCEPT ![c \div 2] = @ - Unit(c)]

(* hash_func, and the row of counters that belongs to function i.          *)
Index(k, i) == (((H1[k] + i * H2[k]) % Word) % CountsPerFunc) + i * CountsPerFunc

CellsOf(k) == {Index(k, i) : i \in Funcs}

(* The loops over the functions: the counters of k one after the other.    *)
Incremented(k) ==
    LET a[i \in 0 .. NFuncs] == IF i = 0 THEN array ELSE Increment(a[i - 1], Index(k, i - 1))
    IN  a[NFuncs]

Decremented(k) ==
    LET a[i \in 0 .. NFuncs] == IF i = 0 THEN array ELSE Decrement(a[i - 1], Index(k, i - 1))
    IN  a[NFuncs]

mix_counting_bloom_filter_add(k) ==
    /\ held[k] < MaxAdds
    /\ held' = [held EXCEPT ![k] = @ + 1]
    /\ array' = Incremented(k)
    /\ refused' = refused \cup {c \in CellsOf(k) : Counter(array, c) = Half - 1}
    /\ count' = count + 1

mix_counting_bloom_filter_remove(k) ==
    /\ held[k] > 0
    /\ held' = [held EXCEPT ![k] = @ - 1]
    /\ array' = Decremented(k)
    /\ count' = count - 1
    /\ UNCHANGED refused

(* mix_counting_bloom_filter_test                                          *)
MayContain(k) == \A c \in CellsOf(k) : Counter(array, c) # 0

Next ==
    \E k \in Keys :
        mix_counting_bloom_filter_add(k) \/ mix_counting_bloom_filter_remove(k)

Spec == Init /\ [][Next]_vars

-----------------------------------------------------------------------------
(* Every time a key was added and not removed                              *)
Entries == {e \in Keys \X (1 .. MaxAdds) : e[2] <= held[e[1]]}

(* How often the keys that are counted in c are in the filter.             *)
Held(c) == Cardinality({e \in Entries : c \in CellsOf(e[1])})

(* A counter counts the keys that use it, whatever its neighbour in the    *)
(* byte does; after a refusal it may count too few and never too many.  It *)
(* refuses at 15, so that this also holds of the counts from 9 on, which   *)
(* the comment at mix_bitmap.c:123-125 says a counter does not have.       *)
CellCounts ==
    \A c \in Cells : Counter(array, c) <= Held(c)
                    /\ (c \notin refused => Counter(array, c) = Held(c))

(* "0: certainly not in the filter", for a key none of whose counters ever *)
(* refused.                                                                *)
ZeroMeansAbsent ==
    \A k \in Keys : ~MayContain(k) => held[k] = 0 \/ CellsOf(k) \cap refused # {}

=============================================================================
