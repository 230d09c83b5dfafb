------------------------------- MODULE KeyMap -------------------------------
(***************************************************************************)
(* What mix_meta.c expects of a hash: a map with at most one value per     *)
(* key, that can be asked, changed at the key that was asked for last, and *)
(* emptied entry by entry in any order.                                    *)
(***************************************************************************)
CONSTANTS Keys, Values, None

VARIABLES map,    \* the value of each key, or None
          asked,  \* the key the caller tested last, or None
          ret,    \* what it found
          kv      \* the entry popped last

vars == <<map, asked, ret, kv>>

NoEntry == [key |-> None, value |-> None]

Init == map = [k \in Keys |-> None] /\ asked = None /\ ret = None /\ kv = NoEntry

(* mix_hash_get *)
Get(k) ==
    /\ ret' = map[k]
    /\ asked' = k
    /\ UNCHANGED <<map, kv>>

(* mix_hash_put, by a caller that has just found the key absent.           *)
Put(v) ==
    /\ asked # None /\ ret = None
    /\ map' = [map EXCEPT ![asked] = v]
    /\ asked' = None /\ ret' = None
    /\ UNCHANGED kv

(* mix_hash_delete, by a caller that has just found the key.               *)
Delete ==
    /\ asked # None /\ ret # None
    /\ map' = [map EXCEPT ![asked] = None]
    /\ asked' = None /\ ret' = None
    /\ UNCHANGED kv

(* A key that was found may be gone after the next pop; a key that was not *)
(* found stays absent.                                                     *)
Forget ==
    /\ asked' = IF ret = None THEN asked ELSE None
    /\ ret' = None

(* mix_hash_get_entry_by_idx, when it returns an entry ...                 *)
Pop(k) ==
    /\ map[k] # None
    /\ map' = [map EXCEPT ![k] = None]
    /\ kv' = [key |-> k, value |-> map[k]]
    /\ Forget

(* ... and when the bucket, a set of keys, is empty.                       *)
PopNothing(K) ==
    /\ \A k \in K : map[k] = None
    /\ kv' = NoEntry
    /\ UNCHANGED map
    /\ Forget

Next ==
    \/ \E k \in Keys : Get(k) \/ Pop(k)
    \/ \E v \in Values : Put(v)
    \/ \E K \in SUBSET Keys : PopNothing(K)
    \/ Delete

Spec == Init /\ [][Next]_vars

=============================================================================
