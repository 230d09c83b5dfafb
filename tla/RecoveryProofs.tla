--------------------------- MODULE RecoveryProofs ---------------------------
(***************************************************************************)
(* Proofs about start-up and about what a power failure leaves, for every  *)
(* number of workers, migrate threads, blocks, keys and events:            *)
(* ServesRebuilt from the inductive invariant GateInv, RebuildsFromCleared *)
(* from GateInv and ClearInv, TypeOK, CountedIsDurable and IndexedIsCounted*)
(* with LockInv, PlacesInv, StoresInv and KeptInv, and BlocksDescribeIndex *)
(* with DescribedInv.                                                      *)
(***************************************************************************)
EXTENDS Recovery, FiniteSetTheorems, TLAPS

Serving == {"alloc", "store", "count", "migrate"}
Done == {w \in Workers : wpc[w] \notin AtGate}

(* Where the threads are: rebuild_num counts the workers past the gate,    *)
(* and only the scheduler makes one of them work.                          *)
GateInv ==
    /\ wpc \in [Workers -> AtGate \cup {"idle"} \cup Serving]
    /\ rebuild_num = Cardinality(Done)
    /\ ipc \in {"create", "mmap", "clear", "broadcast", "spin", "serve"}
    /\ ipc = "create" => \A w \in Workers : wpc[w] = "none"
    /\ ipc = "serve" => Done = Workers
    /\ \A w \in Workers : wpc[w] \in Serving => ipc = "serve"
    /\ lock # "free" => ipc = "serve"
    /\ mpc = [t \in Threads |-> mpc[t]]
    /\ \A t \in Threads : mpc[t] # "none" => ipc = "serve"

(* Where the stores are: nothing waits in a write buffer when the gate     *)
(* opens but the cleared metas, and none of them when it is open.          *)
ClearInv ==
    /\ wc = [t \in Writers |-> wc[t]]
    /\ DOMAIN nvm = Blocks /\ \A b \in Blocks : "status" \in DOMAIN nvm[b]
    /\ rebuild \in BOOLEAN
    /\ \A w \in Workers : wpc[w] = "rebuild" => rebuild
    /\ rebuild => ipc \in {"spin", "serve"}
    /\ ipc # "serve" => \A t \in Writers \ {"init"} : wc[t] = {}
    /\ ipc # "broadcast" => wc["init"] = {}
    /\ wc["init"] \subseteq ClearedMeta
    /\ ipc = "broadcast" =>
         \A b \in Blocks : nvm[b].status = 0 \/ <<b, "status", 0>> \in wc["init"]
    /\ ipc = "spin" => Valid = {}

-----------------------------------------------------------------------------
LEMMA DoneFinite ==
    /\ Cardinality(Workers) \in Nat
    /\ \A D \in SUBSET Workers :
         /\ IsFiniteSet(D) /\ Cardinality(D) \in Nat
         /\ Cardinality(D) >= Cardinality(Workers) => D = Workers
  <1>1. IsFiniteSet(Workers) /\ Cardinality(Workers) \in Nat
    BY RecoveryConstants, FS_CardinalityType
  <1>2. ASSUME NEW D \in SUBSET Workers
        PROVE  /\ IsFiniteSet(D) /\ Cardinality(D) \in Nat
               /\ Cardinality(D) >= Cardinality(Workers) => D = Workers
    <2>1. IsFiniteSet(D) /\ Cardinality(D) <= Cardinality(Workers)
          /\ (Cardinality(Workers) = Cardinality(D) => Workers = D)
      BY <1>1, FS_Subset
    <2>2. Cardinality(D) \in Nat
      BY <2>1, FS_CardinalityType
    <2>3. QED
      BY <1>1, <2>1, <2>2
  <1>3. QED
    BY <1>1, <1>2

(* A step of a worker that stays on its side of the gate.                  *)
LEMMA SameSide ==
    ASSUME GateInv, NEW w \in Workers, NEW from, NEW to, Goto(w, from, to),
           to \in AtGate \cup {"idle"} \cup Serving,
           from \in AtGate <=> to \in AtGate
    PROVE  wpc' \in [Workers -> AtGate \cup {"idle"} \cup Serving] /\ Done' = Done
  BY DEF GateInv, Goto, Done

LEMMA GateInit == Init => GateInv
  <1> SUFFICES ASSUME Init PROVE GateInv
    OBVIOUS
  <1>1. Done = {}
    BY DEF Init, Done, AtGate
  <1>2. QED
    BY <1>1, FS_EmptySet DEF Init, GateInv, AtGate, Serving

(* A worker passes the gate: the count and the set grow together.          *)
LEMMA RebuildKeepsGate ==
    ASSUME GateInv, NEW w \in Workers, Rebuild(w)
    PROVE  GateInv'
  <1>1. w \notin Done /\ Done' = Done \cup {w}
    BY DEF GateInv, Rebuild, Goto, Done, AtGate
  <1>2. Cardinality(Done \cup {w}) = Cardinality(Done) + 1
    <2>1. Done \in SUBSET Workers
      BY DEF Done
    <2>2. QED
      BY <1>1, <2>1, DoneFinite, FS_AddElement
  <1>3. ipc # "serve"
    BY <1>1 DEF GateInv
  <1>4. QED
    BY <1>1, <1>2, <1>3 DEF GateInv, Rebuild, Goto, mutex, movers, AtGate, Serving

LEMMA GateNext ==
    ASSUME GateInv, [Next]_vars
    PROVE  GateInv'
  <1> USE DEF boot, mutex, movers
  <1>0. 0 \in Workers
    BY RecoveryConstants
  <1>1. CASE CreateWorkers
    <2>1. Done = {} /\ Done' = {}
      BY <1>1 DEF GateInv, CreateWorkers, Advance, Done, AtGate
    <2>2. QED
      BY <1>1, <2>1 DEF GateInv, CreateWorkers, Advance, AtGate, Serving
  <1>2. CASE mix_mmap \/ ClearMetas
    BY <1>2 DEF GateInv, mix_mmap, ClearMetas, Advance, Done
  <1>3. CASE OpenGate
    <2>1. Done' = Done
      BY <1>3 DEF GateInv, OpenGate, Notified, Done, AtGate
    <2>2. QED
      BY <1>3, <2>1 DEF GateInv, OpenGate, Advance, Notified, AtGate, Serving
  <1>4. CASE StartScheduler
    <2>1. Done \in SUBSET Workers /\ Done' = Done
      BY <1>4 DEF Done, StartScheduler
    <2>2. Done = Workers
      BY <1>4, <2>1, DoneFinite DEF GateInv, StartScheduler, AllRebuilt
    <2>3. QED
      BY <1>4, <2>1, <2>2 DEF GateInv, StartScheduler, Advance
  <1>5. CASE PowerFails
    <2>1. Done' = {}
      BY <1>5 DEF PowerFails, Done, AtGate
    <2>2. QED
      BY <1>5, <2>1, FS_EmptySet DEF PowerFails, GateInv, AtGate, Serving
  <1>6. ASSUME NEW w \in Workers, PassGate(w) \/ WakeUp(w)
        PROVE  GateInv'
    <2>1. CASE Test(w) \/ Sleep(w) \/ WakeUp(w)
      <3>1. wpc' \in [Workers -> AtGate \cup {"idle"} \cup Serving] /\ Done' = Done
        BY <2>1, SameSide DEF Test, Sleep, WakeUp, AtGate
      <3>2. QED
        BY <2>1, <3>1 DEF GateInv, Test, Sleep, WakeUp, GateOnly, Goto, AtGate, Serving
    <2>2. CASE Rebuild(w)
      BY <2>2, RebuildKeepsGate
    <2>3. QED
      BY <1>6, <2>1, <2>2 DEF PassGate
  <1>7. CASE Serve /\ ~Lock
    <2>1. PICK from \in {"idle"} \cup Serving, to \in {"idle"} \cup Serving : Goto(0, from, to)
      BY <1>7 DEF Serve, Receive, Allocate, Store, CountWrite, MigrationEnd, Serving
    <2>2. wpc' \in [Workers -> AtGate \cup {"idle"} \cup Serving] /\ Done' = Done
      BY <1>0, <2>1, SameSide DEF AtGate, Serving
    <2>3. ipc = "serve" /\ UNCHANGED <<ipc, rebuild_num, mpc>>
      BY <1>0, <1>7 DEF GateInv, Serve, Receive, Allocate, Store, CountWrite, MigrationEnd,
                        Goto, Serving
    <2>4. QED
      BY <2>2, <2>3 DEF GateInv
  <1>8. CASE Lock \/ OtherBegin \/ OtherEnd \/ StageLarge \/ mix_segments_clear
    <2>1. UNCHANGED <<ipc, rebuild_num, wpc, mpc>>
          /\ (lock' # "free" => lock # "free" \/ ipc = "serve")
      BY <1>0, <1>8 DEF GateInv, Lock, OtherBegin, OtherEnd, StageLarge, mix_segments_clear, Serving
    <2>2. QED
      BY <2>1 DEF GateInv, Done
  <1>9. ASSUME NEW t \in Threads, Migrate(t)
        PROVE  GateInv'
    <2>1. UNCHANGED <<ipc, rebuild_num, wpc, lock>>
      BY <1>9 DEF Migrate, TakeEntry, StageSsd, WriteSsd, ClearBlock, OtherClear
    <2>2. /\ mpc' = mpc \/ (\E pc : mpc' = [mpc EXCEPT ![t] = pc])
          /\ (lock # "free" \/ mpc[t] # "none")
      BY <1>9 DEF Migrate, TakeEntry, StageSsd, WriteSsd, ClearBlock, OtherClear
    <2>3. mpc' = [u \in Threads |-> mpc'[u]]
          /\ \A u \in Threads : mpc'[u] # "none" => ipc = "serve"
      BY <2>2 DEF GateInv
    <2>4. QED
      BY <2>1, <2>3 DEF GateInv, Done
  <1>10. CASE UNCHANGED vars \/ \E t \in Writers : Evict(t) \/ Tear(t)
    BY <1>10 DEF GateInv, Evict, Tear, vars, Done
  <1>11. QED
    BY <1>1, <1>2, <1>3, <1>4, <1>5, <1>6, <1>7, <1>8, <1>9, <1>10 DEF Next, StartUp, Serve

(* The scheduler runs only when every worker has rebuilt its segment       *)
(* (StartScheduler, nvm_worker.c mix_rebuild), for any number of workers.  *)
THEOREM RebuiltBeforeService == Spec => []ServesRebuilt
  <1>1. GateInv => ServesRebuilt
    BY DEF GateInv, ServesRebuilt, Done
  <1>2. QED
    BY <1>1, GateInit, GateNext, PTL DEF Spec

-----------------------------------------------------------------------------
(* Writing to the device keeps its fields, and cleared metas clear.        *)
LEMMA WrittenFields ==
    ASSUME NEW S, \A b \in Blocks : "status" \in DOMAIN nvm[b], nvm' = Written(S)
    PROVE  DOMAIN nvm' = Blocks /\ \A b \in Blocks : "status" \in DOMAIN nvm'[b]
  BY DEF Written

LEMMA WrittenClear ==
    ASSUME NEW S \in SUBSET ClearedMeta, NEW b \in Blocks,
           "status" \in DOMAIN nvm[b], nvm' = Written(S)
    PROVE  nvm'[b].status = IF <<b, "status", 0>> \in S THEN 0 ELSE nvm[b].status
  <1> DEFINE Hits == {x \in S : x[1] = b /\ x[2] = "status"}
  <1>1. \A x \in Hits : x = <<b, "status", 0>>
    BY DEF ClearedMeta
  <1>2. nvm'[b].status = IF \E x \in S : x[1] = b /\ x[2] = "status"
                           THEN (CHOOSE x \in S : x[1] = b /\ x[2] = "status")[3]
                           ELSE nvm[b].status
    BY DEF Written
  <1>3. CASE <<b, "status", 0>> \in S
    <2>1. \E x \in S : x[1] = b /\ x[2] = "status"
      BY <1>3
    <2>2. (CHOOSE x \in S : x[1] = b /\ x[2] = "status") \in Hits
      BY <2>1
    <2>3. QED
      BY <1>1, <1>2, <1>3, <2>1, <2>2
  <1>4. CASE <<b, "status", 0>> \notin S
    BY <1>1, <1>2, <1>4
  <1>5. QED
    BY <1>3, <1>4

LEMMA ClearInit == Init => ClearInv
  <1> SUFFICES ASSUME Init PROVE ClearInv
    OBVIOUS
  <1>1. wc = [t \in Writers |-> wc[t]] /\ \A t \in Writers : wc[t] = {}
    BY DEF Init, NoStores
  <1>2. DOMAIN nvm = Blocks /\ \A b \in Blocks : "status" \in DOMAIN nvm[b]
    BY DEF Init
  <1>3. \A w \in Workers : wpc[w] # "rebuild"
    BY DEF Init
  <1>4. "init" \in Writers
    BY DEF Writers
  <1>5. QED
    BY <1>1, <1>2, <1>3, <1>4 DEF Init, ClearInv

(* Once the scheduler runs only the fields of the blocks matter.           *)
LEMMA ServingKeepsClear ==
    ASSUME ClearInv, ipc = "serve", ipc' = "serve", rebuild' = rebuild,
           \A w \in Workers : wpc'[w] = "rebuild" => wpc[w] = "rebuild",
           DOMAIN nvm' = Blocks, \A b \in Blocks : "status" \in DOMAIN nvm'[b],
           wc' = [t \in Writers |-> wc'[t]], wc'["init"] = {}
    PROVE  ClearInv'
  BY DEF ClearInv

(* A store of start-up may leave the buffer at any time.                   *)
LEMMA EvictKeepsClear ==
    ASSUME ClearInv, NEW t \in Writers, Evict(t) \/ Tear(t)
    PROVE  ClearInv'
  <1> USE DEF boot
  <1>0. wc = [u \in Writers |-> wc[u]] /\ "init" \in Writers
        /\ DOMAIN nvm = Blocks /\ \A b \in Blocks : "status" \in DOMAIN nvm[b]
    BY DEF ClearInv, Writers
  <1>1. CASE Tear(t)
    <2>1. PICK x \in wc[t] : x[2] = "data" /\ nvm' = [nvm EXCEPT ![x[1]].data = Junk]
      BY <1>1 DEF Tear
    <2>2. DOMAIN nvm' = Blocks /\ \A b \in Blocks : "status" \in DOMAIN nvm'[b]
      BY <1>0, <2>1
    <2>3. t # "init"
      BY <2>1 DEF ClearInv, ClearedMeta
    <2>4. ipc = "serve"
      BY <2>1, <2>3 DEF ClearInv
    <2>5. UNCHANGED <<wc, ipc, rebuild, wpc>>
      BY <1>1 DEF Tear
    <2>6. wc["init"] = {}
      BY <2>4 DEF ClearInv
    <2>7. QED
      BY <1>0, <2>2, <2>4, <2>5, <2>6, ServingKeepsClear
  <1>2. CASE Evict(t)
    <2>1. PICK x \in wc[t] : nvm' = Written({x}) /\ wc' = [wc EXCEPT ![t] = @ \ {x}]
      BY <1>2 DEF Evict, Land
    <2>2. DOMAIN nvm' = Blocks /\ \A b \in Blocks : "status" \in DOMAIN nvm'[b]
      BY <1>0, <2>1, WrittenFields
    <2>3. wc' = [u \in Writers |-> wc'[u]] /\ \A u \in Writers : wc'[u] \subseteq wc[u]
      BY <1>0, <2>1
    <2>4. UNCHANGED <<ipc, rebuild, wpc>>
      BY <1>2 DEF Evict
    <2>5. CASE ipc = "serve"
      <3>1. wc'["init"] = {}
        BY <1>0, <2>3, <2>5 DEF ClearInv
      <3>2. QED
        BY <2>2, <2>3, <2>4, <2>5, <3>1, ServingKeepsClear
    <2>6. CASE ipc # "serve"
      <3>1. t = "init"
        BY <2>1, <2>6 DEF ClearInv
      <3>2. ipc = "broadcast" /\ x \in ClearedMeta
        BY <2>1, <3>1 DEF ClearInv
      <3>3. \A b \in Blocks :
              nvm'[b].status = IF <<b, "status", 0>> \in {x} THEN 0 ELSE nvm[b].status
        BY <1>0, <2>1, <3>2, WrittenClear
      <3>4. wc'["init"] = wc["init"] \ {x} /\ \A u \in Writers \ {"init"} : wc'[u] = {}
        BY <1>0, <2>1, <2>6, <3>1 DEF ClearInv
      <3>5. \A b \in Blocks : nvm'[b].status = 0 \/ <<b, "status", 0>> \in wc'["init"]
        BY <3>2, <3>3, <3>4 DEF ClearInv
      <3>6. QED
        BY <2>2, <2>3, <2>4, <3>2, <3>4, <3>5 DEF ClearInv, ClearedMeta
    <2>7. QED
      BY <2>5, <2>6
  <1>3. QED
    BY <1>1, <1>2

LEMMA ClearNext ==
    ASSUME GateInv, ClearInv, [Next]_vars
    PROVE  ClearInv'
  <1> USE DEF boot, device
  <1>0. 0 \in Workers /\ "init" \in Writers /\ "worker" \in Writers
        /\ wc = [t \in Writers |-> wc[t]]
        /\ DOMAIN nvm = Blocks /\ \A b \in Blocks : "status" \in DOMAIN nvm[b]
    BY RecoveryConstants DEF Writers, ClearInv
  <1>1. CASE CreateWorkers \/ mix_mmap
    BY <1>1 DEF ClearInv, CreateWorkers, mix_mmap, Advance, Valid, ClearedMeta
  <1>2. CASE ClearMetas
    <2>1. wc'["init"] = ClearedMeta /\ (\A t \in Writers \ {"init"} : wc'[t] = {})
          /\ wc' = [t \in Writers |-> wc'[t]]
      BY <1>0, <1>2 DEF ClearInv, ClearMetas, Advance, Issue
    <2>2. \A b \in Blocks : <<b, "status", 0>> \in ClearedMeta
      BY DEF ClearedMeta
    <2>3. QED
      BY <1>2, <2>1, <2>2 DEF ClearInv, ClearMetas, Advance, Issue, ClearedMeta
  <1>3. CASE OpenGate
    <2>1. nvm' = Written(wc["init"]) /\ wc["init"] \in SUBSET ClearedMeta
          /\ ipc = "broadcast" /\ ipc' = "spin"
      BY <1>3 DEF ClearInv, OpenGate, Drain, Land, Advance
    <2>2. DOMAIN nvm' = Blocks /\ \A b \in Blocks : "status" \in DOMAIN nvm'[b]
      BY <1>0, <2>1, WrittenFields
    <2>3. \A b \in Blocks : nvm'[b].status = 0
      BY <1>0, <2>1, WrittenClear DEF ClearInv
    <2>4. wc' = [t \in Writers |-> wc'[t]] /\ \A t \in Writers : wc'[t] = {}
      BY <1>0, <1>3, <2>1 DEF ClearInv, OpenGate, Drain
    <2>5. Valid' = {}
      BY <2>3 DEF Valid
    <2>6. rebuild' = TRUE
      BY <1>3 DEF OpenGate
    <2>7. QED
      BY <1>0, <2>1, <2>2, <2>4, <2>5, <2>6 DEF ClearInv, ClearedMeta
  <1>4. CASE StartScheduler
    BY <1>4 DEF ClearInv, StartScheduler, Advance, Valid, ClearedMeta
  <1>5. CASE PowerFails
    BY <1>0, <1>5 DEF ClearInv, PowerFails, NoStores, Valid
  <1>6. ASSUME NEW w \in Workers, PassGate(w) \/ WakeUp(w)
        PROVE  ClearInv'
    <2>1. rebuild' = rebuild /\ UNCHANGED <<ipc, wc, nvm>>
      BY <1>6 DEF PassGate, Test, Sleep, Rebuild, WakeUp, GateOnly
    <2>2. \A v \in Workers : wpc'[v] = "rebuild" => rebuild
      BY <1>6 DEF GateInv, ClearInv, PassGate, Test, Sleep, Rebuild, WakeUp, Goto
    <2>3. QED
      BY <2>1, <2>2 DEF ClearInv, Valid, ClearedMeta
  <1>7. CASE Serve \/ mix_segments_clear
    <2>1. ipc = "serve" /\ ipc' = "serve" /\ rebuild' = rebuild
      BY <1>0, <1>7 DEF GateInv, Serve, Receive, Allocate, Store, CountWrite, Lock, MigrationEnd,
                        mix_segments_clear, Goto, Serving
    <2>2. \A w \in Workers : wpc'[w] = "rebuild" => wpc[w] = "rebuild"
      BY <1>0, <1>7 DEF GateInv, Serve, Receive, Allocate, Store, CountWrite, Lock, MigrationEnd,
                        mix_segments_clear, Goto
    <2>3. (nvm' = nvm \/ \E S : nvm' = Written(S))
          /\ (wc' = wc \/ \E S : wc' = [wc EXCEPT !["worker"] = S])
      BY <1>7 DEF Serve, Receive, Allocate, Store, CountWrite, Lock, MigrationEnd,
                  mix_segments_clear, Issue, Drain, Land
    <2>4. wc' = [t \in Writers |-> wc'[t]] /\ wc'["init"] = {}
      BY <1>0, <2>1, <2>3 DEF ClearInv
    <2>5. DOMAIN nvm' = Blocks /\ \A b \in Blocks : "status" \in DOMAIN nvm'[b]
      BY <1>0, <2>3, WrittenFields
    <2>6. QED
      BY <2>1, <2>2, <2>4, <2>5, ServingKeepsClear
  <1>8. ASSUME NEW t \in Threads, Migrate(t)
        PROVE  ClearInv'
    <2>1. ipc = "serve" /\ UNCHANGED <<ipc, rebuild, wpc, nvm>>
      BY <1>8 DEF GateInv, Migrate, TakeEntry, OtherClear, StageSsd, WriteSsd, ClearBlock,
                  mix_buffer_clear, Issue
    <2>2. wc' = wc \/ \E S : wc' = [wc EXCEPT ![t] = S]
      BY <1>8 DEF Migrate, TakeEntry, OtherClear, StageSsd, WriteSsd, ClearBlock,
                  mix_buffer_clear, Issue
    <2>3. t # "init"
      BY RecoveryConstants
    <2>4. wc' = [u \in Writers |-> wc'[u]] /\ wc'["init"] = {}
      BY <1>0, <2>1, <2>2, <2>3 DEF ClearInv
    <2>5. QED
      BY <1>0, <2>1, <2>4, ServingKeepsClear
  <1>9. CASE \E t \in Writers : Evict(t) \/ Tear(t)
    BY <1>9, EvictKeepsClear
  <1>10. CASE OtherBegin \/ OtherEnd \/ StageLarge \/ UNCHANGED vars
    <2>1. UNCHANGED <<nvm, wc, ipc, rebuild, wpc>>
      BY <1>10 DEF OtherBegin, OtherEnd, StageLarge, vars
    <2>2. QED
      BY <2>1 DEF ClearInv, Valid, ClearedMeta
  <1>11. QED
    BY <1>1, <1>2, <1>3, <1>4, <1>5, <1>6, <1>7, <1>8, <1>9, <1>10 DEF Next, StartUp

(* A worker at its rebuild sees a mapped device without a valid block: the *)
(* gate (nvm_worker.c mix_rebuild) opens after the last meta is stored.    *)
THEOREM RebuiltFromCleared == Spec => []RebuildsFromCleared
  <1>1. GateInv /\ ClearInv => RebuildsFromCleared
    BY DEF GateInv, ClearInv, RebuildsFromCleared, Done, AtGate
  <1>2. QED
    BY <1>1, GateInit, ClearInit, GateNext, ClearNext, PTL DEF Spec

-----------------------------------------------------------------------------
(* What a power failure leaves.                                            *)

StoresOf(b, r) == {<<b, "data", r.buf>>, <<b, "status", 1>>, <<b, "offset", r.key>>}

(* Thread t has an entry of the own segment in hand.                       *)
Moves(t) == mpc[t] # "none"

(* Who works: own entries are in hand only while worker 0 waits with the   *)
(* mutex, and a thread without one has nothing in its hands.               *)
LockInv ==
    /\ lock = "own" => wpc[0] = "migrate"
    /\ \A t \in Threads :
         /\ Moves(t) => lock = "own" /\ wc[t] = {}
         /\ ~Moves(t) => kv[t] = NoEntry
         /\ wc[t] # {} => lock # "free"

(* Which block belongs to whom: no two keys share one, those that are      *)
(* being moved are nobody's and differ, and a worker in a write knows      *)
(* whether its key has one.                                                *)
PlacesInv ==
    /\ \A k \in Keys : index[k] # NoBlock => index[k] \in bitmap
    /\ \A k, m \in Keys : index[k] # NoBlock /\ index[k] = index[m] => k = m
    /\ ipc # "serve" => \A k \in Keys : index[k] = NoBlock
    /\ wpc[0] \in Serving => task \in Requests
    /\ wpc[0] \in {"alloc", "migrate"} => index[task.key] = NoBlock
    /\ wpc[0] = "alloc" => bitmap # Blocks
    /\ wpc[0] \in {"store", "count"} => index[task.key] # NoBlock
    /\ \A t \in Threads : Moves(t) =>
         /\ kv[t] \in [key : Keys, value : Blocks]
         /\ index[kv[t].key] = NoBlock
         /\ \A k \in Keys : index[k] # kv[t].value
    /\ \A t, u \in Threads : Moves(t) /\ Moves(u) /\ t # u =>
         kv[t].key # kv[u].key /\ kv[t].value # kv[u].value

(* What may wait in the write buffers: of the worker the stores of the     *)
(* write it is about to count, of a thread clears, and as long as the      *)
(* mutex is the worker's own none of a block that is indexed or in hand.   *)
StoresInv ==
    /\ wc["worker"] # {} => wpc[0] = "count"
    /\ wpc[0] = "count" =>
         LET b == index[task.key]
         IN  /\ wc["worker"] \subseteq StoresOf(b, task)
             /\ nvm[b].data = task.buf \/ <<b, "data", task.buf>> \in wc["worker"]
             /\ nvm[b].status = 1 \/ <<b, "status", 1>> \in wc["worker"] \/ b \in dimmed
             /\ nvm[b].offset = task.key \/ <<b, "offset", task.key>> \in wc["worker"]
    /\ \A t \in Threads : wc[t] \subseteq ClearedMeta
    /\ lock = "own" =>
         \A t \in Threads : \A x \in wc[t] :
             /\ \A k \in Keys : index[k] # x[1]
             /\ \A u \in Threads : Moves(u) => kv[u].value # x[1]

(* Block b holds the counted write of k, and describes itself unless it    *)
(* was dimmed or the ssd has it too.                                       *)
Holds(b, k) ==
    /\ nvm[b].offset = k /\ nvm[b].data = expect[k]
    /\ nvm[b].status = 1 \/ ssd[k] = expect[k] \/ b \in dimmed

(* Thread t is yet to write key k to the ssd.                              *)
Carries(t, k) == mpc[t] \in {"stage", "write"} /\ kv[t].key = k

(* Where the counted write of k is while the scheduler runs.               *)
Placed(k) ==
    /\ index[k] # NoBlock =>
         Holds(index[k], k) \/ (wpc[0] = "store" /\ task.key = k /\ ssd[k] = expect[k])
    /\ \A t \in Threads : Carries(t, k) => Holds(kv[t].value, k) /\ migrate_buf[t] = expect[k]
    /\ (index[k] = NoBlock /\ \A t \in Threads : ~Carries(t, k)) => ssd[k] = expect[k]

KeptInv ==
    \A k \in Keys : (expect[k] \in Values /\ ~InFlight(k)) =>
        /\ ipc \in {"create", "mmap", "clear"} =>
             ssd[k] = expect[k] \/ \E b \in Holding(k) : nvm[b].data = expect[k]
        /\ ipc \in {"broadcast", "spin"} => ssd[k] = expect[k]
        /\ ipc = "serve" => Placed(k)

-----------------------------------------------------------------------------
Meta == [status : {0, 1}, offset : Keys \cup {NoKey}, data : Content]

(* A block no store is for stays as it is.                                 *)
LEMMA WrittenElsewhere ==
    ASSUME nvm \in [Blocks -> Meta], NEW S, nvm' = Written(S), NEW b \in Blocks,
           \A x \in S : x[1] # b
    PROVE  nvm'[b] = nvm[b]
  <1>1. nvm'[b] = [f \in DOMAIN nvm[b] |-> nvm[b][f]]
    BY DEF Written
  <1>2. QED
    BY <1>1 DEF Meta

(* A field for which one value waits gets it or stays.                     *)
LEMMA WrittenField ==
    ASSUME nvm \in [Blocks -> Meta], NEW S, nvm' = Written(S), NEW b \in Blocks,
           NEW f \in {"status", "offset", "data"}, NEW v,
           \A x \in S : x[1] = b /\ x[2] = f => x = <<b, f, v>>
    PROVE  nvm'[b][f] = IF <<b, f, v>> \in S THEN v ELSE nvm[b][f]
  <1>0. f \in DOMAIN nvm[b]
    BY DEF Meta
  <1>1. nvm'[b][f] = IF \E x \in S : x[1] = b /\ x[2] = f
                       THEN (CHOOSE x \in S : x[1] = b /\ x[2] = f)[3]
                       ELSE nvm[b][f]
    BY <1>0 DEF Written
  <1>2. CASE <<b, f, v>> \in S
    <2>1. \E x \in S : x[1] = b /\ x[2] = f
      BY <1>2
    <2>2. (CHOOSE x \in S : x[1] = b /\ x[2] = f) = <<b, f, v>>
      BY <2>1
    <2>3. QED
      BY <1>1, <1>2, <2>1, <2>2
  <1>3. CASE <<b, f, v>> \notin S
    BY <1>1, <1>3
  <1>4. QED
    BY <1>2, <1>3

(* The stores of one write, or some of them.                               *)
LEMMA WrittenStores ==
    ASSUME nvm \in [Blocks -> Meta], NEW b \in Blocks, NEW r \in Requests,
           NEW S \in SUBSET StoresOf(b, r), nvm' = Written(S)
    PROVE  /\ nvm' \in [Blocks -> Meta]
           /\ nvm'[b].data = IF <<b, "data", r.buf>> \in S THEN r.buf ELSE nvm[b].data
           /\ nvm'[b].status = IF <<b, "status", 1>> \in S THEN 1 ELSE nvm[b].status
           /\ nvm'[b].offset = IF <<b, "offset", r.key>> \in S THEN r.key ELSE nvm[b].offset
           /\ \A c \in Blocks \ {b} : nvm'[c] = nvm[c]
  <1>0. r.key \in Keys /\ r.buf \in Values
    BY RecoveryConstants DEF Task
  <1>1. nvm'[b].data = IF <<b, "data", r.buf>> \in S THEN r.buf ELSE nvm[b].data
    BY WrittenField DEF StoresOf
  <1>2. nvm'[b].status = IF <<b, "status", 1>> \in S THEN 1 ELSE nvm[b].status
    BY WrittenField DEF StoresOf
  <1>3. nvm'[b].offset = IF <<b, "offset", r.key>> \in S THEN r.key ELSE nvm[b].offset
    BY WrittenField DEF StoresOf
  <1>4. ASSUME NEW c \in Blocks \ {b} PROVE nvm'[c] = nvm[c]
    BY WrittenElsewhere DEF StoresOf
  <1>5. nvm' \in [Blocks -> Meta]
    <2>1. nvm'[b] \in Meta
      <3>1. nvm'[b] = [f \in DOMAIN nvm[b] |-> nvm'[b][f]] /\ nvm[b] \in Meta
        BY DEF Written
      <3>2. QED
        BY <1>0, <1>1, <1>2, <1>3, <3>1 DEF Meta, Content
    <2>2. QED
      BY <1>4, <2>1 DEF Written
  <1>6. QED
    BY <1>1, <1>2, <1>3, <1>4, <1>5

(* The clears of some blocks.                                              *)
LEMMA WrittenClears ==
    ASSUME nvm \in [Blocks -> Meta], NEW S \in SUBSET ClearedMeta, nvm' = Written(S)
    PROVE  /\ nvm' \in [Blocks -> Meta]
           /\ \A b \in Blocks :
                /\ nvm'[b].data = nvm[b].data /\ nvm'[b].offset = nvm[b].offset
                /\ <<b, "status", 0>> \notin S => nvm'[b] = nvm[b]
  <1>1. ASSUME NEW b \in Blocks
        PROVE  /\ nvm'[b] \in Meta
               /\ nvm'[b].data = nvm[b].data /\ nvm'[b].offset = nvm[b].offset
               /\ <<b, "status", 0>> \notin S => nvm'[b] = nvm[b]
    <2>1. nvm'[b].status = IF <<b, "status", 0>> \in S THEN 0 ELSE nvm[b].status
      BY WrittenField DEF ClearedMeta
    <2>2. nvm'[b].data = nvm[b].data
      <3>1. \A x \in S : ~(x[1] = b /\ x[2] = "data")
        BY DEF ClearedMeta
      <3>2. QED
        BY <3>1 DEF Written, Meta
    <2>3. nvm'[b].offset = nvm[b].offset
      <3>1. \A x \in S : ~(x[1] = b /\ x[2] = "offset")
        BY DEF ClearedMeta
      <3>2. QED
        BY <3>1 DEF Written, Meta
    <2>4. nvm'[b] = [f \in DOMAIN nvm[b] |-> nvm'[b][f]] /\ nvm[b] \in Meta
      BY DEF Written
    <2>5. nvm'[b] \in Meta
      BY <2>1, <2>2, <2>3, <2>4 DEF Meta
    <2>6. <<b, "status", 0>> \notin S => nvm'[b] = nvm[b]
      BY WrittenElsewhere DEF ClearedMeta
    <2>7. QED
      BY <2>2, <2>3, <2>5, <2>6
  <1>2. QED
    BY <1>1 DEF Written

-----------------------------------------------------------------------------
DurInv == LockInv /\ PlacesInv /\ StoresInv /\ KeptInv
AllInv == TypeOK /\ GateInv /\ ClearInv /\ DurInv

LEMMA DurInit == Init => TypeOK /\ DurInv
  <1> SUFFICES ASSUME Init PROVE TypeOK /\ DurInv
    OBVIOUS
  <1>0. 0 \in Workers /\ IsFiniteSet(Workers) /\ MaxEvents \in Nat
        /\ "worker" \in Writers /\ Threads \subseteq Writers
    BY RecoveryConstants DEF Writers
  <1>1. (\A t \in Writers : wc[t] = {}) /\ DOMAIN wc = Writers
    BY DEF Init, NoStores
  <1>2. /\ wpc[0] = "none" /\ ipc = "create" /\ lock = "free"
        /\ \A t \in Threads : mpc[t] = "none" /\ kv[t] = NoEntry
        /\ \A k \in Keys : index[k] = NoBlock
    BY <1>0 DEF Init
  <1>3. \A k \in Keys : expect[k] \notin Values
    BY RecoveryConstants DEF Init
  <1>4. LockInv /\ PlacesInv /\ StoresInv
    BY <1>0, <1>1, <1>2 DEF LockInv, PlacesInv, StoresInv, Moves, Serving
  <1>5. KeptInv
    BY <1>3 DEF KeptInv
  <1>6. rebuild_num \in 0 .. Cardinality(Workers)
    BY <1>0, FS_CardinalityType DEF Init
  <1>7. TypeOK
    <2>1. nvm \in [Blocks -> [status : {0, 1}, offset : Keys \cup {NoKey}, data : Content]]
          /\ ssd \in [Keys -> Content] /\ expect \in [Keys -> Values \cup {NoPromise}]
          /\ memalign_src \in Threads \cup {Nobody} /\ dimmed \subseteq Blocks
      BY DEF Init, Content
    <2>2. index \in [Keys -> Blocks \cup {NoBlock}] /\ bitmap \subseteq Blocks
          /\ task \in Requests \cup {NoTask} /\ left \subseteq Blocks
      BY DEF Init
    <2>3. mpc \in [Threads -> {"none", "stage", "write", "clear"}]
          /\ kv \in [Threads -> [key : Keys, value : Blocks] \cup {NoEntry}]
          /\ migrate_buf \in [Threads -> Content]
      BY DEF Init, Content
    <2>4. wpc \in [Workers -> AtGate \cup {"idle", "alloc", "store", "count", "migrate"}]
      BY DEF Init, AtGate
    <2>5. rebuild \in BOOLEAN
      BY Zenon DEF Init
    <2>6. missed \subseteq Workers /\ events \in 0 .. MaxEvents
      BY <1>0 DEF Init
    <2>7. QED
      BY <1>1, <1>2, <1>6, <2>1, <2>2, <2>3, <2>4, <2>5, <2>6 DEF TypeOK
  <1>8. QED
    BY <1>4, <1>5, <1>7 DEF DurInv

(* Stores that reach the device leave dimmed a set of blocks.              *)
LEMMA LandTypes ==
    ASSUME TypeOK, NEW t, NEW S, Land(t, S)
    PROVE  dimmed' \subseteq Blocks
  BY DEF TypeOK, Land, Marked

(* As long as the scheduler does not run nobody writes and nobody moves.   *)
LEMMA Quiet ==
    ASSUME AllInv, ipc # "serve"
    PROVE  /\ wpc[0] \notin Serving /\ lock = "free"
           /\ \A t \in Threads : ~Moves(t) /\ kv[t] = NoEntry
           /\ \A t \in Writers \ {"init"} : wc[t] = {}
           /\ \A k \in Keys : index[k] = NoBlock /\ ~InFlight(k)
  BY RecoveryConstants
     DEF AllInv, DurInv, GateInv, ClearInv, LockInv, PlacesInv, Moves, InFlight, Serving

(* What a step of start-up leaves to be shown.                             *)
LEMMA QuietStep ==
    ASSUME AllInv, ipc # "serve", UNCHANGED <<task, lock, mpc, kv>>,
           wpc'[0] \notin Serving, \A t \in Writers \ {"init"} : wc'[t] = {},
           \A k \in Keys : index'[k] = NoBlock
    PROVE  LockInv' /\ PlacesInv' /\ StoresInv' /\ \A k \in Keys : ~InFlight(k)'
  <1>1. \A t \in Threads : ~Moves(t)' /\ kv'[t] = NoEntry
    BY Quiet DEF Moves
  <1>2. "worker" \in Writers \ {"init"} /\ Threads \subseteq Writers \ {"init"}
    BY RecoveryConstants DEF Writers
  <1>3. lock' = "free"
    BY Quiet
  <1>4. LockInv' /\ PlacesInv'
    BY <1>1, <1>2, <1>3 DEF LockInv, PlacesInv, Serving
  <1>5. StoresInv'
    BY <1>2, <1>3 DEF StoresInv, Serving
  <1>6. QED
    BY <1>4, <1>5 DEF InFlight, Serving

LEMMA StartUpDurable ==
    ASSUME AllInv, StartUp
    PROVE  TypeOK' /\ DurInv'
  <1> USE DEF boot, tables, mutex, movers, history, disk, device, Advance
  <1>0. ipc # "serve" /\ 0 \in Workers
    BY RecoveryConstants DEF StartUp, CreateWorkers, mix_mmap, ClearMetas, OpenGate, StartScheduler
  <1>1. CASE CreateWorkers \/ mix_mmap
    <2>1. wpc'[0] \notin Serving
      BY <1>0, <1>1, Quiet DEF CreateWorkers, mix_mmap, Serving
    <2>2. LockInv' /\ PlacesInv' /\ StoresInv' /\ \A k \in Keys : ~InFlight(k)'
      BY <1>0, <1>1, <2>1, Quiet, QuietStep DEF CreateWorkers, mix_mmap
    <2>3. KeptInv'
      BY <1>0, <1>1, <2>2, Quiet DEF AllInv, DurInv, KeptInv, CreateWorkers, mix_mmap, Holding,
         Valid
    <2>4. TypeOK'
      BY <1>1 DEF AllInv, TypeOK, CreateWorkers, mix_mmap, AtGate
    <2>5. QED
      BY <2>2, <2>3, <2>4 DEF DurInv
  <1>2. CASE ClearMetas
    <2>1. DOMAIN wc' = DOMAIN wc /\ \A t \in Writers \ {"init"} : wc'[t] = {}
      BY <1>0, <1>2, Quiet DEF AllInv, TypeOK, ClearMetas, Issue
    <2>2. LockInv' /\ PlacesInv' /\ StoresInv' /\ \A k \in Keys : ~InFlight(k)'
      BY <1>0, <1>2, <2>1, Quiet, QuietStep DEF ClearMetas
    <2>3. \A k \in Keys : expect'[k] \in Values => ssd'[k] = expect'[k]
      BY <1>2, RecoveryConstants DEF ClearMetas, GivenUp
    <2>4. KeptInv'
      BY <1>2, <2>3 DEF KeptInv, ClearMetas
    <2>5. expect' \in [Keys -> Values \cup {NoPromise}]
      BY <1>2 DEF AllInv, TypeOK, ClearMetas, GivenUp
    <2>6. TypeOK'
      BY <1>2, <2>1, <2>5 DEF AllInv, TypeOK, ClearMetas, Issue
    <2>7. QED
      BY <2>2, <2>4, <2>6 DEF DurInv
  <1>3. CASE OpenGate
    <2>1. nvm' = Written(wc["init"]) /\ wc["init"] \in SUBSET ClearedMeta
          /\ nvm \in [Blocks -> Meta]
      BY <1>3 DEF AllInv, TypeOK, ClearInv, OpenGate, Drain, Land, Meta
    <2>2. nvm' \in [Blocks -> Meta]
      BY <2>1, WrittenClears
    <2>3. DOMAIN wc' = DOMAIN wc /\ \A t \in Writers \ {"init"} : wc'[t] = {}
      BY <1>0, <1>3, Quiet DEF AllInv, TypeOK, OpenGate, Drain
    <2>4. wpc'[0] \notin Serving
      BY <1>0, <1>3, Quiet DEF OpenGate, Notified, Serving
    <2>5. LockInv' /\ PlacesInv' /\ StoresInv' /\ \A k \in Keys : ~InFlight(k)'
      BY <1>0, <1>3, <2>3, <2>4, Quiet, QuietStep DEF OpenGate
    <2>6. KeptInv'
      BY <1>0, <1>3, <2>5, Quiet DEF AllInv, DurInv, KeptInv, OpenGate
    <2>7. wpc' \in [Workers -> AtGate \cup {"idle", "alloc", "store", "count", "migrate"}]
          /\ missed' \subseteq Workers /\ dimmed' \subseteq Blocks
      BY <1>3, LandTypes DEF AllInv, TypeOK, OpenGate, Drain, Notified, AtGate
    <2>8. TypeOK'
      BY <1>3, <2>2, <2>3, <2>7 DEF AllInv, TypeOK, OpenGate, Meta
    <2>9. QED
      BY <2>5, <2>6, <2>8 DEF DurInv
  <1>4. CASE StartScheduler
    <2>1. wpc'[0] \notin Serving
      BY <1>0, <1>4, Quiet DEF StartScheduler
    <2>2. LockInv' /\ PlacesInv' /\ StoresInv' /\ \A k \in Keys : ~InFlight(k)'
      BY <1>0, <1>4, <2>1, Quiet, QuietStep DEF StartScheduler
    <2>3. KeptInv'
      <3>1. (\A t \in Threads, k \in Keys : ~Carries(t, k)') /\ \A k \in Keys : index'[k] = NoBlock
        BY <1>0, <1>4, Quiet DEF StartScheduler, Carries, Moves
      <3>2. \A k \in Keys : expect'[k] \in Values => ssd'[k] = expect'[k]
        BY <1>0, <1>4, Quiet DEF AllInv, DurInv, KeptInv, StartScheduler
      <3>3. QED
        BY <1>4, <3>1, <3>2 DEF KeptInv, Placed, StartScheduler
    <2>4. TypeOK'
      BY <1>4 DEF AllInv, TypeOK, StartScheduler
    <2>5. QED
      BY <2>2, <2>3, <2>4 DEF DurInv
  <1>5. QED
    BY <1>1, <1>2, <1>3, <1>4 DEF StartUp

LEMMA GateDurable ==
    ASSUME AllInv, NEW w \in Workers, PassGate(w) \/ WakeUp(w)
    PROVE  TypeOK' /\ DurInv'
  <1> USE DEF boot, tables, mutex, movers, history, disk, device
  <1>0. 0 \in Workers /\ Cardinality(Workers) \in Nat
    BY RecoveryConstants, FS_CardinalityType
  <1>1. CASE Test(w) \/ Sleep(w) \/ WakeUp(w)
    <2>1. wpc'[0] \in Serving <=> wpc[0] \in Serving
      BY <1>0, <1>1 DEF AllInv, GateInv, Test, Sleep, WakeUp, Goto, Serving
    <2>2. wpc[0] \in Serving => wpc'[0] = wpc[0]
      BY <1>0, <1>1 DEF AllInv, GateInv, Test, Sleep, WakeUp, Goto, Serving
    <2>3. UNCHANGED <<nvm, wc, dimmed, ssd, ipc, index, bitmap, task, lock, mpc, kv, migrate_buf,
                      expect>>
      BY <1>1 DEF Test, Sleep, WakeUp, GateOnly
    <2>4. LockInv' /\ PlacesInv' /\ StoresInv'
      BY <2>1, <2>2, <2>3 DEF AllInv, DurInv, LockInv, PlacesInv, StoresInv, Moves, Serving
    <2>5. KeptInv'
      BY <2>1, <2>2, <2>3 DEF AllInv, DurInv, KeptInv, Placed, Holds, Carries,
           Holding, Valid, InFlight, Serving
    <2>6. TypeOK'
      BY <1>1 DEF AllInv, TypeOK, Test, Sleep, WakeUp, GateOnly, Goto, AtGate
    <2>7. QED
      BY <2>4, <2>5, <2>6 DEF DurInv
  <1>2. CASE Rebuild(w)
    <2>1. ipc = "spin" /\ Valid = {} /\ wpc[w] = "rebuild"
      BY <1>2 DEF AllInv, GateInv, ClearInv, Rebuild, Goto, Done, AtGate
    <2>2. \A k \in Keys : Rebuilt[k] = NoBlock
      BY <2>1 DEF Rebuilt, Holding
    <2>3. index' \in [Keys -> Blocks \cup {NoBlock}] /\ bitmap' \subseteq Blocks
      BY <1>2, <2>1, <2>2 DEF AllInv, TypeOK, Rebuild, Rebuilt
    <2>4. \A k \in Keys : index'[k] = NoBlock
      BY <1>2, <2>1, <2>2, Quiet DEF Rebuild
    <2>5. wpc'[0] \notin Serving
      BY <1>0, <1>2, <2>1, Quiet DEF AllInv, GateInv, Rebuild, Goto, Serving
    <2>6. LockInv' /\ PlacesInv' /\ StoresInv' /\ \A k \in Keys : ~InFlight(k)'
      BY <1>2, <2>1, <2>4, <2>5, Quiet, QuietStep DEF Rebuild
    <2>7. KeptInv'
      BY <1>2, <2>1, <2>6, Quiet DEF AllInv, DurInv, KeptInv, Rebuild
    <2>8. rebuild_num' \in 0 .. Cardinality(Workers)
      <3>1. GateInv'
        BY <1>2, RebuildKeepsGate DEF AllInv
      <3>2. Done' \in SUBSET Workers
        BY DEF Done
      <3>3. Cardinality(Done') \in Nat /\ Cardinality(Done') <= Cardinality(Workers)
        BY <3>2, RecoveryConstants, FS_Subset, FS_CardinalityType
      <3>4. QED
        BY <1>0, <3>1, <3>3 DEF GateInv
    <2>9. wpc' \in [Workers -> AtGate \cup {"idle", "alloc", "store", "count", "migrate"}]
      BY <1>2 DEF AllInv, TypeOK, Rebuild, Goto
    <2>10. TypeOK'
      BY <1>2, <2>3, <2>8, <2>9 DEF AllInv, TypeOK, Rebuild
    <2>11. QED
      BY <2>6, <2>7, <2>10 DEF DurInv
  <1>3. QED
    BY <1>1, <1>2 DEF PassGate

(* At any moment a counted write that is not excepted is somewhere.        *)
LEMMA CountedAtRest ==
    ASSUME AllInv, NEW k \in Keys, expect[k] \in Values, ~InFlight(k), ~Dimmed(k)
    PROVE  ssd[k] = expect[k] \/ \E b \in Holding(k) : nvm[b].data = expect[k]
  <1>1. CASE ipc = "serve"
    <2>1. Placed(k)
      BY <1>1 DEF AllInv, DurInv, KeptInv
    <2>2. CASE index[k] # NoBlock
      BY <2>1, <2>2 DEF AllInv, TypeOK, Placed, Holds, Holding, Valid, Dimmed
    <2>3. ASSUME NEW t \in Threads, Carries(t, k)
          PROVE  ssd[k] = expect[k] \/ \E b \in Holding(k) : nvm[b].data = expect[k]
      <3>1. kv[t].value \in Blocks
        BY <2>3 DEF AllInv, DurInv, PlacesInv, Carries, Moves
      <3>2. kv[t].value \notin dimmed
        BY <2>3 DEF Dimmed, Carries
      <3>3. QED
        BY <2>1, <2>3, <3>1, <3>2 DEF Placed, Holds, Holding, Valid
    <2>4. QED
      BY <2>1, <2>2, <2>3 DEF Placed
  <1>2. CASE ipc # "serve"
    BY <1>2 DEF AllInv, TypeOK, DurInv, KeptInv
  <1>3. QED
    BY <1>1, <1>2

LEMMA PowerFailsDurable ==
    ASSUME AllInv, PowerFails
    PROVE  TypeOK' /\ DurInv'
  <1>0. 0 \in Workers /\ Cardinality(Workers) \in Nat /\ MaxEvents \in Nat
        /\ "worker" \in Writers /\ Threads \subseteq Writers
    BY RecoveryConstants, FS_CardinalityType DEF Writers
  <1>1. /\ wpc'[0] = "none" /\ ipc' = "create" /\ wc' = NoStores /\ lock' = "free"
        /\ \A t \in Threads : ~Moves(t)' /\ kv'[t] = NoEntry
        /\ \A k \in Keys : index'[k] = NoBlock
    BY <1>0 DEF PowerFails, Moves
  <1>2. LockInv' /\ PlacesInv' /\ StoresInv'
    BY <1>0, <1>1 DEF LockInv, PlacesInv, StoresInv, Serving, NoStores
  <1>3. KeptInv'
    <2>1. ASSUME NEW k \in Keys, expect'[k] \in Values
          PROVE  ssd'[k] = expect'[k] \/ \E b \in Holding(k)' : nvm'[b].data = expect'[k]
      <3>1. expect'[k] = expect[k] /\ (ssd[k] = expect[k] \/ (~InFlight(k) /\ ~Dimmed(k)))
        BY <2>1, RecoveryConstants DEF PowerFails, GivenUp
      <3>2. nvm' = nvm /\ ssd' = ssd /\ Holding(k)' = Holding(k)
        BY DEF PowerFails, Holding, Valid
      <3>3. QED
        BY <2>1, <3>1, <3>2, CountedAtRest
    <2>2. QED
      BY <1>1, <2>1 DEF KeptInv
  <1>4. TypeOK'
    <2>1. nvm' \in [Blocks -> [status : {0, 1}, offset : Keys \cup {NoKey}, data : Content]]
          /\ ssd' \in [Keys -> Content] /\ expect' \in [Keys -> Values \cup {NoPromise}]
          /\ memalign_src' \in Threads \cup {Nobody} /\ dimmed' \subseteq Blocks
      BY DEF AllInv, TypeOK, PowerFails, GivenUp
    <2>2. index' \in [Keys -> Blocks \cup {NoBlock}] /\ bitmap' \subseteq Blocks
          /\ task' \in Requests \cup {NoTask} /\ left' \subseteq Blocks
      BY DEF PowerFails
    <2>3. mpc' \in [Threads -> {"none", "stage", "write", "clear"}]
          /\ kv' \in [Threads -> [key : Keys, value : Blocks] \cup {NoEntry}]
          /\ migrate_buf' \in [Threads -> Content]
      BY DEF PowerFails, Content
    <2>4. wpc' \in [Workers -> AtGate \cup {"idle", "alloc", "store", "count", "migrate"}]
      BY DEF PowerFails, AtGate
    <2>5. rebuild' \in BOOLEAN
      BY Zenon DEF PowerFails
    <2>6. missed' \subseteq Workers /\ events' \in 0 .. MaxEvents
          /\ rebuild_num' \in 0 .. Cardinality(Workers) /\ DOMAIN wc' = Writers
      BY <1>0, <1>1 DEF AllInv, TypeOK, PowerFails, NoStores
    <2>7. QED
      BY <1>1, <2>1, <2>2, <2>3, <2>4, <2>5, <2>6 DEF TypeOK
  <1>5. QED
    BY <1>2, <1>3, <1>4 DEF DurInv

LEMMA SegmentsClearDurable ==
    ASSUME AllInv, mix_segments_clear
    PROVE  TypeOK' /\ DurInv'
  <1> USE DEF boot, tables, mutex, movers, history, disk
  <1>1. nvm' = Written(ClearedMeta) /\ nvm \in [Blocks -> Meta]
        /\ wpc[0] = "idle" /\ ipc = "serve" /\ dimmed' = Blocks
    BY DEF AllInv, TypeOK, Meta, mix_segments_clear
  <1>2. nvm' \in [Blocks -> Meta]
        /\ \A b \in Blocks : nvm'[b].data = nvm[b].data /\ nvm'[b].offset = nvm[b].offset
    BY <1>1, WrittenClears
  <1>3. UNCHANGED <<wc, ssd, ipc, wpc, index, bitmap, task, lock, mpc, kv, migrate_buf, expect>>
        /\ \A t \in Threads : ~Moves(t)
    BY DEF AllInv, DurInv, LockInv, mix_segments_clear
  <1>4. LockInv' /\ PlacesInv' /\ StoresInv'
    BY <1>1, <1>3 DEF AllInv, DurInv, LockInv, PlacesInv, StoresInv, Moves
  <1>5. KeptInv'
    <2>1. ASSUME NEW k \in Keys, expect[k] \in Values
          PROVE  Placed(k)'
      <3>1. Placed(k)
        BY <1>1, <2>1 DEF AllInv, DurInv, KeptInv, InFlight
      <3>2. index[k] # NoBlock => Holds(index[k], k)
        BY <1>1, <3>1 DEF Placed
      <3>3. index[k] # NoBlock => Holds(index[k], k)'
        BY <1>1, <1>2, <1>3, <3>2 DEF AllInv, TypeOK, Holds
      <3>4. \A t \in Threads : ~Carries(t, k) /\ ~Carries(t, k)'
        BY <1>3 DEF Carries, Moves
      <3>5. QED
        BY <1>3, <3>1, <3>3, <3>4 DEF Placed
    <2>2. QED
      BY <1>1, <1>3, <2>1 DEF KeptInv
  <1>6. TypeOK'
    BY <1>1, <1>2 DEF AllInv, TypeOK, Meta, mix_segments_clear
  <1>7. QED
    BY <1>4, <1>5, <1>6 DEF DurInv

-----------------------------------------------------------------------------
(* The steps of the worker.                                                *)

(* While worker 0 does not wait for a migration of its own nobody moves    *)
(* its entries.                                                            *)
LEMMA NobodyMoves ==
    ASSUME AllInv, wpc[0] # "migrate"
    PROVE  /\ lock # "own"
           /\ \A t \in Threads : ~Moves(t) /\ \A k \in Keys : ~Carries(t, k)
  BY DEF AllInv, DurInv, LockInv, Moves, Carries

LEMMA ReceiveDurable ==
    ASSUME AllInv, NEW r \in Requests, Receive(r)
    PROVE  TypeOK' /\ DurInv'
  <1> USE DEF boot, mutex, movers, disk, device
  <1>0. 0 \in Workers /\ r.key \in Keys
    BY RecoveryConstants DEF Task
  <1>1. wpc[0] = "idle" /\ lock # "own"
    BY NobodyMoves DEF Receive, Goto
  <1>2. wpc' \in [Workers -> AtGate \cup {"idle", "alloc", "store", "count", "migrate"}]
        /\ wpc'[0] = IF index[r.key] # NoBlock THEN "store"
                     ELSE IF bitmap = Blocks THEN "migrate" ELSE "alloc"
    BY <1>0 DEF AllInv, TypeOK, Receive, Goto
  <1>3. TypeOK'
    BY <1>2, RecoveryConstants DEF AllInv, TypeOK, Receive
  <1>4. LockInv' /\ PlacesInv' /\ StoresInv'
    BY <1>0, <1>1, <1>2
       DEF AllInv, DurInv, LockInv, PlacesInv, StoresInv, Moves, Receive, Serving
  <1>5. KeptInv'
    BY <1>1, <1>2 DEF AllInv, DurInv, KeptInv, Placed, Holds, Carries, InFlight, Receive
  <1>6. QED
    BY <1>3, <1>4, <1>5 DEF DurInv

LEMMA AllocateDurable ==
    ASSUME AllInv, Allocate
    PROVE  TypeOK' /\ DurInv'
  <1> USE DEF boot, mutex, movers, history, disk, device
  <1>0. 0 \in Workers
    BY RecoveryConstants
  <1>1. wpc[0] = "alloc" /\ task \in Requests /\ index[task.key] = NoBlock
        /\ lock # "own" /\ \A t \in Threads : ~Moves(t) /\ \A k \in Keys : ~Carries(t, k)
    BY NobodyMoves DEF AllInv, DurInv, PlacesInv, Allocate, Goto, Serving
  <1>2. task.key \in Keys /\ wc["worker"] = {}
    BY <1>1, RecoveryConstants DEF Task, AllInv, DurInv, StoresInv
  <1>3. PICK b \in FirstFree : bitmap' = bitmap \cup {b} /\ index' = [index EXCEPT ![task.key] = b]
    BY DEF Allocate
  <1>4. b \in Blocks /\ b \notin bitmap /\ b # NoBlock
    BY <1>3 DEF FirstFree, Blocks, NoBlock
  <1>5. wpc' \in [Workers -> AtGate \cup {"idle", "alloc", "store", "count", "migrate"}]
        /\ wpc'[0] = "store"
    BY <1>0, <1>1 DEF AllInv, TypeOK, Allocate, Goto
  <1>6. TypeOK'
    BY <1>3, <1>4, <1>5 DEF AllInv, TypeOK, Allocate
  <1>7. index'[task.key] = b /\ \A k \in Keys \ {task.key} : index'[k] = index[k]
    BY <1>2, <1>3 DEF AllInv, TypeOK
  <1>8. ipc = "serve"
    BY <1>0, <1>1 DEF AllInv, GateInv, Serving
  <1>9. UNCHANGED <<nvm, wc, dimmed, ssd, ipc, task, lock, mpc, kv, migrate_buf, expect>>
    BY DEF Allocate
  <1>10. \A t \in Threads : ~Moves(t)' /\ \A k \in Keys : ~Carries(t, k)'
    BY <1>1, <1>9 DEF Moves, Carries
  <1>11. LockInv' /\ PlacesInv'
    BY <1>1, <1>2, <1>3, <1>4, <1>5, <1>7, <1>8, <1>9, <1>10
       DEF AllInv, DurInv, LockInv, PlacesInv, Serving
  <1>12. StoresInv'
    BY <1>1, <1>2, <1>5, <1>9 DEF AllInv, DurInv, StoresInv
  <1>13. KeptInv'
    <2>1. ASSUME NEW k \in Keys, expect[k] \in Values
          PROVE  Placed(k)'
      <3>1. Placed(k)
        BY <1>1, <1>8, <2>1 DEF AllInv, DurInv, KeptInv, InFlight
      <3>2. CASE k = task.key
        BY <1>1, <1>4, <1>5, <1>7, <1>9, <1>10, <3>1, <3>2 DEF Placed
      <3>3. CASE k # task.key
        BY <1>1, <1>5, <1>7, <1>9, <1>10, <3>1, <3>3 DEF Placed, Holds
      <3>4. QED
        BY <3>2, <3>3
    <2>2. QED
      BY <1>8, <1>9, <2>1 DEF KeptInv
  <1>14. QED
    BY <1>6, <1>11, <1>12, <1>13 DEF DurInv

LEMMA StoreDurable ==
    ASSUME AllInv, Store
    PROVE  TypeOK' /\ DurInv'
  <1> USE DEF boot, mutex, movers, history, disk, tables
  <1>0. 0 \in Workers /\ "worker" \in Writers
        /\ \A t \in Threads : t \in Writers /\ t # "worker"
    BY RecoveryConstants DEF Writers
  <1>1. wpc[0] = "store" /\ task \in Requests /\ index[task.key] # NoBlock
        /\ wc["worker"] = {} /\ lock # "own"
    BY NobodyMoves DEF AllInv, DurInv, PlacesInv, StoresInv, Store, Goto, Serving
  <1>2. wpc' \in [Workers -> AtGate \cup {"idle", "alloc", "store", "count", "migrate"}]
        /\ wpc'[0] = "count"
    BY <1>0, <1>1 DEF AllInv, TypeOK, Store, Goto
  <1>3. wc'["worker"] = StoresOf(index[task.key], task) /\ DOMAIN wc' = DOMAIN wc
        /\ (\A t \in Threads : wc'[t] = wc[t])
    BY <1>0, <1>1 DEF AllInv, TypeOK, Store, Issue, StoresOf
  <1>4. UNCHANGED <<nvm, dimmed, ssd, ipc, index, bitmap, task, lock, mpc, kv, migrate_buf, expect>>
    BY DEF Store, Issue
  <1>5. TypeOK'
    BY <1>2, <1>3, <1>4 DEF AllInv, TypeOK, Store
  <1>6. LockInv' /\ PlacesInv'
    BY <1>1, <1>2, <1>3, <1>4 DEF AllInv, DurInv, LockInv, PlacesInv, Moves, Serving
  <1>7. StoresInv'
    BY <1>1, <1>2, <1>3, <1>4 DEF AllInv, DurInv, StoresInv, StoresOf
  <1>8. KeptInv'
    BY <1>1, <1>2, <1>4 DEF AllInv, DurInv, KeptInv, Placed, Holds, Carries, Holding, Valid,
       InFlight
  <1>9. QED
    BY <1>5, <1>6, <1>7, <1>8 DEF DurInv

(* The worker's stores touch no block but the one of its key.              *)
LEMMA WorkerStores ==
    ASSUME AllInv, wpc[0] = "count", NEW S \in SUBSET wc["worker"], Land("worker", S)
    PROVE  /\ nvm' \in [Blocks -> Meta] /\ dimmed' \subseteq dimmed
           /\ task \in Requests /\ task.key \in Keys /\ index[task.key] \in Blocks
           /\ ipc = "serve" /\ lock # "own"
           /\ \A t \in Threads : ~Moves(t) /\ \A k \in Keys : ~Carries(t, k)
           /\ LET b == index[task.key]
              IN /\ nvm'[b].data = IF <<b, "data", task.buf>> \in S THEN task.buf ELSE nvm[b].data
                 /\ nvm'[b].status = IF <<b, "status", 1>> \in S THEN 1 ELSE nvm[b].status
                 /\ nvm'[b].offset = IF <<b, "offset", task.key>> \in S THEN task.key
                                     ELSE nvm[b].offset
                 /\ b \in dimmed /\ <<b, "status", 1>> \notin S => b \in dimmed'
                 /\ <<b, "status", 1>> \in S => b \notin dimmed'
                 /\ \A c \in Blocks \ {b} : nvm'[c] = nvm[c] /\ (c \in dimmed => c \in dimmed')
           /\ \A k \in Keys \ {task.key} : index[k] # NoBlock =>
                index[k] \in Blocks \ {index[task.key]}
  <1>1. task \in Requests /\ index[task.key] # NoBlock
    BY DEF AllInv, DurInv, PlacesInv, Serving
  <1>2. task.key \in Keys
    BY <1>1, RecoveryConstants DEF Task
  <1>3. index[task.key] \in Blocks /\ nvm \in [Blocks -> Meta] /\ nvm' = Written(S)
    BY <1>1, <1>2 DEF AllInv, TypeOK, Meta, Land
  <1>4. S \in SUBSET StoresOf(index[task.key], task)
    BY <1>1 DEF AllInv, DurInv, StoresInv
  <1>5. ipc = "serve"
    BY RecoveryConstants DEF AllInv, GateInv, Serving
  <1>6. \A k \in Keys \ {task.key} : index[k] # NoBlock => index[k] \in Blocks \ {index[task.key]}
    BY <1>2 DEF AllInv, TypeOK, DurInv, PlacesInv
  <1>7. dimmed' = dimmed \ Marked(S, 1)
    BY RecoveryConstants DEF Land, Foreign
  <1>8. \A c \in Marked(S, 1) : c = index[task.key] /\ <<index[task.key], "status", 1>> \in S
    BY <1>4 DEF Marked, StoresOf
  <1>9. <<index[task.key], "status", 1>> \in S => index[task.key] \in Marked(S, 1)
    BY <1>3 DEF Marked
  <1>10. /\ nvm' \in [Blocks -> Meta]
         /\ LET b == index[task.key]
            IN /\ nvm'[b].data = IF <<b, "data", task.buf>> \in S THEN task.buf ELSE nvm[b].data
               /\ nvm'[b].status = IF <<b, "status", 1>> \in S THEN 1 ELSE nvm[b].status
               /\ nvm'[b].offset = IF <<b, "offset", task.key>> \in S THEN task.key
                                   ELSE nvm[b].offset
               /\ \A c \in Blocks \ {b} : nvm'[c] = nvm[c]
    BY <1>1, <1>3, <1>4, WrittenStores
  <1>11. QED
    BY <1>1, <1>2, <1>3, <1>5, <1>6, <1>7, <1>8, <1>9, <1>10, NobodyMoves

LEMMA CountWriteDurable ==
    ASSUME AllInv, CountWrite
    PROVE  TypeOK' /\ DurInv'
  <1> USE DEF boot, mutex, movers, disk
  <1>0. 0 \in Workers /\ "worker" \in Writers
        /\ \A t \in Threads : t \in Writers /\ t # "worker"
    BY RecoveryConstants DEF Writers
  <1>1. wpc[0] = "count" /\ Land("worker", wc["worker"]) /\ wc["worker"] \in SUBSET wc["worker"]
    BY DEF CountWrite, Goto, Drain
  <1>2. /\ nvm' \in [Blocks -> Meta] /\ dimmed' \subseteq dimmed
        /\ task \in Requests /\ task.key \in Keys /\ index[task.key] \in Blocks
        /\ ipc = "serve" /\ lock # "own"
        /\ \A t \in Threads : ~Moves(t) /\ \A k \in Keys : ~Carries(t, k)
        /\ \A c \in Blocks \ {index[task.key]} : nvm'[c] = nvm[c] /\ (c \in dimmed => c \in dimmed')
        /\ \A k \in Keys \ {task.key} : index[k] # NoBlock =>
                index[k] \in Blocks \ {index[task.key]}
    BY <1>1, WorkerStores
  <1>3. nvm'[index[task.key]].data = task.buf /\ nvm'[index[task.key]].offset = task.key
        /\ (nvm'[index[task.key]].status = 1 \/ index[task.key] \in dimmed')
    BY <1>1, WorkerStores DEF AllInv, DurInv, StoresInv
  <1>4. wpc' \in [Workers -> AtGate \cup {"idle", "alloc", "store", "count", "migrate"}]
        /\ wpc'[0] = "idle"
    BY <1>0, <1>1 DEF AllInv, TypeOK, CountWrite, Goto
  <1>5. wc'["worker"] = {} /\ DOMAIN wc' = DOMAIN wc /\ \A t \in Threads : wc'[t] = wc[t]
    BY <1>0 DEF AllInv, TypeOK, CountWrite, Drain
  <1>6. task.buf \in Values /\ expect' = [expect EXCEPT ![task.key] = task.buf]
        /\ UNCHANGED <<ssd, ipc, index, bitmap, lock, mpc, kv, migrate_buf>>
    BY <1>2, RecoveryConstants DEF Task, CountWrite
  <1>7. TypeOK'
    <2>1. expect' \in [Keys -> Values \cup {NoPromise}] /\ dimmed' \subseteq Blocks
      BY <1>2, <1>6 DEF AllInv, TypeOK
    <2>2. QED
      BY <1>2, <1>4, <1>5, <2>1 DEF AllInv, TypeOK, CountWrite, Meta
  <1>8. LockInv' /\ PlacesInv' /\ StoresInv'
    BY <1>2, <1>4, <1>5, <1>6 DEF AllInv, DurInv, LockInv, PlacesInv, StoresInv, Moves, Serving
  <1>9. KeptInv'
    <2>1. ASSUME NEW k \in Keys, expect'[k] \in Values
          PROVE  Placed(k)'
      <3>0. \A t \in Threads : ~Carries(t, k)'
        BY <1>2, <1>6 DEF Carries
      <3>1. CASE k = task.key
        <4>1. expect'[k] = task.buf
          BY <1>2, <1>6, <3>1 DEF AllInv, TypeOK
        <4>2. Holds(index[k], k)'
          BY <1>2, <1>3, <1>6, <3>1, <4>1 DEF Holds
        <4>3. index'[k] # NoBlock
          BY <1>2, <1>6, <3>1 DEF Blocks, NoBlock
        <4>4. QED
          BY <3>0, <4>2, <4>3 DEF Placed
      <3>2. CASE k # task.key
        <4>1. expect'[k] = expect[k]
          BY <1>6, <3>2 DEF AllInv, TypeOK
        <4>2. Placed(k)
          BY <1>2, <2>1, <3>2, <4>1 DEF AllInv, DurInv, KeptInv, InFlight
        <4>3. index[k] # NoBlock => Holds(index[k], k)
          BY <1>1, <4>2 DEF Placed
        <4>4. index[k] # NoBlock => Holds(index[k], k)'
          BY <1>2, <1>6, <3>2, <4>1, <4>3 DEF Holds
        <4>5. index[k] = NoBlock => ssd[k] = expect[k]
          BY <1>2, <4>2 DEF Placed
        <4>6. QED
          BY <1>6, <3>0, <4>1, <4>4, <4>5 DEF Placed
      <3>3. QED
        BY <3>1, <3>2
    <2>2. QED
      BY <1>2, <1>6, <2>1 DEF KeptInv
  <1>10. QED
    BY <1>7, <1>8, <1>9 DEF DurInv

(* A step in which nothing happens to the blocks, the ssd and the entries. *)
LEMMA BlocksStay ==
    ASSUME AllInv,
           UNCHANGED <<nvm, dimmed, ssd, index, bitmap, task, expect, ipc, wpc, mpc, kv,
                       migrate_buf>>
    PROVE  PlacesInv' /\ KeptInv'
  <1>1. PlacesInv'
    BY DEF AllInv, DurInv, PlacesInv, Moves
  <1>2. KeptInv'
    BY DEF AllInv, DurInv, KeptInv, Placed, Holds, Carries, Holding, Valid, InFlight
  <1>3. QED
    BY <1>1, <1>2

(* With the mutex free the write buffers of the threads are empty.         *)
LEMMA MutexDurable ==
    ASSUME AllInv, Lock \/ OtherBegin \/ OtherEnd \/ StageLarge
    PROVE  TypeOK' /\ DurInv'
  <1> USE DEF boot, mutex, movers, history, disk, tables, device
  <1>1. UNCHANGED <<nvm, wc, dimmed, ssd, index, bitmap, task, expect, ipc, wpc, mpc, kv,
                    migrate_buf>>
    BY DEF Lock, OtherBegin, OtherEnd, StageLarge
  <1>2. PlacesInv' /\ KeptInv'
    BY <1>1, BlocksStay
  <1>3. /\ lock' = "own" => wpc[0] = "migrate"
        /\ lock' # lock => lock # "own" /\ \A t \in Threads : wc[t] = {}
    BY DEF AllInv, DurInv, LockInv, Lock, OtherBegin, OtherEnd, StageLarge
  <1>4. LockInv' /\ StoresInv'
    BY <1>1, <1>3 DEF AllInv, DurInv, LockInv, StoresInv, Moves
  <1>5. lock' \in {"free", "own", "other"} /\ left' \subseteq Blocks
        /\ memalign_src' \in Threads \cup {Nobody} /\ events' \in 0 .. MaxEvents
    BY RecoveryConstants DEF AllInv, TypeOK, Lock, OtherBegin, OtherEnd, StageLarge
  <1>6. TypeOK'
    BY <1>1, <1>5 DEF AllInv, TypeOK, Lock, OtherBegin, OtherEnd, StageLarge
  <1>7. QED
    BY <1>2, <1>4, <1>6 DEF DurInv

LEMMA MigrationEndDurable ==
    ASSUME AllInv, MigrationEnd
    PROVE  TypeOK' /\ DurInv'
  <1> USE DEF boot, movers, history, disk, device
  <1>0. 0 \in Workers /\ Blocks # {}
    BY RecoveryConstants DEF Blocks
  <1>1. /\ wpc[0] = "migrate" /\ task \in Requests /\ lock' = "free" /\ bitmap' = {}
        /\ \A k \in Keys : index[k] = NoBlock
        /\ \A t \in Threads : mpc[t] = "none" /\ wc[t] = {}
    BY DEF AllInv, DurInv, PlacesInv, MigrationEnd, Goto, Serving
  <1>2. wpc' \in [Workers -> AtGate \cup {"idle", "alloc", "store", "count", "migrate"}]
        /\ wpc'[0] = "alloc"
    BY <1>0, <1>1 DEF AllInv, TypeOK, MigrationEnd, Goto
  <1>3. UNCHANGED <<nvm, wc, dimmed, ssd, ipc, index, task, mpc, kv, migrate_buf, expect>>
    BY DEF MigrationEnd
  <1>4. TypeOK'
    BY <1>1, <1>2, <1>3 DEF AllInv, TypeOK, MigrationEnd
  <1>5. task.key \in Keys
    BY <1>1, RecoveryConstants DEF Task
  <1>6. LockInv' /\ PlacesInv' /\ StoresInv'
    BY <1>0, <1>1, <1>2, <1>3, <1>5
       DEF AllInv, DurInv, LockInv, PlacesInv, StoresInv, Moves, Serving
  <1>7. KeptInv'
    BY <1>1, <1>2, <1>3
       DEF AllInv, DurInv, KeptInv, Placed, Holds, Carries, Holding, Valid, InFlight
  <1>8. QED
    BY <1>4, <1>6, <1>7 DEF DurInv

-----------------------------------------------------------------------------
(* The steps of the migrate threads.                                       *)

LEMMA ThreadWriter ==
    ASSUME NEW t \in Threads
    PROVE  t \in Writers /\ t # "worker" /\ t # "init" /\ "worker" \in Writers
  BY RecoveryConstants DEF Writers

LEMMA TakeEntryDurable ==
    ASSUME AllInv, NEW t \in Threads, NEW m \in Keys, TakeEntry(t, m)
    PROVE  TypeOK' /\ DurInv'
  <1> USE DEF boot, mutex, history, disk, device
  <1>1. lock = "own" /\ wpc[0] = "migrate" /\ ~Moves(t) /\ wc[t] = {}
        /\ index[m] # NoBlock /\ index[m] \in Blocks /\ task \in Requests /\ wc["worker"] = {}
    BY DEF AllInv, TypeOK, DurInv, LockInv, PlacesInv, StoresInv, Moves, TakeEntry, Serving
  <1>2. task.key \in Keys /\ ipc = "serve"
    BY <1>1, RecoveryConstants DEF AllInv, GateInv, Task, Serving
  <1>3. index'[m] = NoBlock /\ \A k \in Keys \ {m} : index'[k] = index[k]
    BY DEF AllInv, TypeOK, TakeEntry
  <1>4. kv'[t] = [key |-> m, value |-> index[m]] /\ mpc'[t] = "stage"
        /\ migrate_buf'[t] = nvm[index[m]].data
        /\ \A u \in Threads \ {t} : kv'[u] = kv[u] /\ mpc'[u] = mpc[u]
                                    /\ migrate_buf'[u] = migrate_buf[u]
    BY DEF AllInv, TypeOK, TakeEntry
  <1>5. kv'[t] \in [key : Keys, value : Blocks] /\ kv'[t].key = m /\ kv'[t].value = index[m]
    BY <1>1, <1>4
  <1>6. UNCHANGED <<nvm, wc, dimmed, ssd, ipc, wpc, bitmap, task, lock, expect>>
    BY DEF TakeEntry
  <1>7. TypeOK'
    <2>1. /\ index' \in [Keys -> Blocks \cup {NoBlock}]
          /\ mpc' \in [Threads -> {"none", "stage", "write", "clear"}]
          /\ migrate_buf' \in [Threads -> Content]
          /\ kv' \in [Threads -> [key : Keys, value : Blocks] \cup {NoEntry}]
      BY <1>1 DEF AllInv, TypeOK, TakeEntry
    <2>2. QED
      BY <2>1 DEF AllInv, TypeOK, TakeEntry
  <1>8. LockInv'
    BY <1>1, <1>4, <1>6 DEF AllInv, DurInv, LockInv, Moves
  <1>9. PlacesInv'
    BY <1>1, <1>2, <1>3, <1>4, <1>5, <1>6 DEF AllInv, DurInv, PlacesInv, Moves, Serving
  <1>10. StoresInv'
    <2>1. ASSUME NEW u \in Threads, NEW x \in wc[u]
          PROVE  /\ \A k \in Keys : index'[k] # x[1]
                 /\ \A v \in Threads : Moves(v)' => kv'[v].value # x[1]
      <3>1. x[1] # NoBlock
        BY DEF AllInv, DurInv, StoresInv, ClearedMeta, Blocks, NoBlock
      <3>2. /\ \A k \in Keys : index[k] # x[1]
            /\ \A v \in Threads : Moves(v) => kv[v].value # x[1]
        BY <1>1 DEF AllInv, DurInv, StoresInv
      <3>3. QED
        BY <1>3, <1>4, <1>5, <3>1, <3>2 DEF Moves
    <2>2. QED
      BY <1>1, <1>6, <2>1 DEF AllInv, DurInv, StoresInv
  <1>11. KeptInv'
    <2>1. ASSUME NEW k \in Keys, expect[k] \in Values
          PROVE  Placed(k)'
      <3>1. Placed(k)
        BY <1>1, <1>2, <2>1 DEF AllInv, DurInv, KeptInv, InFlight
      <3>2. \A u \in Threads \ {t} : Carries(u, k)' <=> Carries(u, k)
        BY <1>4 DEF Carries
      <3>3. CASE k = m
        <4>1. \A u \in Threads \ {t} : ~Carries(u, k)
          BY <1>1, <3>3 DEF AllInv, DurInv, PlacesInv, Carries, Moves
        <4>2. Holds(index[k], k)
          BY <1>1, <3>1, <3>3 DEF Placed
        <4>3. Holds(kv[t].value, k)' /\ migrate_buf'[t] = expect'[k]
          BY <1>4, <1>5, <1>6, <3>3, <4>2 DEF Holds
        <4>4. Carries(t, k)'
          BY <1>4, <1>5, <3>3 DEF Carries
        <4>5. QED
          BY <1>3, <3>2, <3>3, <4>1, <4>3, <4>4 DEF Placed
      <3>4. CASE k # m
        <4>1. ~Carries(t, k) /\ ~Carries(t, k)'
          BY <1>1, <1>5, <3>4 DEF Carries, Moves
        <4>2. QED
          BY <1>1, <1>3, <1>4, <1>6, <3>1, <3>2, <3>4, <4>1 DEF Placed, Holds
      <3>5. QED
        BY <3>3, <3>4
    <2>2. QED
      BY <1>2, <1>6, <2>1 DEF KeptInv
  <1>12. QED
    BY <1>7, <1>8, <1>9, <1>10, <1>11 DEF DurInv

(* What is known of a thread with an entry in hand.                        *)
LEMMA Moving ==
    ASSUME AllInv, NEW t \in Threads, mpc[t] # "none"
    PROVE  /\ lock = "own" /\ wpc[0] = "migrate" /\ ipc = "serve"
           /\ wc["worker"] = {} /\ wc[t] = {}
           /\ kv[t] \in [key : Keys, value : Blocks] /\ index[kv[t].key] = NoBlock
           /\ \A k \in Keys : ~InFlight(k) /\ index[k] # kv[t].value
           /\ \A u \in Threads \ {t} : Moves(u) =>
                kv[u].key # kv[t].key /\ kv[u].value # kv[t].value
  BY RecoveryConstants
     DEF AllInv, GateInv, DurInv, LockInv, PlacesInv, StoresInv, InFlight, Moves, Serving

LEMMA StageSsdDurable ==
    ASSUME AllInv, NEW t \in Threads, StageSsd(t)
    PROVE  TypeOK' /\ DurInv'
  <1> USE DEF boot, mutex, history, tables, device
  <1>1. mpc[t] = "stage" /\ mpc'[t] = "write"
        /\ \A u \in Threads \ {t} : mpc'[u] = mpc[u]
    BY DEF AllInv, TypeOK, StageSsd
  <1>2. UNCHANGED <<nvm, wc, dimmed, ssd, index, bitmap, task, lock, expect, ipc, wpc, kv,
                    migrate_buf>>
    BY DEF StageSsd
  <1>3. \A u \in Threads : Moves(u)' <=> Moves(u)
    BY <1>1 DEF Moves
  <1>4. \A u \in Threads, k \in Keys : Carries(u, k)' <=> Carries(u, k)
    BY <1>1, <1>2 DEF Carries
  <1>5. TypeOK'
    BY DEF AllInv, TypeOK, StageSsd
  <1>6. LockInv' /\ PlacesInv' /\ StoresInv'
    BY <1>2, <1>3 DEF AllInv, DurInv, LockInv, PlacesInv, StoresInv
  <1>7. KeptInv'
    BY <1>2, <1>4 DEF AllInv, DurInv, KeptInv, Placed, Holds, Holding, Valid, InFlight
  <1>8. QED
    BY <1>5, <1>6, <1>7 DEF DurInv

LEMMA WriteSsdDurable ==
    ASSUME AllInv, NEW t \in Threads, WriteSsd(t)
    PROVE  TypeOK' /\ DurInv'
  <1> USE DEF boot, mutex, tables, device
  <1>1. mpc[t] = "write" /\ mpc'[t] = "clear"
        /\ \A u \in Threads \ {t} : mpc'[u] = mpc[u] /\ migrate_buf'[u] = migrate_buf[u]
    BY DEF AllInv, TypeOK, WriteSsd
  <1>2. UNCHANGED <<nvm, wc, dimmed, index, bitmap, task, lock, ipc, wpc, kv>>
    BY DEF WriteSsd
  <1>3. \A k \in Keys \ {kv[t].key} : ssd'[k] = ssd[k] /\ expect'[k] = expect[k]
    BY DEF WriteSsd
  <1>4. kv[t].key \in Keys /\ migrate_buf[t] \in Content
    BY <1>1, Moving DEF AllInv, TypeOK
  <1>5. LET k == kv[t].key
        IN  \/ ssd'[k] = migrate_buf[t] /\ expect'[k] = expect[k]
            \/ ssd'[k] = Junk /\ expect'[k] = NoPromise
    BY <1>4 DEF WriteSsd
  <1>6. \A u \in Threads : Moves(u)' <=> Moves(u)
    BY <1>1 DEF Moves
  <1>7. TypeOK'
    <2>1. ssd' \in [Keys -> Content] /\ expect' \in [Keys -> Values \cup {NoPromise}]
      BY <1>4 DEF AllInv, TypeOK, WriteSsd, Content
    <2>2. /\ mpc' \in [Threads -> {"none", "stage", "write", "clear"}]
          /\ migrate_buf' \in [Threads -> Content] /\ memalign_src' \in Threads \cup {Nobody}
      BY DEF AllInv, TypeOK, WriteSsd, Content
    <2>3. QED
      BY <2>1, <2>2 DEF AllInv, TypeOK, WriteSsd
  <1>8. LockInv' /\ PlacesInv' /\ StoresInv'
    BY <1>2, <1>6 DEF AllInv, DurInv, LockInv, PlacesInv, StoresInv
  <1>9. KeptInv'
    <2>1. ASSUME NEW k \in Keys, expect'[k] \in Values
          PROVE  Placed(k)'
      <3>1. ~Carries(t, k)' /\ expect'[k] = expect[k]
        BY <1>1, <1>3, <1>5, <2>1, RecoveryConstants DEF Carries
      <3>2. Placed(k) /\ ipc = "serve"
        BY <1>1, <2>1, <3>1, Moving DEF AllInv, DurInv, KeptInv
      <3>3. \A u \in Threads \ {t} : Carries(u, k)' <=> Carries(u, k)
        BY <1>1, <1>2 DEF Carries
      <3>4. CASE k = kv[t].key
        <4>1. index[k] = NoBlock /\ \A u \in Threads \ {t} : ~Carries(u, k)
          BY <1>1, <3>4, Moving DEF Carries, Moves
        <4>2. ssd'[k] = expect'[k]
          <5>1. Carries(t, k)
            BY <1>1, <3>4 DEF Carries
          <5>2. migrate_buf[t] = expect[k]
            BY <3>2, <5>1 DEF Placed
          <5>3. QED
            BY <1>5, <2>1, <3>1, <3>4, <5>2, RecoveryConstants
        <4>3. QED
          BY <1>2, <3>1, <3>3, <4>1, <4>2 DEF Placed
      <3>5. CASE k # kv[t].key
        <4>1. ~Carries(t, k) /\ ssd'[k] = ssd[k]
          BY <1>3, <3>5 DEF Carries
        <4>2. QED
          BY <1>1, <1>2, <3>1, <3>2, <3>3, <4>1 DEF Placed, Holds
      <3>6. QED
        BY <3>4, <3>5
    <2>2. QED
      BY <1>1, <1>2, <2>1, Moving DEF KeptInv
  <1>10. QED
    BY <1>7, <1>8, <1>9 DEF DurInv

LEMMA ClearBlockDurable ==
    ASSUME AllInv, NEW t \in Threads, ClearBlock(t)
    PROVE  TypeOK' /\ DurInv'
  <1> USE DEF boot, mutex, history, tables, disk
  <1>1. mpc[t] = "clear" /\ mpc'[t] = "none" /\ kv'[t] = NoEntry
        /\ \A u \in Threads \ {t} : mpc'[u] = mpc[u] /\ kv'[u] = kv[u]
    BY DEF AllInv, TypeOK, ClearBlock
  <1>2. UNCHANGED <<nvm, dimmed, ssd, index, bitmap, task, lock, ipc, wpc, migrate_buf, expect>>
    BY DEF ClearBlock, mix_buffer_clear, Issue
  <1>3. wc'[t] = {<<kv[t].value, "status", 0>>} /\ wc'["worker"] = {} /\ DOMAIN wc' = DOMAIN wc
        /\ \A u \in Threads \ {t} : wc'[u] = wc[u]
    BY <1>1, Moving, ThreadWriter DEF AllInv, TypeOK, ClearBlock, mix_buffer_clear, Issue
  <1>4. kv[t].value \in Blocks /\ <<kv[t].value, "status", 0>> \in ClearedMeta
    BY <1>1, Moving DEF ClearedMeta
  <1>5. ~Moves(t)' /\ \A u \in Threads \ {t} : (Moves(u)' <=> Moves(u))
    BY <1>1 DEF Moves
  <1>6. \A u \in Threads, k \in Keys : Carries(u, k)' <=> Carries(u, k)
    BY <1>1 DEF Carries
  <1>7. TypeOK'
    <2>1. mpc' \in [Threads -> {"none", "stage", "write", "clear"}]
          /\ kv' \in [Threads -> [key : Keys, value : Blocks] \cup {NoEntry}]
      BY DEF AllInv, TypeOK, ClearBlock
    <2>2. QED
      BY <1>2, <1>3, <2>1 DEF AllInv, TypeOK, ClearBlock
  <1>8. LockInv' /\ PlacesInv'
    BY <1>1, <1>2, <1>3, <1>5, Moving DEF AllInv, DurInv, LockInv, PlacesInv
  <1>9. StoresInv'
    <2>1. /\ \A k \in Keys : index[k] # kv[t].value
          /\ \A u \in Threads \ {t} : Moves(u) => kv[u].value # kv[t].value
          /\ wpc[0] = "migrate"
      BY <1>1, Moving
    <2>2. \A x \in wc'[t] : x[1] = kv[t].value
      BY <1>3
    <2>3. QED
      BY <1>1, <1>2, <1>3, <1>4, <1>5, <2>1, <2>2 DEF AllInv, DurInv, StoresInv
  <1>10. KeptInv'
    <2>1. ipc = "serve" /\ \A k \in Keys : ~InFlight(k)
      BY <1>1, Moving
    <2>2. ASSUME NEW k \in Keys, expect[k] \in Values
          PROVE  Placed(k)'
      <3>1. Placed(k)
        BY <2>1, <2>2 DEF AllInv, DurInv, KeptInv
      <3>2. \A u \in Threads : Carries(u, k) => kv'[u] = kv[u]
        BY <1>1 DEF Carries
      <3>3. QED
        BY <1>2, <1>6, <3>1, <3>2 DEF Placed, Holds
    <2>3. QED
      BY <1>2, <2>1, <2>2 DEF KeptInv
  <1>11. QED
    BY <1>7, <1>8, <1>9, <1>10 DEF DurInv

LEMMA OtherClearDurable ==
    ASSUME AllInv, NEW t \in Threads, NEW b \in Blocks, OtherClear(t, b)
    PROVE  TypeOK' /\ DurInv'
  <1> USE DEF boot, mutex, history, tables, disk, movers
  <1>1. lock = "other" /\ UNCHANGED <<nvm, dimmed, ssd, index, bitmap, task, expect, ipc, wpc, mpc,
                                      kv, migrate_buf, lock>>
    BY DEF OtherClear, mix_buffer_clear, Issue
  <1>2. wc'[t] = {<<b, "status", 0>>} /\ wc'["worker"] = wc["worker"] /\ DOMAIN wc' = DOMAIN wc
        /\ \A u \in Threads \ {t} : wc'[u] = wc[u]
    BY ThreadWriter DEF AllInv, TypeOK, OtherClear, mix_buffer_clear, Issue
  <1>3. PlacesInv' /\ KeptInv'
    BY <1>1, BlocksStay
  <1>4. \A u \in Threads : ~Moves(u) /\ ~Moves(u)'
    BY <1>1 DEF AllInv, DurInv, LockInv, Moves
  <1>5. LockInv'
    BY <1>1, <1>4 DEF AllInv, DurInv, LockInv
  <1>6. StoresInv'
    BY <1>1, <1>2 DEF AllInv, DurInv, StoresInv, ClearedMeta
  <1>7. TypeOK'
    BY <1>1, <1>2 DEF AllInv, TypeOK, OtherClear
  <1>8. QED
    BY <1>3, <1>5, <1>6, <1>7 DEF DurInv

-----------------------------------------------------------------------------
(* The stores on their way to the device.                                  *)

(* The clears of a thread: at work for worker 0 it clears no block that is *)
(* indexed or in hand, at work for another it dims what it clears.         *)
LEMMA ThreadStores ==
    ASSUME AllInv, NEW t \in Threads, NEW x \in wc[t], Land(t, {x})
    PROVE  /\ nvm' \in [Blocks -> Meta] /\ ipc = "serve" /\ lock # "free"
           /\ \E c \in Blocks : x = <<c, "status", 0>>
           /\ \A b \in Blocks :
                /\ nvm'[b].data = nvm[b].data /\ nvm'[b].offset = nvm[b].offset
                /\ nvm'[b].status = IF x = <<b, "status", 0>> THEN 0 ELSE nvm[b].status
                /\ b \in dimmed => b \in dimmed'
                /\ lock = "other" /\ x = <<b, "status", 0>> => b \in dimmed'
           /\ lock = "own" => dimmed' = dimmed
           /\ lock = "own" =>
                /\ \A k \in Keys : x # <<index[k], "status", 0>>
                /\ \A u \in Threads : Moves(u) => x # <<kv[u].value, "status", 0>>
           /\ \A b \in Blocks : b \in dimmed' => b \in dimmed \/ x = <<b, "status", 0>>
  <1>1. nvm \in [Blocks -> Meta] /\ {x} \in SUBSET ClearedMeta /\ nvm' = Written({x})
    BY DEF AllInv, TypeOK, DurInv, StoresInv, Meta, Land
  <1>2. PICK c \in Blocks : x = <<c, "status", 0>>
    BY <1>1 DEF ClearedMeta
  <1>3. lock # "free" /\ lock \in {"free", "own", "other"} /\ ipc = "serve"
    BY DEF AllInv, TypeOK, GateInv, DurInv, LockInv
  <1>4. /\ nvm' \in [Blocks -> Meta]
        /\ \A b \in Blocks : nvm'[b].data = nvm[b].data /\ nvm'[b].offset = nvm[b].offset
    BY <1>1, WrittenClears
  <1>5. ASSUME NEW b \in Blocks
        PROVE  nvm'[b].status = IF x = <<b, "status", 0>> THEN 0 ELSE nvm[b].status
    <2>1. "status" \in DOMAIN nvm[b]
      BY <1>1 DEF Meta
    <2>2. QED
      BY <1>1, <2>1, WrittenClear
  <1>6. dimmed' = IF lock = "other" THEN dimmed \cup Marked({x}, 0) ELSE dimmed \ Marked({x}, 1)
    BY DEF Land, Foreign
  <1>7. Marked({x}, 1) = {} /\ Marked({x}, 0) = {c}
    BY <1>2 DEF Marked
  <1>8. lock = "own" => \A k \in Keys : x # <<index[k], "status", 0>>
    BY DEF AllInv, DurInv, StoresInv
  <1>9. lock = "own" => \A u \in Threads : Moves(u) => x # <<kv[u].value, "status", 0>>
    BY DEF AllInv, DurInv, StoresInv
  <1>10. QED
    BY <1>2, <1>3, <1>4, <1>5, <1>6, <1>7, <1>8, <1>9

(* What an eviction changes apart from the blocks.                         *)
LEMMA Evicted ==
    ASSUME AllInv, NEW t \in Writers, Evict(t), nvm' \in [Blocks -> Meta]
    PROVE  /\ \E x \in wc[t] : Land(t, {x}) /\ wc'[t] = wc[t] \ {x}
           /\ \A u \in Writers \ {t} : wc'[u] = wc[u]
           /\ \A u \in Writers : wc'[u] \subseteq wc[u]
           /\ UNCHANGED <<ssd, ipc, index, bitmap, task, lock, mpc, kv, migrate_buf, expect, wpc>>
           /\ TypeOK' /\ LockInv' /\ PlacesInv'
  <1> USE DEF boot, tables, mutex, movers, history, disk
  <1>1. PICK x \in wc[t] : Land(t, {x}) /\ wc' = [wc EXCEPT ![t] = @ \ {x}]
    BY DEF Evict
  <1>2. DOMAIN wc' = DOMAIN wc /\ wc'[t] = wc[t] \ {x} /\ \A u \in Writers \ {t} : wc'[u] = wc[u]
    BY <1>1 DEF AllInv, TypeOK
  <1>3. UNCHANGED <<ssd, ipc, index, bitmap, task, lock, mpc, kv, migrate_buf, expect, wpc>>
    BY DEF Evict
  <1>4. dimmed' \subseteq Blocks
    BY <1>1, LandTypes DEF AllInv
  <1>5. TypeOK'
    BY <1>2, <1>4 DEF AllInv, TypeOK, Evict, Meta
  <1>6. LockInv'
    BY <1>2, <1>3, ThreadWriter DEF AllInv, DurInv, LockInv, Moves
  <1>7. PlacesInv'
    BY <1>3 DEF AllInv, DurInv, PlacesInv, Moves
  <1>8. QED
    BY <1>1, <1>2, <1>3, <1>5, <1>6, <1>7

LEMMA EvictInitDurable ==
    ASSUME AllInv, Evict("init")
    PROVE  TypeOK' /\ DurInv'
  <1>0. "init" \in Writers /\ "worker" \in Writers \ {"init"}
        /\ Threads \subseteq Writers \ {"init"}
    BY RecoveryConstants DEF Writers
  <1>1. PICK x \in wc["init"] : Land("init", {x})
    BY DEF Evict
  <1>2. ipc = "broadcast" /\ {x} \in SUBSET ClearedMeta
    BY <1>0, <1>1 DEF AllInv, ClearInv
  <1>3. nvm' \in [Blocks -> Meta]
    BY <1>1, <1>2, WrittenClears DEF AllInv, TypeOK, Meta, Land
  <1>4. /\ TypeOK' /\ LockInv' /\ PlacesInv'
        /\ \A u \in Writers \ {"init"} : wc'[u] = {}
        /\ UNCHANGED <<ssd, ipc, index, task, lock, wpc, expect>>
    BY <1>0, <1>2, <1>3, Evicted, Quiet
  <1>5. StoresInv'
    BY <1>0, <1>2, <1>4, Quiet DEF StoresInv, Serving
  <1>6. KeptInv'
    BY <1>2, <1>4 DEF AllInv, DurInv, KeptInv, InFlight
  <1>7. QED
    BY <1>4, <1>5, <1>6 DEF DurInv

LEMMA EvictWorkerDurable ==
    ASSUME AllInv, Evict("worker")
    PROVE  TypeOK' /\ DurInv'
  <1>0. "worker" \in Writers /\ \A t \in Threads : t \in Writers \ {"worker"}
    BY RecoveryConstants DEF Writers
  <1>1. PICK x \in wc["worker"] : Land("worker", {x})
                                  /\ wc' = [wc EXCEPT !["worker"] = @ \ {x}]
    BY DEF Evict
  <1>2. wpc[0] = "count" /\ {x} \in SUBSET wc["worker"]
        /\ wc["worker"] \subseteq StoresOf(index[task.key], task)
    BY <1>1 DEF AllInv, DurInv, StoresInv
  <1>3. /\ nvm' \in [Blocks -> Meta] /\ task.key \in Keys /\ index[task.key] \in Blocks
        /\ ipc = "serve" /\ lock # "own"
        /\ \A t \in Threads : ~Moves(t) /\ \A k \in Keys : ~Carries(t, k)
        /\ \A c \in Blocks \ {index[task.key]} : nvm'[c] = nvm[c] /\ (c \in dimmed => c \in dimmed')
        /\ \A k \in Keys \ {task.key} : index[k] # NoBlock =>
                index[k] \in Blocks \ {index[task.key]}
    BY <1>1, <1>2, WorkerStores
  <1>4. /\ TypeOK' /\ LockInv' /\ PlacesInv'
        /\ \A t \in Threads : wc'[t] = wc[t]
        /\ UNCHANGED <<ssd, ipc, index, task, lock, mpc, kv, migrate_buf, expect, wpc>>
    BY <1>0, <1>3, Evicted
  <1>5. wc'["worker"] = wc["worker"] \ {x}
    BY <1>0, <1>1 DEF AllInv, TypeOK
  <1>6. StoresInv'
    <2>1. LET b == index[task.key]
          IN /\ nvm'[b].data = task.buf \/ <<b, "data", task.buf>> \in wc'["worker"]
             /\ nvm'[b].status = 1 \/ <<b, "status", 1>> \in wc'["worker"] \/ b \in dimmed'
             /\ nvm'[b].offset = task.key \/ <<b, "offset", task.key>> \in wc'["worker"]
      BY <1>1, <1>2, <1>5, WorkerStores DEF AllInv, DurInv, StoresInv
    <2>2. QED
      BY <1>2, <1>3, <1>4, <1>5, <2>1 DEF AllInv, DurInv, StoresInv
  <1>7. KeptInv'
    <2>1. ASSUME NEW k \in Keys, expect[k] \in Values, k # task.key
          PROVE  Placed(k)'
      <3>1. Placed(k)
        BY <1>3, <2>1 DEF AllInv, DurInv, KeptInv, InFlight
      <3>2. \A t \in Threads : ~Carries(t, k)'
        BY <1>3, <1>4 DEF Carries
      <3>3. index[k] # NoBlock => Holds(index[k], k)
        BY <1>2, <3>1 DEF Placed
      <3>4. index[k] # NoBlock => Holds(index[k], k)'
        BY <1>3, <1>4, <2>1, <3>3 DEF Holds
      <3>5. QED
        BY <1>3, <1>4, <3>1, <3>2, <3>4 DEF Placed
    <2>2. QED
      BY <1>2, <1>3, <1>4, <2>1 DEF KeptInv, InFlight
  <1>8. QED
    BY <1>4, <1>6, <1>7 DEF DurInv

LEMMA EvictThreadDurable ==
    ASSUME AllInv, NEW t \in Threads, Evict(t)
    PROVE  TypeOK' /\ DurInv'
  <1>0. t \in Writers /\ t # "worker" /\ "worker" \in Writers /\ Threads \subseteq Writers
    BY ThreadWriter
  <1>1. PICK x \in wc[t] : Land(t, {x})
    BY DEF Evict
  <1>2. /\ nvm' \in [Blocks -> Meta] /\ ipc = "serve" /\ lock # "free"
        /\ \A b \in Blocks :
             /\ nvm'[b].data = nvm[b].data /\ nvm'[b].offset = nvm[b].offset
             /\ nvm'[b].status = IF x = <<b, "status", 0>> THEN 0 ELSE nvm[b].status
             /\ b \in dimmed => b \in dimmed'
             /\ lock = "other" /\ x = <<b, "status", 0>> => b \in dimmed'
        /\ lock = "own" =>
             /\ \A k \in Keys : x # <<index[k], "status", 0>>
             /\ \A u \in Threads : Moves(u) => x # <<kv[u].value, "status", 0>>
    BY <1>1, ThreadStores
  <1>3. /\ TypeOK' /\ LockInv' /\ PlacesInv'
        /\ wc'["worker"] = wc["worker"] /\ \A u \in Threads : wc'[u] \subseteq wc[u]
        /\ UNCHANGED <<ssd, ipc, index, task, lock, mpc, kv, migrate_buf, expect, wpc>>
    BY <1>0, <1>2, Evicted
  <1>4. lock \in {"own", "other"}
    BY <1>2 DEF AllInv, TypeOK
  <1>5. ASSUME NEW b \in Blocks, NEW k \in Keys, Holds(b, k),
               lock = "own" => index[k] = b \/ \E u \in Threads : Moves(u) /\ kv[u].value = b
        PROVE  Holds(b, k)'
    <2>1. nvm'[b].status = nvm[b].status \/ b \in dimmed'
      BY <1>2, <1>4, <1>5
    <2>2. QED
      BY <1>2, <1>3, <1>5, <2>1 DEF Holds
  <1>6. StoresInv'
    <2>1. wpc[0] = "count" => index[task.key] \in Blocks /\ lock = "other"
      <3>1. wpc[0] = "count" => task \in Requests /\ index[task.key] # NoBlock
        BY DEF AllInv, DurInv, PlacesInv, Serving
      <3>2. wpc[0] = "count" => task.key \in Keys
        BY <3>1, RecoveryConstants DEF Task
      <3>3. QED
        BY <1>4, <3>1, <3>2, NobodyMoves DEF AllInv, TypeOK
    <2>2. wpc[0] = "count" =>
            LET b == index[task.key]
            IN  /\ nvm'[b].data = nvm[b].data /\ nvm'[b].offset = nvm[b].offset
                /\ nvm'[b].status = nvm[b].status \/ b \in dimmed'
                /\ b \in dimmed => b \in dimmed'
      BY <1>2, <2>1
    <2>3. QED
      BY <1>3, <2>2 DEF AllInv, DurInv, StoresInv, Moves
  <1>7. KeptInv'
    <2>1. ASSUME NEW k \in Keys, expect[k] \in Values, ~InFlight(k)
          PROVE  Placed(k)'
      <3>1. Placed(k)
        BY <1>2, <2>1 DEF AllInv, DurInv, KeptInv
      <3>2. index[k] # NoBlock => index[k] \in Blocks
        BY DEF AllInv, TypeOK
      <3>3. \A u \in Threads : Carries(u, k) => kv[u].value \in Blocks /\ Moves(u)
        BY DEF AllInv, DurInv, PlacesInv, Carries, Moves
      <3>4. index[k] # NoBlock /\ Holds(index[k], k) => Holds(index[k], k)'
        BY <1>3, <1>5, <3>2 DEF Holds
      <3>5. \A u \in Threads : Carries(u, k) => Holds(kv[u].value, k)'
        BY <1>3, <1>5, <3>1, <3>3 DEF Placed, Holds
      <3>6. \A u \in Threads : Carries(u, k)' <=> Carries(u, k)
        BY <1>3 DEF Carries
      <3>7. index[k] # NoBlock =>
              Holds(index[k], k)' \/ (wpc[0] = "store" /\ task.key = k /\ ssd[k] = expect[k])
        BY <3>1, <3>4 DEF Placed
      <3>8. \A u \in Threads : Carries(u, k) => migrate_buf[u] = expect[k]
        BY <3>1 DEF Placed
      <3>9. (index[k] = NoBlock /\ \A u \in Threads : ~Carries(u, k)) => ssd[k] = expect[k]
        BY <3>1 DEF Placed
      <3>10. UNCHANGED <<index, ssd, expect, task, wpc, kv, migrate_buf>>
        BY <1>3
      <3>11. QED
        BY <3>5, <3>6, <3>7, <3>8, <3>9, <3>10 DEF Placed, Holds
    <2>2. \A k \in Keys : InFlight(k)' <=> InFlight(k)
      BY <1>3 DEF InFlight
    <2>3. QED
      BY <1>2, <1>3, <2>1, <2>2 DEF KeptInv
  <1>8. QED
    BY <1>3, <1>6, <1>7 DEF DurInv

(* Only the block that is being written can be torn.                       *)
LEMMA Torn ==
    ASSUME AllInv, NEW t \in Writers, Tear(t)
    PROVE  /\ t = "worker" /\ wpc[0] = "count" /\ task.key \in Keys /\ task.buf \in Values
           /\ index[task.key] \in Blocks /\ ipc = "serve" /\ lock # "own"
           /\ <<index[task.key], "data", task.buf>> \in wc["worker"]
           /\ nvm' = [nvm EXCEPT ![index[task.key]].data = Junk]
           /\ \A u \in Threads : ~Moves(u) /\ \A k \in Keys : ~Carries(u, k)
  <1>1. PICK x \in wc[t] : x[2] = "data" /\ nvm' = [nvm EXCEPT ![x[1]].data = Junk]
    BY DEF Tear
  <1>2. x \notin ClearedMeta
    BY <1>1 DEF ClearedMeta
  <1>3. t = "worker"
    BY <1>1, <1>2 DEF AllInv, ClearInv, DurInv, StoresInv, Writers
  <1>4. wpc[0] = "count" /\ x \in StoresOf(index[task.key], task)
    BY <1>1, <1>3 DEF AllInv, DurInv, StoresInv
  <1>5. x = <<index[task.key], "data", task.buf>>
    BY <1>1, <1>4 DEF StoresOf
  <1>6. task \in Requests /\ index[task.key] # NoBlock
    BY <1>4 DEF AllInv, DurInv, PlacesInv, Serving
  <1>7. task.key \in Keys /\ task.buf \in Values
    BY <1>6, RecoveryConstants DEF Task
  <1>8. index[task.key] \in Blocks /\ ipc = "serve"
    BY <1>4, <1>6, <1>7, RecoveryConstants DEF AllInv, TypeOK, GateInv, Serving
  <1>9. QED
    BY <1>1, <1>3, <1>4, <1>5, <1>7, <1>8, NobodyMoves

LEMMA TearDurable ==
    ASSUME AllInv, NEW t \in Writers, Tear(t)
    PROVE  TypeOK' /\ DurInv'
  <1> USE DEF boot, tables, mutex, movers, history, disk
  <1>1. /\ wpc[0] = "count" /\ task.key \in Keys /\ index[task.key] \in Blocks
        /\ ipc = "serve" /\ lock # "own" /\ <<index[task.key], "data", task.buf>> \in wc["worker"]
        /\ nvm' = [nvm EXCEPT ![index[task.key]].data = Junk]
        /\ \A u \in Threads : ~Moves(u) /\ \A k \in Keys : ~Carries(u, k)
    BY Torn
  <1>2. UNCHANGED <<wc, dimmed, ssd, ipc, index, bitmap, task, lock, mpc, kv, migrate_buf, expect,
                    wpc>>
    BY DEF Tear
  <1>3. nvm \in [Blocks -> Meta]
    BY DEF AllInv, TypeOK, Meta
  <1>4. /\ nvm' \in [Blocks -> Meta]
        /\ \A b \in Blocks : nvm'[b].status = nvm[b].status /\ nvm'[b].offset = nvm[b].offset
        /\ \A b \in Blocks \ {index[task.key]} : nvm'[b] = nvm[b]
    BY <1>1, <1>3 DEF Meta, Content
  <1>5. TypeOK'
    BY <1>2, <1>4 DEF AllInv, TypeOK, Meta, Tear
  <1>6. LockInv' /\ PlacesInv' /\ StoresInv'
    BY <1>1, <1>2, <1>4 DEF AllInv, DurInv, LockInv, PlacesInv, StoresInv, Moves
  <1>7. KeptInv'
    <2>1. ASSUME NEW k \in Keys, expect[k] \in Values, k # task.key
          PROVE  Placed(k)'
      <3>1. Placed(k)
        BY <1>1, <2>1 DEF AllInv, DurInv, KeptInv, InFlight
      <3>2. index[k] # NoBlock => index[k] \in Blocks \ {index[task.key]}
        BY <1>1, <2>1 DEF AllInv, TypeOK, DurInv, PlacesInv
      <3>3. \A u \in Threads : ~Carries(u, k)'
        BY <1>1, <1>2 DEF Carries
      <3>4. QED
        BY <1>1, <1>2, <1>4, <3>1, <3>2, <3>3 DEF Placed, Holds
    <2>2. QED
      BY <1>1, <1>2, <2>1 DEF KeptInv, InFlight
  <1>8. QED
    BY <1>5, <1>6, <1>7 DEF DurInv

LEMMA AllNext ==
    ASSUME AllInv, [Next]_vars
    PROVE  AllInv'
  <1>1. GateInv' /\ ClearInv'
    BY GateNext, ClearNext DEF AllInv
  <1>2. CASE UNCHANGED vars
    <2>1. UNCHANGED <<nvm, wc, dimmed, ssd, ipc, wpc, index, bitmap, task, lock, mpc, kv,
                      migrate_buf, expect>>
      BY <1>2 DEF vars, device, disk, boot, tables, mutex, movers, history
    <2>2. TypeOK'
      BY <1>2 DEF AllInv, TypeOK, vars, device, disk, boot, tables, mutex, movers, history
    <2>3. LockInv' /\ StoresInv'
      BY <2>1 DEF AllInv, DurInv, LockInv, StoresInv, Moves
    <2>4. QED
      BY <1>1, <2>1, <2>2, <2>3, BlocksStay DEF AllInv, DurInv
  <1>3. CASE Serve
    <2>1. CASE \E r \in Requests : Receive(r)
      BY <1>1, <2>1, ReceiveDurable DEF AllInv
    <2>2. QED
      BY <1>1, <1>3, <2>1, AllocateDurable, StoreDurable, CountWriteDurable,
         MutexDurable, MigrationEndDurable DEF AllInv, Serve
  <1>4. ASSUME NEW t \in Threads, Migrate(t)
        PROVE  AllInv'
    <2>1. CASE \E k \in Keys : TakeEntry(t, k)
      BY <1>1, <2>1, TakeEntryDurable DEF AllInv
    <2>2. CASE \E b \in Blocks : OtherClear(t, b)
      BY <1>1, <2>2, OtherClearDurable DEF AllInv
    <2>3. QED
      BY <1>1, <1>4, <2>1, <2>2, StageSsdDurable, WriteSsdDurable, ClearBlockDurable
         DEF AllInv, Migrate
  <1>5. CASE \E w \in Workers : PassGate(w) \/ WakeUp(w)
    BY <1>1, <1>5, GateDurable DEF AllInv
  <1>6. ASSUME NEW t \in Writers, Evict(t) \/ Tear(t)
        PROVE  AllInv'
    <2>1. t = "init" \/ t = "worker" \/ t \in Threads
      BY DEF Writers
    <2>2. QED
      BY <1>1, <1>6, <2>1, EvictInitDurable, EvictWorkerDurable, EvictThreadDurable, TearDurable
         DEF AllInv
  <1>7. CASE StartUp \/ mix_segments_clear \/ PowerFails
    BY <1>1, <1>7, StartUpDurable, SegmentsClearDurable, PowerFailsDurable DEF AllInv
  <1>8. CASE OtherBegin \/ OtherEnd \/ StageLarge
    BY <1>1, <1>8, MutexDurable DEF AllInv
  <1>9. QED
    BY <1>2, <1>3, <1>4, <1>5, <1>6, <1>7, <1>8 DEF Next

LEMMA AllInvariant == Spec => []AllInv
  <1>1. Init => AllInv
    BY GateInit, ClearInit, DurInit DEF AllInv
  <1>2. QED
    BY <1>1, AllNext, PTL DEF Spec

(* Every variable of Recovery keeps its type.                              *)
THEOREM RecoveryTypes == Spec => []TypeOK
  <1>1. AllInv => TypeOK
    BY DEF AllInv
  <1>2. QED
    BY <1>1, AllInvariant, PTL

(* "The data are migrated first, then the self-description is cleared":    *)
(* with any number of migrate threads on the one staging region, and with  *)
(* the clears of the other segments' migrations, what was counted of a key *)
(* of segment 0 is in a block that describes itself or on the ssd, but for *)
(* the exceptions CountedIsDurable names: a key being overwritten in place,*)
(* one whose block was dimmed, and one whose write was given up.           *)
THEOREM CountedWritesAreDurable == Spec => []CountedIsDurable
  <1>1. AllInv => CountedIsDurable
    BY CountedAtRest DEF CountedIsDurable
  <1>2. QED
    BY <1>1, AllInvariant, PTL

(* The index leads to what was counted, never to a torn or a foreign block *)
(* (mix_buffer_rebuild, mix_write_redirect_blockmeta).                     *)
THEOREM IndexedWritesAreCounted == Spec => []IndexedIsCounted
  <1>1. ASSUME AllInv PROVE IndexedIsCounted
    <2>1. ASSUME NEW k \in Keys, index[k] # NoBlock, expect[k] \in Values,
                 ~(wpc[0] \in {"store", "count"} /\ task.key = k)
          PROVE  nvm[index[k]].data = expect[k]
      <3>1. ipc = "serve"
        BY <1>1, <2>1, Quiet
      <3>2. Placed(k)
        BY <1>1, <2>1, <3>1 DEF AllInv, DurInv, KeptInv, InFlight
      <3>3. QED
        BY <2>1, <3>2 DEF Placed, Holds
    <2>2. QED
      BY <2>1 DEF IndexedIsCounted
  <1>2. QED
    BY <1>1, AllInvariant, PTL
-----------------------------------------------------------------------------
(* The blocks describe the index.                                          *)

Writing(k) == wpc[0] \in {"store", "count"} /\ task.key = k

(* Block b is on its way out of the own segment.                           *)
Leaves(b) ==
    /\ lock = "own"
    /\ \E t \in Threads : (Moves(t) /\ kv[t].value = b) \/ <<b, "status", 0>> \in wc[t]

(* While the scheduler runs an indexed block describes itself, but for     *)
(* dimmed ones and the one being written; a valid block is indexed or on   *)
(* its way out; and no bit is set for nothing until a migration takes the  *)
(* entries.                                                                *)
DescribedInv ==
    /\ \A b \in dimmed : nvm[b].status = 0
    /\ ipc # "serve" => bitmap = {} /\ dimmed = {}
    /\ ipc = "serve" =>
         /\ \A k \in Keys : index[k] # NoBlock /\ ~Writing(k) =>
              /\ nvm[index[k]].offset = k
              /\ nvm[index[k]].status = 1 \/ index[k] \in dimmed
         /\ \A b \in Blocks : nvm[b].status = 1 => (\E k \in Keys : index[k] = b) \/ Leaves(b)
         /\ wpc[0] # "migrate" => \A b \in bitmap : \E k \in Keys : index[k] = b

(* With the worker at rest that is what a rebuild would find.              *)
LEMMA DescribedAtRest ==
    ASSUME AllInv, DescribedInv
    PROVE  BlocksDescribeIndex
  <1> SUFFICES ASSUME ipc = "serve", wpc[0] = "idle"
               PROVE  /\ bitmap = {index[k] : k \in Keys} \ {NoBlock}
                      /\ Valid = bitmap \ dimmed
                      /\ \A k \in Keys :
                           Rebuilt[k] = IF index[k] \in dimmed THEN NoBlock ELSE index[k]
    BY DEF BlocksDescribeIndex
  <1>1. /\ index \in [Keys -> Blocks \cup {NoBlock}] /\ bitmap \subseteq Blocks
        /\ dimmed \subseteq Blocks
        /\ \A k \in Keys : index[k] # NoBlock => index[k] \in bitmap
        /\ \A k, m \in Keys : index[k] # NoBlock /\ index[k] = index[m] => k = m
    BY DEF AllInv, TypeOK, DurInv, PlacesInv
  <1>2. \A k \in Keys : index[k] # NoBlock =>
           nvm[index[k]].offset = k /\ (nvm[index[k]].status = 1 \/ index[k] \in dimmed)
    BY DEF DescribedInv, Writing
  <1>3. \A b \in Blocks : nvm[b].status = 1 => \E k \in Keys : index[k] = b
    BY NobodyMoves DEF DescribedInv, Leaves
  <1>4. \A b \in bitmap : \E k \in Keys : index[k] = b
    BY DEF DescribedInv
  <1>5. \A b \in Blocks : b \in Nat /\ b # NoBlock
    BY DEF Blocks, NoBlock
  <1>6. \A b \in dimmed : nvm[b].status = 0
    BY DEF DescribedInv
  <1>7. bitmap = {index[k] : k \in Keys} \ {NoBlock}
    BY <1>1, <1>4, <1>5
  <1>8. \A b \in Blocks : b \in Valid <=> b \in bitmap /\ b \notin dimmed
    BY <1>1, <1>2, <1>3, <1>4, <1>5, <1>6 DEF Valid
  <1>9. Valid = bitmap \ dimmed
    BY <1>1, <1>8 DEF Valid
  <1>10. ASSUME NEW k \in Keys
         PROVE  Rebuilt[k] = IF index[k] \in dimmed THEN NoBlock ELSE index[k]
    <2>1. \A b \in Holding(k) : b \in Blocks /\ index[k] = b /\ b \notin dimmed
      BY <1>2, <1>3, <1>5, <1>6 DEF Holding, Valid
    <2>2. CASE index[k] = NoBlock \/ index[k] \in dimmed
      <3>1. Holding(k) = {}
        BY <1>5, <2>1, <2>2
      <3>2. Rebuilt[k] = NoBlock
        BY <3>1 DEF Rebuilt
      <3>3. QED
        BY <2>2, <3>2
    <2>3. CASE index[k] # NoBlock /\ index[k] \notin dimmed
      <3>1. index[k] \in Blocks /\ index[k] \in Holding(k)
        BY <1>1, <1>2, <2>3 DEF Holding, Valid
      <3>2. Holding(k) = {index[k]} /\ index[k] \in Nat
        BY <1>5, <2>1, <3>1
      <3>3. (CHOOSE b \in Holding(k) : \A c \in Holding(k) : c <= b) = index[k]
        BY <3>2
      <3>4. Rebuilt[k] = index[k]
        BY <3>1, <3>3 DEF Rebuilt
      <3>5. QED
        BY <2>3, <3>4
    <2>4. QED
      BY <2>2, <2>3
  <1>11. QED
    BY <1>7, <1>9, <1>10

LEMMA StartUpDescribed ==
    ASSUME AllInv, DescribedInv, StartUp \/ PowerFails
    PROVE  DescribedInv'
  <1> USE DEF boot, tables, mutex, movers, history, disk, Advance
  <1>1. CASE CreateWorkers \/ mix_mmap \/ ClearMetas \/ OpenGate
    <2>1. ipc # "serve" /\ ipc' # "serve" /\ bitmap' = bitmap
      BY <1>1 DEF CreateWorkers, mix_mmap, ClearMetas, OpenGate
    <2>2. dimmed' = {}
      BY <1>1, <2>1, RecoveryConstants
         DEF CreateWorkers, mix_mmap, ClearMetas, OpenGate, Issue, Drain, Land, Foreign, device,
             DescribedInv
    <2>3. QED
      BY <2>1, <2>2 DEF DescribedInv
  <1>2. CASE StartScheduler
    <2>1. /\ ipc = "spin" /\ Valid = {} /\ bitmap = {} /\ dimmed = {}
          /\ \A k \in Keys : index[k] = NoBlock
      BY <1>2, Quiet DEF StartScheduler, AllInv, ClearInv, DescribedInv
    <2>2. \A b \in Blocks : nvm[b].status # 1
      BY <2>1 DEF Valid
    <2>3. UNCHANGED <<nvm, dimmed, index, bitmap>>
      BY <1>2 DEF StartScheduler, device
    <2>4. QED
      BY <2>1, <2>2, <2>3 DEF DescribedInv
  <1>3. CASE PowerFails
    BY <1>3 DEF PowerFails, DescribedInv
  <1>4. QED
    BY <1>1, <1>2, <1>3 DEF StartUp

LEMMA SegmentsClearDescribed ==
    ASSUME AllInv, DescribedInv, mix_segments_clear
    PROVE  DescribedInv'
  <1> USE DEF boot, tables, mutex, movers, history, disk
  <1>1. nvm' = Written(ClearedMeta) /\ nvm \in [Blocks -> Meta] /\ dimmed' = Blocks
        /\ ipc = "serve" /\ wpc[0] = "idle"
    BY DEF AllInv, TypeOK, Meta, mix_segments_clear
  <1>2. \A b \in Blocks : nvm'[b].status = 0 /\ nvm'[b].offset = nvm[b].offset
    <2>1. \A b \in Blocks : nvm'[b].offset = nvm[b].offset
      BY <1>1, WrittenClears
    <2>2. \A b \in Blocks : "status" \in DOMAIN nvm[b] /\ <<b, "status", 0>> \in ClearedMeta
      BY <1>1 DEF Meta, ClearedMeta
    <2>3. \A b \in Blocks : nvm'[b].status = 0
      BY <1>1, <2>2, WrittenClear
    <2>4. QED
      BY <2>1, <2>3
  <1>3. UNCHANGED <<ipc, wpc, index, bitmap, task>>
    BY DEF mix_segments_clear
  <1>4. \A k \in Keys : ~Writing(k) /\ (index[k] # NoBlock => index[k] \in Blocks)
    BY <1>1 DEF Writing, AllInv, TypeOK
  <1>5. QED
    BY <1>1, <1>2, <1>3, <1>4 DEF DescribedInv

(* A step in which the blocks, the index and who clears what stay.         *)
LEMMA DescriptionStays ==
    ASSUME DescribedInv, UNCHANGED <<nvm, dimmed, ipc, index, bitmap>>,
           wpc'[0] # "migrate" => wpc[0] # "migrate",
           \A k \in Keys : Writing(k) => Writing(k)',
           \A b \in Blocks : Leaves(b) => Leaves(b)'
    PROVE  DescribedInv'
  BY DEF DescribedInv

LEMMA GateDescribed ==
    ASSUME AllInv, DescribedInv, NEW w \in Workers, PassGate(w) \/ WakeUp(w)
    PROVE  DescribedInv'
  <1> USE DEF boot, tables, mutex, movers, history, disk, device
  <1>0. 0 \in Workers
    BY RecoveryConstants
  <1>1. CASE Test(w) \/ Sleep(w) \/ WakeUp(w)
    <2>1. wpc[0] \in Serving => wpc'[0] = wpc[0]
      BY <1>0, <1>1 DEF AllInv, GateInv, Test, Sleep, WakeUp, Goto, Serving
    <2>2. UNCHANGED <<nvm, wc, dimmed, ipc, index, bitmap, task, lock, mpc, kv>>
      BY <1>1 DEF Test, Sleep, WakeUp, GateOnly
    <2>3. \A k \in Keys : Writing(k) => Writing(k)'
      BY <2>1, <2>2 DEF Writing, Serving
    <2>4. \A b \in Blocks : Leaves(b) => Leaves(b)'
      BY <2>2 DEF Leaves, Moves
    <2>5. QED
      BY <2>1, <2>2, <2>3, <2>4, DescriptionStays DEF Serving
  <1>2. CASE Rebuild(w)
    <2>1. ipc = "spin" /\ Valid = {}
      BY <1>2 DEF AllInv, GateInv, ClearInv, Rebuild, Goto, Done, AtGate
    <2>2. ipc' # "serve" /\ bitmap' = {} /\ dimmed' = {}
      BY <1>2, <2>1 DEF Rebuild, DescribedInv
    <2>3. QED
      BY <2>2 DEF DescribedInv
  <1>3. QED
    BY <1>1, <1>2 DEF PassGate

-----------------------------------------------------------------------------
LEMMA WorkerDescribed ==
    ASSUME AllInv, DescribedInv,
           (\E r \in Requests : Receive(r)) \/ Allocate \/ Store \/ MigrationEnd
    PROVE  DescribedInv'
  <1> USE DEF boot, movers, history, disk, device
  <1>0. 0 \in Workers
    BY RecoveryConstants
  <1>1. ASSUME NEW r \in Requests, Receive(r)
        PROVE  DescribedInv'
    <2>1. wpc[0] = "idle" /\ \A k \in Keys : ~Writing(k)
      BY <1>1 DEF Receive, Goto, Writing
    <2>2. UNCHANGED <<nvm, wc, dimmed, ipc, index, bitmap, lock, mpc, kv>>
      BY <1>1 DEF Receive, mutex
    <2>3. \A b \in Blocks : Leaves(b) => Leaves(b)'
      BY <2>2 DEF Leaves, Moves
    <2>4. QED
      BY <2>1, <2>2, <2>3, DescriptionStays
  <1>2. CASE Allocate
    <2>1. wpc[0] = "alloc" /\ task \in Requests /\ index[task.key] = NoBlock /\ wpc'[0] = "store"
      BY <1>0, <1>2 DEF AllInv, TypeOK, DurInv, PlacesInv, Allocate, Goto, Serving
    <2>2. task.key \in Keys
      BY <2>1, RecoveryConstants DEF Task
    <2>3. PICK b \in FirstFree : bitmap' = bitmap \cup {b}
                                 /\ index' = [index EXCEPT ![task.key] = b]
      BY <1>2 DEF Allocate
    <2>4. index'[task.key] = b /\ \A k \in Keys \ {task.key} : index'[k] = index[k]
      BY <2>2, <2>3 DEF AllInv, TypeOK
    <2>5. \A k \in Keys : ~Writing(k) /\ (Writing(k)' <=> k = task.key)
      BY <1>2, <2>1 DEF Writing, Allocate
    <2>6. \A c : c # NoBlock /\ (\E k \in Keys : index[k] = c) => \E k \in Keys : index'[k] = c
      BY <2>1, <2>4
    <2>7. \A c \in Blocks : c # NoBlock
      BY DEF Blocks, NoBlock
    <2>8. bitmap \subseteq Blocks /\ UNCHANGED <<nvm, dimmed, ipc>>
      BY <1>2 DEF Allocate, AllInv, TypeOK
    <2>9. ipc = "serve"
      BY <1>0, <2>1 DEF AllInv, GateInv, Serving
    <2>10. /\ \A k \in Keys : index'[k] # NoBlock /\ ~Writing(k)' =>
                nvm[index'[k]].offset = k /\ (nvm[index'[k]].status = 1 \/ index'[k] \in dimmed)
           /\ \A c \in Blocks : nvm[c].status = 1 => \E k \in Keys : index'[k] = c
           /\ \A c \in bitmap' : \E k \in Keys : index'[k] = c
      <3>1. \A k \in Keys : index'[k] # NoBlock /\ ~Writing(k)' =>
                nvm[index'[k]].offset = k /\ (nvm[index'[k]].status = 1 \/ index'[k] \in dimmed)
        BY <2>4, <2>5, <2>9 DEF DescribedInv
      <3>2. \A c \in Blocks : nvm[c].status = 1 => \E k \in Keys : index[k] = c
        BY <2>1, <2>9, NobodyMoves DEF DescribedInv, Leaves
      <3>3. \A c \in bitmap : \E k \in Keys : index[k] = c
        BY <2>1, <2>9 DEF DescribedInv
      <3>4. \A c \in bitmap' : \E k \in Keys : index'[k] = c
        BY <2>2, <2>3, <2>4, <2>6, <2>7, <2>8, <3>3
      <3>5. QED
        BY <2>6, <2>7, <3>1, <3>2, <3>4
    <2>11. QED
      BY <2>8, <2>9, <2>10 DEF DescribedInv
  <1>3. CASE Store
    <2>1. wpc[0] = "store" /\ wpc'[0] = "count"
      BY <1>0, <1>3 DEF AllInv, TypeOK, Store, Goto
    <2>2. UNCHANGED <<nvm, dimmed, ipc, index, bitmap, task>>
      BY <1>3 DEF Store, Issue, tables
    <2>3. \A k \in Keys : Writing(k) => Writing(k)'
      BY <2>1, <2>2 DEF Writing
    <2>4. \A b \in Blocks : ~Leaves(b)
      BY <2>1, NobodyMoves DEF Leaves
    <2>5. QED
      BY <2>1, <2>2, <2>3, <2>4, DescriptionStays
  <1>4. CASE MigrationEnd
    <2>1. /\ wpc[0] = "migrate" /\ bitmap' = {} /\ ipc = "serve"
          /\ \A k \in Keys : index[k] = NoBlock
          /\ \A t \in Threads : ~Moves(t) /\ wc[t] = {}
      BY <1>0, <1>4 DEF AllInv, GateInv, MigrationEnd, Goto, Moves, Serving
    <2>2. \A b \in Blocks : ~Leaves(b) /\ b # NoBlock
      BY <2>1 DEF Leaves, Blocks, NoBlock
    <2>3. \A b \in Blocks : nvm[b].status # 1
      BY <2>1, <2>2 DEF DescribedInv
    <2>4. UNCHANGED <<nvm, dimmed, ipc, index>>
      BY <1>4 DEF MigrationEnd
    <2>5. QED
      BY <2>1, <2>3, <2>4 DEF DescribedInv
  <1>5. QED
    BY <1>1, <1>2, <1>3, <1>4

LEMMA MutexDescribed ==
    ASSUME AllInv, DescribedInv, Lock \/ OtherBegin \/ OtherEnd \/ StageLarge
    PROVE  DescribedInv'
  <1> USE DEF boot, tables, mutex, movers, history, disk, device
  <1>1. UNCHANGED <<nvm, wc, dimmed, ipc, wpc, index, bitmap, task, mpc, kv>>
        /\ (lock = "own" => lock' = "own")
    BY DEF Lock, OtherBegin, OtherEnd, StageLarge
  <1>2. \A k \in Keys : Writing(k) => Writing(k)'
    BY <1>1 DEF Writing
  <1>3. \A b \in Blocks : Leaves(b) => Leaves(b)'
    BY <1>1 DEF Leaves, Moves
  <1>4. QED
    BY <1>1, <1>2, <1>3, DescriptionStays

(* The stores of the worker reach only the block of its key.               *)
LEMMA WorkerStoresDescribed ==
    ASSUME AllInv, DescribedInv, wpc[0] = "count",
           NEW S \in SUBSET wc["worker"], Land("worker", S),
           UNCHANGED <<ipc, index, bitmap>>, wpc'[0] # "migrate",
           \A k \in Keys : Writing(k) /\ ~Writing(k)' =>
               /\ nvm'[index[k]].offset = k
               /\ nvm'[index[k]].status = 1 \/ index[k] \in dimmed'
    PROVE  DescribedInv'
  <1>1. /\ task.key \in Keys /\ index[task.key] \in Blocks /\ ipc = "serve"
        /\ lock # "own" /\ dimmed' \subseteq dimmed /\ dimmed \subseteq Blocks
        /\ LET b == index[task.key]
           IN /\ nvm'[b].status = IF <<b, "status", 1>> \in S THEN 1 ELSE nvm[b].status
              /\ <<b, "status", 1>> \in S => b \notin dimmed'
              /\ \A c \in Blocks \ {b} : nvm'[c] = nvm[c] /\ (c \in dimmed => c \in dimmed')
        /\ \A k \in Keys \ {task.key} : index[k] # NoBlock =>
                index[k] \in Blocks \ {index[task.key]}
    BY WorkerStores DEF AllInv, TypeOK
  <1>2. \A k \in Keys : Writing(k) <=> k = task.key
    BY DEF Writing
  <1>3. \A b \in dimmed' : nvm'[b].status = 0
    BY <1>1 DEF DescribedInv
  <1>4. \A k \in Keys : index[k] # NoBlock /\ ~Writing(k)' =>
           nvm'[index[k]].offset = k /\ (nvm'[index[k]].status = 1 \/ index[k] \in dimmed')
    BY <1>1, <1>2 DEF DescribedInv
  <1>5. \A c \in Blocks : nvm'[c].status = 1 => \E k \in Keys : index[k] = c
    BY <1>1 DEF DescribedInv, Leaves
  <1>6. \A c \in bitmap : \E k \in Keys : index[k] = c
    BY <1>1 DEF DescribedInv
  <1>7. QED
    BY <1>1, <1>3, <1>4, <1>5, <1>6 DEF DescribedInv

LEMMA CountWriteDescribed ==
    ASSUME AllInv, DescribedInv, CountWrite
    PROVE  DescribedInv'
  <1> USE DEF boot
  <1>1. wpc[0] = "count" /\ Land("worker", wc["worker"]) /\ wc["worker"] \in SUBSET wc["worker"]
    BY DEF CountWrite, Goto, Drain
  <1>2. wpc'[0] = "idle" /\ UNCHANGED <<ipc, index, bitmap>>
    BY RecoveryConstants DEF AllInv, TypeOK, CountWrite, Goto
  <1>3. nvm'[index[task.key]].offset = task.key
        /\ (nvm'[index[task.key]].status = 1 \/ index[task.key] \in dimmed')
    BY <1>1, WorkerStores DEF AllInv, DurInv, StoresInv
  <1>4. \A k \in Keys : Writing(k) =>
           nvm'[index[k]].offset = k /\ (nvm'[index[k]].status = 1 \/ index[k] \in dimmed')
    BY <1>3 DEF Writing
  <1>5. QED
    BY <1>1, <1>2, <1>4, WorkerStoresDescribed

-----------------------------------------------------------------------------
LEMMA MoveDescribed ==
    ASSUME AllInv, DescribedInv, NEW t \in Threads, Migrate(t)
    PROVE  DescribedInv'
  <1> USE DEF boot, mutex
  <1>1. ASSUME NEW m \in Keys, TakeEntry(t, m)
        PROVE  DescribedInv'
    <2>1. /\ lock = "own" /\ wpc[0] = "migrate" /\ ~Moves(t) /\ wc[t] = {}
          /\ ipc = "serve" /\ index[m] # NoBlock
      BY <1>1, RecoveryConstants
         DEF TakeEntry, AllInv, GateInv, DurInv, LockInv, Moves, Serving
    <2>2. index'[m] = NoBlock /\ \A k \in Keys \ {m} : index'[k] = index[k]
      BY <1>1 DEF AllInv, TypeOK, TakeEntry
    <2>3. /\ kv'[t] = [key |-> m, value |-> index[m]] /\ mpc'[t] = "stage"
          /\ \A u \in Threads \ {t} : kv'[u] = kv[u] /\ mpc'[u] = mpc[u]
      BY <1>1 DEF AllInv, TypeOK, TakeEntry
    <2>4. UNCHANGED <<nvm, wc, dimmed, ipc, wpc, task, bitmap, lock>>
      BY <1>1 DEF TakeEntry, device, history
    <2>5. \A k \in Keys : ~Writing(k) /\ ~Writing(k)'
      BY <2>1, <2>4 DEF Writing
    <2>6. \A b \in Blocks : (b = index[m] \/ Leaves(b)) => Leaves(b)'
      <3>1. kv'[t].value = index[m] /\ Moves(t)'
        BY <2>3 DEF Moves
      <3>2. \E u \in Threads : Moves(u)' /\ kv'[u].value = index[m]
        BY <3>1
      <3>3. ASSUME NEW b \in Blocks, Leaves(b)
            PROVE  Leaves(b)'
        BY <2>1, <2>3, <2>4, <3>3 DEF Leaves, Moves
      <3>4. ASSUME NEW b \in Blocks, b = index[m]
            PROVE  Leaves(b)'
        BY <2>1, <2>4, <3>2, <3>4 DEF Leaves
      <3>5. QED
        BY <3>3, <3>4
    <2>7. \A b \in Blocks : nvm[b].status = 1 => (\E k \in Keys : index'[k] = b) \/ Leaves(b)'
      <3>1. \A b \in Blocks : nvm[b].status = 1 => (\E k \in Keys : index[k] = b) \/ Leaves(b)
        BY <2>1 DEF DescribedInv
      <3>2. QED
        BY <2>2, <2>6, <3>1
    <2>8. \A k \in Keys : index'[k] # NoBlock =>
             nvm[index'[k]].offset = k /\ (nvm[index'[k]].status = 1 \/ index'[k] \in dimmed)
      BY <2>1, <2>2, <2>5 DEF DescribedInv
    <2>9. QED
      BY <2>1, <2>4, <2>7, <2>8 DEF DescribedInv
  <1>2. CASE StageSsd(t) \/ WriteSsd(t) \/ ClearBlock(t)
    <2>1. wpc[0] = "migrate" /\ ipc = "serve" /\ lock = "own" /\ wc[t] = {}
      BY <1>2, Moving DEF StageSsd, WriteSsd, ClearBlock
    <2>2. UNCHANGED <<nvm, dimmed, ipc, wpc, task, index, bitmap, lock>>
      BY <1>2 DEF StageSsd, WriteSsd, ClearBlock, mix_buffer_clear, Issue, tables, device, history
    <2>3. \A k \in Keys : ~Writing(k)
      BY <2>1 DEF Writing
    <2>4. \A u \in Threads \ {t} : mpc'[u] = mpc[u] /\ kv'[u] = kv[u] /\ wc'[u] = wc[u]
      BY <1>2, ThreadWriter
         DEF AllInv, TypeOK, StageSsd, WriteSsd, ClearBlock, mix_buffer_clear, Issue, device
    <2>5. \/ mpc'[t] # "none" /\ kv'[t] = kv[t]
          \/ <<kv[t].value, "status", 0>> \in wc'[t]
      BY <1>2, ThreadWriter
         DEF AllInv, TypeOK, StageSsd, WriteSsd, ClearBlock, mix_buffer_clear, Issue
    <2>6. \A b \in Blocks : Leaves(b) => Leaves(b)'
      BY <2>1, <2>2, <2>4, <2>5 DEF Leaves, Moves
    <2>7. QED
      BY <2>1, <2>2, <2>3, <2>6, DescriptionStays
  <1>3. ASSUME NEW b \in Blocks, OtherClear(t, b)
        PROVE  DescribedInv'
    <2>1. lock = "other" /\ UNCHANGED <<nvm, dimmed, ipc, wpc, task, index, bitmap>>
      BY <1>3 DEF OtherClear, mix_buffer_clear, Issue, tables
    <2>2. \A c \in Blocks : ~Leaves(c)
      BY <2>1 DEF Leaves
    <2>3. \A k \in Keys : Writing(k) => Writing(k)'
      BY <2>1 DEF Writing
    <2>4. QED
      BY <2>1, <2>2, <2>3, DescriptionStays
  <1>4. QED
    BY <1>1, <1>2, <1>3 DEF Migrate

LEMMA EvictDescribed ==
    ASSUME AllInv, DescribedInv, NEW t \in Writers, Evict(t)
    PROVE  DescribedInv'
  <1> USE DEF boot, tables, mutex, movers, history, disk
  <1>1. PICK x \in wc[t] : Land(t, {x}) /\ wc' = [wc EXCEPT ![t] = @ \ {x}]
    BY DEF Evict
  <1>2. UNCHANGED <<ipc, index, bitmap, task, wpc, lock, mpc, kv>>
    BY DEF Evict
  <1>3. \A k \in Keys : Writing(k)' <=> Writing(k)
    BY <1>2 DEF Writing
  <1>4. CASE t = "init"
    <2>1. ipc # "serve"
      BY <1>1, <1>4 DEF AllInv, ClearInv
    <2>2. dimmed' = {}
      BY <1>1, <1>4, <2>1, RecoveryConstants DEF Land, Foreign, DescribedInv
    <2>3. QED
      BY <1>2, <2>1, <2>2 DEF DescribedInv
  <1>5. CASE t = "worker"
    <2>1. wpc[0] = "count" /\ {x} \in SUBSET wc["worker"]
      BY <1>1, <1>5 DEF AllInv, DurInv, StoresInv
    <2>2. QED
      BY <1>1, <1>2, <1>3, <1>5, <2>1, WorkerStoresDescribed
  <1>6. CASE t \in Threads
    <2>1. /\ nvm' \in [Blocks -> Meta] /\ ipc = "serve" /\ lock # "free"
          /\ \A b \in Blocks :
               /\ nvm'[b].offset = nvm[b].offset
               /\ nvm'[b].status = IF x = <<b, "status", 0>> THEN 0 ELSE nvm[b].status
               /\ b \in dimmed => b \in dimmed'
               /\ lock = "other" /\ x = <<b, "status", 0>> => b \in dimmed'
               /\ b \in dimmed' => b \in dimmed \/ x = <<b, "status", 0>>
          /\ lock = "own" => \A k \in Keys : x # <<index[k], "status", 0>>
      BY <1>1, <1>6, ThreadStores
    <2>2. dimmed' \subseteq Blocks /\ lock \in {"own", "other"}
      BY <1>1, <2>1, LandTypes DEF AllInv, TypeOK
    <2>3. \A b \in dimmed' : nvm'[b].status = 0
      BY <2>1, <2>2 DEF DescribedInv
    <2>4. \A k \in Keys : index[k] # NoBlock /\ ~Writing(k) =>
             /\ nvm'[index[k]].offset = k
             /\ nvm'[index[k]].status = 1 \/ index[k] \in dimmed'
      <3>1. \A k \in Keys : index[k] # NoBlock => index[k] \in Blocks
        BY DEF AllInv, TypeOK
      <3>2. QED
        BY <2>1, <2>2, <3>1 DEF DescribedInv
    <2>5. ASSUME NEW b \in Blocks, nvm'[b].status = 1
          PROVE  (\E k \in Keys : index[k] = b) \/ Leaves(b)'
      <3>1. nvm[b].status = 1 /\ x # <<b, "status", 0>>
        BY <2>1, <2>5
      <3>2. Leaves(b) => Leaves(b)'
        <4>1. \A u \in Threads : <<b, "status", 0>> \in wc[u] => <<b, "status", 0>> \in wc'[u]
          BY <1>1, <3>1, ThreadWriter DEF AllInv, TypeOK
        <4>2. QED
          BY <1>2, <4>1 DEF Leaves, Moves
      <3>3. QED
        BY <2>1, <3>1, <3>2 DEF DescribedInv
    <2>6. QED
      BY <1>2, <1>3, <2>1, <2>3, <2>4, <2>5 DEF DescribedInv
  <1>7. QED
    BY <1>4, <1>5, <1>6 DEF Writers

LEMMA TearDescribed ==
    ASSUME AllInv, DescribedInv, NEW t \in Writers, Tear(t)
    PROVE  DescribedInv'
  <1> USE DEF boot, tables, mutex, movers, history, disk
  <1>1. UNCHANGED <<wc, dimmed, ipc, index, bitmap, task, lock, mpc, kv, wpc>>
    BY DEF Tear
  <1>2. index[task.key] \in Blocks /\ nvm' = [nvm EXCEPT ![index[task.key]].data = Junk]
        /\ lock # "own" /\ ipc = "serve"
    BY Torn
  <1>3. nvm \in [Blocks -> Meta] /\ dimmed \subseteq Blocks
        /\ index \in [Keys -> Blocks \cup {NoBlock}]
    BY DEF AllInv, TypeOK, Meta
  <1>4. \A b \in Blocks : nvm'[b].status = nvm[b].status /\ nvm'[b].offset = nvm[b].offset
    BY <1>2, <1>3 DEF Meta
  <1>5. \A k \in Keys : Writing(k)' <=> Writing(k)
    BY <1>1 DEF Writing
  <1>6. \A b \in Blocks : ~Leaves(b)
    BY <1>2 DEF Leaves
  <1>7. QED
    BY <1>1, <1>2, <1>3, <1>4, <1>5, <1>6 DEF DescribedInv

LEMMA DescribedNext ==
    ASSUME AllInv, DescribedInv, [Next]_vars
    PROVE  DescribedInv'
  <1>1. CASE UNCHANGED vars
    <2>1. UNCHANGED <<nvm, wc, dimmed, ipc, index, bitmap, task, wpc, lock, mpc, kv>>
      BY <1>1 DEF vars, device, boot, tables, mutex, movers
    <2>2. \A k \in Keys : Writing(k) => Writing(k)'
      BY <2>1 DEF Writing
    <2>3. \A b \in Blocks : Leaves(b) => Leaves(b)'
      BY <2>1 DEF Leaves, Moves
    <2>4. QED
      BY <2>1, <2>2, <2>3, DescriptionStays
  <1>2. CASE Serve
    BY <1>2, WorkerDescribed, CountWriteDescribed, MutexDescribed DEF Serve
  <1>3. CASE \E t \in Threads : Migrate(t)
    BY <1>3, MoveDescribed
  <1>4. CASE \E w \in Workers : PassGate(w) \/ WakeUp(w)
    BY <1>4, GateDescribed
  <1>5. CASE \E t \in Writers : Evict(t) \/ Tear(t)
    BY <1>5, EvictDescribed, TearDescribed
  <1>6. CASE StartUp \/ mix_segments_clear \/ PowerFails
    BY <1>6, StartUpDescribed, SegmentsClearDescribed
  <1>7. CASE OtherBegin \/ OtherEnd \/ StageLarge
    BY <1>7, MutexDescribed
  <1>8. QED
    BY <1>1, <1>2, <1>3, <1>4, <1>5, <1>6, <1>7 DEF Next

(* Whenever worker 0 rests, the bits are those of the indexed blocks, and  *)
(* mix_buffer_rebuild would find of these the ones that no migration of    *)
(* another segment and no client has cleared, and no others.               *)
THEOREM IndexIsDescribed == Spec => []BlocksDescribeIndex
  <1>1. Init => DescribedInv
    BY DEF Init, DescribedInv
  <1>2. AllInv /\ DescribedInv /\ [Next]_vars => DescribedInv'
    BY DescribedNext
  <1>3. AllInv /\ DescribedInv => BlocksDescribeIndex
    BY DescribedAtRest
  <1>4. QED
    BY <1>1, <1>2, <1>3, AllInvariant, PTL DEF Spec
=============================================================================
