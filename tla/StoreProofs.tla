---------------------------- MODULE StoreProofs ----------------------------
(* The key-value store for any number of instances, keys, values and nodes.  *)
EXTENDS Store, SequenceTheorems, TLAPS

\* Before bpf_init() no node is listed and no tree has one.
Unopened == ~initialised => free = <<>> /\ \A t \in Trees : tree[t] = {}

StoreInv == StoreTypeOK /\ NodesOwned /\ Unopened

(***************************************************************************)
(* The pool.                                                               *)
(***************************************************************************)

\* A new pool lists every node once.
LEMMA FreshPool ==
  /\ Fresh(NumValues) \in Seq(Nodes)
  /\ Len(Fresh(NumValues)) = NumValues
  /\ \A k \in 1..NumValues : Fresh(NumValues)[k] = NumValues + 1 - k
<1> DEFINE all == [k \in 1..NumValues |-> NumValues + 1 - k]
<1>1. NumValues \in Nat
  BY StoreAssumption
<1>2. all \in [1..NumValues -> Nodes]
  BY <1>1 DEF Nodes
<1>3. all \in Seq(Nodes) /\ Len(all) = NumValues
  BY <1>1, <1>2, IsASeq, LenProperties
<1>4. all \o <<>> = all
  BY <1>3, ConcatEmptySeq
<1>5. Fresh(NumValues) = all
  BY <1>4 DEF Fresh, Extended
<1> QED
  BY <1>3, <1>5

\* The list without its head.
LEMMA PoolHead ==
  ASSUME NEW list \in Seq(Nodes), ~Exhausted(list)
  PROVE  /\ Len(list) \in Nat \ {0} /\ DOMAIN list = 1..Len(list)
         /\ Allocated(list) = list[1] /\ list[1] \in Nodes
         /\ Remaining(list) \in Seq(Nodes)
         /\ Len(Remaining(list)) = Len(list) - 1
         /\ DOMAIN Remaining(list) = 1..(Len(list) - 1)
         /\ \A i \in 1..(Len(list) - 1) : Remaining(list)[i] = list[i + 1]
<1>1. list # <<>>
  BY DEF Exhausted
<1>2. /\ Tail(list) \in Seq(Nodes) /\ Len(Tail(list)) = Len(list) - 1
      /\ \A i \in 1..Len(Tail(list)) : Tail(list)[i] = list[i + 1]
  BY <1>1, HeadTailProperties
<1>3. Len(list) \in Nat /\ DOMAIN list = 1..Len(list) /\ Len(list) # 0
  BY <1>1, LenProperties, EmptySeq
<1>4. list[1] \in Nodes
  BY <1>3, ElementOfSeq
<1>5. DOMAIN Tail(list) = 1..Len(Tail(list))
  BY <1>2, LenProperties
<1> QED
  BY <1>2, <1>3, <1>4, <1>5 DEF Allocated, Remaining

(***************************************************************************)
(* The invariant.                                                          *)
(***************************************************************************)

LEMMA InvInit == StoreInit => StoreInv
<1> SUFFICES ASSUME StoreInit PROVE StoreInv
  OBVIOUS
<1>1. free \in Seq(Nodes) /\ DOMAIN free = {}
  BY EmptySeq DEF StoreInit
<1>2. StoreTypeOK
  BY <1>1, StoreAssumption DEF StoreInit, StoreTypeOK
<1>3. NodesOwned
  BY <1>1 DEF StoreInit, NodesOwned, Listed
<1> QED
  BY <1>2, <1>3 DEF StoreInit, StoreInv, Unopened

LEMMA OpenKept == StoreInv /\ Open => StoreInv'
<1> SUFFICES ASSUME StoreInv, Open PROVE StoreInv'
  OBVIOUS
<1>1. /\ free' \in Seq(Nodes) /\ DOMAIN free' = 1..NumValues
      /\ \A k \in 1..NumValues : free'[k] = NumValues + 1 - k
      /\ NumValues \in Nat
  BY FreshPool, LenProperties, StoreAssumption DEF Open
<1>2. StoreTypeOK'
  BY <1>1 DEF StoreInv, StoreTypeOK, Open
<1>3. \A t \in Trees : tree'[t] = {}
  BY DEF StoreInv, Unopened, Open
<1>4. \A j, k \in DOMAIN free' : free'[j] = free'[k] => j = k
  BY <1>1
<1>5. NodesOwned'
  BY <1>3, <1>4 DEF NodesOwned
<1> QED
  BY <1>2, <1>5 DEF StoreInv, Unopened, Open

\* A node leaves the free list for a tree without the key.
LEMMA AllocKept ==
  ASSUME StoreInv, NEW t \in Trees, NEW k \in Keys, NEW v \in Values,
         Find(t, k) = {}, AllocValue(t, k, v), UNCHANGED initialised,
         out' \in Values \cup {Unset}
  PROVE  StoreInv'
<1>1. CASE Exhausted(free)
  BY <1>1 DEF StoreInv, StoreTypeOK, NodesOwned, Unopened, AllocValue, contents, Listed
<1>2. CASE ~Exhausted(free)
  <2> DEFINE n == free[1]
  <2>1. free \in Seq(Nodes)
    BY DEF StoreInv, StoreTypeOK
  <2>2. /\ Len(free) \in Nat \ {0} /\ DOMAIN free = 1..Len(free) /\ n \in Nodes
        /\ free' \in Seq(Nodes) /\ DOMAIN free' = 1..(Len(free) - 1)
        /\ \A i \in 1..(Len(free) - 1) : free'[i] = free[i + 1]
    BY <1>2, <2>1, PoolHead DEF AllocValue
  <2>3. /\ value' = [value EXCEPT ![n] = v] /\ key' = [key EXCEPT ![n] = k]
        /\ tree' = [tree EXCEPT ![t] = @ \cup {n}] /\ ret' = 0
    BY <1>2, <2>1, PoolHead DEF AllocValue
  <2>4. StoreTypeOK'
    BY <2>2, <2>3 DEF StoreInv, StoreTypeOK
  <2>5. /\ Listed' \subseteq Listed /\ n \in Listed /\ n \notin Listed'
        /\ \A i, j \in DOMAIN free' : free'[i] = free'[j] => i = j
    <3>1. \A i \in DOMAIN free' : i \in Nat /\ i + 1 \in DOMAIN free /\ free'[i] = free[i + 1]
      BY <2>2
    <3>2. \A i, j \in DOMAIN free : free[i] = free[j] => i = j
      BY DEF StoreInv, NodesOwned
    <3>3. \A i \in DOMAIN free' : free'[i] \in Listed /\ free'[i] # n
      BY <2>2, <3>1, <3>2 DEF Listed
    <3>4. n \in Listed
      BY <2>2 DEF Listed
    <3>5. \A i, j \in DOMAIN free' : free'[i] = free'[j] => i = j
      BY <3>1, <3>2
    <3> QED
      BY <3>3, <3>4, <3>5 DEF Listed
  <2>6. \A u \in Trees : n \notin tree[u]
    BY <2>5 DEF StoreInv, NodesOwned
  <2>7. \A u \in Trees : \A m \in tree'[u] : m \in tree[u] \/ (u = t /\ m = n)
    BY <2>3 DEF StoreInv, StoreTypeOK
  <2> HIDE DEF n
  <2>8. \A u \in Trees : tree'[u] \cap Listed' = {}
    <3>1. \A u \in Trees : tree[u] \cap Listed = {}
      BY DEF StoreInv, NodesOwned
    <3> QED
      BY <2>5, <2>7, <3>1
  <2>9. \A u, w \in Trees : u # w => tree'[u] \cap tree'[w] = {}
    <3>1. \A u, w \in Trees : u # w => tree[u] \cap tree[w] = {}
      BY DEF StoreInv, NodesOwned
    <3> QED
      BY <2>6, <2>7, <3>1
  <2>10. \A u \in Trees : \A i, j \in tree'[u] : key'[i] = key'[j] => i = j
    <3> SUFFICES ASSUME NEW u \in Trees, NEW i \in tree'[u], NEW j \in tree'[u], key'[i] = key'[j]
                 PROVE  i = j
      OBVIOUS
    <3>1. /\ \A m \in tree[u] : m \in Nodes /\ m # n /\ key'[m] = key[m]
          /\ key'[n] = k
      BY <2>2, <2>3, <2>6 DEF StoreInv, StoreTypeOK
    <3>2. \A m \in tree[t] : key[m] # k
      BY DEF Find
    <3>3. \A l, m \in tree[u] : key[l] = key[m] => l = m
      BY DEF StoreInv, NodesOwned
    <3> QED
      BY <2>7, <3>1, <3>2, <3>3
  <2>11. Unopened'
    BY <1>2 DEF StoreInv, Unopened, Exhausted
  <2> QED
    BY <2>4, <2>5, <2>8, <2>9, <2>10, <2>11 DEF StoreInv, NodesOwned
<1> QED
  BY <1>1, <1>2

LEMMA UpdateKept ==
  ASSUME StoreInv, NEW t \in Trees, NEW k \in Keys, NEW v \in Values, Update(t, k, v)
  PROVE  StoreInv'
<1>1. CASE Find(t, k) = {} /\ AllocValue(t, k, v)
  BY <1>1, AllocKept DEF Update
<1>2. ASSUME NEW n \in Find(t, k), value' = [value EXCEPT ![n] = v], ret' = 0,
             UNCHANGED <<free, tree, key>>
      PROVE  StoreInv'
  <2>1. StoreTypeOK'
    BY <1>2 DEF StoreInv, StoreTypeOK, Update
  <2> QED
    BY <1>2, <2>1 DEF StoreInv, NodesOwned, Unopened, Listed, Update
<1> QED
  BY <1>1, <1>2 DEF Update

LEMMA FetchKept ==
  ASSUME StoreInv, NEW t \in Trees, NEW k \in Keys, Fetch(t, k)
  PROVE  StoreInv'
<1>1. CASE Find(t, k) = {} /\ AllocValue(t, k, 0) /\ out' = 0
  BY <1>1, AllocKept, StoreAssumption DEF Fetch
<1>2. ASSUME NEW n \in Find(t, k), out' = value[n], ret' = 0, UNCHANGED contents
      PROVE  StoreInv'
  <2>1. n \in Nodes
    BY DEF Find, StoreInv, StoreTypeOK
  <2> QED
    BY <1>2, <2>1 DEF StoreInv, StoreTypeOK, NodesOwned, Unopened, Listed, Fetch, contents
<1> QED
  BY <1>1, <1>2 DEF Fetch

LEMMA DropKept ==
  ASSUME StoreInv, NEW t \in Owners, DropTree(t)
  PROVE  StoreInv'
<1>1. \A u \in Trees : tree'[u] = IF u = t THEN {} ELSE tree[u]
  BY DEF DropTree, StoreInv, StoreTypeOK
<1>2. tree' \in [Trees -> SUBSET Nodes]
  BY DEF DropTree, StoreInv, StoreTypeOK
<1> QED
  BY <1>1, <1>2 DEF DropTree, StoreInv, StoreTypeOK, NodesOwned, Unopened, Listed

LEMMA InvStep == StoreInv /\ [StoreNext]_storeVars => StoreInv'
<1> SUFFICES ASSUME StoreInv, [StoreNext]_storeVars PROVE StoreInv'
  OBVIOUS
<1>1. CASE Open
  BY <1>1, OpenKept
<1>2. ASSUME NEW t \in Trees, NEW k \in Keys, NEW v \in Values, Update(t, k, v) PROVE StoreInv'
  BY <1>2, UpdateKept
<1>3. ASSUME NEW t \in Trees, NEW k \in Keys, Fetch(t, k) PROVE StoreInv'
  BY <1>3, FetchKept
<1>4. ASSUME NEW t \in Owners, DropTree(t) PROVE StoreInv'
  BY <1>4, DropKept
<1>5. CASE UNCHANGED storeVars
  BY <1>5 DEF storeVars, contents, StoreInv, StoreTypeOK, NodesOwned, Unopened, Listed
<1> QED
  BY <1>1, <1>2, <1>3, <1>4, <1>5 DEF StoreNext

LEMMA InvAlways == StoreSpec => []StoreInv
  BY InvInit, InvStep, PTL DEF StoreSpec

\* The nodes of the pool are never shared, whatever instances store and however
\* often they come and go.
THEOREM StoreOwnsNodes == StoreSpec => [](StoreTypeOK /\ NodesOwned)
  BY InvAlways, PTL DEF StoreInv

(***************************************************************************)
(* The trees implement the maps of KVStore.                                *)
(***************************************************************************)

Maps == [t \in Trees |-> Map(t)]

LEMMA SameMaps == UNCHANGED <<tree, key, value>> => UNCHANGED Maps
  BY DEF Maps, Map

\* A tree has a node for a key when the map has the key.
LEMMA FindHas ==
  ASSUME StoreInv, NEW t \in Trees, NEW k
  PROVE  KV!Has(Maps[t], k) <=> Find(t, k) # {}
<1>1. \A e \in Map(t) : \E n \in tree[t] : e[1] = key[n]
  BY DEF Map
<1>2. \A n \in tree[t] : <<key[n], value[n]>> \in Map(t) /\ <<key[n], value[n]>>[1] = key[n]
  BY DEF Map
<1> QED
  BY <1>1, <1>2 DEF Maps, KV!Has, Find

\* What becomes of the maps when one tree gets a new map and the others keep theirs.
LEMMA MapsChange ==
  ASSUME NEW t \in Trees, NEW m, \A u \in Trees \ {t} : Map(u)' = Map(u), Map(t)' = m
  PROVE  Maps' = [Maps EXCEPT ![t] = m]
  BY DEF Maps

LEMMA AllocAdds ==
  ASSUME StoreInv, NEW t \in Trees, NEW k \in Keys, NEW v \in Values,
         Find(t, k) = {}, AllocValue(t, k, v)
  PROVE  KV!Add(t, k, v)
<1>1. ~KV!Has(Maps[t], k)
  BY FindHas
<1>2. CASE Exhausted(free)
  <2>1. ret' = -1 /\ Len(free) = 0 /\ UNCHANGED Maps /\ UNCHANGED Len(free)
    BY <1>2, SameMaps DEF AllocValue, Exhausted, contents
  <2> QED
    BY <1>1, <2>1 DEF KV!Add, Maps
<1>3. CASE ~Exhausted(free)
  <2> DEFINE n == free[1]
  <2>1. free \in Seq(Nodes)
    BY DEF StoreInv, StoreTypeOK
  <2>2. Len(free) > 0 /\ Len(free') = Len(free) - 1 /\ n \in Nodes /\ n \in Listed
    BY <1>3, <2>1, PoolHead DEF AllocValue, Listed
  <2>3. /\ value' = [value EXCEPT ![n] = v] /\ key' = [key EXCEPT ![n] = k]
        /\ tree' = [tree EXCEPT ![t] = @ \cup {n}] /\ ret' = 0
    BY <1>3, <2>1, PoolHead DEF AllocValue
  <2>4. \A u \in Trees : n \notin tree[u]
    BY <2>2 DEF StoreInv, NodesOwned
  <2>5. /\ \A u \in Trees : \A m \in tree[u] : key'[m] = key[m] /\ value'[m] = value[m]
        /\ key'[n] = k /\ value'[n] = v
    BY <2>2, <2>3, <2>4 DEF StoreInv, StoreTypeOK
  <2>6. /\ \A u \in Trees \ {t} : tree'[u] = tree[u]
        /\ tree'[t] = tree[t] \cup {n}
    BY <2>3 DEF StoreInv, StoreTypeOK
  <2> HIDE DEF n
  <2>7. \A u \in Trees \ {t} : Map(u)' = Map(u)
    BY <2>5, <2>6 DEF Map
  <2>8. Map(t)' = Map(t) \cup {<<k, v>>}
    BY <2>5, <2>6 DEF Map
  <2>9. Map(t) = {e \in Map(t) : e[1] # k}
    BY DEF Map, Find
  <2>10. Maps[t] = Map(t)
    BY DEF Maps
  <2>11. Map(t)' = KV!With(Maps[t], k, v)
    BY <2>8, <2>9, <2>10 DEF KV!With
  <2>12. Maps' = [Maps EXCEPT ![t] = KV!With(Maps[t], k, v)]
    BY <2>7, <2>11, MapsChange
  <2> QED
    BY <1>1, <2>2, <2>3, <2>12 DEF KV!Add, Maps
<1> QED
  BY <1>2, <1>3

LEMMA UpdateImplements ==
  ASSUME StoreInv, NEW t \in Trees, NEW k \in Keys, NEW v \in Values, Update(t, k, v)
  PROVE  KV!Update(t, k, v)
<1>1. CASE Find(t, k) = {} /\ AllocValue(t, k, v)
  <2>1. KV!Add(t, k, v)
    BY <1>1, AllocAdds
  <2> QED
    BY <2>1 DEF Update, KV!Update, Unset, KV!Unset
<1>2. ASSUME NEW n \in Find(t, k), value' = [value EXCEPT ![n] = v], ret' = 0,
             UNCHANGED <<free, tree, key>>
      PROVE  KV!Update(t, k, v)
  <2>1. n \in tree[t] /\ key[n] = k /\ n \in Nodes
    BY DEF Find, StoreInv, StoreTypeOK
  <2>2. /\ value'[n] = v
        /\ \A u \in Trees : \A m \in tree[u] : m # n => value'[m] = value[m]
    BY <1>2, <2>1 DEF StoreInv, StoreTypeOK
  <2>3. \A u \in Trees \ {t} : n \notin tree[u]
    BY <2>1 DEF StoreInv, NodesOwned
  <2>4. \A u \in Trees \ {t} : Map(u)' = Map(u)
    BY <1>2, <2>2, <2>3 DEF Map
  <2>5. \A m \in tree[t] : key[m] = k => m = n
    BY <2>1 DEF StoreInv, NodesOwned
  <2>6. Map(t)' = {<<key[m], value[m]>> : m \in tree[t] \ {n}} \cup {<<k, v>>}
    BY <1>2, <2>1, <2>2 DEF Map
  <2>7. {<<key[m], value[m]>> : m \in tree[t] \ {n}} = {e \in Map(t) : e[1] # k}
    BY <2>1, <2>5 DEF Map
  <2>8. Map(t)' = KV!With(Maps[t], k, v)
    BY <2>6, <2>7 DEF KV!With, Maps
  <2>9. Maps' = [Maps EXCEPT ![t] = KV!With(Maps[t], k, v)]
    BY <2>4, <2>8, MapsChange
  <2>10. KV!Has(Maps[t], k)
    BY FindHas
  <2> QED
    BY <1>2, <2>9, <2>10 DEF Update, KV!Update, Maps, Unset, KV!Unset
<1> QED
  BY <1>1, <1>2 DEF Update

LEMMA FetchImplements ==
  ASSUME StoreInv, NEW t \in Trees, NEW k \in Keys, Fetch(t, k)
  PROVE  KV!Fetch(t, k)
<1>1. CASE Find(t, k) = {} /\ AllocValue(t, k, 0) /\ out' = 0
  <2>1. KV!Add(t, k, 0)
    BY <1>1, AllocAdds, StoreAssumption
  <2> QED
    BY <1>1, <2>1 DEF Fetch, KV!Fetch, KV!Default
<1>2. ASSUME NEW n \in Find(t, k), out' = value[n], ret' = 0, UNCHANGED contents
      PROVE  KV!Fetch(t, k)
  <2>1. UNCHANGED Maps /\ UNCHANGED free
    BY <1>2, SameMaps DEF contents
  <2>2. <<k, out'>> \in Maps[t]
    BY <1>2 DEF Find, Maps, Map
  <2> QED
    BY <1>2, <2>1, <2>2 DEF Fetch, KV!Fetch, Maps
<1> QED
  BY <1>1, <1>2 DEF Fetch

LEMMA DropImplements ==
  ASSUME StoreInv, NEW t \in Owners, DropTree(t)
  PROVE  KV!Drop(t)
<1>1. t \in Trees
  BY DEF Trees
<1>2. tree'[t] = {} /\ \A u \in Trees \ {t} : tree'[u] = tree[u]
  BY <1>1 DEF DropTree, StoreInv, StoreTypeOK
<1>3. Map(t)' = {} /\ \A u \in Trees \ {t} : Map(u)' = Map(u)
  BY <1>2 DEF Map, DropTree
<1>4. Maps' = [Maps EXCEPT ![t] = {}]
  BY <1>1, <1>3, MapsChange
<1> QED
  BY <1>4 DEF DropTree, KV!Drop, Maps

LEMMA KVInit == StoreInit => KV!Init
<1> SUFFICES ASSUME StoreInit PROVE KV!Init
  OBVIOUS
<1>1. \A t \in Trees : Map(t) = {}
  BY DEF StoreInit, Map
<1>2. Len(free) = 0
  BY DEF StoreInit
<1> QED
  BY <1>1, <1>2 DEF StoreInit, KV!Init, KV!Trees, Trees, Unset, KV!Unset

LEMMA KVStep == StoreInv /\ [StoreNext]_storeVars => [KV!Next]_(KV!vars)
<1> SUFFICES ASSUME StoreInv, [StoreNext]_storeVars PROVE [KV!Next]_(KV!vars)
  OBVIOUS
<1>0. KV!Trees = Trees
  BY DEF KV!Trees, Trees
<1>1. CASE Open
  <2>1. UNCHANGED Maps
    BY <1>1, SameMaps DEF Open
  <2>2. Len(free') = NumValues
    BY <1>1, FreshPool DEF Open
  <2>3. KV!Open
    BY <1>1, <2>1, <2>2 DEF Open, KV!Open, Maps
  <2> QED
    BY <2>3 DEF KV!Next
<1>2. ASSUME NEW t \in Trees, NEW k \in Keys, NEW v \in Values, Update(t, k, v) PROVE KV!Next
  BY <1>0, <1>2, UpdateImplements DEF KV!Next
<1>3. ASSUME NEW t \in Trees, NEW k \in Keys, Fetch(t, k) PROVE KV!Next
  BY <1>0, <1>3, FetchImplements DEF KV!Next
<1>4. ASSUME NEW t \in Owners, DropTree(t) PROVE KV!Next
  BY <1>0, <1>4, DropImplements DEF KV!Next, Trees
<1>5. CASE UNCHANGED storeVars
  <2>1. UNCHANGED Maps
    BY <1>5, SameMaps DEF storeVars, contents
  <2> QED
    BY <1>5, <2>1 DEF storeVars, contents, KV!vars, Maps
<1> QED
  BY <1>1, <1>2, <1>3, <1>4, <1>5 DEF StoreNext

\* Trees over one pool of nodes behave as maps over a shared room.
THEOREM StoreImplementsMaps == StoreSpec => IsKVStore
<1>1. StoreSpec => [][KV!Next]_(KV!vars)
  BY InvAlways, KVStep, PTL DEF StoreSpec
<1> QED
  BY <1>1, KVInit DEF StoreSpec, IsKVStore, KV!Spec
=============================================================================
