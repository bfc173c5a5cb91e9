------------------------------- MODULE Store -------------------------------
(***************************************************************************)
(* The key-value store (bpf/store.c): one pool of nodes, a global tree and *)
(* a tree in each instance.  A tree is the set of its nodes; that searches *)
(* and insertions in the pointers of btree.c amount to this is what BTree  *)
(* and Dictionary are about.                                               *)
(***************************************************************************)
EXTENDS Integers, Sequences, Memarray

CONSTANTS
  Owners,    \* the instances, each with a local tree
  Keys,
  Values,
  NumValues  \* CONFIG_BPF_STORE_NUM_VALUES, the elements of the pool

ASSUME StoreAssumption ==
  /\ NumValues \in Nat /\ 0 \in Values
  /\ "global" \notin Owners

Nodes == 1..NumValues

Trees == Owners \cup {"global"}

Unset == -1

VARIABLES
  initialised,  \* bpf_init() was called (src/init.cpp)
  free,         \* the free list of the pool
  tree,         \* the nodes in the global tree and in that of each instance
  key, value,   \* the contents of the nodes
  ret,          \* what the last update or fetch returned
  out           \* what the last call left in *value, Unset by an update

contents == <<free, tree, key, value>>
storeVars == <<initialised, contents, ret, out>>

\* Static memory: the list is empty until memarray_init().
StoreInit ==
  /\ initialised = FALSE
  /\ free = <<>>
  /\ tree = [t \in Trees |-> {}]
  /\ key = [n \in Nodes |-> 0]
  /\ value = [n \in Nodes |-> 0]
  /\ ret = 0 /\ out = Unset

\* bpf_store_init(), called through bpf_init() by check_init() once.
Open ==
  /\ ~initialised /\ initialised' = TRUE
  /\ free' = Fresh(NumValues)
  /\ UNCHANGED <<tree, key, value, ret, out>>

\* btree_find_key()
Find(t, k) == {n \in tree[t] : key[n] = k}

\* _alloc_value(): a node of the pool is filled in and inserted.
AllocValue(t, k, v) ==
  \/ /\ Exhausted(free)
     /\ ret' = -1
     /\ UNCHANGED contents
  \/ /\ ~Exhausted(free)
     /\ LET n == Allocated(free) IN
          /\ value' = [value EXCEPT ![n] = v]
          /\ key' = [key EXCEPT ![n] = k]
          /\ tree' = [tree EXCEPT ![t] = @ \cup {n}]
     /\ free' = Remaining(free)
     /\ ret' = 0

\* _store_value()
Update(t, k, v) ==
  /\ \/ Find(t, k) = {} /\ AllocValue(t, k, v)
     \/ \E n \in Find(t, k) :
          /\ value' = [value EXCEPT ![n] = v]
          /\ ret' = 0
          /\ UNCHANGED <<free, tree, key>>
  /\ out' = Unset
  /\ UNCHANGED initialised

\* Mutant: *value is set only once the new node is there.
FetchLate(t, k) ==
  /\ \/ /\ Find(t, k) = {} /\ AllocValue(t, k, 0)
        /\ out' = IF Exhausted(free) THEN out ELSE 0
     \/ \E n \in Find(t, k) :
          /\ out' = value[n] /\ ret' = 0
          /\ UNCHANGED contents
  /\ UNCHANGED initialised

\* _fetch_value(): *value is set to 0 before the allocation that may fail.
Fetch(t, k) ==
  /\ \/ Find(t, k) = {} /\ AllocValue(t, k, 0) /\ out' = 0
     \/ \E n \in Find(t, k) :
          /\ out' = value[n] /\ ret' = 0
          /\ UNCHANGED contents
  /\ UNCHANGED initialised

\* bpf_destroy() zeroes the root of the local tree; its nodes stay where they are.
DropTree(t) ==
  /\ tree' = [tree EXCEPT ![t] = {}]
  /\ UNCHANGED <<initialised, free, key, value, ret, out>>

StoreNext ==
  \/ Open
  \/ \E t \in Trees :
       \/ \E k \in Keys, v \in Values : Update(t, k, v)
       \/ \E k \in Keys : Fetch(t, k)
  \/ \E t \in Owners : DropTree(t)

StoreSpec == StoreInit /\ [][StoreNext]_storeVars
-----------------------------------------------------------------------------
Listed == {free[k] : k \in DOMAIN free}

StoreTypeOK ==
  /\ initialised \in BOOLEAN
  /\ free \in Seq(Nodes)
  /\ tree \in [Trees -> SUBSET Nodes]
  /\ key \in [Nodes -> Keys \cup {0}] /\ value \in [Nodes -> Values]
  /\ ret \in {0, -1} /\ out \in Values \cup {Unset}

\* A node is listed once in the free list or is in one tree, never both and
\* never in two: what one instance stores cannot change what another one, or the
\* global store, holds.  A tree has at most one node for a key.
NodesOwned ==
  /\ \A j, k \in DOMAIN free : free[j] = free[k] => j = k
  /\ \A t \in Trees : tree[t] \cap Listed = {}
  /\ \A t, u \in Trees : t # u => tree[t] \cap tree[u] = {}
  /\ \A t \in Trees : \A m, n \in tree[t] : key[m] = key[n] => m = n

\* Every node is free or in a tree: bpf_destroy() releases what the instance
\* used (bpf.h).
NoNodeLost == initialised => Nodes = Listed \cup UNION {tree[t] : t \in Trees}

\* The map a tree stands for.
Map(t) == {<<key[n], value[n]>> : n \in tree[t]}

KV == INSTANCE KVStore WITH
  Capacity <- NumValues,
  open <- initialised,
  map <- [t \in Trees |-> Map(t)],
  room <- Len(free)

\* The store behaves as maps over a shared room: what was stored is what is
\* fetched, a failing call changes nothing but *value, new keys alone use up the
\* pool, and loading or unloading a machine leaves the other maps alone.
IsKVStore == KV!Spec
=============================================================================
