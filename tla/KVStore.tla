------------------------------ MODULE KVStore ------------------------------
(***************************************************************************)
(* What the key-value store (bpf/include/bpf/store.h) promises: a map for  *)
(* each owner and one for all of them, which grow into a room they share.  *)
(* Room that was used is not given back when an owner's map is dropped.    *)
(***************************************************************************)
EXTENDS Integers

CONSTANTS
  Owners,    \* who has a map of its own
  Keys,
  Values,
  Capacity   \* how many keys all maps together can hold

Default == 0
Unset == -1

Trees == Owners \cup {"global"}

VARIABLES
  open,  \* the store was initialised
  map,   \* of each owner and the global one: pairs of key and value
  room,  \* how many more keys can be added
  ret,   \* what the last update or fetch returned
  out    \* what the last call left in *value, Unset by an update

vars == <<open, map, room, ret, out>>

Init ==
  /\ open = FALSE
  /\ map = [t \in Trees |-> {}]
  /\ room = 0
  /\ ret = 0 /\ out = Unset

Open ==
  /\ ~open /\ open' = TRUE
  /\ room' = Capacity
  /\ UNCHANGED <<map, ret, out>>

Has(m, k) == \E e \in m : e[1] = k

With(m, k, v) == {e \in m : e[1] # k} \cup {<<k, v>>}

\* A new key takes room; without room nothing changes.
Add(t, k, v) ==
  /\ ~Has(map[t], k)
  /\ \/ /\ ret' = 0
        /\ room > 0 /\ room' = room - 1
        /\ map' = [map EXCEPT ![t] = With(@, k, v)]
     \/ /\ ret' = -1
        /\ room = 0
        /\ UNCHANGED <<room, map>>

Update(t, k, v) ==
  /\ UNCHANGED open
  /\ out' = Unset
  /\ \/ Add(t, k, v)
     \/ /\ ret' = 0
        /\ Has(map[t], k)
        /\ map' = [map EXCEPT ![t] = With(@, k, v)]
        /\ UNCHANGED room

\* Fetching a key that is missing adds it; when that fails it reads as 0.
Fetch(t, k) ==
  /\ UNCHANGED open
  /\ \/ out' = Default /\ Add(t, k, Default)
     \/ /\ ret' = 0
        /\ <<k, out'>> \in map[t]
        /\ UNCHANGED <<room, map>>

\* An owner goes away.  The global map stays.
Drop(t) ==
  /\ UNCHANGED <<open, room, ret, out>>
  /\ t \in Owners
  /\ map' = [map EXCEPT ![t] = {}]

Next ==
  \/ Open
  \/ \E t \in Trees :
       \/ \E k \in Keys, v \in Values : Update(t, k, v)
       \/ \E k \in Keys : Fetch(t, k)
       \/ Drop(t)

Spec == Init /\ [][Next]_vars
=============================================================================
