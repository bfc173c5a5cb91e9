----------------------------- MODULE Dictionary -----------------------------
(***************************************************************************)
(* What a sorted tree promises its users: it holds a set of keys, to which *)
(* keys are added and from which keys are removed one at a time.           *)
(***************************************************************************)
CONSTANT Keys

VARIABLES
  keys,  \* the keys held
  res    \* what the last call returned

Init ==
  /\ keys = {}
  /\ res = "none"

Insert(k) ==
  /\ k \notin keys
  /\ keys' = keys \cup {k}
  /\ res' = "ok"

InsertAgain(k) ==
  /\ k \in keys
  /\ res' = "exists"
  /\ UNCHANGED keys

Remove(k) ==
  /\ keys' = keys \ {k}
  /\ res' = IF k \in keys THEN "removed" ELSE "absent"

Next == \E k \in Keys : Insert(k) \/ InsertAgain(k) \/ Remove(k)

Spec == Init /\ [][Next]_<<keys, res>>
=============================================================================
