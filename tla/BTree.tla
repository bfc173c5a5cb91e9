------------------------------- MODULE BTree -------------------------------
(***************************************************************************)
(* The self-balancing sorted tree (bpf/btree.c) as a heap of nodes with    *)
(* left, right and parent pointers.  Every key has one node, which stands  *)
(* for the node its owner would insert under that key; a node keeps its    *)
(* pointers while it is in no tree.                                        *)
(***************************************************************************)
EXTENDS Integers, FiniteSets, Sequences

CONSTANTS
  Keys,         \* the keys, which are also the nodes
  NULL,         \* the null pointer
  MaxKey,       \* UINT32_MAX
  Cleared,      \* whether owners clear a node they get back before they use it again
  RemoveBound   \* the size of the largest tree that is removed from

ASSUME KeysAssumption ==
  /\ MaxKey \in Nat /\ Keys \subseteq 0..MaxKey
  /\ NULL \notin Keys
  /\ Cleared \in BOOLEAN /\ RemoveBound \in Nat

VARIABLES
  tree,  \* the root pointer, and the pointers of all nodes
  res    \* what the last call returned

vars == <<tree, res>>

Init ==
  /\ tree = [start |-> NULL,
             left |-> [n \in Keys |-> NULL],
             right |-> [n \in Keys |-> NULL],
             parent |-> [n \in Keys |-> NULL]]
  /\ res = "none"

-----------------------------------------------------------------------------
\* Searching and walking.

Nodes == Keys \cup {NULL}

\* n rounds of a loop: body takes a state to the next one, and leaves alone a
\* state in which the loop is over.
Rounds(body, state, n) ==
  LET at[k \in Nat] == IF k = 0 THEN state ELSE body[at[k - 1]]
  IN at[n]

Child(t, n, key) == IF n > key THEN t.left[n] ELSE t.right[n]

\* _find_key() from node n: where it ends, and the node before.
FindKey(t, n, key) ==
  Rounds([c \in [node : Nodes, parent : Nodes] |->
            IF c.node \in {NULL, key} THEN c
            ELSE [node |-> Child(t, c.node, key), parent |-> c.node]],
         [node |-> n, parent |-> NULL], Cardinality(Keys))

Found(t, key) == FindKey(t, t.start, key).node

\* A step of btree_traverse(), which ends at the node stop, from c.prev to c.node.
WalkStep(t, stop, c) ==
  LET n == c.node
      down == c.prev = t.parent[n]
      depth == IF down THEN c.depth + 1 ELSE c.depth
      left == down /\ t.left[n] # NULL
      visit == ~left /\ (down \/ c.prev = t.left[n])
      right == visit /\ t.right[n] # NULL
  IN IF n = stop THEN c
     ELSE [node |-> IF left THEN t.left[n] ELSE IF right THEN t.right[n] ELSE t.parent[n],
           prev |-> n,
           depth |-> IF left \/ right THEN depth ELSE depth - 1,
           visits |-> IF visit THEN Append(c.visits, <<n, depth>>) ELSE c.visits]

\* btree_traverse() below root: the callbacks to the end of the walk, which is
\* over at the parent of root.  Each node is entered three times.
Traverse(t, root) ==
  IF root = NULL THEN <<>>
  ELSE Rounds([c \in [node : Nodes, prev : Nodes, depth : Int, visits : Seq(Keys \X Int)] |->
                 WalkStep(t, t.parent[root], c)],
              [node |-> root, prev |-> t.parent[root], depth |-> 0, visits |-> <<>>],
              3 * Cardinality(Keys)).visits

\* _max_path(): the greatest depth a traversal reports.
MaxPath(t, root) ==
  LET visits == Traverse(t, root)
      depths == {0} \cup {visits[k][2] : k \in DOMAIN visits}
  IN CHOOSE d \in depths : \A e \in depths : e <= d

-----------------------------------------------------------------------------
\* Balancing.

ReplaceRef(t, p, child, new) ==
  IF t.left[p] = child THEN [t EXCEPT !.left[p] = new] ELSE [t EXCEPT !.right[p] = new]

UpdateParentRef(t, n, p) == IF n = NULL THEN t ELSE [t EXCEPT !.parent[n] = p]

StartRotate(t, root, pivot) ==
  LET p == t.parent[root]
      linked == IF p # NULL THEN ReplaceRef(t, p, root, pivot) ELSE [t EXCEPT !.start = pivot]
  IN [UpdateParentRef(linked, pivot, p) EXCEPT !.parent[root] = pivot]

\* Mutant: the subtree that changes sides keeps its parent.
RotateLeftStale(t, root, pivot) ==
  LET r == StartRotate(t, root, pivot) IN
  [r EXCEPT !.right[root] = r.left[pivot], !.left[pivot] = root]

RotateLeft(t, root, pivot) ==
  LET s == StartRotate(t, root, pivot)
      r == UpdateParentRef(s, s.left[pivot], root)
  IN [r EXCEPT !.right[root] = r.left[pivot], !.left[pivot] = root]

RotateRight(t, root, pivot) ==
  LET s == StartRotate(t, root, pivot)
      r == UpdateParentRef(s, s.right[pivot], root)
  IN [r EXCEPT !.left[root] = r.right[pivot], !.right[pivot] = root]

\* Both cases of a right-heavy node; childBalance tells which.
FixRight(t, n, childBalance) ==
  LET r == t.right[n]
      s == IF childBalance < 0 THEN RotateRight(t, r, t.left[r]) ELSE t
  IN RotateLeft(s, n, s.right[n])

FixLeft(t, n, childBalance) ==
  LET l == t.left[n]
      s == IF childBalance > 0 THEN RotateLeft(t, l, t.right[l]) ELSE t
  IN RotateRight(s, n, s.left[n])

Trees == [start : Nodes, left : [Keys -> Nodes], right : [Keys -> Nodes],
          parent : [Keys -> Nodes]]

\* A round of _balance().
BalanceStep(c) ==
  LET t == c.tree
      n == c.node
      balance == MaxPath(t, t.right[n]) - MaxPath(t, t.left[n])
      right == FixRight(t, n, c.childBalance)
      left == FixLeft(t, n, c.childBalance)
  IN IF n = NULL THEN c
     ELSE IF balance > 1 THEN [tree |-> right, node |-> right.right[n], childBalance |-> 0]
     ELSE IF balance < -1 THEN [tree |-> left, node |-> left.left[n], childBalance |-> 0]
     ELSE [tree |-> t, node |-> t.parent[n], childBalance |-> balance]

\* _balance() from node n: it climbs, and goes on from the other child of the
\* new top after a rotation.
Balance(t, n) ==
  Rounds([c \in [tree : Trees, node : Nodes, childBalance : Int] |-> BalanceStep(c)],
         [tree |-> t, node |-> n, childBalance |-> 0], 4 * Cardinality(Keys)).tree

-----------------------------------------------------------------------------
\* The operations.

\* Mutant: the wrong side.
AttachSwapped(t, p, key) ==
  IF p > key THEN [t EXCEPT !.right[p] = key] ELSE [t EXCEPT !.left[p] = key]

Attach(t, p, key) ==
  IF p > key THEN [t EXCEPT !.left[p] = key] ELSE [t EXCEPT !.right[p] = key]

\* The nodes a new node is linked to: in an empty tree the search does not
\* assign its parent.
Linkup(t, key) ==
  LET p == IF t.start = NULL THEN t.parent[key]
           ELSE FindKey(t, t.start, key).parent
      s == [t EXCEPT !.left[key] = NULL, !.right[key] = NULL, !.parent[key] = p]
  IN IF p = NULL THEN [s EXCEPT !.start = key] ELSE Attach(s, p, key)

\* Mutant: only balance if the rank stays the same.
InsertedSameRank(t, key) ==
  LET r == Linkup(t, key)
      p == r.parent[key]
  IN IF p = NULL \/ r.left[p] = NULL \/ r.right[p] = NULL THEN r ELSE Balance(r, p)

\* btree_insert() of a key that is not there.
Inserted(t, key) ==
  LET r == Linkup(t, key)
      p == r.parent[key]
  IN IF p = NULL \/ (r.left[p] # NULL /\ r.right[p] # NULL) THEN r ELSE Balance(r, p)

FindDistance(t, p, child) ==
  Rounds([c \in [node : Nodes, depth : Nat] |->
            IF c.node \in {NULL, p} THEN c
            ELSE [node |-> t.parent[c.node], depth |-> c.depth + 1]],
         [node |-> child, depth |-> 0], Cardinality(Keys)).depth

\* _find_min() and _find_max(): where the search for the least and the greatest
\* key ends, which is nowhere when it finds that key at once.
FindMin(t, n) == FindKey(t, n, 0).parent
FindMax(t, n) == FindKey(t, n, MaxKey).parent

Replacement(t, d) ==
  LET left == FindMin(t, t.left[d])
      right == FindMax(t, t.right[d])
      PathLen(n) == FindDistance(t, d, n) + MaxPath(t, n)
  IN IF PathLen(left) > PathLen(right) THEN left ELSE right

\* The replacement n takes the place of d.
Replaced(t, d, n) ==
  LET s == [t EXCEPT !.parent[n] = t.parent[d]]
      dangling == IF t.left[n] # NULL THEN t.left[n] ELSE t.right[n]
      r == ReplaceRef(s, t.parent[n], n, dangling)
      q == [r EXCEPT !.left[n] = r.left[d], !.right[n] = r.right[d]]
  IN UpdateParentRef(UpdateParentRef(q, q.right[n], n), q.left[n], n)

\* Mutant: the replacement is not linked to the parent of d.
RemovedUnlinked(t, d) ==
  LET n == Replacement(t, d)
      from == FindKey(t, t.start, d).parent
      s == IF t.parent[d] # NULL THEN t ELSE [t EXCEPT !.start = n]
  IN IF n = NULL THEN Balance(s, from)
     ELSE Balance(Replaced(s, d, n), s.parent[n])

\* btree_remove() of a node of the tree.
Removed(t, d) ==
  LET n == Replacement(t, d)
      from == FindKey(t, t.start, d).parent
      s == IF t.parent[d] # NULL THEN ReplaceRef(t, t.parent[d], d, n)
           ELSE [t EXCEPT !.start = n]
  IN IF n = NULL THEN Balance(s, from)
     ELSE Balance(Replaced(s, d, n), s.parent[n])

Insert(key) ==
  /\ Found(tree, key) = NULL
  /\ tree' = Inserted(tree, key)
  /\ res' = "ok"

\* With a node of its own, which does not become part of the tree.
InsertAgain(key) ==
  /\ Found(tree, key) # NULL
  /\ res' = "exists"
  /\ UNCHANGED tree

Held == {k \in Keys : Found(tree, k) # NULL}

\* What the owner of a removed node does with it.
GivenBack(t, d) ==
  IF Cleared THEN [t EXCEPT !.left[d] = NULL, !.right[d] = NULL, !.parent[d] = NULL] ELSE t

Remove(key) ==
  /\ Found(tree, key) # NULL
  /\ Cardinality(Held) <= RemoveBound
  /\ tree' = GivenBack(Removed(tree, key), key)
  /\ res' = "removed"

RemoveAbsent(key) ==
  /\ Found(tree, key) = NULL
  /\ res' = "absent"
  /\ UNCHANGED tree

Next == \E key \in Keys : Insert(key) \/ InsertAgain(key) \/ Remove(key) \/ RemoveAbsent(key)

Spec == Init /\ [][Next]_vars
-----------------------------------------------------------------------------
\* Properties.

\* The nodes that hang together below n.
Below(n) ==
  Rounds([S \in SUBSET Keys |->
            S \cup (({tree.left[k] : k \in S} \cup {tree.right[k] : k \in S}) \ {NULL})],
         {n} \ {NULL}, Cardinality(Keys))

\* Pointers are mutual: the root has no parent, and each child of a node of the
\* tree names that node as its parent.  The walk without a stack, and the climb
\* of the balancing, end at the root because of it.
Linked ==
  /\ tree.start # NULL => tree.parent[tree.start] = NULL
  /\ \A n \in Below(tree.start) : \A c \in {tree.left[n], tree.right[n]} \ {NULL} :
       tree.parent[c] = n

\* The number of nodes a search for a key looks at.
Steps(key) ==
  Rounds([c \in [node : Nodes, seen : Nat] |->
            IF c.node \in {NULL, key} THEN c
            ELSE [node |-> Child(tree, c.node, key), seen |-> c.seen + 1]],
         [node |-> tree.start, seen |-> 1], Cardinality(Keys)).seen

\* A traversal visits each key held exactly once, in ascending order, and
\* reports the depth at which a search finds it.
InOrder ==
  LET visits == Traverse(tree, tree.start) IN
  /\ {visits[k][1] : k \in DOMAIN visits} = Held
  /\ \A k, l \in DOMAIN visits : k < l => visits[k][1] < visits[l][1]
  /\ \A k \in DOMAIN visits : visits[k][2] = Steps(visits[k][1])

\* The number of levels below each node.
Height ==
  LET h[n \in Nodes] ==
        IF n = NULL THEN 0
        ELSE 1 + (IF h[tree.left[n]] > h[tree.right[n]] THEN h[tree.left[n]] ELSE h[tree.right[n]])
  IN h

\* The tree is balanced: below no node the two sides differ by more than one
\* level, although the climb of the balancing stops short after a rotation.
Balanced ==
  \A n \in Held : Height[tree.left[n]] - Height[tree.right[n]] \in -1..1

D == INSTANCE Dictionary WITH keys <- Held

\* What a search finds is what was inserted and not removed since: no
\* rotation or replacement makes another key unreachable.
IsDictionary == D!Spec
=============================================================================
