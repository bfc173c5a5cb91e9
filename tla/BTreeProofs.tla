---------------------------- MODULE BTreeProofs ----------------------------
(* What the sorted tree promises, for any set of keys.  The library never     *)
(* removes a node; of the removals a user can ask for, those are included     *)
(* that leave a tree (RemovesLittle).                                         *)
EXTENDS BTree, Induction, SequenceTheorems, FiniteSetTheorems

(***************************************************************************)
(* Loops.                                                                  *)
(***************************************************************************)

\* g are the states of a loop with the body f.
Loop(g, f, x, X) ==
  /\ g \in [Nat -> X] /\ g[0] = x
  /\ \A n \in Nat : g[n + 1] = f[g[n]]
  /\ \A n \in Nat : Rounds(f, x, n) = g[n]

\* The states of a loop, if its body keeps them in a set.
LEMMA RoundsIterate ==
  ASSUME NEW f, NEW X, NEW x \in X, \A y \in X : f[y] \in X
  PROVE  \E g : Loop(g, f, x, X)
<1> DEFINE body == [y \in X |-> f[y]]
           Is(at) == at = [k \in Nat |-> IF k = 0 THEN x ELSE f[at[k - 1]]]
<1>1. body \in [X -> X]
  OBVIOUS
<1> HIDE DEF body
<1>2. PICK g : Iteration(g, body, x, X)
  BY <1>1, IterationExists
<1>3. g \in [Nat -> X] /\ g[0] = x /\ \A n \in Nat : g[n + 1] = f[g[n]]
  BY <1>2 DEF Iteration, body
<1>4. Is(g)
  <2> DEFINE h == [k \in Nat |-> IF k = 0 THEN x ELSE f[g[k - 1]]]
  <2>1. \A k \in Nat : k = 0 \/ (k - 1 \in Nat /\ (k - 1) + 1 = k)
    OBVIOUS
  <2>2. \A k \in Nat : h[k] = g[k]
    BY <1>3, <2>1
  <2>3. g = h
    BY <1>3, <2>2
  <2> QED
    BY <2>3
<1> DEFINE at == CHOOSE h : Is(h)
<1>5. Is(at)
  BY <1>4
<1> HIDE DEF at
<1>6. \A n \in Nat : Rounds(f, x, n) = at[n]
  BY DEF Rounds, at
<1>7. \A n \in Nat : at[n] = g[n]
  <2> DEFINE A == {n \in Nat : at[n] = g[n]}
  <2>1. 0 \in A
    BY <1>3, <1>5
  <2>2. ASSUME NEW n \in Nat, n \in A PROVE n + 1 \in A
    <3>1. n + 1 # 0 /\ n + 1 \in Nat /\ (n + 1) - 1 = n
      OBVIOUS
    <3>2. at[n + 1] = f[at[n]]
      BY <1>5, <3>1
    <3> QED
      BY <1>3, <2>2, <3>1, <3>2
  <2> HIDE DEF A
  <2>3. Nat \subseteq A
    BY <2>1, <2>2, Inductive
  <2> QED
    BY <2>3 DEF A
<1> QED
  BY <1>3, <1>6, <1>7 DEF Loop

(***************************************************************************)
(* The heap as a forest.                                                   *)
(***************************************************************************)

\* Keys are numbers, and there are finitely many.
LEMMA KeysAreNumbers == Keys \subseteq Int /\ NULL \notin Keys /\ IsFiniteSet(Keys)
<1>1. IsFiniteSet(0..MaxKey)
  BY KeysAssumption, FS_Interval
<1>2. Keys \in SUBSET (0..MaxKey) /\ MaxKey \in Nat /\ NULL \notin Keys
  BY KeysAssumption
<1>3. IsFiniteSet(Keys)
  BY <1>1, <1>2, FS_Subset
<1>4. Keys \subseteq Int
  BY <1>2
<1> QED
  BY <1>2, <1>3, <1>4

\* a lies to the left of b in the tree itself (dir = 1), and to the right of it
\* in the mirror image.
Before(dir, a, b) == (dir = 1 /\ a < b) \/ (dir # 1 /\ b < a)

\* S gives the nodes below each node: the pointers are mutual, sides are sorted,
\* what is below a node
\* is below the nodes above it, every path up ends at them, and a node that does
\* not hang from the root is alone.
Forest(t, S, dir) ==
  /\ t \in Trees
  /\ S \in [Nodes -> SUBSET Keys] /\ S[NULL] = {}
  /\ \A n \in Keys : S[n] = {n} \cup S[t.left[n]] \cup S[t.right[n]]
  /\ \A n \in Keys : \A k \in S[t.left[n]] : Before(dir, k, n)
  /\ \A n \in Keys : \A k \in S[t.right[n]] : Before(dir, n, k)
  /\ \A n \in Keys : t.left[n] # NULL => t.parent[t.left[n]] = n
  /\ \A n \in Keys : t.right[n] # NULL => t.parent[t.right[n]] = n
  /\ \A n \in Keys : t.parent[n] # NULL =>
       t.left[t.parent[n]] = n \/ t.right[t.parent[n]] = n
  /\ \A a \in Keys : \A c \in S[a] : S[c] \subseteq S[a] /\ (c # a => t.parent[c] \in S[a])
  /\ t.start # NULL => t.parent[t.start] = NULL
  /\ \A n \in Keys \ S[t.start] : t.left[n] = NULL /\ t.right[n] = NULL /\ t.parent[n] = NULL

Mirror(t) == [start |-> t.start, left |-> t.right, right |-> t.left, parent |-> t.parent]

\* The mirror image of a tree swaps left and right and nothing else.
LEMMA MirrorTree ==
  ASSUME NEW t \in Trees
  PROVE  /\ Mirror(t) \in Trees
         /\ Mirror(t).start = t.start /\ Mirror(t).parent = t.parent
         /\ Mirror(t).left = t.right /\ Mirror(t).right = t.left
         /\ Mirror(Mirror(t)) = t
  BY DEF Mirror, Trees

\* The mirror image of a forest is a forest in the opposite order.
LEMMA MirrorForest ==
  ASSUME NEW t, NEW S, NEW dir, NEW rev, dir = 1 <=> rev # 1, Forest(t, S, dir)
  PROVE  Forest(Mirror(t), S, rev)
<1>1. \A a, b : Before(dir, a, b) <=> Before(rev, b, a)
  BY DEF Before
<1>2. t \in Trees
  BY DEF Forest
<1> QED
  BY <1>1, <1>2, MirrorTree DEF Forest

\* What the parts of a forest say of its pointers.
LEMMA ForestTyped ==
  ASSUME NEW t, NEW S, NEW dir, Forest(t, S, dir)
  PROVE  /\ t.start \in Nodes
         /\ \A n \in Keys : t.left[n] \in Nodes /\ t.right[n] \in Nodes /\ t.parent[n] \in Nodes
         /\ \A n \in Nodes : S[n] \subseteq Keys
         /\ \A n \in Keys : n \in S[n]
  BY DEF Forest, Trees

\* No node is on its own sides, and no node is on both sides of one.
LEMMA Sides ==
  ASSUME NEW t, NEW S, NEW dir, Forest(t, S, dir), NEW n \in Keys
  PROVE  /\ n \notin S[t.left[n]] /\ n \notin S[t.right[n]]
         /\ S[t.left[n]] \cap S[t.right[n]] = {}
         /\ t.left[n] # n /\ t.right[n] # n
         /\ t.left[n] # NULL => t.left[n] # t.right[n]
<1>1. \A a, b \in Keys : Before(dir, a, b) => ~Before(dir, b, a) /\ a # b
  BY KeysAreNumbers DEF Before
<1>2. /\ \A k \in S[t.left[n]] : Before(dir, k, n)
      /\ \A k \in S[t.right[n]] : Before(dir, n, k)
  BY DEF Forest
<1>3. /\ t.left[n] \in Nodes /\ t.right[n] \in Nodes
      /\ S[t.left[n]] \subseteq Keys /\ S[t.right[n]] \subseteq Keys
      /\ \A k \in Keys : k \in S[k]
  BY ForestTyped
<1> QED
  BY <1>1, <1>2, <1>3 DEF Nodes

\* A child is below what its parent is below.
LEMMA Kin ==
  ASSUME NEW t, NEW S, NEW dir, Forest(t, S, dir), NEW n \in Keys, NEW c \in Keys,
         c = t.left[n] \/ c = t.right[n]
  PROVE  /\ t.parent[c] = n /\ c \in S[n] /\ S[c] \subseteq S[n] /\ n \notin S[c] /\ c # n
         /\ \A a \in Keys : c \in S[a] <=> n \in S[a] \/ a = c
<1>1. c # NULL /\ n \in S[n] /\ c \in S[c]
  BY KeysAreNumbers, ForestTyped
<1>2. t.parent[c] = n
  BY <1>1 DEF Forest
<1>3. S[c] \subseteq S[n] /\ c \in S[n]
  BY <1>1 DEF Forest
<1>4. n \notin S[c] /\ c # n
  BY Sides
<1>5. \A a \in Keys : c \in S[a] => n \in S[a] \/ a = c
  BY <1>2 DEF Forest
<1>6. \A a \in Keys : n \in S[a] => c \in S[a]
  BY <1>3 DEF Forest
<1> QED
  BY <1>1, <1>2, <1>3, <1>4, <1>5, <1>6

\* A parent is above its child, and the root is the only node of the tree
\* without a parent.
LEMMA Parent ==
  ASSUME NEW t, NEW S, NEW dir, Forest(t, S, dir), NEW n \in S[t.start]
  PROVE  /\ n \in Keys /\ t.start \in Keys /\ n \in S[n]
         /\ S[n] \subseteq S[t.start]
         /\ n = t.start => t.parent[n] = NULL
         /\ n # t.start => /\ t.parent[n] \in S[t.start] /\ t.parent[n] \in Keys
                           /\ n = t.left[t.parent[n]] \/ n = t.right[t.parent[n]]
<1>1. t.start \in Nodes /\ S[NULL] = {}
  BY ForestTyped DEF Forest
<1>2. t.start \in Keys /\ t.start # NULL
  BY <1>1, KeysAreNumbers DEF Nodes
<1>3. S[t.start] \subseteq Keys /\ n \in Keys /\ n \in S[n]
  BY <1>1, ForestTyped
<1>4. S[n] \subseteq S[t.start] /\ (n # t.start => t.parent[n] \in S[t.start])
  BY <1>2, <1>3 DEF Forest
<1>5. n = t.start => t.parent[n] = NULL
  BY <1>2 DEF Forest
<1>6. n # t.start => t.parent[n] \in Keys /\ t.parent[n] # NULL
  BY <1>3, <1>4, KeysAreNumbers
<1>7. n # t.start => n = t.left[t.parent[n]] \/ n = t.right[t.parent[n]]
  BY <1>3, <1>6 DEF Forest
<1> QED
  BY <1>2, <1>3, <1>4, <1>5, <1>6, <1>7

(***************************************************************************)
(* Rotations.                                                              *)
(***************************************************************************)

\* The pointers after a rotation to the left.
Turned(t, n, r) ==
  [start |-> IF t.parent[n] = NULL THEN r ELSE t.start,
   left |-> [x \in Keys |-> IF x = r THEN n
                            ELSE IF x = t.parent[n] /\ t.left[x] = n THEN r ELSE t.left[x]],
   right |-> [x \in Keys |-> IF x = n THEN t.left[r]
                             ELSE IF x = t.parent[n] /\ t.left[x] # n THEN r ELSE t.right[x]],
   parent |-> [x \in Keys |-> IF x = n THEN r ELSE IF x = r THEN t.parent[n]
                              ELSE IF x = t.left[r] THEN n ELSE t.parent[x]]]

\* What _start_rotate() leaves, pointer by pointer.
LEMMA StartRotateIs ==
  ASSUME NEW t \in Trees, NEW n \in Keys, NEW r \in Keys, n # r, t.parent[n] \notin {n, r}
  PROVE  LET s == StartRotate(t, n, r)  p == t.parent[n] IN
         /\ s \in Trees
         /\ s.start = IF p = NULL THEN r ELSE t.start
         /\ s.left = [x \in Keys |-> IF x = p /\ t.left[x] = n THEN r ELSE t.left[x]]
         /\ s.right = [x \in Keys |-> IF x = p /\ t.left[x] # n THEN r ELSE t.right[x]]
         /\ s.parent = [x \in Keys |-> IF x = n THEN r ELSE IF x = r THEN p ELSE t.parent[x]]
<1> DEFINE p == t.parent[n]
           s == StartRotate(t, n, r)
<1>1. /\ p \in Nodes /\ NULL \notin Keys /\ n \in Nodes /\ r \in Nodes
      /\ t.start \in Nodes /\ t.left \in [Keys -> Nodes] /\ t.right \in [Keys -> Nodes]
      /\ t.parent \in [Keys -> Nodes]
  BY KeysAreNumbers DEF Trees, Nodes
<1> DEFINE l == IF p # NULL THEN ReplaceRef(t, p, n, r) ELSE [t EXCEPT !.start = r]
<1>2. /\ l \in Trees /\ l.parent = t.parent
      /\ l.start = IF p = NULL THEN r ELSE t.start
      /\ l.left = [x \in Keys |-> IF x = p /\ t.left[x] = n THEN r ELSE t.left[x]]
      /\ l.right = [x \in Keys |-> IF x = p /\ t.left[x] # n THEN r ELSE t.right[x]]
  <2>1. CASE p = NULL
    BY <1>1, <2>1 DEF Trees, Nodes
  <2>2. CASE p # NULL /\ t.left[p] = n
    BY <1>1, <2>2 DEF ReplaceRef, Trees, Nodes
  <2>3. CASE p # NULL /\ t.left[p] # n
    <3>1. l = [t EXCEPT !.right[p] = r] /\ p \in Keys
      BY <1>1, <2>3 DEF ReplaceRef, Nodes
    <3> HIDE DEF l
    <3>2. l \in Trees /\ l.parent = t.parent /\ l.start = t.start /\ l.left = t.left
      BY <1>1, <3>1 DEF Trees
    <3>3. l.right = [x \in Keys |-> IF x = p THEN r ELSE t.right[x]]
      BY <1>1, <3>1 DEF Trees
    <3> QED
      BY <1>1, <2>3, <3>2, <3>3
  <2> QED
    BY <2>1, <2>2, <2>3
<1>3. s = [UpdateParentRef(l, r, p) EXCEPT !.parent[n] = r]
  BY DEF StartRotate
<1> HIDE DEF l, s
<1>4. s = [[l EXCEPT !.parent[r] = p] EXCEPT !.parent[n] = r]
  BY <1>1, <1>3 DEF UpdateParentRef
<1>5. /\ s \in Trees /\ s.start = l.start /\ s.left = l.left /\ s.right = l.right
      /\ s.parent = [x \in Keys |-> IF x = n THEN r ELSE IF x = r THEN p ELSE t.parent[x]]
  BY <1>1, <1>2, <1>4 DEF Trees
<1> QED
  BY <1>2, <1>5 DEF s

\* A rotation to the left turns three edges.
LEMMA RotateLeftIs ==
  ASSUME NEW t \in Trees, NEW n \in Keys, NEW r \in Keys, n # r,
         t.parent[n] \notin {n, r}, t.left[r] \notin {n, r}
  PROVE  RotateLeft(t, n, r) = Turned(t, n, r) /\ Turned(t, n, r) \in Trees
<1> DEFINE p == t.parent[n]
           b == t.left[r]
           s == StartRotate(t, n, r)
           u == UpdateParentRef(s, b, n)
<1>1. /\ p \in Nodes /\ b \in Nodes /\ NULL \notin Keys /\ n \in Nodes /\ r \in Nodes
      /\ t.start \in Nodes /\ t.left \in [Keys -> Nodes] /\ t.right \in [Keys -> Nodes]
      /\ t.parent \in [Keys -> Nodes]
  BY KeysAreNumbers DEF Trees, Nodes
<1>2. /\ s \in Trees
      /\ s.start = IF p = NULL THEN r ELSE t.start
      /\ s.left = [x \in Keys |-> IF x = p /\ t.left[x] = n THEN r ELSE t.left[x]]
      /\ s.right = [x \in Keys |-> IF x = p /\ t.left[x] # n THEN r ELSE t.right[x]]
      /\ s.parent = [x \in Keys |-> IF x = n THEN r ELSE IF x = r THEN p ELSE t.parent[x]]
  BY StartRotateIs
<1>3. s.left[r] = b
  BY <1>1, <1>2
<1> HIDE DEF s
<1>4. /\ u \in Trees /\ u.start = s.start /\ u.left = s.left /\ u.right = s.right
      /\ u.parent = [x \in Keys |-> IF x = b THEN n ELSE s.parent[x]]
  <2>1. CASE b = NULL
    BY <1>1, <1>2, <2>1 DEF UpdateParentRef, Trees, Nodes
  <2>2. CASE b # NULL
    BY <1>1, <1>2, <2>2 DEF UpdateParentRef, Trees, Nodes
  <2> QED
    BY <2>1, <2>2
<1>5. RotateLeft(t, n, r) = [u EXCEPT !.right[n] = u.left[r], !.left[r] = n]
  BY <1>3 DEF RotateLeft, s
<1> HIDE DEF u
<1> DEFINE v == [u EXCEPT !.right[n] = u.left[r], !.left[r] = n]
<1>6. /\ v \in Trees /\ v.start = u.start /\ v.parent = u.parent
      /\ v.left = [x \in Keys |-> IF x = r THEN n ELSE s.left[x]]
      /\ v.right = [x \in Keys |-> IF x = n THEN b ELSE s.right[x]]
  <2>1. /\ u.left \in [Keys -> Nodes] /\ u.right \in [Keys -> Nodes] /\ u.left[r] = b
        /\ u.left = s.left /\ u.right = s.right
    BY <1>1, <1>2, <1>3, <1>4 DEF Trees
  <2>2. v.start = u.start /\ v.parent = u.parent /\ v \in Trees
    BY <1>1, <1>4, <2>1 DEF Trees
  <2>3. v.left = [u.left EXCEPT ![r] = n] /\ v.right = [u.right EXCEPT ![n] = b]
    BY <1>4, <2>1 DEF Trees
  <2> HIDE DEF v
  <2> QED
    BY <1>1, <2>1, <2>2, <2>3
<1> HIDE DEF v
<1>7. /\ v.start = Turned(t, n, r).start /\ v.left = Turned(t, n, r).left
      /\ v.right = Turned(t, n, r).right /\ v.parent = Turned(t, n, r).parent
  BY <1>1, <1>2, <1>4, <1>6 DEF Turned
<1>8. v = Turned(t, n, r)
  BY <1>6, <1>7 DEF Turned, Trees
<1> QED
  BY <1>5, <1>6, <1>8 DEF v

\* A rotation to the right is one to the left in the mirror.
LEMMA RotateRightIs ==
  ASSUME NEW t \in Trees, NEW n \in Keys, NEW r \in Keys, n # r,
         t.parent[n] \notin {n, r}, t.right[r] \notin {n, r},
         t.parent[n] # NULL => (t.left[t.parent[n]] = n <=> t.right[t.parent[n]] # n)
  PROVE  RotateRight(t, n, r) \in Trees /\ Mirror(RotateRight(t, n, r)) = Turned(Mirror(t), n, r)
<1> DEFINE p == t.parent[n]
           b == t.right[r]
           s == StartRotate(t, n, r)
           u == UpdateParentRef(s, b, n)
<1>1. /\ p \in Nodes /\ b \in Nodes /\ NULL \notin Keys /\ n \in Nodes /\ r \in Nodes
      /\ t.start \in Nodes /\ t.left \in [Keys -> Nodes] /\ t.right \in [Keys -> Nodes]
      /\ t.parent \in [Keys -> Nodes]
  BY KeysAreNumbers DEF Trees, Nodes
<1>2. /\ s \in Trees
      /\ s.start = IF p = NULL THEN r ELSE t.start
      /\ s.left = [x \in Keys |-> IF x = p /\ t.left[x] = n THEN r ELSE t.left[x]]
      /\ s.right = [x \in Keys |-> IF x = p /\ t.left[x] # n THEN r ELSE t.right[x]]
      /\ s.parent = [x \in Keys |-> IF x = n THEN r ELSE IF x = r THEN p ELSE t.parent[x]]
  BY StartRotateIs
<1>3. s.right[r] = b
  BY <1>1, <1>2
<1> HIDE DEF s
<1>4. /\ u \in Trees /\ u.start = s.start /\ u.left = s.left /\ u.right = s.right
      /\ u.parent = [x \in Keys |-> IF x = b THEN n ELSE s.parent[x]]
  <2>1. CASE b = NULL
    BY <1>1, <1>2, <2>1 DEF UpdateParentRef, Trees, Nodes
  <2>2. CASE b # NULL
    BY <1>1, <1>2, <2>2 DEF UpdateParentRef, Trees, Nodes
  <2> QED
    BY <2>1, <2>2
<1>5. RotateRight(t, n, r) = [u EXCEPT !.left[n] = u.right[r], !.right[r] = n]
  BY <1>3 DEF RotateRight, s
<1> HIDE DEF u
<1> DEFINE v == [u EXCEPT !.left[n] = u.right[r], !.right[r] = n]
<1>6. /\ v \in Trees /\ v.start = u.start /\ v.parent = u.parent
      /\ v.right = [x \in Keys |-> IF x = r THEN n ELSE s.right[x]]
      /\ v.left = [x \in Keys |-> IF x = n THEN b ELSE s.left[x]]
  <2>1. /\ u.left \in [Keys -> Nodes] /\ u.right \in [Keys -> Nodes] /\ u.right[r] = b
        /\ u.left = s.left /\ u.right = s.right
    BY <1>1, <1>2, <1>3, <1>4 DEF Trees
  <2>2. v.start = u.start /\ v.parent = u.parent /\ v \in Trees
    BY <1>1, <1>4, <2>1 DEF Trees
  <2>3. v.right = [u.right EXCEPT ![r] = n] /\ v.left = [u.left EXCEPT ![n] = b]
    BY <1>4, <2>1 DEF Trees
  <2> HIDE DEF v
  <2> QED
    BY <1>1, <2>1, <2>2, <2>3
<1> HIDE DEF v
<1> DEFINE m == Mirror(t)
<1>7. /\ m.left = t.right /\ m.right = t.left /\ m.parent = t.parent /\ m.start = t.start
      /\ b \notin {n, r}
  BY MirrorTree
<1> HIDE DEF m, p, b
<1>8. /\ v.start = Turned(m, n, r).start /\ v.right = Turned(m, n, r).left
      /\ v.left = Turned(m, n, r).right /\ v.parent = Turned(m, n, r).parent
  <2>1. \A x \in Keys : x = p => (t.left[x] = n <=> t.right[x] # n)
    BY <1>1 DEF p
  <2>2. v.right = [x \in Keys |-> IF x = r THEN n ELSE IF x = p /\ t.right[x] = n THEN r ELSE t.right[x]]
    BY <1>2, <1>6, <2>1
  <2>3. v.left = [x \in Keys |-> IF x = n THEN b ELSE IF x = p /\ t.right[x] # n THEN r ELSE t.left[x]]
    BY <1>2, <1>6, <2>1
  <2>4. v.start = IF p = NULL THEN r ELSE t.start
    BY <1>2, <1>4, <1>6
  <2>5. v.parent = [x \in Keys |-> IF x = n THEN r ELSE IF x = r THEN p ELSE IF x = b THEN n ELSE t.parent[x]]
    BY <1>1, <1>2, <1>4, <1>6, <1>7
  <2> QED
    BY <1>7, <2>2, <2>3, <2>4, <2>5 DEF Turned, p, b
<1>9. Mirror(v) = Turned(m, n, r)
  BY <1>8 DEF Turned, Mirror
<1> QED
  BY <1>5, <1>6, <1>9 DEF v, m

\* What is below each node after a rotation to the left.
TurnedBelow(t, S, n, r) ==
  [S EXCEPT ![r] = S[n], ![n] = {n} \cup S[t.left[n]] \cup S[t.left[r]]]

\* A rotation makes a forest of a forest, with the same nodes in the tree.
LEMMA Rotated ==
  ASSUME NEW t, NEW S, NEW dir, Forest(t, S, dir), NEW n \in S[t.start],
         NEW r \in Keys, r = t.right[n]
  PROVE  LET v == RotateLeft(t, n, r)
             U == TurnedBelow(t, S, n, r)
         IN v = Turned(t, n, r) /\ Forest(v, U, dir) /\ U[v.start] = S[t.start]
<1> DEFINE v == Turned(t, n, r)
           U == TurnedBelow(t, S, n, r)
           a == t.left[n]
           b == t.left[r]
           c == t.right[r]
           p == t.parent[n]
<1>1. /\ t \in Trees /\ NULL \notin Keys /\ n \in Keys /\ r # NULL
      /\ S \in [Nodes -> SUBSET Keys] /\ S[NULL] = {}
      /\ a \in Nodes /\ b \in Nodes /\ c \in Nodes /\ p \in Nodes /\ t.start \in Nodes
      /\ n \in Nodes /\ r \in Nodes
  <2>1. n \in Keys /\ NULL \notin Keys
    BY KeysAreNumbers, Parent
  <2>2. t \in Trees /\ S \in [Nodes -> SUBSET Keys] /\ S[NULL] = {}
    BY DEF Forest
  <2>3. a \in Nodes /\ b \in Nodes /\ c \in Nodes /\ p \in Nodes /\ t.start \in Nodes
    BY <2>1, ForestTyped
  <2> HIDE DEF a, b, c, p
  <2> QED
    BY <2>1, <2>2, <2>3 DEF Nodes
<1>2. t.parent[r] = n /\ r \in S[n] /\ S[r] \subseteq S[n] /\ n \notin S[r] /\ r # n
  BY <1>1, Kin
<1>3. /\ n \notin S[a] /\ a # n /\ (a # NULL => a # r) /\ S[a] \cap S[r] = {}
      /\ r \notin S[b] /\ r \notin S[c] /\ b # r /\ c # r /\ S[b] \cap S[c] = {}
      /\ (b # NULL => b # c)
  BY <1>1, Sides
<1>4. /\ S[n] = {n} \cup S[a] \cup S[r] /\ S[r] = {r} \cup S[b] \cup S[c]
      /\ \A x \in Keys : x \in S[x]
  BY <1>1, ForestTyped DEF Forest
<1>5. /\ a \notin {n, r} /\ b \notin {n, r} /\ c \notin {n, r} /\ r \notin S[a]
      /\ n \notin S[b] /\ n \notin S[c]
  BY <1>1, <1>2, <1>3, <1>4 DEF Nodes
<1>6. p \notin {n, r}
  <2>1. p # NULL => n = t.left[p] \/ n = t.right[p]
    BY <1>1 DEF Forest
  <2> QED
    BY <1>1, <1>3, <1>5, <2>1, Sides
<1>7. RotateLeft(t, n, r) = v /\ v \in Trees
  BY <1>1, <1>2, <1>5, <1>6, RotateLeftIs
<1>8. /\ v.start = IF p = NULL THEN r ELSE t.start
      /\ \A x \in Keys : v.left[x] = IF x = r THEN n ELSE IF x = p /\ t.left[x] = n THEN r ELSE t.left[x]
      /\ \A x \in Keys : v.right[x] = IF x = n THEN b ELSE IF x = p /\ t.left[x] # n THEN r ELSE t.right[x]
      /\ \A x \in Keys : v.parent[x] = IF x = n THEN r ELSE IF x = r THEN p
                                       ELSE IF x = b THEN n ELSE t.parent[x]
  BY DEF Turned
<1>9. /\ U \in [Nodes -> SUBSET Keys] /\ U[NULL] = {} /\ U[r] = S[n]
      /\ U[n] = {n} \cup S[a] \cup S[b] /\ \A x \in Nodes : x \notin {n, r} => U[x] = S[x]
  <2>1. {n} \cup S[a] \cup S[b] \in SUBSET Keys /\ S[n] \in SUBSET Keys
    BY <1>1
  <2> HIDE DEF a, b
  <2>2. U = [S EXCEPT ![r] = S[n], ![n] = {n} \cup S[a] \cup S[b]]
    BY DEF TurnedBelow, a, b
  <2> DEFINE R == SUBSET Keys  x == S[n]  y == {n} \cup S[a] \cup S[b]
  <2>3. x \in R /\ y \in R /\ S \in [Nodes -> R] /\ U = [S EXCEPT ![r] = x, ![n] = y]
    BY <1>1, <2>1, <2>2
  <2> HIDE DEF U, R, x, y
  <2>4. U \in [Nodes -> R] /\ U[r] = x /\ U[n] = y
    BY <1>1, <1>2, <2>3
  <2>5. \A z \in Nodes : z \notin {n, r} => U[z] = S[z]
    BY <1>1, <1>2, <2>3
  <2>6. NULL \in Nodes /\ NULL \notin {n, r}
    BY <1>1 DEF Nodes
  <2>7. U[NULL] = {}
    BY <1>1, <2>5, <2>6
  <2> QED
    BY <2>4, <2>5, <2>7 DEF R, x, y
<1> HIDE DEF v, U
\* Who points where.
<1>10. /\ \A x \in Keys : t.left[x] = n \/ t.right[x] = n => x = p
       /\ \A x \in Keys : t.left[x] = r \/ t.right[x] = r => x = n
       /\ \A x \in Keys : b # NULL /\ (t.left[x] = b \/ t.right[x] = b) => x = r
       /\ p # NULL => (t.left[p] = n /\ t.right[p] # n) \/ (t.left[p] # n /\ t.right[p] = n)
  <2>1. \A x \in Keys : /\ t.left[x] # NULL => t.parent[t.left[x]] = x
                        /\ t.right[x] # NULL => t.parent[t.right[x]] = x
    BY DEF Forest
  <2>2. b # NULL => t.parent[b] = r
    BY <2>1
  <2>3. p # NULL => (t.left[p] = n \/ t.right[p] = n) /\ p \in Keys
    BY <1>1 DEF Forest, Nodes
  <2>4. p # NULL => ~(t.left[p] = n /\ t.right[p] = n)
    BY <1>1, <2>3, Sides
  <2>5. n # NULL
    BY <1>1
  <2> QED
    BY <1>1, <1>2, <2>1, <2>2, <2>3, <2>4, <2>5
<1> HIDE DEF a, b, c, p
<1>11. /\ v.left[r] = n /\ v.right[r] = c /\ v.left[n] = a /\ v.right[n] = b
  BY <1>1, <1>2, <1>6, <1>8 DEF a, b, c, p
<1>12. ASSUME NEW x \in Keys, x \notin {n, r}
       PROVE  U[v.left[x]] = S[t.left[x]] /\ U[v.right[x]] = S[t.right[x]]
  <2>1. t.left[x] \in Nodes /\ t.right[x] \in Nodes
    BY ForestTyped
  <2>2. t.left[x] # r /\ t.right[x] # r
    BY <1>10, <1>12
  <2>3. CASE x = p
    BY <1>1, <1>8, <1>9, <1>10, <1>12, <2>1, <2>2, <2>3
  <2>4. CASE x # p
    BY <1>8, <1>9, <1>10, <1>12, <2>1, <2>2, <2>4
  <2> QED
    BY <2>3, <2>4
<1>13. \A x \in Keys : U[x] = {x} \cup U[v.left[x]] \cup U[v.right[x]]
  <2> TAKE x \in Keys
  <2>1. CASE x = r
    BY <1>1, <1>3, <1>4, <1>5, <1>9, <1>11, <2>1
  <2>2. CASE x = n
    BY <1>1, <1>5, <1>9, <1>11, <2>2
  <2>3. CASE x \notin {n, r}
    <3>1. U[x] = S[x] /\ S[x] = {x} \cup S[t.left[x]] \cup S[t.right[x]]
      BY <1>9, <2>3 DEF Forest, Nodes
    <3> QED
      BY <1>12, <2>3, <3>1
  <2> QED
    BY <2>1, <2>2, <2>3
<1>14. \A x \in Keys : /\ \A k \in U[v.left[x]] : Before(dir, k, x)
                       /\ \A k \in U[v.right[x]] : Before(dir, x, k)
  <2> TAKE x \in Keys
  <2>1. \A i, j, k \in Keys : Before(dir, i, j) /\ Before(dir, j, k) => Before(dir, i, k)
    BY KeysAreNumbers DEF Before
  <2>2. \A y \in Keys : /\ \A k \in S[t.left[y]] : Before(dir, k, y)
                        /\ \A k \in S[t.right[y]] : Before(dir, y, k)
    BY DEF Forest
  <2>3. S[a] \subseteq Keys /\ S[b] \subseteq Keys /\ S[c] \subseteq Keys
    BY <1>1
  <2>4. /\ \A k \in S[a] : Before(dir, k, n)
        /\ \A k \in S[b] : Before(dir, k, r) /\ Before(dir, n, k)
        /\ \A k \in S[c] : Before(dir, r, k)
        /\ Before(dir, n, r)
    BY <1>1, <1>4, <2>2 DEF a, b, c
  <2>5. CASE x = r
    <3>1. \A k \in U[n] : Before(dir, k, r)
      BY <1>1, <1>9, <2>1, <2>3, <2>4
    <3>2. U[c] = S[c]
      BY <1>1, <1>5, <1>9
    <3> QED
      BY <1>11, <2>4, <2>5, <3>1, <3>2
  <2>6. CASE x = n
    <3>1. U[a] = S[a] /\ U[b] = S[b]
      BY <1>1, <1>5, <1>9
    <3> QED
      BY <1>11, <2>4, <2>6, <3>1
  <2>7. CASE x \notin {n, r}
    BY <1>12, <2>2, <2>7
  <2> QED
    BY <2>5, <2>6, <2>7
<1>15. \A x \in Keys : /\ v.left[x] # NULL => v.parent[v.left[x]] = x
                       /\ v.right[x] # NULL => v.parent[v.right[x]] = x
  <2> TAKE x \in Keys
  <2>1. \A y \in Keys : /\ t.left[y] \in Nodes /\ t.right[y] \in Nodes
                        /\ t.left[y] # NULL => t.parent[t.left[y]] = y
                        /\ t.right[y] # NULL => t.parent[t.right[y]] = y
    BY ForestTyped DEF Forest
  <2>2. \A y \in Nodes : y # NULL => y \in Keys
    BY DEF Nodes
  <2>3. CASE x = r
    <3>1. v.parent[n] = r
      BY <1>1, <1>8
    <3>2. c # NULL => c # b /\ c \in Keys /\ t.parent[c] = r
      BY <1>1, <1>3, <2>1, <2>2 DEF c
    <3>3. c # NULL => v.parent[c] = r
      BY <1>5, <1>8, <3>2
    <3> QED
      BY <1>11, <2>3, <3>1, <3>3
  <2>4. CASE x = n
    <3>1. b # NULL => v.parent[b] = n
      BY <1>1, <1>5, <1>8, <2>2
    <3>2. a # NULL => a \in Keys /\ t.parent[a] = n /\ a # b
      BY <1>1, <1>2, <1>10, <2>1, <2>2 DEF a
    <3>3. a # NULL => v.parent[a] = n
      BY <1>5, <1>8, <3>2
    <3> QED
      BY <1>11, <2>4, <3>1, <3>3
  <2>5. CASE x \notin {n, r}
    <3>1. ASSUME NEW y \in Nodes, y # NULL, y = t.left[x] \/ y = t.right[x], y # n
          PROVE  v.parent[y] = x
      BY <1>8, <1>10, <2>1, <2>2, <2>5, <3>1
    <3>2. v.parent[r] = p
      BY <1>1, <1>2, <1>8
    <3>3. CASE x = p
      BY <1>1, <1>8, <1>10, <2>1, <2>5, <3>1, <3>2, <3>3
    <3>4. CASE x # p
      BY <1>8, <1>10, <2>1, <2>5, <3>1, <3>4
    <3> QED
      BY <3>3, <3>4
  <2> QED
    BY <2>3, <2>4, <2>5
<1>16. \A x \in Keys : v.parent[x] # NULL =>
         v.left[v.parent[x]] = x \/ v.right[v.parent[x]] = x
  <2> TAKE x \in Keys
  <2>1. CASE x = n
    BY <1>8, <1>11, <2>1
  <2>2. CASE x = r
    BY <1>1, <1>2, <1>6, <1>8, <1>10, <2>2 DEF Nodes
  <2>3. CASE x \notin {n, r} /\ x = b
    BY <1>8, <1>11, <2>3
  <2>4. CASE x \notin {n, r} /\ x # b
    <3> SUFFICES ASSUME t.parent[x] # NULL
                 PROVE  v.left[t.parent[x]] = x \/ v.right[t.parent[x]] = x
      BY <1>8, <2>4
    <3> DEFINE q == t.parent[x]
    <3>1. q \in Keys /\ (t.left[q] = x \/ t.right[q] = x)
      <4>1. q \in Nodes
        BY ForestTyped
      <4> QED
        BY <4>1 DEF Forest, Nodes
    <3>2. t.left[q] = x => q # r
      BY <2>4 DEF b
    <3>3. t.right[q] = x => q # n
      BY <1>1, <2>4
    <3> HIDE DEF q
    <3>4. CASE t.left[q] = x
      BY <1>8, <2>4, <3>1, <3>2, <3>4 DEF q
    <3>5. CASE t.right[q] = x
      BY <1>8, <1>10, <2>4, <3>1, <3>3, <3>5 DEF q
    <3> QED
      BY <3>1, <3>4, <3>5 DEF q
  <2> QED
    BY <2>1, <2>2, <2>3, <2>4
<1>17. \A y \in Keys : \A x \in S[y] : S[x] \subseteq S[y] /\ (x # y => t.parent[x] \in S[y])
  BY DEF Forest
<1>18. \A x \in Keys : \A y \in U[x] : U[y] \subseteq U[x] /\ (y # x => v.parent[y] \in U[x])
  <2> TAKE x \in Keys
  <2> TAKE y \in U[x]
  <2>1. y \in Keys /\ U[n] \subseteq S[n]
    <3>1. U[x] \subseteq Keys
      BY <1>9 DEF Nodes
    <3>2. U[n] \subseteq S[n]
      BY <1>4, <1>9
    <3> QED
      BY <3>1, <3>2
  <2>2. CASE x = r
    <3>1. y \in S[n] /\ U[x] = S[n]
      BY <1>9, <2>2
    <3>2. U[y] \subseteq S[n]
      BY <1>1, <1>9, <1>17, <2>1, <3>1 DEF Nodes
    <3>3. y # x => v.parent[y] \in S[n]
      BY <1>1, <1>2, <1>4, <1>8, <1>17, <2>1, <2>2, <3>1
    <3> QED
      BY <3>1, <3>2, <3>3
  <2>3. CASE x = n
    <3>1. CASE y = n
      BY <2>3, <3>1
    <3>2. CASE y \in S[a]
      <4>1. a \in Keys /\ y \notin {n, r} /\ y # b /\ U[x] = {n} \cup S[a] \cup S[b]
        BY <1>1, <1>3, <1>4, <1>5, <1>9, <2>1, <2>3, <3>2 DEF Nodes
      <4>2. U[y] = S[y] /\ v.parent[y] = t.parent[y]
        BY <1>8, <1>9, <2>1, <4>1 DEF Nodes
      <4>3. S[y] \subseteq S[a] /\ (y # a => t.parent[y] \in S[a]) /\ t.parent[a] = n
        BY <1>1, <1>17, <3>2, <4>1 DEF a, Forest
      <4> QED
        BY <4>1, <4>2, <4>3
    <3>3. CASE y \in S[b]
      <4>1. b \in Keys /\ y \notin {n, r} /\ U[x] = {n} \cup S[a] \cup S[b]
        BY <1>1, <1>3, <1>5, <1>9, <2>3, <3>3 DEF Nodes
      <4>2. U[y] = S[y] /\ v.parent[y] = IF y = b THEN n ELSE t.parent[y]
        BY <1>8, <1>9, <2>1, <4>1 DEF Nodes
      <4>3. S[y] \subseteq S[b] /\ (y # b => t.parent[y] \in S[b])
        BY <1>17, <3>3, <4>1
      <4> QED
        BY <4>1, <4>2, <4>3
    <3> QED
      BY <1>9, <2>3, <3>1, <3>2, <3>3
  <2>4. CASE x \notin {n, r}
    <3>1. U[x] = S[x] /\ y \in S[x]
      BY <1>9, <2>4 DEF Nodes
    <3>2. r \in S[x] => n \in S[x]
      BY <1>2, <1>17, <2>4
    <3>3. n \in S[x] => r \in S[x] /\ S[n] \subseteq S[x] /\ p \in S[x]
      BY <1>2, <1>17, <2>4 DEF p
    <3>4. b \in S[x] /\ b # x /\ b \in Keys => r \in S[x]
      BY <1>1, <1>17 DEF b, Forest
    <3>5. U[y] \subseteq U[x]
      BY <1>9, <1>17, <2>1, <3>1, <3>2, <3>3 DEF Nodes
    <3>6. y # x => v.parent[y] \in U[x]
      BY <1>8, <1>17, <2>1, <3>1, <3>2, <3>3, <3>4
    <3> QED
      BY <3>5, <3>6
  <2> QED
    BY <2>2, <2>3, <2>4
<1>19. n = t.start <=> p = NULL
  BY <1>1, Parent DEF p
<1>20. U[v.start] = S[t.start]
  BY <1>1, <1>2, <1>8, <1>9, <1>19, Parent DEF Forest
<1>21. v.start # NULL => v.parent[v.start] = NULL
  <2>1. CASE p = NULL
    BY <1>1, <1>2, <1>8, <2>1
  <2>2. CASE p # NULL
    <3>1. v.start = t.start /\ t.start \in Keys /\ t.parent[t.start] = NULL
      BY <1>8, <2>2, Parent DEF Forest
    <3>2. t.start \notin {n, r} /\ t.start # b
      BY <1>1, <1>2, <1>10, <1>19, <2>2, <3>1 DEF b, Forest
    <3> QED
      BY <1>8, <3>1, <3>2
  <2> QED
    BY <2>1, <2>2
<1>22. \A x \in Keys \ U[v.start] : v.left[x] = NULL /\ v.right[x] = NULL /\ v.parent[x] = NULL
  <2> TAKE x \in Keys \ U[v.start]
  <2>1. x \notin S[t.start] /\ t.left[x] = NULL /\ t.right[x] = NULL /\ t.parent[x] = NULL
    BY <1>20 DEF Forest
  <2>2. x \notin {n, r} /\ S[n] \subseteq S[t.start]
    BY <1>2, <2>1, Parent
  <2>3. x # b
    BY <1>2, <1>4, <2>1, <2>2
  <2>4. x # p
    BY <1>1, <1>19, <2>1, Parent DEF p
  <2> QED
    BY <1>8, <2>1, <2>2, <2>3, <2>4
<1>23. Forest(v, U, dir)
  BY <1>7, <1>9, <1>13, <1>14, <1>15, <1>16, <1>18, <1>21, <1>22 DEF Forest
<1> QED
  BY <1>7, <1>20, <1>23 DEF v, U

\* The pointers to children after a rotation to the left.
LEMMA RotatedPointers ==
  ASSUME NEW t, NEW S, NEW dir, Forest(t, S, dir), NEW n \in S[t.start],
         NEW r \in Keys, r = t.right[n]
  PROVE  LET v == RotateLeft(t, n, r) IN
         /\ v.left[r] = n /\ v.right[r] = t.right[r]
         /\ v.left[n] = t.left[n] /\ v.right[n] = t.left[r]
         /\ \A x \in Keys : x \notin {n, r} =>
              /\ v.left[x] = IF t.left[x] = n THEN r ELSE t.left[x]
              /\ v.right[x] = IF t.right[x] = n THEN r ELSE t.right[x]
<1> DEFINE v == RotateLeft(t, n, r)
           p == t.parent[n]
<1>1. v = Turned(t, n, r)
  BY Rotated
<1> HIDE DEF v
<1>2. /\ \A x \in Keys : v.left[x] = IF x = r THEN n ELSE IF x = p /\ t.left[x] = n THEN r ELSE t.left[x]
      /\ \A x \in Keys : v.right[x] = IF x = n THEN t.left[r]
                                      ELSE IF x = p /\ t.left[x] # n THEN r ELSE t.right[x]
  BY <1>1 DEF Turned
<1>3. n \in Keys /\ n # NULL /\ r # n
  BY KeysAreNumbers, Parent, Kin
<1>4. \A x \in Keys : t.left[x] = n \/ t.right[x] = n => x = p
  BY <1>3 DEF Forest
<1>5. p # NULL => p \in Keys /\ (t.left[p] = n \/ t.right[p] = n)
  <2>1. p \in Nodes
    BY <1>3, ForestTyped
  <2> QED
    BY <1>3, <2>1 DEF Forest, Nodes
<1>6. \A x \in Keys : x = p => (t.left[x] = n <=> t.right[x] # n)
  <2> TAKE x \in Keys
  <2>1. ~(t.left[x] = n /\ t.right[x] = n)
    BY <1>3, Sides
  <2> QED
    BY <1>3, <1>5, <2>1, KeysAreNumbers
<1>7. p # n /\ p # r
  <2>1. r # n /\ t.left[r] # n /\ t.right[r] # n
    <3>1. n \notin S[r] /\ \A x \in Keys : x \in S[x]
      BY <1>3, Kin, ForestTyped
    <3>2. S[r] = {r} \cup S[t.left[r]] \cup S[t.right[r]]
      BY DEF Forest
    <3> QED
      BY <1>3, <3>1, <3>2
  <2> QED
    BY <1>3, <1>5, <2>1, Sides, KeysAreNumbers
<1> HIDE DEF p
<1> QED
  BY <1>2, <1>3, <1>4, <1>6, <1>7 DEF v

\* A rotation to the right is one to the left of the mirror image.
LEMMA RotatedRight ==
  ASSUME NEW t, NEW S, NEW dir, Forest(t, S, dir), NEW n \in S[t.start],
         NEW l \in Keys, l = t.left[n]
  PROVE  LET v == RotateRight(t, n, l)
             U == TurnedBelow(Mirror(t), S, n, l)
         IN /\ Mirror(v) = RotateLeft(Mirror(t), n, l)
            /\ Forest(v, U, dir) /\ U[v.start] = S[t.start]
            /\ v.right[l] = n /\ v.left[l] = t.left[l]
            /\ v.right[n] = t.right[n] /\ v.left[n] = t.right[l]
            /\ \A x \in Keys : x \notin {n, l} =>
                 /\ v.left[x] = IF t.left[x] = n THEN l ELSE t.left[x]
                 /\ v.right[x] = IF t.right[x] = n THEN l ELSE t.right[x]
<1> DEFINE v == RotateRight(t, n, l)
           m == Mirror(t)
           U == TurnedBelow(m, S, n, l)
           w == RotateLeft(m, n, l)
<1>1. t \in Trees
  BY DEF Forest
<1>2. /\ m.start = t.start /\ m.parent = t.parent /\ m.left = t.right /\ m.right = t.left
      /\ m \in Trees
  BY <1>1, MirrorTree
<1>3. PICK rev : dir = 1 <=> rev # 1
  <2>1. dir = 1 <=> (IF dir = 1 THEN 0 ELSE 1) # 1
    OBVIOUS
  <2> QED
    BY <2>1
<1>4. Forest(m, S, rev)
  BY <1>3, MirrorForest
<1> HIDE DEF m
<1>5. n \in S[m.start] /\ l = m.right[n]
  BY <1>2
<1>6. w = Turned(m, n, l) /\ Forest(w, U, rev) /\ U[w.start] = S[t.start]
  BY <1>2, <1>4, <1>5, Rotated
<1>7. /\ w.left[l] = n /\ w.right[l] = m.right[l]
      /\ w.left[n] = m.left[n] /\ w.right[n] = m.left[l]
      /\ \A x \in Keys : x \notin {n, l} =>
           /\ w.left[x] = IF m.left[x] = n THEN l ELSE m.left[x]
           /\ w.right[x] = IF m.right[x] = n THEN l ELSE m.right[x]
  BY <1>4, <1>5, RotatedPointers
<1>8. v \in Trees /\ Mirror(v) = w
  <2>1. n \in Keys /\ n # NULL /\ l # n /\ t.parent[l] = n /\ n \notin S[l]
    BY KeysAreNumbers, Parent, Kin
  <2>2. t.parent[n] # NULL => /\ t.parent[n] \in Keys
                              /\ t.left[t.parent[n]] = n \/ t.right[t.parent[n]] = n
    <3>1. t.parent[n] \in Nodes
      BY <2>1, ForestTyped
    <3> QED
      BY <2>1, <3>1 DEF Forest, Nodes
  <2>3. t.parent[n] # NULL => (t.left[t.parent[n]] = n <=> t.right[t.parent[n]] # n)
    <3>1. ASSUME t.parent[n] # NULL
          PROVE  ~(t.left[t.parent[n]] = n /\ t.right[t.parent[n]] = n)
      BY <2>1, <2>2, <3>1, Sides
    <3> QED
      BY <2>2, <3>1
  <2>4. S[l] = {l} \cup S[t.left[l]] \cup S[t.right[l]] /\ n \in S[n]
    BY <2>1, ForestTyped DEF Forest
  <2>5. t.left[l] # n /\ t.right[l] \notin {n, l}
    BY <2>1, <2>4, Sides
  <2>6. t.parent[n] \notin {n, l}
    <3>1. t.parent[n] # l
      BY <2>1, <2>2, <2>5, KeysAreNumbers
    <3>2. t.parent[n] # n
      BY <2>1, <2>2, Sides
    <3> QED
      BY <3>1, <3>2
  <2> QED
    BY <1>1, <1>6, <2>1, <2>3, <2>5, <2>6, RotateRightIs DEF m
<1> HIDE DEF v, w, U
<1>9. v.start = w.start /\ v.parent = w.parent /\ v.left = w.right /\ v.right = w.left /\ Mirror(w) = v
  BY <1>8, MirrorTree
<1>10. Forest(v, U, dir)
  <2>1. Forest(Mirror(w), U, dir)
    BY <1>3, <1>6, MirrorForest
  <2> QED
    BY <1>9, <2>1
<1> QED
  BY <1>2, <1>6, <1>7, <1>8, <1>9, <1>10, SMTT(30) DEF v, w, U, m

(***************************************************************************)
(* Heights.                                                                *)
(***************************************************************************)

Larger(a, b) == IF a > b THEN a ELSE b

\* The height of x as the nodes above it know it: that of c grew by one.
Count(H, c, x) == IF x = c /\ x # NULL THEN H[x] - 1 ELSE H[x]

\* H gives the heights, and the tree is balanced, but for the growth of c.
Level(t, H, c) ==
  /\ H \in [Nodes -> Nat] /\ H[NULL] = 0
  /\ \A k \in Keys :
       LET l == Count(H, c, t.left[k])
           r == Count(H, c, t.right[k])
       IN H[k] = 1 + Larger(l, r) /\ l <= r + 1 /\ r <= l + 1

\* The tree v holds the keys T and is balanced.
Levelled(v, dir, T) ==
  \E U, G : Forest(v, U, dir) /\ U[v.start] = T /\ Level(v, G, NULL)

\* A tree is levelled by the heights its nodes have.
LEMMA LevelIs ==
  ASSUME NEW t, NEW H \in [Nodes -> Nat], H[NULL] = 0,
         \A k \in Keys : /\ H[k] = 1 + Larger(H[t.left[k]], H[t.right[k]])
                         /\ H[t.left[k]] <= H[t.right[k]] + 1
                         /\ H[t.right[k]] <= H[t.left[k]] + 1
  PROVE  Level(t, H, NULL)
  BY DEF Level, Count

\* Both cases of a right-heavy node.
LEMMA FixedRight ==
  ASSUME NEW t, NEW S, NEW dir, Forest(t, S, dir), NEW n \in S[t.start],
         NEW c \in Keys, c = t.right[n], NEW H, Level(t, H, c), H[c] > H[t.left[n]] + 1,
         NEW b, b < 0 <=> H[t.right[c]] < H[t.left[c]],
         H[t.left[c]] = H[t.right[c]] => H[c] = 1
  PROVE  Levelled(FixRight(t, n, b), dir, S[t.start])
<1> DEFINE a == t.left[n]  x == t.left[c]  y == t.right[c]
<1>1. /\ n \in Keys /\ n # NULL /\ c # NULL /\ c # n /\ a \in Nodes /\ x \in Nodes /\ y \in Nodes
      /\ NULL \in Nodes /\ n \in Nodes /\ c \in Nodes
      /\ \A k \in Keys : t.left[k] \in Nodes /\ t.right[k] \in Nodes
  <2>1. n \in Keys /\ NULL \notin Keys
    BY KeysAreNumbers, Parent
  <2>2. c # n
    BY <2>1, Sides
  <2>3. \A k \in Keys : t.left[k] \in Nodes /\ t.right[k] \in Nodes
    BY ForestTyped
  <2> QED
    BY <2>1, <2>2, <2>3 DEF Nodes
<1>2. /\ a # c /\ a # n /\ x \notin {n, c} /\ y \notin {n, c}
      /\ \A k \in Keys : t.left[k] = c \/ t.right[k] = c => k = n
      /\ \A k \in Keys : t.left[k] # k /\ t.right[k] # k
  <2>1. \A k \in Keys : t.left[k] = c \/ t.right[k] = c => k = n
    BY <1>1 DEF Forest
  <2>2. a # c /\ a # n /\ \A k \in Keys : t.left[k] # k /\ t.right[k] # k
    BY <1>1, Sides
  <2>3. n \notin S[c]
    BY <1>1, Kin
  <2>4. S[c] = {c} \cup S[x] \cup S[y]
    BY DEF Forest
  <2>5. n \in S[n]
    BY <1>1, ForestTyped
  <2> QED
    BY <1>1, <2>1, <2>2, <2>3, <2>4, <2>5
<1>3. /\ H \in [Nodes -> Nat] /\ H[NULL] = 0
      /\ \A k \in Keys : k # n =>
           /\ H[k] = 1 + Larger(H[t.left[k]], H[t.right[k]])
           /\ H[t.left[k]] <= H[t.right[k]] + 1 /\ H[t.right[k]] <= H[t.left[k]] + 1
  BY <1>2 DEF Level, Count
<1>4. H[n] = 1 + Larger(H[a], H[c] - 1) /\ H[c] <= H[a] + 2
  <2>1. Count(H, c, a) = H[a] /\ Count(H, c, c) = H[c] - 1
    BY <1>1, <1>2 DEF Count
  <2>2. /\ H[n] = 1 + Larger(Count(H, c, a), Count(H, c, c))
        /\ Count(H, c, c) <= Count(H, c, a) + 1
    BY <1>1 DEF Level
  <2>3. H[a] \in Nat /\ H[c] \in Nat
    BY <1>1, <1>3
  <2> QED
    BY <2>1, <2>2, <2>3
<1>5. /\ H[a] \in Nat /\ H[x] \in Nat /\ H[y] \in Nat /\ H[c] = H[a] + 2 /\ H[n] = H[a] + 2
      /\ H[c] = 1 + Larger(H[x], H[y]) /\ H[x] <= H[y] + 1 /\ H[y] <= H[x] + 1
      /\ H[x] # H[y]
  <2>1. H[a] \in Nat /\ H[x] \in Nat /\ H[y] \in Nat /\ H[c] \in Nat
    BY <1>1, <1>3
  <2>2. H[c] = H[a] + 2
    BY <1>4, <2>1
  <2>3. H[x] # H[y]
    BY <2>1, <2>2
  <2> QED
    BY <1>1, <1>3, <1>4, <2>1, <2>2, <2>3 DEF Larger
<1> HIDE DEF a, x, y
\* Right/right: the right child becomes the top.
<1>6. ASSUME ~(b < 0) PROVE Levelled(FixRight(t, n, b), dir, S[t.start])
  <2> DEFINE v == RotateLeft(t, n, c)
             h == H[a]
             G == [H EXCEPT ![n] = h + 1, ![c] = h + 2]
  <2>1. FixRight(t, n, b) = v
    BY <1>6 DEF FixRight
  <2>2. /\ v.left[c] = n /\ v.right[c] = y /\ v.left[n] = a /\ v.right[n] = x
        /\ \A k \in Keys : k \notin {n, c} =>
             /\ v.left[k] = IF t.left[k] = n THEN c ELSE t.left[k]
             /\ v.right[k] = IF t.right[k] = n THEN c ELSE t.right[k]
    BY RotatedPointers DEF a, x, y
  <2>3. Forest(v, TurnedBelow(t, S, n, c), dir) /\ TurnedBelow(t, S, n, c)[v.start] = S[t.start]
    BY Rotated
  <2> HIDE DEF v
  <2>4. H[y] = h + 1 /\ H[x] = h
    BY <1>5, <1>6 DEF Larger, x, y
  <2>5. /\ G \in [Nodes -> Nat] /\ G[n] = h + 1 /\ G[c] = h + 2
        /\ \A k \in Nodes : k \notin {n, c} => G[k] = H[k]
    BY <1>1, <1>3, <1>5
  <2> HIDE DEF G
  <2>6. /\ G[a] = h /\ G[x] = h /\ G[y] = h + 1 /\ G[NULL] = 0
    BY <1>1, <1>2, <1>3, <2>4, <2>5
  <2>7. ASSUME NEW k \in Keys
        PROVE  /\ G[k] = 1 + Larger(G[v.left[k]], G[v.right[k]])
               /\ G[v.left[k]] <= G[v.right[k]] + 1
               /\ G[v.right[k]] <= G[v.left[k]] + 1
    <3>1. CASE k = n
      BY <1>5, <2>2, <2>5, <2>6, <3>1 DEF Larger
    <3>2. CASE k = c
      BY <1>5, <2>2, <2>5, <2>6, <3>2 DEF Larger
    <3>3. CASE k \notin {n, c}
      <4>1. G[v.left[k]] = H[t.left[k]] /\ G[v.right[k]] = H[t.right[k]] /\ G[k] = H[k]
        BY <1>1, <1>2, <1>5, <2>2, <2>5, <3>3 DEF Nodes
      <4> QED
        BY <1>3, <3>3, <4>1
    <3> QED
      BY <3>1, <3>2, <3>3
  <2>8. Level(v, G, NULL)
    BY <2>5, <2>6, <2>7, LevelIs
  <2> QED
    BY <2>1, <2>3, <2>8 DEF Levelled
\* Right/left: the left child of the right child does.
<1>7. ASSUME b < 0 PROVE Levelled(FixRight(t, n, b), dir, S[t.start])
  <2> DEFINE s == RotateRight(t, c, x)
             R == TurnedBelow(Mirror(t), S, c, x)
             v == RotateLeft(s, n, x)
             h == H[a]
             G == [H EXCEPT ![n] = h + 1, ![c] = h + 1, ![x] = h + 2]
             i == t.left[x]  j == t.right[x]
  <2>1. H[x] = h + 1 /\ H[y] = h
    BY <1>5, <1>7 DEF Larger, x, y
  <2>2. x \in Keys /\ x # NULL /\ c \in S[t.start]
    <3>1. x # NULL
      BY <1>3, <1>5, <2>1
    <3>2. c \in S[n] /\ S[n] \subseteq S[t.start]
      BY <1>1, Kin, Parent
    <3> QED
      BY <1>1, <3>1, <3>2 DEF Nodes
  <2>3. /\ Forest(s, R, dir) /\ R[s.start] = S[t.start]
        /\ s.right[x] = c /\ s.left[x] = i /\ s.right[c] = y /\ s.left[c] = j
        /\ \A k \in Keys : k \notin {c, x} =>
             /\ s.left[k] = IF t.left[k] = c THEN x ELSE t.left[k]
             /\ s.right[k] = IF t.right[k] = c THEN x ELSE t.right[k]
    <3>1. x = t.left[c] /\ y = t.right[c] /\ x \in Keys /\ c \in S[t.start]
      BY <2>2 DEF x, y
    <3>2. Forest(s, R, dir) /\ R[s.start] = S[t.start]
      BY <3>1, RotatedRight, SMTT(30)
    <3>3. s.right[x] = c /\ s.left[x] = i /\ s.right[c] = y /\ s.left[c] = j
      BY <3>1, RotatedRight, SMTT(30)
    <3>4. \A k \in Keys : k \notin {c, x} =>
            /\ s.left[k] = IF t.left[k] = c THEN x ELSE t.left[k]
            /\ s.right[k] = IF t.right[k] = c THEN x ELSE t.right[k]
      BY <3>1, RotatedRight, SMTT(30)
    <3> QED
      BY <3>2, <3>3, <3>4
  <2>4. FixRight(t, n, b) = RotateLeft(s, n, s.right[n])
    BY <1>7 DEF FixRight, x
  <2> HIDE DEF s, R
  <2>5. s.right[n] = x /\ s.left[n] = a /\ n \in S[t.start]
    BY <1>1, <1>2, <2>3 DEF a
  <2>6. /\ v.left[x] = n /\ v.right[x] = c /\ v.left[n] = a /\ v.right[n] = i
        /\ \A k \in Keys : k \notin {n, x} =>
             /\ v.left[k] = IF s.left[k] = n THEN x ELSE s.left[k]
             /\ v.right[k] = IF s.right[k] = n THEN x ELSE s.right[k]
    BY <2>2, <2>3, <2>5, RotatedPointers
  <2>7. Forest(v, TurnedBelow(s, R, n, x), dir) /\ TurnedBelow(s, R, n, x)[v.start] = S[t.start]
    BY <2>2, <2>3, <2>5, Rotated
  <2> HIDE DEF v
  <2>8. /\ i \in Nodes /\ j \in Nodes /\ i \notin {n, c, x} /\ j \notin {n, c, x}
        /\ \A k \in Keys : t.left[k] = x \/ t.right[k] = x => k = c
        /\ a # x /\ y # x
    <3>1. \A k \in Keys : t.left[k] = x \/ t.right[k] = x => k = c
      BY <1>1, <2>2 DEF Forest, x
    <3>2. n \notin S[c] /\ c \notin S[x] /\ S[x] \subseteq S[c] /\ c \in S[c] /\ n \in S[n]
      BY <1>1, <2>2, Kin, ForestTyped DEF x
    <3>3. S[x] = {x} \cup S[i] \cup S[j]
      BY <2>2 DEF Forest
    <3>4. i # x /\ j # x /\ i \in Nodes /\ j \in Nodes
      BY <1>1, <1>2, <2>2
    <3>5. a # x
      BY <1>1, <1>2, <2>2, <3>1 DEF a
    <3>6. y # x
      BY <2>2, Sides DEF x, y
    <3> QED
      BY <3>1, <3>2, <3>3, <3>4, <3>5, <3>6
  <2>9. v.left[c] = j /\ v.right[c] = y
    BY <1>1, <1>2, <2>2, <2>3, <2>6, <2>8
  <2>10. \A k \in Keys : k \notin {n, c, x} =>
             /\ v.left[k] = IF t.left[k] = n THEN x ELSE t.left[k]
             /\ v.right[k] = IF t.right[k] = n THEN x ELSE t.right[k]
    BY <1>2, <2>3, <2>6
  <2>11. /\ H[i] \in Nat /\ H[j] \in Nat
         /\ h + 1 = 1 + Larger(H[i], H[j]) /\ H[i] <= H[j] + 1 /\ H[j] <= H[i] + 1
    BY <1>2, <1>3, <2>1, <2>2, <2>8
  <2>12. /\ G \in [Nodes -> Nat] /\ G[n] = h + 1 /\ G[c] = h + 1 /\ G[x] = h + 2
         /\ \A k \in Nodes : k \notin {n, c, x} => G[k] = H[k]
    BY <1>1, <1>2, <1>3, <1>5, <2>2
  <2> HIDE DEF G
  <2>13. G[a] = h /\ G[i] = H[i] /\ G[j] = H[j] /\ G[y] = h /\ G[NULL] = 0
    BY <1>1, <1>2, <1>3, <2>1, <2>2, <2>8, <2>12
  <2>14. ASSUME NEW k \in Keys
         PROVE  /\ G[k] = 1 + Larger(G[v.left[k]], G[v.right[k]])
                /\ G[v.left[k]] <= G[v.right[k]] + 1
                /\ G[v.right[k]] <= G[v.left[k]] + 1
    <3>1. CASE k = n
      BY <1>5, <2>6, <2>11, <2>12, <2>13, <3>1 DEF Larger
    <3>2. CASE k = c
      BY <1>5, <2>9, <2>11, <2>12, <2>13, <3>2 DEF Larger
    <3>3. CASE k = x
      BY <1>5, <2>6, <2>12, <3>3 DEF Larger
    <3>4. CASE k \notin {n, c, x}
      <4>1. G[v.left[k]] = H[t.left[k]] /\ G[v.right[k]] = H[t.right[k]] /\ G[k] = H[k]
        BY <1>1, <1>2, <1>5, <2>8, <2>10, <2>12, <3>4 DEF Nodes
      <4> QED
        BY <1>3, <3>4, <4>1
    <3> QED
      BY <3>1, <3>2, <3>3, <3>4
  <2>15. Level(v, G, NULL)
    BY <2>12, <2>13, <2>14, LevelIs
  <2> QED
    BY <2>4, <2>5, <2>7, <2>15 DEF Levelled, v
<1> QED
  BY <1>6, <1>7

\* A levelled tree stays levelled in the mirror.
LEMMA MirrorLevelled ==
  ASSUME NEW v, NEW dir, NEW rev, dir = 1 <=> rev # 1, NEW T, Levelled(v, dir, T)
  PROVE  Levelled(Mirror(v), rev, T) /\ v \in Trees
<1>1. PICK U, G : Forest(v, U, dir) /\ U[v.start] = T /\ Level(v, G, NULL)
  BY DEF Levelled
<1>2. v \in Trees
  BY <1>1 DEF Forest
<1>3. Forest(Mirror(v), U, rev)
  BY <1>1, MirrorForest
<1>4. Level(Mirror(v), G, NULL)
  <2>1. \A k \in Keys : Count(G, NULL, v.left[k]) = G[v.left[k]] /\ Count(G, NULL, v.right[k]) = G[v.right[k]]
    BY DEF Count
  <2>2. \A k \in Keys : G[v.left[k]] \in Nat /\ G[v.right[k]] \in Nat
    BY <1>1, <1>2 DEF Level, Trees
  <2>3. /\ G \in [Nodes -> Nat] /\ G[NULL] = 0
        /\ \A k \in Keys : /\ G[k] = 1 + Larger(G[v.left[k]], G[v.right[k]])
                           /\ G[v.left[k]] <= G[v.right[k]] + 1
                           /\ G[v.right[k]] <= G[v.left[k]] + 1
    BY <1>1, <2>1 DEF Level
  <2>4. \A k \in Keys : G[k] = 1 + Larger(G[v.right[k]], G[v.left[k]])
    BY <2>2, <2>3 DEF Larger
  <2>5. Mirror(v).left = v.right /\ Mirror(v).right = v.left
    BY <1>2, MirrorTree
  <2> HIDE DEF Mirror
  <2> QED
    BY <2>3, <2>4, <2>5, LevelIs
<1> QED
  BY <1>1, <1>2, <1>3, <1>4, MirrorTree DEF Levelled

\* Both cases of a left-heavy node.
LEMMA FixedLeft ==
  ASSUME NEW t, NEW S, NEW dir, Forest(t, S, dir), NEW n \in S[t.start],
         NEW c \in Keys, c = t.left[n], NEW H, Level(t, H, c), H[c] > H[t.right[n]] + 1,
         NEW b \in Int, b > 0 <=> H[t.left[c]] < H[t.right[c]],
         H[t.left[c]] = H[t.right[c]] => H[c] = 1
  PROVE  Levelled(FixLeft(t, n, b), dir, S[t.start])
<1> DEFINE m == Mirror(t)
           x == t.right[c]
           d == -b
<1>1. /\ t \in Trees /\ m.start = t.start /\ m.left = t.right /\ m.right = t.left
      /\ Mirror(m) = t /\ m \in Trees
  BY MirrorTree DEF Forest
<1>2. PICK rev : dir = 1 <=> rev # 1
  <2>1. dir = 1 <=> (IF dir = 1 THEN 0 ELSE 1) # 1
    OBVIOUS
  <2> QED
    BY <2>1
<1>3. Forest(m, S, rev)
  BY <1>2, MirrorForest
<1>4. d < 0 <=> b > 0
  OBVIOUS
<1> HIDE DEF m, d
<1>5. Level(m, H, c)
  <2>1. \A i, j \in Int : Larger(i, j) = Larger(j, i)
    BY DEF Larger
  <2>2. \A k \in Keys : /\ Count(H, c, t.left[k]) \in Int
                        /\ Count(H, c, t.right[k]) \in Int
    <3>1. H \in [Nodes -> Nat] /\ \A k \in Keys : t.left[k] \in Nodes /\ t.right[k] \in Nodes
      BY ForestTyped DEF Level
    <3> QED
      BY <3>1 DEF Count
  <2> QED
    BY <1>1, <2>1, <2>2 DEF Level
<1>6. n \in S[m.start] /\ c = m.right[n] /\ H[c] > H[m.left[n]] + 1
  BY <1>1
<1>7. d < 0 <=> H[m.right[c]] < H[m.left[c]]
  BY <1>1, <1>4
<1>8. H[m.left[c]] = H[m.right[c]] => H[c] = 1
  BY <1>1
<1>9. Levelled(FixRight(m, n, d), rev, S[m.start])
  BY <1>3, <1>5, <1>6, <1>7, <1>8, FixedRight
<1>10. Mirror(FixRight(m, n, d)) = FixLeft(t, n, b)
  <2>1. n \in Keys /\ c # n /\ c \in S[t.start]
    <3>1. n \in Keys /\ S[n] \subseteq S[t.start]
      BY Parent
    <3> QED
      BY <3>1, Kin
  <2>2. CASE b > 0
    <3> DEFINE s == RotateLeft(t, c, x)
               z == RotateRight(m, c, x)
               w == RotateRight(s, n, x)
    <3>1. x \in Keys
      <4>1. x \in Nodes /\ t.left[c] \in Nodes
        BY ForestTyped
      <4>2. H[t.left[c]] \in Nat /\ H[x] # 0 /\ H[NULL] = 0
        BY <2>2, <4>1 DEF Level
      <4> QED
        BY <4>1, <4>2 DEF Nodes
    <3>2. /\ Forest(s, TurnedBelow(t, S, c, x), dir)
          /\ TurnedBelow(t, S, c, x)[s.start] = S[t.start]
      BY <2>1, <3>1, Rotated
    <3>3. s.left[n] = x
      <4>1. x # n
        BY <2>1, <3>1, Kin
      <4>2. t.left[n] = c => n # x /\ n # c
        BY <2>1, <4>1
      <4> QED
        BY <2>1, <3>1, <4>2, RotatedPointers
    <3>4. Mirror(z) = s /\ z \in Trees
      <4>1. c \in S[m.start] /\ x = m.left[c]
        BY <1>1, <2>1
      <4>2. Mirror(z) = RotateLeft(Mirror(m), c, x) /\ Forest(z, TurnedBelow(Mirror(m), S, c, x), rev)
        BY <1>3, <3>1, <4>1, RotatedRight
      <4> QED
        BY <1>1, <4>2 DEF Forest
    <3>5. z = Mirror(s) /\ z.right = s.left
      BY <3>4, MirrorTree
    <3>6. FixRight(m, n, d) = RotateLeft(z, n, z.right[n])
      BY <1>1, <1>4, <2>2 DEF FixRight
    <3>7. FixLeft(t, n, b) = RotateRight(s, n, s.left[n])
      BY <2>2 DEF FixLeft
    <3> HIDE DEF s, z
    <3>8. Mirror(w) = RotateLeft(Mirror(s), n, x) /\ w \in Trees
      <4>1. /\ Mirror(w) = RotateLeft(Mirror(s), n, x)
            /\ Forest(w, TurnedBelow(Mirror(s), TurnedBelow(t, S, c, x), n, x), dir)
        BY <3>1, <3>2, <3>3, RotatedRight
      <4> QED
        BY <4>1 DEF Forest
    <3> HIDE DEF w
    <3>9. w = Mirror(RotateLeft(z, n, x))
      BY <3>5, <3>8, MirrorTree
    <3> QED
      BY <3>3, <3>5, <3>6, <3>7, <3>9 DEF w
  <2>3. CASE ~(b > 0)
    <3> DEFINE w == RotateRight(t, n, c)
    <3>1. Mirror(w) = RotateLeft(m, n, c) /\ Forest(w, TurnedBelow(Mirror(t), S, n, c), dir)
      BY RotatedRight DEF m
    <3>2. FixRight(m, n, d) = RotateLeft(m, n, c)
      BY <1>1, <1>4, <2>3 DEF FixRight
    <3>3. FixLeft(t, n, b) = w
      BY <2>3 DEF FixLeft
    <3> HIDE DEF w
    <3>4. w \in Trees
      BY <3>1 DEF Forest
    <3> QED
      BY <3>1, <3>2, <3>3, <3>4, MirrorTree
  <2> QED
    BY <2>2, <2>3
<1>11. Levelled(Mirror(FixRight(m, n, d)), dir, S[m.start])
  BY <1>2, <1>9, MirrorLevelled
<1> QED
  BY <1>1, <1>10, <1>11

(***************************************************************************)
(* Sizes and depths.                                                       *)
(***************************************************************************)

\* Subtrees have sizes, which add up.
LEMMA Sizes ==
  ASSUME NEW t, NEW S, NEW dir, Forest(t, S, dir)
  PROVE  /\ \A n \in Nodes : Cardinality(S[n]) \in Nat /\ Cardinality(S[n]) <= Cardinality(Keys)
         /\ Cardinality(Keys) \in Nat /\ Cardinality(S[NULL]) = 0
         /\ \A n \in Keys : Cardinality(S[n]) = 1 + Cardinality(S[t.left[n]]) + Cardinality(S[t.right[n]])
<1>1. IsFiniteSet(Keys) /\ Cardinality(Keys) \in Nat
  BY KeysAreNumbers, FS_CardinalityType
<1>2. ASSUME NEW n \in Nodes
      PROVE  /\ IsFiniteSet(S[n]) /\ Cardinality(S[n]) \in Nat
             /\ Cardinality(S[n]) <= Cardinality(Keys)
  <2>1. S[n] \in SUBSET Keys
    BY ForestTyped
  <2>2. IsFiniteSet(S[n]) /\ Cardinality(S[n]) <= Cardinality(Keys)
    BY <1>1, <2>1, FS_Subset
  <2> QED
    BY <2>2, FS_CardinalityType
<1>3. Cardinality(S[NULL]) = 0
  BY FS_EmptySet DEF Forest
<1>4. ASSUME NEW n \in Keys
      PROVE  Cardinality(S[n]) = 1 + Cardinality(S[t.left[n]]) + Cardinality(S[t.right[n]])
  <2> DEFINE l == S[t.left[n]]  r == S[t.right[n]]
  <2>1. t.left[n] \in Nodes /\ t.right[n] \in Nodes
    BY ForestTyped
  <2>2. /\ IsFiniteSet(l) /\ Cardinality(l) \in Nat
        /\ IsFiniteSet(r) /\ Cardinality(r) \in Nat
    BY <1>2, <2>1
  <2>3. l \cap r = {} /\ n \notin l \cup r /\ S[n] = (l \cup r) \cup {n}
    BY Sides DEF Forest
  <2> HIDE DEF l, r
  <2>4. IsFiniteSet(l \cup r) /\ Cardinality(l \cup r) = Cardinality(l) + Cardinality(r)
    <3>1. /\ IsFiniteSet(l \cup r)
          /\ Cardinality(l \cup r) = Cardinality(l) + Cardinality(r) - Cardinality(l \cap r)
      BY <2>2, FS_Union
    <3>2. Cardinality(l \cap r) = 0
      BY <2>3, FS_EmptySet
    <3> QED
      BY <2>2, <3>1, <3>2
  <2>5. Cardinality((l \cup r) \cup {n}) = Cardinality(l \cup r) + 1
    BY <2>3, <2>4, FS_AddElement
  <2> QED
    BY <2>2, <2>3, <2>4, <2>5 DEF l, r
<1> QED
  BY <1>1, <1>2, <1>3, <1>4

\* The number of nodes on the way from the root of the tree it is in.
Depth(S, n) == Cardinality({a \in Keys : n \in S[a]})

\* A child is one level below its parent, the root on level 1.
LEMMA Depths ==
  ASSUME NEW t, NEW S, NEW dir, Forest(t, S, dir)
  PROVE  /\ \A n \in Keys : Depth(S, n) \in Nat
         /\ \A n, c \in Keys : c = t.left[n] \/ c = t.right[n] => Depth(S, c) = Depth(S, n) + 1
         /\ t.start # NULL => Depth(S, t.start) = 1
<1>1. ASSUME NEW n \in Keys
      PROVE  IsFiniteSet({a \in Keys : n \in S[a]}) /\ Depth(S, n) \in Nat
  <2>1. {a \in Keys : n \in S[a]} \in SUBSET Keys
    OBVIOUS
  <2>2. IsFiniteSet({a \in Keys : n \in S[a]})
    BY <2>1, KeysAreNumbers, FS_Subset
  <2> QED
    BY <2>2, FS_CardinalityType DEF Depth
<1>2. ASSUME NEW n \in Keys, NEW c \in Keys, c = t.left[n] \/ c = t.right[n]
      PROVE  Depth(S, c) = Depth(S, n) + 1
  <2> DEFINE A == {a \in Keys : n \in S[a]}  B == {a \in Keys : c \in S[a]}
  <2>1. n \notin S[c] /\ \A a \in Keys : c \in S[a] <=> n \in S[a] \/ a = c
    BY <1>2, Kin
  <2>2. B = A \cup {c} /\ c \notin A
    BY <2>1
  <2>3. IsFiniteSet(A)
    BY <1>1
  <2> HIDE DEF A, B
  <2>4. Cardinality(B) = Cardinality(A) + 1
    BY <2>2, <2>3, FS_AddElement
  <2> QED
    BY <2>4 DEF A, B, Depth
<1>3. ASSUME t.start # NULL PROVE Depth(S, t.start) = 1
  <2>1. t.start \in Keys /\ t.parent[t.start] = NULL
    <3>1. t.start \in Nodes
      BY ForestTyped
    <3>2. t.parent[t.start] = NULL
      BY <1>3 DEF Forest
    <3> QED
      BY <1>3, <3>1, <3>2 DEF Nodes
  <2>2. ASSUME NEW a \in Keys, t.start \in S[a] PROVE a = t.start
    <3>1. a # t.start => t.parent[t.start] \in S[a]
      BY <2>2 DEF Forest
    <3> QED
      BY <2>1, <3>1, ForestTyped, KeysAreNumbers DEF Nodes
  <2>3. {a \in Keys : t.start \in S[a]} = {t.start}
    BY <2>1, <2>2, ForestTyped
  <2> QED
    BY <2>3, FS_Singleton DEF Depth
<1> QED
  BY <1>1, <1>2, <1>3

(***************************************************************************)
(* Walks.                                                                  *)
(***************************************************************************)

Visits == Seq(Keys \X Int)

Visited(u, n, d) == Append(u, <<n, d>>)

Then(u, w) == u \o w

\* ws lists what is below n in order, with the depths of a walk that comes
\* from depth d; the greatest is the height of n further down.
Lists(ws, S, H, n, d) ==
  /\ ws \in Visits
  /\ \A q \in 1..Len(ws) : ws[q][1] \in S[n]
  /\ \A k \in S[n] : \E q \in 1..Len(ws) : ws[q][1] = k
  /\ \A p, q \in 1..Len(ws) : p < q => ws[p][1] < ws[q][1]
  /\ \A q \in 1..Len(ws) : ws[q][2] = d + Depth(S, ws[q][1]) - Depth(S, n) + 1
  /\ \A q \in 1..Len(ws) : ws[q][2] <= d + H[n]
  /\ n # NULL => \E q \in 1..Len(ws) : ws[q][2] = d + H[n]

\* Nothing is visited in an empty subtree.
LEMMA ListsNothing ==
  ASSUME NEW S, NEW H, NEW d, S[NULL] = {}
  PROVE  Lists(<<>>, S, H, NULL, d)
  BY EmptySeq DEF Lists, Visits

\* What is to the left of a node, the node, and what is to the right of it.
LEMMA ListsJoin ==
  ASSUME NEW t, NEW S, Forest(t, S, 1), NEW H \in [Nodes -> Nat], H[NULL] = 0, NEW n \in Keys, NEW d \in Int,
         H[n] = 1 + Larger(H[t.left[n]], H[t.right[n]]),
         NEW u, NEW w, Lists(u, S, H, t.left[n], d + 1), Lists(w, S, H, t.right[n], d + 1)
  PROVE  Visited(u, n, d + 1) \in Visits /\ Lists(Then(Visited(u, n, d + 1), w), S, H, n, d)
<1> DEFINE l == t.left[n]
           r == t.right[n]
           e == <<n, d + 1>>
           v == Append(u, e)
           z == v \o w
           i == Len(u)
           j == Len(w)
           Pair == Keys \X Int
<1>1. e \in Pair /\ e[1] = n /\ e[2] = d + 1
  OBVIOUS
<1>2. u \in Seq(Pair) /\ w \in Seq(Pair) /\ i \in Nat /\ j \in Nat
  BY LenProperties DEF Lists, Visits
<1> HIDE DEF e, Pair
<1>3. v \in Seq(Pair) /\ Len(v) = i + 1 /\ v[i + 1] = e /\ \A q \in 1..i : v[q] = u[q]
  BY <1>1, <1>2, AppendProperties
<1> HIDE DEF v
<1>4. z \in Seq(Pair) /\ Len(z) = Len(v) + j
      /\ \A q \in 1..(Len(v) + j) : z[q] = IF q <= Len(v) THEN v[q] ELSE w[q - Len(v)]
  BY <1>2, <1>3, ConcatProperties
<1> HIDE DEF z, i, j
<1>5. /\ Len(z) = i + 1 + j
      /\ \A q \in 1..i : q \in 1..Len(z) /\ z[q] = u[q]
      /\ i + 1 \in 1..Len(z) /\ z[i + 1] = e
      /\ \A q \in 1..j : i + 1 + q \in 1..Len(z) /\ z[i + 1 + q] = w[q]
  BY <1>2, <1>3, <1>4
<1>6. \A q \in 1..Len(z) : q \in 1..i \/ q = i + 1 \/ \E x \in 1..j : q = i + 1 + x
  <2> TAKE q \in 1..Len(z)
  <2>1. ASSUME ~(q <= i), q # i + 1 PROVE q - i - 1 \in 1..j /\ q = i + 1 + (q - i - 1)
    BY <1>2, <1>5, <2>1
  <2>2. q <= i => q \in 1..i
    BY <1>2
  <2> QED
    BY <2>1, <2>2
<1>7. /\ S[n] = {n} \cup S[l] \cup S[r]
      /\ \A k \in S[l] : k \in Keys /\ k < n
      /\ \A k \in S[r] : k \in Keys /\ n < k
      /\ l \in Nodes /\ r \in Nodes
  <2>1. l \in Nodes /\ r \in Nodes /\ S[l] \subseteq Keys /\ S[r] \subseteq Keys
    BY ForestTyped
  <2>2. S[n] = {n} \cup S[l] \cup S[r]
    BY DEF Forest
  <2>3. /\ \A k \in S[l] : Before(1, k, n)
        /\ \A k \in S[r] : Before(1, n, k)
    BY DEF Forest
  <2> QED
    BY <2>1, <2>2, <2>3 DEF Before
<1>8. /\ \A q \in 1..i : u[q][1] \in S[l]
      /\ \A k \in S[l] : \E q \in 1..i : u[q][1] = k
      /\ \A p, q \in 1..i : p < q => u[p][1] < u[q][1]
      /\ \A q \in 1..i : u[q][2] = d + 1 + Depth(S, u[q][1]) - Depth(S, l) + 1
      /\ \A q \in 1..i : u[q][2] <= d + 1 + H[l]
      /\ l # NULL => \E q \in 1..i : u[q][2] = d + 1 + H[l]
  BY DEF Lists, i
<1>9. /\ \A q \in 1..j : w[q][1] \in S[r]
      /\ \A k \in S[r] : \E q \in 1..j : w[q][1] = k
      /\ \A p, q \in 1..j : p < q => w[p][1] < w[q][1]
      /\ \A q \in 1..j : w[q][2] = d + 1 + Depth(S, w[q][1]) - Depth(S, r) + 1
      /\ \A q \in 1..j : w[q][2] <= d + 1 + H[r]
      /\ r # NULL => \E q \in 1..j : w[q][2] = d + 1 + H[r]
  BY DEF Lists, j
<1>10. \A q \in 1..Len(z) : z[q][1] \in S[n]
  <2> TAKE q \in 1..Len(z)
  <2>1. CASE q \in 1..i
    BY <1>5, <1>7, <1>8, <2>1
  <2>2. CASE q = i + 1
    BY <1>1, <1>5, <1>7, <2>2
  <2>3. ASSUME NEW x \in 1..j, q = i + 1 + x PROVE z[q][1] \in S[n]
    BY <1>5, <1>7, <1>9, <2>3
  <2> QED
    BY <1>6, <2>1, <2>2, <2>3
<1>11. \A k \in S[n] : \E q \in 1..Len(z) : z[q][1] = k
  <2> TAKE k \in S[n]
  <2>1. CASE k = n
    BY <1>1, <1>5, <2>1
  <2>2. CASE k \in S[l]
    <3>1. PICK q \in 1..i : u[q][1] = k
      BY <1>8, <2>2
    <3> QED
      BY <1>5, <3>1
  <2>3. CASE k \in S[r]
    <3>1. PICK q \in 1..j : w[q][1] = k
      BY <1>9, <2>3
    <3> QED
      BY <1>5, <3>1
  <2> QED
    BY <1>7, <2>1, <2>2, <2>3
<1>12. \A p, q \in 1..Len(z) : p < q => z[p][1] < z[q][1]
  <2> TAKE p, q \in 1..Len(z)
  <2> HAVE p < q
  <2>1. n \in Int /\ Keys \subseteq Int
    BY KeysAreNumbers
  <2>2. CASE p \in 1..i
    <3>1. CASE q \in 1..i
      BY <1>5, <1>8, <2>2, <3>1
    <3>2. CASE q = i + 1
      BY <1>1, <1>5, <1>7, <1>8, <2>2, <3>2
    <3>3. ASSUME NEW x \in 1..j, q = i + 1 + x PROVE z[p][1] < z[q][1]
      <4>1. z[p][1] \in S[l] /\ z[q][1] \in S[r]
        BY <1>5, <1>8, <1>9, <2>2, <3>3
      <4>2. z[p][1] < n /\ n < z[q][1] /\ z[p][1] \in Int /\ z[q][1] \in Int
        BY <1>7, <2>1, <4>1
      <4> QED
        BY <2>1, <4>2
    <3> QED
      BY <1>6, <3>1, <3>2, <3>3
  <2>3. CASE p = i + 1
    <3>1. PICK x \in 1..j : q = i + 1 + x
      BY <1>2, <1>6, <2>3
    <3> QED
      BY <1>1, <1>5, <1>7, <1>9, <2>3, <3>1
  <2>4. ASSUME NEW y \in 1..j, p = i + 1 + y PROVE z[p][1] < z[q][1]
    <3>1. PICK x \in 1..j : q = i + 1 + x
      BY <1>2, <1>6, <2>4
    <3>2. y < x
      BY <1>2, <2>4, <3>1
    <3> QED
      BY <1>5, <1>9, <2>4, <3>1, <3>2
  <2> QED
    BY <1>6, <2>2, <2>3, <2>4
<1>13. \A q \in 1..Len(z) : z[q][2] = d + Depth(S, z[q][1]) - Depth(S, n) + 1
  <2>1. /\ Depth(S, n) \in Int
        /\ \A k \in Keys : Depth(S, k) \in Int
        /\ l # NULL => Depth(S, l) = Depth(S, n) + 1
        /\ r # NULL => Depth(S, r) = Depth(S, n) + 1
    BY <1>7, Depths DEF Nodes
  <2>2. S[NULL] = {}
    BY DEF Forest
  <2> TAKE q \in 1..Len(z)
  <2>3. CASE q \in 1..i
    <3>1. z[q] = u[q] /\ u[q][1] \in S[l] /\ l # NULL
      BY <1>5, <1>8, <2>2, <2>3
    <3>2. u[q][2] = d + 1 + Depth(S, u[q][1]) - Depth(S, l) + 1 /\ u[q][1] \in Keys
      BY <1>7, <1>8, <2>3, <3>1
    <3> DEFINE a == Depth(S, u[q][1])  b == Depth(S, n)
    <3>3. a \in Int /\ b \in Int /\ u[q][2] = d + 1 + a - (b + 1) + 1
      BY <2>1, <3>1, <3>2
    <3> DEFINE y == u[q][2]
    <3>5. y = d + 1 + a - (b + 1) + 1 /\ z[q][2] = y /\ z[q][1] = u[q][1]
      BY <3>1, <3>3
    <3> HIDE DEF a, b, y
    <3>4. y = d + a - b + 1
      BY <3>3, <3>5
    <3> QED
      BY <3>4, <3>5 DEF a, b
  <2>4. CASE q = i + 1
    BY <1>1, <1>5, <2>1, <2>4
  <2>5. ASSUME NEW x \in 1..j, q = i + 1 + x
        PROVE  z[q][2] = d + Depth(S, z[q][1]) - Depth(S, n) + 1
    <3>1. z[q] = w[x] /\ w[x][1] \in S[r] /\ r # NULL
      BY <1>5, <1>9, <2>2, <2>5
    <3>2. w[x][2] = d + 1 + Depth(S, w[x][1]) - Depth(S, r) + 1 /\ w[x][1] \in Keys
      BY <1>7, <1>9, <2>5, <3>1
    <3> DEFINE a == Depth(S, w[x][1])  b == Depth(S, n)
    <3>3. a \in Int /\ b \in Int /\ w[x][2] = d + 1 + a - (b + 1) + 1
      BY <2>1, <3>1, <3>2
    <3> DEFINE y == w[x][2]
    <3>5. y = d + 1 + a - (b + 1) + 1 /\ z[q][2] = y /\ z[q][1] = w[x][1]
      BY <3>1, <3>3
    <3> HIDE DEF a, b, y
    <3>4. y = d + a - b + 1
      BY <3>3, <3>5
    <3> QED
      BY <3>4, <3>5 DEF a, b
  <2> QED
    BY <1>6, <2>3, <2>4, <2>5
<1> DEFINE f == H[l]  g == H[r]  h == H[n]
<1>14. /\ f \in Nat /\ g \in Nat /\ h \in Nat /\ h = IF f > g THEN 1 + f ELSE 1 + g
       /\ l = NULL => f = 0
       /\ r = NULL => g = 0
       /\ \A q \in 1..i : u[q][2] \in Int /\ u[q][2] <= d + 1 + f
       /\ \A q \in 1..j : w[q][2] \in Int /\ w[q][2] <= d + 1 + g
       /\ l # NULL => \E q \in 1..i : u[q][2] = d + 1 + f
       /\ r # NULL => \E q \in 1..j : w[q][2] = d + 1 + g
  <2>1. /\ \A x \in 1..i : u[x] \in Keys \X Int
        /\ \A x \in 1..j : w[x] \in Keys \X Int
    BY <1>2, ElementOfSeq DEF Pair, i, j
  <2>2. f \in Nat /\ g \in Nat /\ h \in Nat /\ (l = NULL => f = 0) /\ (r = NULL => g = 0)
    BY <1>7 DEF Nodes
  <2>3. h = IF f > g THEN 1 + f ELSE 1 + g
    BY DEF Larger, l, r
  <2> QED
    BY <1>8, <1>9, <2>1, <2>2, <2>3
<1> HIDE DEF f, g, h, l, r
<1>15. \A q \in 1..Len(z) : z[q][2] <= d + h
  <2> TAKE q \in 1..Len(z)
  <2>1. CASE q \in 1..i
    <3>1. z[q] = u[q] /\ u[q][2] \in Int /\ u[q][2] <= d + 1 + f
      BY <1>5, <1>14, <2>1
    <3>2. 1 + f <= h /\ f \in Nat /\ h \in Nat
      BY <1>14
    <3> DEFINE y == u[q][2]
    <3>3. y \in Int /\ y <= d + 1 + f /\ z[q][2] = y
      BY <3>1
    <3> HIDE DEF y
    <3>4. y <= d + h
      BY <3>2, <3>3
    <3> QED
      BY <3>3, <3>4
  <2>2. CASE q = i + 1
    BY <1>1, <1>5, <1>14, <2>2
  <2>3. ASSUME NEW x \in 1..j, q = i + 1 + x PROVE z[q][2] <= d + h
    <3>1. z[q] = w[x] /\ w[x][2] \in Int /\ w[x][2] <= d + 1 + g
      BY <1>5, <1>14, <2>3
    <3>2. 1 + g <= h /\ g \in Nat /\ h \in Nat
      BY <1>14
    <3> DEFINE y == w[x][2]
    <3>3. y \in Int /\ y <= d + 1 + g /\ z[q][2] = y
      BY <3>1
    <3> HIDE DEF y
    <3>4. y <= d + h
      BY <3>2, <3>3
    <3> QED
      BY <3>3, <3>4
  <2> QED
    BY <1>6, <2>1, <2>2, <2>3
<1>16. \E q \in 1..Len(z) : z[q][2] = d + h
  <2>1. CASE l # NULL /\ f >= g
    <3>1. PICK q \in 1..i : u[q][2] = d + 1 + f
      BY <1>14, <2>1
    <3>2. h = 1 + f
      BY <1>14, <2>1
    <3>3. z[q] = u[q] /\ q \in 1..Len(z)
      BY <1>5, <3>1
    <3>4. z[q][2] = d + h
      BY <1>14, <3>1, <3>2, <3>3
    <3> QED
      BY <3>3, <3>4
  <2>2. CASE r # NULL /\ g >= f
    <3>1. PICK q \in 1..j : w[q][2] = d + 1 + g
      BY <1>14, <2>2
    <3>2. h = 1 + g
      BY <1>14, <2>2
    <3>3. z[i + 1 + q][2] = d + h /\ i + 1 + q \in 1..Len(z)
      BY <1>5, <1>14, <3>1, <3>2
    <3> QED
      BY <3>3
  <2>3. CASE f = 0 /\ g = 0
    <3>1. h = 1
      BY <1>14, <2>3
    <3> QED
      BY <1>1, <1>5, <3>1
  <2> QED
    BY <1>14, <2>1, <2>2, <2>3
<1>17. z \in Visits /\ v \in Visits
  BY <1>3, <1>4 DEF Pair, Visits
<1>18. Lists(z, S, H, n, d)
  BY <1>10, <1>11, <1>12, <1>13, <1>15, <1>16, <1>17 DEF Lists, h
<1> QED
  BY <1>17, <1>18 DEF z, v, e, Then, Visited

\* Joining what a walk has visited.
LEMMA VisitsJoin ==
  ASSUME NEW vs \in Visits, NEW u \in Visits, NEW w \in Visits, NEW n \in Keys, NEW d \in Int
  PROVE  /\ <<>> \in Visits /\ Then(vs, u) \in Visits /\ Visited(u, n, d) \in Visits
         /\ Then(vs, <<>>) = vs
         /\ Visited(Then(vs, u), n, d) = Then(vs, Visited(u, n, d))
         /\ Then(Then(vs, u), w) = Then(vs, Then(u, w))
<1> DEFINE Pair == Keys \X Int
           e == <<n, d>>
<1>1. vs \in Seq(Pair) /\ u \in Seq(Pair) /\ w \in Seq(Pair) /\ e \in Pair
  BY DEF Visits
<1> HIDE DEF Pair, e
<1> DEFINE v == Append(u, e)
<1>2. v \in Seq(Pair) /\ v = u \o <<e>> /\ <<e>> \in Seq(Pair)
  BY <1>1, AppendProperties, AppendIsConcat
<1>3. vs \o u \in Seq(Pair)
  BY <1>1, ConcatProperties
<1>4. Append(vs \o u, e) = (vs \o u) \o <<e>>
  BY <1>1, <1>3, AppendIsConcat
<1>5. (vs \o u) \o <<e>> = vs \o (u \o <<e>>)
  BY <1>1, <1>2, ConcatAssociative, SMTT(30)
<1>6. vs \o <<>> = vs
  BY <1>1, ConcatEmptySeq
<1>7. (vs \o u) \o w = vs \o (u \o w)
  BY <1>1, ConcatAssociative, SMTT(30)
<1>8. <<>> \in Seq(Pair)
  BY EmptySeq
<1>9. Append(vs \o u, e) = vs \o v
  BY <1>2, <1>4, <1>5
<1> QED
  BY <1>2, <1>3, <1>6, <1>7, <1>8, <1>9 DEF Pair, e, Visits, Then, Visited

At(n, p, d, vs) == [node |-> n, prev |-> p, depth |-> d, visits |-> vs]

\* A walk goes on from n, which it has visited at depth d.
After(t, n, d, vs) ==
  IF t.right[n] # NULL THEN At(t.right[n], n, d, vs) ELSE At(t.parent[n], n, d - 1, vs)

WalkStates == [node : Nodes, prev : Nodes, depth : Int, visits : Visits]

\* A walk that starts at x stays below x until it is over.
LEMMA WalkStays ==
  ASSUME NEW t, NEW S, NEW dir, Forest(t, S, dir), NEW x \in Keys, NEW c \in WalkStates,
         c.node \in S[x] \cup {t.parent[x]}
  PROVE  LET e == WalkStep(t, t.parent[x], c)
         IN e \in WalkStates /\ e.node \in S[x] \cup {t.parent[x]}
<1> DEFINE stop == t.parent[x]
           n == c.node
           e == WalkStep(t, stop, c)
<1>1. CASE n = stop
  BY <1>1 DEF WalkStep
<1>2. CASE n # stop
  <2>1. n \in S[x] /\ n \in Keys /\ c.prev \in Nodes /\ c.depth \in Int /\ c.visits \in Visits
    BY <1>2, ForestTyped DEF WalkStates, Nodes
  <2>2. /\ t.left[n] \in Nodes /\ t.right[n] \in Nodes /\ t.parent[n] \in Nodes
    BY <2>1, ForestTyped
  <2>3. /\ t.left[n] # NULL => t.left[n] \in S[x]
        /\ t.right[n] # NULL => t.right[n] \in S[x]
        /\ t.parent[n] \in S[x] \cup {stop}
    <3>1. S[n] \subseteq S[x] /\ (n # x => t.parent[n] \in S[x])
      BY <2>1 DEF Forest
    <3>2. /\ t.left[n] # NULL => t.left[n] \in S[n]
          /\ t.right[n] # NULL => t.right[n] \in S[n]
      BY <2>1, <2>2, Kin DEF Nodes
    <3> QED
      BY <3>1, <3>2
  <2> DEFINE down == c.prev = t.parent[n]
             depth == IF down THEN c.depth + 1 ELSE c.depth
             left == down /\ t.left[n] # NULL
             visit == ~left /\ (down \/ c.prev = t.left[n])
             right == visit /\ t.right[n] # NULL
             to == IF left THEN t.left[n] ELSE IF right THEN t.right[n] ELSE t.parent[n]
             dd == IF left \/ right THEN depth ELSE depth - 1
             vs == IF visit THEN Append(c.visits, <<n, depth>>) ELSE c.visits
  <2>4. e = [node |-> to, prev |-> n, depth |-> dd, visits |-> vs]
    BY <1>2 DEF WalkStep
  <2>5. depth \in Int /\ dd \in Int
    BY <2>1
  <2>6. to \in S[x] \cup {stop} /\ to \in Nodes
    BY <2>2, <2>3
  <2>7. vs \in Visits
    <3> HIDE DEF depth
    <3>1. <<n, depth>> \in Keys \X Int
      BY <2>1, <2>5
    <3>2. Append(c.visits, <<n, depth>>) \in Visits
      BY <2>1, <3>1, AppendProperties DEF Visits
    <3> QED
      BY <2>1, <3>2
  <2> HIDE DEF to, dd, vs
  <2> QED
    BY <2>1, <2>4, <2>5, <2>6, <2>7 DEF WalkStates, Nodes
<1> QED
  BY <1>1, <1>2

\* Neighbours of a node in a walk are different nodes.
LEMMA Neighbours ==
  ASSUME NEW t, NEW S, NEW dir, Forest(t, S, dir), NEW n \in Keys
  PROVE  /\ t.left[n] # NULL => t.left[n] # t.parent[n]
         /\ t.right[n] # NULL => t.right[n] # t.parent[n]
<1>1. ASSUME NEW c \in Keys, c = t.left[n] \/ c = t.right[n] PROVE c # t.parent[n]
  <2>1. n \notin S[c] /\ n # NULL
    BY <1>1, Kin, KeysAreNumbers
  <2>2. S[c] = {c} \cup S[t.left[c]] \cup S[t.right[c]] /\ n \in S[n]
    BY ForestTyped DEF Forest
  <2>3. t.parent[n] = c => n = t.left[c] \/ n = t.right[c]
    BY KeysAreNumbers DEF Forest
  <2> QED
    BY <2>1, <2>2, <2>3
<1> QED
  BY <1>1, ForestTyped DEF Nodes

\* In the walk g, whoever enters n from above leaves it upwards, having listed
\* what is below n, after at most three steps for each node.
Walks(t, S, H, g, n) ==
  \A i \in Nat, d \in Int, vs \in Visits : g[i] = At(n, t.parent[n], d, vs) =>
    \E j \in Nat : \E ws :
      /\ j <= 3 * Cardinality(S[n])
      /\ Lists(ws, S, H, n, d)
      /\ g[i + j] = At(t.parent[n], n, d, Then(vs, ws))

\* g are the states of a walk that ends at stop.
Walking(g, t, stop) == \A i \in Nat : g[i + 1] = WalkStep(t, stop, g[i])

\* A walk passes a node if it passes its sides.
LEMMA WalksNode ==
  ASSUME NEW t, NEW S, Forest(t, S, 1), NEW H \in [Nodes -> Nat], H[NULL] = 0, NEW x \in Keys,
         NEW g, NEW stop, stop = t.parent[x], Walking(g, t, stop),
         NEW n \in S[x], H[n] = 1 + Larger(H[t.left[n]], H[t.right[n]]),
         t.left[n] # NULL => Walks(t, S, H, g, t.left[n]),
         t.right[n] # NULL => Walks(t, S, H, g, t.right[n])
  PROVE  Walks(t, S, H, g, n)
<1>0. PICK l : l = t.left[n]
  OBVIOUS
<1>a. PICK r : r = t.right[n]
  OBVIOUS
<1>b. PICK p : p = t.parent[n]
  OBVIOUS
<1>1. n \in Keys /\ l \in Nodes /\ r \in Nodes
  <2>1. n \in Keys
    BY ForestTyped DEF Nodes
  <2> QED
    BY <1>0, <1>a, <2>1, ForestTyped
<1>2. n # stop
  <2>1. stop \in Keys => x = t.left[stop] \/ x = t.right[stop]
    BY KeysAreNumbers DEF Forest
  <2>2. stop \in Keys => stop \notin S[x]
    BY <2>1, Kin
  <2> QED
    BY <1>1, <2>2
<1>3. /\ l # NULL => l # p /\ t.parent[l] = n
      /\ r # NULL => r # p /\ r # l /\ t.parent[r] = n
  <2>1. (l # NULL => l # p) /\ (r # NULL => r # p)
    BY <1>0, <1>a, <1>b, <1>1, Neighbours
  <2>2. r # NULL => r # l
    BY <1>0, <1>a, <1>1, Sides
  <2>3. (l # NULL => t.parent[l] = n) /\ (r # NULL => t.parent[r] = n)
    BY <1>0, <1>a, <1>1 DEF Forest
  <2> QED
    BY <2>1, <2>2, <2>3
<1>4. S[NULL] = {}
  BY DEF Forest
<1>c. PICK a : a = Cardinality(S[l])
  OBVIOUS
<1>d. PICK b : b = Cardinality(S[r])
  OBVIOUS
<1>5. a \in Nat /\ b \in Nat /\ Cardinality(S[n]) = 1 + a + b
  BY <1>0, <1>a, <1>c, <1>d, <1>1, Sizes
<1> SUFFICES ASSUME NEW i \in Nat, NEW d \in Int, NEW vs \in Visits, g[i] = At(n, t.parent[n], d, vs)
             PROVE  \E j \in Nat : \E ws : /\ j <= 3 * Cardinality(S[n])
                                           /\ Lists(ws, S, H, n, d)
                                           /\ g[i + j] = At(t.parent[n], n, d, Then(vs, ws))
  BY DEF Walks
<1>6. d + 1 \in Int /\ (d + 1) - 1 = d
  BY <1>1
\* What is to the left, and n itself.
<1>7. \E j \in Nat : \E u : /\ j <= 3 * a + 1
                            /\ Lists(u, S, H, l, d + 1)
                            /\ g[i + j + 1] = After(t, n, d + 1, Visited(Then(vs, u), n, d + 1))
  <2>1. CASE l = NULL
    <3>0. g[i + 1] = WalkStep(t, stop, At(n, t.parent[n], d, vs)) /\ t.left[n] = NULL
      BY <1>0, <2>1 DEF Walking
    <3>1. g[i + 1] = After(t, n, d + 1, Visited(vs, n, d + 1))
      BY <1>2, <3>0 DEF WalkStep, At, After, Visited
    <3>2. Then(vs, <<>>) = vs
      BY <1>1, <1>6, VisitsJoin
    <3>3. Lists(<<>>, S, H, l, d + 1)
      BY <1>4, <2>1, ListsNothing
    <3>4. i + 0 + 1 = i + 1 /\ 0 <= 3 * a + 1 /\ 0 \in Nat
      BY <1>5
    <3>5. g[i + 0 + 1] = After(t, n, d + 1, Visited(Then(vs, <<>>), n, d + 1))
      BY <3>1, <3>2, <3>4
    <3> QED
      BY <3>3, <3>4, <3>5
  <2>2. CASE l # NULL
    <3>0. g[i + 1] = WalkStep(t, stop, At(n, t.parent[n], d, vs)) /\ t.left[n] # NULL
      BY <1>0, <2>2 DEF Walking
    <3>1. g[i + 1] = At(l, t.parent[l], d + 1, vs)
      <4>1. g[i + 1] = At(t.left[n], n, d + 1, vs)
        BY <1>2, <3>0 DEF WalkStep, At
      <4> QED
        BY <1>0, <1>3, <2>2, <4>1
    <3>2. PICK j \in Nat : \E ws : /\ j <= 3 * a
                                   /\ Lists(ws, S, H, l, d + 1)
                                   /\ g[i + 1 + j] = At(t.parent[l], l, d + 1, Then(vs, ws))
      <4>1. i + 1 \in Nat
        OBVIOUS
      <4>2. Walks(t, S, H, g, l)
        BY <1>0, <2>2
      <4> QED
        BY <1>6, <1>c, <3>1, <4>1, <4>2 DEF Walks
    <3>3. PICK u : /\ Lists(u, S, H, l, d + 1)
                   /\ g[i + 1 + j] = At(t.parent[l], l, d + 1, Then(vs, u))
      BY <3>2
    <3>4. i + 1 + j \in Nat /\ i + (j + 1) + 1 = (i + 1 + j) + 1
      OBVIOUS
    <3>5. g[i + (j + 1) + 1] = WalkStep(t, stop, g[i + 1 + j])
      BY <3>4 DEF Walking
    <3>6. g[i + 1 + j] = At(n, t.left[n], d + 1, Then(vs, u)) /\ t.left[n] # t.parent[n]
      BY <1>0, <1>b, <1>3, <2>2, <3>3
    <3>7. g[i + (j + 1) + 1] = After(t, n, d + 1, Visited(Then(vs, u), n, d + 1))
      <4>1. PICK z : z = Then(vs, u)
        OBVIOUS
      <4>2. PICK f : f = d + 1
        OBVIOUS
      <4>3. WalkStep(t, stop, At(n, t.left[n], f, z)) = After(t, n, f, Visited(z, n, f))
        BY <1>2, <3>6 DEF WalkStep, At, After, Visited
      <4> QED
        BY <3>5, <3>6, <4>1, <4>2, <4>3
    <3>8. j + 1 \in Nat /\ j + 1 <= 3 * a + 1
      BY <1>5, <3>2
    <3> QED
      BY <3>3, <3>7, <3>8
  <2> QED
    BY <2>1, <2>2
<1>8. PICK j \in Nat : \E u : /\ j <= 3 * a + 1
                              /\ Lists(u, S, H, l, d + 1)
                              /\ g[i + j + 1] = After(t, n, d + 1, Visited(Then(vs, u), n, d + 1))
  BY <1>7
<1>9. PICK u : /\ Lists(u, S, H, l, d + 1)
               /\ g[i + j + 1] = After(t, n, d + 1, Visited(Then(vs, u), n, d + 1))
  BY <1>8
<1>g. PICK v : v = Visited(u, n, d + 1)
  OBVIOUS
<1>10. u \in Visits /\ v \in Visits /\ Visited(Then(vs, u), n, d + 1) = Then(vs, v) /\ Then(vs, v) \in Visits
  <2>1. u \in Visits
    BY <1>9 DEF Lists
  <2>2. v \in Visits /\ Visited(Then(vs, u), n, d + 1) = Then(vs, v)
    <3>1. PICK f \in Int : f = d + 1
      BY <1>6
    <3>2. Visited(u, n, f) \in Visits /\ Visited(Then(vs, u), n, f) = Then(vs, Visited(u, n, f))
      BY <1>1, <2>1, VisitsJoin
    <3> QED
      BY <1>g, <3>1, <3>2
  <2> QED
    BY <1>1, <1>6, <2>1, <2>2, VisitsJoin
<1>h. \A w : Lists(w, S, H, r, d + 1) => Lists(Then(v, w), S, H, n, d)
  <2> TAKE w
  <2> HAVE Lists(w, S, H, r, d + 1)
  <2>1. Lists(u, S, H, t.left[n], d + 1) /\ Lists(w, S, H, t.right[n], d + 1)
    BY <1>0, <1>a, <1>9
  <2>2. Lists(Then(Visited(u, n, d + 1), w), S, H, n, d)
    BY <1>1, <2>1, ListsJoin
  <2> QED
    BY <1>g, <2>2
\* What is to the right.
<1>11. CASE r = NULL
  <2>1. g[i + j + 1] = At(t.parent[n], n, d, Then(vs, v))
    BY <1>6, <1>9, <1>10, <1>11, <1>a DEF After
  <2>2. Lists(<<>>, S, H, r, d + 1)
    BY <1>4, <1>11, ListsNothing
  <2>3. Lists(Then(v, <<>>), S, H, n, d)
    BY <1>h, <2>2
  <2>4. Then(v, <<>>) = v
    BY <1>1, <1>6, <1>10, VisitsJoin
  <2>5. j + 1 \in Nat /\ j + 1 <= 3 * Cardinality(S[n]) /\ i + (j + 1) = i + j + 1
    BY <1>5, <1>8
  <2> QED
    BY <2>1, <2>3, <2>4, <2>5
<1>12. CASE r # NULL
  <2>1. g[i + j + 1] = At(r, t.parent[r], d + 1, Then(vs, v)) /\ i + j + 1 \in Nat
    BY <1>3, <1>9, <1>10, <1>12, <1>a DEF After
  <2>a. Walks(t, S, H, g, r)
    BY <1>a, <1>12
  <2>2. PICK k \in Nat : \E ws : /\ k <= 3 * b
                                 /\ Lists(ws, S, H, r, d + 1)
                                 /\ g[i + j + 1 + k] = At(t.parent[r], r, d + 1, Then(Then(vs, v), ws))
    BY <1>6, <1>10, <1>d, <2>1, <2>a DEF Walks
  <2>3. PICK w : /\ Lists(w, S, H, r, d + 1)
                 /\ g[i + j + 1 + k] = At(t.parent[r], r, d + 1, Then(Then(vs, v), w))
    BY <2>2
  <2>4. i + j + 1 + k \in Nat /\ i + (j + k + 2) = (i + j + 1 + k) + 1
    OBVIOUS
  <2>5. g[i + (j + k + 2)] = WalkStep(t, stop, g[i + j + 1 + k])
    BY <2>4 DEF Walking
  <2>b. /\ g[i + j + 1 + k] = At(n, t.right[n], d + 1, Then(Then(vs, v), w))
        /\ t.right[n] # t.parent[n] /\ t.right[n] # t.left[n]
    BY <1>0, <1>a, <1>b, <1>3, <1>12, <2>3
  <2>6. g[i + (j + k + 2)] = At(t.parent[n], n, (d + 1) - 1, Then(Then(vs, v), w))
    BY <1>2, <2>5, <2>b DEF WalkStep, At
  <2>7. Then(Then(vs, v), w) = Then(vs, Then(v, w))
    <3>1. w \in Visits
      BY <2>3 DEF Lists
    <3> QED
      BY <1>1, <1>6, <1>10, <3>1, VisitsJoin
  <2>8. Lists(Then(v, w), S, H, n, d)
    BY <1>h, <2>3
  <2>9. j + k + 2 \in Nat /\ j + k + 2 <= 3 * Cardinality(S[n])
    BY <1>5, <1>8, <2>2
  <2>10. g[i + (j + k + 2)] = At(t.parent[n], n, d, Then(vs, Then(v, w)))
    BY <1>6, <2>6, <2>7
  <2> QED
    BY <2>8, <2>9, <2>10
<1> QED
  BY <1>11, <1>12

\* The heights of the nodes below x.
Heights(t, S, H, x) ==
  /\ H \in [Nodes -> Nat] /\ H[NULL] = 0
  /\ \A n \in S[x] : H[n] = 1 + Larger(H[t.left[n]], H[t.right[n]])

\* A walk visits everything below a node, whatever the node.
LEMMA WalksAll ==
  ASSUME NEW t, NEW S, Forest(t, S, 1), NEW H, NEW x \in Keys, Heights(t, S, H, x),
         NEW g, NEW stop, stop = t.parent[x], Walking(g, t, stop)
  PROVE  \A n \in S[x] : Walks(t, S, H, g, n)
<1>1. ASSUME NEW n \in S[x]
      PROVE  /\ n \in Keys /\ Cardinality(S[n]) \in Nat
             /\ t.left[n] # NULL =>
                  t.left[n] \in S[x] /\ Cardinality(S[t.left[n]]) < Cardinality(S[n])
             /\ t.right[n] # NULL =>
                  t.right[n] \in S[x] /\ Cardinality(S[t.right[n]]) < Cardinality(S[n])
             /\ 0 < Cardinality(S[n])
  <2>1. n \in Keys /\ n \in Nodes
    BY ForestTyped DEF Nodes
  <2>2. t.left[n] \in Nodes /\ t.right[n] \in Nodes
    BY <2>1, ForestTyped
  <2>3. /\ Cardinality(S[n]) \in Nat /\ Cardinality(S[t.left[n]]) \in Nat
        /\ Cardinality(S[t.right[n]]) \in Nat
        /\ Cardinality(S[n]) = 1 + Cardinality(S[t.left[n]]) + Cardinality(S[t.right[n]])
    BY <2>1, <2>2, Sizes
  <2>4. S[n] \subseteq S[x]
    BY DEF Forest
  <2>5. (t.left[n] # NULL => t.left[n] \in S[n]) /\ (t.right[n] # NULL => t.right[n] \in S[n])
    BY <2>1, <2>2, Kin DEF Nodes
  <2> QED
    BY <2>1, <2>3, <2>4, <2>5
<1> DEFINE A == {m \in Nat : \A n \in S[x] : Cardinality(S[n]) <= m => Walks(t, S, H, g, n)}
<1>2. 0 \in A
  BY <1>1
<1>3. ASSUME NEW m \in Nat, m \in A PROVE m + 1 \in A
  <2> SUFFICES ASSUME NEW n \in S[x], Cardinality(S[n]) <= m + 1 PROVE Walks(t, S, H, g, n)
    OBVIOUS
  <2>0. \A k \in S[x] : Cardinality(S[k]) <= m => Walks(t, S, H, g, k)
    BY <1>3
  <2>1. t.left[n] # NULL => Walks(t, S, H, g, t.left[n])
    <3>1. t.left[n] # NULL => t.left[n] \in S[x] /\ Cardinality(S[t.left[n]]) \in Nat
      BY <1>1
    <3>2. t.left[n] # NULL => Cardinality(S[t.left[n]]) <= m
      BY <1>1, <3>1
    <3> QED
      BY <2>0, <3>1, <3>2
  <2>2. t.right[n] # NULL => Walks(t, S, H, g, t.right[n])
    <3>1. t.right[n] # NULL => t.right[n] \in S[x] /\ Cardinality(S[t.right[n]]) \in Nat
      BY <1>1
    <3>2. t.right[n] # NULL => Cardinality(S[t.right[n]]) <= m
      BY <1>1, <3>1
    <3> QED
      BY <2>0, <3>1, <3>2
  <2>3. H \in [Nodes -> Nat] /\ H[NULL] = 0 /\ H[n] = 1 + Larger(H[t.left[n]], H[t.right[n]])
    BY DEF Heights
  <2> QED
    BY <2>1, <2>2, <2>3, WalksNode
<1> HIDE DEF A
<1>4. Nat \subseteq A
  BY <1>2, <1>3, Inductive
<1> TAKE n \in S[x]
<1>5. Cardinality(S[n]) \in A
  BY <1>1, <1>4
<1>6. Cardinality(S[n]) <= Cardinality(S[n])
  BY <1>1
<1> QED
  BY <1>5, <1>6 DEF A

\* A loop that does nothing any more has ended.
LEMMA Settles ==
  ASSUME NEW g, NEW j \in Nat, \A i \in Nat : g[j + i] = g[j] => g[(j + i) + 1] = g[j]
  PROVE  \A k \in Nat : k >= j => g[k] = g[j]
<1> DEFINE A == {i \in Nat : g[j + i] = g[j]}
<1>1. 0 \in A
  <2>1. j + 0 = j
    OBVIOUS
  <2> QED
    BY <2>1
<1>2. ASSUME NEW i \in Nat, i \in A PROVE i + 1 \in A
  <2>1. j + (i + 1) = (j + i) + 1
    OBVIOUS
  <2> QED
    BY <1>2, <2>1
<1> HIDE DEF A
<1>3. Nat \subseteq A
  BY <1>1, <1>2, Inductive
<1> TAKE k \in Nat
<1> HAVE k >= j
<1>4. k - j \in Nat /\ j + (k - j) = k
  OBVIOUS
<1> QED
  BY <1>3, <1>4 DEF A

\* A traversal lists what is below a node, in order.
LEMMA Traversed ==
  ASSUME NEW t, NEW S, Forest(t, S, 1), NEW H, NEW x \in Keys, Heights(t, S, H, x)
  PROVE  Lists(Traverse(t, x), S, H, x, 0)
<1> DEFINE stop == t.parent[x]
           f == [c \in WalkStates |-> WalkStep(t, stop, c)]
           X == {c \in WalkStates : c.node \in S[x] \cup {stop}}
           first == [node |-> x, prev |-> stop, depth |-> 0, visits |-> <<>>]
           N == 3 * Cardinality(Keys)
<1>1. x # NULL /\ x \in Nodes /\ stop \in Nodes /\ x \in S[x] /\ S[x] \subseteq Keys
  <2>1. x # NULL /\ x \in Nodes
    BY KeysAreNumbers DEF Nodes
  <2> QED
    BY <2>1, ForestTyped
<1>2. <<>> \in Visits
  BY EmptySeq DEF Visits
<1>3. first \in WalkStates /\ first \in X /\ first = At(x, stop, 0, <<>>)
  BY <1>1, <1>2 DEF WalkStates, At
<1>4. \A c \in X : f[c] \in X
  <2> TAKE c \in X
  <2>1. c \in WalkStates /\ c.node \in S[x] \cup {t.parent[x]}
    OBVIOUS
  <2>2. WalkStep(t, stop, c) \in WalkStates /\ WalkStep(t, stop, c).node \in S[x] \cup {t.parent[x]}
    BY <2>1, WalkStays
  <2> QED
    BY <2>1, <2>2
<1>5. Traverse(t, x) = Rounds(f, first, N).visits
  BY <1>1 DEF Traverse, WalkStates, Visits
<1>6. \A c \in X : c \in WalkStates /\ f[c] = WalkStep(t, stop, c)
  OBVIOUS
<1> HIDE DEF f, X, first
<1>a. PICK g : Loop(g, f, first, X)
  BY <1>3, <1>4, RoundsIterate
<1>7. g[0] = first /\ \A n \in Nat : Rounds(f, first, n) = g[n]
  BY <1>a DEF Loop
<1>8. Walking(g, t, stop)
  BY <1>6, <1>a DEF Walking, Loop
<1>9. Walks(t, S, H, g, x)
  BY <1>1, <1>8, WalksAll
<1>10. PICK j \in Nat : \E ws : /\ j <= 3 * Cardinality(S[x])
                                /\ Lists(ws, S, H, x, 0)
                                /\ g[0 + j] = At(stop, x, 0, Then(<<>>, ws))
  <2>1. g[0] = At(x, t.parent[x], 0, <<>>)
    BY <1>3, <1>7
  <2> QED
    BY <1>2, <1>9, <2>1 DEF Walks
<1>11. PICK ws : Lists(ws, S, H, x, 0) /\ g[0 + j] = At(stop, x, 0, Then(<<>>, ws))
  BY <1>10
<1>12. g[j] = At(stop, x, 0, ws)
  <2>1. 0 + j = j
    OBVIOUS
  <2>2. <<>> \o ws = ws
    BY <1>11, ConcatEmptySeq DEF Lists, Visits
  <2> QED
    BY <1>11, <2>1, <2>2 DEF Then
<1>13. \A i \in Nat : g[j + i] = g[j] => g[(j + i) + 1] = g[j]
  <2> TAKE i \in Nat
  <2>1. g[(j + i) + 1] = WalkStep(t, stop, g[j + i])
    BY <1>8 DEF Walking
  <2>2. g[j].node = stop
    BY <1>12 DEF At
  <2> QED
    BY <2>1, <2>2 DEF WalkStep
<1>14. N \in Nat /\ j <= N
  <2>1. /\ Cardinality(S[x]) \in Nat /\ Cardinality(Keys) \in Nat
        /\ Cardinality(S[x]) <= Cardinality(Keys)
    BY <1>1, Sizes
  <2> QED
    BY <1>10, <2>1
<1> HIDE DEF N
<1>15. g[N] = g[j]
  BY <1>13, <1>14, Settles
<1>16. Traverse(t, x) = ws
  BY <1>5, <1>7, <1>12, <1>14, <1>15 DEF At
<1> QED
  BY <1>11, <1>16

\* The greatest depth that a traversal reports is the height.
LEMMA MaxPathIs ==
  ASSUME NEW t, NEW S, Forest(t, S, 1), NEW H, NEW x \in Nodes, Heights(t, S, H, x)
  PROVE  MaxPath(t, x) = H[x]
<1> DEFINE ws == Traverse(t, x)
           depths == {0} \cup {ws[k][2] : k \in DOMAIN ws}
<1>1. H[x] \in Nat /\ H[NULL] = 0 /\ S[NULL] = {}
  BY DEF Heights, Forest
<1>2. Lists(ws, S, H, x, 0)
  <2>1. CASE x = NULL
    <3>1. ws = <<>>
      BY <2>1 DEF Traverse
    <3> HIDE DEF ws
    <3> QED
      BY <1>1, <2>1, <3>1, ListsNothing
  <2>2. CASE x # NULL
    <3>1. x \in Keys
      BY <2>2 DEF Nodes
    <3> QED
      BY <3>1, Traversed
  <2> QED
    BY <2>1, <2>2
<1>3. MaxPath(t, x) = CHOOSE m \in depths : \A e \in depths : e <= m
  BY DEF MaxPath
<1> HIDE DEF ws
<1>4. ws \in Seq(Keys \X Int)
  BY <1>2 DEF Lists, Visits
<1>5. DOMAIN ws = 1..Len(ws)
  BY <1>4, LenProperties
<1>6. \A q \in DOMAIN ws : ws[q][2] \in Int /\ ws[q][2] <= H[x]
  <2> TAKE q \in DOMAIN ws
  <2>1. ws[q] \in Keys \X Int
    BY <1>4, <1>5, ElementOfSeq
  <2>2. ws[q][2] <= 0 + H[x]
    BY <1>2, <1>5 DEF Lists
  <2> QED
    BY <1>1, <2>1, <2>2
<1>7. \A e \in depths : e \in Int /\ e <= H[x]
  BY <1>1, <1>6
<1>8. H[x] \in depths
  <2>1. CASE x = NULL
    BY <1>1, <2>1
  <2>2. CASE x # NULL
    <3>1. PICK q \in 1..Len(ws) : ws[q][2] = 0 + H[x]
      BY <1>2, <2>2 DEF Lists
    <3> QED
      BY <1>1, <1>5, <3>1
  <2> QED
    BY <2>1, <2>2
<1> HIDE DEF depths
<1>9. \A m \in depths : (\A e \in depths : e <= m) => m = H[x]
  BY <1>7, <1>8
<1> QED
  BY <1>3, <1>7, <1>8, <1>9

(***************************************************************************)
(* Balancing.                                                              *)
(***************************************************************************)

\* The heights are right at m, and its sides differ by at most one.
Even(t, H, m) ==
  /\ H[m] = 1 + Larger(H[t.left[m]], H[t.right[m]])
  /\ H[t.left[m]] <= H[t.right[m]] + 1
  /\ H[t.right[m]] <= H[t.left[m]] + 1

\* Only the parent of the node that grew knows its height as it was.
LEMMA LevelElsewhere ==
  ASSUME NEW t, NEW S, NEW dir, Forest(t, S, dir), NEW H, NEW k, Level(t, H, k), NEW n,
         k = NULL \/ (k \in Keys /\ t.parent[k] = n)
  PROVE  /\ H \in [Nodes -> Nat] /\ H[NULL] = 0
         /\ \A m \in Keys : m # n => Even(t, H, m)
<1>1. H \in [Nodes -> Nat] /\ H[NULL] = 0
  BY DEF Level
<1>2. ASSUME NEW m \in Keys, m # n
      PROVE  Count(H, k, t.left[m]) = H[t.left[m]] /\ Count(H, k, t.right[m]) = H[t.right[m]]
  <2>1. t.left[m] # NULL => t.parent[t.left[m]] = m
    BY DEF Forest
  <2>2. t.right[m] # NULL => t.parent[t.right[m]] = m
    BY DEF Forest
  <2> QED
    BY <1>2, <2>1, <2>2 DEF Count
<1>3. ASSUME NEW m \in Keys, m # n
      PROVE  Even(t, H, m)
  BY <1>2, <1>3 DEF Level, Even
<1> QED
  BY <1>1, <1>3

\* The node k grew, n is its parent, and b tells which of the sides of k grew;
\* or nothing is left to repair, and k is NULL.  After i rounds the climb has
\* come this far.
Climbing(t, S, H, k, n, b, T, i) ==
  /\ Forest(t, S, 1) /\ S[t.start] = T /\ Level(t, H, k)
  /\ n \in T \cup {NULL} /\ b \in Int
  /\ k = NULL => n = NULL \/ Cardinality(S[n]) + Cardinality(Keys) > i
  /\ k # NULL => /\ k \in T /\ n = t.parent[k] /\ Cardinality(S[k]) > i
                 /\ b = H[t.right[k]] - H[t.left[k]]
                 /\ b = 0 => H[k] = 1

ClimbStates == [tree : Trees, node : Nodes, childBalance : Int]

Climbs(c, T, i) ==
  /\ c \in ClimbStates
  /\ \E S, H, k : Climbing(c.tree, S, H, k, c.node, c.childBalance, T, i)

\* Above the root there is nothing to repair.
LEMMA ClimbEnds ==
  ASSUME NEW t, NEW S, NEW H, NEW k, NEW b, NEW T, NEW i \in Nat, Climbing(t, S, H, k, NULL, b, T, i)
  PROVE  Level(t, H, NULL) /\ Levelled(t, 1, T)
<1>1. Forest(t, S, 1) /\ S[t.start] = T /\ Level(t, H, k)
  BY DEF Climbing
<1>2. k = NULL \/ (k \in Keys /\ t.parent[k] = NULL)
  BY <1>1, Parent DEF Climbing
<1>3. /\ H \in [Nodes -> Nat] /\ H[NULL] = 0
      /\ \A m \in Keys : m # NULL => Even(t, H, m)
  BY <1>1, <1>2, LevelElsewhere
<1>4. \A m \in Keys : Even(t, H, m)
  BY <1>3, KeysAreNumbers
<1>5. Level(t, H, NULL)
  BY <1>3, <1>4, LevelIs DEF Even
<1> QED
  BY <1>1, <1>5 DEF Levelled

\* What a climb knows of the node it is at.
LEMMA ClimbAt ==
  ASSUME NEW t, NEW S, NEW H, NEW k, NEW n, n # NULL, NEW b, NEW T, NEW i \in Nat,
         Climbing(t, S, H, k, n, b, T, i)
  PROVE  /\ n \in Keys /\ n \in S[t.start] /\ t.left[n] \in Nodes /\ t.right[n] \in Nodes
         /\ t.left[n] # n /\ t.right[n] # n
         /\ H \in [Nodes -> Nat] /\ H[NULL] = 0
         /\ Heights(t, S, H, t.left[n]) /\ Heights(t, S, H, t.right[n])
         /\ k # NULL => k \in Keys /\ (k = t.left[n] \/ k = t.right[n])
         /\ \A m \in Keys : m # n => Even(t, H, m)
<1>1. Forest(t, S, 1) /\ S[t.start] = T /\ Level(t, H, k) /\ n \in S[t.start]
  BY DEF Climbing
<1>2. n \in Keys
  BY <1>1, Parent
<1>3. t.left[n] \in Nodes /\ t.right[n] \in Nodes
  BY <1>1, <1>2, ForestTyped
<1>4. k # NULL => k \in Keys /\ t.parent[k] = n /\ (k = t.left[n] \/ k = t.right[n])
  <2> SUFFICES ASSUME k # NULL PROVE k \in Keys /\ t.parent[k] = n /\ (k = t.left[n] \/ k = t.right[n])
    OBVIOUS
  <2>1. k \in S[t.start] /\ t.parent[k] = n
    BY <1>1 DEF Climbing
  <2>2. /\ k \in Keys
        /\ k = t.start => t.parent[k] = NULL
        /\ k # t.start => k = t.left[t.parent[k]] \/ k = t.right[t.parent[k]]
    BY <1>1, <2>1, Parent
  <2> QED
    BY <2>1, <2>2
<1>5. /\ H \in [Nodes -> Nat] /\ H[NULL] = 0
      /\ \A m \in Keys : m # n => Even(t, H, m)
  BY <1>1, <1>4, LevelElsewhere
<1>6. /\ n \notin S[t.left[n]] /\ n \notin S[t.right[n]] /\ t.left[n] # n /\ t.right[n] # n
  BY <1>1, <1>2, Sides
<1>7. S[t.left[n]] \subseteq Keys /\ S[t.right[n]] \subseteq Keys
  BY <1>1, <1>3, ForestTyped
<1>8. Heights(t, S, H, t.left[n]) /\ Heights(t, S, H, t.right[n])
  BY <1>5, <1>6, <1>7 DEF Heights, Even
<1> QED
  BY <1>1, <1>2, <1>3, <1>4, <1>5, <1>6, <1>8

\* The parent of a node has more nodes below it, and the root has none.
LEMMA Upwards ==
  ASSUME NEW t, NEW S, NEW dir, Forest(t, S, dir), NEW n \in S[t.start]
  PROVE  /\ t.parent[n] \in S[t.start] \cup {NULL}
         /\ t.parent[n] # NULL => /\ t.parent[n] \in Keys
                                  /\ Cardinality(S[n]) < Cardinality(S[t.parent[n]])
         /\ Cardinality(S[n]) \in Nat /\ 0 < Cardinality(S[n])
         /\ Cardinality(S[n]) <= Cardinality(Keys)
<1>1. /\ n \in Keys /\ n \in Nodes
      /\ n = t.start => t.parent[n] = NULL
      /\ n # t.start => /\ t.parent[n] \in S[t.start] /\ t.parent[n] \in Keys
                        /\ n = t.left[t.parent[n]] \/ n = t.right[t.parent[n]]
  BY Parent DEF Nodes
<1>2. /\ \A m \in Nodes : Cardinality(S[m]) \in Nat /\ Cardinality(S[m]) <= Cardinality(Keys)
      /\ \A m \in Keys : Cardinality(S[m]) = 1 + Cardinality(S[t.left[m]]) + Cardinality(S[t.right[m]])
  BY Sizes
<1>3. \A m \in Keys : /\ Cardinality(S[t.left[m]]) \in Nat /\ Cardinality(S[t.right[m]]) \in Nat
                      /\ Cardinality(S[t.left[m]]) < Cardinality(S[m])
                      /\ Cardinality(S[t.right[m]]) < Cardinality(S[m])
                      /\ 0 < Cardinality(S[m])
  <2> TAKE m \in Keys
  <2>1. t.left[m] \in Nodes /\ t.right[m] \in Nodes
    BY ForestTyped
  <2>2. Cardinality(S[t.left[m]]) \in Nat /\ Cardinality(S[t.right[m]]) \in Nat
    BY <1>2, <2>1
  <2> QED
    BY <1>2, <2>2
<1>4. t.parent[n] # NULL => Cardinality(S[n]) < Cardinality(S[t.parent[n]])
  BY <1>1, <1>3
<1> QED
  BY <1>1, <1>2, <1>3, <1>4

Close(a, b) == a <= b + 1 /\ b <= a + 1

\* A round that turns nothing.
LEMMA ClimbOn ==
  ASSUME NEW t, NEW S, NEW H, NEW k, NEW n, n # NULL, NEW b, NEW T, NEW i \in Nat,
         Climbing(t, S, H, k, n, b, T, i),
         Close(H[t.left[n]], H[t.right[n]])
  PROVE  \E G, j : Climbing(t, S, G, j, t.parent[n], H[t.right[n]] - H[t.left[n]], T, i + 1)
<1>1. PICK x : x = H[t.left[n]]
  OBVIOUS
<1>2. PICK y : y = H[t.right[n]]
  OBVIOUS
<1>3. /\ n \in Keys /\ n \in Nodes /\ n \in S[t.start] /\ t.left[n] \in Nodes /\ t.right[n] \in Nodes
      /\ t.left[n] # n /\ t.right[n] # n
      /\ H \in [Nodes -> Nat] /\ H[NULL] = 0
      /\ k # NULL => k \in Keys /\ (k = t.left[n] \/ k = t.right[n])
      /\ \A m \in Keys : m # n => Even(t, H, m)
  <2>1. n \in Keys /\ n \in S[t.start]
    BY ClimbAt
  <2>4. t.left[n] \in Nodes /\ t.right[n] \in Nodes
    BY ClimbAt
  <2>5. t.left[n] # n /\ t.right[n] # n
    BY <2>1, Sides DEF Climbing
  <2>2. /\ H \in [Nodes -> Nat] /\ H[NULL] = 0
        /\ k # NULL => k \in Keys /\ (k = t.left[n] \/ k = t.right[n])
        /\ \A m \in Keys : m # n => Even(t, H, m)
    BY ClimbAt, SMTT(30)
  <2>3. n \in Nodes
    BY <2>1 DEF Nodes
  <2> QED
    BY <2>1, <2>2, <2>3, <2>4, <2>5
<1>d. PICK d : d = H[t.right[n]] - H[t.left[n]]
  OBVIOUS
<1>4. x \in Nat /\ y \in Nat /\ d = y - x /\ d \in Int /\ y <= x + 1 /\ x <= y + 1
  <2>1. x \in Nat /\ y \in Nat
    BY <1>1, <1>2, <1>3
  <2>2. d = y - x
    BY <1>1, <1>2, <1>d
  <2>3. y <= x + 1 /\ x <= y + 1
    BY <1>1, <1>2, <2>1 DEF Close
  <2> QED
    BY <2>1, <2>2, <2>3
<1>5. Forest(t, S, 1) /\ S[t.start] = T /\ Level(t, H, k)
  BY DEF Climbing
<1>6. /\ t.parent[n] \in T \cup {NULL}
      /\ t.parent[n] # NULL => Cardinality(S[n]) < Cardinality(S[t.parent[n]])
                               /\ Cardinality(S[t.parent[n]]) \in Nat
      /\ Cardinality(S[n]) \in Nat /\ Cardinality(Keys) \in Nat
  <2>1. /\ t.parent[n] \in S[t.start] \cup {NULL}
        /\ t.parent[n] # NULL => Cardinality(S[n]) < Cardinality(S[t.parent[n]])
        /\ Cardinality(S[n]) \in Nat
    BY <1>3, <1>5, Upwards
  <2>2. t.parent[n] # NULL => Cardinality(S[t.parent[n]]) \in Nat
    BY <1>5, <2>1, Upwards
  <2>3. Cardinality(Keys) \in Nat
    BY <1>5, Sizes
  <2> QED
    BY <1>5, <2>1, <2>2, <2>3
<1>7. k # NULL => Cardinality(S[n]) > i + 1
  <2> SUFFICES ASSUME k # NULL PROVE Cardinality(S[n]) > i + 1
    OBVIOUS
  <2>1. k \in S[t.start] /\ n = t.parent[k] /\ Cardinality(S[k]) > i
    BY <1>5 DEF Climbing
  <2>2. Cardinality(S[k]) \in Nat /\ Cardinality(S[k]) < Cardinality(S[n])
    BY <1>5, <2>1, Upwards
  <2> QED
    BY <1>6, <2>1, <2>2
<1>8. CASE k = NULL
  <2>1. n \in T /\ Cardinality(S[n]) + Cardinality(Keys) > i
    BY <1>8 DEF Climbing
  <2>2. t.parent[n] = NULL \/ Cardinality(S[t.parent[n]]) + Cardinality(Keys) > i + 1
    BY <1>6, <2>1
  <2>3. Climbing(t, S, H, NULL, t.parent[n], d, T, i + 1)
    BY <1>4, <1>5, <1>6, <1>8, <2>2 DEF Climbing
  <2> QED
    BY <1>d, <2>3
<1>9. CASE k # NULL /\ Even(t, H, n)
  <2>1. \A m \in Keys : Even(t, H, m)
    BY <1>3, <1>9
  <2>2. Level(t, H, NULL)
    BY <1>3, <2>1, LevelIs DEF Even
  <2>3. t.parent[n] = NULL \/ Cardinality(S[t.parent[n]]) + Cardinality(Keys) > i + 1
    BY <1>6, <1>7, <1>9
  <2>4. Climbing(t, S, H, NULL, t.parent[n], d, T, i + 1)
    BY <1>4, <1>5, <1>6, <2>2, <2>3 DEF Climbing
  <2> QED
    BY <1>d, <2>4
<1>10. CASE k # NULL /\ ~Even(t, H, n)
  <2>1. H[n] # 1 + Larger(x, y)
    BY <1>1, <1>2, <1>4, <1>10 DEF Even
  <2>2. t.left[n] # t.right[n]
    BY <1>3, <1>5, <1>10, Sides
  <2>3. H[n] = 1 + Larger(Count(H, k, t.left[n]), Count(H, k, t.right[n]))
    BY <1>3, <1>5 DEF Level
  <2>4. H[n] + 1 = 1 + Larger(x, y) /\ d # 0
    <3>1. CASE k = t.left[n]
      <4>1. Count(H, k, t.left[n]) = x - 1 /\ Count(H, k, t.right[n]) = y
        BY <1>1, <1>2, <1>10, <2>2, <3>1 DEF Count
      <4>2. H[n] = 1 + Larger(x - 1, y)
        BY <2>3, <4>1
      <4> QED
        BY <1>4, <2>1, <4>2 DEF Larger
    <3>2. CASE k = t.right[n]
      <4>1. Count(H, k, t.left[n]) = x /\ Count(H, k, t.right[n]) = y - 1
        BY <1>1, <1>2, <1>10, <2>2, <3>2 DEF Count
      <4>2. H[n] = 1 + Larger(x, y - 1)
        BY <2>3, <4>1
      <4> QED
        BY <1>4, <2>1, <4>2 DEF Larger
    <3> QED
      BY <1>3, <1>10, <3>1, <3>2
  <2> DEFINE G == [H EXCEPT ![n] = H[n] + 1]
  <2>5. /\ G \in [Nodes -> Nat] /\ G[n] = H[n] + 1 /\ H[n] \in Nat
        /\ \A m \in Nodes : m # n => G[m] = H[m]
    BY <1>3
  <2> HIDE DEF G
  <2>6. \A m \in Nodes : Count(G, n, m) = H[m]
    BY <2>5, <1>3 DEF Count
  <2>7. G[NULL] = 0 /\ NULL \in Nodes
    BY <1>3, <2>5 DEF Nodes
  <2>8. Level(t, G, n)
    <3> SUFFICES ASSUME NEW m \in Keys
                 PROVE  /\ G[m] = 1 + Larger(H[t.left[m]], H[t.right[m]])
                        /\ H[t.left[m]] <= H[t.right[m]] + 1
                        /\ H[t.right[m]] <= H[t.left[m]] + 1
      <4>1. \A m \in Keys : t.left[m] \in Nodes /\ t.right[m] \in Nodes
        BY <1>5, ForestTyped
      <4>2. \A m \in Keys : Count(G, n, t.left[m]) = H[t.left[m]] /\ Count(G, n, t.right[m]) = H[t.right[m]]
        BY <2>6, <4>1
      <4> QED
        BY <2>5, <2>7, <4>2 DEF Level
    <3>1. CASE m = n
      BY <1>1, <1>2, <1>4, <2>4, <2>5, <3>1
    <3>2. CASE m # n
      <4>1. Even(t, H, m) /\ G[m] = H[m]
        BY <1>3, <2>5, <3>2 DEF Nodes
      <4> QED
        BY <4>1 DEF Even
    <3> QED
      BY <3>1, <3>2
  <2>9. d = G[t.right[n]] - G[t.left[n]]
    BY <1>3, <1>d, <2>5
  <2>10. Climbing(t, S, G, n, t.parent[n], d, T, i + 1)
    BY <1>3, <1>4, <1>5, <1>6, <1>7, <1>10, <2>4, <2>8, <2>9 DEF Climbing
  <2> QED
    BY <1>d, <2>10
<1> QED
  BY <1>8, <1>9, <1>10

\* A round that turns the tree ends the repair.
LEMMA ClimbTurned ==
  ASSUME NEW t, NEW S, NEW H, NEW k, k # NULL, NEW n, n # NULL, NEW b, NEW T, NEW i \in Nat,
         Climbing(t, S, H, k, n, b, T, i),
         NEW v, Levelled(v, 1, T), NEW m, m = v.left[n] \/ m = v.right[n]
  PROVE  /\ v \in Trees /\ m \in Nodes
         /\ \E U, G : Climbing(v, U, G, NULL, m, 0, T, i + 1)
<1>1. Forest(t, S, 1) /\ S[t.start] = T /\ n \in T
  BY DEF Climbing
<1>2. PICK U, G : Forest(v, U, 1) /\ U[v.start] = T /\ Level(v, G, NULL)
  BY DEF Levelled
<1>3. n \in Keys /\ U[n] \subseteq T
  BY <1>1, <1>2, Parent
<1>4. m \in Nodes
  BY <1>2, <1>3, ForestTyped
<1>5. m \in T \cup {NULL}
  <2>1. m # NULL => m \in U[n]
    BY <1>2, <1>3, <1>4, Kin DEF Nodes
  <2> QED
    BY <1>3, <2>1
<1>6. Cardinality(Keys) > i + 1 /\ Cardinality(Keys) \in Nat
  <2>1. k \in S[t.start] /\ n = t.parent[k] /\ Cardinality(S[k]) > i
    BY <1>1 DEF Climbing
  <2>2. Cardinality(S[k]) \in Nat /\ Cardinality(S[k]) < Cardinality(S[n])
    BY <1>1, <2>1, Upwards
  <2>3. Cardinality(S[n]) \in Nat /\ Cardinality(S[n]) <= Cardinality(Keys)
    BY <1>1, Upwards
  <2>4. Cardinality(Keys) \in Nat
    BY <1>1, Sizes
  <2> QED
    BY <2>1, <2>2, <2>3, <2>4
<1>7. m = NULL \/ Cardinality(U[m]) + Cardinality(Keys) > i + 1
  <2>1. Cardinality(U[m]) \in Nat
    BY <1>2, <1>4, Sizes
  <2> QED
    BY <1>6, <2>1
<1>8. Climbing(v, U, G, NULL, m, 0, T, i + 1)
  BY <1>2, <1>5, <1>7 DEF Climbing
<1> QED
  BY <1>2, <1>4, <1>8 DEF Forest

\* What a round of the climb does, by the heights x and y of the two sides.
LEMMA RoundIs ==
  ASSUME NEW t, NEW n, n # NULL, NEW b, NEW x \in Nat, NEW y \in Nat,
         MaxPath(t, t.left[n]) = x, MaxPath(t, t.right[n]) = y,
         NEW c, c.tree = t, c.node = n, c.childBalance = b,
         NEW v, v = FixRight(t, n, b), NEW w, w = FixLeft(t, n, b)
  PROVE  /\ y > x + 1 => BalanceStep(c) = [tree |-> v, node |-> v.right[n], childBalance |-> 0]
         /\ x > y + 1 => BalanceStep(c) = [tree |-> w, node |-> w.left[n], childBalance |-> 0]
         /\ y <= x + 1 /\ x <= y + 1 =>
              BalanceStep(c) = [tree |-> t, node |-> t.parent[n], childBalance |-> y - x]
<1>1. BalanceStep(c) = IF y - x > 1 THEN [tree |-> v, node |-> v.right[n], childBalance |-> 0]
                       ELSE IF y - x < -1 THEN [tree |-> w, node |-> w.left[n], childBalance |-> 0]
                       ELSE [tree |-> t, node |-> t.parent[n], childBalance |-> y - x]
  BY DEF BalanceStep
<1>2. /\ y - x > 1 <=> y > x + 1
      /\ y - x < -1 <=> x > y + 1
  OBVIOUS
<1> QED
  BY <1>1, <1>2

\* Only the side that grew can be too high.
LEMMA TooHigh ==
  ASSUME NEW t, NEW S, NEW H, NEW k, NEW n \in Keys, Level(t, H, k),
         t.left[n] \in Nodes, t.right[n] \in Nodes, t.left[n] # NULL => t.left[n] # t.right[n],
         NEW x \in Nat, NEW y \in Nat, x = H[t.left[n]], y = H[t.right[n]]
  PROVE  /\ y > x + 1 => k = t.right[n] /\ k # NULL
         /\ x > y + 1 => k = t.left[n] /\ k # NULL
<1>1. PICK l : l = Count(H, k, t.left[n])
  OBVIOUS
<1>2. PICK r : r = Count(H, k, t.right[n])
  OBVIOUS
<1>3. l <= r + 1 /\ r <= l + 1
  BY <1>1, <1>2 DEF Level
<1>4. (l = x - 1 /\ k = t.left[n] /\ k # NULL) \/ l = x
  BY <1>1 DEF Count
<1>5. (r = y - 1 /\ k = t.right[n] /\ k # NULL) \/ r = y
  BY <1>2 DEF Count
<1> QED
  BY <1>3, <1>4, <1>5

\* A round of the climb keeps the tree a tree of the same keys.
LEMMA ClimbStep ==
  ASSUME NEW c, NEW T, NEW i \in Nat, Climbs(c, T, i)
  PROVE  Climbs(BalanceStep(c), T, i + 1)
<1>1. PICK t : t = c.tree
  OBVIOUS
<1>2. PICK n : n = c.node
  OBVIOUS
<1>3. PICK b : b = c.childBalance
  OBVIOUS
<1>4. c \in ClimbStates /\ t \in Trees /\ n \in Nodes /\ b \in Int
  BY <1>1, <1>2, <1>3 DEF Climbs, ClimbStates
<1>5. PICK S, H, k : Climbing(t, S, H, k, n, b, T, i)
  BY <1>1, <1>2, <1>3 DEF Climbs
<1>6. Forest(t, S, 1) /\ S[t.start] = T /\ Level(t, H, k)
  BY <1>5 DEF Climbing
<1>7. CASE n = NULL
  <2>1. BalanceStep(c) = c
    BY <1>2, <1>7 DEF BalanceStep
  <2>2. Climbing(t, S, H, k, NULL, b, T, i)
    BY <1>5, <1>7
  <2>3. Level(t, H, NULL)
    BY <2>2, ClimbEnds
  <2>4. Climbing(t, S, H, NULL, n, b, T, i + 1)
    BY <1>4, <1>6, <1>7, <2>3 DEF Climbing
  <2> QED
    BY <1>1, <1>2, <1>3, <1>4, <2>1, <2>4 DEF Climbs
<1>8. CASE n # NULL
  <2>1. PICK x : x = H[t.left[n]]
    OBVIOUS
  <2>2. PICK y : y = H[t.right[n]]
    OBVIOUS
  <2>3. n \in Keys /\ n \in S[t.start]
    BY <1>5, <1>8, ClimbAt
  <2>4. t.left[n] \in Nodes /\ t.right[n] \in Nodes /\ t.parent[n] \in Nodes
    BY <1>6, <2>3, ForestTyped
  <2>5. t.left[n] # NULL => t.left[n] # t.right[n]
    BY <1>6, <2>3, Sides
  <2>6. x \in Nat /\ y \in Nat
    BY <1>6, <2>1, <2>2, <2>4 DEF Level
  <2>7. MaxPath(t, t.left[n]) = x /\ MaxPath(t, t.right[n]) = y
    <3>3. Heights(t, S, H, t.left[n]) /\ Heights(t, S, H, t.right[n])
      BY <1>5, <1>8, ClimbAt
    <3>1. MaxPath(t, t.left[n]) = H[t.left[n]]
      BY <1>6, <2>4, <3>3, MaxPathIs
    <3>2. MaxPath(t, t.right[n]) = H[t.right[n]]
      BY <1>6, <2>4, <3>3, MaxPathIs
    <3> QED
      BY <2>1, <2>2, <3>1, <3>2
  <2>8. PICK v : v = FixRight(t, n, b)
    OBVIOUS
  <2>9. PICK w : w = FixLeft(t, n, b)
    OBVIOUS
  <2>10. /\ y > x + 1 => BalanceStep(c) = [tree |-> v, node |-> v.right[n], childBalance |-> 0]
         /\ x > y + 1 => BalanceStep(c) = [tree |-> w, node |-> w.left[n], childBalance |-> 0]
         /\ y <= x + 1 /\ x <= y + 1 =>
              BalanceStep(c) = [tree |-> t, node |-> t.parent[n], childBalance |-> y - x]
    BY <1>1, <1>2, <1>3, <1>8, <2>6, <2>7, <2>8, <2>9, RoundIs
  <2>11. /\ y > x + 1 => k = t.right[n] /\ k # NULL
         /\ x > y + 1 => k = t.left[n] /\ k # NULL
    BY <1>6, <2>1, <2>2, <2>3, <2>4, <2>5, <2>6, TooHigh
  <2>12. k # NULL => /\ k \in Keys /\ t.left[k] \in Nodes /\ t.right[k] \in Nodes
                     /\ b = H[t.right[k]] - H[t.left[k]]
                     /\ b = 0 => H[k] = 1
    <3>1. k # NULL => k \in S[t.start]
      BY <1>5, <1>6 DEF Climbing
    <3>2. k # NULL => k \in Keys
      BY <1>6, <3>1, Parent
    <3>3. k # NULL => t.left[k] \in Nodes /\ t.right[k] \in Nodes
      BY <1>6, <3>2, ForestTyped
    <3> QED
      BY <1>5, <3>2, <3>3 DEF Climbing
  <2>13. k # NULL => /\ b < 0 <=> H[t.right[k]] < H[t.left[k]]
                     /\ b > 0 <=> H[t.left[k]] < H[t.right[k]]
                     /\ H[t.left[k]] = H[t.right[k]] => H[k] = 1
    <3> SUFFICES ASSUME k # NULL
                 PROVE  /\ b < 0 <=> H[t.right[k]] < H[t.left[k]]
                        /\ b > 0 <=> H[t.left[k]] < H[t.right[k]]
                        /\ H[t.left[k]] = H[t.right[k]] => H[k] = 1
      OBVIOUS
    <3>1. PICK p : p = H[t.left[k]]
      OBVIOUS
    <3>2. PICK q : q = H[t.right[k]]
      OBVIOUS
    <3>3. p \in Nat /\ q \in Nat /\ b = q - p
      <4>1. t.left[k] \in Nodes /\ t.right[k] \in Nodes
        BY <2>12
      <4>2. p \in Nat /\ q \in Nat
        BY <1>6, <3>1, <3>2, <4>1 DEF Level
      <4> QED
        BY <2>12, <3>1, <3>2, <4>2
    <3>4. (b < 0 <=> q < p) /\ (b > 0 <=> p < q) /\ (p = q => b = 0)
      BY <3>3
    <3> QED
      BY <2>12, <3>1, <3>2, <3>4
  <2>14. CASE y > x + 1
    <3>1. k = t.right[n] /\ k # NULL /\ k \in Keys
      BY <2>11, <2>12, <2>14
    <3>2. H[k] > H[t.left[n]] + 1
      BY <2>1, <2>2, <2>14, <3>1
    <3>3. Levelled(v, 1, T)
      BY <1>6, <2>3, <2>8, <2>13, <3>1, <3>2, FixedRight
    <3>4. PICK m : m = v.right[n]
      OBVIOUS
    <3>7. k # NULL /\ (m = v.left[n] \/ m = v.right[n])
      BY <3>1, <3>4
    <3>8. v \in Trees /\ m \in Nodes
      BY <1>5, <1>8, <3>3, <3>7, ClimbTurned
    <3>5. \E U, G : Climbing(v, U, G, NULL, m, 0, T, i + 1)
      BY <1>5, <1>8, <3>3, <3>7, ClimbTurned
    <3>6. BalanceStep(c) = [tree |-> v, node |-> m, childBalance |-> 0]
      BY <2>10, <2>14, <3>4
    <3> QED
      BY <3>5, <3>6, <3>8 DEF Climbs, ClimbStates
  <2>15. CASE x > y + 1
    <3>1. k = t.left[n] /\ k # NULL /\ k \in Keys
      BY <2>11, <2>12, <2>15
    <3>2. H[k] > H[t.right[n]] + 1
      BY <2>1, <2>2, <2>15, <3>1
    <3>3. Levelled(w, 1, T)
      BY <1>4, <1>6, <2>3, <2>9, <2>13, <3>1, <3>2, FixedLeft
    <3>4. PICK m : m = w.left[n]
      OBVIOUS
    <3>7. k # NULL /\ (m = w.left[n] \/ m = w.right[n])
      BY <3>1, <3>4
    <3>8. w \in Trees /\ m \in Nodes
      BY <1>5, <1>8, <3>3, <3>7, ClimbTurned
    <3>5. \E U, G : Climbing(w, U, G, NULL, m, 0, T, i + 1)
      BY <1>5, <1>8, <3>3, <3>7, ClimbTurned
    <3>6. BalanceStep(c) = [tree |-> w, node |-> m, childBalance |-> 0]
      BY <2>10, <2>15, <3>4
    <3> QED
      BY <3>5, <3>6, <3>8 DEF Climbs, ClimbStates
  <2>16. CASE y <= x + 1 /\ x <= y + 1
    <3>1. Close(H[t.left[n]], H[t.right[n]])
      BY <2>1, <2>2, <2>16 DEF Close
    <3>2. \E G, j : Climbing(t, S, G, j, t.parent[n], H[t.right[n]] - H[t.left[n]], T, i + 1)
      BY <1>5, <1>8, <3>1, ClimbOn
    <3>3. PICK d \in Int : d = y - x
      BY <2>6
    <3>4. \E G, j : Climbing(t, S, G, j, t.parent[n], d, T, i + 1)
      BY <2>1, <2>2, <3>2, <3>3
    <3>5. BalanceStep(c) = [tree |-> t, node |-> t.parent[n], childBalance |-> d]
      BY <2>10, <2>16, <3>3
    <3> QED
      BY <1>4, <2>4, <3>4, <3>5 DEF Climbs, ClimbStates
  <2> QED
    BY <2>6, <2>14, <2>15, <2>16
<1> QED
  BY <1>7, <1>8

\* A climb ends, and what it leaves is balanced.
LEMMA Balances ==
  ASSUME NEW t \in Trees, NEW n \in Nodes, NEW T,
         Climbs([tree |-> t, node |-> n, childBalance |-> 0], T, 0)
  PROVE  Levelled(Balance(t, n), 1, T)
<1> DEFINE f == [c \in ClimbStates |-> BalanceStep(c)]
           X == {c \in ClimbStates : \E i \in Nat : Climbs(c, T, i)}
           first == [tree |-> t, node |-> n, childBalance |-> 0]
           N == 4 * Cardinality(Keys)
<1>1. first \in X
  BY DEF Climbs
<1>2. \A c \in X : f[c] \in X
  <2> TAKE c \in X
  <2>1. PICK i \in Nat : Climbs(c, T, i)
    OBVIOUS
  <2>2. Climbs(BalanceStep(c), T, i + 1)
    BY <2>1, ClimbStep
  <2> QED
    BY <2>2 DEF Climbs
<1>3. Balance(t, n) = Rounds(f, first, N).tree
  BY DEF Balance, ClimbStates
<1>4. \A c \in X : c \in ClimbStates /\ f[c] = BalanceStep(c)
  OBVIOUS
<1>5. Climbs(first, T, 0)
  OBVIOUS
<1> HIDE DEF f, X, first
<1>6. PICK g : Loop(g, f, first, X)
  BY <1>1, <1>2, RoundsIterate
<1> DEFINE A == {i \in Nat : Climbs(g[i], T, i)}
<1>7. 0 \in A
  BY <1>5, <1>6 DEF Loop
<1>8. ASSUME NEW i \in Nat, i \in A PROVE i + 1 \in A
  <2>1. g[i + 1] = BalanceStep(g[i])
    BY <1>4, <1>6 DEF Loop
  <2>2. Climbs(BalanceStep(g[i]), T, i + 1)
    BY <1>8, ClimbStep
  <2> QED
    BY <2>1, <2>2
<1> HIDE DEF A
<1>9. Nat \subseteq A
  BY <1>7, <1>8, Inductive
<1>10. Cardinality(Keys) \in Nat /\ N \in Nat
  BY KeysAreNumbers, FS_CardinalityType
<1>11. Climbs(g[N], T, N)
  BY <1>9, <1>10 DEF A
<1>12. Balance(t, n) = g[N].tree
  BY <1>3, <1>6, <1>10 DEF Loop
<1>13. PICK S, H, k : Climbing(g[N].tree, S, H, k, g[N].node, g[N].childBalance, T, N)
  BY <1>11 DEF Climbs
<1>14. PICK v : v = g[N].tree
  OBVIOUS
<1>15. PICK m : m = g[N].node
  OBVIOUS
<1>16. Forest(v, S, 1) /\ S[v.start] = T /\ Level(v, H, k)
  BY <1>13, <1>14 DEF Climbing
<1>17. k = NULL
  <2> SUFFICES ASSUME k # NULL PROVE FALSE
    OBVIOUS
  <2>1. k \in S[v.start] /\ Cardinality(S[k]) > N
    BY <1>13, <1>16 DEF Climbing
  <2>2. Cardinality(S[k]) \in Nat /\ Cardinality(S[k]) <= Cardinality(Keys)
    BY <1>16, <2>1, Upwards
  <2> QED
    BY <1>10, <2>1, <2>2
<1> QED
  BY <1>12, <1>14, <1>16, <1>17 DEF Levelled

(***************************************************************************)
(* Searching.                                                              *)
(***************************************************************************)

\* A search for k that has come to n in i rounds has not missed it.
Searching(t, S, k, n, i) ==
  /\ n \in S[t.start] \cup {NULL}
  /\ k \in S[t.start] => k \in S[n]
  /\ n \notin {NULL, k} => Cardinality(S[n]) + i <= Cardinality(Keys)

\* A search starts at the root,
LEMMA SearchStarts ==
  ASSUME NEW t, NEW S, Forest(t, S, 1), NEW k \in Keys
  PROVE  Searching(t, S, k, t.start, 0)
<1>1. t.start \in Nodes /\ \A n \in Keys : n \in S[n]
  BY ForestTyped
<1>2. Cardinality(S[t.start]) \in Nat /\ Cardinality(S[t.start]) <= Cardinality(Keys)
  BY <1>1, Sizes
<1> QED
  BY <1>1, <1>2 DEF Searching, Nodes

\* goes down one side as long as it has not found its key,
LEMMA SearchNext ==
  ASSUME NEW t, NEW S, Forest(t, S, 1), NEW k \in Keys, NEW n, n \notin {NULL, k}, NEW i \in Nat,
         Searching(t, S, k, n, i)
  PROVE  /\ n \in Keys /\ n \in S[t.start] /\ Child(t, n, k) \in Nodes
         /\ Child(t, n, k) = t.left[n] \/ Child(t, n, k) = t.right[n]
         /\ Searching(t, S, k, Child(t, n, k), i + 1)
<1>1. n \in S[t.start] /\ Cardinality(S[n]) + i <= Cardinality(Keys)
  BY DEF Searching
<1>2. n \in Keys /\ S[n] \subseteq S[t.start]
  BY <1>1, Parent
<1>3. PICK m : m = Child(t, n, k)
  OBVIOUS
<1>4. /\ t.left[n] \in Nodes /\ t.right[n] \in Nodes
      /\ (n > k /\ m = t.left[n]) \/ (~(n > k) /\ m = t.right[n])
  BY <1>2, <1>3, ForestTyped DEF Child
<1>5. m \in Nodes
  BY <1>4
<1>6. m # NULL => m \in S[t.start]
  BY <1>2, <1>4, Kin DEF Nodes
<1>7. k \in S[n] => k \in S[m]
  <2>1. /\ S[n] = {n} \cup S[t.left[n]] \cup S[t.right[n]]
        /\ k \in S[t.left[n]] => Before(1, k, n)
        /\ k \in S[t.right[n]] => Before(1, n, k)
    BY <1>2 DEF Forest
  <2>2. Before(1, k, n) => n > k
    BY DEF Before
  <2>3. Before(1, n, k) => ~(n > k)
    BY <1>2, KeysAreNumbers DEF Before
  <2> QED
    BY <1>4, <2>1, <2>2, <2>3
<1>8. Cardinality(S[m]) + (i + 1) <= Cardinality(Keys)
  <2>1. /\ Cardinality(S[t.left[n]]) \in Nat /\ Cardinality(S[t.right[n]]) \in Nat
        /\ Cardinality(Keys) \in Nat
    BY <1>4, Sizes
  <2>2. Cardinality(S[n]) = 1 + Cardinality(S[t.left[n]]) + Cardinality(S[t.right[n]])
    BY <1>2, Sizes
  <2>3. Cardinality(S[m]) + 1 <= Cardinality(S[n]) /\ Cardinality(S[m]) \in Nat
    BY <1>4, <2>1, <2>2
  <2> QED
    BY <1>1, <2>1, <2>2, <2>3
<1>9. Searching(t, S, k, m, i + 1)
  BY <1>6, <1>7, <1>8 DEF Searching
<1> QED
  BY <1>1, <1>2, <1>3, <1>4, <1>5, <1>9

\* After as many rounds as there are keys a search is over.
LEMMA SearchEnds ==
  ASSUME NEW t, NEW S, Forest(t, S, 1), NEW k \in Keys, NEW n, NEW i \in Nat,
         i >= Cardinality(Keys), Searching(t, S, k, n, i)
  PROVE  IF k \in S[t.start] THEN n = k ELSE n = NULL
<1>1. n \in {NULL, k}
  <2> SUFFICES ASSUME n \notin {NULL, k} PROVE FALSE
    OBVIOUS
  <2>1. n \in S[t.start] /\ Cardinality(S[n]) + i <= Cardinality(Keys)
    BY DEF Searching
  <2>2. Cardinality(S[n]) \in Nat /\ 0 < Cardinality(S[n])
    BY <2>1, Upwards
  <2>3. Cardinality(Keys) \in Nat
    BY Sizes
  <2> QED
    BY <2>1, <2>2, <2>3
<1>2. S[NULL] = {} /\ NULL \notin Keys
  BY KeysAreNumbers DEF Forest
<1> QED
  BY <1>1, <1>2 DEF Searching

\* A search passes k at p on the side where k belongs.
Beside(t, S, k, p) ==
  \A a \in Keys : (p \in S[t.left[a]] => k < a) /\ (p \in S[t.right[a]] => a < k)

\* What a search for k leaves: the node, and the node before.
Reached(t, S, k, n, p) ==
  /\ p = NULL => n = t.start
  /\ p # NULL => p \in S[t.start] /\ p # k /\ n = Child(t, p, k) /\ Beside(t, S, k, p)

\* and keeps apart what is smaller and what is greater.
LEMMA ReachedNext ==
  ASSUME NEW t, NEW S, Forest(t, S, 1), NEW k \in Keys, NEW n \in S[t.start], n # k, NEW p,
         Reached(t, S, k, n, p)
  PROVE  Reached(t, S, k, Child(t, n, k), n)
<1>1. n \in Keys /\ n # NULL
  BY Parent, KeysAreNumbers
<1>2. ASSUME NEW a \in Keys
      PROVE  (n \in S[t.left[a]] => k < a) /\ (n \in S[t.right[a]] => a < k)
  <2>1. S[NULL] = {} /\ t.left[a] \in Nodes /\ t.right[a] \in Nodes
    BY ForestTyped DEF Forest
  <2>2. /\ t.left[a] # NULL => t.parent[t.left[a]] = a
        /\ t.right[a] # NULL => t.parent[t.right[a]] = a
    BY DEF Forest
  <2>3. \A c \in Keys : n \in S[c] => (n # c => t.parent[n] \in S[c] /\ t.parent[n] \in Keys)
    <3>1. \A c \in Keys : n \in S[c] => (n # c => t.parent[n] \in S[c])
      BY DEF Forest
    <3>2. \A c \in Keys : S[c] \subseteq Keys
      BY ForestTyped DEF Nodes
    <3> QED
      BY <3>1, <3>2
  <2>4. n = t.start => t.parent[n] = NULL
    BY <1>1 DEF Forest
  <2>5. CASE p = NULL
    <3>1. t.parent[n] = NULL
      BY <2>4, <2>5 DEF Reached
    <3>2. n \notin S[t.left[a]]
      <4>1. t.left[a] \in Keys => n # t.left[a]
        BY <2>2, <3>1, KeysAreNumbers
      <4> QED
        BY <2>1, <2>3, <3>1, <4>1, KeysAreNumbers DEF Nodes
    <3>3. n \notin S[t.right[a]]
      <4>1. t.right[a] \in Keys => n # t.right[a]
        BY <2>2, <3>1, KeysAreNumbers
      <4> QED
        BY <2>1, <2>3, <3>1, <4>1, KeysAreNumbers DEF Nodes
    <3> QED
      BY <3>2, <3>3
  <2>6. CASE p # NULL
    <3>1. p \in S[t.start] /\ p # k /\ n = Child(t, p, k) /\ Beside(t, S, k, p)
      BY <2>6 DEF Reached
    <3>2. p \in Keys
      BY <3>1, Parent
    <3>3. /\ p > k => n = t.left[p]
          /\ ~(p > k) => n = t.right[p]
      BY <3>1 DEF Child
    <3>4. t.parent[n] = p /\ t.left[p] # t.right[p]
      <4>1. t.left[p] # NULL => t.left[p] # t.right[p]
        BY <3>2, Sides
      <4>2. t.left[p] = t.right[p] => n = t.left[p]
        BY <3>3
      <4>3. t.parent[n] = p
        BY <1>1, <3>2, <3>3 DEF Forest
      <4> QED
        BY <1>1, <4>1, <4>2, <4>3
    <3>5. n \in S[t.left[a]] => k < a
      <4>1. n \in S[t.left[a]] => p \in S[t.left[a]] \/ n = t.left[a]
        BY <2>1, <2>3, <3>4 DEF Nodes
      <4>2. n = t.left[a] => a = p /\ p > k
        BY <1>1, <2>2, <3>3, <3>4
      <4> QED
        BY <3>1, <4>1, <4>2 DEF Beside
    <3>6. n \in S[t.right[a]] => a < k
      <4>1. n \in S[t.right[a]] => p \in S[t.right[a]] \/ n = t.right[a]
        BY <2>1, <2>3, <3>4 DEF Nodes
      <4>2. n = t.right[a] => a = p /\ ~(p > k)
        BY <1>1, <2>2, <3>3, <3>4
      <4>3. ~(p > k) => p < k
        BY <3>1, <3>2, KeysAreNumbers
      <4> QED
        BY <3>1, <4>1, <4>2, <4>3 DEF Beside
    <3> QED
      BY <3>5, <3>6
  <2> QED
    BY <2>5, <2>6
<1> QED
  BY <1>1, <1>2 DEF Reached, Beside

\* A search finds the keys of the tree, and otherwise the place for the key.
LEMMA FindKeyIs ==
  ASSUME NEW t, NEW S, Forest(t, S, 1), NEW k \in Keys
  PROVE  /\ FindKey(t, t.start, k).node = IF k \in S[t.start] THEN k ELSE NULL
         /\ FindKey(t, t.start, k).parent \in Nodes
         /\ Reached(t, S, k, FindKey(t, t.start, k).node, FindKey(t, t.start, k).parent)
<1> DEFINE Q == [node : Nodes, parent : Nodes]
           next(c) == [node |-> Child(t, c.node, k), parent |-> c.node]
           f == [c \in Q |-> IF c.node \in {NULL, k} THEN c ELSE next(c)]
           Is(c, i) == c \in Q /\ Searching(t, S, k, c.node, i) /\ Reached(t, S, k, c.node, c.parent)
           X == {c \in Q : \E i \in Nat : Is(c, i)}
           first == [node |-> t.start, parent |-> NULL]
           N == Cardinality(Keys)
<1>1. t.start \in Nodes /\ NULL \in Nodes
  BY ForestTyped DEF Nodes
<1>2. first \in Q /\ Is(first, 0)
  <2>1. first \in Q /\ first.node = t.start /\ first.parent = NULL
    BY <1>1
  <2>2. Searching(t, S, k, t.start, 0)
    BY SearchStarts
  <2>3. Reached(t, S, k, t.start, NULL)
    BY DEF Reached
  <2> HIDE DEF first
  <2> QED
    BY <2>1, <2>2, <2>3
<1>3. first \in X
  BY <1>2
<1>4. ASSUME NEW c, NEW i \in Nat, Is(c, i) PROVE c \in Q /\ Is(f[c], i + 1)
  <2>1. CASE c.node \in {NULL, k}
    <3>1. f[c] = c
      BY <1>4, <2>1
    <3>2. Searching(t, S, k, c.node, i + 1)
      BY <1>4, <2>1 DEF Searching
    <3> HIDE DEF f
    <3> QED
      BY <1>4, <3>1, <3>2
  <2>2. CASE c.node \notin {NULL, k}
    <3>1. PICK n : n = c.node
      OBVIOUS
    <3>2. Searching(t, S, k, n, i) /\ Reached(t, S, k, n, c.parent) /\ n \notin {NULL, k}
      BY <1>4, <2>2, <3>1
    <3>3. PICK m : m = Child(t, n, k)
      OBVIOUS
    <3>4. n \in Keys /\ n \in S[t.start] /\ m \in Nodes /\ Searching(t, S, k, m, i + 1)
      BY <3>2, <3>3, SearchNext
    <3>5. Reached(t, S, k, m, n)
      BY <3>2, <3>3, <3>4, ReachedNext
    <3>6. f[c] = [node |-> m, parent |-> n]
      BY <1>4, <2>2, <3>1, <3>3
    <3> HIDE DEF f
    <3> QED
      BY <1>4, <3>4, <3>5, <3>6 DEF Nodes
  <2> QED
    BY <2>1, <2>2
<1>5. FindKey(t, t.start, k) = Rounds(f, first, N)
  BY DEF FindKey
<1> HIDE DEF f, first, Is
<1>6. \A c \in X : f[c] \in X
  <2> TAKE c \in X
  <2>1. PICK i \in Nat : Is(c, i)
    OBVIOUS
  <2>2. Is(f[c], i + 1)
    BY <1>4, <2>1
  <2>3. f[c] \in Q
    BY <2>2 DEF Is
  <2> QED
    BY <2>2, <2>3
<1> HIDE DEF X, Q
<1>7. PICK g : Loop(g, f, first, X)
  BY <1>3, <1>6, RoundsIterate
<1> DEFINE A == {i \in Nat : Is(g[i], i)}
<1>8. 0 \in A
  BY <1>2, <1>7 DEF Loop
<1>9. ASSUME NEW i \in Nat, i \in A PROVE i + 1 \in A
  <2>1. g[i + 1] = f[g[i]]
    BY <1>7 DEF Loop
  <2>2. Is(f[g[i]], i + 1)
    BY <1>4, <1>9
  <2> QED
    BY <2>1, <2>2
<1> HIDE DEF A
<1>10. Nat \subseteq A
  BY <1>8, <1>9, Inductive
<1>11. N \in Nat
  BY KeysAreNumbers, FS_CardinalityType
<1>12. Is(g[N], N) /\ FindKey(t, t.start, k) = g[N]
  BY <1>5, <1>7, <1>10, <1>11 DEF A, Loop
<1>13. /\ g[N] \in Q /\ Searching(t, S, k, g[N].node, N)
       /\ Reached(t, S, k, g[N].node, g[N].parent)
  BY <1>12 DEF Is
<1>14. IF k \in S[t.start] THEN g[N].node = k ELSE g[N].node = NULL
  <2>1. N >= Cardinality(Keys)
    BY <1>11
  <2> QED
    BY <1>11, <1>13, <2>1, SearchEnds
<1>15. g[N].parent \in Nodes
  BY <1>13 DEF Q
<1> QED
  BY <1>12, <1>13, <1>14, <1>15

\* A search looks at as many nodes as there are on the way from the root.
LEMMA StepsIs ==
  ASSUME NEW S, Forest(tree, S, 1), NEW k \in S[tree.start]
  PROVE  Steps(k) = Depth(S, k)
<1> DEFINE Q == [node : Nodes, seen : Nat]
           next(c) == [node |-> Child(tree, c.node, k), seen |-> c.seen + 1]
           f == [c \in Q |-> IF c.node \in {NULL, k} THEN c ELSE next(c)]
           Is(c, i) == /\ c \in Q /\ Searching(tree, S, k, c.node, i)
                       /\ c.node # NULL => c.seen = Depth(S, c.node)
           X == {c \in Q : \E i \in Nat : Is(c, i)}
           first == [node |-> tree.start, seen |-> 1]
           N == Cardinality(Keys)
<1>1. tree.start \in Nodes /\ NULL \in Nodes /\ k \in Keys
  BY ForestTyped, Parent DEF Nodes
<1>2. first \in Q /\ Is(first, 0)
  <2>1. first \in Q /\ first.node = tree.start /\ first.seen = 1
    BY <1>1
  <2>2. Searching(tree, S, k, tree.start, 0)
    BY <1>1, SearchStarts
  <2>3. tree.start # NULL => 1 = Depth(S, tree.start)
    BY Depths
  <2> HIDE DEF first
  <2> QED
    BY <2>1, <2>2, <2>3
<1>3. first \in X
  BY <1>2
<1>4. ASSUME NEW c, NEW i \in Nat, Is(c, i) PROVE c \in Q /\ Is(f[c], i + 1)
  <2>1. CASE c.node \in {NULL, k}
    <3>1. f[c] = c
      BY <1>4, <2>1
    <3>2. Searching(tree, S, k, c.node, i + 1)
      BY <1>4, <2>1 DEF Searching
    <3> HIDE DEF f
    <3> QED
      BY <1>4, <3>1, <3>2
  <2>2. CASE c.node \notin {NULL, k}
    <3>1. PICK n : n = c.node
      OBVIOUS
    <3>2. Searching(tree, S, k, n, i) /\ n \notin {NULL, k} /\ c.seen = Depth(S, n)
      BY <1>4, <2>2, <3>1
    <3>3. PICK m : m = Child(tree, n, k)
      OBVIOUS
    <3>4. /\ n \in Keys /\ m \in Nodes /\ Searching(tree, S, k, m, i + 1)
          /\ m = tree.left[n] \/ m = tree.right[n]
      BY <1>1, <3>2, <3>3, SearchNext
    <3>5. m # NULL => Depth(S, m) = Depth(S, n) + 1
      BY <3>4, Depths DEF Nodes
    <3>6. f[c] = [node |-> m, seen |-> c.seen + 1]
      BY <1>4, <2>2, <3>1, <3>3
    <3>7. c.seen + 1 \in Nat /\ (m # NULL => c.seen + 1 = Depth(S, m))
      BY <1>4, <3>2, <3>5
    <3> HIDE DEF f
    <3>8. f[c].node = m /\ f[c].seen = c.seen + 1
      BY <3>6
    <3>9. f[c] \in Q
      BY <3>4, <3>6, <3>7
    <3> QED
      BY <1>4, <3>4, <3>7, <3>8, <3>9
  <2> QED
    BY <2>1, <2>2
<1>5. Steps(k) = Rounds(f, first, N).seen
  BY DEF Steps
<1> HIDE DEF f, first, Is
<1>6. \A c \in X : f[c] \in X
  <2> TAKE c \in X
  <2>1. PICK i \in Nat : Is(c, i)
    OBVIOUS
  <2>2. Is(f[c], i + 1)
    BY <1>4, <2>1
  <2>3. f[c] \in Q
    BY <2>2 DEF Is
  <2> QED
    BY <2>2, <2>3
<1> HIDE DEF X, Q
<1>7. PICK g : Loop(g, f, first, X)
  BY <1>3, <1>6, RoundsIterate
<1> DEFINE A == {i \in Nat : Is(g[i], i)}
<1>8. 0 \in A
  BY <1>2, <1>7 DEF Loop
<1>9. ASSUME NEW i \in Nat, i \in A PROVE i + 1 \in A
  <2>1. g[i + 1] = f[g[i]]
    BY <1>7 DEF Loop
  <2>2. Is(f[g[i]], i + 1)
    BY <1>4, <1>9
  <2> QED
    BY <2>1, <2>2
<1> HIDE DEF A
<1>10. Nat \subseteq A
  BY <1>8, <1>9, Inductive
<1>11. N \in Nat
  BY KeysAreNumbers, FS_CardinalityType
<1>12. Is(g[N], N) /\ Steps(k) = g[N].seen
  BY <1>5, <1>7, <1>10, <1>11 DEF A, Loop
<1>13. Searching(tree, S, k, g[N].node, N) /\ (g[N].node # NULL => g[N].seen = Depth(S, g[N].node))
  BY <1>12 DEF Is
<1>14. g[N].node = k
  <2>1. N >= Cardinality(Keys)
    BY <1>11
  <2> QED
    BY <1>1, <1>11, <1>13, <2>1, SearchEnds
<1> QED
  BY <1>1, <1>12, <1>13, <1>14, KeysAreNumbers

(***************************************************************************)
(* Inserting.                                                              *)
(***************************************************************************)

\* What is below each node with k below p.
Joined(S, p, k) == [x \in Nodes |-> IF p \in S[x] THEN S[x] \cup {k} ELSE S[x]]

\* The tree r is the tree t with k on the left of p.
Hung(t, r, p, k) ==
  /\ r \in Trees /\ r.start = t.start /\ r.right = t.right
  /\ r.left = [x \in Keys |-> IF x = p THEN k ELSE t.left[x]]
  /\ r.parent = [x \in Keys |-> IF x = k THEN p ELSE t.parent[x]]

\* A node in no tree is alone.
LEMMA Alone ==
  ASSUME NEW t, NEW S, NEW dir, Forest(t, S, dir), NEW k \in Keys \ S[t.start]
  PROVE  /\ t.left[k] = NULL /\ t.right[k] = NULL /\ t.parent[k] = NULL /\ S[k] = {k}
         /\ \A a \in Keys : k \in S[a] => a = k
         /\ \A a \in Keys : t.left[a] # k /\ t.right[a] # k
<1>1. /\ t.left[k] = NULL /\ t.right[k] = NULL /\ t.parent[k] = NULL
      /\ S[NULL] = {} /\ NULL \notin Keys /\ t.start \in Nodes
  BY KeysAreNumbers, ForestTyped DEF Forest
<1>2. S[k] = {k}
  BY <1>1 DEF Forest
<1>3. \A a \in Keys : k \in S[a] => a = k
  <2>1. \A a \in Keys : S[a] \subseteq Keys
    BY ForestTyped DEF Nodes
  <2>2. \A a \in Keys : k \in S[a] => (k # a => t.parent[k] \in S[a])
    BY DEF Forest
  <2> QED
    BY <1>1, <2>1, <2>2
<1>4. \A a \in Keys : t.left[a] # k /\ t.right[a] # k
  <2>1. k # NULL
    BY <1>1
  <2>2. \A a \in Keys : (t.left[a] = k => t.parent[k] = a) /\ (t.right[a] = k => t.parent[k] = a)
    BY <2>1 DEF Forest
  <2> QED
    BY <1>1, <2>2
<1> QED
  BY <1>1, <1>2, <1>3, <1>4

\* A new leaf that is hung where its key belongs leaves a forest.
LEMMA HungForest ==
  ASSUME NEW t, NEW S, NEW dir, Forest(t, S, dir), NEW k \in Keys \ S[t.start],
         NEW p \in S[t.start], t.left[p] = NULL, Before(dir, k, p),
         \A a \in Keys : p \in S[t.left[a]] => Before(dir, k, a),
         \A a \in Keys : p \in S[t.right[a]] => Before(dir, a, k),
         NEW r, Hung(t, r, p, k)
  PROVE  /\ Forest(r, Joined(S, p, k), dir)
         /\ Joined(S, p, k)[r.start] = S[t.start] \cup {k}
         /\ Joined(S, p, k)[k] = {k}
<1>1. PICK U : U = Joined(S, p, k)
  OBVIOUS
<1>2. /\ t.left[k] = NULL /\ t.right[k] = NULL /\ t.parent[k] = NULL /\ S[k] = {k}
      /\ \A a \in Keys : k \in S[a] => a = k
      /\ \A a \in Keys : t.left[a] # k /\ t.right[a] # k
  BY Alone
<1>3. /\ S \in [Nodes -> SUBSET Keys] /\ S[NULL] = {} /\ t.start \in Nodes
      /\ \A n \in Keys : n \in S[n] /\ t.left[n] \in Nodes /\ t.right[n] \in Nodes /\ t.parent[n] \in Nodes
  BY ForestTyped DEF Forest
<1>4. p \in Keys /\ p # k /\ p # NULL /\ k # NULL /\ NULL \notin Keys /\ NULL \in Nodes
      /\ \A n \in Keys : n \in Nodes
  BY Parent, KeysAreNumbers DEF Nodes
<1>5. /\ U \in [Nodes -> SUBSET Keys]
      /\ \A x \in Nodes : U[x] = IF p \in S[x] THEN S[x] \cup {k} ELSE S[x]
  BY <1>1, <1>3 DEF Joined
<1>6. U[NULL] = {} /\ U[k] = {k} /\ U[t.start] = S[t.start] \cup {k}
  BY <1>2, <1>3, <1>4, <1>5
<1>7. /\ r \in Trees /\ r.start = t.start
      /\ \A x \in Keys : r.right[x] = t.right[x]
      /\ \A x \in Keys : r.left[x] = IF x = p THEN k ELSE t.left[x]
      /\ \A x \in Keys : r.parent[x] = IF x = k THEN p ELSE t.parent[x]
  BY DEF Hung
<1>8. \A n \in Keys : S[n] = {n} \cup S[t.left[n]] \cup S[t.right[n]]
  BY DEF Forest
<1>9. p \notin S[t.left[p]] /\ p \notin S[t.right[p]]
  BY <1>4, Sides
<1>10. ASSUME NEW n \in Keys PROVE U[n] = {n} \cup U[r.left[n]] \cup U[r.right[n]]
  <2>1. CASE n = p
    <3>1. r.left[n] = k /\ r.right[n] = t.right[p] /\ S[p] = {p} \cup S[t.right[p]]
      BY <1>3, <1>4, <1>7, <1>8, <2>1
    <3>2. U[p] = S[p] \cup {k} /\ U[t.right[p]] = S[t.right[p]]
      BY <1>3, <1>4, <1>5, <1>9
    <3> QED
      BY <1>6, <2>1, <3>1, <3>2
  <2>2. CASE n # p
    <3>1. r.left[n] = t.left[n] /\ r.right[n] = t.right[n]
      BY <1>7, <2>2
    <3>2. p \in S[n] <=> p \in S[t.left[n]] \/ p \in S[t.right[n]]
      BY <1>8, <2>2
    <3>3. /\ U[n] = IF p \in S[n] THEN S[n] \cup {k} ELSE S[n]
          /\ U[t.left[n]] = IF p \in S[t.left[n]] THEN S[t.left[n]] \cup {k} ELSE S[t.left[n]]
          /\ U[t.right[n]] = IF p \in S[t.right[n]] THEN S[t.right[n]] \cup {k} ELSE S[t.right[n]]
      BY <1>3, <1>4, <1>5
    <3> QED
      BY <1>8, <3>1, <3>2, <3>3
  <2> QED
    BY <2>1, <2>2
<1>11. ASSUME NEW n \in Keys, NEW c \in U[r.left[n]] PROVE Before(dir, c, n)
  <2>1. CASE n = p
    BY <1>6, <1>7, <2>1
  <2>2. CASE n # p
    <3>1. c \in S[t.left[n]] \/ (c = k /\ p \in S[t.left[n]])
      BY <1>3, <1>5, <1>7, <2>2
    <3>2. c \in S[t.left[n]] => Before(dir, c, n)
      BY DEF Forest
    <3> QED
      BY <3>1, <3>2
  <2> QED
    BY <2>1, <2>2
<1>12. ASSUME NEW n \in Keys, NEW c \in U[r.right[n]] PROVE Before(dir, n, c)
  <2>1. c \in S[t.right[n]] \/ (c = k /\ p \in S[t.right[n]])
    BY <1>3, <1>5, <1>7
  <2>2. c \in S[t.right[n]] => Before(dir, n, c)
    BY DEF Forest
  <2> QED
    BY <2>1, <2>2
<1>13. ASSUME NEW n \in Keys
       PROVE  /\ r.left[n] # NULL => r.parent[r.left[n]] = n
              /\ r.right[n] # NULL => r.parent[r.right[n]] = n
  <2>1. /\ t.left[n] # NULL => t.parent[t.left[n]] = n
        /\ t.right[n] # NULL => t.parent[t.right[n]] = n
    BY DEF Forest
  <2>2. /\ t.left[n] # NULL => t.left[n] \in Keys
        /\ t.right[n] # NULL => t.right[n] \in Keys
    BY <1>3 DEF Nodes
  <2> QED
    BY <1>2, <1>7, <2>1, <2>2
<1>14. ASSUME NEW n \in Keys, r.parent[n] # NULL
       PROVE  r.left[r.parent[n]] = n \/ r.right[r.parent[n]] = n
  <2>1. CASE n = k
    BY <1>4, <1>7, <2>1
  <2>2. CASE n # k
    <3>1. r.parent[n] = t.parent[n] /\ t.parent[n] \in Keys
      BY <1>3, <1>7, <1>14, <2>2 DEF Nodes
    <3>2. t.left[t.parent[n]] = n \/ t.right[t.parent[n]] = n
      BY <1>14, <3>1 DEF Forest
    <3> QED
      BY <1>4, <1>7, <3>1, <3>2
  <2> QED
    BY <2>1, <2>2
<1>15. ASSUME NEW a \in Keys, NEW c \in U[a]
       PROVE  U[c] \subseteq U[a] /\ (c # a => r.parent[c] \in U[a])
  <2>1. CASE c = k
    <3>1. U[c] \subseteq U[a]
      BY <1>6, <2>1
    <3>2. c # a => p \in S[a] /\ r.parent[c] = p
      BY <1>2, <1>4, <1>5, <1>7, <2>1
    <3> QED
      BY <1>4, <1>5, <3>1, <3>2
  <2>2. CASE c # k
    <3>1. c \in S[a] /\ c \in Keys
      BY <1>3, <1>4, <1>5, <2>2
    <3>2. S[c] \subseteq S[a] /\ (c # a => t.parent[c] \in S[a])
      BY <3>1 DEF Forest
    <3>3. U[c] \subseteq U[a]
      BY <1>4, <1>5, <3>1, <3>2
    <3>4. r.parent[c] = t.parent[c] /\ S[a] \subseteq U[a]
      BY <1>4, <1>5, <1>7, <2>2, <3>1
    <3> QED
      BY <3>2, <3>3, <3>4
  <2> QED
    BY <2>1, <2>2
<1>16. r.start # NULL => r.parent[r.start] = NULL
  <2>1. t.start # NULL => t.parent[t.start] = NULL /\ t.start \in Keys /\ t.start # k
    BY <1>3 DEF Forest, Nodes
  <2> QED
    BY <1>7, <2>1
<1>17. ASSUME NEW n \in Keys \ U[r.start]
       PROVE  r.left[n] = NULL /\ r.right[n] = NULL /\ r.parent[n] = NULL
  <2>1. n \in Keys \ S[t.start] /\ n # k /\ n # p
    BY <1>6, <1>7
  <2>2. t.left[n] = NULL /\ t.right[n] = NULL /\ t.parent[n] = NULL
    BY <2>1, Alone
  <2> QED
    BY <1>7, <2>1, <2>2
<1>18. Forest(r, U, dir)
  BY <1>5, <1>6, <1>7, <1>10, <1>11, <1>12, <1>13, <1>14, <1>15, <1>16, <1>17 DEF Forest
<1> QED
  BY <1>1, <1>6, <1>7, <1>18

\* Levels do not tell left from right.
LEMMA MirrorLevel ==
  ASSUME NEW t \in Trees, NEW H, NEW k, Level(Mirror(t), H, k)
  PROVE  Level(t, H, k)
<1>1. Mirror(t).left = t.right /\ Mirror(t).right = t.left
  BY MirrorTree
<1>2. H \in [Nodes -> Nat] /\ H[NULL] = 0
  BY DEF Level
<1>3. \A m \in Keys : Count(H, k, t.left[m]) \in Int /\ Count(H, k, t.right[m]) \in Int
  <2>1. \A m \in Keys : t.left[m] \in Nodes /\ t.right[m] \in Nodes
    BY DEF Trees
  <2> QED
    BY <1>2, <2>1 DEF Count
<1>4. \A i, j \in Int : Larger(i, j) = Larger(j, i)
  BY DEF Larger
<1> HIDE DEF Mirror
<1>5. \A m \in Keys : /\ H[m] = 1 + Larger(Count(H, k, t.right[m]), Count(H, k, t.left[m]))
                      /\ Count(H, k, t.right[m]) <= Count(H, k, t.left[m]) + 1
                      /\ Count(H, k, t.left[m]) <= Count(H, k, t.right[m]) + 1
  BY <1>1 DEF Level
<1>6. \A m \in Keys : H[m] = 1 + Larger(Count(H, k, t.left[m]), Count(H, k, t.right[m]))
  BY <1>3, <1>4, <1>5
<1> QED
  BY <1>2, <1>5, <1>6 DEF Level

\* The heights of a tree with a new node on the left of p.
LEMMA HungLevel ==
  ASSUME NEW t, NEW S, NEW dir, Forest(t, S, dir), NEW k \in Keys \ S[t.start],
         NEW p \in S[t.start], t.left[p] = NULL, NEW r, Hung(t, r, p, k),
         NEW H, Level(t, H, NULL)
  PROVE  /\ Level(r, H, k) /\ H[k] = 1
         /\ r.left[k] = NULL /\ r.right[k] = NULL /\ r.parent[k] = p
         /\ r.right[p] # NULL => Level(r, H, NULL)
<1>1. /\ t.left[k] = NULL /\ t.right[k] = NULL
      /\ \A a \in Keys : t.left[a] # k /\ t.right[a] # k
  BY Alone
<1>2. /\ p \in Keys /\ p # k /\ k # NULL /\ NULL \in Nodes
      /\ \A n \in Keys : t.left[n] \in Nodes /\ t.right[n] \in Nodes /\ n \in Nodes
  <2>1. p \in Keys /\ p # k /\ k # NULL /\ NULL \in Nodes /\ \A n \in Keys : n \in Nodes
    BY Parent, KeysAreNumbers DEF Nodes
  <2>2. \A n \in Keys : t.left[n] \in Nodes /\ t.right[n] \in Nodes
    BY ForestTyped
  <2> QED
    BY <2>1, <2>2
<1>3. /\ r \in Trees
      /\ \A x \in Keys : r.right[x] = t.right[x]
      /\ \A x \in Keys : r.left[x] = IF x = p THEN k ELSE t.left[x]
      /\ r.parent[k] = p
  BY DEF Hung
<1>4. /\ H \in [Nodes -> Nat] /\ H[NULL] = 0
      /\ \A m \in Keys : /\ H[m] = 1 + Larger(H[t.left[m]], H[t.right[m]])
                         /\ H[t.left[m]] <= H[t.right[m]] + 1
                         /\ H[t.right[m]] <= H[t.left[m]] + 1
  BY DEF Level, Count
<1>5. H[k] = 1
  <2>1. H[k] = 1 + Larger(H[NULL], H[NULL])
    BY <1>1, <1>4
  <2> QED
    BY <1>4, <2>1 DEF Larger
<1>6. \A m \in Keys : Count(H, k, r.left[m]) = H[t.left[m]] /\ Count(H, k, r.right[m]) = H[t.right[m]]
  <2> TAKE m \in Keys
  <2>1. Count(H, k, r.right[m]) = H[t.right[m]]
    BY <1>1, <1>3 DEF Count
  <2>2. CASE m = p
    <3>1. r.left[m] = k /\ t.left[m] = NULL
      BY <1>3, <2>2
    <3>2. Count(H, k, k) = H[k] - 1
      BY <1>2 DEF Count
    <3> QED
      BY <1>4, <1>5, <2>1, <3>1, <3>2
  <2>3. CASE m # p
    BY <1>1, <1>3, <2>1, <2>3 DEF Count
  <2> QED
    BY <2>2, <2>3
<1>7. Level(r, H, k)
  BY <1>4, <1>6 DEF Level
<1>8. ASSUME r.right[p] # NULL PROVE Level(r, H, NULL)
  <2>1. PICK y : y = H[t.right[p]]
    OBVIOUS
  <2>2. y = 1 /\ H[p] = 2
    <3>1. y \in Nat /\ y <= 1 /\ H[p] = 1 + Larger(0, y)
      BY <1>2, <1>4, <2>1
    <3>2. t.right[p] \in Keys
      BY <1>2, <1>3, <1>8 DEF Nodes
    <3>3. y = 1 + Larger(H[t.left[t.right[p]]], H[t.right[t.right[p]]])
      BY <1>4, <2>1, <3>2
    <3>4. H[t.left[t.right[p]]] \in Nat /\ H[t.right[t.right[p]]] \in Nat
      BY <1>2, <1>4, <3>2
    <3>5. y >= 1
      BY <3>3, <3>4 DEF Larger
    <3> QED
      BY <3>1, <3>5 DEF Larger
  <2>3. ASSUME NEW m \in Keys
        PROVE  /\ H[m] = 1 + Larger(H[r.left[m]], H[r.right[m]])
               /\ H[r.left[m]] <= H[r.right[m]] + 1
               /\ H[r.right[m]] <= H[r.left[m]] + 1
    <3>1. CASE m = p
      <4>1. H[r.left[m]] = 1 /\ H[r.right[m]] = 1 /\ H[m] = 2
        BY <1>3, <1>5, <2>1, <2>2, <3>1
      <4> QED
        BY <4>1 DEF Larger
    <3>2. CASE m # p
      BY <1>3, <1>4, <3>2
    <3> QED
      BY <3>1, <3>2
  <2> QED
    BY <1>4, <2>3, LevelIs
<1> QED
  BY <1>1, <1>2, <1>3, <1>5, <1>7, <1>8

\* A key that is not in the tree gets its place below p, where p is NULL in an
\* empty tree.
LEMMA LinkupIs ==
  ASSUME NEW t, NEW S, Forest(t, S, 1), NEW k \in Keys \ S[t.start]
  PROVE  LET r == Linkup(t, k)  p == r.parent[k] IN
         IF t.start = NULL
         THEN /\ p = NULL /\ r \in Trees /\ r.start = k
              /\ r.left = t.left /\ r.right = t.right /\ r.parent = t.parent
         ELSE /\ p \in S[t.start] /\ p # k /\ Beside(t, S, k, p)
              /\ p > k => t.left[p] = NULL /\ Hung(t, r, p, k)
              /\ ~(p > k) => t.right[p] = NULL /\ r \in Trees /\ Hung(Mirror(t), Mirror(r), p, k)
<1>1. PICK q : q = IF t.start = NULL THEN t.parent[k] ELSE FindKey(t, t.start, k).parent
  OBVIOUS
<1>2. /\ t.left[k] = NULL /\ t.right[k] = NULL /\ t.parent[k] = NULL
      /\ NULL \notin Keys /\ NULL \in Nodes /\ k \in Nodes
  <2>1. t.left[k] = NULL /\ t.right[k] = NULL /\ t.parent[k] = NULL
    BY Alone
  <2> QED
    BY <2>1, KeysAreNumbers DEF Nodes
<1>3. /\ t \in Trees /\ t.start \in Nodes /\ t.left \in [Keys -> Nodes] /\ t.right \in [Keys -> Nodes]
      /\ t.parent \in [Keys -> Nodes]
  BY DEF Forest, Trees
<1>4. IF t.start = NULL THEN q = NULL
      ELSE /\ q \in S[t.start] /\ q \in Keys /\ q # k /\ Beside(t, S, k, q)
           /\ NULL = Child(t, q, k)
  <2>1. CASE t.start = NULL
    BY <1>1, <1>2, <2>1
  <2>2. CASE t.start # NULL
    <3>1. q = FindKey(t, t.start, k).parent
      BY <1>1, <2>2
    <3>2. FindKey(t, t.start, k).node = NULL
      BY FindKeyIs
    <3>3. Reached(t, S, k, NULL, q)
      <4>1. Reached(t, S, k, FindKey(t, t.start, k).node, FindKey(t, t.start, k).parent)
        BY FindKeyIs
      <4> QED
        BY <3>1, <3>2, <4>1
    <3>4. q \in S[t.start] /\ q # k /\ Beside(t, S, k, q) /\ NULL = Child(t, q, k)
      BY <2>2, <3>3 DEF Reached
    <3> QED
      BY <2>2, <3>4, Parent
  <2> QED
    BY <2>1, <2>2
<1> DEFINE s == [t EXCEPT !.left[k] = NULL, !.right[k] = NULL, !.parent[k] = q]
<1>5. Linkup(t, k) = IF q = NULL THEN [s EXCEPT !.start = k] ELSE Attach(s, q, k)
  BY <1>1 DEF Linkup
<1>6. /\ s \in Trees /\ s.start = t.start /\ s.left = t.left /\ s.right = t.right
      /\ s.parent = [x \in Keys |-> IF x = k THEN q ELSE t.parent[x]]
  <2>1. q \in Nodes
    BY <1>2, <1>4 DEF Nodes
  <2>2. [t.left EXCEPT ![k] = NULL] = t.left /\ [t.right EXCEPT ![k] = NULL] = t.right
    BY <1>2, <1>3
  <2>3. s.start = t.start /\ s.left = [t.left EXCEPT ![k] = NULL]
        /\ s.right = [t.right EXCEPT ![k] = NULL] /\ s.parent = [t.parent EXCEPT ![k] = q]
    BY <1>3 DEF Trees
  <2>4. s \in Trees
    BY <1>2, <1>3, <2>1 DEF Trees
  <2>5. [t.parent EXCEPT ![k] = q] = [x \in Keys |-> IF x = k THEN q ELSE t.parent[x]]
    BY <1>3
  <2> HIDE DEF s
  <2> QED
    BY <2>2, <2>3, <2>4, <2>5
<1> HIDE DEF s
<1>7. CASE t.start = NULL
  <2>1. q = NULL /\ Linkup(t, k) = [s EXCEPT !.start = k]
    BY <1>4, <1>5, <1>7
  <2>2. s.parent = t.parent
    BY <1>2, <1>3, <1>6, <2>1
  <2>3. [s EXCEPT !.start = k].parent[k] = NULL
    BY <1>2, <1>6, <2>2 DEF Trees
  <2>4. LET r == [s EXCEPT !.start = k] IN
        /\ r \in Trees /\ r.start = k /\ r.left = t.left /\ r.right = t.right /\ r.parent = t.parent
    BY <1>2, <1>6, <2>2 DEF Trees
  <2> QED
    BY <1>7, <2>1, <2>3, <2>4
<1>8. CASE t.start # NULL
  <2>1. q \in S[t.start] /\ q \in Keys /\ q # k /\ q # NULL /\ Beside(t, S, k, q) /\ NULL = Child(t, q, k)
    BY <1>2, <1>4, <1>8
  <2>2. PICK r : r = Linkup(t, k)
    OBVIOUS
  <2>3. r = Attach(s, q, k)
    BY <1>5, <2>1, <2>2
  <2>4. ASSUME q > k PROVE r.parent[k] = q /\ t.left[q] = NULL /\ Hung(t, r, q, k)
    <3>1. r = [s EXCEPT !.left[q] = k]
      BY <2>3, <2>4 DEF Attach
    <3>2. /\ r \in Trees /\ r.start = s.start /\ r.right = s.right /\ r.parent = s.parent
          /\ r.left = [s.left EXCEPT ![q] = k]
      BY <1>2, <1>6, <2>1, <3>1 DEF Trees
    <3>3. r.left = [x \in Keys |-> IF x = q THEN k ELSE t.left[x]]
      BY <1>3, <1>6, <3>2
    <3> QED
      BY <1>6, <2>1, <2>4, <3>2, <3>3 DEF Hung, Child
  <2>5. ASSUME ~(q > k)
        PROVE  r.parent[k] = q /\ t.right[q] = NULL /\ r \in Trees /\ Hung(Mirror(t), Mirror(r), q, k)
    <3>1. r = [s EXCEPT !.right[q] = k]
      BY <2>3, <2>5 DEF Attach
    <3>2. /\ r \in Trees /\ r.start = s.start /\ r.left = s.left /\ r.parent = s.parent
          /\ r.right = [s.right EXCEPT ![q] = k]
      BY <1>2, <1>6, <2>1, <3>1 DEF Trees
    <3>3. r.right = [x \in Keys |-> IF x = q THEN k ELSE t.right[x]]
      BY <1>3, <1>6, <3>2
    <3>4. /\ Mirror(t).start = t.start /\ Mirror(t).parent = t.parent
          /\ Mirror(t).left = t.right /\ Mirror(t).right = t.left
      BY <1>3, MirrorTree
    <3>5. /\ Mirror(r) \in Trees /\ Mirror(r).start = r.start /\ Mirror(r).parent = r.parent
          /\ Mirror(r).left = r.right /\ Mirror(r).right = r.left
      BY <3>2, MirrorTree
    <3> HIDE DEF Mirror
    <3>6. Hung(Mirror(t), Mirror(r), q, k)
      BY <1>6, <3>2, <3>3, <3>4, <3>5 DEF Hung
    <3> QED
      BY <1>6, <2>1, <2>5, <3>2, <3>6 DEF Child
  <2>6. r.parent[k] = q
    BY <2>4, <2>5
  <2> QED
    BY <1>8, <2>1, <2>2, <2>4, <2>5, <2>6
<1> QED
  BY <1>7, <1>8

\* k is a new node below p of the tree r, which holds T and k.
NewLeaf(r, U, H, k, p, T) ==
  /\ Forest(r, U, 1) /\ U[r.start] = T \cup {k} /\ U[k] = {k}
  /\ Level(r, H, k) /\ H[k] = 1 /\ r.left[k] = NULL /\ r.right[k] = NULL
  /\ p \in T \cup {NULL}
  /\ p = NULL \/ (r.left[p] # NULL /\ r.right[p] # NULL) => Level(r, H, NULL)

\* The tree with the new node, before it is balanced.
LEMMA LinkedUp ==
  ASSUME NEW t, NEW S, Forest(t, S, 1), NEW H, Level(t, H, NULL), NEW k \in Keys \ S[t.start],
         NEW r, r = Linkup(t, k), NEW p, p = r.parent[k]
  PROVE  \E U : NewLeaf(r, U, H, k, p, S[t.start])
<1>1. /\ t.left[k] = NULL /\ t.right[k] = NULL /\ S[k] = {k}
      /\ \A a \in Keys : t.left[a] # k /\ t.right[a] # k
  BY Alone
<1>2. /\ H \in [Nodes -> Nat] /\ H[NULL] = 0
      /\ \A m \in Keys : /\ H[m] = 1 + Larger(H[t.left[m]], H[t.right[m]])
                         /\ H[t.left[m]] <= H[t.right[m]] + 1
                         /\ H[t.right[m]] <= H[t.left[m]] + 1
  BY DEF Level, Count
<1>3. H[k] = 1
  <2>1. H[k] = 1 + Larger(H[NULL], H[NULL])
    BY <1>1, <1>2
  <2> QED
    BY <1>2, <2>1 DEF Larger
<1>4. CASE t.start = NULL
  <2>1. /\ p = NULL /\ r \in Trees /\ r.start = k
        /\ r.left = t.left /\ r.right = t.right /\ r.parent = t.parent
    BY <1>4, LinkupIs
  <2>2. S[t.start] = {}
    BY <1>4 DEF Forest
  <2>3. \A n \in Keys : t.left[n] = NULL /\ t.right[n] = NULL /\ t.parent[n] = NULL
    BY <2>2, Alone
  <2>4. Forest(r, S, 1)
    BY <2>1, <2>3 DEF Forest
  <2>5. Level(r, H, NULL)
    BY <1>2, <2>1, LevelIs
  <2>6. Level(r, H, k)
    BY <1>1, <2>1, <2>5 DEF Level, Count
  <2> QED
    BY <1>1, <1>3, <2>1, <2>2, <2>4, <2>5, <2>6 DEF NewLeaf
<1>5. CASE t.start # NULL
  <2>1. /\ p \in S[t.start] /\ p # k /\ Beside(t, S, k, p)
        /\ p > k => t.left[p] = NULL /\ Hung(t, r, p, k)
        /\ ~(p > k) => t.right[p] = NULL /\ r \in Trees /\ Hung(Mirror(t), Mirror(r), p, k)
    BY <1>5, LinkupIs
  <2>2. p \in Keys /\ p # NULL /\ Keys \subseteq Int
    BY <2>1, Parent, KeysAreNumbers
  <2>3. PICK U : U = Joined(S, p, k)
    OBVIOUS
  <2>4. CASE p > k
    <3>1. t.left[p] = NULL /\ Hung(t, r, p, k)
      BY <2>1, <2>4
    <3>2. Before(1, k, p) /\ \A a \in Keys : /\ p \in S[t.left[a]] => Before(1, k, a)
                                             /\ p \in S[t.right[a]] => Before(1, a, k)
      BY <2>1, <2>2, <2>4 DEF Beside, Before
    <3>3. Forest(r, U, 1) /\ U[r.start] = S[t.start] \cup {k} /\ U[k] = {k}
      BY <2>1, <2>3, <3>1, <3>2, HungForest
    <3>4. /\ Level(r, H, k) /\ r.left[k] = NULL /\ r.right[k] = NULL
          /\ r.right[p] # NULL => Level(r, H, NULL)
      BY <2>1, <3>1, HungLevel
    <3> QED
      BY <1>3, <2>1, <2>2, <3>3, <3>4 DEF NewLeaf
  <2>5. CASE ~(p > k)
    <3>1. t.right[p] = NULL /\ r \in Trees /\ Hung(Mirror(t), Mirror(r), p, k)
      BY <2>1, <2>5
    <3>2. PICK m : m = Mirror(t)
      OBVIOUS
    <3>3. PICK v : v = Mirror(r)
      OBVIOUS
    <3>4. /\ t \in Trees /\ m.start = t.start /\ m.left = t.right /\ m.right = t.left
          /\ v.start = r.start /\ v.left = r.right /\ v.right = r.left /\ Mirror(v) = r
          /\ v.parent = r.parent
      BY <3>1, <3>2, <3>3, MirrorTree DEF Forest
    <3>5. Forest(m, S, 0)
      <4>1. 1 = 1 <=> 0 # 1
        OBVIOUS
      <4> QED
        BY <3>2, <4>1, MirrorForest
    <3>6. Level(m, H, NULL)
      <4>1. t = Mirror(m) /\ m \in Trees
        BY <3>2, <3>4, MirrorTree
      <4> QED
        BY <4>1, MirrorLevel
    <3>7. /\ Before(0, k, p)
          /\ \A a \in Keys : p \in S[m.left[a]] => Before(0, k, a)
          /\ \A a \in Keys : p \in S[m.right[a]] => Before(0, a, k)
      BY <2>1, <2>2, <2>5, <3>4 DEF Beside, Before
    <3>8. k \in Keys \ S[m.start] /\ p \in S[m.start] /\ m.left[p] = NULL /\ Hung(m, v, p, k)
      BY <2>1, <3>1, <3>2, <3>3, <3>4
    <3>9. Forest(v, U, 0) /\ U[v.start] = S[m.start] \cup {k} /\ U[k] = {k}
      BY <2>3, <3>5, <3>7, <3>8, HungForest
    <3>10. /\ Level(v, H, k) /\ v.left[k] = NULL /\ v.right[k] = NULL
           /\ v.right[p] # NULL => Level(v, H, NULL)
      BY <3>5, <3>6, <3>8, HungLevel
    <3>11. Forest(r, U, 1)
      <4>1. 0 = 1 <=> 1 # 1
        OBVIOUS
      <4> QED
        BY <3>4, <3>9, <4>1, MirrorForest
    <3>12. Level(r, H, k) /\ (r.left[p] # NULL => Level(r, H, NULL))
      BY <3>1, <3>3, <3>4, <3>10, MirrorLevel
    <3> QED
      BY <1>3, <2>1, <2>2, <3>4, <3>9, <3>10, <3>11, <3>12 DEF NewLeaf
  <2> QED
    BY <2>4, <2>5
<1> QED
  BY <1>4, <1>5

\* An insertion adds its key, and leaves the tree balanced.
LEMMA InsertedIs ==
  ASSUME NEW t, NEW T, Levelled(t, 1, T), NEW k \in Keys \ T
  PROVE  Levelled(Inserted(t, k), 1, T \cup {k})
<1>1. PICK S, H : Forest(t, S, 1) /\ S[t.start] = T /\ Level(t, H, NULL)
  BY DEF Levelled
<1>2. PICK r : r = Linkup(t, k)
  OBVIOUS
<1>3. PICK p : p = r.parent[k]
  OBVIOUS
<1>8. PICK U : NewLeaf(r, U, H, k, p, T)
  <2>1. k \in Keys \ S[t.start]
    BY <1>1
  <2> QED
    BY <1>1, <1>2, <1>3, <2>1, LinkedUp
<1>4. /\ Forest(r, U, 1) /\ U[r.start] = T \cup {k} /\ U[k] = {k}
      /\ Level(r, H, k) /\ H[k] = 1 /\ r.left[k] = NULL /\ r.right[k] = NULL
      /\ p \in T \cup {NULL}
      /\ p = NULL \/ (r.left[p] # NULL /\ r.right[p] # NULL) => Level(r, H, NULL)
  BY <1>8 DEF NewLeaf
<1>5. Inserted(t, k) = IF p = NULL \/ (r.left[p] # NULL /\ r.right[p] # NULL) THEN r ELSE Balance(r, p)
  BY <1>2, <1>3 DEF Inserted
<1>6. CASE p = NULL \/ (r.left[p] # NULL /\ r.right[p] # NULL)
  BY <1>1, <1>4, <1>5, <1>6 DEF Levelled
<1>7. CASE ~(p = NULL \/ (r.left[p] # NULL /\ r.right[p] # NULL))
  <2>1. Inserted(t, k) = Balance(r, p)
    BY <1>5, <1>7
  <2>2. p \in Nodes /\ r \in Trees
    <3>1. t.start \in Nodes
      BY <1>1, ForestTyped
    <3>2. S[t.start] \subseteq Keys
      BY <1>1, <3>1, ForestTyped
    <3> QED
      BY <1>1, <1>4, <3>2 DEF Forest, Nodes
  <2>3. Cardinality(U[k]) > 0
    <3>1. Cardinality({k}) = 1
      BY FS_Singleton
    <3> QED
      BY <1>4, <3>1
  <2>4. 0 = H[r.right[k]] - H[r.left[k]]
    <3>1. H[NULL] = 0
      BY <1>1 DEF Level
    <3> QED
      BY <1>4, <3>1
  <2>5. k \in T \cup {k} /\ p \in (T \cup {k}) \cup {NULL} /\ k # NULL
    BY <1>1, <1>4, KeysAreNumbers
  <2>6. Climbing(r, U, H, k, p, 0, T \cup {k}, 0)
    BY <1>1, <1>3, <1>4, <2>3, <2>4, <2>5 DEF Climbing
  <2> DEFINE c == [tree |-> r, node |-> p, childBalance |-> 0]
  <2>7. c \in ClimbStates /\ c.tree = r /\ c.node = p /\ c.childBalance = 0
    BY <2>2 DEF ClimbStates
  <2> HIDE DEF c
  <2>8. Climbs(c, T \cup {k}, 0)
    BY <2>6, <2>7 DEF Climbs
  <2>9. Levelled(Balance(r, p), 1, T \cup {k})
    BY <2>2, <2>8, Balances DEF c
  <2> QED
    BY <2>1, <2>9
<1> QED
  BY <1>6, <1>7

(***************************************************************************)
(* The properties.                                                         *)
(***************************************************************************)

\* A balanced tree links its nodes both ways.
LEMMA LevelledLinked ==
  ASSUME NEW T, Levelled(tree, 1, T)
  PROVE  Linked
<1>1. PICK S, H : Forest(tree, S, 1) /\ S[tree.start] = T /\ Level(tree, H, NULL)
  BY DEF Levelled
<1> DEFINE N == Cardinality(Keys)
           next(Q) == Q \cup (({tree.left[k] : k \in Q} \cup {tree.right[k] : k \in Q}) \ {NULL})
           f == [Q \in SUBSET Keys |-> next(Q)]
           X == {Q \in SUBSET Keys : Q \subseteq S[tree.start]}
           first == {tree.start} \ {NULL}
<1>2. tree.start \in Nodes /\ \A n \in Keys : n \in S[n]
  BY <1>1, ForestTyped
<1>3. first \in X
  BY <1>2 DEF Nodes
<1>4. \A Q \in X : f[Q] \in X
  <2> TAKE Q \in X
  <2>1. \A k \in Q : /\ k \in Keys /\ S[k] \subseteq S[tree.start]
                     /\ tree.left[k] \in Nodes /\ tree.right[k] \in Nodes
    <3>1. \A k \in Q : k \in Keys /\ S[k] \subseteq S[tree.start]
      BY <1>1, Parent
    <3> QED
      BY <1>1, <3>1, ForestTyped
  <2>2. \A k \in Q : /\ tree.left[k] # NULL => tree.left[k] \in S[tree.start] /\ tree.left[k] \in Keys
                     /\ tree.right[k] # NULL => tree.right[k] \in S[tree.start] /\ tree.right[k] \in Keys
    <3> TAKE k \in Q
    <3>1. tree.left[k] # NULL => tree.left[k] \in S[k]
      BY <1>1, <2>1, Kin DEF Nodes
    <3>2. tree.right[k] # NULL => tree.right[k] \in S[k]
      BY <1>1, <2>1, Kin DEF Nodes
    <3> QED
      BY <2>1, <3>1, <3>2 DEF Nodes
  <2>3. next(Q) \in X
    BY <2>2
  <2> QED
    BY <2>3
<1>5. Below(tree.start) = Rounds(f, first, N)
  BY DEF Below
<1> HIDE DEF f, first
<1>6. PICK g : Loop(g, f, first, X)
  BY <1>3, <1>4, RoundsIterate
<1>7. N \in Nat
  BY KeysAreNumbers, FS_CardinalityType
<1>8. Below(tree.start) \in X
  BY <1>5, <1>6, <1>7 DEF Loop
<1>9. \A n \in Keys : /\ tree.left[n] # NULL => tree.parent[tree.left[n]] = n
                      /\ tree.right[n] # NULL => tree.parent[tree.right[n]] = n
  BY <1>1 DEF Forest
<1>10. tree.start # NULL => tree.parent[tree.start] = NULL
  BY <1>1 DEF Forest
<1> QED
  BY <1>8, <1>9, <1>10 DEF Linked

\* A search finds the keys of a tree, and no others.
LEMMA LevelledFinds ==
  ASSUME NEW t, NEW T, Levelled(t, 1, T)
  PROVE  T \subseteq Keys /\ T = {k \in Keys : Found(t, k) # NULL}
<1>1. PICK S, H : Forest(t, S, 1) /\ S[t.start] = T /\ Level(t, H, NULL)
  BY DEF Levelled
<1>2. ASSUME NEW k \in Keys PROVE Found(t, k) = IF k \in T THEN k ELSE NULL
  BY <1>1, FindKeyIs DEF Found
<1>3. T \subseteq Keys
  BY <1>1, ForestTyped
<1> QED
  BY <1>2, <1>3, KeysAreNumbers

\* What a search finds in a levelled tree is what is in it.
LEMMA LevelledHolds ==
  ASSUME NEW T, Levelled(tree, 1, T)
  PROVE  Held = T
  BY LevelledFinds DEF Held

\* A traversal of a tree is in order.
LEMMA LevelledInOrder ==
  ASSUME NEW T, Levelled(tree, 1, T)
  PROVE  InOrder
<1>1. PICK S, H : Forest(tree, S, 1) /\ S[tree.start] = T /\ Level(tree, H, NULL)
  BY DEF Levelled
<1>2. PICK ws : ws = Traverse(tree, tree.start)
  OBVIOUS
<1>3. Held = S[tree.start]
  BY <1>1, LevelledHolds
<1>4. CASE tree.start = NULL
  <2>1. ws = <<>>
    BY <1>2, <1>4 DEF Traverse
  <2>2. DOMAIN ws = {}
    BY <2>1
  <2>3. S[tree.start] = {}
    BY <1>1, <1>4 DEF Forest
  <2> QED
    BY <1>2, <1>3, <2>2, <2>3 DEF InOrder
<1>5. CASE tree.start # NULL
  <2>1. tree.start \in Keys
    BY <1>1, <1>5, ForestTyped DEF Nodes
  <2>2. Heights(tree, S, H, tree.start)
    <3>1. H \in [Nodes -> Nat] /\ H[NULL] = 0
          /\ \A m \in Keys : H[m] = 1 + Larger(H[tree.left[m]], H[tree.right[m]])
      BY <1>1 DEF Level, Count
    <3>2. S[tree.start] \subseteq Keys
      BY <1>1, <2>1, ForestTyped DEF Nodes
    <3> QED
      BY <3>1, <3>2 DEF Heights
  <2>3. Lists(ws, S, H, tree.start, 0)
    BY <1>1, <1>2, <2>1, <2>2, Traversed
  <2>4. /\ ws \in Seq(Keys \X Int)
        /\ \A q \in 1..Len(ws) : ws[q][1] \in S[tree.start]
        /\ \A k \in S[tree.start] : \E q \in 1..Len(ws) : ws[q][1] = k
        /\ \A p, q \in 1..Len(ws) : p < q => ws[p][1] < ws[q][1]
        /\ \A q \in 1..Len(ws) : ws[q][2] = 0 + Depth(S, ws[q][1]) - Depth(S, tree.start) + 1
    BY <2>3 DEF Lists, Visits
  <2>5. DOMAIN ws = 1..Len(ws)
    BY <2>4, LenProperties
  <2>6. {ws[k][1] : k \in DOMAIN ws} = Held
    <3>1. PICK Q : Q = S[tree.start]
      OBVIOUS
    <3>2. ASSUME NEW k \in DOMAIN ws PROVE ws[k][1] \in Q
      BY <2>4, <2>5, <3>1
    <3>3. ASSUME NEW k \in Q PROVE k \in {ws[q][1] : q \in DOMAIN ws}
      <4>1. PICK q \in DOMAIN ws : ws[q][1] = k
        BY <2>4, <2>5, <3>1, <3>3
      <4> QED
        BY <4>1
    <3>4. {ws[k][1] : k \in DOMAIN ws} = Q
      BY <3>2, <3>3, Zenon
    <3> QED
      BY <1>3, <3>1, <3>4
  <2>7. \A p, q \in DOMAIN ws : p < q => ws[p][1] < ws[q][1]
    BY <2>4, <2>5
  <2>8. ASSUME NEW q \in DOMAIN ws PROVE ws[q][2] = Steps(ws[q][1])
    <3>1. PICK k \in S[tree.start] : k = ws[q][1]
      BY <2>4, <2>5
    <3>2. Steps(k) = Depth(S, k)
      BY <1>1, StepsIs
    <3>3. Depth(S, k) \in Nat /\ Depth(S, tree.start) = 1
      <4>1. k \in Keys
        BY <1>1, Parent
      <4> QED
        BY <1>1, <1>5, <4>1, Depths
    <3>4. ws[q][2] = 0 + Depth(S, k) - Depth(S, tree.start) + 1
      BY <2>4, <2>5, <3>1
    <3> QED
      BY <3>1, <3>2, <3>3, <3>4
  <2> QED
    BY <1>2, <2>6, <2>7, <2>8 DEF InOrder
<1> QED
  BY <1>4, <1>5

\* The heights of a tree are the only ones it can have.
LEMMA HeightIs ==
  ASSUME NEW S, Forest(tree, S, 1), NEW H, Level(tree, H, NULL)
  PROVE  \A n \in Nodes : Height[n] = H[n]
<1> DEFINE Is(h) == h = [n \in Nodes |->
                           IF n = NULL THEN 0
                           ELSE 1 + (IF h[tree.left[n]] > h[tree.right[n]]
                                     THEN h[tree.left[n]] ELSE h[tree.right[n]])]
<1>1. H \in [Nodes -> Nat] /\ H[NULL] = 0
      /\ \A m \in Keys : H[m] = 1 + Larger(H[tree.left[m]], H[tree.right[m]])
  BY DEF Level, Count
<1>2. Is(H)
  BY <1>1 DEF Larger, Nodes
<1> DEFINE G == CHOOSE h : Is(h)
<1>3. Height = G
  BY DEF Height
<1>4. Is(G)
  BY <1>2
<1> HIDE DEF G
<1>5. G[NULL] = 0 /\ \A m \in Keys : G[m] = 1 + Larger(G[tree.left[m]], G[tree.right[m]])
  BY <1>4, KeysAreNumbers DEF Larger, Nodes
<1> HIDE DEF Is
<1> DEFINE A == {i \in Nat : \A n \in Nodes : Cardinality(S[n]) <= i => G[n] = H[n]}
<1>6. \A n \in Keys : /\ n \in Nodes /\ tree.left[n] \in Nodes /\ tree.right[n] \in Nodes
                      /\ Cardinality(S[n]) \in Nat
                      /\ Cardinality(S[tree.left[n]]) \in Nat /\ Cardinality(S[tree.right[n]]) \in Nat
                      /\ Cardinality(S[n]) = 1 + Cardinality(S[tree.left[n]]) + Cardinality(S[tree.right[n]])
  <2> TAKE n \in Keys
  <2>1. n \in Nodes /\ tree.left[n] \in Nodes /\ tree.right[n] \in Nodes
    BY ForestTyped DEF Nodes
  <2> QED
    BY <2>1, Sizes
<1>7. 0 \in A
  <2> SUFFICES ASSUME NEW n \in Nodes, Cardinality(S[n]) <= 0 PROVE G[n] = H[n]
    OBVIOUS
  <2>1. n = NULL
    BY <1>6 DEF Nodes
  <2> QED
    BY <1>1, <1>5, <2>1
<1>8. ASSUME NEW i \in Nat, i \in A PROVE i + 1 \in A
  <2> SUFFICES ASSUME NEW n \in Nodes, Cardinality(S[n]) <= i + 1 PROVE G[n] = H[n]
    OBVIOUS
  <2>1. CASE n = NULL
    BY <1>1, <1>5, <2>1
  <2>2. CASE n # NULL
    <3>1. n \in Keys
      BY <2>2 DEF Nodes
    <3>2. Cardinality(S[tree.left[n]]) <= i /\ Cardinality(S[tree.right[n]]) <= i
      BY <1>6, <3>1
    <3>3. G[tree.left[n]] = H[tree.left[n]] /\ G[tree.right[n]] = H[tree.right[n]]
      BY <1>6, <1>8, <3>1, <3>2
    <3> QED
      BY <1>1, <1>5, <3>1, <3>3
  <2> QED
    BY <2>1, <2>2
<1> HIDE DEF A
<1>9. Nat \subseteq A
  BY <1>7, <1>8, Inductive
<1>10. ASSUME NEW n \in Nodes PROVE G[n] = H[n]
  <2>1. Cardinality(S[n]) \in Nat
    BY Sizes
  <2>2. Cardinality(S[n]) \in A /\ Cardinality(S[n]) <= Cardinality(S[n])
    BY <1>9, <2>1
  <2> QED
    BY <2>2 DEF A
<1> QED
  BY <1>3, <1>10

\* The heights of a levelled tree differ by at most one at every node.
LEMMA LevelledBalanced ==
  ASSUME NEW T, Levelled(tree, 1, T)
  PROVE  Balanced
<1>1. PICK S, H : Forest(tree, S, 1) /\ S[tree.start] = T /\ Level(tree, H, NULL)
  BY DEF Levelled
<1>2. \A n \in Nodes : Height[n] = H[n]
  BY <1>1, HeightIs
<1>3. ASSUME NEW n \in Held PROVE Height[tree.left[n]] - Height[tree.right[n]] \in -1..1
  <2>1. n \in Keys
    BY DEF Held
  <2>2. tree.left[n] \in Nodes /\ tree.right[n] \in Nodes
    BY <1>1, <2>1, ForestTyped
  <2>3. /\ H[tree.left[n]] \in Nat /\ H[tree.right[n]] \in Nat
        /\ H[tree.left[n]] <= H[tree.right[n]] + 1 /\ H[tree.right[n]] <= H[tree.left[n]] + 1
    BY <1>1, <2>1, <2>2 DEF Level, Count
  <2>4. H[tree.left[n]] - H[tree.right[n]] \in -1..1
    BY <2>3
  <2>5. Height[tree.left[n]] = H[tree.left[n]] /\ Height[tree.right[n]] = H[tree.right[n]]
    BY <1>2, <2>2
  <2> QED
    BY <2>4, <2>5
<1> QED
  BY <1>3 DEF Balanced

\* The only node of a tree can be removed.
LEMMA RemovedIs ==
  ASSUME NEW t, NEW T, Levelled(t, 1, T), NEW d \in T, Cardinality(T) <= 1
  PROVE  T = {d} /\ Levelled(GivenBack(Removed(t, d), d), 1, {})
<1>1. PICK S, H : Forest(t, S, 1) /\ S[t.start] = T /\ Level(t, H, NULL)
  BY DEF Levelled
<1>2. T \subseteq Keys /\ d \in Keys /\ d # NULL /\ d \in S[t.start]
  BY <1>1, LevelledFinds, KeysAreNumbers
<1>3. T = {d}
  <2>1. IsFiniteSet(T) /\ Cardinality(T) \in Nat
    BY <1>2, KeysAreNumbers, FS_Subset, FS_CardinalityType
  <2>2. IsFiniteSet(T \ {d}) /\ Cardinality(T \ {d}) = Cardinality(T) - 1
    BY <2>1, FS_RemoveElement
  <2>3. Cardinality(T \ {d}) \in Nat
    BY <2>2, FS_CardinalityType
  <2>4. Cardinality(T \ {d}) = 0
    BY <2>1, <2>2, <2>3
  <2>5. T \ {d} = {}
    BY <2>2, <2>4, FS_EmptySet
  <2> QED
    BY <2>5
<1>4. t.start = d /\ t.parent[d] = NULL
  <2>1. t.start \in S[t.start]
    BY <1>1, <1>2, Parent, ForestTyped
  <2>2. t.start = d
    BY <1>1, <1>3, <2>1
  <2> QED
    BY <1>1, <1>2, <2>2 DEF Forest
<1>5. t.left[d] = NULL /\ t.right[d] = NULL
  <2>1. t.left[d] \in Nodes /\ t.right[d] \in Nodes /\ S[d] = {d}
    BY <1>1, <1>2, <1>3, <1>4, ForestTyped
  <2>2. t.left[d] \in Keys => FALSE
    <3>1. t.left[d] \in Keys => t.left[d] \in S[d] /\ t.left[d] # d
      BY <1>1, <1>2, Kin
    <3> QED
      BY <2>1, <3>1
  <2>3. t.right[d] \in Keys => FALSE
    <3>1. t.right[d] \in Keys => t.right[d] \in S[d] /\ t.right[d] # d
      BY <1>1, <1>2, Kin
    <3> QED
      BY <2>1, <3>1
  <2> QED
    BY <2>1, <2>2, <2>3 DEF Nodes
\* A search in nothing ends at once.
<1>6. ASSUME NEW k PROVE FindKey(t, NULL, k).parent = NULL
  <2> DEFINE first == [node |-> NULL, parent |-> NULL]
             f == [c \in [node : Nodes, parent : Nodes] |->
                     IF c.node \in {NULL, k} THEN c
                     ELSE [node |-> Child(t, c.node, k), parent |-> c.node]]
             N == Cardinality(Keys)
  <2>1. \A y \in {first} : f[y] \in {first}
    BY DEF Nodes
  <2>2. FindKey(t, NULL, k) = Rounds(f, first, N)
    BY DEF FindKey
  <2>3. N \in Nat
    BY KeysAreNumbers, FS_CardinalityType
  <2>a. first.parent = NULL
    OBVIOUS
  <2> HIDE DEF f, first, N
  <2>4. PICK g : Loop(g, f, first, {first})
    BY <2>1, RoundsIterate
  <2>5. FindKey(t, NULL, k) = first
    BY <2>2, <2>3, <2>4 DEF Loop
  <2> QED
    BY <2>5, <2>a
<1>7. Replacement(t, d) = NULL
  BY <1>5, <1>6 DEF Replacement, FindMin, FindMax
<1>8. FindKey(t, t.start, d).parent = NULL
  <2>1. PICK p : p = FindKey(t, t.start, d).parent
    OBVIOUS
  <2>2. Reached(t, S, d, FindKey(t, t.start, d).node, p)
    BY <1>1, <1>2, <2>1, FindKeyIs
  <2>3. p # NULL => p \in T /\ p # d
    BY <1>1, <2>2 DEF Reached
  <2> QED
    BY <1>3, <2>1, <2>3
<1>9. PICK s : s = [t EXCEPT !.start = NULL]
  OBVIOUS
<1>10. Removed(t, d) = Balance(s, NULL)
  BY <1>4, <1>7, <1>8, <1>9 DEF Removed
<1>11. /\ s \in Trees /\ s.start = NULL /\ s.left = t.left /\ s.right = t.right
       /\ s.parent = t.parent
  BY <1>1, <1>9 DEF Forest, Trees, Nodes
<1>12. \A n \in Keys : t.left[n] = NULL /\ t.right[n] = NULL /\ t.parent[n] = NULL
  <2>1. \A n \in Keys \ S[t.start] : t.left[n] = NULL /\ t.right[n] = NULL /\ t.parent[n] = NULL
    BY <1>1 DEF Forest
  <2> QED
    BY <1>1, <1>3, <1>4, <1>5, <2>1
<1>13. Forest(s, S, 1) /\ S[s.start] = {}
  BY <1>1, <1>11, <1>12 DEF Forest
<1>14. Level(s, H, NULL)
  BY <1>1, <1>11 DEF Level
<1>15. Climbing(s, S, H, NULL, NULL, 0, {}, 0)
  BY <1>13, <1>14 DEF Climbing
<1> DEFINE c == [tree |-> s, node |-> NULL, childBalance |-> 0]
<1>16. c \in ClimbStates /\ c.tree = s /\ c.node = NULL /\ c.childBalance = 0
  BY <1>11 DEF ClimbStates, Nodes
<1> HIDE DEF c
<1>17. Climbs(c, {}, 0)
  BY <1>15, <1>16 DEF Climbs
<1>18. PICK v : v = Removed(t, d)
  OBVIOUS
<1>19. Levelled(v, 1, {})
  <2>1. NULL \in Nodes
    BY DEF Nodes
  <2> QED
    BY <1>10, <1>11, <1>17, <1>18, <2>1, Balances DEF c
<1>20. GivenBack(v, d) = v
  <2>1. PICK U, G : Forest(v, U, 1) /\ U[v.start] = {} /\ Level(v, G, NULL)
    BY <1>19 DEF Levelled
  <2>2. v.left[d] = NULL /\ v.right[d] = NULL /\ v.parent[d] = NULL
    BY <1>2, <2>1, Alone
  <2>3. v \in Trees
    BY <2>1 DEF Forest
  <2>4. [v EXCEPT !.left[d] = NULL, !.right[d] = NULL, !.parent[d] = NULL] = v
    <3>1. /\ [v.left EXCEPT ![d] = NULL] = v.left
          /\ [v.right EXCEPT ![d] = NULL] = v.right
          /\ [v.parent EXCEPT ![d] = NULL] = v.parent
      BY <2>2, <2>3 DEF Trees
    <3>2. v.left \in [Keys -> Nodes] /\ v.right \in [Keys -> Nodes] /\ v.parent \in [Keys -> Nodes]
      BY <2>3 DEF Trees
    <3> DEFINE w == [v EXCEPT !.left[d] = NULL, !.right[d] = NULL, !.parent[d] = NULL]
    <3>3. /\ w.left = [v.left EXCEPT ![d] = NULL] /\ w.right = [v.right EXCEPT ![d] = NULL]
          /\ w.parent = [v.parent EXCEPT ![d] = NULL] /\ w.start = v.start
      BY <2>3 DEF Trees
    <3>4. w \in Trees
      BY <1>2, <2>3, <3>2 DEF Trees, Nodes
    <3> HIDE DEF w
    <3>5. w.left = v.left /\ w.right = v.right /\ w.parent = v.parent /\ w.start = v.start
      BY <3>1, <3>3
    <3>6. w = v
      BY <2>3, <3>4, <3>5 DEF Trees
    <3> QED
      BY <3>6 DEF w
  <2> QED
    BY <2>4 DEF GivenBack
<1> QED
  BY <1>3, <1>18, <1>19, <1>20

\* A loop that does not change its state.
LEMMA StandsStill ==
  ASSUME NEW f, NEW x, f[x] = x, NEW n \in Nat
  PROVE  Rounds(f, x, n) = x
<1>1. \A y \in {x} : f[y] \in {x}
  OBVIOUS
<1>2. PICK g : Loop(g, f, x, {x})
  BY <1>1, RoundsIterate
<1> QED
  BY <1>2 DEF Loop

\* A loop that is over after one round.
LEMMA OneRound ==
  ASSUME NEW f, NEW x, NEW y, f[x] = y, f[y] = y, NEW n \in Nat, n >= 1
  PROVE  Rounds(f, x, n) = y
<1>1. \A z \in {x, y} : f[z] \in {x, y}
  OBVIOUS
<1>2. PICK g : Loop(g, f, x, {x, y})
  BY <1>1, RoundsIterate
<1>3. g[0] = x /\ \A i \in Nat : g[i + 1] = f[g[i]]
  BY <1>2 DEF Loop
<1>4. g[1] = y
  <2>1. 0 + 1 = 1
    OBVIOUS
  <2>2. g[0 + 1] = f[g[0]]
    BY <1>3
  <2> QED
    BY <1>3, <2>1, <2>2
<1>5. \A i \in Nat : g[1 + i] = g[1] => g[(1 + i) + 1] = g[1]
  <2> TAKE i \in Nat
  <2> HAVE g[1 + i] = g[1]
  <2>1. g[(1 + i) + 1] = f[g[1 + i]]
    BY <1>3
  <2> QED
    BY <1>4, <2>1
<1>6. g[n] = g[1]
  BY <1>5, Settles
<1> QED
  BY <1>2, <1>4, <1>6 DEF Loop

\* Where there is a node there is a round for it.
LEMMA SomeRounds ==
  ASSUME NEW x \in Keys
  PROVE  Cardinality(Keys) \in Nat /\ Cardinality(Keys) >= 1
<1>1. IsFiniteSet(Keys) /\ Cardinality(Keys) \in Nat
  BY KeysAreNumbers, FS_CardinalityType
<1>2. Cardinality(Keys) # 0
  BY <1>1, FS_EmptySet
<1> QED
  BY <1>1, <1>2

\* x is nothing, or a leaf.
Twig(t, x) == x # NULL => x \in Keys /\ t.left[x] = NULL /\ t.right[x] = NULL /\ t.parent[x] # x

\* A leaf is one node deep.
LEMMA TwigPath ==
  ASSUME NEW t \in Trees, NEW x, Twig(t, x)
  PROVE  MaxPath(t, x) = IF x = NULL THEN 0 ELSE 1
<1>1. CASE x = NULL
  <2>1. Traverse(t, x) = <<>>
    BY <1>1 DEF Traverse
  <2>2. {Traverse(t, x)[k][2] : k \in DOMAIN Traverse(t, x)} = {}
    BY <2>1
  <2>3. MaxPath(t, x) = CHOOSE d \in {0} : \A e \in {0} : e <= d
    BY <2>2 DEF MaxPath
  <2> QED
    BY <1>1, <2>3
<1>2. CASE x # NULL
  <2> DEFINE stop == t.parent[x]
             f == [c \in WalkStates |-> WalkStep(t, stop, c)]
             first == At(x, stop, 0, <<>>)
             last == At(stop, x, 0, <<<<x, 1>>>>)
             N == 3 * Cardinality(Keys)
  <2>1. /\ x \in Keys /\ x \in Nodes /\ stop \in Nodes /\ stop # x /\ NULL \in Nodes
        /\ t.left[x] = NULL /\ t.right[x] = NULL
    BY <1>2 DEF Twig, Trees, Nodes
  <2>2. <<>> \in Visits /\ Append(<<>>, <<x, 1>>) = <<<<x, 1>>>> /\ <<<<x, 1>>>> \in Visits
    <3>1. <<x, 1>> \in Keys \X Int
      BY <2>1
    <3> QED
      BY <3>1, EmptySeq DEF Visits
  <2>3. first \in WalkStates /\ last \in WalkStates
    BY <2>1, <2>2 DEF WalkStates, At
  <2>4. WalkStep(t, stop, first) = last
    <3>1. /\ first.node = x /\ first.prev = stop /\ first.depth = 0 /\ first.visits = <<>>
      BY DEF At
    <3> HIDE DEF first
    <3>2. WalkStep(t, stop, first) =
            [node |-> stop, prev |-> x, depth |-> 0 + 1 - 1, visits |-> Append(<<>>, <<x, 0 + 1>>)]
      <4> DEFINE down == first.prev = t.parent[first.node]
                 depth == IF down THEN first.depth + 1 ELSE first.depth
                 left == down /\ t.left[first.node] # NULL
                 visit == ~left /\ (down \/ first.prev = t.left[first.node])
                 right == visit /\ t.right[first.node] # NULL
      <4>1. WalkStep(t, stop, first) =
              [node |-> IF left THEN t.left[first.node]
                        ELSE IF right THEN t.right[first.node] ELSE t.parent[first.node],
               prev |-> first.node,
               depth |-> IF left \/ right THEN depth ELSE depth - 1,
               visits |-> IF visit THEN Append(first.visits, <<first.node, depth>>) ELSE first.visits]
        BY <2>1, <3>1 DEF WalkStep
      <4>2. down /\ ~left /\ visit /\ ~right /\ depth = 0 + 1
        BY <2>1, <3>1
      <4> HIDE DEF down, depth, left, visit, right
      <4> QED
        BY <3>1, <4>1, <4>2
    <3> QED
      BY <2>2, <3>2 DEF At
  <2>5. WalkStep(t, stop, last) = last
    BY DEF WalkStep, At
  <2>6. f[first] = last /\ f[last] = last
    BY <2>3, <2>4, <2>5
  <2>7. Traverse(t, x) = Rounds(f, first, N).visits
    BY <1>2 DEF Traverse, WalkStates, Visits, At
  <2> HIDE DEF f, first
  <2>8. N \in Nat /\ N >= 1
    BY <2>1, SomeRounds
  <2> HIDE DEF N
  <2>9. Rounds(f, first, N) = last
    BY <2>6, <2>8, OneRound
  <2>10. Traverse(t, x) = <<<<x, 1>>>>
    BY <2>7, <2>9 DEF At
  <2>11. {Traverse(t, x)[k][2] : k \in DOMAIN Traverse(t, x)} = {1}
    BY <2>10
  <2>12. MaxPath(t, x) = CHOOSE d \in {0} \cup {1} : \A e \in {0} \cup {1} : e <= d
    BY <2>11 DEF MaxPath
  <2>13. \A d \in {0} \cup {1} : (\A e \in {0} \cup {1} : e <= d) <=> d = 1
    OBVIOUS
  <2>14. MaxPath(t, x) = 1
    BY <2>12, <2>13
  <2> QED
    BY <1>2, <2>14
<1> QED
  BY <1>1, <1>2

\* A root with nothing but leaves below it is left as it is.
LEMMA BalanceStays ==
  ASSUME NEW t \in Trees, NEW n \in Keys, t.parent[n] = NULL,
         Twig(t, t.left[n]), Twig(t, t.right[n])
  PROVE  Balance(t, n) = t
<1> DEFINE f == [c \in ClimbStates |-> BalanceStep(c)]
           b == MaxPath(t, t.right[n]) - MaxPath(t, t.left[n])
           first == [tree |-> t, node |-> n, childBalance |-> 0]
           last == [tree |-> t, node |-> NULL, childBalance |-> b]
           N == 4 * Cardinality(Keys)
<1>1. b \in -1..1
  <2>1. MaxPath(t, t.right[n]) \in {0, 1} /\ MaxPath(t, t.left[n]) \in {0, 1}
    BY TwigPath
  <2> QED
    BY <2>1
<1>2. first \in ClimbStates /\ last \in ClimbStates
  BY <1>1 DEF ClimbStates, Nodes
<1>3. BalanceStep(first) = last
  <2>1. first.tree = t /\ first.node = n /\ first.childBalance = 0 /\ n # NULL
    BY KeysAreNumbers
  <2>2. ~(b > 1) /\ ~(b < -1)
    BY <1>1
  <2> HIDE DEF first
  <2> QED
    BY <2>1, <2>2 DEF BalanceStep
<1>4. BalanceStep(last) = last
  BY DEF BalanceStep
<1>5. f[first] = last /\ f[last] = last
  BY <1>2, <1>3, <1>4
<1>6. Balance(t, n) = Rounds(f, first, N).tree
  BY DEF Balance, ClimbStates
<1> HIDE DEF f, first
<1>7. N \in Nat /\ N >= 1
  BY SomeRounds
<1> HIDE DEF N
<1>8. Rounds(f, first, N) = last
  BY <1>5, <1>7, OneRound
<1> QED
  BY <1>6, <1>8

\* A search for an extreme key that no node has ends at a leaf.
LEMMA TwigExtreme ==
  ASSUME NEW t \in Trees, NEW x, Twig(t, x), NEW k \in Nat \ Keys
  PROVE  FindKey(t, x, k).parent = x
<1> DEFINE Q == [node : Nodes, parent : Nodes]
           f == [c \in Q |-> IF c.node \in {NULL, k} THEN c
                             ELSE [node |-> Child(t, c.node, k), parent |-> c.node]]
           first == [node |-> x, parent |-> NULL]
           last == [node |-> NULL, parent |-> x]
           N == Cardinality(Keys)
<1>1. NULL \in Nodes /\ x \in Nodes
  BY DEF Twig, Nodes
<1>2. first \in Q /\ last \in Q
  BY <1>1
<1>3. FindKey(t, x, k) = Rounds(f, first, N)
  BY DEF FindKey
<1>4. N \in Nat
  BY KeysAreNumbers, FS_CardinalityType
<1>5. f[last] = last
  BY <1>2
<1>6. CASE x = NULL
  <2>1. f[first] = first
    BY <1>2, <1>6
  <2>2. first.parent = x
    BY <1>6
  <2> HIDE DEF f, first, N
  <2> QED
    BY <1>3, <1>4, <2>1, <2>2, StandsStill
<1>7. CASE x # NULL
  <2>1. x \in Keys /\ x # k /\ Child(t, x, k) = NULL
    BY <1>7 DEF Twig, Child
  <2>2. f[first] = last
    BY <1>2, <1>7, <2>1
  <2>3. N >= 1
    BY <2>1, SomeRounds
  <2>4. last.parent = x
    OBVIOUS
  <2> HIDE DEF f, first, last, N
  <2> QED
    BY <1>3, <1>4, <1>5, <2>2, <2>3, <2>4, OneRound
<1> QED
  BY <1>6, <1>7

\* The distance from a child to its parent.
LEMMA TwigDistance ==
  ASSUME NEW t \in Trees, NEW d \in Keys, NEW x \in Nodes, x # NULL => t.parent[x] = d /\ x # d
  PROVE  FindDistance(t, d, x) = IF x = NULL THEN 0 ELSE 1
<1> DEFINE Q == [node : Nodes, depth : Nat]
           f == [c \in Q |-> IF c.node \in {NULL, d} THEN c
                             ELSE [node |-> t.parent[c.node], depth |-> c.depth + 1]]
           first == [node |-> x, depth |-> 0]
           last == [node |-> d, depth |-> 1]
           N == Cardinality(Keys)
<1>1. first \in Q /\ last \in Q
  BY DEF Nodes
<1>2. FindDistance(t, d, x) = Rounds(f, first, N).depth
  BY DEF FindDistance
<1>3. N \in Nat /\ N >= 1
  BY SomeRounds
<1>4. f[last] = last
  BY <1>1
<1>5. CASE x = NULL
  <2>1. f[first] = first /\ first.depth = 0
    BY <1>1, <1>5
  <2> HIDE DEF f, first, N
  <2> QED
    BY <1>2, <1>3, <1>5, <2>1, StandsStill
<1>6. CASE x # NULL
  <2>1. f[first] = [node |-> t.parent[x], depth |-> 0 + 1]
    BY <1>1, <1>6
  <2>2. f[first] = last /\ last.depth = 1
    BY <1>6, <2>1
  <2> HIDE DEF f, first, last, N
  <2> QED
    BY <1>2, <1>3, <1>4, <1>6, <2>2, OneRound
<1> QED
  BY <1>5, <1>6

\* The tree t has the root q, of which l and r are leaves or nothing.
Small(t, q, l, r) ==
  /\ t \in Trees /\ q \in Keys /\ l \in Nodes /\ r \in Nodes
  /\ l # NULL => l < q
  /\ r # NULL => q < r
  /\ t.start = q /\ t.left[q] = l /\ t.right[q] = r /\ t.parent[q] = NULL
  /\ \A x \in Keys : x # q =>
       /\ t.left[x] = NULL /\ t.right[x] = NULL
       /\ t.parent[x] = IF x \in {l, r} THEN q ELSE NULL

\* The nodes of a small tree are different ones.
LEMMA SmallApart ==
  ASSUME NEW t, NEW q, NEW l, NEW r, Small(t, q, l, r)
  PROVE  /\ q # NULL /\ q # l /\ q # r
         /\ l # NULL => l \in Keys /\ l # r
         /\ r # NULL => r \in Keys /\ l # r
         /\ Twig(t, l) /\ Twig(t, r)
<1>1. q \in Keys /\ q # NULL /\ q \in Int
  BY KeysAreNumbers DEF Small
<1>2. /\ l # NULL => l \in Keys /\ l \in Int /\ l < q
      /\ r # NULL => r \in Keys /\ r \in Int /\ q < r
  BY KeysAreNumbers DEF Small, Nodes
<1>3. q # l /\ q # r
  BY <1>1, <1>2
<1>4. (l # NULL => l # r) /\ (r # NULL => l # r)
  BY <1>1, <1>2
<1>5. Twig(t, l)
  <2>1. l # NULL => t.left[l] = NULL /\ t.right[l] = NULL /\ t.parent[l] = q
    BY <1>2, <1>3 DEF Small
  <2> QED
    BY <1>2, <1>3, <2>1 DEF Twig
<1>6. Twig(t, r)
  <2>1. r # NULL => t.left[r] = NULL /\ t.right[r] = NULL /\ t.parent[r] = q
    BY <1>2, <1>3 DEF Small
  <2> QED
    BY <1>2, <1>3, <2>1 DEF Twig
<1> QED
  BY <1>1, <1>2, <1>3, <1>4, <1>5, <1>6

\* A small tree is levelled.
LEMMA SmallLevelled ==
  ASSUME NEW t, NEW q, NEW l, NEW r, Small(t, q, l, r)
  PROVE  Levelled(t, 1, {q, l, r} \ {NULL})
<1> DEFINE T == {q, l, r} \ {NULL}
           S == [n \in Nodes |-> IF n = NULL THEN {} ELSE IF n = q THEN T ELSE {n}]
           H == [n \in Nodes |-> IF n = NULL THEN 0
                                 ELSE IF n = q /\ (l # NULL \/ r # NULL) THEN 2 ELSE 1]
<1>1. /\ q \in Keys /\ q # NULL /\ q # l /\ q # r /\ l \in Nodes /\ r \in Nodes
      /\ l # NULL => l \in Keys /\ l # r /\ l < q
      /\ r # NULL => r \in Keys /\ l # r /\ q < r
      /\ NULL \notin Keys /\ NULL \in Nodes /\ Keys \subseteq Nodes
  BY SmallApart, KeysAreNumbers DEF Small, Nodes
<1>2. /\ t \in Trees /\ t.start = q /\ t.left[q] = l /\ t.right[q] = r /\ t.parent[q] = NULL
      /\ \A x \in Keys : x # q =>
           /\ t.left[x] = NULL /\ t.right[x] = NULL
           /\ t.parent[x] = IF x \in {l, r} THEN q ELSE NULL
  BY DEF Small
<1>3. /\ S \in [Nodes -> SUBSET Keys] /\ S[NULL] = {} /\ S[q] = T
      /\ \A n \in Keys : n # q => S[n] = {n}
  BY <1>1 DEF Nodes
<1>4. /\ H \in [Nodes -> Nat] /\ H[NULL] = 0
      /\ H[q] = IF l # NULL \/ r # NULL THEN 2 ELSE 1
      /\ \A n \in Keys : n # q => H[n] = 1
  BY <1>1 DEF Nodes
<1>5. /\ S[l] = IF l = NULL THEN {} ELSE {l}
      /\ S[r] = IF r = NULL THEN {} ELSE {r}
      /\ H[l] = IF l = NULL THEN 0 ELSE 1
      /\ H[r] = IF r = NULL THEN 0 ELSE 1
  BY <1>1, <1>3, <1>4
<1>6. T \subseteq Keys /\ q \in T /\ T = {q} \cup S[l] \cup S[r]
  BY <1>1, <1>5
<1> HIDE DEF T, S, H
<1>7. Forest(t, S, 1)
  <2>1. \A n \in Keys : S[n] = {n} \cup S[t.left[n]] \cup S[t.right[n]]
    <3> TAKE n \in Keys
    <3>1. CASE n = q
      BY <1>2, <1>3, <1>6, <3>1
    <3>2. CASE n # q
      BY <1>2, <1>3, <3>2
    <3> QED
      BY <3>1, <3>2
  <2>2. \A n \in Keys : \A k \in S[t.left[n]] : Before(1, k, n)
    <3> TAKE n \in Keys
    <3> TAKE k \in S[t.left[n]]
    <3>1. n = q /\ k = l /\ l # NULL
      BY <1>2, <1>3, <1>5
    <3> QED
      BY <1>1, <3>1 DEF Before
  <2>3. \A n \in Keys : \A k \in S[t.right[n]] : Before(1, n, k)
    <3> TAKE n \in Keys
    <3> TAKE k \in S[t.right[n]]
    <3>1. n = q /\ k = r /\ r # NULL
      BY <1>2, <1>3, <1>5
    <3> QED
      BY <1>1, <3>1 DEF Before
  <2>4. /\ \A n \in Keys : t.left[n] # NULL => t.parent[t.left[n]] = n
        /\ \A n \in Keys : t.right[n] # NULL => t.parent[t.right[n]] = n
    BY <1>1, <1>2
  <2>5. \A n \in Keys : t.parent[n] # NULL => t.left[t.parent[n]] = n \/ t.right[t.parent[n]] = n
    BY <1>1, <1>2
  <2>6. \A a \in Keys : \A c \in S[a] : S[c] \subseteq S[a] /\ (c # a => t.parent[c] \in S[a])
    <3> TAKE a \in Keys
    <3> TAKE c \in S[a]
    <3>1. CASE a # q
      BY <1>3, <3>1
    <3>2. CASE a = q /\ c = q
      BY <3>2
    <3>3. CASE a = q /\ c # q
      <4>1. c \in Keys /\ c \in {l, r} /\ S[c] = {c}
        BY <1>3, <1>5, <1>6, <3>3
      <4>2. t.parent[c] = q
        BY <1>2, <3>3, <4>1
      <4> QED
        BY <1>3, <1>6, <3>3, <4>1, <4>2
    <3> QED
      BY <3>1, <3>2, <3>3
  <2>7. \A n \in Keys \ S[t.start] : t.left[n] = NULL /\ t.right[n] = NULL /\ t.parent[n] = NULL
    <3> TAKE n \in Keys \ S[t.start]
    <3>1. n \in Keys /\ n # q /\ n \notin T
      BY <1>2, <1>3, <1>6
    <3>2. n \notin {l, r}
      BY <1>1, <3>1 DEF T
    <3> QED
      BY <1>2, <3>1, <3>2
  <2> QED
    BY <1>2, <1>3, <2>1, <2>2, <2>3, <2>4, <2>5, <2>6, <2>7 DEF Forest
<1>8. Level(t, H, NULL)
  <2>1. ASSUME NEW k \in Keys
        PROVE  /\ H[k] = 1 + Larger(H[t.left[k]], H[t.right[k]])
               /\ H[t.left[k]] <= H[t.right[k]] + 1 /\ H[t.right[k]] <= H[t.left[k]] + 1
    <3>1. CASE k = q
      <4>1. t.left[k] = l /\ t.right[k] = r
        BY <1>2, <3>1
      <4> QED
        BY <1>4, <1>5, <3>1, <4>1 DEF Larger
    <3>2. CASE k # q
      <4>1. t.left[k] = NULL /\ t.right[k] = NULL /\ H[k] = 1
        BY <1>2, <1>4, <3>2
      <4> QED
        BY <1>4, <4>1 DEF Larger
    <3> QED
      BY <3>1, <3>2
  <2> QED
    BY <1>4, <2>1, LevelIs
<1>9. S[t.start] = T
  BY <1>2, <1>3
<1> QED
  BY <1>7, <1>8, <1>9 DEF Levelled, T

\* A side that is deeper than a leaf has two nodes at least.
LEMMA DeepSide ==
  ASSUME NEW t, NEW S, NEW H, Forest(t, S, 1), Level(t, H, NULL), NEW c \in Nodes
  PROVE  /\ H[c] \in Nat /\ Cardinality(S[c]) \in Nat
         /\ H[c] >= 1 => Cardinality(S[c]) >= 1
         /\ H[c] >= 2 => Cardinality(S[c]) >= 2
         /\ c # NULL => H[c] >= 1
         /\ c # NULL /\ H[c] <= 1 => t.left[c] = NULL /\ t.right[c] = NULL /\ S[c] = {c}
<1>1. /\ H \in [Nodes -> Nat] /\ H[NULL] = 0
      /\ \A k \in Keys : H[k] = 1 + Larger(H[t.left[k]], H[t.right[k]])
  BY DEF Level, Count
<1>2. \A k \in Keys : /\ t.left[k] \in Nodes /\ t.right[k] \in Nodes
                      /\ H[t.left[k]] \in Nat /\ H[t.right[k]] \in Nat
  BY <1>1, ForestTyped
<1>3. \A k \in Keys : /\ H[k] >= 1
                      /\ H[k] <= 1 => H[t.left[k]] = 0 /\ H[t.right[k]] = 0
                      /\ H[k] >= 2 => H[t.left[k]] >= 1 \/ H[t.right[k]] >= 1
  <2> TAKE k \in Keys
  <2>1. PICK x, y : x = H[t.left[k]] /\ y = H[t.right[k]]
    OBVIOUS
  <2>2. x \in Nat /\ y \in Nat /\ H[k] = IF x > y THEN 1 + x ELSE 1 + y
    BY <1>1, <1>2, <2>1 DEF Larger
  <2>3. H[k] >= 1 /\ (H[k] <= 1 => x = 0 /\ y = 0) /\ (H[k] >= 2 => x >= 1 \/ y >= 1)
    BY <2>2
  <2> QED
    BY <2>1, <2>3
<1>4. /\ \A n \in Nodes : Cardinality(S[n]) \in Nat
      /\ Cardinality(S[NULL]) = 0
      /\ \A n \in Keys : Cardinality(S[n]) = 1 + Cardinality(S[t.left[n]]) + Cardinality(S[t.right[n]])
  BY Sizes
<1>5. \A n \in Nodes : H[n] >= 1 => n \in Keys /\ Cardinality(S[n]) >= 1
  <2> TAKE n \in Nodes
  <2> HAVE H[n] >= 1
  <2>1. n \in Keys
    BY <1>1 DEF Nodes
  <2>2. Cardinality(S[t.left[n]]) \in Nat /\ Cardinality(S[t.right[n]]) \in Nat
    BY <1>2, <1>4, <2>1
  <2> QED
    BY <1>4, <2>1, <2>2
<1>6. H[c] \in Nat /\ Cardinality(S[c]) \in Nat
  BY <1>1, <1>4
<1>7. H[c] >= 2 => Cardinality(S[c]) >= 2
  <2> HAVE H[c] >= 2
  <2>1. c \in Keys
    BY <1>5, <1>6
  <2>2. PICK x, y : x = Cardinality(S[t.left[c]]) /\ y = Cardinality(S[t.right[c]])
    OBVIOUS
  <2>3. x \in Nat /\ y \in Nat /\ Cardinality(S[c]) = 1 + x + y
    BY <1>2, <1>4, <2>1, <2>2
  <2>4. x >= 1 \/ y >= 1
    BY <1>2, <1>3, <1>5, <2>1, <2>2
  <2> QED
    BY <2>3, <2>4
<1>8. c # NULL /\ H[c] <= 1 => t.left[c] = NULL /\ t.right[c] = NULL /\ S[c] = {c}
  <2> HAVE c # NULL /\ H[c] <= 1
  <2>1. c \in Keys
    BY DEF Nodes
  <2>2. H[t.left[c]] = 0 /\ H[t.right[c]] = 0
    BY <1>3, <2>1
  <2>3. t.left[c] = NULL /\ t.right[c] = NULL
    BY <1>2, <1>3, <2>1, <2>2 DEF Nodes
  <2> QED
    BY <2>1, <2>3 DEF Forest
<1>9. c # NULL => H[c] >= 1
  BY <1>3 DEF Nodes
<1> QED
  BY <1>5, <1>6, <1>7, <1>8, <1>9

\* A levelled tree of three nodes or less is small.
LEMMA LevelledSmall ==
  ASSUME NEW t, NEW T, Levelled(t, 1, T), T # {}, Cardinality(T) <= 3
  PROVE  \E q, l, r : Small(t, q, l, r) /\ T = {q, l, r} \ {NULL}
<1>1. PICK S, H : Forest(t, S, 1) /\ S[t.start] = T /\ Level(t, H, NULL)
  BY DEF Levelled
<1>2. PICK q : q = t.start
  OBVIOUS
<1>3. PICK l, r : l = t.left[q] /\ r = t.right[q]
  OBVIOUS
<1>4. q \in Keys /\ q # NULL /\ S[NULL] = {} /\ t.parent[q] = NULL
  <2>1. PICK n : n \in S[t.start]
    BY <1>1
  <2>2. t.start \in Keys /\ S[NULL] = {}
    BY <1>1, <2>1, Parent DEF Forest
  <2> QED
    BY <1>1, <1>2, <2>2, KeysAreNumbers DEF Forest
<1>5. l \in Nodes /\ r \in Nodes
  BY <1>1, <1>3, <1>4, ForestTyped
<1>6. Cardinality(S[l]) + Cardinality(S[r]) <= 2
  <2>1. Cardinality(S[q]) = 1 + Cardinality(S[l]) + Cardinality(S[r])
    BY <1>1, <1>3, <1>4, Sizes
  <2>2. Cardinality(S[l]) \in Nat /\ Cardinality(S[r]) \in Nat
    BY <1>1, <1>5, Sizes
  <2> QED
    BY <1>1, <1>2, <2>1, <2>2
<1>7. H[l] <= 1 /\ H[r] <= 1
  <2>1. H[l] <= H[r] + 1 /\ H[r] <= H[l] + 1
    BY <1>1, <1>3, <1>4 DEF Level, Count
  <2>2. /\ H[l] \in Nat /\ Cardinality(S[l]) \in Nat
        /\ H[l] >= 1 => Cardinality(S[l]) >= 1
        /\ H[l] >= 2 => Cardinality(S[l]) >= 2
    BY <1>1, <1>5, DeepSide
  <2>3. /\ H[r] \in Nat /\ Cardinality(S[r]) \in Nat
        /\ H[r] >= 1 => Cardinality(S[r]) >= 1
        /\ H[r] >= 2 => Cardinality(S[r]) >= 2
    BY <1>1, <1>5, DeepSide
  <2> QED
    BY <1>6, <2>1, <2>2, <2>3
<1>8. /\ l # NULL => t.left[l] = NULL /\ t.right[l] = NULL /\ S[l] = {l}
      /\ r # NULL => t.left[r] = NULL /\ t.right[r] = NULL /\ S[r] = {r}
  BY <1>1, <1>5, <1>7, DeepSide
<1>9. T = {q, l, r} \ {NULL}
  <2>1. T = {q} \cup S[l] \cup S[r]
    BY <1>1, <1>2, <1>3, <1>4 DEF Forest
  <2>2. /\ S[l] = IF l = NULL THEN {} ELSE {l}
        /\ S[r] = IF r = NULL THEN {} ELSE {r}
    BY <1>4, <1>8
  <2> QED
    BY <1>4, <2>1, <2>2
<1>10. (l # NULL => l < q) /\ (r # NULL => q < r)
  <2>1. l # NULL => Before(1, l, q)
    BY <1>1, <1>3, <1>4, <1>8 DEF Forest
  <2>2. r # NULL => Before(1, q, r)
    BY <1>1, <1>3, <1>4, <1>8 DEF Forest
  <2> QED
    BY <2>1, <2>2 DEF Before
<1>11. ASSUME NEW x \in Keys, x # q
       PROVE  /\ t.left[x] = NULL /\ t.right[x] = NULL
              /\ t.parent[x] = IF x \in {l, r} THEN q ELSE NULL
  <2>1. CASE x \in {l, r}
    <3>1. x # NULL /\ t.left[x] = NULL /\ t.right[x] = NULL
      BY <1>8, <2>1, KeysAreNumbers
    <3>2. t.parent[x] = q
      BY <1>1, <1>3, <1>4, <2>1, <3>1 DEF Forest
    <3> QED
      BY <2>1, <3>1, <3>2
  <2>2. CASE x \notin {l, r}
    <3>1. x \in Keys \ S[t.start]
      BY <1>1, <1>9, <1>11, <2>2
    <3>2. t.left[x] = NULL /\ t.right[x] = NULL /\ t.parent[x] = NULL
      BY <1>1, <3>1 DEF Forest
    <3> QED
      BY <2>2, <3>2
  <2> QED
    BY <2>1, <2>2
<1>12. t \in Trees
  BY <1>1 DEF Forest
<1>13. Small(t, q, l, r)
  BY <1>2, <1>3, <1>4, <1>5, <1>10, <1>11, <1>12 DEF Small
<1> QED
  BY <1>9, <1>13

\* 0 and UINT32_MAX, for which the extremes are searched, are no keys.
Extremes == 0 \notin Keys /\ MaxKey \notin Keys

\* What takes the place of a node of a small tree.
LEMMA SmallReplacement ==
  ASSUME NEW t, NEW q, NEW l, NEW r, Small(t, q, l, r), Extremes
  PROVE  /\ Replacement(t, q) = IF r # NULL THEN r ELSE l
         /\ \A d \in Keys \ {q} : Replacement(t, d) = NULL
<1>1. /\ t \in Trees /\ q \in Keys /\ l \in Nodes /\ r \in Nodes /\ t.left[q] = l /\ t.right[q] = r
      /\ \A x \in Keys : x # q => t.left[x] = NULL /\ t.right[x] = NULL
      /\ \A x \in Keys : x \in {l, r} /\ x # q => t.parent[x] = q
  BY DEF Small
<1>2. /\ q # NULL /\ q # l /\ q # r
      /\ l # NULL => l \in Keys
      /\ r # NULL => r \in Keys
      /\ Twig(t, l) /\ Twig(t, r)
  BY SmallApart
<1>3. 0 \in Nat \ Keys /\ MaxKey \in Nat \ Keys
  BY KeysAssumption DEF Extremes
<1>4. ASSUME NEW x, Twig(t, x) PROVE FindMin(t, x) = x /\ FindMax(t, x) = x
  BY <1>1, <1>3, <1>4, TwigExtreme DEF FindMin, FindMax
<1>5. Twig(t, NULL) /\ NULL \in Nodes
  BY DEF Twig, Nodes
<1>6. Replacement(t, q) = IF r # NULL THEN r ELSE l
  <2>1. FindMin(t, t.left[q]) = l /\ FindMax(t, t.right[q]) = r
    BY <1>1, <1>2, <1>4
  <2>2. FindDistance(t, q, l) = IF l = NULL THEN 0 ELSE 1
    <3>1. l # NULL => t.parent[l] = q /\ l # q
      BY <1>1, <1>2
    <3> QED
      BY <1>1, <3>1, TwigDistance
  <2>3. FindDistance(t, q, r) = IF r = NULL THEN 0 ELSE 1
    <3>1. r # NULL => t.parent[r] = q /\ r # q
      BY <1>1, <1>2
    <3> QED
      BY <1>1, <3>1, TwigDistance
  <2>4. /\ MaxPath(t, l) = IF l = NULL THEN 0 ELSE 1
        /\ MaxPath(t, r) = IF r = NULL THEN 0 ELSE 1
    BY <1>1, <1>2, TwigPath
  <2> DEFINE PathLen(n) == FindDistance(t, q, n) + MaxPath(t, n)
  <2>5. PathLen(l) = (IF l = NULL THEN 0 ELSE 2) /\ PathLen(r) = (IF r = NULL THEN 0 ELSE 2)
    BY <2>2, <2>3, <2>4
  <2>6. Replacement(t, q) = IF PathLen(l) > PathLen(r) THEN l ELSE r
    BY <2>1 DEF Replacement
  <2> HIDE DEF PathLen
  <2> QED
    BY <2>5, <2>6
<1>7. ASSUME NEW d \in Keys \ {q} PROVE Replacement(t, d) = NULL
  <2>1. t.left[d] = NULL /\ t.right[d] = NULL
    BY <1>1
  <2>2. FindMin(t, t.left[d]) = NULL /\ FindMax(t, t.right[d]) = NULL
    BY <1>4, <1>5, <2>1
  <2> QED
    BY <2>2 DEF Replacement
<1> QED
  BY <1>6, <1>7

\* What an owner that clears its nodes makes of a node it gets back.
LEMMA GivenBackIs ==
  ASSUME NEW t \in Trees, NEW d \in Keys, Cleared
  PROVE  LET v == GivenBack(t, d) IN
         /\ v \in Trees /\ v.start = t.start
         /\ v.left[d] = NULL /\ v.right[d] = NULL /\ v.parent[d] = NULL
         /\ \A x \in Keys : x # d =>
              v.left[x] = t.left[x] /\ v.right[x] = t.right[x] /\ v.parent[x] = t.parent[x]
<1>1. /\ t.left \in [Keys -> Nodes] /\ t.right \in [Keys -> Nodes] /\ t.parent \in [Keys -> Nodes]
      /\ t.start \in Nodes /\ NULL \in Nodes
  BY DEF Trees, Nodes
<1>2. GivenBack(t, d) = [start |-> t.start, left |-> [t.left EXCEPT ![d] = NULL],
                         right |-> [t.right EXCEPT ![d] = NULL],
                         parent |-> [t.parent EXCEPT ![d] = NULL]]
  BY DEF GivenBack, Trees
<1> QED
  BY <1>1, <1>2 DEF Trees

\* A leaf of a small tree is removed.
LEMMA SmallLeafRemoved ==
  ASSUME NEW t, NEW q, NEW l, NEW r, Small(t, q, l, r), Extremes, Cleared,
         NEW d \in Keys, d \in {l, r}
  PROVE  Small(GivenBack(Removed(t, d), d), q, IF d = l THEN NULL ELSE l, IF d = r THEN NULL ELSE r)
<1>1. /\ t \in Trees /\ q \in Keys /\ l \in Nodes /\ r \in Nodes /\ NULL \in Nodes
      /\ t.start = q /\ t.left[q] = l /\ t.right[q] = r /\ t.parent[q] = NULL
      /\ \A x \in Keys : x # q =>
           /\ t.left[x] = NULL /\ t.right[x] = NULL
           /\ t.parent[x] = IF x \in {l, r} THEN q ELSE NULL
      /\ (l # NULL => l < q) /\ (r # NULL => q < r)
  BY DEF Small, Nodes
<1>2. /\ q # NULL /\ d # NULL /\ d # q /\ l # r /\ q # l /\ q # r
      /\ Twig(t, l) /\ Twig(t, r)
  BY SmallApart, KeysAreNumbers
<1>3. Replacement(t, d) = NULL
  BY <1>2, SmallReplacement
<1>4. FindKey(t, t.start, d).parent = q
  <2>1. PICK S, H : Forest(t, S, 1) /\ S[t.start] = {q, l, r} \ {NULL} /\ Level(t, H, NULL)
    BY SmallLevelled DEF Levelled
  <2>2. PICK p : p = FindKey(t, t.start, d).parent
    OBVIOUS
  <2>3. Reached(t, S, d, d, p)
    <3>1. d \in S[t.start]
      BY <1>2, <2>1
    <3> QED
      BY <2>1, <2>2, <3>1, FindKeyIs
  <2>4. p # NULL
    BY <1>1, <1>2, <2>3 DEF Reached
  <2>5. p \in Keys /\ d = Child(t, p, d)
    BY <2>1, <2>3, <2>4, Parent DEF Reached
  <2>6. d = t.left[p] \/ d = t.right[p]
    BY <2>5 DEF Child
  <2>7. p = q
    BY <1>1, <1>2, <2>5, <2>6
  <2> QED
    BY <2>2, <2>7
<1>5. t.parent[d] = q
  BY <1>1, <1>2
<1>6. PICK s : s = ReplaceRef(t, q, d, NULL)
  OBVIOUS
<1>7. Removed(t, d) = Balance(s, q)
  BY <1>2, <1>3, <1>4, <1>5, <1>6 DEF Removed
<1> DEFINE a == IF d = l THEN NULL ELSE l
           b == IF d = r THEN NULL ELSE r
<1>8. /\ s \in Trees /\ s.start = q /\ s.parent = t.parent
      /\ s.left[q] = a /\ s.right[q] = b
      /\ \A x \in Keys : x # q => s.left[x] = t.left[x] /\ s.right[x] = t.right[x]
  <2>1. CASE d = l
    <3>1. s = [start |-> t.start, left |-> [t.left EXCEPT ![q] = NULL], right |-> t.right,
               parent |-> t.parent]
      BY <1>1, <1>6, <2>1 DEF ReplaceRef, Trees
    <3>2. t.left \in [Keys -> Nodes] /\ t.right \in [Keys -> Nodes] /\ t.parent \in [Keys -> Nodes]
      BY <1>1 DEF Trees
    <3>3. a = NULL /\ b = r
      BY <1>2, <2>1
    <3> HIDE DEF a, b
    <3> QED
      BY <1>1, <3>1, <3>2, <3>3 DEF Trees
  <2>2. CASE d # l
    <3>1. s = [start |-> t.start, left |-> t.left, right |-> [t.right EXCEPT ![q] = NULL],
               parent |-> t.parent]
      BY <1>1, <1>6, <2>2 DEF ReplaceRef, Trees
    <3>2. t.left \in [Keys -> Nodes] /\ t.right \in [Keys -> Nodes] /\ t.parent \in [Keys -> Nodes]
      BY <1>1 DEF Trees
    <3>3. a = l /\ b = NULL
      BY <2>2
    <3> HIDE DEF a, b
    <3> QED
      BY <1>1, <3>1, <3>2, <3>3 DEF Trees
  <2> QED
    BY <2>1, <2>2
<1>9. /\ a \in Nodes /\ b \in Nodes
      /\ a # NULL => a = l /\ a \in Keys /\ a # q
      /\ b # NULL => b = r /\ b \in Keys /\ b # q
      /\ d \notin {a, b}
      /\ \A x \in Keys : x # d => (x \in {a, b} <=> x \in {l, r})
  BY <1>1, <1>2, KeysAreNumbers DEF Nodes
<1> HIDE DEF a, b
<1>10. Twig(s, a) /\ Twig(s, b)
  BY <1>2, <1>8, <1>9 DEF Twig
<1>11. Balance(s, q) = s
  BY <1>1, <1>8, <1>10, BalanceStays
<1>12. PICK v : v = GivenBack(s, d)
  OBVIOUS
<1>13. /\ v \in Trees /\ v.start = s.start
       /\ v.left[d] = NULL /\ v.right[d] = NULL /\ v.parent[d] = NULL
       /\ \A x \in Keys : x # d =>
            v.left[x] = s.left[x] /\ v.right[x] = s.right[x] /\ v.parent[x] = s.parent[x]
  BY <1>8, <1>12, GivenBackIs
<1>14. \A x \in Keys : x # q =>
         /\ v.left[x] = NULL /\ v.right[x] = NULL
         /\ v.parent[x] = IF x \in {a, b} THEN q ELSE NULL
  <2> TAKE x \in Keys
  <2> HAVE x # q
  <2>1. CASE x = d
    BY <1>9, <1>13, <2>1
  <2>2. CASE x # d
    BY <1>1, <1>8, <1>9, <1>13, <2>2
  <2> QED
    BY <2>1, <2>2
<1>15. /\ v.start = q /\ v.left[q] = a /\ v.right[q] = b /\ v.parent[q] = NULL
  BY <1>1, <1>2, <1>8, <1>13
<1>16. (a # NULL => a < q) /\ (b # NULL => q < b)
  BY <1>1, <1>9
<1>17. Small(v, q, a, b)
  BY <1>1, <1>9, <1>13, <1>14, <1>15, <1>16 DEF Small
<1> QED
  BY <1>7, <1>11, <1>12, <1>17 DEF a, b

\* The replacement n of the root q of a small tree, and what it gets below it.
LEMMA SmallReplaced ==
  ASSUME NEW t, NEW q, NEW l, NEW r, Small(t, q, l, r), NEW n \in Keys, NEW o,
         IF r # NULL THEN n = r /\ o = l ELSE n = l /\ o = NULL
  PROVE  LET v == Replaced([t EXCEPT !.start = n], q, n) IN
         /\ v \in Trees /\ v.start = n
         /\ v.left[q] = o /\ v.left[n] = o /\ v.right[q] = NULL /\ v.right[n] = NULL
         /\ v.parent[q] = NULL /\ v.parent[n] = NULL
         /\ \A x \in Keys : x \notin {q, n} =>
              /\ v.left[x] = NULL /\ v.right[x] = NULL
              /\ v.parent[x] = IF x = o THEN n ELSE NULL
<1>1. /\ t \in Trees /\ q \in Keys /\ l \in Nodes /\ r \in Nodes /\ NULL \in Nodes
      /\ t.start = q /\ t.left[q] = l /\ t.right[q] = r /\ t.parent[q] = NULL
      /\ \A x \in Keys : x # q =>
           /\ t.left[x] = NULL /\ t.right[x] = NULL
           /\ t.parent[x] = IF x \in {l, r} THEN q ELSE NULL
  BY DEF Small, Nodes
<1>2. q # NULL /\ q # l /\ q # r /\ n # NULL /\ n # q /\ o \in Nodes /\ o # n /\ o # q
  BY <1>1, SmallApart, KeysAreNumbers
<1>3. n \in {l, r} /\ t.left[n] = NULL /\ t.right[n] = NULL /\ t.parent[n] = q
  BY <1>1, <1>2
<1>4. PICK L, R, P : L = t.left /\ R = t.right /\ P = t.parent
  OBVIOUS
<1>5. L \in [Keys -> Nodes] /\ R \in [Keys -> Nodes] /\ P \in [Keys -> Nodes]
  BY <1>1, <1>4 DEF Trees
<1> DEFINE Tree(b, x, y, z) == [start |-> b, left |-> x, right |-> y, parent |-> z]
<1>6. PICK s0 : s0 = [t EXCEPT !.start = n]
  OBVIOUS
<1>7. s0 = Tree(n, L, R, P)
  BY <1>1, <1>4, <1>6 DEF Trees
<1>8. PICK s : s = [s0 EXCEPT !.parent[n] = s0.parent[q]]
  OBVIOUS
<1>9. s = Tree(n, L, R, [P EXCEPT ![n] = NULL])
  BY <1>1, <1>4, <1>7, <1>8
<1>10. PICK u : u = ReplaceRef(s, s0.parent[n], n, NULL)
  OBVIOUS
<1>11. u.start = n /\ u.parent = [P EXCEPT ![n] = NULL] /\ u \in Trees
       /\ u.left \in [Keys -> Nodes] /\ u.right \in [Keys -> Nodes]
       /\ u.left[q] = o /\ u.right[q] = NULL
       /\ \A x \in Keys : x # q => u.left[x] = NULL /\ u.right[x] = NULL
  <2>1. s0.parent[n] = q /\ s.left[q] = l /\ s.right[q] = r
    BY <1>1, <1>3, <1>4, <1>7, <1>9
  <2>2. CASE r # NULL
    <3>1. l # n /\ o = l
      BY <1>2, <2>2
    <3>2. u = Tree(n, L, [R EXCEPT ![q] = NULL], [P EXCEPT ![n] = NULL])
      BY <1>9, <1>10, <2>1, <3>1 DEF ReplaceRef
    <3> QED
      BY <1>1, <1>2, <1>4, <1>5, <3>1, <3>2 DEF Trees, Nodes
  <2>3. CASE r = NULL
    <3>1. l = n /\ o = NULL
      BY <2>3
    <3>2. u = Tree(n, [L EXCEPT ![q] = NULL], R, [P EXCEPT ![n] = NULL])
      BY <1>9, <1>10, <2>1, <3>1 DEF ReplaceRef
    <3> QED
      BY <1>1, <1>2, <1>4, <1>5, <2>3, <3>1, <3>2 DEF Trees, Nodes
  <2> QED
    BY <2>2, <2>3
<1>12. PICK w : w = [u EXCEPT !.left[n] = u.left[q], !.right[n] = u.right[q]]
  OBVIOUS
<1>13. w = Tree(n, [u.left EXCEPT ![n] = o], [u.right EXCEPT ![n] = NULL], [P EXCEPT ![n] = NULL])
  BY <1>11, <1>12 DEF Trees
<1>14. /\ w.start = n /\ w.parent = [P EXCEPT ![n] = NULL]
       /\ w.left \in [Keys -> Nodes] /\ w.right \in [Keys -> Nodes]
       /\ w.left[n] = o /\ w.left[q] = o /\ w.right[n] = NULL /\ w.right[q] = NULL
       /\ \A x \in Keys : x \notin {q, n} => w.left[x] = NULL /\ w.right[x] = NULL
  BY <1>1, <1>2, <1>11, <1>13
<1>15. PICK v : v = UpdateParentRef(UpdateParentRef(w, w.right[n], n), w.left[n], n)
  OBVIOUS
<1>16. v = UpdateParentRef(w, o, n)
  BY <1>14, <1>15 DEF UpdateParentRef
<1>17. v = Tree(n, w.left, w.right,
                IF o = NULL THEN [P EXCEPT ![n] = NULL] ELSE [[P EXCEPT ![n] = NULL] EXCEPT ![o] = n])
  BY <1>13, <1>16 DEF UpdateParentRef
<1>18. Replaced([t EXCEPT !.start = n], q, n) = v
  <2>1. (IF s0.left[n] # NULL THEN s0.left[n] ELSE s0.right[n]) = NULL
    BY <1>3, <1>4, <1>7
  <2> QED
    BY <1>6, <1>8, <1>10, <1>12, <1>15, <2>1 DEF Replaced
<1>19. /\ v.start = n /\ v.left = w.left /\ v.right = w.right
       /\ v.parent = IF o = NULL THEN [P EXCEPT ![n] = NULL]
                     ELSE [[P EXCEPT ![n] = NULL] EXCEPT ![o] = n]
       /\ v = Tree(v.start, v.left, v.right, v.parent)
  BY <1>17
<1>20. v.parent \in [Keys -> Nodes]
  <2>1. n \in Nodes
    BY DEF Nodes
  <2> QED
    BY <1>1, <1>5, <1>19, <2>1
<1>21. v \in Trees
  <2>1. n \in Nodes
    BY DEF Nodes
  <2> QED
    BY <1>14, <1>19, <1>20, <2>1 DEF Trees
<1>22. v.parent[q] = NULL /\ v.parent[n] = NULL
  BY <1>1, <1>2, <1>4, <1>5, <1>19
<1>23. ASSUME NEW x \in Keys, x \notin {q, n} PROVE v.parent[x] = IF x = o THEN n ELSE NULL
  <2>1. x # NULL /\ P[x] = (IF x \in {l, r} THEN q ELSE NULL) /\ (x \in {l, r} => x = o)
    BY <1>1, <1>4, <1>23, KeysAreNumbers
  <2>2. o = NULL => v.parent[x] = P[x]
    BY <1>5, <1>19, <1>23
  <2>3. o # NULL /\ x # o => v.parent[x] = P[x]
    BY <1>5, <1>19, <1>23
  <2>4. x = o => v.parent[x] = n
    BY <1>5, <1>19, <2>1
  <2> QED
    BY <2>1, <2>2, <2>3, <2>4
<1>24. /\ v.start = n
       /\ v.left[q] = o /\ v.left[n] = o /\ v.right[q] = NULL /\ v.right[n] = NULL
       /\ \A x \in Keys : x \notin {q, n} => v.left[x] = NULL /\ v.right[x] = NULL
  BY <1>14, <1>19
<1> HIDE DEF Tree
<1> QED
  BY <1>18, <1>21, <1>22, <1>23, <1>24

\* The root of a small tree is removed.
LEMMA SmallRootRemoved ==
  ASSUME NEW t, NEW q, NEW l, NEW r, Small(t, q, l, r), l # NULL \/ r # NULL, Extremes, Cleared
  PROVE  \E n, o : /\ Small(GivenBack(Removed(t, q), q), n, o, NULL)
                   /\ {n, o} \ {NULL} = {l, r} \ {NULL}
<1>1. PICK n, o : IF r # NULL THEN n = r /\ o = l ELSE n = l /\ o = NULL
  BY Zenon
<1>2. /\ t \in Trees /\ q \in Keys /\ l \in Nodes /\ r \in Nodes /\ NULL \in Nodes
      /\ t.start = q /\ t.parent[q] = NULL
      /\ \A x \in Keys : x # q => t.parent[x] = IF x \in {l, r} THEN q ELSE NULL
      /\ (l # NULL => l < q) /\ (r # NULL => q < r)
  BY DEF Small, Nodes
<1>3. /\ q # NULL /\ q # l /\ q # r
      /\ l # NULL => l \in Keys /\ l # r
      /\ r # NULL => r \in Keys /\ l # r
  BY SmallApart
<1>4. /\ n \in Keys /\ n # NULL /\ n # q /\ o # n /\ o # q /\ o \in Nodes
      /\ {n, o} \ {NULL} = {l, r} \ {NULL} /\ n \in {l, r}
  BY <1>1, <1>2, <1>3
<1>5. o # NULL => o < n
  <2>1. o # NULL => o = l /\ n = r /\ l \in Int /\ r \in Int /\ q \in Int /\ l < q /\ q < r
    BY <1>1, <1>2, <1>3, KeysAreNumbers
  <2> QED
    BY <2>1
<1>6. Replacement(t, q) = n
  BY <1>1, SmallReplacement
<1>7. PICK s : s = [t EXCEPT !.start = n]
  OBVIOUS
<1>8. s.parent[n] = q
  BY <1>2, <1>4, <1>7 DEF Trees
<1>9. PICK w : w = Replaced(s, q, n)
  OBVIOUS
<1>10. Removed(t, q) = Balance(w, q)
  BY <1>2, <1>4, <1>6, <1>7, <1>8, <1>9 DEF Removed
<1>11. /\ w \in Trees /\ w.start = n
       /\ w.left[q] = o /\ w.left[n] = o /\ w.right[q] = NULL /\ w.right[n] = NULL
       /\ w.parent[q] = NULL /\ w.parent[n] = NULL
       /\ \A x \in Keys : x \notin {q, n} =>
            /\ w.left[x] = NULL /\ w.right[x] = NULL
            /\ w.parent[x] = IF x = o THEN n ELSE NULL
  BY <1>1, <1>4, <1>7, <1>9, SmallReplaced
<1>12. Twig(w, o) /\ Twig(w, NULL)
  <2>1. o # NULL => o \in Keys
    BY <1>4 DEF Nodes
  <2> QED
    BY <1>4, <1>11, <2>1 DEF Twig
<1>13. Balance(w, q) = w
  BY <1>2, <1>11, <1>12, BalanceStays
<1>14. PICK v : v = GivenBack(w, q)
  OBVIOUS
<1>15. /\ v \in Trees /\ v.start = w.start
       /\ v.left[q] = NULL /\ v.right[q] = NULL /\ v.parent[q] = NULL
       /\ \A x \in Keys : x # q =>
            v.left[x] = w.left[x] /\ v.right[x] = w.right[x] /\ v.parent[x] = w.parent[x]
  BY <1>2, <1>11, <1>14, GivenBackIs
<1>16. ASSUME NEW x \in Keys, x # n
       PROVE  /\ v.left[x] = NULL /\ v.right[x] = NULL
              /\ v.parent[x] = IF x \in {o, NULL} THEN n ELSE NULL
  <2>1. x # NULL
    BY KeysAreNumbers
  <2>2. CASE x = q
    BY <1>4, <1>15, <2>1, <2>2
  <2>3. CASE x # q
    BY <1>11, <1>15, <1>16, <2>1, <2>3
  <2> QED
    BY <2>2, <2>3
<1>17. v.start = n /\ v.left[n] = o /\ v.right[n] = NULL /\ v.parent[n] = NULL
  BY <1>4, <1>11, <1>15
<1>18. Small(v, n, o, NULL)
  BY <1>2, <1>4, <1>5, <1>15, <1>16, <1>17 DEF Small
<1> QED
  BY <1>4, <1>10, <1>13, <1>14, <1>18

\* Removals that leave a tree: of the last node, or from a tree of three nodes or
\* less, when the owners of nodes clear them and the extremes are no keys.
RemovesLittle == RemoveBound <= 1 \/ (RemoveBound <= 3 /\ Cleared /\ Extremes)

\* A removal takes the node from the tree and leaves the others balanced.
LEMMA SmallRemoved ==
  ASSUME NEW t, NEW T, Levelled(t, 1, T), NEW d \in T, Cardinality(T) <= RemoveBound, RemovesLittle
  PROVE  Levelled(GivenBack(Removed(t, d), d), 1, T \ {d})
<1>1. T \subseteq Keys /\ Cardinality(T) \in Nat /\ RemoveBound \in Nat
  <2>1. T \subseteq Keys
    BY LevelledFinds
  <2> QED
    BY <2>1, KeysAreNumbers, FS_Subset, FS_CardinalityType, KeysAssumption
<1>2. CASE Cardinality(T) <= 1
  <2>1. T = {d} /\ Levelled(GivenBack(Removed(t, d), d), 1, {})
    BY <1>2, RemovedIs
  <2>2. T \ {d} = {}
    BY <2>1
  <2> QED
    BY <2>1, <2>2
<1>3. CASE ~(Cardinality(T) <= 1)
  <2>1. Cardinality(T) <= 3 /\ Cleared /\ Extremes
    <3>1. ~(RemoveBound <= 1)
      BY <1>1, <1>3
    <3>2. RemoveBound <= 3 /\ Cleared /\ Extremes
      BY <3>1 DEF RemovesLittle
    <3> QED
      BY <1>1, <3>2
  <2>2. PICK q, l, r : Small(t, q, l, r) /\ T = {q, l, r} \ {NULL}
    BY <2>1, LevelledSmall
  <2>3. /\ q \in Keys /\ q # NULL /\ q # l /\ q # r
        /\ l # NULL => l # r
        /\ r # NULL => l # r
        /\ d \in Keys /\ d # NULL
    BY <1>1, <2>2, SmallApart, KeysAreNumbers DEF Small
  <2>4. CASE d = q
    <3>1. l # NULL \/ r # NULL
      <4> SUFFICES ASSUME l = NULL, r = NULL PROVE FALSE
        OBVIOUS
      <4>1. T = {q}
        BY <2>2, <2>3
      <4>2. Cardinality(T) = 1
        BY <4>1, FS_Singleton
      <4> QED
        BY <1>3, <4>2
    <3>2. PICK n, o : /\ Small(GivenBack(Removed(t, q), q), n, o, NULL)
                      /\ {n, o} \ {NULL} = {l, r} \ {NULL}
      BY <2>1, <2>2, <3>1, SmallRootRemoved
    <3>3. Levelled(GivenBack(Removed(t, q), q), 1, {n, o, NULL} \ {NULL})
      BY <3>2, SmallLevelled
    <3>4. {n, o, NULL} \ {NULL} = T \ {q}
      <4>1. {n, o, NULL} \ {NULL} = {n, o} \ {NULL}
        OBVIOUS
      <4>2. T \ {q} = {l, r} \ {NULL}
        BY <2>2, <2>3
      <4> QED
        BY <3>2, <4>1, <4>2
    <3> QED
      BY <2>4, <3>3, <3>4
  <2>5. CASE d # q
    <3> DEFINE a == IF d = l THEN NULL ELSE l
               b == IF d = r THEN NULL ELSE r
    <3>1. d \in {l, r}
      BY <2>2, <2>5
    <3>2. Small(GivenBack(Removed(t, d), d), q, a, b)
      BY <2>1, <2>2, <2>3, <3>1, SmallLeafRemoved
    <3>3. {q, a, b} \ {NULL} = T \ {d}
      BY <2>2, <2>3, <2>5, <3>1
    <3> HIDE DEF a, b
    <3>4. Levelled(GivenBack(Removed(t, d), d), 1, {q, a, b} \ {NULL})
      BY <3>2, SmallLevelled
    <3> QED
      BY <3>3, <3>4
  <2> QED
    BY <2>4, <2>5
<1> QED
  BY <1>2, <1>3

\* The inductive invariant: the heap is a balanced tree of some keys.
BalancedTree == \E T : Levelled(tree, 1, T)

\* The empty tree is balanced.
LEMMA StartsBalanced == Init => BalancedTree
<1> SUFFICES ASSUME Init PROVE BalancedTree
  OBVIOUS
<1> DEFINE S == [n \in Nodes |-> IF n = NULL THEN {} ELSE {n}]
           H == [n \in Nodes |-> IF n = NULL THEN 0 ELSE 1]
<1>1. NULL \notin Keys /\ NULL \in Nodes /\ \A n \in Keys : n \in Nodes
  BY KeysAreNumbers DEF Nodes
<1>2. /\ tree \in Trees /\ tree.start = NULL
      /\ \A n \in Keys : tree.left[n] = NULL /\ tree.right[n] = NULL /\ tree.parent[n] = NULL
  BY <1>1 DEF Init, Trees
<1>3. /\ S \in [Nodes -> SUBSET Keys] /\ S[NULL] = {} /\ \A n \in Keys : S[n] = {n}
      /\ H \in [Nodes -> Nat] /\ H[NULL] = 0 /\ \A n \in Keys : H[n] = 1
  BY <1>1 DEF Nodes
<1> HIDE DEF S, H
<1>4. Forest(tree, S, 1) /\ S[tree.start] = {}
  BY <1>2, <1>3 DEF Forest
<1>5. Level(tree, H, NULL)
  BY <1>2, <1>3, LevelIs DEF Larger
<1> QED
  BY <1>4, <1>5 DEF Levelled, BalancedTree

\* Every step keeps it, and does to the keys what it says.
LEMMA StepKeepsBalanced ==
  ASSUME RemovesLittle, BalancedTree, Next
  PROVE  BalancedTree' /\ D!Next
<1>1. PICK T : Levelled(tree, 1, T)
  BY DEF BalancedTree
<1>2. Held = T /\ T \subseteq Keys /\ \A k \in Keys : k \in T <=> Found(tree, k) # NULL
  BY <1>1, LevelledFinds, LevelledHolds
<1>3. PICK key \in Keys : Insert(key) \/ InsertAgain(key) \/ Remove(key) \/ RemoveAbsent(key)
  BY DEF Next
<1>4. ASSUME NEW U, Levelled(tree', 1, U) PROVE BalancedTree' /\ Held' = U
  BY <1>4, LevelledFinds DEF BalancedTree, Held
<1>5. CASE Insert(key)
  <2>1. key \in Keys \ T /\ tree' = Inserted(tree, key) /\ res' = "ok"
    BY <1>2, <1>5 DEF Insert
  <2>2. Levelled(tree', 1, T \cup {key})
    BY <1>1, <2>1, InsertedIs
  <2>3. D!Insert(key)
    BY <1>2, <1>4, <2>1, <2>2 DEF D!Insert
  <2> QED
    BY <1>4, <2>2, <2>3 DEF D!Next
<1>6. CASE InsertAgain(key)
  <2>1. key \in T /\ tree' = tree /\ res' = "exists"
    BY <1>2, <1>6 DEF InsertAgain
  <2>2. Levelled(tree', 1, T)
    BY <1>1, <2>1
  <2>3. D!InsertAgain(key)
    BY <1>2, <1>4, <2>1, <2>2 DEF D!InsertAgain
  <2> QED
    BY <1>4, <2>2, <2>3 DEF D!Next
<1>7. CASE Remove(key)
  <2>1. /\ key \in T /\ Cardinality(T) <= RemoveBound
        /\ tree' = GivenBack(Removed(tree, key), key) /\ res' = "removed"
    BY <1>2, <1>7 DEF Remove
  <2>2. Levelled(tree', 1, T \ {key})
    BY <1>1, <2>1, SmallRemoved
  <2>3. D!Remove(key)
    BY <1>2, <1>4, <2>1, <2>2 DEF D!Remove
  <2> QED
    BY <1>4, <2>2, <2>3 DEF D!Next
<1>8. CASE RemoveAbsent(key)
  <2>1. key \notin T /\ tree' = tree /\ res' = "absent"
    BY <1>2, <1>8 DEF RemoveAbsent
  <2>2. Levelled(tree', 1, T)
    BY <1>1, <2>1
  <2>3. D!Remove(key)
    BY <1>2, <1>4, <2>1, <2>2 DEF D!Remove
  <2> QED
    BY <1>4, <2>2, <2>3 DEF D!Next
<1> QED
  BY <1>3, <1>5, <1>6, <1>7, <1>8

\* The tree is balanced whatever is inserted, as long as little is removed.
LEMMA AlwaysBalanced ==
  ASSUME RemovesLittle
  PROVE  Spec => []BalancedTree
<1>1. Init => BalancedTree
  BY StartsBalanced
<1>2. BalancedTree /\ [Next]_vars => BalancedTree'
  <2>1. BalancedTree /\ Next => BalancedTree'
    BY StepKeepsBalanced
  <2>2. BalancedTree /\ UNCHANGED vars => BalancedTree'
    BY DEF BalancedTree, vars
  <2> QED
    BY <2>1, <2>2
<1> QED
  BY <1>1, <1>2, PTL DEF Spec

\* The pointers of the tree stay mutual through every rotation (btree.c:66-134).
THEOREM LinkedAlways ==
  ASSUME RemovesLittle
  PROVE  Spec => []Linked
<1>1. BalancedTree => Linked
  BY LevelledLinked DEF BalancedTree
<1> QED
  BY <1>1, AlwaysBalanced, PTL

\* The walk without a stack (btree.c:267-298) visits what was inserted, in order.
THEOREM InOrderAlways ==
  ASSUME RemovesLittle
  PROVE  Spec => []InOrder
<1>1. BalancedTree => InOrder
  BY LevelledInOrder DEF BalancedTree
<1> QED
  BY <1>1, AlwaysBalanced, PTL

\* The climb of the balancing (btree.c:136-171) leaves no node out of balance.
THEOREM BalancedAlways ==
  ASSUME RemovesLittle
  PROVE  Spec => []Balanced
<1>1. BalancedTree => Balanced
  BY LevelledBalanced DEF BalancedTree
<1> QED
  BY <1>1, AlwaysBalanced, PTL

\* The tree implements the set of keys: its searches find what was inserted.
THEOREM ImplementsDictionary ==
  ASSUME RemovesLittle
  PROVE  Spec => IsDictionary
<1>1. Init => D!Init
  <2> SUFFICES ASSUME Init PROVE D!Init
    OBVIOUS
  <2>1. tree.start = NULL
    BY DEF Init
  <2>2. PICK T : Levelled(tree, 1, T)
    BY StartsBalanced DEF BalancedTree
  <2>3. T = {}
    <3>1. PICK S, H : Forest(tree, S, 1) /\ S[tree.start] = T /\ Level(tree, H, NULL)
      BY <2>2 DEF Levelled
    <3> QED
      BY <2>1, <3>1 DEF Forest
  <2>4. Held = {}
    BY <2>2, <2>3, LevelledHolds
  <2> QED
    BY <2>4 DEF D!Init, Init
<1>2. BalancedTree /\ [Next]_vars => [D!Next]_<<Held, res>>
  <2>1. BalancedTree /\ Next => D!Next
    BY StepKeepsBalanced
  <2>2. UNCHANGED vars => UNCHANGED <<Held, res>>
    BY DEF Held, vars
  <2> QED
    BY <2>1, <2>2
<1> QED
  BY <1>1, <1>2, AlwaysBalanced, PTL DEF Spec, IsDictionary, D!Spec
=============================================================================
