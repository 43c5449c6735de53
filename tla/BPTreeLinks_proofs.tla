------------------------ MODULE BPTreeLinks_proofs -------------------------
(***************************************************************************)
(* More proofs about the B+ tree: its nodes whatever allocations fail, the *)
(* list of its leaves, and what is freed when it is destroyed.             *)
(***************************************************************************)
EXTENDS BPTree_proofs, FiniteSetTheorems

-----------------------------------------------------------------------------
(* Sequences of distinct things in an order, and their concatenation.      *)

(* Every two elements of s are related in the order they come in. *)
Before(s, Rel) == \A i, j \in 1 .. Len(s) : i < j => <<s[i], s[j]>> \in Rel

(* Every element of s is related to every element of t. *)
Precedes(s, t, Rel) == \A x, y : Contains(s, x) /\ Contains(t, y) => <<x, y>> \in Rel

LEMMA JoinIs ==
  ASSUME NEW X, NEW s \in Seq(X), NEW t \in Seq(X)
  PROVE  /\ s \o t \in Seq(X)
         /\ \A x : Contains(s \o t, x) <=> Contains(s, x) \/ Contains(t, x)
         /\ \A Rel : Before(s, Rel) /\ Before(t, Rel) /\ Precedes(s, t, Rel) => Before(s \o t, Rel)
<1>1. PICK m \in Nat : m = Len(s)
  OBVIOUS
<1>2. PICK n \in Nat : n = Len(t)
  OBVIOUS
<1>a. s \o t \in Seq(X)
  OBVIOUS
<1>3. PICK u \in Seq(X) : u = s \o t
  BY <1>a
<1>4. Len(u) = m + n
  BY <1>1, <1>2, <1>3
<1>5. /\ \A i \in 1 .. m : u[i] = s[i]
      /\ \A i \in 1 .. m + n : i > m => u[i] = t[i - m] /\ i - m \in 1 .. n
  BY <1>1, <1>2, <1>3
<1>6. ASSUME NEW i \in 1 .. m + n
      PROVE  i \in 1 .. m \/ (i > m /\ i - m \in 1 .. n)
  OBVIOUS
<1>7. ASSUME NEW x, Contains(s, x) \/ Contains(t, x) PROVE Contains(u, x)
  <2>1. CASE Contains(s, x)
    <3>1. PICK i \in 1 .. m : s[i] = x
      BY <1>1, <2>1 DEF Contains
    <3>2. i \in 1 .. m + n
      OBVIOUS
    <3> QED BY <1>4, <1>5, <3>1, <3>2 DEF Contains
  <2>2. CASE Contains(t, x)
    <3>1. PICK i \in 1 .. n : t[i] = x
      BY <1>2, <2>2 DEF Contains
    <3>2. i + m \in 1 .. m + n /\ i + m > m /\ (i + m) - m = i
      OBVIOUS
    <3>3. u[i + m] = x
      BY <1>5, <3>1, <3>2
    <3> QED BY <1>4, <3>2, <3>3 DEF Contains
  <2> QED BY <1>7, <2>1, <2>2
<1>8. ASSUME NEW i \in 1 .. m + n
      PROVE  \/ i \in 1 .. m /\ u[i] = s[i] /\ Contains(s, u[i])
             \/ i > m /\ i - m \in 1 .. n /\ u[i] = t[i - m] /\ Contains(t, u[i])
  BY <1>1, <1>2, <1>5, <1>6 DEF Contains
<1>9. ASSUME NEW x, Contains(u, x) PROVE Contains(s, x) \/ Contains(t, x)
  BY <1>4, <1>8, <1>9 DEF Contains
<1>10. ASSUME NEW Rel, Before(s, Rel), Before(t, Rel), Precedes(s, t, Rel) PROVE Before(u, Rel)
  <2> SUFFICES ASSUME NEW i \in 1 .. m + n, NEW j \in 1 .. m + n, i < j
               PROVE  <<u[i], u[j]>> \in Rel
    BY <1>4 DEF Before
  <2>1. CASE j \in 1 .. m
    <3>1. i \in 1 .. m
      BY <2>1
    <3> QED BY <1>1, <1>5, <1>10, <2>1, <3>1 DEF Before
  <2>2. CASE i > m
    <3>1. j > m /\ i - m \in 1 .. n /\ j - m \in 1 .. n /\ i - m < j - m
      BY <2>2
    <3> QED BY <1>2, <1>5, <1>10, <2>2, <3>1 DEF Before
  <2>3. CASE i \in 1 .. m /\ j > m
    <3>1. Contains(s, u[i])
      BY <1>8, <2>3
    <3>2. Contains(t, u[j])
      BY <1>8, <2>3
    <3> QED BY <1>10, <3>1, <3>2 DEF Precedes
  <2> QED BY <1>6, <2>1, <2>2, <2>3
<1> QED BY <1>3, <1>7, <1>9, <1>10

LEMMA SequenceOver ==
  ASSUME NEW X, NEW Y, NEW s \in Seq(X), \A i \in 1 .. Len(s) : s[i] \in Y
  PROVE  s \in Seq(Y)
<1>1. PICK n \in Nat : n = Len(s)
  OBVIOUS
<1>2. s = [i \in 1 .. n |-> s[i]]
  BY <1>1
<1>3. [i \in 1 .. n |-> s[i]] \in [1 .. n -> Y]
  BY <1>1
<1> QED BY <1>2, <1>3

LEMMA EmptyIs ==
  ASSUME NEW X, NEW s \in Seq(X), Len(s) = 0
  PROVE  s = <<>>
OBVIOUS

(* The recursion of FlattenSeq. *)
Joins(f, S, n) == f = [i \in 1 .. n |-> IF i = 1 THEN S[i] ELSE f[i - 1] \o S[i]]

LEMMA JoinsExists ==
  ASSUME NEW S, NEW n \in Nat
  PROVE  \E f : Joins(f, S, n)
<1> DEFINE T == {m \in Nat : ~\E f : Joins(f, S, m)}
<1> SUFFICES ASSUME T # {} PROVE FALSE
  OBVIOUS
<1>1. T \subseteq Nat
  OBVIOUS
<1> HIDE DEF T
<1>2. PICK m \in T : \A y \in T : m <= y
  BY <1>1, LeastNumber
<1>3. m \in Nat /\ ~\E f : Joins(f, S, m)
  BY <1>2 DEF T
<1>4. CASE m = 0
  <2>1. Joins([i \in 1 .. 0 |-> 0], S, 0)
    BY DEF Joins
  <2> QED BY <1>3, <1>4, <2>1
<1>5. CASE m # 0
  <2>1. m - 1 \in Nat /\ ~(m <= m - 1) /\ (m - 1) + 1 = m
    BY <1>3, <1>5
  <2>2. m - 1 \notin T
    BY <1>2, <2>1
  <2>3. PICK f : Joins(f, S, m - 1)
    BY <2>1, <2>2 DEF T
  <2>4. PICK k \in Nat : k = m - 1 /\ m = k + 1
    BY <2>1
  <2>5. \A i \in 1 .. k : f[i] = IF i = 1 THEN S[i] ELSE f[i - 1] \o S[i]
    BY <2>3, <2>4 DEF Joins
  <2>6. PICK g : g = [i \in 1 .. m |-> IF i \in 1 .. k THEN f[i] ELSE IF i = 1 THEN S[i] ELSE f[i - 1] \o S[i]]
    OBVIOUS
  <2>7. ASSUME NEW i \in 1 .. m PROVE g[i] = IF i = 1 THEN S[i] ELSE g[i - 1] \o S[i]
    <3>1. i # 1 => i - 1 \in 1 .. k /\ i - 1 \in 1 .. m
      BY <1>3, <2>4
    <3>2. i # 1 => g[i - 1] = f[i - 1]
      BY <2>6, <3>1
    <3>3. g[i] = IF i = 1 THEN S[i] ELSE f[i - 1] \o S[i]
      BY <2>5, <2>6
    <3> QED BY <3>2, <3>3
  <2>8. Joins(g, S, m)
    <3>1. g = [i \in 1 .. m |-> g[i]]
      BY <2>6
    <3> QED BY <2>7, <3>1 DEF Joins
  <2> QED BY <1>3, <2>8
<1> QED BY <1>4, <1>5

(* What the first i sequences of S contain. *)
Gathered(S, i, x) == \E a \in 1 .. i : Contains(S[a], x)

(* The sequences of S are in order, and each is in order. *)
Layered(S, Rel) ==
  /\ \A a \in 1 .. Len(S) : Before(S[a], Rel)
  /\ \A a, b \in 1 .. Len(S) : a < b => Precedes(S[a], S[b], Rel)

LEMMA FlattenIs ==
  ASSUME NEW X, NEW S \in Seq(Seq(X))
  PROVE  /\ FlattenSeq(S) \in Seq(X)
         /\ \A x : Contains(FlattenSeq(S), x) <=> Gathered(S, Len(S), x)
         /\ \A Rel : Layered(S, Rel) => Before(FlattenSeq(S), Rel)
<1>1. PICK n \in Nat : n = Len(S)
  OBVIOUS
<1>2. CASE n = 0
  <2>1. Len(S) = 0 /\ S = <<>>
    BY <1>1, <1>2, EmptyIs
  <2>2. FlattenSeq(S) = S
    BY <2>1 DEF FlattenSeq
  <2>3. S \in Seq(X) /\ \A i : i \notin 1 .. Len(S)
    BY <2>1
  <2> QED BY <2>2, <2>3 DEF Contains, Gathered, Before
<1>3. CASE n # 0
  <2> DEFINE f == CHOOSE g : Joins(g, S, n)
  <2>1. FlattenSeq(S) = f[n]
    BY <1>1, <1>3 DEF FlattenSeq, Joins
  <2>2. Joins(f, S, n)
    BY JoinsExists
  <2> HIDE DEF f
  <2>3. \A i \in 1 .. n : f[i] = IF i = 1 THEN S[i] ELSE f[i - 1] \o S[i]
    BY <2>2 DEF Joins
  <2> DEFINE Good(i) == /\ f[i] \in Seq(X)
                        /\ \A x : Contains(f[i], x) <=> Gathered(S, i, x)
                        /\ \A Rel : Layered(S, Rel) => Before(f[i], Rel)
             T == {i \in 1 .. n : ~Good(i)}
  <2>4. \A i \in 1 .. n : S[i] \in Seq(X)
    BY <1>1
  <2> HIDE DEF Good
  <2>5. T = {}
    <3> SUFFICES ASSUME T # {} PROVE FALSE
      OBVIOUS
    <3>1. T \subseteq Nat
      OBVIOUS
    <3>2. PICK i \in T : \A y \in T : i <= y
      BY <3>1, LeastNumber
    <3>3. i \in 1 .. n /\ ~Good(i)
      OBVIOUS
    <3>4. CASE i = 1
      <4>1. f[i] = S[i] /\ 1 .. i = {i}
        BY <2>3, <3>3, <3>4
      <4>2. \A x : Contains(f[i], x) <=> Gathered(S, i, x)
        BY <4>1 DEF Gathered
      <4>3. \A Rel : Layered(S, Rel) => Before(f[i], Rel)
        BY <1>1, <3>3, <4>1 DEF Layered
      <4> QED BY <2>4, <3>3, <4>1, <4>2, <4>3 DEF Good
    <3>5. CASE i # 1
      <4>1. i - 1 \in 1 .. n /\ ~(i <= i - 1)
        BY <3>3, <3>5
      <4>2. Good(i - 1)
        BY <3>2, <4>1
      <4>3. PICK k \in 1 .. n : k = i - 1
        BY <4>1
      <4>4. PICK s \in Seq(X) : s = f[k]
        BY <4>2, <4>3 DEF Good
      <4>5. PICK t \in Seq(X) : t = S[i]
        BY <2>4, <3>3
      <4>6. f[i] = s \o t
        BY <2>3, <3>3, <3>5, <4>3, <4>4, <4>5
      <4>7. /\ \A x : Contains(s, x) <=> Gathered(S, k, x)
            /\ \A Rel : Layered(S, Rel) => Before(s, Rel)
        BY <4>2, <4>3, <4>4 DEF Good
      <4>8. /\ s \o t \in Seq(X)
            /\ \A x : Contains(s \o t, x) <=> Contains(s, x) \/ Contains(t, x)
            /\ \A Rel : Before(s, Rel) /\ Before(t, Rel) /\ Precedes(s, t, Rel) => Before(s \o t, Rel)
        BY JoinIs
      <4>9. 1 .. i = (1 .. k) \union {i}
        BY <3>3, <3>5, <4>3
      <4>10. \A x : Gathered(S, i, x) <=> Gathered(S, k, x) \/ Contains(t, x)
        BY <4>5, <4>9 DEF Gathered
      <4>11. ASSUME NEW Rel, Layered(S, Rel) PROVE Before(s \o t, Rel)
        <5>1. Before(s, Rel)
          BY <4>7, <4>11
        <5>2. Before(t, Rel)
          BY <1>1, <3>3, <4>5, <4>11 DEF Layered
        <5>3. ASSUME NEW x, NEW y, Contains(s, x), Contains(t, y) PROVE <<x, y>> \in Rel
          <6>1. PICK a \in 1 .. k : Contains(S[a], x)
            BY <4>7, <5>3 DEF Gathered
          <6>2. a \in 1 .. n /\ a < i
            BY <3>3, <4>3
          <6>3. Precedes(S[a], S[i], Rel)
            BY <1>1, <3>3, <4>11, <6>2 DEF Layered
          <6> QED BY <4>5, <5>3, <6>1, <6>3 DEF Precedes
        <5> QED BY <4>8, <5>1, <5>2, <5>3 DEF Precedes
      <4> QED BY <3>3, <4>6, <4>7, <4>8, <4>10, <4>11 DEF Good
    <3> QED BY <3>4, <3>5
  <2>6. Good(n)
    BY <1>3, <2>5
  <2> QED BY <1>1, <2>1, <2>6 DEF Good
<1> QED BY <1>2, <1>3

(* Two sequences of the same elements, in the same order, are equal. *)
LEMMA SameOrder ==
  ASSUME NEW X, NEW s \in Seq(X), NEW t \in Seq(X), NEW Rel,
         \A x, y : ~(<<x, y>> \in Rel /\ <<y, x>> \in Rel),
         Before(s, Rel), Before(t, Rel), \A x : Contains(s, x) <=> Contains(t, x)
  PROVE  s = t
<1>1. PICK m \in Nat : m = Len(s)
  OBVIOUS
<1>2. PICK n \in Nat : n = Len(t)
  OBVIOUS
<1>3. /\ \A i, j \in 1 .. m : i < j => <<s[i], s[j]>> \in Rel
      /\ \A i, j \in 1 .. n : i < j => <<t[i], t[j]>> \in Rel
      /\ \A i \in 1 .. m : \E j \in 1 .. n : t[j] = s[i]
      /\ \A j \in 1 .. n : \E i \in 1 .. m : s[i] = t[j]
  BY <1>1, <1>2 DEF Before, Contains
<1> DEFINE T == {i \in Nat : i \in 1 .. m /\ i \in 1 .. n /\ s[i] # t[i]}
<1>4. T = {}
  <2> SUFFICES ASSUME T # {} PROVE FALSE
    OBVIOUS
  <2>1. T \subseteq Nat
    OBVIOUS
  <2> HIDE DEF T
  <2>2. PICK i \in T : \A y \in T : i <= y
    BY <2>1, LeastNumber
  <2>3. i \in 1 .. m /\ i \in 1 .. n /\ s[i] # t[i]
    BY <2>2 DEF T
  <2>4. \A k \in 1 .. m : k \in 1 .. n /\ k < i => s[k] = t[k]
    BY <2>2, <2>3 DEF T
  <2>5. PICK j \in 1 .. n : t[j] = s[i]
    BY <1>3, <2>3
  <2>6. PICK k \in 1 .. m : s[k] = t[i]
    BY <1>3, <2>3
  <2>7. ~(j < i)
    <3>1. ASSUME j < i PROVE FALSE
      <4>1. j \in 1 .. m
        BY <2>3, <3>1
      <4>2. s[j] = s[i] /\ <<s[j], s[i]>> \in Rel
        BY <1>3, <2>3, <2>4, <2>5, <3>1, <4>1
      <4> QED BY <4>2
    <3> QED BY <3>1
  <2>8. ~(k < i)
    <3>1. ASSUME k < i PROVE FALSE
      <4>1. k \in 1 .. n
        BY <2>3, <3>1
      <4>2. t[k] = t[i] /\ <<t[k], t[i]>> \in Rel
        BY <1>3, <2>3, <2>4, <2>6, <3>1, <4>1
      <4> QED BY <4>2
    <3> QED BY <3>1
  <2>9. i < j /\ i < k
    BY <2>3, <2>5, <2>6, <2>7, <2>8
  <2>10. <<t[i], t[j]>> \in Rel /\ <<s[i], s[k]>> \in Rel
    BY <1>3, <2>3, <2>9
  <2> QED BY <2>5, <2>6, <2>10
<1>5. \A i \in 1 .. m : i \in 1 .. n => s[i] = t[i]
  BY <1>4
<1>6. ~(m < n)
  <2>1. ASSUME m < n PROVE FALSE
    <3>1. m + 1 \in 1 .. n
      BY <2>1
    <3>2. PICK k \in 1 .. m : s[k] = t[m + 1]
      BY <1>3, <3>1
    <3>3. k \in 1 .. n /\ k < m + 1
      BY <2>1
    <3>4. t[k] = t[m + 1] /\ <<t[k], t[m + 1]>> \in Rel
      BY <1>3, <1>5, <3>1, <3>2, <3>3
    <3> QED BY <3>4
  <2> QED BY <2>1
<1>7. ~(n < m)
  <2>1. ASSUME n < m PROVE FALSE
    <3>1. n + 1 \in 1 .. m
      BY <2>1
    <3>2. PICK k \in 1 .. n : t[k] = s[n + 1]
      BY <1>3, <3>1
    <3>3. k \in 1 .. m /\ k < n + 1
      BY <2>1
    <3>4. s[k] = s[n + 1] /\ <<s[k], s[n + 1]>> \in Rel
      BY <1>3, <1>5, <3>1, <3>2, <3>3
    <3> QED BY <3>4
  <2> QED BY <2>1
<1>8. m = n
  BY <1>6, <1>7
<1>9. s = [i \in 1 .. m |-> s[i]] /\ t = [i \in 1 .. n |-> t[i]]
  BY <1>1, <1>2
<1> HIDE DEF T
<1> QED BY <1>5, <1>8, <1>9

-----------------------------------------------------------------------------
(* The shape of the tree whatever allocations fail.  A split that is not   *)
(* passed to the parent cuts the right half off: its nodes stay allocated, *)
(* and its leaves stay in the list of the leaves, but no search reaches    *)
(* them.  A is the set of the nodes that are still in the tree.            *)

(* The keys a split leaves to a node at least. *)
AtLeast(nd) == IF nd.is_leaf THEN Half ELSE MaxKeys - Half

(* A node by itself; h[n] is how far n is above the leaves. *)
Kept(h, n) ==
  /\ node[n].is_leaf <=> h[n] = 0
  /\ Len(node[n].keys) >= 1 /\ Len(node[n].keys) <= MaxKeys
  /\ node[n].is_leaf =>
       /\ node[n].children = <<>>
       /\ Len(node[n].values) = Len(node[n].keys)
       /\ Increasing(node[n].keys)
  /\ ~node[n].is_leaf =>
       /\ node[n].next = Null
       /\ Len(node[n].children) = Len(node[n].keys) + 1
       /\ \A i \in 1 .. Len(node[n].children) :
            node[n].children[i] \in Nodes /\ h[n] = h[node[n].children[i]] + 1

AllKept(h) == h \in [Nodes -> Nat] /\ \A n \in Nodes : Kept(h, n)

Filled ==
  \A n \in Nodes :
    n # root \/ (~Idle /\ n = promotion.left) => Len(node[n].keys) >= AtLeast(node[n])

(* The children of a node of the tree know it, and are there once. *)
Owns(A, n) ==
  /\ \A i \in 1 .. Len(node[n].children) :
       /\ node[n].children[i] \in A /\ ~Orphan(node[n].children[i])
       /\ node[node[n].children[i]].parent = n
  /\ Distinct(node[n].children, Len(node[n].children))

Owned(A, n) == ParentOf(n) /\ (n # root => node[n].parent \in A)

Tied(A) ==
  /\ A \subseteq Nodes
  /\ root # Null => root \in A
  /\ ~Idle => promotion.left \in A /\ promotion.right \in A
  /\ \A n \in A : ~node[n].is_leaf => Owns(A, n)
  /\ \A n \in A : ~Orphan(n) => Owned(A, n)

Pending(h) ==
  ~Idle =>
    LET l == promotion.left
        r == promotion.right
    IN  l # r /\ r # root /\ h[l] = h[r]

(* Nothing is said of the keys that belong to a leaf. *)
NoPlaces == [n \in Nat |-> {}]

Sound(h, A) == Types /\ AllKept(h) /\ Filled /\ Linked(NoPlaces) /\ Tied(A) /\ Pending(h)

(* A node whose arrays are as they were. *)
Same(m) ==
  /\ node'[m].is_leaf = node[m].is_leaf /\ node'[m].keys = node[m].keys
  /\ node'[m].values = node[m].values /\ node'[m].children = node[m].children
  /\ node'[m].next = node[m].next

LEMMA KeptStays ==
  ASSUME NEW h, NEW g, NEW m \in Nodes, Kept(h, m), Same(m), Nodes \subseteq Nodes',
         \A n \in Nodes : g[n] = h[n]
  PROVE  Kept(g, m)'
<1>1. g[m] = h[m]
  OBVIOUS
<1>2. ASSUME ~node[m].is_leaf, NEW i \in 1 .. Len(node[m].children)
      PROVE  node[m].children[i] \in Nodes' /\ g[m] = g[node[m].children[i]] + 1
  BY <1>1, <1>2, Zenon DEF Kept
<1> QED BY <1>1, <1>2, Zenon DEF Kept, Same, Null

(* A node that has lost nothing, in a tree that has kept its root. *)
LEMMA OwnsStays ==
  ASSUME NEW A, NEW B, A \subseteq B, NEW n \in A, Owns(A, n), node'[n].children = node[n].children,
         \A i \in 1 .. Len(node[n].children) : ~Orphan(node[n].children[i])',
         \A i \in 1 .. Len(node[n].children) :
           node'[node[n].children[i]].parent = node[node[n].children[i]].parent
  PROVE  Owns(B, n)'
BY Zenon DEF Owns, Distinct


LEMMA OwnedStays ==
  ASSUME NEW A, NEW B, A \subseteq B, NEW n \in Nodes, Owned(A, n), Nodes \subseteq Nodes',
         n = root' <=> n = root,
         node'[n].parent = node[n].parent,
         \A m \in Nodes : node'[m].is_leaf = node[m].is_leaf /\ node'[m].children = node[m].children
  PROVE  Owned(B, n)'
<1> PICK p : p = node[n].parent
  OBVIOUS
<1>1. ParentOf(n)'
  <2>1. CASE n = root
    BY <2>1 DEF Owned, ParentOf, Null
  <2>2. CASE n # root
    <3>1. p \in Nodes /\ ~node[p].is_leaf
      BY <2>2 DEF Owned, ParentOf
    <3>2. PICK i \in 1 .. Len(node[p].children) : node[p].children[i] = n
      BY <2>2 DEF Owned, ParentOf
    <3>3. p \in Nodes' /\ ~node'[p].is_leaf /\ node'[p].children = node[p].children
      BY <3>1
    <3> QED BY <2>2, <3>2, <3>3, Zenon DEF ParentOf
  <2> QED BY <2>1, <2>2
<1>2. n # root' => node'[n].parent \in B
  BY DEF Owned
<1> QED BY <1>1, <1>2, Zenon DEF Owned

LEMMA SoundIs ==
  ASSUME NEW h, NEW A, Sound(h, A)
  PROVE  /\ node \in Seq(NodeType) /\ Nodes = 1 .. Len(node) /\ Len(node) \in Nat /\ Null \notin Nodes
         /\ \A n \in Nodes : node[n] \in NodeType
         /\ h \in [Nodes -> Nat] /\ A \subseteq Nodes
         /\ \A n \in Nodes : Kept(h, n)
         /\ Nodes # {} => root \in Nodes /\ root # Null /\ root \in A
<1>1. Types /\ h \in [Nodes -> Nat] /\ A \subseteq Nodes /\ \A n \in Nodes : Kept(h, n)
  BY DEF Sound, AllKept, Tied
<1>2. /\ Len(node) \in Nat /\ Nodes = 1 .. Len(node) /\ Null \notin Nodes
      /\ \A n \in Nodes : node[n] \in NodeType
  BY <1>1, NodesAre
<1>3. node \in Seq(NodeType)
  BY <1>1 DEF Types
<1>4. Nodes # {} => root \in Nodes /\ root # Null /\ root \in A
  <2>1. root = Null => Nodes = {}
    BY <1>1 DEF Types, Nodes
  <2>2. root # Null => root \in Nodes
    BY <1>1 DEF Types
  <2>3. root # Null => root \in A
    BY DEF Sound, Tied
  <2> QED BY <2>1, <2>2, <2>3
<1> QED BY <1>1, <1>2, <1>3, <1>4

LEMMA InitSound == Init => \E h, A : Sound(h, A)
<1> SUFFICES ASSUME Init PROVE \E h, A : Sound(h, A)
  OBVIOUS
<1>1. node = <<>> /\ root = 0 /\ Idle /\ returned = 0 /\ promotion = Nothing /\ Nodes = {}
  BY DEF Init, Null, Idle, Nodes
<1>2. Types
  <2>1. <<>> \in Seq(NodeType)
    OBVIOUS
  <2> QED BY <1>1, <2>1 DEF Types, Null
<1>3. PICK h : h = [n \in {} |-> 0]
  OBVIOUS
<1>4. AllKept(h) /\ Filled /\ Pending(h) /\ Tied({})
  BY <1>1, <1>3 DEF AllKept, Filled, Pending, Tied, Null
<1>5. Linked(NoPlaces)
  <2>1. <<>> \in Seq(Nodes) /\ Len(<<>>) = 0
    OBVIOUS
  <2>2. Listed(<<>>, NoPlaces)
    BY <1>1, <2>1 DEF Listed
  <2> QED BY <2>2 DEF Linked
<1> QED BY <1>2, <1>4, <1>5 DEF Sound

(* The first leaf becomes the root. *)
LEMMA FirstSound ==
  ASSUME NEW h, NEW A, Sound(h, A), Idle, root = Null, NEW key \in Int, NEW value \in Values,
         node' = Append(node, Leaf(<<key>>, <<value>>, Null, Null)),
         root' = Len(node'), promotion' = Nothing, returned' = 1
  PROVE  \E g, B : Sound(g, B)' /\ (A # Nodes => B # Nodes')
<1> PICK leaf : leaf = Leaf(<<key>>, <<value>>, Null, Null)
  OBVIOUS
<1>1. node = <<>>
  BY DEF Sound, Types
<1>2. leaf \in NodeType
  BY DEF Leaf, NodeType, Null
<1>3. /\ leaf.is_leaf = TRUE /\ leaf.keys = <<key>> /\ leaf.values = <<value>> /\ leaf.parent = Null
      /\ leaf.next = Null /\ leaf.children = <<>>
  BY DEF Leaf, Null
<1>4. node' \in Seq(NodeType) /\ Len(node') = 1 /\ node'[1] = leaf /\ Nodes' = {1} /\ root' = 1
  BY <1>1, <1>2 DEF Nodes
<1>5. PICK g : g = [n \in {1} |-> 0]
  OBVIOUS
<1>6. Idle'
  BY DEF Idle
<1>7. Types'
  BY <1>4, <1>6 DEF Types, Null
<1>8. AllKept(g)'
  <2>1. Len(<<key>>) = 1 /\ Len(<<value>>) = 1 /\ Increasing(<<key>>) /\ 1 <= MaxKeys
    BY HalfIs DEF Increasing
  <2>2. /\ node'[1].is_leaf = TRUE /\ node'[1].keys = <<key>> /\ node'[1].values = <<value>>
        /\ node'[1].children = <<>> /\ g[1] = 0
    BY <1>3, <1>4, <1>5
  <2>3. Kept(g, 1)'
    <3>1. Len(node'[1].keys) >= 1 /\ Len(node'[1].keys) <= MaxKeys
      <4> PICK ks : ks = <<key>>
        OBVIOUS
      <4>1. Len(ks) = 1 /\ node'[1].keys = ks /\ 1 <= MaxKeys /\ 1 >= 1
        BY <2>1, <2>2
      <4> QED BY <4>1, Zenon
    <3> QED BY <2>1, <2>2, <3>1, Zenon DEF Kept
  <2> QED BY <1>4, <1>5, <2>3 DEF AllKept
<1>9. Filled' /\ Pending(g)'
  BY <1>4, <1>6 DEF Filled, Pending
<1>10. Linked(NoPlaces)'
  <2>1. <<1>> \in Seq({1}) /\ Len(<<1>>) = 1 /\ <<1>>[1] = 1
    OBVIOUS
  <2>2. node'[1].is_leaf = TRUE /\ node'[1].next = Null
    BY <1>3, <1>4
  <2> PICK c : c = <<1>>
    OBVIOUS
  <2>3. c \in Seq({1}) /\ Len(c) = 1 /\ c[1] = 1 /\ 1 .. 1 = {1}
    BY <2>1
  <2>4. \A i, j \in {1} : ~(i < j)
    OBVIOUS
  <2>5. Listed(c, NoPlaces)'
    BY <1>4, <2>2, <2>3, <2>4 DEF Listed
  <2> QED BY <2>5 DEF Linked
<1>11. Tied({1})'
  <2>1. ParentOf(1)'
    BY <1>3, <1>4 DEF ParentOf, Null
  <2> QED BY <1>3, <1>4, <1>6, <2>1 DEF Tied, Owned
<1>12. A = Nodes
  <2>1. Nodes = {}
    BY <1>1 DEF Nodes
  <2> QED BY <2>1, SoundIs
<1>13. Sound(g, {1})'
  BY <1>7, <1>8, <1>9, <1>10, <1>11 DEF Sound
<1> QED BY <1>12, <1>13

(* One more entry in a leaf. *)
LEMMA LeafSound ==
  ASSUME NEW h, NEW A, Sound(h, A), Idle, NEW leaf \in Nodes, node[leaf].is_leaf,
         NEW key \in Int, NEW value \in Values, bptree_insert_into_leaf(leaf, key, value)
  PROVE  Sound(h, A)' /\ Nodes' = Nodes
<1>1. /\ node \in Seq(NodeType) /\ Nodes = 1 .. Len(node) /\ Null \notin Nodes
      /\ \A n \in Nodes : node[n] \in NodeType
      /\ h \in [Nodes -> Nat] /\ A \subseteq Nodes
      /\ root \in Nodes /\ root # Null /\ root \in A /\ Kept(h, leaf)
  BY SoundIs
<1> PICK nd \in NodeType : nd = node[leaf]
  BY <1>1
<1> PICK t : t = WithEntry(nd, key, value)
  OBVIOUS
<1>2. /\ ~Contains(nd.keys, key) /\ Len(nd.keys) < MaxKeys
      /\ node' = [node EXCEPT ![leaf] = t]
      /\ returned' = 1 /\ promotion' = Nothing /\ root' = root
  BY DEF bptree_insert_into_leaf, Return
<1>3. /\ Len(nd.values) = Len(nd.keys) /\ Increasing(nd.keys) /\ nd.children = <<>>
      /\ Len(nd.keys) \in Nat /\ Len(nd.keys) >= 1
  <2>1. Len(nd.keys) \in Nat
    BY DEF NodeType
  <2> QED BY <1>1, <2>1 DEF Kept
<1>4. /\ t \in NodeType
      /\ t.is_leaf = nd.is_leaf /\ t.children = nd.children
      /\ t.parent = nd.parent /\ t.next = nd.next
      /\ Len(t.keys) = Len(nd.keys) + 1 /\ Len(t.values) = Len(nd.keys) + 1
      /\ Increasing(t.keys)
  <2>1. ~Contains(nd.keys, key)
    BY <1>2
  <2>2. Len(nd.values) = Len(nd.keys) /\ Increasing(nd.keys)
    BY <1>3
  <2> QED BY <2>1, <2>2, WithEntryIs
<1>5. /\ node' \in Seq(NodeType) /\ Nodes' = Nodes /\ node'[leaf] = t
      /\ \A m \in Nodes : m # leaf => node'[m] = node[m]
  BY <1>1, <1>2, <1>4 DEF Nodes
<1>6. \A m \in Nodes : /\ node'[m].is_leaf = node[m].is_leaf /\ node'[m].children = node[m].children
                       /\ node'[m].parent = node[m].parent /\ node'[m].next = node[m].next
  BY <1>4, <1>5
<1>7. Idle' /\ \A n : ~Orphan(n)'
  BY <1>2 DEF Idle, Orphan
<1>8. Types'
  BY <1>1, <1>2, <1>5, <1>7 DEF Types
<1>9. ASSUME NEW m \in Nodes PROVE Kept(h, m)'
  <2>1. CASE m = leaf
    <3>1. h[leaf] = 0 /\ MaxKeys \in Nat
      BY <1>1, HalfIs DEF Kept
    <3>2. Len(t.keys) >= 1 /\ Len(t.keys) <= MaxKeys
      BY <1>2, <1>3, <1>4, <3>1
    <3> QED BY <1>3, <1>4, <1>5, <2>1, <3>1, <3>2 DEF Kept
  <2>2. CASE m # leaf
    <3>1. Same(m) /\ Kept(h, m)
      BY <1>5, <2>2, SoundIs DEF Same
    <3> QED BY <1>5, <3>1, KeptStays
  <2> QED BY <2>1, <2>2
<1>10. Filled'
  <2> SUFFICES ASSUME NEW m \in Nodes, m # root
               PROVE  Len(node'[m].keys) >= AtLeast(node'[m])
    BY <1>2, <1>5, <1>7 DEF Filled
  <2>1. Len(node[m].keys) >= AtLeast(node[m])
    BY DEF Sound, Filled
  <2>2. CASE m = leaf
    <3>1. AtLeast(nd) \in Int /\ AtLeast(t) = AtLeast(nd)
      BY <1>4, HalfIs DEF AtLeast
    <3> QED BY <1>3, <1>4, <1>5, <2>1, <2>2, <3>1
  <2> QED BY <1>5, <2>1, <2>2
<1>11. Linked(NoPlaces)'
  <2>1. Linked(NoPlaces)
    BY DEF Sound
  <2> QED BY <1>5, <1>6, <2>1, ListKept
<1>12. Tied(A)'
  <2>1. ASSUME NEW n \in A, ~node'[n].is_leaf PROVE Owns(A, n)'
    <3>1. Owns(A, n) /\ n \in Nodes
      BY <1>1, <1>6, <2>1 DEF Sound, Tied
    <3>2. \A i \in 1 .. Len(node[n].children) : node[n].children[i] \in Nodes
      BY <1>1, <3>1, Zenon DEF Owns
    <3> QED BY <1>6, <1>7, <3>1, <3>2, OwnsStays
  <2>2. ASSUME NEW n \in A PROVE Owned(A, n)'
    <3>1. Owned(A, n) /\ n \in Nodes
      BY <1>1 DEF Sound, Tied, Orphan
    <3> QED BY <1>2, <1>5, <1>6, <3>1 DEF Owned, ParentOf
  <2> QED BY <1>1, <1>2, <1>5, <1>7, <2>1, <2>2 DEF Tied
<1>13. Pending(h)'
  BY <1>7 DEF Pending
<1>14. AllKept(h)'
  BY <1>1, <1>5, <1>9 DEF AllKept
<1> QED BY <1>5, <1>8, <1>10, <1>11, <1>12, <1>13, <1>14 DEF Sound


(* A full leaf is split; the right half is not a child of any node yet. *)
LEMMA SplitLeafSound ==
  ASSUME NEW h, NEW A, Sound(h, A), Idle, NEW leaf \in A, node[leaf].is_leaf,
         NEW key \in Int, NEW value \in Values,
         bptree_split_leaf_and_insert(leaf, key, value), returned' = 2
  PROVE  \E g, B : Sound(g, B)' /\ (A # Nodes => B # Nodes')
<1>1. /\ node \in Seq(NodeType) /\ Nodes = 1 .. Len(node) /\ Null \notin Nodes /\ Len(node) \in Nat
      /\ \A n \in Nodes : node[n] \in NodeType
      /\ h \in [Nodes -> Nat] /\ A \subseteq Nodes /\ leaf \in Nodes
      /\ root \in Nodes /\ root # Null /\ root \in A /\ root \in Nat /\ Kept(h, leaf)
  <2>1. leaf \in Nodes
    BY SoundIs
  <2> QED BY <2>1, SoundIs
<1> PICK nd \in NodeType : nd = node[leaf]
  BY <1>1
<1> PICK r \in Nat : r = Len(node) + 1
  BY <1>1
<1> PICK t : t = WithEntry(nd, key, value)
  OBVIOUS
<1>2. /\ ~Contains(nd.keys, key) /\ Len(nd.keys) >= MaxKeys
      /\ node' = Append([node EXCEPT ![leaf] = LowerLeaf(t, r)], UpperLeaf(t))
      /\ promotion' = [left |-> leaf, key |-> t.keys[Half + 1], right |-> r]
      /\ root' = root
  BY DEF bptree_split_leaf_and_insert, Promote, Return, CallocRefuses, LowerLeaf, UpperLeaf
<1>3. Len(nd.values) = Len(nd.keys) /\ Increasing(nd.keys) /\ h[leaf] = 0
  BY <1>1 DEF Kept
<1>4. Len(nd.keys) = MaxKeys /\ MaxKeys + 1 = Order
  <2>1. Len(nd.keys) \in Nat
    BY DEF NodeType
  <2>2. MaxKeys \in Nat /\ MaxKeys + 1 = Order
    BY HalfIs
  <2> QED BY <1>1, <1>2, <2>1, <2>2 DEF Kept
<1>5. /\ t \in NodeType
      /\ t.parent = nd.parent /\ t.next = nd.next
      /\ Len(t.keys) = Order /\ Len(t.values) = Order
      /\ Increasing(t.keys)
  <2>1. ~Contains(nd.keys, key)
    BY <1>2
  <2>2. Len(nd.values) = Len(nd.keys) /\ Increasing(nd.keys)
    BY <1>3
  <2>3. /\ t \in NodeType
        /\ t.parent = nd.parent /\ t.next = nd.next
        /\ Len(t.keys) = Len(nd.keys) + 1 /\ Len(t.values) = Len(nd.keys) + 1
        /\ Increasing(t.keys)
    BY <2>1, <2>2, WithEntryIs
  <2> QED BY <1>4, <2>3
<1> PICK lower : lower = LowerLeaf(t, r)
  OBVIOUS
<1> PICK upper : upper = UpperLeaf(t)
  OBVIOUS
<1> PICK sep : sep = t.keys[Half + 1]
  OBVIOUS
<1>6. /\ sep \in Int
      /\ lower \in NodeType /\ lower.is_leaf = TRUE /\ lower.parent = nd.parent
      /\ upper \in NodeType /\ upper.is_leaf = TRUE /\ upper.parent = nd.parent
      /\ lower.next = r /\ upper.next = nd.next
      /\ lower.children = <<>> /\ upper.children = <<>>
      /\ Len(lower.keys) = Half /\ Len(lower.values) = Half /\ Increasing(lower.keys)
      /\ Len(upper.keys) = Order - Half /\ Len(upper.values) = Order - Half
      /\ Increasing(upper.keys)
  BY <1>5, LeafHalves, ZenonT(40)
<1>7. /\ Half \in Nat /\ Order - Half \in Nat /\ MaxKeys \in Nat
      /\ Half >= 1 /\ Half <= MaxKeys /\ Order - Half >= 1 /\ Order - Half <= MaxKeys
      /\ Half >= Half /\ Order - Half >= Half
  BY OrderAssumption DEF Half, MaxKeys
<1>8. /\ node' \in Seq(NodeType) /\ Nodes' = Nodes \union {r} /\ r \notin Nodes /\ r # Null
      /\ node'[leaf] = lower /\ node'[r] = upper
      /\ \A m \in Nodes : m # leaf => node'[m] = node[m]
  <2> PICK s : s = [node EXCEPT ![leaf] = lower]
    OBVIOUS
  <2>1. /\ s \in Seq(NodeType) /\ Len(s) = Len(node) /\ s[leaf] = lower
        /\ \A m \in Nodes : m # leaf => s[m] = node[m]
    BY <1>1, <1>6
  <2>2. node' = Append(s, upper)
    BY <1>2
  <2>3. /\ node' \in Seq(NodeType) /\ DOMAIN node' = (1 .. Len(s)) \union {Len(s) + 1}
        /\ node'[Len(s) + 1] = upper /\ \A m \in 1 .. Len(s) : node'[m] = s[m]
    BY <1>6, <2>1, <2>2, HeapGrows
  <2>4. Len(s) + 1 = r /\ r # Null
    BY <1>1, <2>1 DEF Null
  <2>5. r \notin Nodes
    BY <1>1
  <2> QED BY <1>1, <2>1, <2>3, <2>4, <2>5 DEF Nodes
<1>9. PICK g : g = [n \in Nodes \union {r} |-> IF n = r THEN 0 ELSE h[n]]
  OBVIOUS
<1>10. g \in [Nodes' -> Nat] /\ g[r] = 0 /\ \A n \in Nodes : g[n] = h[n]
  BY <1>1, <1>8, <1>9
<1>11. ~Idle' /\ promotion'.left = leaf /\ promotion'.right = r /\ promotion' \in Promotions
       /\ \A n : Orphan(n)' <=> n = r
  <2>1. promotion'.left = leaf /\ promotion'.right = r
    BY <1>2
  <2>2. promotion' \in Promotions
    BY <1>1, <1>2, <1>6 DEF Promotions
  <2>3. ~Idle'
    BY <2>2, NothingAssumption DEF Idle, Promotions
  <2> QED BY <2>1, <2>2, <2>3 DEF Orphan
<1>12. Types'
  BY <1>1, <1>2, <1>8, <1>11 DEF Types
<1>13. \A m \in Nodes : /\ node'[m].is_leaf = node[m].is_leaf
                        /\ node'[m].parent = node[m].parent
                        /\ node'[m].children = node[m].children
  <2>1. node[leaf].children = <<>>
    BY <1>1 DEF Kept
  <2> QED BY <1>6, <1>8, <2>1
<1>14. AllKept(g)'
  <2> SUFFICES ASSUME NEW m \in Nodes \union {r} PROVE Kept(g, m)'
    BY <1>8, <1>10 DEF AllKept
  <2>1. CASE m = leaf
    BY <1>3, <1>6, <1>7, <1>8, <1>10, <1>1, <2>1, ZenonT(40) DEF Kept
  <2>2. CASE m = r
    BY <1>6, <1>7, <1>8, <1>10, <2>2 DEF Kept
  <2>3. CASE m # leaf /\ m # r
    <3>1. m \in Nodes /\ Same(m) /\ Kept(h, m)
      BY <1>8, <2>3, SoundIs DEF Same
    <3>2. Nodes \subseteq Nodes'
      BY <1>8
    <3> QED BY <1>10, <3>1, <3>2, KeptStays
  <2> QED BY <2>1, <2>2, <2>3
<1>15. Filled'
  <2> SUFFICES ASSUME NEW m \in Nodes \union {r}, m # root' \/ (~Idle /\ m = promotion.left)'
               PROVE  Len(node'[m].keys) >= AtLeast(node'[m])
    BY <1>8 DEF Filled
  <2>1. CASE m = leaf \/ m = r
    <3>1. AtLeast(lower) = Half /\ AtLeast(upper) = Half
      BY <1>6 DEF AtLeast
    <3> QED BY <1>6, <1>7, <1>8, <2>1, <3>1
  <2>2. CASE m # leaf /\ m # r
    <3>1. m \in Nodes /\ node'[m] = node[m] /\ m # root
      BY <1>2, <1>8, <1>11, <2>2
    <3> QED BY <3>1 DEF Sound, Filled
  <2> QED BY <2>1, <2>2
<1>16. Linked(NoPlaces)'
  <2>1. Linked(NoPlaces)
    BY DEF Sound
  <2>2. NoPlaces[leaf] = {} /\ NoPlaces[r] = {}
    BY <1>1 DEF NoPlaces
  <2>3. node'[r].is_leaf /\ node'[r].next = node[leaf].next /\ node'[leaf].next = r
    BY <1>6, <1>8
  <2>4. \A n \in Nodes : n # leaf => node'[n].next = node[n].next
    BY <1>8
  <2>5. /\ NoPlaces[leaf] \subseteq NoPlaces[leaf] /\ NoPlaces[r] \subseteq NoPlaces[leaf]
        /\ \A a \in NoPlaces[leaf], b \in NoPlaces[r] : a < b
    BY <2>2
  <2> HIDE DEF NoPlaces
  <2> QED BY <1>1, <1>8, <1>13, <2>1, <2>3, <2>4, <2>5, ListGrows, ZenonT(40)
<1>17. Tied(A \union {r})'
  <2>1. ASSUME NEW n \in A, ~node'[n].is_leaf PROVE Owns(A \union {r}, n)'
    <3>1. Owns(A, n) /\ n \in Nodes
      BY <1>1, <1>13, <2>1 DEF Sound, Tied
    <3>2. \A i \in 1 .. Len(node[n].children) : node[n].children[i] \in Nodes
      BY <1>1, <3>1, Zenon DEF Owns
    <3>3. ASSUME NEW i \in 1 .. Len(node[n].children) PROVE ~Orphan(node[n].children[i])'
      <4> PICK c : c = node[n].children[i]
        OBVIOUS
      <4>1. c # r
        BY <1>8, <3>2
      <4>2. ~Orphan(c)'
        BY <1>11, <4>1, Zenon
      <4>3. node'[n].children = node[n].children
        BY <1>13, <3>1
      <4> QED BY <4>2, <4>3
    <3> QED BY <1>13, <3>1, <3>2, <3>3, OwnsStays
  <2>2. ASSUME NEW n \in A PROVE Owned(A \union {r}, n)'
    <3>1. Owned(A, n) /\ n \in Nodes
      BY <1>1 DEF Sound, Tied, Orphan
    <3>2. Nodes \subseteq Nodes' /\ (n = root' <=> n = root) /\ A \subseteq A \union {r}
      BY <1>2, <1>8
    <3> QED BY <1>13, <3>1, <3>2, OwnedStays
  <2>3. ~Orphan(r)' => FALSE
    BY <1>11
  <2>4. node'[r].is_leaf
    BY <1>6, <1>8
  <2>5. A \union {r} \subseteq Nodes'
    BY <1>1, <1>8
  <2> QED BY <1>1, <1>2, <1>11, <2>1, <2>2, <2>3, <2>4, <2>5 DEF Tied
<1>18. Pending(g)'
  <2>1. g[leaf] = g[r] /\ leaf # r /\ r # root
    BY <1>1, <1>3, <1>8, <1>10
  <2> QED BY <1>2, <1>11, <2>1 DEF Pending
<1>30. Sound(g, A \union {r})'
  BY <1>12, <1>14, <1>15, <1>16, <1>17, <1>18 DEF Sound
<1>31. A # Nodes => A \union {r} # Nodes'
  BY <1>1, <1>8
<1> QED BY <1>30, <1>31


(* The two halves of a split that is on its way up. *)
LEMMA HalvesAre ==
  ASSUME NEW h, NEW A, Sound(h, A), ~Idle
  PROVE  LET l == promotion.left
             r == promotion.right
         IN  /\ promotion.key \in Int
             /\ l \in A /\ r \in A /\ l \in Nodes /\ r \in Nodes
             /\ l # r /\ r # root /\ h[l] = h[r]
             /\ Orphan(r) /\ \A c \in Nodes : c # r => ~Orphan(c)
             /\ Owned(A, l)
             /\ Len(node[l].keys) >= AtLeast(node[l])
<1> PICK l : l = promotion.left
  OBVIOUS
<1> PICK r : r = promotion.right
  OBVIOUS
<1>1. promotion.key \in Int
  BY DEF Sound, Types, Idle, Promotions
<1>2. l \in A /\ r \in A /\ l \in Nodes /\ r \in Nodes
  BY DEF Sound, Tied
<1>3. l # r /\ r # root /\ h[l] = h[r]
  BY DEF Sound, Pending
<1>4. Orphan(r) /\ \A c \in Nodes : c # r => ~Orphan(c)
  BY DEF Orphan
<1>5. Owned(A, l)
  BY <1>2, <1>3, <1>4 DEF Sound, Tied
<1>6. Len(node[l].keys) >= AtLeast(node[l])
  BY <1>2 DEF Sound, Filled
<1> QED BY <1>1, <1>2, <1>3, <1>4, <1>5, <1>6

(* A new root over the two halves of the old one. *)
LEMMA NewRootSound ==
  ASSUME NEW h, NEW A, Sound(h, A), ~Idle, node[promotion.left].parent = Null,
         bptree_create_new_root(promotion.left, promotion.key, promotion.right), returned' = 1
  PROVE  \E g, B : Sound(g, B)' /\ (A # Nodes => B # Nodes')
<1> PICK l : l = promotion.left
  OBVIOUS
<1> PICK r : r = promotion.right
  OBVIOUS
<1> PICK key : key = promotion.key
  OBVIOUS
<1>1. /\ key \in Int /\ l \in A /\ r \in A /\ l \in Nodes /\ r \in Nodes
      /\ l # r /\ r # root /\ h[l] = h[r]
      /\ Orphan(r) /\ \A c \in Nodes : c # r => ~Orphan(c)
      /\ Owned(A, l) /\ Len(node[l].keys) >= AtLeast(node[l])
  BY HalvesAre
<1>2. /\ node \in Seq(NodeType) /\ Nodes = 1 .. Len(node) /\ Len(node) \in Nat /\ Null \notin Nodes
      /\ \A n \in Nodes : node[n] \in NodeType
      /\ h \in [Nodes -> Nat] /\ A \subseteq Nodes
      /\ \A n \in Nodes : Kept(h, n)
  BY SoundIs
<1>3. l = root
  BY <1>1, <1>2 DEF Owned, ParentOf
<1> PICK w \in Nat : w = Len(node) + 1
  BY <1>2
<1> PICK ks : ks = <<key>>
  OBVIOUS
<1> PICK cs : cs = <<l, r>>
  OBVIOUS
<1>4. ks \in Seq(Int) /\ Len(ks) = 1
  BY <1>1
<1>5. /\ cs \in Seq(Nat) /\ Len(cs) = 2 /\ cs[1] = l /\ cs[2] = r /\ \A i \in 1 .. 2 : i = 1 \/ i = 2
  <2>1. l \in Nat /\ r \in Nat
    BY <1>1, <1>2
  <2> QED BY <2>1
<1> PICK top : top = Internal(ks, cs, Null)
  OBVIOUS
<1>6. /\ node' = Append([node EXCEPT ![l].parent = w, ![r].parent = w], top)
      /\ root' = w /\ promotion' = Nothing
  <2>1. bptree_create_new_root(l, key, r)
    OBVIOUS
  <2>2. ~CallocRefuses("root")
    BY DEF CallocRefuses, Return
  <2> QED BY <2>1, <2>2 DEF bptree_create_new_root, Return
<1>7. /\ top \in NodeType /\ top.is_leaf = FALSE /\ top.keys = ks /\ top.children = cs
      /\ top.parent = Null /\ top.next = Null
  BY <1>4, <1>5 DEF Internal, NodeType, Null
<1>8. /\ node' \in Seq(NodeType) /\ Nodes' = Nodes \union {w} /\ w \notin Nodes /\ w # Null
      /\ node'[w] = top
      /\ \A m \in Nodes : /\ node'[m].is_leaf = node[m].is_leaf /\ node'[m].keys = node[m].keys
                          /\ node'[m].values = node[m].values
                          /\ node'[m].children = node[m].children /\ node'[m].next = node[m].next
                          /\ m \notin {l, r} => node'[m].parent = node[m].parent
      /\ node'[l].parent = w /\ node'[r].parent = w
  <2> PICK f : f = BothReparented(node, l, r, w)
    OBVIOUS
  <2>a. node \in Seq(NodeType) /\ l \in 1 .. Len(node) /\ r \in 1 .. Len(node) /\ l # r
    BY <1>1, <1>2
  <2>b. Adopted(f, node, {l, r}, w)
    BY <2>a, TwoParents
  <2>0. f \in Seq(NodeType) /\ Len(f) = Len(node)
    BY <2>b DEF Adopted
  <2>1. /\ \A m \in Nodes : /\ f[m].is_leaf = node[m].is_leaf /\ f[m].keys = node[m].keys
                            /\ f[m].values = node[m].values /\ f[m].children = node[m].children
                            /\ f[m].next = node[m].next
                            /\ m \notin {l, r} => f[m].parent = node[m].parent
        /\ f[l].parent = w /\ f[r].parent = w
    BY <1>2, <2>a, <2>b DEF Adopted
  <2>2. /\ Append(f, top) \in Seq(NodeType)
        /\ DOMAIN Append(f, top) = (1 .. Len(f)) \union {Len(f) + 1}
        /\ Append(f, top)[Len(f) + 1] = top
        /\ \A n \in 1 .. Len(f) : Append(f, top)[n] = f[n]
    BY <1>7, <2>0, HeapGrows
  <2>3. node' = Append(f, top)
    BY <1>6 DEF BothReparented
  <2>4. w = Len(f) + 1 /\ Nodes = 1 .. Len(f) /\ w \notin 1 .. Len(f) /\ w # Null
    BY <1>2, <2>0 DEF Null
  <2> QED BY <1>1, <2>1, <2>2, <2>3, <2>4 DEF Nodes
<1>9. Idle' /\ \A c : ~Orphan(c)'
  BY <1>6 DEF Idle, Orphan
<1>10. PICK g : g = [n \in Nodes \union {w} |-> IF n = w THEN h[l] + 1 ELSE h[n]]
  OBVIOUS
<1>11. /\ g \in [Nodes \union {w} -> Nat] /\ g[w] = h[l] + 1 /\ \A n \in Nodes : g[n] = h[n]
       /\ h[l] \in Nat
  BY <1>1, <1>2, <1>8, <1>10
<1>12. Types'
  BY <1>6, <1>8, <1>9 DEF Types
<1>13. AllKept(g)'
  <2>1. ASSUME NEW m \in Nodes PROVE Kept(g, m)'
    <3>1. Same(m) /\ Kept(h, m) /\ Nodes \subseteq Nodes'
      BY <1>2, <1>8 DEF Same
    <3> QED BY <1>11, <3>1, KeptStays
  <2>2. Kept(g, w)'
    <3>1. MaxKeys \in Nat /\ MaxKeys >= 1
      BY HalfIs
    <3>2. g[w] # 0 /\ g[w] = g[l] + 1 /\ g[w] = g[r] + 1
      BY <1>1, <1>11
    <3>3. ASSUME NEW i \in 1 .. 2 PROVE cs[i] \in Nodes' /\ g[w] = g[cs[i]] + 1
      <4>1. cs[i] = l \/ cs[i] = r
        BY <1>5
      <4> QED BY <1>1, <1>8, <3>2, <4>1
    <3>4. /\ node'[w].is_leaf = FALSE /\ node'[w].keys = ks /\ node'[w].children = cs
          /\ node'[w].next = Null
      BY <1>7, <1>8
    <3> QED BY <1>4, <1>5, <3>1, <3>2, <3>3, <3>4 DEF Kept
  <2> QED BY <1>8, <1>11, <2>1, <2>2 DEF AllKept
<1>14. Filled'
  <2> SUFFICES ASSUME NEW m \in Nodes
               PROVE  Len(node'[m].keys) >= AtLeast(node'[m])
    BY <1>6, <1>8, <1>9 DEF Filled
  <2>1. Len(node[m].keys) >= AtLeast(node[m])
    BY <1>1, <1>3 DEF Sound, Filled
  <2> QED BY <1>8, <2>1, Zenon DEF AtLeast, Half, MaxKeys
<1>15. Linked(NoPlaces)'
  <2>1. Linked(NoPlaces) /\ ~node'[w].is_leaf
    BY <1>7, <1>8 DEF Sound
  <2> QED BY <1>8, <2>1, ListKept
<1>16. Tied(A \union {w})'
  <2>1. ASSUME NEW n \in A, ~node'[n].is_leaf PROVE Owns(A \union {w}, n)'
    <3>1. Owns(A, n) /\ n \in Nodes
      BY <1>2, <1>8, <2>1 DEF Sound, Tied
    <3>2. \A i \in 1 .. Len(node[n].children) :
            node[n].children[i] \in Nodes /\ node[n].children[i] # l /\ node[n].children[i] # r
      <4>1. node[l].parent = Null /\ n # Null
        BY <1>2, <3>1
      <4> QED BY <1>1, <1>2, <3>1, <4>1, Zenon DEF Owns
    <3>3. \A i \in 1 .. Len(node[n].children) :
            node'[node[n].children[i]].parent = node[node[n].children[i]].parent
      BY <1>8, <3>2
    <3> QED BY <1>8, <1>9, <3>1, <3>3, OwnsStays
  <2>2. Owns(A \union {w}, w)'
    <3>1. node'[w].children = cs
      BY <1>7, <1>8
    <3>2. ASSUME NEW i \in 1 .. 2
          PROVE  cs[i] \in A \union {w} /\ ~Orphan(cs[i])' /\ node'[cs[i]].parent = w
      <4>1. cs[i] = l \/ cs[i] = r
        BY <1>5
      <4> QED BY <1>1, <1>8, <1>9, <4>1
    <3>3. Distinct(cs, 2)
      BY <1>1, <1>5 DEF Distinct
    <3> QED BY <1>5, <3>1, <3>2, <3>3, Zenon DEF Owns
  <2>3. Owned(A \union {w}, w)'
    BY <1>6, <1>7, <1>8 DEF Owned, ParentOf
  <2>4. ASSUME NEW n \in A PROVE Owned(A \union {w}, n)'
    <3>1. n \in Nodes /\ n # root'
      BY <1>2, <1>6, <1>8
    <3>2. CASE n \in {l, r}
      <4>0. 1 \in 1 .. Len(cs) /\ 2 \in 1 .. Len(cs)
        BY <1>5
      <4>1. node'[w].children = cs /\ 1 \in 1 .. Len(cs) /\ 2 \in 1 .. Len(cs)
        BY <1>7, <1>8, <4>0
      <4>2. \E i \in 1 .. Len(node'[w].children) : node'[w].children[i] = n
        BY <1>5, <3>2, <4>1
      <4>3. node'[n].parent = w /\ ~node'[w].is_leaf /\ w \in Nodes' /\ w \in A \union {w}
        BY <1>7, <1>8, <3>2
      <4> QED BY <3>1, <4>2, <4>3 DEF Owned, ParentOf
    <3>3. CASE n \notin {l, r}
      <4>1. Owned(A, n)
        BY <1>1, <3>1, <3>3 DEF Sound, Tied
      <4>2. n # root
        BY <1>3, <3>3
      <4>3. Nodes \subseteq Nodes' /\ (n = root' <=> n = root) /\ A \subseteq A \union {w}
        BY <1>8, <3>1, <4>2
      <4> QED BY <1>8, <3>1, <3>3, <4>1, <4>3, OwnedStays
    <3> QED BY <3>2, <3>3
  <2>5. A \union {w} \subseteq Nodes'
    BY <1>2, <1>8
  <2> QED BY <1>6, <1>9, <2>1, <2>2, <2>3, <2>4, <2>5 DEF Tied
<1>17. Pending(g)'
  BY <1>9 DEF Pending
<1>30. Sound(g, A \union {w})'
  BY <1>12, <1>13, <1>14, <1>15, <1>16, <1>17 DEF Sound
<1>31. A # Nodes => A \union {w} # Nodes'
  <2>1. A \subseteq Nodes /\ Nodes' = Nodes \union {w} /\ w \notin Nodes
    BY <1>2, <1>8
  <2> QED BY <2>1
<1> QED BY <1>30, <1>31


(* t is node p of the tree with the right half r of the split as a child. *)
Joined(h, A, p, t, r) ==
  /\ t \in NodeType /\ t.is_leaf = FALSE /\ t.parent = node[p].parent /\ t.next = Null
  /\ Len(t.keys) = Len(node[p].keys) + 1 /\ Len(t.children) = Len(node[p].keys) + 2
  /\ \A j \in 1 .. Len(t.children) :
       /\ t.children[j] \in A /\ h[p] = h[t.children[j]] + 1
       /\ t.children[j] = r \/ node[t.children[j]].parent = p
  /\ Distinct(t.children, Len(t.children))
  /\ \A m \in A : (m # root /\ node[m].parent = p) \/ m = r
                    => \E j \in 1 .. Len(t.children) : t.children[j] = m

(* The parent of the left half. *)
LEMMA ParentKnown ==
  ASSUME NEW h, NEW A, Sound(h, A), ~Idle, NEW p, p = node[promotion.left].parent, p # Null
  PROVE  /\ p \in A /\ p \in Nodes /\ ~node[p].is_leaf /\ p # promotion.left /\ p # promotion.right
         /\ Kept(h, p) /\ Owns(A, p) /\ Owned(A, p)
         /\ h[p] = h[promotion.left] + 1 /\ node[p] \in NodeType
         /\ \E i \in 1 .. Len(node[p].children) : node[p].children[i] = promotion.left
<1> PICK l : l = promotion.left
  OBVIOUS
<1> PICK r : r = promotion.right
  OBVIOUS
<1>1. l \in Nodes /\ r \in Nodes /\ h[l] = h[r] /\ Owned(A, l) /\ \A c \in Nodes : c # r => ~Orphan(c)
  BY HalvesAre
<1>2. /\ p \in A /\ p \in Nodes /\ ~node[p].is_leaf
      /\ \E i \in 1 .. Len(node[p].children) : node[p].children[i] = l
  BY <1>1 DEF Owned, ParentOf
<1>3. Kept(h, p) /\ node[p] \in NodeType /\ h \in [Nodes -> Nat]
  BY <1>2, SoundIs
<1>4. Owns(A, p)
  BY <1>2 DEF Sound, Tied
<1>5. h[p] = h[l] + 1
  BY <1>2, <1>3, Zenon DEF Kept
<1>6. p # l /\ p # r
  BY <1>1, <1>3, <1>5
<1>7. Owned(A, p)
  BY <1>1, <1>2, <1>6 DEF Sound, Tied
<1> QED BY <1>2, <1>3, <1>4, <1>5, <1>6, <1>7

LEMMA JoinedIs ==
  ASSUME NEW h, NEW A, Sound(h, A), ~Idle, NEW p, p = node[promotion.left].parent, p # Null
  PROVE  Joined(h, A, p, WithChild(node[p], promotion.left, promotion.key, promotion.right),
                promotion.right)
<1> PICK l : l = promotion.left
  OBVIOUS
<1> PICK r : r = promotion.right
  OBVIOUS
<1> PICK key : key = promotion.key
  OBVIOUS
<1>1. /\ key \in Int /\ r \in A /\ l \in Nodes /\ r \in Nodes /\ h[l] = h[r] /\ Orphan(r)
      /\ \A c \in Nodes : c # r => ~Orphan(c)
  BY HalvesAre
<1>2. /\ p \in A /\ p \in Nodes /\ ~node[p].is_leaf
      /\ Kept(h, p) /\ Owns(A, p)
      /\ h[p] = h[l] + 1 /\ node[p] \in NodeType
      /\ \E i \in 1 .. Len(node[p].children) : node[p].children[i] = l
  BY ParentKnown
<1> PICK q \in NodeType : q = node[p]
  BY <1>2
<1> PICK t : t = WithChild(q, l, key, r)
  OBVIOUS
<1> PICK n \in Nat : n = Len(q.keys)
  BY DEF NodeType
<1>3. q.is_leaf = FALSE /\ Len(q.children) = n + 1 /\ q.next = Null
  BY <1>2, Zenon DEF Kept, NodeType
<1>4. r \in Nat
  BY <1>1, SoundIs
<1>5. Inserted(q, t, l, key, r)
  <2>1. \E j \in 1 .. Len(q.children) : q.children[j] = l
    BY <1>2
  <2>2. Len(q.children) = Len(q.keys) + 1
    BY <1>3
  <2>4. Inserted(q, WithChild(q, l, key, r), l, key, r)
    BY <1>1, <1>4, <2>1, <2>2, WithChildIs, Zenon
  <2> QED BY <2>4
<1>6. /\ t \in NodeType /\ t.is_leaf = FALSE /\ t.parent = q.parent
      /\ Len(t.keys) = n + 1 /\ Len(t.children) = n + 2
  BY <1>3, <1>5, Zenon DEF Inserted
<1>7. t.next = Null
  <2>1. t.next = q.next
    BY DEF WithChild, NodeType
  <2> QED BY <1>3, <2>1
<1>8. PICK i \in 1 .. n + 1 : Behind(q.children, t.children, n, i, l, r)
  BY <1>5, Zenon DEF Inserted
<1>9. \A j \in 1 .. n + 1 : /\ q.children[j] \in A /\ q.children[j] # r
                            /\ node[q.children[j]].parent = p /\ h[p] = h[q.children[j]] + 1
  <2> SUFFICES ASSUME NEW j \in 1 .. n + 1
               PROVE  /\ q.children[j] \in A /\ q.children[j] # r
                      /\ node[q.children[j]].parent = p /\ h[p] = h[q.children[j]] + 1
    BY Zenon
  <2>1. j \in 1 .. Len(node[p].children)
    BY <1>3
  <2>2. q.children[j] \in A /\ ~Orphan(q.children[j]) /\ node[q.children[j]].parent = p
    BY <1>2, <2>1, Zenon DEF Owns
  <2>3. h[p] = h[q.children[j]] + 1
    BY <1>2, <2>1, Zenon DEF Kept
  <2> QED BY <1>1, <2>2, <2>3
<1>10. Distinct(q.children, n + 1) /\ Avoids(q.children, n + 1, r)
  BY <1>2, <1>3, <1>9, Zenon DEF Owns, Avoids
<1>11. Distinct(t.children, n + 2) /\ Extends(t.children, q.children, n, r)
  BY <1>8, <1>10, ChildrenOfMore, ZenonT(40)
<1>12. ASSUME NEW j \in 1 .. n + 2
       PROVE  /\ t.children[j] \in A /\ h[p] = h[t.children[j]] + 1
              /\ t.children[j] = r \/ node[t.children[j]].parent = p
  <2>1. CASE t.children[j] = r
    BY <1>1, <1>2, <2>1
  <2>2. CASE t.children[j] # r
    <3>1. PICK x \in 1 .. n + 1 : t.children[j] = q.children[x]
      BY <1>11, <2>2, Zenon DEF Extends
    <3> QED BY <1>9, <3>1, ZenonT(40)
  <2> QED BY <2>1, <2>2, Zenon
<1>13. ASSUME NEW m \in A, (m # root /\ node[m].parent = p) \/ m = r
       PROVE  \E j \in 1 .. n + 2 : t.children[j] = m
  <2>1. CASE m = r
    BY <1>11, <2>1, Zenon DEF Extends
  <2>2. CASE m # r
    <3>1. m \in Nodes /\ ~Orphan(m) /\ m # root /\ node[m].parent = p
      BY <1>1, <1>13, <2>2, SoundIs
    <3>2. ParentOf(m)
      BY <3>1 DEF Sound, Tied, Owned
    <3>3. PICK x \in 1 .. Len(node[p].children) : node[p].children[x] = m
      BY <3>1, <3>2 DEF ParentOf
    <3>4. x \in 1 .. n + 1 /\ q.children[x] = m
      BY <1>3, <3>3
    <3> QED BY <1>11, <3>4, ZenonT(40) DEF Extends
  <2> QED BY <2>1, <2>2
<1>14. Joined(h, A, p, t, r)
  <2>1. /\ t.parent = node[p].parent /\ Len(t.keys) = Len(node[p].keys) + 1
        /\ Len(t.children) = Len(node[p].keys) + 2 /\ Distinct(t.children, Len(t.children))
    BY <1>6, <1>11, ZenonT(40)
  <2>2. \A x \in 1 .. Len(t.children) :
          /\ t.children[x] \in A /\ h[p] = h[t.children[x]] + 1
          /\ t.children[x] = r \/ node[t.children[x]].parent = p
    BY <1>6, <1>12, ZenonT(40)
  <2>3. \A m \in A : (m # root /\ node[m].parent = p) \/ m = r
                     => \E x \in 1 .. Len(t.children) : t.children[x] = m
    BY <1>6, <1>13, ZenonT(40)
  <2> QED BY <1>6, <1>7, <2>1, <2>2, <2>3, Zenon DEF Joined
<1> QED BY <1>14

(* The parent has room for the right half. *)
LEMMA InternalSound ==
  ASSUME NEW h, NEW A, Sound(h, A), ~Idle, NEW p, p = node[promotion.left].parent, p # Null,
         bptree_insert_into_internal(p, promotion.left, promotion.key, promotion.right)
  PROVE  Sound(h, A)' /\ Nodes' = Nodes
<1> PICK l : l = promotion.left
  OBVIOUS
<1> PICK r : r = promotion.right
  OBVIOUS
<1> PICK t : t = WithChild(node[p], promotion.left, promotion.key, promotion.right)
  OBVIOUS
<1>0. Joined(h, A, p, t, r)
  BY JoinedIs
<1>1. /\ l \in Nodes /\ r \in Nodes /\ r \in A /\ l # r /\ r # root
      /\ Orphan(r) /\ \A c \in Nodes : c # r => ~Orphan(c)
      /\ Owned(A, l) /\ Len(node[l].keys) >= AtLeast(node[l])
  BY HalvesAre
<1>2. /\ p \in A /\ p \in Nodes /\ ~node[p].is_leaf /\ p # l /\ p # r
      /\ Kept(h, p) /\ Owns(A, p) /\ Owned(A, p) /\ node[p] \in NodeType
  BY ParentKnown
<1>3. /\ t \in NodeType /\ t.is_leaf = FALSE /\ t.parent = node[p].parent /\ t.next = Null
      /\ Len(t.keys) = Len(node[p].keys) + 1 /\ Len(t.children) = Len(node[p].keys) + 2
  BY <1>0, Zenon DEF Joined
<1>a. \A j \in 1 .. Len(t.children) :
        /\ t.children[j] \in A /\ h[p] = h[t.children[j]] + 1
        /\ t.children[j] = r \/ node[t.children[j]].parent = p
  BY <1>0, Zenon DEF Joined
<1>b. Distinct(t.children, Len(t.children))
  BY <1>0, Zenon DEF Joined
<1>c. \A m \in A : (m # root /\ node[m].parent = p) \/ m = r
                   => \E j \in 1 .. Len(t.children) : t.children[j] = m
  BY <1>0, Zenon DEF Joined
<1>4. /\ node \in Seq(NodeType) /\ Nodes = 1 .. Len(node) /\ Len(node) \in Nat /\ Null \notin Nodes
      /\ h \in [Nodes -> Nat] /\ A \subseteq Nodes
      /\ root \in Nodes /\ root # Null /\ root \in A
  BY <1>1, SoundIs
<1>5. /\ Len(node[p].keys) < MaxKeys /\ node' = Grown(node, p, t, r)
      /\ promotion' = Nothing /\ returned' = 1 /\ root' = root
  BY DEF bptree_insert_into_internal, Return, Grown
<1>6. /\ node' \in Seq(NodeType) /\ Nodes' = Nodes /\ node'[p] = t
      /\ \A m \in Nodes : m # p =>
           /\ node'[m].is_leaf = node[m].is_leaf /\ node'[m].keys = node[m].keys
           /\ node'[m].values = node[m].values /\ node'[m].children = node[m].children
           /\ node'[m].next = node[m].next
           /\ m # r => node'[m].parent = node[m].parent
      /\ node'[r].parent = p
  <2> PICK f : f = Grown(node, p, t, r)
    OBVIOUS
  <2>1. p \in 1 .. Len(node) /\ r \in 1 .. Len(node)
    BY <1>1, <1>2, <1>4
  <2>2. GrownTo(f, node, p, t, r)
    BY <1>2, <1>3, <1>4, <2>1, GrownIs, Zenon
  <2>3. node' = f
    BY <1>5
  <2> QED BY <1>4, <2>2, <2>3, Zenon DEF Nodes, GrownTo
<1>7. Idle' /\ \A c : ~Orphan(c)'
  BY <1>5 DEF Idle, Orphan
<1>8. \A m \in Nodes : /\ node'[m].is_leaf = node[m].is_leaf
                       /\ m # r => node'[m].parent = node[m].parent
  <2>1. node[p].is_leaf = FALSE
    BY <1>2 DEF NodeType
  <2> QED BY <1>3, <1>6, <2>1
<1>9. Types'
  <2>1. node' \in Seq(NodeType) /\ Nodes' = Nodes
    BY <1>6
  <2>2. root' = root /\ promotion' = Nothing /\ returned' = 1
    BY <1>5
  <2>3. root \in Nodes /\ root # Null /\ root \in Nat
    BY <1>4
  <2> QED BY <1>7, <2>1, <2>2, <2>3 DEF Types
<1>10. Len(node[p].keys) \in Nat /\ Len(node[p].keys) >= 1 /\ MaxKeys \in Nat /\ h[p] # 0
  <2>1. Len(node[p].keys) \in Nat
    BY <1>2 DEF NodeType
  <2> QED BY <1>2, <2>1, HalfIs DEF Kept
<1>11. AllKept(h)'
  <2> SUFFICES ASSUME NEW m \in Nodes PROVE Kept(h, m)'
    BY <1>4, <1>6 DEF AllKept
  <2>1. CASE m = p
    <3>1. Len(t.keys) >= 1 /\ Len(t.keys) <= MaxKeys /\ Len(t.children) = Len(t.keys) + 1
      <4> PICK n \in Nat : n = Len(node[p].keys)
        BY <1>10
      <4>1. n < MaxKeys /\ n >= 1 /\ Len(t.keys) = n + 1 /\ Len(t.children) = n + 2
        BY <1>3, <1>5, <1>10
      <4> PICK k \in Nat : k = MaxKeys
        BY <1>10
      <4>2. n < k => n + 1 >= 1 /\ n + 1 <= k /\ n + 2 = (n + 1) + 1
        OBVIOUS
      <4> QED BY <4>1, <4>2, Zenon
    <3>2. \A j \in 1 .. Len(t.children) : t.children[j] \in Nodes' /\ h[p] = h[t.children[j]] + 1
      BY <1>a, <1>4, <1>6, Zenon
    <3>3. node'[p] = t /\ t.is_leaf = FALSE /\ t.next = Null'
      BY <1>3, <1>6 DEF Null
    <3> QED BY <1>10, <2>1, <3>1, <3>2, <3>3, Zenon DEF Kept, MaxKeys
  <2>2. CASE m # p
    <3>1. Same(m) /\ Kept(h, m) /\ Nodes \subseteq Nodes'
      BY <1>6, <2>2, SoundIs DEF Same
    <3> QED BY <3>1, KeptStays
  <2> QED BY <2>1, <2>2
<1>12. Filled'
  <2> SUFFICES ASSUME NEW m \in Nodes, m # root
               PROVE  Len(node'[m].keys) >= AtLeast(node'[m])
    BY <1>5, <1>6, <1>7, Zenon DEF Filled
  <2>1. Len(node[m].keys) >= AtLeast(node[m])
    BY DEF Sound, Filled
  <2>2. CASE m = p
    <3>1. PICK a \in Int : a = MaxKeys - Half
      BY HalfIs
    <3>2. AtLeast(node[p]) = a /\ AtLeast(t) = a
      BY <1>2, <1>3, <3>1, Zenon DEF AtLeast, Half, MaxKeys
    <3>3. Len(t.keys) >= a
      BY <1>3, <1>10, <2>1, <2>2, <3>2
    <3>4. node'[m] = t
      BY <1>6, <2>2
    <3> QED BY <3>2, <3>3, <3>4
  <2>3. CASE m # p
    BY <1>6, <2>1, <2>3, Zenon DEF AtLeast, Half, MaxKeys
  <2> QED BY <2>2, <2>3
<1>13. Linked(NoPlaces)'
  <2>1. Linked(NoPlaces)
    BY DEF Sound
  <2>2. \A m \in Nodes : node[m].is_leaf => m # p /\ node'[m].next = node[m].next
    BY <1>2, <1>6
  <2> QED BY <1>6, <1>8, <2>1, <2>2, ListKept
<1>14. Tied(A)'
  <2>1. Owns(A, p)'
    <3>1. \A j \in 1 .. Len(t.children) : t.children[j] \in A /\ node'[t.children[j]].parent = p
      BY <1>a, <1>4, <1>6, <1>8, ZenonT(40)
    <3>2. node'[p].children = t.children
      BY <1>6
    <3>3. \A j \in 1 .. Len(t.children) : ~Orphan(t.children[j])'
      BY <1>7, Zenon
    <3> QED BY <1>b, <3>1, <3>2, <3>3, ZenonT(40) DEF Owns
  <2>2. ASSUME NEW n \in A, ~node'[n].is_leaf PROVE Owns(A, n)'
    <3>1. CASE n = p
      BY <2>1, <3>1
    <3>2. CASE n # p
      <4>1. Owns(A, n) /\ n \in Nodes /\ node'[n].children = node[n].children
        BY <1>4, <1>6, <2>2, <3>2 DEF Sound, Tied
      <4>2. \A i \in 1 .. Len(node[n].children) :
              node[n].children[i] \in Nodes /\ node[n].children[i] # r
        BY <1>1, <1>4, <4>1, Zenon DEF Owns
      <4>3. \A i \in 1 .. Len(node[n].children) :
              node'[node[n].children[i]].parent = node[node[n].children[i]].parent
        BY <1>8, <4>2
      <4> QED BY <1>7, <4>1, <4>3, OwnsStays
    <3> QED BY <3>1, <3>2
  <2>3. ASSUME NEW n \in A PROVE Owned(A, n)'
    <3>0. n \in Nodes
      BY <1>4
    <3>1. CASE n = r \/ (n # root /\ node[n].parent = p)
      <4>1. node'[n].parent = p /\ n # root
        BY <1>1, <1>8, <1>6, <3>0, <3>1
      <4>2. PICK j \in 1 .. Len(t.children) : t.children[j] = n
        BY <1>c, <3>1
      <4>3. ~node'[p].is_leaf /\ node'[p].children = t.children /\ p \in Nodes' /\ root' = root
        BY <1>2, <1>3, <1>5, <1>6, Zenon
      <4> QED BY <1>2, <4>1, <4>2, <4>3, Zenon DEF Owned, ParentOf
    <3>2. CASE ~(n = r \/ (n # root /\ node[n].parent = p))
      <4>1. Owned(A, n)
        BY <1>1, <3>0, <3>2 DEF Sound, Tied
      <4>2. CASE n = root
        BY <1>1, <1>5, <1>8, <3>0, <4>1, <4>2 DEF Owned, ParentOf, Null
      <4>3. CASE n # root
        <5>1. node[n].parent # p /\ node'[n].parent = node[n].parent
          BY <1>8, <3>0, <3>2, <4>3
        <5>2. PICK q : q = node[n].parent
          OBVIOUS
        <5>3. q \in Nodes /\ ~node[q].is_leaf /\ q \in A
          BY <4>1, <4>3, <5>2 DEF Owned, ParentOf
        <5>4. PICK i \in 1 .. Len(node[q].children) : node[q].children[i] = n
          BY <4>1, <4>3, <5>2, ZenonT(40) DEF Owned, ParentOf
        <5>5. node'[n].parent = q /\ node'[q].children = node[q].children /\ ~node'[q].is_leaf
              /\ q \in Nodes' /\ n # root'
          BY <1>5, <1>6, <1>8, <4>3, <5>1, <5>2, <5>3, Zenon
        <5> QED BY <5>3, <5>4, <5>5, Zenon DEF Owned, ParentOf
      <4> QED BY <4>2, <4>3
    <3> QED BY <3>1, <3>2
  <2> QED BY <1>4, <1>5, <1>6, <1>7, <2>2, <2>3, Zenon DEF Tied
<1>15. Pending(h)'
  BY <1>7 DEF Pending
<1> QED BY <1>6, <1>9, <1>11, <1>12, <1>13, <1>14, <1>15 DEF Sound


(* A full parent is split in turn. *)
LEMMA SplitInternalSound ==
  ASSUME NEW h, NEW A, Sound(h, A), ~Idle, NEW p, p = node[promotion.left].parent, p # Null,
         bptree_split_internal_and_insert(p, promotion.left, promotion.key, promotion.right),
         returned' = 2
  PROVE  \E g, B : Sound(g, B)' /\ (A # Nodes => B # Nodes')
<1> PICK l : l = promotion.left
  OBVIOUS
<1> PICK r : r = promotion.right
  OBVIOUS
<1> PICK t : t = WithChild(node[p], promotion.left, promotion.key, promotion.right)
  OBVIOUS
<1>1. /\ l \in Nodes /\ r \in Nodes /\ r \in A /\ l # r /\ r # root
      /\ Orphan(r) /\ \A c \in Nodes : c # r => ~Orphan(c)
  BY HalvesAre
<1>2. /\ p \in A /\ p \in Nodes /\ ~node[p].is_leaf /\ p # l /\ p # r
      /\ Kept(h, p) /\ Owned(A, p) /\ node[p] \in NodeType
  BY ParentKnown
<1>w. Joined(h, A, p, t, r)
  BY JoinedIs
<1>4. /\ node \in Seq(NodeType) /\ Nodes = 1 .. Len(node) /\ Len(node) \in Nat /\ Null \notin Nodes
      /\ h \in [Nodes -> Nat] /\ A \subseteq Nodes
      /\ root \in Nodes /\ root # Null /\ root \in A /\ root \in Nat
  BY <1>1, SoundIs
<1> PICK w \in Nat : w = Len(node) + 1
  BY <1>4
<1> PICK lower : lower = LowerChildren(t)
  OBVIOUS
<1> PICK upper : upper = UpperChildren(t)
  OBVIOUS
<1> PICK lo : lo = LowerNode(t)
  OBVIOUS
<1> PICK up : up = UpperNode(t)
  OBVIOUS
<1> PICK sep : sep = t.keys[Half + 1]
  OBVIOUS
<1>a. LET u == WithChild(node[p], promotion.left, promotion.key, promotion.right)
      IN  /\ Len(node[p].keys) >= MaxKeys
          /\ node' = Append([Moved(node, p, Len(node) + 1, LowerChildren(u), UpperChildren(u))
                               EXCEPT ![p] = LowerNode(u)], UpperNode(u))
          /\ promotion' = [left |-> p, key |-> u.keys[Half + 1], right |-> Len(node) + 1]
          /\ root' = root
  <2>1. ~CallocRefuses("right parent")
    BY DEF CallocRefuses, Return
  <2> QED BY <2>1, Zenon DEF bptree_split_internal_and_insert, Promote, Moved, Nodes, LowerNode, UpperNode,
                      LowerChildren, UpperChildren
<1>5. node' = Append([Moved(node, p, w, lower, upper) EXCEPT ![p] = lo], up)
  BY <1>a, Zenon
<1>b. promotion' = [left |-> p, key |-> sep, right |-> w]
  BY <1>a, Zenon
<1>c. root' = root
  BY <1>a, Zenon
<1>d. Len(node[p].keys) >= MaxKeys
  BY <1>a, Zenon
<1>3. /\ t \in NodeType /\ t.is_leaf = FALSE /\ t.parent = node[p].parent
      /\ Len(t.keys) = Order /\ Len(t.children) = Order + 1
  <2>1. Len(node[p].keys) <= MaxKeys
    BY <1>2, Zenon DEF Kept
  <2>2. PICK q \in NodeType : q = node[p]
    BY <1>2
  <2>3. PICK n \in Nat : n = Len(q.keys)
    BY DEF NodeType
  <2>a. n <= MaxKeys /\ n >= MaxKeys
    BY <1>d, <2>1, <2>2, <2>3
  <2>4. n + 1 = Order /\ n + 2 = Order + 1
    BY <2>a, HalfIs
  <2>5. Len(t.keys) = Len(node[p].keys) + 1 /\ Len(t.children) = Len(node[p].keys) + 2
    BY <1>w, Zenon DEF Joined
  <2>6. Len(t.keys) = Order /\ Len(t.children) = Order + 1
    BY <2>2, <2>3, <2>4, <2>5
  <2> QED BY <1>w, <2>6, Zenon DEF Joined
<1>x. Distinct(t.children, Order + 1)
  BY <1>w, <1>3, Zenon DEF Joined
<1>y. \A j \in 1 .. Order + 1 :
        /\ t.children[j] \in A /\ h[p] = h[t.children[j]] + 1
        /\ t.children[j] = r \/ node[t.children[j]].parent = p
  BY <1>w, <1>3, Zenon DEF Joined
<1>z. \A m \in A : (m # root /\ node[m].parent = p) \/ m = r
                   => \E j \in 1 .. Order + 1 : t.children[j] = m
  BY <1>w, <1>3, ZenonT(40) DEF Joined
<1>e. Divided(t.children, lower, upper)
  BY <1>3, <1>x, ChildrenDivided, Zenon
<1>6. /\ \A m \in A : (m # root /\ node[m].parent = p) \/ m = r
                            => Contains(lower, m) \/ Contains(upper, m)
      /\ \A c : ~(Contains(lower, c) /\ Contains(upper, c))
  <2>2. /\ \A j \in 1 .. Order + 1 : Contains(lower, t.children[j]) \/ Contains(upper, t.children[j])
        /\ \A c : ~(Contains(lower, c) /\ Contains(upper, c))
    BY <1>e, Zenon DEF Divided
  <2>3. ASSUME NEW m \in A, (m # root /\ node[m].parent = p) \/ m = r
        PROVE  Contains(lower, m) \/ Contains(upper, m)
    <3>1. PICK j \in 1 .. Order + 1 : t.children[j] = m
      BY <1>z, <2>3, Zenon
    <3> QED BY <2>2, <3>1, Zenon
  <2> QED BY <2>2, <2>3, Zenon
<1>7. /\ \A c : Contains(lower, c) =>
                  \E i \in 1 .. Half + 1 : c = t.children[i] /\ c = lower[i]
      /\ \A c : Contains(upper, c) =>
                  \E i \in 1 .. Order - Half : c = t.children[Half + 1 + i] /\ c = upper[i]
      /\ \A i \in 1 .. Half + 1 : Contains(lower, t.children[i])
      /\ \A i \in 1 .. Order - Half : Contains(upper, t.children[Half + 1 + i])
  BY <1>e, Zenon DEF Divided
<1>8. /\ lower \in Seq(Nat) /\ Len(lower) = Half + 1
      /\ \A i \in 1 .. Half + 1 : lower[i] = t.children[i] /\ i \in 1 .. Order + 1
      /\ upper \in Seq(Nat) /\ Len(upper) = Order - Half
      /\ \A i \in 1 .. Order - Half : /\ upper[i] = t.children[Half + 1 + i]
                                      /\ Half + 1 + i \in 1 .. Order + 1
  <2>1. /\ \A i \in 1 .. Half + 1 : i \in 1 .. Order + 1
        /\ \A i \in 1 .. Order - Half : Half + 1 + i \in 1 .. Order + 1
    BY HalfIs
  <2>2. Cut(t.children, lower, upper)
    BY <1>3, ChildrenCut, Zenon
  <2> QED BY <2>1, <2>2, Zenon DEF Cut
<1>9. Made(lo, SubSeq(t.keys, 1, Half), lower, t.parent)
      /\ Made(up, SubSeq(t.keys, Half + 2, Order), upper, t.parent)
  BY <1>3, NodesMade, Zenon
<1>10. /\ lo \in NodeType /\ lo.is_leaf = FALSE /\ lo.children = lower /\ lo.parent = t.parent
       /\ up \in NodeType /\ up.is_leaf = FALSE /\ up.children = upper /\ up.parent = t.parent
       /\ lo.keys = SubSeq(t.keys, 1, Half) /\ up.keys = SubSeq(t.keys, Half + 2, Order)
  BY <1>9, Zenon DEF Made
<1>f. lo.next = Null /\ up.next = Null
  BY DEF LowerNode, UpperNode, Internal
<1>g. Len(lo.keys) = Half /\ Len(up.keys) = MaxKeys - Half
  <2>1. PICK us \in Seq(Int) : us = t.keys /\ Len(us) = Order
    BY <1>3, Zenon DEF NodeType
  <2>2. Half \in Nat /\ Order \in Nat /\ Half >= 1 /\ Half + 2 <= Order + 1 /\ MaxKeys = Order - 1
    BY HalfIs
  <2>3. Len(SubSeq(us, 1, Half)) = Half /\ Len(SubSeq(us, Half + 2, Order)) = MaxKeys - Half
    BY <2>1, <2>2
  <2> QED BY <1>10, <2>1, <2>3, Zenon
<1>11. MovedTo(node', node, p, w, lower, upper, lo, up)
  <2>1. p \in 1 .. Len(node) /\ \A n \in 1 .. Len(node) : ~(Contains(lower, n) /\ Contains(upper, n))
    BY <1>2, <1>4, <1>6
  <2>2. PICK f : f = node'
    OBVIOUS
  <2>3. f = Append([Moved(node, p, w, lower, upper) EXCEPT ![p] = lo], up)
    BY <1>5, <2>2, Zenon
  <2>4. MovedTo(f, node, p, w, lower, upper, lo, up)
    BY <1>4, <1>10, <2>1, <2>3, MovedIs, Zenon
  <2> QED BY <2>2, <2>4
<1>12. /\ node' \in Seq(NodeType) /\ Nodes' = Nodes \union {w} /\ w \notin Nodes /\ w # Null
       /\ node'[p] = lo /\ node'[w] = up
       /\ \A m \in Nodes : m # p =>
            /\ node'[m].is_leaf = node[m].is_leaf /\ node'[m].keys = node[m].keys
            /\ node'[m].values = node[m].values /\ node'[m].children = node[m].children
            /\ node'[m].next = node[m].next
            /\ Contains(lower, m) => node'[m].parent = p
            /\ Contains(upper, m) => node'[m].parent = w
            /\ ~Contains(lower, m) /\ ~Contains(upper, m) => node'[m].parent = node[m].parent
  <2>1. w \notin Nodes /\ w # Null
    BY <1>4 DEF Null
  <2> QED BY <1>4, <1>11, <2>1, Zenon DEF MovedTo, Nodes
<1>13. /\ \A c : Contains(lower, c) \/ Contains(upper, c) =>
                   /\ c \in A /\ c \in Nodes /\ h[p] = h[c] + 1 /\ c # p
                   /\ c = r \/ node[c].parent = p
  <2> SUFFICES ASSUME NEW c, Contains(lower, c) \/ Contains(upper, c)
               PROVE  /\ c \in A /\ c \in Nodes /\ h[p] = h[c] + 1 /\ c # p
                      /\ c = r \/ node[c].parent = p
    OBVIOUS
  <2>1. PICK j \in 1 .. Order + 1 : c = t.children[j]
    <3>1. CASE Contains(lower, c)
      BY <1>7, <1>8, <3>1, ZenonT(40)
    <3>2. CASE Contains(upper, c)
      BY <1>7, <1>8, <3>2, ZenonT(40)
    <3> QED BY <3>1, <3>2, ZenonT(40)
  <2>2. c \in A /\ h[p] = h[c] + 1 /\ (c = r \/ node[c].parent = p)
    BY <1>y, <2>1, Zenon
  <2>3. c \in Nodes
    BY <1>4, <2>2
  <2>4. h[c] \in Nat
    BY <1>4, <2>3
  <2>5. c # p
    BY <2>2, <2>4
  <2> QED BY <2>2, <2>3, <2>5
<1>14. PICK g : g = [n \in Nodes \union {w} |-> IF n = w THEN h[p] ELSE h[n]]
  BY Zenon
<1>15. g \in [Nodes \union {w} -> Nat] /\ g[w] = h[p] /\ \A n \in Nodes : g[n] = h[n]
  BY <1>2, <1>4, <1>12, <1>14, Zenon
<1>16. ~Idle' /\ promotion'.left = p /\ promotion'.right = w /\ promotion' \in Promotions
       /\ \A n : Orphan(n)' <=> n = w
  <2>1. promotion'.left = p /\ promotion'.right = w
    BY <1>b
  <2>2. sep \in Int
    <3>1. PICK us \in Seq(Int) : us = t.keys
      BY <1>3, Zenon DEF NodeType
    <3>2. Half + 1 \in 1 .. Len(us)
      BY <1>3, <3>1, HalfIs
    <3>3. us[Half + 1] \in Int
      BY <3>2, ElementOf
    <3> QED BY <3>1, <3>3
  <2>3. promotion' \in Promotions
    BY <1>2, <1>4, <1>b, <2>2 DEF Promotions
  <2>4. ~Idle'
    BY <2>3, NothingAssumption DEF Idle, Promotions
  <2> QED BY <2>1, <2>3, <2>4 DEF Orphan
<1>17. Types'
  BY <1>4, <1>c, <1>12, <1>16 DEF Types
<1>18. /\ Half >= 1 /\ Half <= MaxKeys /\ MaxKeys - Half >= 1 /\ MaxKeys - Half <= MaxKeys
       /\ Half >= MaxKeys - Half /\ Half \in Nat /\ MaxKeys \in Nat /\ MaxKeys - Half \in Nat
       /\ Order - Half = (MaxKeys - Half) + 1
  BY OrderAssumption DEF Half, MaxKeys
<1>19. h[p] # 0 /\ h[p] \in Nat
  BY <1>2, <1>4, Zenon DEF Kept
<1>20. AllKept(g)'
  <2> SUFFICES ASSUME NEW m \in Nodes \union {w} PROVE Kept(g, m)'
    BY <1>12, <1>15 DEF AllKept
  <2>1. CASE m = p
    <3>1. \A i \in 1 .. Len(lower) : lower[i] \in Nodes' /\ g[p] = g[lower[i]] + 1
      <4> SUFFICES ASSUME NEW i \in 1 .. Len(lower)
                   PROVE  lower[i] \in Nodes' /\ g[p] = g[lower[i]] + 1
        BY Zenon
      <4>1. Contains(lower, lower[i])
        BY DEF Contains
      <4>2. lower[i] \in Nodes /\ h[p] = h[lower[i]] + 1
        BY <1>13, <4>1
      <4> QED BY <1>2, <1>12, <1>15, <4>2, ZenonT(40)
    <3>2. /\ node'[p].is_leaf = FALSE /\ node'[p].keys = lo.keys /\ node'[p].children = lower
          /\ node'[p].next = Null
      BY <1>f, <1>10, <1>12, ZenonT(40)
    <3>3. g[p] # 0 /\ Len(lower) = Len(lo.keys) + 1 /\ Len(lo.keys) >= 1 /\ Len(lo.keys) <= MaxKeys
      BY <1>2, <1>g, <1>8, <1>15, <1>18, <1>19, Zenon
    <3> QED BY <2>1, <3>1, <3>2, <3>3, ZenonT(40) DEF Kept
  <2>2. CASE m = w
    <3>1. \A i \in 1 .. Len(upper) : upper[i] \in Nodes' /\ g[w] = g[upper[i]] + 1
      <4> SUFFICES ASSUME NEW i \in 1 .. Len(upper)
                   PROVE  upper[i] \in Nodes' /\ g[w] = g[upper[i]] + 1
        OBVIOUS
      <4>1. Contains(upper, upper[i])
        BY DEF Contains
      <4>2. upper[i] \in Nodes /\ h[p] = h[upper[i]] + 1
        BY <1>13, <4>1
      <4> QED BY <1>12, <1>15, <4>2, ZenonT(40)
    <3>2. /\ node'[w].is_leaf = FALSE /\ node'[w].keys = up.keys /\ node'[w].children = upper
          /\ node'[w].next = Null
      BY <1>f, <1>10, <1>12, ZenonT(40)
    <3>3. g[w] # 0 /\ Len(upper) = Len(up.keys) + 1 /\ Len(up.keys) >= 1 /\ Len(up.keys) <= MaxKeys
      BY <1>g, <1>8, <1>15, <1>18, <1>19, Zenon
    <3> QED BY <2>2, <3>1, <3>2, <3>3, ZenonT(40) DEF Kept
  <2>3. CASE m # p /\ m # w
    <3>1. m \in Nodes /\ Same(m) /\ Kept(h, m) /\ Nodes \subseteq Nodes'
      BY <1>12, <2>3, SoundIs DEF Same
    <3> QED BY <1>15, <3>1, KeptStays
  <2> QED BY <2>1, <2>2, <2>3
<1>21. Filled'
  <2> SUFFICES ASSUME NEW m \in Nodes \union {w}, m # root' \/ (~Idle /\ m = promotion.left)'
               PROVE  Len(node'[m].keys) >= AtLeast(node'[m])
    BY <1>12 DEF Filled
  <2>1. CASE m = p \/ m = w
    <3>1. AtLeast(lo) = MaxKeys - Half /\ AtLeast(up) = MaxKeys - Half
      BY <1>10, Zenon DEF AtLeast
    <3> QED BY <1>g, <1>12, <1>18, <2>1, <3>1
  <2>2. CASE m # p /\ m # w
    <3>1. m \in Nodes /\ m # root
      BY <1>c, <1>16, <2>2
    <3>2. Len(node[m].keys) >= AtLeast(node[m])
      BY <3>1 DEF Sound, Filled
    <3> QED BY <1>12, <2>2, <3>1, <3>2, Zenon DEF AtLeast, Half, MaxKeys
  <2> QED BY <2>1, <2>2
<1>22. Linked(NoPlaces)'
  <2>1. Linked(NoPlaces)
    BY DEF Sound
  <2>2. \A m \in Nodes : node[m].is_leaf => m # p
    BY <1>2
  <2>3. ~node'[p].is_leaf /\ ~node'[w].is_leaf
    BY <1>10, <1>12, Zenon
  <2> QED BY <1>12, <2>1, <2>2, <2>3, ListKept
<1>23. Tied(A \union {w})'
  <2>1. Owns(A \union {w}, p)'
    <3>1. node'[p].children = lower
      BY <1>10, <1>12, ZenonT(40)
    <3>2. ASSUME NEW i \in 1 .. Len(lower)
          PROVE  /\ lower[i] \in A \union {w} /\ ~Orphan(lower[i])'
                 /\ node'[lower[i]].parent = p
      <4>1. Contains(lower, lower[i])
        BY DEF Contains
      <4>2. lower[i] \in A /\ lower[i] \in Nodes /\ lower[i] # p /\ lower[i] # w
        BY <1>12, <1>13, <4>1, ZenonT(40)
      <4> QED BY <1>12, <1>16, <4>1, <4>2, Zenon
    <3>3. Distinct(lower, Len(lower))
      <4>0. Len(lower) = Half + 1
        BY <1>8, ZenonT(40)
      <4> SUFFICES ASSUME NEW a \in 1 .. Half + 1, NEW b \in 1 .. Half + 1, lower[a] = lower[b]
                   PROVE  a = b
        BY <4>0 DEF Distinct
      <4>1. a \in 1 .. Order + 1 /\ b \in 1 .. Order + 1 /\ t.children[a] = t.children[b]
        BY <1>8, Zenon
      <4> QED BY <1>x, <4>1, Zenon DEF Distinct
    <3> QED BY <3>1, <3>2, <3>3, Zenon DEF Owns
  <2>2. Owns(A \union {w}, w)'
    <3>1. node'[w].children = upper
      BY <1>10, <1>12, ZenonT(40)
    <3>2. ASSUME NEW i \in 1 .. Len(upper)
          PROVE  /\ upper[i] \in A \union {w} /\ ~Orphan(upper[i])'
                 /\ node'[upper[i]].parent = w
      <4>1. Contains(upper, upper[i])
        BY DEF Contains
      <4>2. upper[i] \in A /\ upper[i] \in Nodes /\ upper[i] # p /\ upper[i] # w
        BY <1>12, <1>13, <4>1, Zenon
      <4> QED BY <1>12, <1>16, <4>1, <4>2, Zenon
    <3>3. Distinct(upper, Len(upper))
      <4>0. Len(upper) = Order - Half
        BY <1>8, ZenonT(40)
      <4> SUFFICES ASSUME NEW a \in 1 .. Order - Half, NEW b \in 1 .. Order - Half,
                          upper[a] = upper[b]
                   PROVE  a = b
        BY <4>0 DEF Distinct
      <4>1. /\ Half + 1 + a \in 1 .. Order + 1 /\ Half + 1 + b \in 1 .. Order + 1
            /\ t.children[Half + 1 + a] = t.children[Half + 1 + b]
        BY <1>8, Zenon
      <4>2. Half + 1 + a = Half + 1 + b
        BY <1>x, <4>1, Zenon DEF Distinct
      <4>3. Half + 1 \in Int /\ a \in Int /\ b \in Int
        BY <1>18
      <4> QED BY <4>2, <4>3
    <3> QED BY <3>1, <3>2, <3>3, ZenonT(40) DEF Owns
  <2>3. ASSUME NEW n \in A, ~node'[n].is_leaf PROVE Owns(A \union {w}, n)'
    <3>1. CASE n = p
      BY <2>1, <3>1
    <3>2. CASE n # p
      <4>1. Owns(A, n) /\ n \in Nodes /\ node'[n].children = node[n].children
        BY <1>4, <1>12, <2>3, <3>2 DEF Sound, Tied
      <4>2. ASSUME NEW i \in 1 .. Len(node[n].children)
            PROVE  /\ ~Orphan(node[n].children[i])'
                   /\ node'[node[n].children[i]].parent = node[node[n].children[i]].parent
        <5> PICK c : c = node[n].children[i]
          OBVIOUS
        <5>1. c \in A /\ ~Orphan(c) /\ node[c].parent = n
          BY <4>1, Zenon DEF Owns
        <5>2. c \in Nodes /\ c # w /\ c # r
          BY <1>1, <1>4, <1>12, <5>1
        <5>3. ~Contains(lower, c) /\ ~Contains(upper, c)
          BY <1>13, <3>2, <5>1, <5>2
        <5>4. node'[c].parent = node[c].parent
          <6>1. CASE c = p
            BY <1>3, <1>10, <1>12, <6>1, ZenonT(40)
          <6>2. CASE c # p
            BY <1>12, <5>2, <5>3, <6>2
          <6> QED BY <6>1, <6>2
        <5>5. ~Orphan(c)' /\ c = node'[n].children[i]
          BY <1>16, <4>1, <5>2
        <5> QED BY <5>4, <5>5
      <4> QED BY <4>1, <4>2, OwnsStays
    <3> QED BY <3>1, <3>2
  <2>4. ASSUME NEW n \in A PROVE Owned(A \union {w}, n)'
    <3>0. n \in Nodes
      BY <1>4
    <3>1. CASE Contains(lower, n) \/ Contains(upper, n)
      <4>1. n # root
        <5>1. CASE n = r
          BY <1>1, <5>1
        <5>2. CASE n # r
          <6>1. node[n].parent = p /\ ~Orphan(n)
            BY <1>1, <1>13, <3>0, <3>1, <5>2
          <6>2. Owned(A, n)
            BY <6>1 DEF Sound, Tied
          <6> QED BY <6>1, <6>2 DEF Owned, ParentOf
        <5> QED BY <5>1, <5>2
      <4>2. CASE Contains(lower, n)
        <5>1. node'[n].parent = p /\ node'[p].children = lower /\ ~node'[p].is_leaf /\ p \in Nodes'
          BY <1>2, <1>10, <1>12, <1>13, <3>0, <4>2, Zenon
        <5>2. \E i \in 1 .. Len(lower) : lower[i] = n
          BY <4>2 DEF Contains
        <5> QED BY <1>2, <1>c, <4>1, <5>1, <5>2, ZenonT(40) DEF Owned, ParentOf
      <4>3. CASE Contains(upper, n)
        <5>1. node'[n].parent = w /\ node'[w].children = upper /\ ~node'[w].is_leaf /\ w \in Nodes'
          BY <1>10, <1>12, <1>13, <3>0, <4>3, Zenon
        <5>2. \E i \in 1 .. Len(upper) : upper[i] = n
          BY <4>3 DEF Contains
        <5> QED BY <1>c, <4>1, <5>1, <5>2 DEF Owned, ParentOf
      <4> QED BY <3>1, <4>2, <4>3
    <3>2. CASE ~(Contains(lower, n) \/ Contains(upper, n))
      <4>1. n # r /\ ~(n # root /\ node[n].parent = p)
        BY <1>6, <3>2
      <4>2. Owned(A, n)
        BY <1>1, <3>0, <4>1 DEF Sound, Tied
      <4>3. node'[n].parent = node[n].parent
        <5>1. CASE n = p
          BY <1>3, <1>10, <1>12, <5>1, Zenon
        <5>2. CASE n # p
          BY <1>12, <3>0, <3>2, <5>2
        <5> QED BY <5>1, <5>2
      <4>4. CASE n = root
        BY <1>c, <4>2, <4>3, <4>4 DEF Owned, ParentOf, Null
      <4>5. CASE n # root
        <5>1. PICK q : q = node[n].parent
          OBVIOUS
        <5>2. q \in Nodes /\ ~node[q].is_leaf /\ q \in A /\ q # p
          BY <4>1, <4>2, <4>5, <5>1 DEF Owned, ParentOf
        <5>3. PICK i \in 1 .. Len(node[q].children) : node[q].children[i] = n
          BY <4>2, <4>5, <5>1, Zenon DEF Owned, ParentOf
        <5>4. node'[n].parent = q /\ node'[q].children = node[q].children /\ ~node'[q].is_leaf
              /\ q \in Nodes' /\ n # root' /\ q \in A \union {w}
          BY <1>c, <1>12, <4>3, <4>5, <5>1, <5>2
        <5> QED BY <5>3, <5>4, Zenon DEF Owned, ParentOf
      <4> QED BY <4>4, <4>5
    <3> QED BY <3>1, <3>2
  <2>5. A \union {w} \subseteq Nodes'
    BY <1>4, <1>12, Zenon
  <2>6. ~node'[w].is_leaf /\ Orphan(w)'
    BY <1>10, <1>12, <1>16, Zenon
  <2> QED BY <1>2, <1>4, <1>c, <1>16, <2>2, <2>3, <2>4, <2>5, <2>6 DEF Tied
<1>24. Pending(g)'
  <2>1. g[p] = g[w] /\ p # w /\ w # root
    BY <1>2, <1>4, <1>12, <1>15, Zenon
  <2> QED BY <1>c, <1>16, <2>1 DEF Pending
<1>30. Sound(g, A \union {w})'
  BY <1>17, <1>20, <1>21, <1>22, <1>23, <1>24 DEF Sound
<1>31. A # Nodes => A \union {w} # Nodes'
  BY <1>4, <1>12, ZenonT(40)
<1> QED BY <1>30, <1>31


(* Nothing has happened to the tree. *)
LEMMA SameSound ==
  ASSUME NEW h, NEW A, Sound(h, A), UNCHANGED <<node, root, promotion>>,
         returned' \in {0, 1, 2}, (returned' # 2) <=> (returned # 2)
  PROVE  Sound(h, A)' /\ Nodes' = Nodes
<1>1. Nodes' = Nodes /\ node' = node /\ root' = root /\ promotion' = promotion
  BY DEF Nodes
<1>2. Idle' <=> Idle
  BY <1>1 DEF Idle
<1>3. \A n : Orphan(n)' <=> Orphan(n)
  BY <1>1, <1>2 DEF Orphan
<1>4. Types'
  BY <1>1, <1>2 DEF Sound, Types
<1>5. AllKept(h)'
  BY <1>1 DEF Sound, AllKept, Kept
<1>6. Filled'
  BY <1>1, <1>2 DEF Sound, Filled
<1>7. Linked(NoPlaces)'
  BY <1>1 DEF Sound, Linked, Listed
<1>8. Tied(A)'
  BY <1>1, <1>2, <1>3 DEF Sound, Tied, Owns, Owned, ParentOf
<1>9. Pending(h)'
  BY <1>1, <1>2 DEF Sound, Pending
<1> QED BY <1>1, <1>4, <1>5, <1>6, <1>7, <1>8, <1>9 DEF Sound

(* A split that is not passed on cuts the right half off, with all the     *)
(* nodes below it.                                                         *)
LEMMA CutOff ==
  ASSUME NEW h, NEW A, Sound(h, A), ~Idle, UNCHANGED <<node, root>>,
         promotion' = Nothing, returned' = 0
  PROVE  \E B : Sound(h, B)' /\ B # Nodes'
<1> PICK l : l = promotion.left
  OBVIOUS
<1> PICK r : r = promotion.right
  OBVIOUS
<1>1. /\ l \in Nodes /\ r \in Nodes /\ r # root /\ \A c \in Nodes : c # r => ~Orphan(c)
      /\ Orphan(r)
  BY HalvesAre
<1>2. /\ Null \notin Nodes /\ A \subseteq Nodes /\ root \in Nodes /\ root # Null /\ root \in A
  BY <1>1, SoundIs
<1>3. Nodes' = Nodes /\ node' = node /\ root' = root
  BY DEF Nodes
<1>4. Idle' /\ \A c : ~Orphan(c)'
  BY DEF Idle, Orphan
<1> DEFINE Upwards(S) == r \notin S /\ \A m \in S : m = root \/ node[m].parent \in S
<1>5. PICK B : B = UNION {S \in SUBSET A : Upwards(S)}
  OBVIOUS
<1>6. \A n \in B : \E S \in SUBSET A : n \in S /\ Upwards(S)
  BY <1>5
<1>7. \A S \in SUBSET A : Upwards(S) => S \subseteq B
  BY <1>5
<1>8. B \subseteq A /\ r \notin B
  BY <1>6
<1>9. root \in B
  <2>1. {root} \in SUBSET A /\ Upwards({root})
    BY <1>1, <1>2
  <2> HIDE DEF Upwards
  <2> QED BY <1>7, <2>1
<1>10. ASSUME NEW n \in B, ~node[n].is_leaf PROVE Owns(B, n)'
  <2>1. PICK S \in SUBSET A : n \in S /\ Upwards(S)
    BY <1>6
  <2>2. Owns(A, n)
    BY <1>8, <1>10 DEF Sound, Tied
  <2>3. ASSUME NEW i \in 1 .. Len(node[n].children)
        PROVE  node[n].children[i] \in B /\ node[node[n].children[i]].parent = n
    <3> PICK c : c = node[n].children[i]
      OBVIOUS
    <3>1. c \in A /\ c # r /\ node[c].parent = n
      BY <1>1, <2>2, Zenon DEF Owns
    <3>2. S \union {c} \in SUBSET A /\ Upwards(S \union {c})
      BY <2>1, <3>1
    <3>3. c \in B
      BY <1>7, <3>2
    <3> QED BY <3>1, <3>3
  <2> QED BY <1>3, <1>4, <2>2, <2>3, Zenon DEF Owns, Distinct
<1>11. ASSUME NEW n \in B PROVE Owned(B, n)'
  <2>1. PICK S \in SUBSET A : n \in S /\ Upwards(S)
    BY <1>6
  <2>2. Owned(A, n)
    BY <1>1, <1>2, <1>8, <2>1 DEF Sound, Tied
  <2>3. n # root => node[n].parent \in B
    BY <1>7, <2>1
  <2> QED BY <1>3, <2>2, <2>3 DEF Owned, ParentOf, Null
<1>12. Tied(B)'
  BY <1>2, <1>3, <1>4, <1>8, <1>9, <1>10, <1>11 DEF Tied
<1>13. Types'
  BY <1>3, <1>4 DEF Sound, Types
<1>14. AllKept(h)'
  BY <1>3 DEF Sound, AllKept, Kept
<1>15. Filled' /\ Pending(h)'
  BY <1>3, <1>4 DEF Sound, Filled, Pending
<1>16. Linked(NoPlaces)'
  BY <1>3 DEF Sound, Linked, Listed
<1>17. B # Nodes'
  BY <1>1, <1>3, <1>8
<1> QED BY <1>12, <1>13, <1>14, <1>15, <1>16, <1>17 DEF Sound

-----------------------------------------------------------------------------
(* The walks down the tree.                                                *)

(* What down[n] is on D, for a walk that goes on from n in node nx[n]. *)
Walks(f, nx, D) == f = [n \in D |-> IF n = Null \/ node[n].is_leaf THEN n ELSE f[nx[n]]]

(* nx goes down by a level. *)
Descends(nx, h) ==
  /\ h \in [Nodes -> Nat]
  /\ \A n \in Nodes : node[n].is_leaf <=> h[n] = 0
  /\ \A n \in Nodes : ~node[n].is_leaf => nx[n] \in Nodes /\ h[n] = h[nx[n]] + 1

LEMMA WalkExists ==
  ASSUME NEW h, NEW nx, Descends(nx, h), NEW L \in Nat, Null \notin Nodes
  PROVE  \E f : Walks(f, nx, Below(h, L))
<1>0. h \in [Nodes -> Nat] /\ \A n \in Nodes : node[n].is_leaf <=> h[n] = 0
  BY DEF Descends
<1> DEFINE T == {m \in Nat : ~\E f : Walks(f, nx, Below(h, m))}
<1> SUFFICES ASSUME T # {} PROVE FALSE
  OBVIOUS
<1>1. T \subseteq Nat
  OBVIOUS
<1> HIDE DEF T
<1>2. PICK m \in T : \A y \in T : m <= y
  BY <1>1, LeastNumber
<1>3. m \in Nat /\ ~\E f : Walks(f, nx, Below(h, m))
  BY <1>2 DEF T
<1>4. CASE m = 0
  <2>1. Walks([n \in Below(h, 0) |-> n], nx, Below(h, 0))
    BY <1>0 DEF Walks, Below
  <2> QED BY <1>3, <1>4, <2>1
<1>5. CASE m # 0
  <2>1. m - 1 \in Nat /\ ~(m <= m - 1)
    BY <1>3, <1>5
  <2>2. m - 1 \notin T
    BY <1>2, <2>1
  <2>3. PICK f : Walks(f, nx, Below(h, m - 1))
    BY <2>1, <2>2 DEF T
  <2> DEFINE D == Below(h, m - 1)
             E == Below(h, m)
             g == [n \in E |-> IF n \in D THEN f[n] ELSE f[nx[n]]]
  <2>4. ASSUME NEW n \in E, n # Null, ~node[n].is_leaf
        PROVE  nx[n] \in D /\ nx[n] \in E
    <3>1. n \in Nodes /\ h[n] <= m /\ h[n] \in Nat
      BY <1>0, <2>4 DEF Below
    <3>2. nx[n] \in Nodes /\ h[n] = h[nx[n]] + 1
      BY <2>4, <3>1 DEF Descends
    <3>3. h[nx[n]] \in Nat
      BY <1>0, <3>2
    <3> QED BY <1>3, <3>1, <3>2, <3>3 DEF Below
  <2>5. \A n \in E : n = Null \/ node[n].is_leaf => n \in D
    BY <1>0, <2>1 DEF Below
  <2>6. \A n \in D : n \in E
    BY <1>0, <1>3 DEF Below
  <2>7. \A n \in D : f[n] = IF n = Null \/ node[n].is_leaf THEN n ELSE f[nx[n]]
    BY <2>3 DEF Walks
  <2> HIDE DEF D, E
  <2>8. ASSUME NEW n \in E
        PROVE  g[n] = IF n = Null \/ node[n].is_leaf THEN n ELSE g[nx[n]]
    <3>1. CASE n = Null \/ node[n].is_leaf
      BY <2>5, <2>7, <3>1
    <3>2. CASE ~(n = Null \/ node[n].is_leaf)
      <4>1. nx[n] \in D /\ nx[n] \in E
        BY <2>4, <3>2
      <4>2. g[n] = f[nx[n]]
        BY <2>7, <3>2
      <4>3. g[nx[n]] = f[nx[n]]
        BY <4>1
      <4> QED BY <3>2, <4>2, <4>3
    <3> QED BY <3>1, <3>2
  <2>9. g = [n \in E |-> IF n = Null \/ node[n].is_leaf THEN n ELSE g[nx[n]]]
    BY <2>8
  <2>10. Walks(g, nx, E)
    BY <2>9 DEF Walks
  <2> QED BY <1>3, <2>10 DEF E
<1> QED BY <1>4, <1>5

(* Finitely many heights have a bound. *)
LEMMA HeightsBounded ==
  ASSUME NEW k \in Nat, NEW h \in [1 .. k -> Nat]
  PROVE  \E L \in Nat : \A n \in 1 .. k : h[n] <= L
<1> DEFINE Bounded(m) == \E L \in Nat : \A n \in 1 .. m : h[n] <= L
           T == {m \in Nat : m <= k /\ ~Bounded(m)}
<1> SUFFICES Bounded(k)
  OBVIOUS
<1> HIDE DEF Bounded
<1> SUFFICES ASSUME ~Bounded(k) PROVE FALSE
  OBVIOUS
<1>1. T \subseteq Nat /\ k \in T
  OBVIOUS
<1> HIDE DEF T
<1>2. PICK m \in T : \A y \in T : m <= y
  BY <1>1, LeastNumber
<1>3. m \in Nat /\ m <= k /\ ~Bounded(m)
  BY <1>2 DEF T
<1>4. m # 0
  <2>1. 0 \in Nat /\ \A n \in 1 .. 0 : h[n] <= 0
    OBVIOUS
  <2> QED BY <1>3, <2>1 DEF Bounded
<1>5. PICK j \in Nat : m = j + 1
  <2>1. m - 1 \in Nat /\ m = (m - 1) + 1
    BY <1>3, <1>4
  <2> QED BY <2>1
<1>6. j \notin T /\ j <= k
  BY <1>2, <1>3, <1>5
<1>7. PICK L \in Nat : \A n \in 1 .. j : h[n] <= L
  BY <1>6 DEF T, Bounded
<1>8. m \in 1 .. k
  BY <1>3, <1>5
<1>9. PICK x \in Nat : x = h[m]
  BY <1>8
<1>10. PICK M \in Nat : x <= M /\ L <= M
  <2>1. L + x \in Nat /\ x <= L + x /\ L <= L + x
    OBVIOUS
  <2> QED BY <2>1
<1>11. ASSUME NEW n \in 1 .. m PROVE h[n] <= M
  <2>1. CASE n = m
    BY <1>9, <1>10, <2>1
  <2>2. CASE n # m
    <3>1. n \in 1 .. j /\ n \in 1 .. k
      BY <1>3, <1>5, <2>2
    <3>2. PICK y \in Nat : y = h[n] /\ y <= L
      BY <1>7, <3>1
    <3> QED BY <1>10, <3>2
  <2> QED BY <2>1, <2>2
<1> QED BY <1>3, <1>11 DEF Bounded

LEMMA WalkIs ==
  ASSUME NEW h, NEW nx, Descends(nx, h), Types
  PROVE  \E f : Walks(f, nx, Nodes \union {Null})
<1>1. Len(node) \in Nat /\ Nodes = 1 .. Len(node) /\ Null \notin Nodes /\ h \in [Nodes -> Nat]
  BY NodesAre DEF Descends
<1>2. PICK L \in Nat : \A n \in Nodes : h[n] <= L
  BY <1>1, HeightsBounded
<1>3. Below(h, L) = Nodes \union {Null}
  BY <1>2 DEF Below
<1>4. \E f : Walks(f, nx, Below(h, L))
  BY <1>1, WalkExists
<1> QED BY <1>3, <1>4

(* A walk that stays in P ends in a leaf of P. *)
LEMMA WalkEnds ==
  ASSUME NEW h, NEW nx, Descends(nx, h), Null \notin Nodes, NEW f, Walks(f, nx, Nodes \union {Null}),
         NEW P, P \subseteq Nodes, \A m \in P : ~node[m].is_leaf => nx[m] \in P, NEW n \in P
  PROVE  f[n] \in P /\ node[f[n]].is_leaf
<1>0. h \in [Nodes -> Nat] /\ \A m \in Nodes : ~node[m].is_leaf => nx[m] \in Nodes /\ h[m] = h[nx[m]] + 1
  BY DEF Descends
<1> DEFINE Ends(m) == f[m] \in P /\ node[f[m]].is_leaf
           B == {m \in P : ~Ends(m)}
           T == {h[m] : m \in B}
<1> HIDE DEF Ends
<1> SUFFICES ASSUME B # {} PROVE FALSE
  BY DEF Ends
<1>1. T \subseteq Nat /\ T # {}
  BY <1>0
<1> HIDE DEF T
<1>2. PICK x \in T : \A y \in T : x <= y
  BY <1>1, LeastNumber
<1>3. PICK m \in B : x = h[m]
  BY <1>2 DEF T
<1>4. m \in P /\ m \in Nodes /\ ~Ends(m) /\ m # Null
  BY <1>3
<1>a. \A c \in Nodes : h[c] < h[m] => c \notin B
  <2> SUFFICES ASSUME NEW c \in Nodes, h[c] < h[m], c \in B PROVE FALSE
    OBVIOUS
  <2>1. h[c] \in T
    BY DEF T
  <2> QED BY <1>0, <1>2, <1>3, <1>4, <2>1
<1> HIDE DEF B
<1>5. CASE node[m].is_leaf
  <2>1. f[m] = m
    BY <1>4, <1>5 DEF Walks
  <2> QED BY <1>4, <1>5, <2>1 DEF Ends
<1>6. CASE ~node[m].is_leaf
  <2> PICK c : c = nx[m]
    OBVIOUS
  <2>1. c \in P /\ c \in Nodes /\ h[m] = h[c] + 1 /\ h[c] \in Nat
    BY <1>0, <1>4, <1>6
  <2>2. f[m] = f[c]
    BY <1>4, <1>6 DEF Walks
  <2>3. c \notin B
    BY <1>a, <2>1
  <2>4. Ends(c)
    BY <2>1, <2>3 DEF B
  <2> QED BY <1>4, <2>2, <2>4 DEF Ends
<1> QED BY <1>5, <1>6

(* The search for a key ends in a leaf of the tree, if there is one. *)
LEMMA LeafReached ==
  ASSUME NEW h, NEW A, Sound(h, A), NEW key \in Int
  PROVE  IF root = Null THEN bptree_find_leaf(key) = Null
         ELSE bptree_find_leaf(key) \in A /\ node[bptree_find_leaf(key)].is_leaf
<1>1. /\ Nodes = 1 .. Len(node) /\ Len(node) \in Nat /\ Null \notin Nodes
      /\ \A n \in Nodes : node[n] \in NodeType
      /\ h \in [Nodes -> Nat] /\ A \subseteq Nodes
      /\ \A n \in Nodes : Kept(h, n)
      /\ Types
  BY SoundIs DEF Sound
<1>2. root # Null => root \in A
  BY DEF Sound, Tied
<1> PICK nx : nx = [n \in Nodes |-> ChildFor(node[n], key)]
  OBVIOUS
<1>3. ASSUME NEW n \in Nodes, ~node[n].is_leaf
      PROVE  /\ nx[n] \in Nodes /\ h[n] = h[nx[n]] + 1
             /\ n \in A => nx[n] \in A
  <2>1. PICK i \in 0 .. Len(node[n].keys) : ChildFor(node[n], key) = node[n].children[1 + i]
    BY <1>1, ChildForIs
  <2>2. Len(node[n].children) = Len(node[n].keys) + 1
    BY <1>1, <1>3 DEF Kept
  <2>3. Len(node[n].keys) \in Nat
    BY <1>1 DEF NodeType
  <2>4. 1 + i \in 1 .. Len(node[n].children) /\ nx[n] = node[n].children[1 + i]
    BY <2>1, <2>2, <2>3
  <2>5. Kept(h, n)
    BY <1>1
  <2>6. nx[n] \in Nodes /\ h[n] = h[nx[n]] + 1
    BY <1>3, <2>4, <2>5, Zenon DEF Kept
  <2>7. ASSUME n \in A PROVE nx[n] \in A
    <3>1. Owns(A, n)
      BY <1>3, <2>7 DEF Sound, Tied
    <3> QED BY <2>4, <3>1, Zenon DEF Owns
  <2> QED BY <2>6, <2>7
<1>4. Descends(nx, h)
  BY <1>1, <1>3 DEF Descends, Kept
<1> DEFINE D == Nodes \union {Null}
           down == CHOOSE f : Follows(f, key, D)
<1>5. bptree_find_leaf(key) = down[root]
  BY DEF bptree_find_leaf, Follows
<1>6. \A f : Follows(f, key, D) <=> Walks(f, nx, D)
  <2> SUFFICES ASSUME NEW f PROVE Follows(f, key, D) <=> Walks(f, nx, D)
    OBVIOUS
  <2>1. \A n \in D : n # Null => nx[n] = ChildFor(node[n], key)
    OBVIOUS
  <2> HIDE DEF D
  <2>2. [n \in D |-> IF n = Null \/ node[n].is_leaf THEN n ELSE f[ChildFor(node[n], key)]]
          = [n \in D |-> IF n = Null \/ node[n].is_leaf THEN n ELSE f[nx[n]]]
    BY <2>1
  <2> QED BY <2>2 DEF Follows, Walks
<1>7. \E f : Follows(f, key, D)
  BY <1>1, <1>4, <1>6, WalkIs
<1>8. Walks(down, nx, D)
  BY <1>6, <1>7
<1> HIDE DEF down
<1>9. ASSUME root = Null PROVE down[root] = Null
  BY <1>8, <1>9 DEF Walks
<1>10. ASSUME root # Null PROVE down[root] \in A /\ node[down[root]].is_leaf
  <2>1. \A m \in A : ~node[m].is_leaf => nx[m] \in A
    BY <1>1, <1>3
  <2> QED BY <1>1, <1>2, <1>4, <1>8, <1>10, <2>1, WalkEnds
<1> QED BY <1>5, <1>9, <1>10

-----------------------------------------------------------------------------
(* The nodes are sound in every state.                                     *)

LEMMA InsertSound ==
  ASSUME NEW h, NEW A, Sound(h, A), NEW key \in Keys, NEW value \in Values, bptree_insert(key, value)
  PROVE  \E g, B : Sound(g, B)' /\ (A # Nodes => B # Nodes')
<1>1. key \in Int /\ Idle
  BY KeysAssumption DEF bptree_insert
<1>2. ASSUME Return(0) \/ (promotion' = Nothing /\ returned' = 0), UNCHANGED <<node, root>>
      PROVE  \E g, B : Sound(g, B)' /\ (A # Nodes => B # Nodes')
  <2>1. returned' = 0 /\ promotion' = promotion
    BY <1>1, <1>2 DEF Return, Idle
  <2>2. returned # 2
    BY <1>1 DEF Sound, Types
  <2>3. Sound(h, A)' /\ Nodes' = Nodes
    BY <1>2, <2>1, <2>2, SameSound
  <2> QED BY <2>3
<1>3. CASE InsertFirst(key, value)
  <2>1. CASE CallocRefuses("first leaf")
    BY <1>2, <2>1, Zenon DEF CallocRefuses
  <2>2. CASE ~CallocRefuses("first leaf")
    <3>1. /\ root = Null /\ node' = Append(node, Leaf(<<key>>, <<value>>, Null, Null))
          /\ root' = Len(node') /\ promotion' = Nothing /\ returned' = 1
      BY <1>3, <2>2, Zenon DEF InsertFirst, Return
    <3> QED BY <1>1, <3>1, FirstSound
  <2> QED BY <2>1, <2>2, Zenon
<1>4. CASE root # Null
  <2> PICK leaf : leaf = bptree_find_leaf(key)
    OBVIOUS
  <2>1. leaf \in A /\ leaf \in Nodes /\ node[leaf].is_leaf
    BY <1>1, <1>4, LeafReached, SoundIs
  <2>2. CASE InsertDuplicate(leaf, key)
    BY <1>2, <2>2 DEF InsertDuplicate
  <2>3. CASE bptree_insert_into_leaf(leaf, key, value)
    <3>1. Sound(h, A)' /\ Nodes' = Nodes
      BY <1>1, <2>1, <2>3, LeafSound
    <3> QED BY <3>1
  <2>4. CASE bptree_split_leaf_and_insert(leaf, key, value)
    <3>1. CASE CallocRefuses("right leaf")
      BY <1>2, <3>1, Zenon DEF CallocRefuses
    <3>2. CASE ~CallocRefuses("right leaf")
      <4>1. returned' = 2
        BY <2>4, <3>2, Zenon DEF bptree_split_leaf_and_insert, Promote
      <4> QED BY <1>1, <2>1, <2>4, <4>1, SplitLeafSound
    <3> QED BY <3>1, <3>2, Zenon
  <2> QED BY <1>4, <2>2, <2>3, <2>4, Zenon DEF bptree_insert, InsertFirst
<1> QED BY <1>3, <1>4 DEF bptree_insert

LEMMA ParentSound ==
  ASSUME NEW h, NEW A, Sound(h, A), bptree_insert_into_parent
  PROVE  \E g, B : Sound(g, B)' /\ (A # Nodes \/ Refused => B # Nodes')
<1>0. ~Idle
  BY DEF bptree_insert_into_parent
<1> PICK p : p = node[promotion.left].parent
  OBVIOUS
<1>1. CASE Refused
  <2>1. UNCHANGED <<node, root>> /\ promotion' = Nothing /\ returned' = 0
    BY <1>1, Zenon DEF Refused, CallocRefuses, Return
  <2>2. \E B : Sound(h, B)' /\ B # Nodes'
    BY <1>0, <2>1, CutOff
  <2> QED BY <2>2
<1>2. CASE ~Refused
  <2>0. ~CallocRefuses("root") /\ ~CallocRefuses("right parent")
    BY <1>2, Zenon DEF Refused
  <2>1. CASE p = Null
    <3>1. bptree_create_new_root(promotion.left, promotion.key, promotion.right)
      BY <2>1 DEF bptree_insert_into_parent
    <3>2. returned' = 1
      BY <2>0, <3>1, Zenon DEF bptree_create_new_root, Return
    <3>3. \E g, B : Sound(g, B)' /\ (A # Nodes => B # Nodes')
      BY <1>0, <2>1, <3>1, <3>2, NewRootSound
    <3> QED BY <1>2, <3>3
  <2>2. CASE p # Null
    <3>1. \/ bptree_insert_into_internal(p, promotion.left, promotion.key, promotion.right)
          \/ bptree_split_internal_and_insert(p, promotion.left, promotion.key, promotion.right)
      BY <2>2 DEF bptree_insert_into_parent
    <3>2. CASE bptree_insert_into_internal(p, promotion.left, promotion.key, promotion.right)
      <4>1. Sound(h, A)' /\ Nodes' = Nodes
        BY <1>0, <2>2, <3>2, InternalSound
      <4> QED BY <1>2, <4>1
    <3>3. CASE bptree_split_internal_and_insert(p, promotion.left, promotion.key, promotion.right)
      <4>1. returned' = 2
        BY <2>0, <3>3, Zenon DEF bptree_split_internal_and_insert, Promote
      <4>2. \E g, B : Sound(g, B)' /\ (A # Nodes => B # Nodes')
        BY <1>0, <2>2, <3>3, <4>1, SplitInternalSound
      <4> QED BY <1>2, <4>2
    <3> QED BY <3>1, <3>2, <3>3
  <2> QED BY <2>1, <2>2
<1> QED BY <1>1, <1>2

(* A tree that has lost no node is in shape. *)
SoundTree == \E h, A : Sound(h, A) /\ (A = Nodes => TreeInv)

(* SoundTree is inductive, whatever allocations fail. *)
LEMMA SoundTreeKept ==
  ASSUME SoundTree, [Next]_vars
  PROVE  SoundTree'
<1>1. PICK h, A : Sound(h, A) /\ (A = Nodes => TreeInv)
  BY DEF SoundTree
<1>2. CASE \E key \in Keys, value \in Values : bptree_insert(key, value)
  <2>1. PICK key \in Keys, value \in Values : bptree_insert(key, value)
    BY <1>2
  <2>2. PICK g, B : Sound(g, B)' /\ (A # Nodes => B # Nodes')
    BY <1>1, <2>1, InsertSound
  <2>3. B = Nodes' => TreeInv'
    BY <1>1, <2>1, <2>2, InsertShape
  <2> QED BY <2>2, <2>3 DEF SoundTree
<1>3. CASE bptree_insert_into_parent
  <2>1. PICK g, B : Sound(g, B)' /\ (A # Nodes \/ Refused => B # Nodes')
    BY <1>1, <1>3, ParentSound
  <2>2. B = Nodes' => TreeInv'
    BY <1>1, <1>3, <2>1, ParentShape, Zenon
  <2> QED BY <2>1, <2>2 DEF SoundTree
<1>4. CASE UNCHANGED vars
  <2>1. returned \in {0, 1, 2} /\ returned' = returned /\ UNCHANGED <<node, root, promotion>>
    BY <1>1, <1>4 DEF Sound, Types, vars
  <2>2. Sound(h, A)' /\ Nodes' = Nodes
    BY <1>1, <2>1, SameSound
  <2>3. ASSUME TreeInv PROVE TreeInv'
    <3>1. PICK f, R : Shape(f, R)
      BY <2>3 DEF TreeInv
    <3>2. Shape(f, R)'
      BY <2>1, <3>1, SameShape
    <3> QED BY <3>2 DEF TreeInv
  <2> QED BY <1>1, <2>2, <2>3 DEF SoundTree
<1> QED BY <1>2, <1>3, <1>4 DEF Next

LEMMA SoundTreeStarts == Init => SoundTree
BY InitSound, InitShape DEF SoundTree

THEOREM SoundTreeInvariance == Spec => []SoundTree
<1>1. SoundTree /\ [Next]_vars => SoundTree'
  BY SoundTreeKept
<1> QED BY <1>1, SoundTreeStarts, PTL DEF Spec

LEMMA SoundTypes ==
  ASSUME NEW h, NEW A, Sound(h, A)
  PROVE  TypeOK
<1>1. /\ node \in Seq(NodeType) /\ root \in Nodes \union {Null} /\ returned \in {0, 1, 2}
      /\ promotion \in Promotions \union {Nothing}
  BY DEF Sound, Types, Null
<1>2. ASSUME promotion # Nothing PROVE promotion \in [left : Nodes, key : Int, right : Nodes]
  <2>1. promotion \in Promotions /\ promotion.left \in Nodes /\ promotion.right \in Nodes
    BY <1>1, <1>2 DEF Sound, Tied, Idle
  <2> QED BY <2>1 DEF Promotions
<1> QED BY <1>1, <1>2 DEF TypeOK, NodeType

(* The nodes are what C declares, whatever calloc refuses. *)
THEOREM TreeTypes == Spec => []TypeOK
<1>1. SoundTree => TypeOK
  BY SoundTypes DEF SoundTree
<1> QED BY <1>1, SoundTreeInvariance, PTL

-----------------------------------------------------------------------------
(* The nodes that bptree_destroy_node frees.                               *)

(* The visits of the children of n. *)
Row(f, n) == [i \in DOMAIN node[n].children |-> f[node[n].children[i]]]

(* What visit[n] is on D. *)
Visits(f, D) == f = [n \in D |-> FlattenSeq(Row(f, n)) \o <<n>>]

(* The nodes below height L. *)
Lower(h, L) == {n \in Nodes : h[n] < L}

(* The children of a node are lower, and a leaf has none. *)
Layers(h) ==
  /\ h \in [Nodes -> Nat]
  /\ \A n \in Nodes : node[n].children \in Seq(Nodes)
  /\ \A n \in Nodes : \A i \in 1 .. Len(node[n].children) : h[node[n].children[i]] < h[n]

LEMMA LayersAre ==
  ASSUME NEW h, NEW A, Sound(h, A)
  PROVE  Layers(h)
<1>1. /\ Nodes = 1 .. Len(node) /\ \A n \in Nodes : node[n] \in NodeType
      /\ h \in [Nodes -> Nat] /\ \A n \in Nodes : Kept(h, n)
  BY SoundIs
<1>2. ASSUME NEW n \in Nodes, NEW i \in 1 .. Len(node[n].children)
      PROVE  node[n].children[i] \in Nodes /\ h[node[n].children[i]] < h[n]
  <2>1. CASE node[n].is_leaf
    <3>1. node[n].children = <<>>
      BY <1>1, <2>1, Zenon DEF Kept
    <3>2. Len(node[n].children) = 0
      BY <3>1
    <3> QED BY <3>2
  <2>2. CASE ~node[n].is_leaf
    <3>1. Kept(h, n)
      BY <1>1
    <3>2. node[n].children[i] \in Nodes /\ h[n] = h[node[n].children[i]] + 1
      BY <2>2, <3>1, Zenon DEF Kept
    <3>3. h[node[n].children[i]] \in Nat
      BY <1>1, <3>2
    <3> QED BY <3>2, <3>3
  <2> QED BY <2>1, <2>2
<1>3. ASSUME NEW n \in Nodes PROVE node[n].children \in Seq(Nodes)
  <2>1. node[n].children \in Seq(Nat)
    BY <1>1 DEF NodeType
  <2>2. \A i \in 1 .. Len(node[n].children) : node[n].children[i] \in Nodes
    BY <1>2
  <2> QED BY <2>1, <2>2, SequenceOver
<1> QED BY <1>1, <1>2, <1>3 DEF Layers

(* Two functions that agree on the children of n have the same row. *)
LEMMA RowSame ==
  ASSUME NEW f, NEW g, NEW n, node[n].children \in Seq(Nodes),
         \A i \in 1 .. Len(node[n].children) : f[node[n].children[i]] = g[node[n].children[i]]
  PROVE  Row(f, n) = Row(g, n)
<1>1. DOMAIN node[n].children = 1 .. Len(node[n].children)
  OBVIOUS
<1> QED BY <1>1 DEF Row

LEMMA VisitExists ==
  ASSUME NEW h, Layers(h), NEW L \in Nat
  PROVE  \E f : Visits(f, Lower(h, L))
<1>0. /\ h \in [Nodes -> Nat]
      /\ \A n \in Nodes : node[n].children \in Seq(Nodes)
      /\ \A n \in Nodes : \A i \in 1 .. Len(node[n].children) : h[node[n].children[i]] < h[n]
  BY DEF Layers
<1> DEFINE T == {m \in Nat : ~\E f : Visits(f, Lower(h, m))}
<1> SUFFICES ASSUME T # {} PROVE FALSE
  OBVIOUS
<1>1. T \subseteq Nat
  OBVIOUS
<1> HIDE DEF T
<1>2. PICK m \in T : \A y \in T : m <= y
  BY <1>1, LeastNumber
<1>3. m \in Nat /\ ~\E f : Visits(f, Lower(h, m))
  BY <1>2 DEF T
<1>4. m # 0
  <2>1. Lower(h, 0) = {}
    BY <1>0 DEF Lower
  <2>2. Visits([n \in {} |-> 0], {})
    BY DEF Visits
  <2> QED BY <1>3, <2>1, <2>2
<1>5. PICK j \in Nat : m = j + 1
  <2>1. m - 1 \in Nat /\ m = (m - 1) + 1
    BY <1>3, <1>4
  <2> QED BY <2>1
<1>6. j \notin T
  BY <1>2, <1>5
<1>7. PICK f : Visits(f, Lower(h, j))
  BY <1>6 DEF T
<1> PICK D : D = Lower(h, j)
  OBVIOUS
<1> PICK E : E = Lower(h, m)
  OBVIOUS
<1>8. /\ \A n \in D : n \in E /\ n \in Nodes
      /\ \A n \in E : n \in Nodes
      /\ \A n \in E : \A i \in 1 .. Len(node[n].children) : node[n].children[i] \in D
  <2>1. \A n \in D : n \in Nodes /\ h[n] < j
    BY DEF Lower
  <2>2. \A n \in E : n \in Nodes /\ h[n] < m
    BY DEF Lower
  <2>3. ASSUME NEW n \in D PROVE n \in E
    <3>1. h[n] \in Nat
      BY <1>0, <2>1
    <3> QED BY <1>5, <2>1, <3>1 DEF Lower
  <2>4. ASSUME NEW n \in E, NEW i \in 1 .. Len(node[n].children)
        PROVE  node[n].children[i] \in D
    <3> PICK c : c = node[n].children[i]
      OBVIOUS
    <3>1. c \in Nodes
      BY <1>0, <2>2, ElementOf
    <3>2. h[c] \in Nat /\ h[n] \in Nat /\ h[c] < h[n] /\ h[n] < m
      BY <1>0, <2>2, <3>1
    <3> QED BY <1>5, <3>1, <3>2 DEF Lower
  <2> QED BY <2>1, <2>2, <2>3, <2>4
<1> PICK g : g = [n \in E |-> IF n \in D THEN f[n] ELSE FlattenSeq(Row(f, n)) \o <<n>>]
  OBVIOUS
<1>9. \A n \in D : f[n] = FlattenSeq(Row(f, n)) \o <<n>>
  BY <1>7 DEF Visits
<1>10. ASSUME NEW n \in E PROVE g[n] = FlattenSeq(Row(g, n)) \o <<n>>
  <2>1. \A i \in 1 .. Len(node[n].children) : g[node[n].children[i]] = f[node[n].children[i]]
    BY <1>8
  <2>a. node[n].children \in Seq(Nodes)
    BY <1>0, <1>8
  <2>2. Row(g, n) = Row(f, n)
    BY <2>1, <2>a, RowSame, ZenonT(40)
  <2>3. g[n] = FlattenSeq(Row(f, n)) \o <<n>>
    BY <1>9
  <2> QED BY <2>2, <2>3
<1>11. g = [n \in E |-> FlattenSeq(Row(g, n)) \o <<n>>]
  BY <1>10
<1> QED BY <1>3, <1>11 DEF Visits

(* A visit comes to an end with the node itself, after its children. *)
LEMMA VisitTyped ==
  ASSUME NEW h, Layers(h), NEW f, Visits(f, Nodes)
  PROVE  \A n \in Nodes : f[n] \in Seq(Nodes)
<1>0. /\ h \in [Nodes -> Nat]
      /\ \A n \in Nodes : node[n].children \in Seq(Nodes)
      /\ \A n \in Nodes : \A i \in 1 .. Len(node[n].children) : h[node[n].children[i]] < h[n]
  BY DEF Layers
<1> DEFINE B == {m \in Nodes : f[m] \notin Seq(Nodes)}
           T == {h[m] : m \in B}
<1> SUFFICES ASSUME B # {} PROVE FALSE
  OBVIOUS
<1>1. T \subseteq Nat /\ T # {}
  BY <1>0
<1> HIDE DEF T
<1>2. PICK x \in T : \A y \in T : x <= y
  BY <1>1, LeastNumber
<1>3. PICK m \in B : x = h[m]
  BY <1>2 DEF T
<1>4. m \in Nodes /\ f[m] \notin Seq(Nodes)
  BY <1>3
<1>5. \A c \in Nodes : h[c] < h[m] => f[c] \in Seq(Nodes)
  <2> SUFFICES ASSUME NEW c \in Nodes, h[c] < h[m], c \in B PROVE FALSE
    OBVIOUS
  <2>1. h[c] \in T /\ h[c] \in Nat
    BY <1>0 DEF T
  <2> QED BY <1>0, <1>2, <1>3, <1>4, <2>1
<1> HIDE DEF B
<1>6. Row(f, m) \in Seq(Seq(Nodes))
  <2>1. ASSUME NEW i \in 1 .. Len(node[m].children) PROVE f[node[m].children[i]] \in Seq(Nodes)
    <3>1. node[m].children[i] \in Nodes
      BY <1>0, <1>4, ElementOf
    <3> QED BY <1>0, <1>4, <1>5, <3>1
  <2>2. DOMAIN node[m].children = 1 .. Len(node[m].children) /\ Len(node[m].children) \in Nat
    BY <1>0, <1>4
  <2> PICK X : X = Seq(Nodes)
    OBVIOUS
  <2>3. Row(f, m) \in Seq(X)
    BY <2>1, <2>2 DEF Row
  <2> QED BY <2>3
<1>7. FlattenSeq(Row(f, m)) \in Seq(Nodes)
  BY <1>6, FlattenIs
<1>8. <<m>> \in Seq(Nodes)
  BY <1>4
<1>9. FlattenSeq(Row(f, m)) \o <<m>> \in Seq(Nodes)
  BY <1>7, <1>8, JoinIs
<1>10. f[m] = FlattenSeq(Row(f, m)) \o <<m>>
  BY <1>4 DEF Visits
<1> QED BY <1>4, <1>9, <1>10

(* The nodes below n are n and those below its children. *)
VisitHas(f, n) ==
  \A x : Contains(f[n], x) <=>
           \/ x = n
           \/ \E i \in 1 .. Len(node[n].children) : Contains(f[node[n].children[i]], x)

LEMMA VisitIs ==
  ASSUME NEW h, Layers(h), NEW f, Visits(f, Nodes), NEW n \in Nodes
  PROVE  /\ VisitHas(f, n)
         /\ \A Rel : /\ Layered(Row(f, n), Rel)
                     /\ \A i \in 1 .. Len(node[n].children) :
                          \A x : Contains(f[node[n].children[i]], x) => <<x, n>> \in Rel
                     => Before(f[n], Rel)
<1>1. /\ \A m \in Nodes : f[m] \in Seq(Nodes)
      /\ node[n].children \in Seq(Nodes)
  BY VisitTyped DEF Layers
<1> PICK k \in Nat : k = Len(node[n].children)
  BY <1>1
<1> PICK S : S = Row(f, n)
  OBVIOUS
<1>2. \A i \in 1 .. k : S[i] = f[node[n].children[i]] /\ S[i] \in Seq(Nodes)
  <2> SUFFICES ASSUME NEW i \in 1 .. k PROVE S[i] = f[node[n].children[i]] /\ S[i] \in Seq(Nodes)
    OBVIOUS
  <2>1. node[n].children[i] \in Nodes
    BY <1>1, ElementOf
  <2>2. i \in DOMAIN node[n].children
    BY <1>1
  <2> QED BY <1>1, <2>1, <2>2 DEF Row
<1>3. S \in Seq(Seq(Nodes)) /\ Len(S) = k
  <2>1. DOMAIN node[n].children = 1 .. k
    BY <1>1
  <2> PICK X : X = Seq(Nodes)
    OBVIOUS
  <2>2. S = [i \in 1 .. k |-> S[i]]
    BY <2>1 DEF Row
  <2>3. S \in Seq(X) /\ Len(S) = k
    BY <1>2, <2>2
  <2> QED BY <2>3
<1> PICK s \in Seq(Nodes) : s = FlattenSeq(S)
  BY <1>3, FlattenIs
<1>4. /\ \A x : Contains(s, x) <=> Gathered(S, k, x)
      /\ \A Rel : Layered(S, Rel) => Before(s, Rel)
  BY <1>3, FlattenIs
<1>a. <<n>> \in Seq(Nodes)
  OBVIOUS
<1> PICK t \in Seq(Nodes) : t = <<n>>
  BY <1>a
<1>5. f[n] = s \o t
  BY DEF Visits
<1>6. /\ \A x : Contains(s \o t, x) <=> Contains(s, x) \/ Contains(t, x)
      /\ \A Rel : Before(s, Rel) /\ Before(t, Rel) /\ Precedes(s, t, Rel) => Before(s \o t, Rel)
  BY JoinIs
<1>7. (\A x : Contains(t, x) <=> x = n) /\ \A Rel : Before(t, Rel)
  <2>1. Len(t) = 1 /\ t[1] = n
    OBVIOUS
  <2>2. \A i \in 1 .. Len(t) : i = 1
    BY <2>1
  <2>3. 1 \in 1 .. Len(t)
    BY <2>1
  <2> QED BY <2>1, <2>2, <2>3 DEF Contains, Before
<1>8. \A x : Contains(s, x) <=> \E i \in 1 .. k : Contains(f[node[n].children[i]], x)
  BY <1>2, <1>4, Zenon DEF Gathered
<1>9. VisitHas(f, n)
  BY <1>5, <1>6, <1>7, <1>8, Zenon DEF VisitHas
<1>10. ASSUME NEW Rel, Layered(S, Rel),
              \A i \in 1 .. k : \A x : Contains(f[node[n].children[i]], x) => <<x, n>> \in Rel
       PROVE  Before(f[n], Rel)
  <2>1. Before(s, Rel) /\ Before(t, Rel)
    BY <1>4, <1>7, <1>10
  <2>2. Precedes(s, t, Rel)
    BY <1>7, <1>8, <1>10, Zenon DEF Precedes
  <2> QED BY <1>5, <1>6, <2>1, <2>2
<1> QED BY <1>9, <1>10

(* Induction from the lowest nodes up; h may be any measure of the nodes. *)
LEMMA LowestFirst ==
  ASSUME NEW h \in [Nodes -> Nat], NEW G,
         \A n \in Nodes : (\A c \in Nodes : h[c] < h[n] => c \in G) => n \in G
  PROVE  \A n \in Nodes : n \in G
<1> DEFINE B == {m \in Nodes : m \notin G}
           T == {h[m] : m \in B}
<1> SUFFICES ASSUME B # {} PROVE FALSE
  OBVIOUS
<1>1. T \subseteq Nat /\ T # {}
  OBVIOUS
<1> HIDE DEF T
<1>2. PICK x \in T : \A y \in T : x <= y
  BY <1>1, LeastNumber
<1>3. PICK m \in B : x = h[m]
  BY <1>2 DEF T
<1>4. m \in Nodes /\ m \notin G
  BY <1>3
<1>5. \A c \in Nodes : h[c] < h[m] => c \in G
  <2> SUFFICES ASSUME NEW c \in Nodes, h[c] < h[m], c \in B PROVE FALSE
    OBVIOUS
  <2>1. h[c] \in T /\ h[c] \in Nat
    BY DEF T
  <2> QED BY <1>2, <1>3, <1>4, <2>1
<1> QED BY <1>4, <1>5

(* A visit stays in a set that is closed under children. *)
LEMMA VisitStays ==
  ASSUME NEW h, Layers(h), NEW f, Visits(f, Nodes), NEW P, P \subseteq Nodes,
         \A m \in P : \A i \in 1 .. Len(node[m].children) : node[m].children[i] \in P
  PROVE  \A n \in P : \A x : Contains(f[n], x) => x \in P
<1> PICK G : G = {n \in Nodes : n \in P => \A x : Contains(f[n], x) => x \in P}
  OBVIOUS
<1>1. ASSUME NEW n \in Nodes, \A c \in Nodes : h[c] < h[n] => c \in G PROVE n \in G
  <2> SUFFICES ASSUME n \in P, NEW x, Contains(f[n], x) PROVE x \in P
    OBVIOUS
  <2>1. VisitHas(f, n)
    BY VisitIs
  <2>2. CASE x = n
    BY <2>2
  <2>3. CASE x # n
    <3>1. PICK i \in 1 .. Len(node[n].children) : Contains(f[node[n].children[i]], x)
      BY <2>1, <2>3, Zenon DEF VisitHas
    <3> PICK c : c = node[n].children[i]
      OBVIOUS
    <3>2. c \in P /\ c \in Nodes /\ h[c] < h[n]
      BY DEF Layers
    <3> QED BY <1>1, <3>1, <3>2
  <2> QED BY <2>2, <2>3
<1>2. \A n \in Nodes : n \in G
  BY <1>1, LowestFirst DEF Layers
<1> QED BY <1>2

(* The nodes below n are lower. *)
LEMMA VisitLow ==
  ASSUME NEW h, Layers(h), NEW f, Visits(f, Nodes)
  PROVE  \A n \in Nodes : \A x : Contains(f[n], x) => x \in Nodes /\ (x = n \/ h[x] < h[n])
<1> PICK G : G = {n \in Nodes : \A x : Contains(f[n], x) => x \in Nodes /\ (x = n \/ h[x] < h[n])}
  OBVIOUS
<1>0. h \in [Nodes -> Nat]
  BY DEF Layers
<1>1. ASSUME NEW n \in Nodes, \A c \in Nodes : h[c] < h[n] => c \in G PROVE n \in G
  <2> SUFFICES ASSUME NEW x, Contains(f[n], x), x # n PROVE x \in Nodes /\ h[x] < h[n]
    OBVIOUS
  <2>1. VisitHas(f, n)
    BY VisitIs
  <2>2. PICK i \in 1 .. Len(node[n].children) : Contains(f[node[n].children[i]], x)
    BY <2>1, Zenon DEF VisitHas
  <2> PICK c : c = node[n].children[i]
    OBVIOUS
  <2>3. c \in Nodes /\ h[c] < h[n]
    <3>1. node[n].children \in Seq(Nodes) /\ h[node[n].children[i]] < h[n]
      BY DEF Layers
    <3> QED BY <3>1, ElementOf
  <2>4. x \in Nodes /\ (x = c \/ h[x] < h[c])
    BY <1>1, <2>2, <2>3
  <2> QED BY <1>0, <2>3, <2>4
<1>2. \A n \in Nodes : n \in G
  BY <1>0, <1>1, LowestFirst
<1> QED BY <1>2

(* With a node a visit meets its children. *)
LEMMA VisitOn ==
  ASSUME NEW h, Layers(h), NEW f, Visits(f, Nodes)
  PROVE  \A n \in Nodes : \A p : Contains(f[n], p) =>
           \A i \in 1 .. Len(node[p].children) : Contains(f[n], node[p].children[i])
<1> PICK G : G = {n \in Nodes : \A p : Contains(f[n], p) =>
                    \A i \in 1 .. Len(node[p].children) : Contains(f[n], node[p].children[i])}
  OBVIOUS
<1>0. /\ h \in [Nodes -> Nat]
      /\ \A n \in Nodes : \A i \in 1 .. Len(node[n].children) :
           node[n].children[i] \in Nodes /\ h[node[n].children[i]] < h[n]
  BY ElementOf DEF Layers
<1>1. ASSUME NEW n \in Nodes, \A c \in Nodes : h[c] < h[n] => c \in G PROVE n \in G
  <2> SUFFICES ASSUME NEW p, Contains(f[n], p), NEW i \in 1 .. Len(node[p].children)
               PROVE  Contains(f[n], node[p].children[i])
    OBVIOUS
  <2> PICK x : x = node[p].children[i]
    OBVIOUS
  <2>1. VisitHas(f, n)
    BY VisitIs
  <2>2. CASE p = n
    <3>1. x \in Nodes
      BY <1>0, <2>2
    <3>2. VisitHas(f, x)
      BY <3>1, VisitIs
    <3>3. Contains(f[x], x)
      BY <3>2, Zenon DEF VisitHas
    <3> QED BY <2>1, <2>2, <3>3, Zenon DEF VisitHas
  <2>3. CASE p # n
    <3>1. PICK j \in 1 .. Len(node[n].children) : Contains(f[node[n].children[j]], p)
      BY <2>1, <2>3, Zenon DEF VisitHas
    <3> PICK c : c = node[n].children[j]
      OBVIOUS
    <3>2. c \in Nodes /\ h[c] < h[n]
      BY <1>0
    <3>3. Contains(f[c], x)
      BY <1>1, <3>1, <3>2
    <3> QED BY <2>1, <3>3, Zenon DEF VisitHas
  <2> QED BY <2>2, <2>3
<1>2. \A n \in Nodes : n \in G
  BY <1>0, <1>1, LowestFirst
<1> QED BY <1>2

-----------------------------------------------------------------------------
(* A tree in shape, with what is known of its nodes besides.               *)

Intact(h, R) == Shape(h, R) /\ Sound(h, Nodes)

LEMMA IntactTree ==
  ASSUME SoundTree, TreeInv
  PROVE  \E h, R : Intact(h, R)
<1>1. PICK g, A : Sound(g, A)
  BY DEF SoundTree
<1>2. PICK h, R : Shape(h, R)
  BY DEF TreeInv
<1>3. /\ Types /\ Heights(h) /\ Inner(h, R) /\ Parents /\ Halves(h, R)
      /\ Nodes = 1 .. Len(node) /\ Null \notin Nodes /\ \A n \in Nodes : node[n] \in NodeType
  BY <1>2, NodesAre DEF Shape
<1>4. AllKept(h)
  <2>1. h \in [Nodes -> Nat]
    BY <1>3 DEF Heights
  <2>2. ASSUME NEW n \in Nodes PROVE Kept(h, n)
    <3>1. Kept(g, n)
      BY <1>1, SoundIs
    <3>2. node[n].is_leaf <=> h[n] = 0
      BY <1>3 DEF Heights
    <3>3. ASSUME ~node[n].is_leaf, NEW i \in 1 .. Len(node[n].children)
          PROVE  node[n].children[i] \in Nodes /\ h[n] = h[node[n].children[i]] + 1
      <4>1. Child(h, R, n, i)
        BY <1>3, <3>3 DEF Inner, InnerNode
      <4> QED BY <4>1 DEF Child
    <3> QED BY <3>1, <3>2, <3>3, Zenon DEF Kept
  <2> QED BY <2>1, <2>2 DEF AllKept
<1>5. Tied(Nodes)
  <2>1. root # Null => root \in Nodes
    BY <1>3 DEF Types
  <2>2. ~Idle => promotion.left \in Nodes /\ promotion.right \in Nodes
    BY <1>3 DEF Halves
  <2>3. ASSUME NEW n \in Nodes, ~node[n].is_leaf PROVE Owns(Nodes, n)
    <3>1. InnerNode(h, R, n)
      BY <1>3, <2>3 DEF Inner
    <3>2. ASSUME NEW i \in 1 .. Len(node[n].children)
          PROVE  /\ node[n].children[i] \in Nodes /\ ~Orphan(node[n].children[i])
                 /\ node[node[n].children[i]].parent = n
      <4>1. Child(h, R, n, i)
        BY <3>1 DEF InnerNode
      <4> QED BY <4>1 DEF Child
    <3>3. Distinct(node[n].children, Len(node[n].children))
      BY <3>1 DEF InnerNode, Distinct
    <3> QED BY <3>2, <3>3, Zenon DEF Owns
  <2>4. ASSUME NEW n \in Nodes, ~Orphan(n) PROVE Owned(Nodes, n)
    <3>1. ParentOf(n)
      BY <1>3, <2>4 DEF Parents
    <3> QED BY <3>1 DEF Owned, ParentOf
  <2> QED BY <2>1, <2>2, <2>3, <2>4 DEF Tied
<1>6. Pending(h)
  BY <1>3 DEF Halves, Pending
<1>7. Sound(h, Nodes)
  BY <1>1, <1>3, <1>4, <1>5, <1>6 DEF Sound
<1> QED BY <1>2, <1>7 DEF Intact

(* The keys that belong to x are below those that belong to y. *)
Apart(R, x, y) == R[x] # {} /\ R[y] # {} /\ \A a \in R[x], b \in R[y] : a < b

LeafOrder(R) == {p \in Nodes \X Nodes : Apart(R, p[1], p[2])}

(* The order of a visit: every node once, and the leaves by their keys. *)
VisitOrder(R) ==
  {p \in Nodes \X Nodes :
     p[1] # p[2] /\ (node[p[1]].is_leaf /\ node[p[2]].is_leaf => Apart(R, p[1], p[2]))}

LEMMA OrdersAre ==
  ASSUME NEW R
  PROVE  /\ \A x, y : <<x, y>> \in LeafOrder(R) <=> x \in Nodes /\ y \in Nodes /\ Apart(R, x, y)
         /\ \A x, y : <<x, y>> \in VisitOrder(R) <=>
              /\ x \in Nodes /\ y \in Nodes /\ x # y
              /\ node[x].is_leaf /\ node[y].is_leaf => Apart(R, x, y)
<1>1. ASSUME NEW x, NEW y
      PROVE  <<x, y>> \in LeafOrder(R) <=> x \in Nodes /\ y \in Nodes /\ Apart(R, x, y)
  BY DEF LeafOrder
<1>2. ASSUME NEW x, NEW y
      PROVE  <<x, y>> \in VisitOrder(R) <=>
              /\ x \in Nodes /\ y \in Nodes /\ x # y
              /\ node[x].is_leaf /\ node[y].is_leaf => Apart(R, x, y)
  BY DEF VisitOrder
<1> QED BY <1>1, <1>2

LEMMA ApartIs ==
  ASSUME NEW h, NEW R, Shape(h, R)
  PROVE  /\ \A x \in Nodes : R[x] # {} /\ R[x] \subseteq Int
         /\ \A x, y \in Nodes : ~(Apart(R, x, y) /\ Apart(R, y, x)) /\ (Apart(R, x, y) => x # y)
<1>1. \A x \in Nodes : R[x] # {} /\ R[x] \subseteq Int
  BY DEF Shape, Places
<1>2. ASSUME NEW x \in Nodes, NEW y \in Nodes
      PROVE  ~(Apart(R, x, y) /\ Apart(R, y, x)) /\ (Apart(R, x, y) => x # y)
  <2>1. PICK a \in Int : a \in R[x]
    BY <1>1
  <2>2. PICK b \in Int : b \in R[y]
    BY <1>1
  <2>3. ASSUME Apart(R, x, y), Apart(R, y, x) PROVE FALSE
    <3>1. a < b /\ b < a
      BY <2>1, <2>2, <2>3 DEF Apart
    <3> QED BY <3>1
  <2>4. ASSUME Apart(R, x, y), x = y PROVE FALSE
    <3>1. a < a
      BY <2>1, <2>4 DEF Apart
    <3> QED BY <3>1
  <2> QED BY <2>3, <2>4
<1> QED BY <1>1, <1>2

(* The children of a node come in the order of their keys. *)
LEMMA ChildrenApart ==
  ASSUME NEW h, NEW R, Shape(h, R), Idle, NEW n \in Nodes, ~node[n].is_leaf,
         NEW i \in 1 .. Len(node[n].children), NEW j \in 1 .. Len(node[n].children), i < j
  PROVE  Apart(R, node[n].children[i], node[n].children[j])
<1> PICK nd \in NodeType : nd = node[n]
  BY NodesAre DEF Shape
<1> PICK ks \in Seq(Int) : ks = nd.keys
  BY DEF NodeType
<1> PICK k \in Nat : k = Len(ks)
  OBVIOUS
<1>1. Len(nd.children) = k + 1 /\ Ascending(ks) /\ Child(h, R, n, i) /\ Child(h, R, n, j)
  BY DEF Shape, Inner, InnerNode
<1> PICK x : x = nd.children[i]
  OBVIOUS
<1> PICK y : y = nd.children[j]
  OBVIOUS
<1>2. x \in Nodes /\ y \in Nodes /\ R[x] = Slot(nd, R[n], i) /\ R[y] = Slot(nd, R[n], j)
  BY <1>1 DEF Child, Covered
<1>3. i \in 1 .. k /\ j > 1 /\ j - 1 \in 1 .. k /\ i <= j - 1 /\ i <= Len(nd.keys)
  BY <1>1
<1>4. ks[i] \in Int /\ ks[j - 1] \in Int /\ ks[i] <= ks[j - 1]
  <2>1. ks[i] \in Int /\ ks[j - 1] \in Int
    BY <1>3, ElementOf
  <2>2. CASE i = j - 1
    BY <2>1, <2>2
  <2>3. CASE i # j - 1
    <3>1. i < j - 1
      BY <1>3, <2>3
    <3> QED BY <1>1, <1>3, <2>1, <3>1 DEF Ascending
  <2> QED BY <2>2, <2>3, <2>1
<1>5. ASSUME NEW a \in R[x], NEW b \in R[y] PROVE a < b
  <2>1. a < ks[i] /\ b >= ks[j - 1]
    BY <1>2, <1>3, <1>5 DEF Slot
  <2>2. a \in Int /\ b \in Int
    BY <1>2, ApartIs
  <2> QED BY <1>4, <2>1, <2>2
<1>6. R[x] # {} /\ R[y] # {}
  BY <1>2, ApartIs
<1> QED BY <1>5, <1>6 DEF Apart

(* A visit meets the leaves in the order of their keys, and no node twice. *)
LEMMA VisitInOrder ==
  ASSUME NEW h, NEW R, Intact(h, R), Idle, NEW f, Visits(f, Nodes)
  PROVE  \A n \in Nodes : Before(f[n], VisitOrder(R)) /\ \A x : Contains(f[n], x) => R[x] \subseteq R[n]
<1>0. Shape(h, R) /\ Sound(h, Nodes)
  BY DEF Intact
<1>1. /\ Layers(h) /\ h \in [Nodes -> Nat]
      /\ \A n \in Nodes : node[n].children \in Seq(Nodes)
      /\ \A n \in Nodes : \A i \in 1 .. Len(node[n].children) : h[node[n].children[i]] < h[n]
  BY <1>0, LayersAre DEF Layers
<1> DEFINE Fine(n) == Before(f[n], VisitOrder(R)) /\ \A x : Contains(f[n], x) => R[x] \subseteq R[n]
<1> PICK G : G = {n \in Nodes : Fine(n)}
  OBVIOUS
<1> HIDE DEF Fine
<1>2. ASSUME NEW n \in Nodes, \A c \in Nodes : h[c] < h[n] => c \in G PROVE n \in G
  <2> PICK k \in Nat : k = Len(node[n].children)
    BY <1>1
  <2>1. ASSUME NEW i \in 1 .. k
        PROVE  /\ node[n].children[i] \in Nodes /\ Fine(node[n].children[i])
               /\ ~node[n].is_leaf
               /\ R[node[n].children[i]] \subseteq R[n]
               /\ h[node[n].children[i]] < h[n]
    <3>1. node[n].children[i] \in Nodes
      BY <1>1, ElementOf
    <3>2. Fine(node[n].children[i]) /\ h[node[n].children[i]] < h[n]
      BY <1>1, <1>2, <3>1
    <3>3. ~node[n].is_leaf
      <4>1. ASSUME node[n].is_leaf PROVE FALSE
        <5>1. Kept(h, n)
          BY <1>0, SoundIs
        <5>2. node[n].children = <<>>
          BY <4>1, <5>1, Zenon DEF Kept
        <5>3. k = 0
          BY <5>2
        <5> QED BY <5>3
      <4> QED BY <4>1
    <3>4. Child(h, R, n, i)
      BY <1>0, <3>3 DEF Shape, Inner, InnerNode
    <3>5. R[node[n].children[i]] = Slot(node[n], R[n], i)
      BY <3>4 DEF Child, Covered
    <3> QED BY <3>1, <3>2, <3>3, <3>5 DEF Slot
  <2>2. ASSUME NEW i \in 1 .. k
        PROVE  /\ Before(f[node[n].children[i]], VisitOrder(R))
               /\ \A x : Contains(f[node[n].children[i]], x) =>
                    /\ x \in Nodes /\ h[x] < h[n] /\ x # n
                    /\ R[x] \subseteq R[node[n].children[i]]
    <3> PICK c : c = node[n].children[i]
      OBVIOUS
    <3>1. c \in Nodes /\ h[c] < h[n] /\ Fine(c)
      BY <2>1
    <3>2. ASSUME NEW x, Contains(f[c], x) PROVE x \in Nodes /\ h[x] < h[n] /\ x # n
      <4>1. x \in Nodes /\ (x = c \/ h[x] < h[c])
        BY <1>1, <3>1, <3>2, VisitLow
      <4> QED BY <1>1, <3>1, <4>1
    <3> QED BY <3>1, <3>2 DEF Fine
  <2>3. ASSUME NEW i \in 1 .. k, NEW j \in 1 .. k, i < j,
               NEW x, NEW y, Contains(f[node[n].children[i]], x), Contains(f[node[n].children[j]], y)
        PROVE  <<x, y>> \in VisitOrder(R)
    <3> PICK c : c = node[n].children[i]
      OBVIOUS
    <3> PICK d : d = node[n].children[j]
      OBVIOUS
    <3>1. Apart(R, c, d)
      BY <1>0, <2>1, <2>3, ChildrenApart
    <3>2. x \in Nodes /\ y \in Nodes /\ R[x] \subseteq R[c] /\ R[y] \subseteq R[d]
      BY <2>2, <2>3
    <3>3. Apart(R, x, y)
      <4>1. R[x] # {} /\ R[y] # {}
        BY <1>0, <3>2, ApartIs
      <4> QED BY <3>1, <3>2, <4>1 DEF Apart
    <3>4. x # y
      BY <1>0, <3>2, <3>3, ApartIs
    <3> QED BY <3>2, <3>3, <3>4, OrdersAre
  <2> PICK S : S = Row(f, n)
    OBVIOUS
  <2>4. Len(S) = k /\ \A i \in 1 .. k : S[i] = f[node[n].children[i]]
    <3>1. DOMAIN node[n].children = 1 .. k
      BY <1>1
    <3>2. S = [i \in 1 .. k |-> f[node[n].children[i]]]
      BY <3>1 DEF Row
    <3> QED BY <3>2
  <2>5. Layered(S, VisitOrder(R))
    <3>1. \A a \in 1 .. k : Before(S[a], VisitOrder(R))
      BY <2>2, <2>4
    <3>2. ASSUME NEW a \in 1 .. k, NEW b \in 1 .. k, a < b PROVE Precedes(S[a], S[b], VisitOrder(R))
      BY <2>3, <2>4, <3>2, Zenon DEF Precedes
    <3> QED BY <2>4, <3>1, <3>2 DEF Layered
  <2>6. ASSUME NEW i \in 1 .. k, NEW x, Contains(f[node[n].children[i]], x)
        PROVE  <<x, n>> \in VisitOrder(R)
    <3>1. x \in Nodes /\ x # n /\ ~node[n].is_leaf
      BY <2>1, <2>2, <2>6
    <3> QED BY <3>1, OrdersAre
  <2>7. /\ VisitHas(f, n)
        /\ \A Rel : /\ Layered(Row(f, n), Rel)
                    /\ \A i \in 1 .. Len(node[n].children) :
                         \A x : Contains(f[node[n].children[i]], x) => <<x, n>> \in Rel
                    => Before(f[n], Rel)
    BY <1>1, VisitIs
  <2>8. Before(f[n], VisitOrder(R))
    BY <2>5, <2>6, <2>7
  <2>9. ASSUME NEW x, Contains(f[n], x) PROVE R[x] \subseteq R[n]
    <3>1. CASE x = n
      BY <3>1
    <3>2. CASE x # n
      <4>1. PICK i \in 1 .. k : Contains(f[node[n].children[i]], x)
        BY <2>7, <2>9, <3>2, Zenon DEF VisitHas
      <4>2. R[x] \subseteq R[node[n].children[i]] /\ R[node[n].children[i]] \subseteq R[n]
        BY <2>1, <2>2, <4>1
      <4> QED BY <4>2
    <3> QED BY <3>1, <3>2
  <2> QED BY <2>8, <2>9 DEF Fine
<1>3. \A n \in Nodes : n \in G
  BY <1>1, <1>2, LowestFirst
<1> QED BY <1>3 DEF Fine

(* From the root, a visit meets every node. *)
LEMMA VisitMeetsAll ==
  ASSUME NEW h, NEW R, Intact(h, R), Idle, root # Null, NEW f, Visits(f, Nodes)
  PROVE  \A n \in Nodes : Contains(f[root], n)
<1>0. Shape(h, R) /\ Sound(h, Nodes)
  BY DEF Intact
<1>1. Layers(h) /\ h \in [Nodes -> Nat] /\ root \in Nodes /\ \A n \in Nodes : h[n] <= h[root]
  BY <1>0, LayersAre DEF Layers, Shape, Types, Heights
<1> PICK d : d = [n \in Nodes |-> h[root] - h[n]]
  OBVIOUS
<1>2. d \in [Nodes -> Nat]
  <2>1. ASSUME NEW n \in Nodes PROVE h[root] - h[n] \in Nat
    <3>1. h[root] \in Nat /\ h[n] \in Nat /\ h[n] <= h[root]
      BY <1>1
    <3> QED BY <3>1
  <2> QED BY <2>1
<1> PICK G : G = {n \in Nodes : Contains(f[root], n)}
  OBVIOUS
<1>3. ASSUME NEW n \in Nodes, \A c \in Nodes : d[c] < d[n] => c \in G PROVE n \in G
  <2>1. CASE n = root
    <3>1. VisitHas(f, root)
      BY <1>1, VisitIs
    <3> QED BY <2>1, <3>1, Zenon DEF VisitHas
  <2>2. CASE n # root
    <3> PICK p : p = node[n].parent
      OBVIOUS
    <3>1. ParentOf(n)
      BY <1>0 DEF Shape, Parents, Orphan
    <3>2. p \in Nodes /\ ~node[p].is_leaf /\ \E i \in 1 .. Len(node[p].children) : node[p].children[i] = n
      BY <2>2, <3>1 DEF ParentOf
    <3>3. PICK i \in 1 .. Len(node[p].children) : node[p].children[i] = n
      BY <3>2
    <3>4. h[n] < h[p]
      BY <1>1, <3>2, <3>3 DEF Layers
    <3>5. d[p] < d[n]
      <4>1. h[n] \in Nat /\ h[p] \in Nat /\ h[root] \in Nat /\ d[p] = h[root] - h[p] /\ d[n] = h[root] - h[n]
        BY <1>1, <3>2
      <4> QED BY <3>4, <4>1
    <3>6. Contains(f[root], p)
      BY <1>3, <3>2, <3>5
    <3> QED BY <1>1, <3>3, <3>6, VisitOn
  <2> QED BY <2>1, <2>2
<1>4. \A n \in Nodes : n \in G
  BY <1>2, <1>3, LowestFirst
<1> QED BY <1>4

(* bptree_destroy_node is such a visit. *)
LEMMA DestroyIs ==
  ASSUME NEW h, NEW A, Sound(h, A), root # Null
  PROVE  \E f : Visits(f, Nodes) /\ bptree_destroy_node(root) = f[root]
<1>1. Layers(h) /\ Types /\ Nodes = 1 .. Len(node) /\ Len(node) \in Nat /\ h \in [Nodes -> Nat]
  BY LayersAre, SoundIs DEF Sound
<1>2. PICK L \in Nat : \A n \in Nodes : h[n] <= L
  BY <1>1, HeightsBounded
<1>3. Lower(h, L + 1) = Nodes
  BY <1>1, <1>2 DEF Lower
<1>4. \E f : Visits(f, Nodes)
  BY <1>1, <1>3, VisitExists
<1> DEFINE visit == CHOOSE f : Visits(f, Nodes)
<1>5. bptree_destroy_node(root) = visit[root]
  BY DEF bptree_destroy_node, Visits, Row
<1>6. Visits(visit, Nodes)
  BY <1>4
<1> QED BY <1>5, <1>6

(* The number of elements of an injective sequence. *)
LEMMA EachOnce ==
  ASSUME NEW n \in Nat, NEW v \in Seq(1 .. n), \A x \in 1 .. n : Contains(v, x),
         \A i, j \in 1 .. Len(v) : i < j => v[i] # v[j]
  PROVE  Len(v) = n
<1> PICK m \in Nat : m = Len(v)
  OBVIOUS
<1>1. \A i \in 1 .. m : v[i] \in 1 .. n
  BY ElementOf
<1>2. \A i, j \in 1 .. m : v[i] = v[j] => i = j
  <2> SUFFICES ASSUME NEW i \in 1 .. m, NEW j \in 1 .. m, v[i] = v[j], i # j PROVE FALSE
    OBVIOUS
  <2>1. i < j \/ j < i
    OBVIOUS
  <2> QED BY <2>1
<1>3. \A x \in 1 .. n : \E i \in 1 .. m : v[i] = x
  BY DEF Contains
<1>4. DOMAIN v = 1 .. m /\ v = [i \in 1 .. m |-> v[i]]
  OBVIOUS
<1>5. v \in Bijection(1 .. m, 1 .. n)
  BY <1>1, <1>2, <1>3, <1>4 DEF Bijection, Injection, Surjection, IsInjective
<1>6. ExistsBijection(1 .. m, 1 .. n)
  BY <1>5 DEF ExistsBijection
<1>7. /\ IsFiniteSet(1 .. m) /\ Cardinality(1 .. m) = m
      /\ IsFiniteSet(1 .. n) /\ Cardinality(1 .. n) = n
  <2>1. \A b \in Int : /\ IsFiniteSet(1 .. b)
                       /\ Cardinality(1 .. b) = IF 1 > b THEN 0 ELSE b - 1 + 1
    <3>1. 1 \in Int
      OBVIOUS
    <3> QED BY <3>1, FS_Interval, Zenon
  <2>2. m \in Int /\ n \in Int
    OBVIOUS
  <2>3. (IF 1 > m THEN 0 ELSE m - 1 + 1) = m /\ (IF 1 > n THEN 0 ELSE n - 1 + 1) = n
    OBVIOUS
  <2> QED BY <2>1, <2>2, <2>3, Zenon
<1>8. Cardinality(1 .. m) = Cardinality(1 .. n)
  BY <1>6, <1>7, FS_Bijection
<1> QED BY <1>7, <1>8

LEMMA DestroyedAll ==
  ASSUME SoundTree, TreeInv, Idle
  PROVE  DestroyFreesAll
<1>1. PICK h, R : Intact(h, R)
  BY IntactTree
<1>0. Shape(h, R) /\ Sound(h, Nodes) /\ Types /\ Nodes = 1 .. Len(node) /\ Len(node) \in Nat
  BY <1>1, SoundIs DEF Intact, Shape
<1>2. CASE root = Null
  <2>1. node = <<>> /\ bptree_destroy_node(root) = <<>>
    BY <1>0, <1>2 DEF Types, bptree_destroy_node
  <2>2. Nodes = {} /\ ToSet(<<>>) = {} /\ Len(<<>>) = 0
    BY <2>1 DEF Nodes, ToSet
  <2> QED BY <2>1, <2>2 DEF DestroyFreesAll
<1>3. CASE root # Null
  <2>1. PICK f : Visits(f, Nodes) /\ bptree_destroy_node(root) = f[root]
    BY <1>0, <1>3, DestroyIs
  <2>2. root \in Nodes /\ f[root] \in Seq(Nodes)
    BY <1>0, <1>3, <2>1, LayersAre, VisitTyped DEF Types
  <2> PICK v \in Seq(Nodes) : v = f[root]
    BY <2>2
  <2>3. \A x \in Nodes : Contains(v, x)
    BY <1>1, <1>3, <2>1, VisitMeetsAll
  <2>4. Before(v, VisitOrder(R))
    BY <1>1, <2>1, <2>2, VisitInOrder
  <2>5. \A i, j \in 1 .. Len(v) : i < j => v[i] # v[j]
    BY <2>4, OrdersAre, Zenon DEF Before
  <2>6. Len(v) = Len(node)
    BY <1>0, <2>3, <2>5, EachOnce
  <2>7. ToSet(v) = Nodes
    <3>1. \A i \in 1 .. Len(v) : v[i] \in Nodes
      BY ElementOf
    <3>2. DOMAIN v = 1 .. Len(v)
      OBVIOUS
    <3>3. \A x \in Nodes : \E i \in 1 .. Len(v) : v[i] = x
      BY <2>3 DEF Contains
    <3> QED BY <3>1, <3>2, <3>3 DEF ToSet
  <2> QED BY <2>1, <2>6, <2>7 DEF DestroyFreesAll
<1> QED BY <1>2, <1>3

(* bptree_destroy frees every node once, as long as the nodes above the    *)
(* leaves can be allocated.                                                *)
THEOREM NothingLeaks ==
  ASSUME ParentsAllocated
  PROVE  Spec => []DestroyFreesAll
<1>1. SoundTree /\ TreeInv => DestroyFreesAll
  BY DestroyedAll DEF DestroyFreesAll
<1> QED BY <1>1, SoundTreeInvariance, TreeInvariance, PTL

-----------------------------------------------------------------------------
(* The list of the leaves.                                                 *)

(* The recursion of Chain. *)
Links(f) ==
  f = [m \in Nodes \union {Null} |-> IF m = Null THEN <<>> ELSE <<m>> \o f[node[m].next]]

LEMMA SuffixIs ==
  ASSUME NEW X, NEW c \in Seq(X)
  PROVE  /\ \A i \in 1 .. Len(c) : <<c[i]>> \o SubSeq(c, i + 1, Len(c)) = SubSeq(c, i, Len(c))
         /\ SubSeq(c, Len(c) + 1, Len(c)) = <<>>
         /\ SubSeq(c, 1, Len(c)) = c
<1> PICK n \in Nat : n = Len(c)
  OBVIOUS
<1>1. ASSUME NEW i \in 1 .. n
      PROVE  <<c[i]>> \o SubSeq(c, i + 1, n) = SubSeq(c, i, n)
  <2>1. /\ SubSeq(c, i + 1, n) \in Seq(X) /\ Len(SubSeq(c, i + 1, n)) = n - i
        /\ \A j \in 1 .. n - i : SubSeq(c, i + 1, n)[j] = c[i + 1 + j - 1]
    <3>1. i + 1 \in 1 .. Len(c) + 1 /\ n <= Len(c) /\ i + 1 <= n + 1 /\ n + 1 - (i + 1) = n - i
      OBVIOUS
    <3> QED BY <3>1, SubSeqIs
  <2>2. /\ SubSeq(c, i, n) \in Seq(X) /\ Len(SubSeq(c, i, n)) = n + 1 - i
        /\ \A j \in 1 .. n + 1 - i : SubSeq(c, i, n)[j] = c[i + j - 1]
    <3>1. i \in 1 .. Len(c) + 1 /\ n <= Len(c) /\ i <= n + 1
      OBVIOUS
    <3> QED BY <3>1, SubSeqIs
  <2>3. c[i] \in X
    BY ElementOf
  <2> PICK t \in Seq(X) : t = SubSeq(c, i + 1, n)
    BY <2>1
  <2> PICK s \in Seq(X) : s = SubSeq(c, i, n)
    BY <2>2
  <2>4. <<c[i]>> \in Seq(X) /\ Len(<<c[i]>>) = 1 /\ <<c[i]>>[1] = c[i]
    BY <2>3
  <2> PICK q \in Seq(X) : q = <<c[i]>>
    BY <2>4
  <2>5. q \o t \in Seq(X) /\ Len(q \o t) = n + 1 - i
    BY <2>1, <2>4
  <2>a. \A j \in 1 .. Len(q) + Len(t) : j > Len(q) => (q \o t)[j] = t[j - Len(q)]
    OBVIOUS
  <2>6. ASSUME NEW j \in 1 .. n + 1 - i PROVE (q \o t)[j] = s[j]
    <3>1. CASE j = 1
      <4>1. (q \o t)[j] = c[i] /\ s[j] = c[i + j - 1] /\ i + j - 1 = i
        BY <2>1, <2>2, <2>4, <3>1
      <4> QED BY <4>1
    <3>2. CASE j # 1
      <4>1. j - 1 \in 1 .. n - i /\ i + 1 + (j - 1) - 1 = i + j - 1
        BY <3>2
      <4>2. (q \o t)[j] = t[j - 1]
        <5>1. Len(q) = 1 /\ j \in 1 .. Len(q) + Len(t) /\ j > Len(q)
          BY <2>1, <2>4, <3>2
        <5> QED BY <2>a, <5>1
      <4>3. t[j - 1] = c[i + j - 1] /\ s[j] = c[i + j - 1]
        BY <2>1, <2>2, <4>1
      <4> QED BY <4>2, <4>3
    <3> QED BY <3>1, <3>2
  <2> QED BY <2>2, <2>5, <2>6
<1>2. SubSeq(c, n + 1, n) = <<>>
  <2>1. /\ SubSeq(c, n + 1, n) \in Seq(X) /\ Len(SubSeq(c, n + 1, n)) = 0
    BY SubSeqIs
  <2> QED BY <2>1, EmptyIs
<1>3. SubSeq(c, 1, n) = c
  OBVIOUS
<1> QED BY <1>1, <1>2, <1>3

(* Every node has a next pointer that leads on, or none. *)
LEMMA LinksExist ==
  ASSUME NEW h, NEW A, Sound(h, A), NEW R, NEW c, Listed(c, R)
  PROVE  \E f : Links(f)
<1>0. Null \notin Nodes /\ \A m \in Nodes : Kept(h, m)
  BY SoundIs
<1> PICK n \in Nat : n = Len(c)
  BY DEF Listed
<1>1. /\ c \in Seq(Nodes)
      /\ \A m \in Nodes : node[m].is_leaf => \E i \in 1 .. n : c[i] = m
      /\ \A i \in 1 .. n : c[i] \in Nodes /\ node[c[i]].is_leaf
      /\ \A i \in 1 .. n : node[c[i]].next = IF i < n THEN c[i + 1] ELSE Null
      /\ \A i, j \in 1 .. n : i < j => c[i] # c[j]
  BY ElementOf DEF Listed
<1>2. \A i, j \in 1 .. n : c[i] = c[j] => i = j
  <2> SUFFICES ASSUME NEW i \in 1 .. n, NEW j \in 1 .. n, c[i] = c[j], i # j PROVE FALSE
    OBVIOUS
  <2>1. i < j \/ j < i
    OBVIOUS
  <2> QED BY <1>1, <2>1
<1> PICK at : at = [m \in Nodes |-> CHOOSE i \in 1 .. n : c[i] = m]
  OBVIOUS
<1>3. \A i \in 1 .. n : at[c[i]] = i
  <2> SUFFICES ASSUME NEW i \in 1 .. n PROVE at[c[i]] = i
    OBVIOUS
  <2>1. c[i] \in Nodes /\ at[c[i]] = CHOOSE j \in 1 .. n : c[j] = c[i]
    BY <1>1
  <2>2. \E j \in 1 .. n : c[j] = c[i]
    OBVIOUS
  <2>3. at[c[i]] \in 1 .. n /\ c[at[c[i]]] = c[i]
    BY <2>1, <2>2
  <2> QED BY <1>2, <2>3
<1> PICK D : D = Nodes \union {Null}
  OBVIOUS
<1> PICK f : f = [m \in D |-> IF m = Null THEN <<>>
                              ELSE IF node[m].is_leaf THEN SubSeq(c, at[m], n) ELSE <<m>>]
  OBVIOUS
<1>4. f[Null] = <<>> /\ \A i \in 1 .. n : f[c[i]] = SubSeq(c, i, n)
  <2>1. f[Null] = <<>>
    BY Zenon
  <2>2. ASSUME NEW i \in 1 .. n PROVE f[c[i]] = SubSeq(c, i, n)
    <3>1. PICK m : m = c[i]
      OBVIOUS
    <3>2. m \in D /\ m # Null /\ node[m].is_leaf
      BY <1>0, <1>1, <3>1
    <3>3. f[m] = SubSeq(c, at[m], n)
      BY <3>2, Zenon
    <3> QED BY <1>3, <3>1, <3>3, Zenon
  <2> QED BY <2>1, <2>2
<1>5. ASSUME NEW m \in D
      PROVE  f[m] = IF m = Null THEN <<>> ELSE <<m>> \o f[node[m].next]
  <2>1. CASE m = Null
    BY <1>4, <2>1
  <2>2. CASE m # Null /\ node[m].is_leaf
    <3>1. PICK i \in 1 .. n : c[i] = m
      BY <1>1, <2>2
    <3>2. f[m] = SubSeq(c, i, n) /\ SubSeq(c, i, n) = <<m>> \o SubSeq(c, i + 1, n)
      <4>1. f[c[i]] = SubSeq(c, i, n)
        BY <1>4
      <4>2. <<c[i]>> \o SubSeq(c, i + 1, n) = SubSeq(c, i, n)
        BY <1>1, SuffixIs
      <4> QED BY <3>1, <4>1, <4>2, Zenon
    <3>3. f[node[m].next] = SubSeq(c, i + 1, n)
      <4>1. CASE i < n
        <5>1. i + 1 \in 1 .. n /\ node[m].next = c[i + 1]
          BY <1>1, <3>1, <4>1
        <5> QED BY <1>4, <5>1
      <4>2. CASE ~(i < n)
        <5>1. i = n /\ node[m].next = Null
          BY <1>1, <3>1, <4>2
        <5>2. SubSeq(c, n + 1, n) = <<>>
          BY <1>1, SuffixIs
        <5> QED BY <1>4, <5>1, <5>2
      <4> QED BY <4>1, <4>2
    <3> QED BY <2>2, <3>2, <3>3, Zenon
  <2>3. CASE m # Null /\ ~node[m].is_leaf
    <3>1. m \in Nodes /\ node[m].next = Null
      BY <1>0, <2>3, Zenon DEF Kept
    <3>2. f[m] = <<m>> /\ f[node[m].next] = <<>>
      BY <1>4, <2>3, <3>1
    <3>3. <<m>> \o <<>> = <<m>>
      OBVIOUS
    <3> QED BY <2>3, <3>2, <3>3
  <2> QED BY <2>1, <2>2, <2>3
<1>6. f = [m \in D |-> IF m = Null THEN <<>> ELSE <<m>> \o f[node[m].next]]
  BY <1>5
<1> QED BY <1>6 DEF Links

(* From a leaf on, Chain is the rest of the list. *)
LEMMA ChainIs ==
  ASSUME NEW h, NEW A, Sound(h, A), NEW R, NEW c, Listed(c, R)
  PROVE  Chain(Null) = <<>> /\ \A i \in 1 .. Len(c) : Chain(c[i]) = SubSeq(c, i, Len(c))
<1> DEFINE from == CHOOSE f : Links(f)
<1>1. \A m : Chain(m) = from[m]
  BY DEF Chain, Links
<1>2. Links(from)
  BY LinksExist
<1> HIDE DEF from
<1>0. Null \notin Nodes
  BY SoundIs
<1> PICK n \in Nat : n = Len(c)
  BY DEF Listed
<1>3. /\ c \in Seq(Nodes)
      /\ \A i \in 1 .. n : c[i] \in Nodes
      /\ \A i \in 1 .. n : node[c[i]].next = IF i < n THEN c[i + 1] ELSE Null
  BY ElementOf DEF Listed
<1>4. from[Null] = <<>>
  BY <1>2 DEF Links
<1> DEFINE T == {k \in Nat : k < n /\ from[c[n - k]] # SubSeq(c, n - k, n)}
<1>5. T = {}
  <2> SUFFICES ASSUME T # {} PROVE FALSE
    OBVIOUS
  <2>1. T \subseteq Nat
    OBVIOUS
  <2> HIDE DEF T
  <2>2. PICK k \in T : \A y \in T : k <= y
    BY <2>1, LeastNumber
  <2>3. k \in Nat /\ k < n /\ from[c[n - k]] # SubSeq(c, n - k, n)
    BY <2>2 DEF T
  <2> PICK i \in 1 .. n : i = n - k
    BY <2>3
  <2>4. from[c[i]] = <<c[i]>> \o from[node[c[i]].next]
    BY <1>0, <1>2, <1>3, Zenon DEF Links
  <2>5. from[node[c[i]].next] = SubSeq(c, i + 1, n)
    <3>1. CASE i < n
      <4>1. i + 1 \in 1 .. n /\ node[c[i]].next = c[i + 1]
        BY <1>3, <3>1
      <4>2. PICK e \in Nat : e = k - 1 /\ e < k /\ e < n /\ n - e = i + 1
        <5>1. k - 1 \in Nat /\ k - 1 < k /\ k - 1 < n /\ n - (k - 1) = i + 1
          BY <2>3, <3>1
        <5> QED BY <5>1
      <4>3. e \notin T
        BY <2>2, <2>3, <4>2
      <4>4. from[c[i + 1]] = SubSeq(c, i + 1, n)
        BY <4>2, <4>3 DEF T
      <4> QED BY <4>1, <4>4
    <3>2. CASE ~(i < n)
      <4>1. i = n /\ node[c[i]].next = Null
        BY <1>3, <3>2
      <4>2. SubSeq(c, n + 1, n) = <<>>
        BY <1>3, SuffixIs
      <4> QED BY <1>4, <4>1, <4>2
    <3> QED BY <3>1, <3>2
  <2>6. <<c[i]>> \o SubSeq(c, i + 1, n) = SubSeq(c, i, n)
    BY <1>3, SuffixIs
  <2> QED BY <2>3, <2>4, <2>5, <2>6
<1>6. ASSUME NEW i \in 1 .. n PROVE from[c[i]] = SubSeq(c, i, n)
  <2>1. n - i \in Nat /\ n - i < n /\ n - (n - i) = i
    OBVIOUS
  <2>2. n - i \notin T
    BY <1>5
  <2> QED BY <2>1, <2>2
<1> QED BY <1>1, <1>4, <1>6

-----------------------------------------------------------------------------
(* The leftmost leaf.                                                      *)

(* The keys of S go down without end. *)
Unbounded(S) == \A z \in Int : \E k \in S : k <= z

LEMMA UnboundedBelow ==
  ASSUME NEW S, S \subseteq Int, Unbounded(S), NEW v \in Int, NEW U,
         \A k \in S : k < v => k \in U
  PROVE  Unbounded(U)
<1> SUFFICES ASSUME NEW z \in Int PROVE \E k \in U : k <= z
  BY DEF Unbounded
<1>1. PICK y \in Int : y <= z /\ y < v
  <2>1. CASE z < v
    BY <2>1
  <2>2. CASE ~(z < v)
    <3>1. v - 1 \in Int /\ v - 1 <= z /\ v - 1 < v
      BY <2>2
    <3> QED BY <3>1
  <2> QED BY <2>1, <2>2
<1>2. PICK k \in S : k <= y
  BY DEF Unbounded
<1>3. k \in Int /\ k <= z /\ k < v
  BY <1>1, <1>2
<1> QED BY <1>3

(* What goes down without end for a split node and its right half does so  *)
(* for the split node.                                                     *)
LEMMA UnboundedLeft ==
  ASSUME NEW h, NEW R, Shape(h, R), NEW n \in Nodes, Unbounded(Covered(R, n))
  PROVE  Unbounded(R[n])
<1>1. CASE ~Idle /\ n = promotion.left
  <2>1. /\ R[n] \subseteq Int /\ promotion.right \in Nodes /\ R[promotion.right] \subseteq Int
        /\ \A k \in R[promotion.right] : k >= promotion.key
    BY <1>1, ApartIs DEF Shape, Halves
  <2>2. promotion.key \in Int
    BY <1>1 DEF Shape, Types, Promotions, Idle
  <2> PICK v \in Int : v = promotion.key
    BY <2>2
  <2> PICK S : S = R[n] \union R[promotion.right]
    OBVIOUS
  <2>3. S \subseteq Int /\ Unbounded(S)
    BY <1>1, <2>1 DEF Covered
  <2>4. \A k \in S : k < v => k \in R[n]
    BY <2>1
  <2> QED BY <2>3, <2>4, UnboundedBelow
<1>2. CASE ~(~Idle /\ n = promotion.left)
  BY <1>2 DEF Covered
<1> QED BY <1>1, <1>2

(* The walk of LeftmostLeaf, from first child to first child. *)
FirstChildren == [n \in Nodes |-> node[n].children[1]]

LEMMA FirstChildIs ==
  ASSUME NEW h, NEW A, Sound(h, A)
  PROVE  /\ Descends(FirstChildren, h)
         /\ \A n \in Nodes : ~node[n].is_leaf =>
              /\ FirstChildren[n] = node[n].children[1] /\ FirstChildren[n] \in Nodes
              /\ Len(node[n].keys) \in Nat /\ Len(node[n].keys) >= 1
              /\ 1 \in 1 .. Len(node[n].children)
<1>0. /\ h \in [Nodes -> Nat]
      /\ \A n \in Nodes : node[n] \in NodeType /\ Kept(h, n)
  BY SoundIs
<1>1. ASSUME NEW n \in Nodes, ~node[n].is_leaf
      PROVE  /\ Len(node[n].keys) \in Nat /\ Len(node[n].keys) >= 1
             /\ 1 \in 1 .. Len(node[n].children)
             /\ node[n].children[1] \in Nodes /\ h[n] = h[node[n].children[1]] + 1
  <2>1. Kept(h, n) /\ Len(node[n].keys) \in Nat
    BY <1>0 DEF NodeType
  <2>2. Len(node[n].keys) >= 1 /\ Len(node[n].children) = Len(node[n].keys) + 1
    BY <1>1, <2>1, Zenon DEF Kept
  <2>3. 1 \in 1 .. Len(node[n].children)
    BY <2>1, <2>2
  <2>4. node[n].children[1] \in Nodes /\ h[n] = h[node[n].children[1]] + 1
    BY <1>1, <2>1, <2>3, Zenon DEF Kept
  <2> QED BY <2>1, <2>2, <2>3, <2>4
<1>2. \A n \in Nodes : FirstChildren[n] = node[n].children[1]
  BY DEF FirstChildren
<1>3. Descends(FirstChildren, h)
  BY <1>0, <1>1, <1>2 DEF Descends, Kept
<1> QED BY <1>1, <1>2, <1>3

LEMMA LeftmostWalk ==
  ASSUME NEW h, NEW A, Sound(h, A)
  PROVE  \E down : Walks(down, FirstChildren, Nodes \union {Null}) /\ LeftmostLeaf = down[root]
<1> PICK nx : nx = FirstChildren
  OBVIOUS
<1> DEFINE D == Nodes \union {Null}
           down == CHOOSE f : Walks(f, nx, D)
<1>1. LeftmostLeaf = down[root]
  <2>1. \A n \in D : n # Null => nx[n] = node[n].children[1]
    BY DEF FirstChildren
  <2>2. ASSUME NEW f
        PROVE  [n \in D |-> IF n = Null \/ node[n].is_leaf THEN n ELSE f[node[n].children[1]]]
                 = [n \in D |-> IF n = Null \/ node[n].is_leaf THEN n ELSE f[nx[n]]]
    <3> HIDE DEF D
    <3> QED BY <2>1
  <2>3. ASSUME NEW f
        PROVE  f = [n \in D |-> IF n = Null \/ node[n].is_leaf THEN n ELSE f[node[n].children[1]]]
                 <=> Walks(f, nx, D)
    BY <2>2, Zenon DEF Walks
  <2>4. down = CHOOSE f : f = [n \in D |-> IF n = Null \/ node[n].is_leaf THEN n
                                           ELSE f[node[n].children[1]]]
    BY <2>3
  <2> QED BY <2>4, Zenon DEF LeftmostLeaf
<1>2. Descends(nx, h) /\ Types
  BY FirstChildIs DEF Sound
<1>3. Walks(down, nx, D)
  BY <1>2, WalkIs
<1> QED BY <1>1, <1>3

(* The leaf that the first children lead to is the first of the list. *)
LEMMA LeftmostIs ==
  ASSUME NEW h, NEW R, Intact(h, R), NEW c, Listed(c, R)
  PROVE  /\ root = Null => LeftmostLeaf = Null /\ Len(c) = 0
         /\ root # Null => Len(c) > 0 /\ LeftmostLeaf = c[1]
<1>0. /\ Shape(h, R) /\ Sound(h, Nodes) /\ Types
      /\ Null \notin Nodes
      /\ \A n \in Nodes : node[n] \in NodeType
  BY SoundIs DEF Intact, Shape
<1> PICK nx : nx = FirstChildren
  OBVIOUS
<1>1. /\ Descends(nx, h)
      /\ \A n \in Nodes : ~node[n].is_leaf =>
           /\ nx[n] = node[n].children[1] /\ nx[n] \in Nodes
           /\ Len(node[n].keys) \in Nat /\ Len(node[n].keys) >= 1
           /\ 1 \in 1 .. Len(node[n].children)
  BY <1>0, FirstChildIs
<1> PICK D : D = Nodes \union {Null}
  OBVIOUS
<1>3. PICK down : Walks(down, nx, D) /\ LeftmostLeaf = down[root]
  BY <1>0, LeftmostWalk
<1>2. Descends(nx, h)
  BY <1>1
<1>4. Walks(down, nx, D)
  BY <1>3
<1> PICK m \in Nat : m = Len(c)
  BY DEF Listed
<1>5. /\ \A n \in Nodes : node[n].is_leaf => \E i \in 1 .. m : c[i] = n
      /\ \A i \in 1 .. m : c[i] \in Nodes
      /\ \A i, j \in 1 .. m : i < j => \A a \in R[c[i]], b \in R[c[j]] : a < b
  BY ElementOf DEF Listed
<1>6. ASSUME root = Null PROVE down[root] = Null /\ m = 0
  <2>1. down[Null] = Null
    BY <1>4 DEF Walks
  <2>2. Nodes = {}
    BY <1>0, <1>6 DEF Types, Nodes
  <2>3. \A i \in 1 .. m : FALSE
    BY <1>5, <2>2
  <2>4. m = 0
    BY <2>3
  <2> QED BY <1>6, <2>1, <2>4
<1>7. ASSUME root # Null PROVE m > 0 /\ down[root] = c[1]
  <2> PICK P : P = {n \in Nodes : Unbounded(R[n])}
    OBVIOUS
  <2>1. root \in P
    <3>1. root \in Nodes
      BY <1>0, <1>7 DEF Types
    <3>2. Covered(R, root) = Int
      BY <1>0, <1>7 DEF Shape, Places
    <3>3. Unbounded(Covered(R, root))
      BY <3>2 DEF Unbounded
    <3> QED BY <1>0, <3>1, <3>3, UnboundedLeft
  <2>2. ASSUME NEW n \in P, ~node[n].is_leaf PROVE nx[n] \in P
    <3>1. n \in Nodes /\ Unbounded(R[n])
      OBVIOUS
    <3> PICK x : x = nx[n]
      OBVIOUS
    <3>2. x \in Nodes /\ x = node[n].children[1] /\ 1 \in 1 .. Len(node[n].children)
          /\ Len(node[n].keys) \in Nat /\ Len(node[n].keys) >= 1
      BY <1>1, <2>2, <3>1
    <3>3. Child(h, R, n, 1)
      BY <1>0, <2>2, <3>1, <3>2 DEF Shape, Inner, InnerNode
    <3>4. Covered(R, x) = Slot(node[n], R[n], 1)
      BY <3>2, <3>3 DEF Child
    <3>5. R[n] \subseteq Int /\ node[n].keys \in Seq(Int)
      BY <1>0, <3>1, ApartIs DEF NodeType
    <3>6. node[n].keys[1] \in Int
      BY <3>2, <3>5, ElementOf
    <3>7. \A k \in R[n] : k < node[n].keys[1] => k \in Slot(node[n], R[n], 1)
      BY DEF Slot
    <3>8. Unbounded(Slot(node[n], R[n], 1))
      BY <3>1, <3>5, <3>6, <3>7, UnboundedBelow
    <3>9. Unbounded(R[x])
      BY <1>0, <3>2, <3>4, <3>8, UnboundedLeft
    <3> QED BY <3>2, <3>9
  <2>3. down[root] \in P /\ node[down[root]].is_leaf
    <3>1. \A y \in P : ~node[y].is_leaf => nx[y] \in P
      BY <2>2
    <3>2. P \subseteq Nodes /\ Null \notin Nodes
      BY <1>0
    <3>3. Walks(down, nx, Nodes \union {Null})
      BY <1>4
    <3> QED BY <1>2, <2>1, <3>1, <3>2, <3>3, WalkEnds
  <2> PICK x : x = down[root]
    OBVIOUS
  <2>4. PICK i \in 1 .. m : c[i] = x
    BY <1>5, <2>3
  <2>5. i = 1
    <3> SUFFICES ASSUME i # 1 PROVE FALSE
      OBVIOUS
    <3>1. 1 \in 1 .. m /\ 1 < i
      OBVIOUS
    <3>2. c[1] \in Nodes /\ x \in Nodes /\ R[x] \subseteq Int
      BY <1>0, <1>5, <2>3, <3>1, ApartIs
    <3>3. PICK a \in Int : a \in R[c[1]]
      BY <1>0, <3>2, ApartIs
    <3>4. PICK b \in R[x] : b <= a
      BY <2>3 DEF Unbounded
    <3>5. a < b /\ b \in Int
      BY <1>5, <2>4, <3>1, <3>2, <3>3, <3>4
    <3> QED BY <3>4, <3>5
  <2> QED BY <2>4, <2>5
<1> QED BY <1>3, <1>6, <1>7

(* The next pointers, followed from the leftmost leaf, give the list. *)
LEMMA ChainOfLeaves ==
  ASSUME NEW h, NEW R, Intact(h, R), NEW c, Listed(c, R)
  PROVE  Chain(LeftmostLeaf) = c
<1>0. Sound(h, Nodes) /\ c \in Seq(Nodes)
  BY DEF Intact, Listed
<1>1. CASE root = Null
  <2>1. LeftmostLeaf = Null /\ Len(c) = 0
    BY <1>1, LeftmostIs
  <2>2. c = <<>> /\ Chain(Null) = <<>>
    BY <1>0, <2>1, ChainIs, EmptyIs
  <2> QED BY <2>1, <2>2
<1>2. CASE root # Null
  <2>1. 1 \in 1 .. Len(c) /\ LeftmostLeaf = c[1]
    BY <1>0, <1>2, LeftmostIs
  <2>2. Chain(c[1]) = SubSeq(c, 1, Len(c)) /\ SubSeq(c, 1, Len(c)) = c
    BY <1>0, <2>1, ChainIs, SuffixIs
  <2> QED BY <2>1, <2>2
<1> QED BY <1>1, <1>2

(* Along the list the keys increase. *)
LEMMA KeysInOrder ==
  ASSUME SoundTree, TreeInv
  PROVE  ChainSorted
<1>1. PICK h, R : Intact(h, R)
  BY IntactTree
<1>0. /\ Shape(h, R) /\ Types
      /\ \A n \in Nodes : node[n] \in NodeType
  BY <1>1, SoundIs DEF Intact, Shape
<1>2. PICK c : Listed(c, R)
  BY <1>0 DEF Shape, Linked
<1> PICK m \in Nat : m = Len(c)
  BY <1>2 DEF Listed
<1>3. /\ c \in Seq(Nodes)
      /\ \A i \in 1 .. m : c[i] \in Nodes /\ node[c[i]].is_leaf
      /\ \A i, j \in 1 .. m : i < j => \A a \in R[c[i]], b \in R[c[j]] : a < b
  BY <1>2, ElementOf DEF Listed
<1> PICK S : S = [i \in 1 .. m |-> node[c[i]].keys]
  OBVIOUS
<1>4. ChainKeys = FlattenSeq(S)
  BY <1>1, <1>2, ChainOfLeaves DEF ChainKeys, Concat
<1>5. \A i \in 1 .. m : S[i] = node[c[i]].keys /\ S[i] \in Seq(Int)
  BY <1>0, <1>3 DEF NodeType
<1>6. S \in Seq(Seq(Int)) /\ Len(S) = m
  <2> PICK X : X = Seq(Int)
    OBVIOUS
  <2>1. S = [i \in 1 .. m |-> S[i]]
    OBVIOUS
  <2>2. S \in Seq(X) /\ Len(S) = m
    BY <1>5, <2>1
  <2> QED BY <2>2
<1> PICK Rel : Rel = {p \in Int \X Int : p[1] < p[2]}
  OBVIOUS
<1>7. \A a, b \in Int : <<a, b>> \in Rel <=> a < b
  OBVIOUS
<1>8. ASSUME NEW i \in 1 .. m
      PROVE  /\ Increasing(S[i])
             /\ \A a : Contains(S[i], a) => a \in Int /\ a \in R[c[i]]
  <2>1. /\ Increasing(node[c[i]].keys)
        /\ \A a \in 1 .. Len(node[c[i]].keys) : node[c[i]].keys[a] \in R[c[i]]
    BY <1>0, <1>3 DEF Shape, Leaves
  <2>2. \A a : Contains(S[i], a) => a \in R[c[i]]
    BY <1>5, <2>1 DEF Contains
  <2>3. R[c[i]] \subseteq Int
    BY <1>0, <1>3, ApartIs
  <2> QED BY <1>5, <2>1, <2>2, <2>3
<1>9. Layered(S, Rel)
  <2>1. ASSUME NEW i \in 1 .. m PROVE Before(S[i], Rel)
    <3> SUFFICES ASSUME NEW a \in 1 .. Len(S[i]), NEW b \in 1 .. Len(S[i]), a < b
                 PROVE  <<S[i][a], S[i][b]>> \in Rel
      BY DEF Before
    <3>1. S[i] \in Seq(Int) /\ Increasing(S[i])
      BY <1>5, <1>8
    <3>2. S[i][a] \in Int /\ S[i][b] \in Int
      BY <3>1, ElementOf
    <3>3. S[i][a] < S[i][b]
      BY <3>1 DEF Increasing
    <3> QED BY <1>7, <3>2, <3>3
  <2>2. ASSUME NEW i \in 1 .. m, NEW j \in 1 .. m, i < j PROVE Precedes(S[i], S[j], Rel)
    <3> SUFFICES ASSUME NEW a, NEW b, Contains(S[i], a), Contains(S[j], b)
                 PROVE  <<a, b>> \in Rel
      BY DEF Precedes
    <3>1. a \in Int /\ b \in Int /\ a \in R[c[i]] /\ b \in R[c[j]]
      BY <1>8
    <3>2. a < b
      BY <1>3, <2>2, <3>1
    <3> QED BY <1>7, <3>1, <3>2
  <2> QED BY <1>6, <2>1, <2>2 DEF Layered
<1> PICK ks : ks = FlattenSeq(S)
  OBVIOUS
<1>10. ks \in Seq(Int) /\ Before(ks, Rel)
  BY <1>6, <1>9, FlattenIs
<1>11. ASSUME NEW i \in 1 .. Len(ks), NEW j \in 1 .. Len(ks), i < j PROVE ks[i] < ks[j]
  <2>1. ks[i] \in Int /\ ks[j] \in Int
    BY <1>10, ElementOf
  <2>2. <<ks[i], ks[j]>> \in Rel
    BY <1>10, <1>11 DEF Before
  <2> QED BY <1>7, <2>1, <2>2
<1>12. DOMAIN ks = 1 .. Len(ks)
  BY <1>10
<1> QED BY <1>4, <1>11, <1>12 DEF ChainSorted

-----------------------------------------------------------------------------
(* The two ways to the leaves agree, and all leaves are equally deep.      *)

(* The recursion of Depth. *)
Rises(f) == f = [m \in Nodes |-> IF node[m].parent = Null THEN 0 ELSE 1 + f[node[m].parent]]

LEMMA DepthIs ==
  ASSUME NEW h, NEW R, Intact(h, R), Idle
  PROVE  \A n \in Nodes : Depth(n) = h[root] - h[n]
<1>0. /\ Types /\ Parents /\ h \in [Nodes -> Nat] /\ Null \notin Nodes
      /\ \A n \in Nodes : Kept(h, n) /\ h[n] <= h[root]
      /\ Nodes # {} => root \in Nodes /\ root # Null
  BY SoundIs DEF Intact, Shape, Heights
<1> SUFFICES ASSUME Nodes # {} PROVE \A n \in Nodes : Depth(n) = h[root] - h[n]
  OBVIOUS
<1>1. root \in Nodes /\ root # Null /\ h[root] \in Nat
  BY <1>0
<1> PICK d : d = [n \in Nodes |-> h[root] - h[n]]
  OBVIOUS
<1>2. ASSUME NEW n \in Nodes PROVE d[n] = h[root] - h[n] /\ d[n] \in Nat
  <2>1. h[n] \in Nat /\ h[n] <= h[root] /\ h[root] \in Nat
    BY <1>0, <1>1
  <2> QED BY <2>1
<1>3. ASSUME NEW n \in Nodes
      PROVE  \/ n = root /\ node[n].parent = Null /\ d[n] = 0
             \/ /\ node[n].parent \in Nodes /\ node[n].parent # Null
                /\ d[n] = 1 + d[node[n].parent]
  <2>1. ParentOf(n)
    BY <1>0 DEF Parents, Orphan
  <2>2. CASE n = root
    <3>1. d[root] = h[root] - h[root]
      BY <1>1
    <3> QED BY <1>1, <2>1, <2>2, <3>1 DEF ParentOf
  <2>3. CASE n # root
    <3> PICK p : p = node[n].parent
      OBVIOUS
    <3>1. p \in Nodes /\ ~node[p].is_leaf /\ \E i \in 1 .. Len(node[p].children) : node[p].children[i] = n
      BY <2>1, <2>3 DEF ParentOf
    <3>2. PICK i \in 1 .. Len(node[p].children) : node[p].children[i] = n
      BY <3>1
    <3>3. Kept(h, p)
      BY <1>0, <3>1
    <3>4. h[p] = h[n] + 1
      BY <3>1, <3>2, <3>3, Zenon DEF Kept
    <3>5. h[p] \in Nat /\ h[n] \in Nat /\ d[p] = h[root] - h[p] /\ d[n] = h[root] - h[n]
      BY <1>0, <1>2, <3>1
    <3>6. d[n] = 1 + d[p]
      BY <1>1, <3>4, <3>5
    <3> QED BY <1>0, <3>1, <3>6
  <2> QED BY <2>2, <2>3
<1> DEFINE up == CHOOSE f : Rises(f)
<1>4. \A n : Depth(n) = up[n]
  BY DEF Depth, Rises
<1>5. Rises(up)
  <2>1. \A n \in Nodes : d[n] = IF node[n].parent = Null THEN 0 ELSE 1 + d[node[n].parent]
    BY <1>3
  <2>2. Rises(d)
    BY <2>1 DEF Rises
  <2> QED BY <2>2
<1> HIDE DEF up
<1> PICK G : G = {n \in Nodes : up[n] = d[n]}
  OBVIOUS
<1>6. ASSUME NEW n \in Nodes, \A c \in Nodes : d[c] < d[n] => c \in G PROVE n \in G
  <2>1. up[n] = IF node[n].parent = Null THEN 0 ELSE 1 + up[node[n].parent]
    BY <1>5 DEF Rises
  <2>2. CASE n = root /\ node[n].parent = Null /\ d[n] = 0
    BY <2>1, <2>2
  <2>3. CASE node[n].parent \in Nodes /\ node[n].parent # Null /\ d[n] = 1 + d[node[n].parent]
    <3> PICK p \in Nodes : p = node[n].parent
      BY <2>3
    <3>1. d[n] = 1 + d[p] /\ d[p] \in Nat
      BY <1>2, <2>3
    <3>2. d[p] < d[n]
      BY <3>1
    <3>3. up[p] = d[p]
      BY <1>6, <3>2
    <3> QED BY <2>1, <2>3, <3>1, <3>3
  <2> QED BY <1>3, <2>2, <2>3
<1>7. d \in [Nodes -> Nat]
  BY <1>2
<1>8. \A n \in Nodes : n \in G
  BY <1>6, <1>7, LowestFirst
<1> QED BY <1>2, <1>4, <1>8

(* The leaves among the nodes that a visit meets, in the order of the list. *)
LEMMA LeavesVisited ==
  ASSUME NEW h, NEW R, Intact(h, R), Idle, NEW c, Listed(c, R),
         NEW v \in Seq(Nodes), \A x \in Nodes : Contains(v, x), Before(v, VisitOrder(R))
  PROVE  Concat(v, LAMBDA n : IF node[n].is_leaf THEN <<n>> ELSE <<>>) = c
<1>0. Shape(h, R)
  BY DEF Intact
<1> PICK m \in Nat : m = Len(c)
  BY DEF Listed
<1>1. /\ c \in Seq(Nodes)
      /\ \A n \in Nodes : node[n].is_leaf => \E i \in 1 .. m : c[i] = n
      /\ \A i \in 1 .. m : c[i] \in Nodes /\ node[c[i]].is_leaf
      /\ \A i, j \in 1 .. m : i < j => \A a \in R[c[i]], b \in R[c[j]] : a < b
  BY ElementOf DEF Listed
<1> PICK k \in Nat : k = Len(v)
  OBVIOUS
<1> PICK S : S = [i \in 1 .. k |-> IF node[v[i]].is_leaf THEN <<v[i]>> ELSE <<>>]
  OBVIOUS
<1>2. Concat(v, LAMBDA n : IF node[n].is_leaf THEN <<n>> ELSE <<>>) = FlattenSeq(S)
  BY DEF Concat
<1>3. \A i \in 1 .. k : v[i] \in Nodes
  BY ElementOf
<1>4. ASSUME NEW i \in 1 .. k
      PROVE  /\ S[i] \in Seq(Nodes) /\ Before(S[i], LeafOrder(R))
             /\ \A x : Contains(S[i], x) <=> x = v[i] /\ node[x].is_leaf
  <2>1. CASE node[v[i]].is_leaf
    <3>1. S[i] = <<v[i]>>
      BY <2>1
    <3>2. S[i] \in Seq(Nodes) /\ Len(S[i]) = 1 /\ S[i][1] = v[i]
      BY <1>3, <3>1
    <3>3. \A a \in 1 .. Len(S[i]) : a = 1
      BY <3>2
    <3>4. 1 \in 1 .. Len(S[i])
      BY <3>2
    <3> QED BY <2>1, <3>2, <3>3, <3>4 DEF Contains, Before
  <2>2. CASE ~node[v[i]].is_leaf
    <3>1. S[i] = <<>>
      BY <2>2
    <3>2. S[i] \in Seq(Nodes) /\ Len(S[i]) = 0
      BY <3>1
    <3>3. \A a : a \notin 1 .. Len(S[i])
      BY <3>2
    <3> QED BY <2>2, <3>2, <3>3 DEF Contains, Before
  <2> QED BY <2>1, <2>2
<1>5. S \in Seq(Seq(Nodes)) /\ Len(S) = k
  <2> PICK X : X = Seq(Nodes)
    OBVIOUS
  <2>1. S = [i \in 1 .. k |-> S[i]]
    OBVIOUS
  <2>2. S \in Seq(X) /\ Len(S) = k
    BY <1>4, <2>1
  <2> QED BY <2>2
<1>6. Layered(S, LeafOrder(R))
  <2>1. ASSUME NEW i \in 1 .. k, NEW j \in 1 .. k, i < j
        PROVE  Precedes(S[i], S[j], LeafOrder(R))
    <3> SUFFICES ASSUME NEW x, NEW y, Contains(S[i], x), Contains(S[j], y)
                 PROVE  <<x, y>> \in LeafOrder(R)
      BY DEF Precedes
    <3>1. x = v[i] /\ y = v[j] /\ node[x].is_leaf /\ node[y].is_leaf
      BY <1>4
    <3>2. <<x, y>> \in VisitOrder(R)
      BY <2>1, <3>1 DEF Before
    <3>3. x \in Nodes /\ y \in Nodes /\ Apart(R, x, y)
      BY <3>1, <3>2, OrdersAre
    <3> QED BY <3>3, OrdersAre
  <2> QED BY <1>4, <1>5, <2>1 DEF Layered
<1> PICK s : s = FlattenSeq(S)
  OBVIOUS
<1>7. /\ s \in Seq(Nodes) /\ Before(s, LeafOrder(R))
      /\ \A x : Contains(s, x) <=> Gathered(S, k, x)
  BY <1>5, <1>6, FlattenIs
<1>8. \A x : Contains(s, x) <=> x \in Nodes /\ node[x].is_leaf
  <2>1. ASSUME NEW x, Contains(s, x) PROVE x \in Nodes /\ node[x].is_leaf
    <3>1. PICK i \in 1 .. k : Contains(S[i], x)
      BY <1>7, <2>1 DEF Gathered
    <3>2. x = v[i] /\ node[x].is_leaf
      BY <1>4, <3>1, Zenon
    <3> QED BY <1>3, <3>2
  <2>2. ASSUME NEW x \in Nodes, node[x].is_leaf PROVE Contains(s, x)
    <3>1. PICK i \in 1 .. k : v[i] = x
      BY DEF Contains
    <3>2. Contains(S[i], x)
      BY <1>4, <2>2, <3>1
    <3> QED BY <1>7, <3>2 DEF Gathered
  <2> QED BY <2>1, <2>2
<1>9. \A x : Contains(c, x) <=> x \in Nodes /\ node[x].is_leaf
  BY <1>1 DEF Contains
<1>10. Before(c, LeafOrder(R))
  <2> SUFFICES ASSUME NEW i \in 1 .. m, NEW j \in 1 .. m, i < j
               PROVE  <<c[i], c[j]>> \in LeafOrder(R)
    BY DEF Before
  <2>1. c[i] \in Nodes /\ c[j] \in Nodes /\ R[c[i]] # {} /\ R[c[j]] # {}
    BY <1>0, <1>1, ApartIs, ZenonT(40)
  <2>2. Apart(R, c[i], c[j])
    BY <1>1, <2>1 DEF Apart
  <2> QED BY <2>1, <2>2, OrdersAre
<1>11. \A x, y : ~(<<x, y>> \in LeafOrder(R) /\ <<y, x>> \in LeafOrder(R))
  BY <1>0, ApartIs, OrdersAre
<1>12. s = c
  <2>1. \A x : Contains(s, x) <=> Contains(c, x)
    BY <1>8, <1>9
  <2> QED BY <1>1, <1>7, <1>10, <1>11, <2>1, SameOrder
<1> QED BY <1>2, <1>12

LEMMA TreeBalanced ==
  ASSUME SoundTree, TreeInv
  PROVE  Balanced
<1> SUFFICES ASSUME Idle, root # Null
             PROVE  /\ Concat(bptree_destroy_node(root), LAMBDA n : IF node[n].is_leaf THEN <<n>> ELSE <<>>)
                         = Chain(LeftmostLeaf)
                    /\ node[root].parent = Null
                    /\ \A n \in ToSet(bptree_destroy_node(root)) :
                         /\ Len(node[n].keys) \in 1 .. MaxKeys
                         /\ n # root => Len(node[n].keys) >= IF node[n].is_leaf THEN Half ELSE MaxKeys - Half
                         /\ node[n].is_leaf => Depth(n) = Depth(LeftmostLeaf)
                         /\ ~node[n].is_leaf => /\ Len(node[n].children) = Len(node[n].keys) + 1
                                                /\ \A c \in ToSet(node[n].children) : node[c].parent = n
  BY DEF Balanced
<1>1. PICK h, R : Intact(h, R)
  BY IntactTree
<1>0. /\ Shape(h, R) /\ Sound(h, Nodes) /\ Types /\ Filled /\ Tied(Nodes) /\ Parents
      /\ h \in [Nodes -> Nat] /\ root \in Nodes
      /\ \A n \in Nodes : node[n] \in NodeType /\ Kept(h, n)
  BY <1>1, SoundIs DEF Intact, Shape, Sound, Types
<1>2. PICK c : Listed(c, R)
  BY <1>0 DEF Shape, Linked
<1>3. Chain(LeftmostLeaf) = c /\ Len(c) > 0 /\ LeftmostLeaf = c[1] /\ c \in Seq(Nodes)
  BY <1>1, <1>2, ChainOfLeaves, LeftmostIs DEF Listed
<1>4. PICK f : Visits(f, Nodes) /\ bptree_destroy_node(root) = f[root]
  BY <1>0, DestroyIs
<1>5. f[root] \in Seq(Nodes)
  BY <1>0, <1>4, LayersAre, VisitTyped
<1> PICK v \in Seq(Nodes) : v = f[root]
  BY <1>5
<1>6. (\A x \in Nodes : Contains(v, x)) /\ Before(v, VisitOrder(R))
  BY <1>0, <1>1, <1>4, VisitMeetsAll, VisitInOrder
<1>7. Concat(v, LAMBDA n : IF node[n].is_leaf THEN <<n>> ELSE <<>>) = c
  BY <1>1, <1>2, <1>6, LeavesVisited
<1>8. node[root].parent = Null
  BY <1>0 DEF Parents, ParentOf, Orphan
<1>9. ToSet(v) \subseteq Nodes
  BY ElementOf DEF ToSet
<1>10. LeftmostLeaf \in Nodes /\ node[LeftmostLeaf].is_leaf
  <2>1. 1 \in 1 .. Len(c)
    BY <1>3
  <2> QED BY <1>2, <1>3, <2>1, ElementOf DEF Listed
<1>11. ASSUME NEW n \in Nodes
       PROVE  /\ Len(node[n].keys) \in 1 .. MaxKeys
              /\ n # root => Len(node[n].keys) >= IF node[n].is_leaf THEN Half ELSE MaxKeys - Half
              /\ node[n].is_leaf => Depth(n) = Depth(LeftmostLeaf)
              /\ ~node[n].is_leaf => /\ Len(node[n].children) = Len(node[n].keys) + 1
                                     /\ \A x \in ToSet(node[n].children) : node[x].parent = n
  <2>1. Kept(h, n) /\ node[n] \in NodeType
    BY <1>0
  <2>2. Len(node[n].keys) >= 1 /\ Len(node[n].keys) <= MaxKeys
    BY <2>1, Zenon DEF Kept
  <2>3. Len(node[n].keys) \in 1 .. MaxKeys
    BY <2>1, <2>2 DEF NodeType
  <2>4. n # root => Len(node[n].keys) >= IF node[n].is_leaf THEN Half ELSE MaxKeys - Half
    BY <1>0, Zenon DEF Filled, AtLeast
  <2>5. ASSUME node[n].is_leaf PROVE Depth(n) = Depth(LeftmostLeaf)
    <3>1. Kept(h, LeftmostLeaf)
      BY <1>0, <1>10
    <3>2. h[n] = 0 /\ h[LeftmostLeaf] = 0
      BY <1>10, <2>1, <2>5, <3>1, Zenon DEF Kept
    <3>3. Depth(n) = h[root] - h[n] /\ Depth(LeftmostLeaf) = h[root] - h[LeftmostLeaf]
      BY <1>1, <1>10, DepthIs
    <3> QED BY <3>2, <3>3
  <2>6. ASSUME ~node[n].is_leaf PROVE Len(node[n].children) = Len(node[n].keys) + 1
    BY <2>1, <2>6, Zenon DEF Kept
  <2>7. ASSUME ~node[n].is_leaf, NEW x \in ToSet(node[n].children) PROVE node[x].parent = n
    <3>1. Owns(Nodes, n)
      BY <1>0, <2>7 DEF Tied
    <3>2. DOMAIN node[n].children = 1 .. Len(node[n].children)
      BY <2>1 DEF NodeType
    <3>3. PICK i \in 1 .. Len(node[n].children) : node[n].children[i] = x
      BY <2>7, <3>2 DEF ToSet
    <3> QED BY <3>1, <3>3, Zenon DEF Owns
  <2> QED BY <2>3, <2>4, <2>5, <2>6, <2>7
<1> QED BY <1>3, <1>4, <1>7, <1>8, <1>9, <1>11

(* The list of the leaves that the range scans of table.c follow is sorted *)
(* and agrees with the tree, as long as the nodes above the leaves can be  *)
(* allocated.                                                              *)
THEOREM LeavesLinked ==
  ASSUME ParentsAllocated
  PROVE  Spec => []WellLinked
<1>1. SoundTree /\ TreeInv => WellLinked
  BY KeysInOrder, TreeBalanced DEF WellLinked
<1> QED BY <1>1, SoundTreeInvariance, TreeInvariance, PTL

-----------------------------------------------------------------------------
(* What the users table relies on, whatever allocations fail.              *)

(* The tree is sound and, unless a node has been cut off, in shape, and S  *)
(* are its entries.                                                        *)
Holds(h, A, S) == Sound(h, A) /\ (A = Nodes => TreeInv /\ Entries = S)
Holding(S) == \E h, A : Holds(h, A, S)

LEMMA HoldingStarts == Init => Holding({})
<1> SUFFICES ASSUME Init PROVE Holding({})
  OBVIOUS
<1>1. PICK h, A : Sound(h, A)
  BY InitSound
<1>2. TreeInv
  BY InitShape
<1>3. Nodes = {}
  BY DEF Init, Nodes
<1>4. Entries = {}
  BY <1>3 DEF Entries
<1> QED BY <1>1, <1>2, <1>4 DEF Holding, Holds

LEMMA InsertHolding ==
  ASSUME NEW S, Holding(S), NEW key \in Keys, NEW value \in Values, bptree_insert(key, value)
  PROVE  \/ returned' = 0 /\ Holding(S)'
         \/ returned' \in {1, 2} /\ Holding(S \union {<<key, value>>})'
<1>1. PICK h, A : Sound(h, A) /\ (A = Nodes => TreeInv /\ Entries = S)
  BY DEF Holding, Holds
<1>2. PICK g, B : Sound(g, B)' /\ (A # Nodes => B # Nodes')
  BY <1>1, InsertSound
<1>3. returned' \in {0, 1, 2}
  BY <1>2 DEF Sound, Types
<1>4. CASE B # Nodes'
  <2>1. \A T : Holding(T)'
    BY <1>2, <1>4 DEF Holding, Holds
  <2> QED BY <1>3, <2>1
<1>5. CASE B = Nodes'
  <2>1. TreeInv /\ Entries = S
    BY <1>1, <1>2, <1>5
  <2>2. TreeInv'
    BY <2>1, InsertShape
  <2>3. Index!Insert(key, value) \/ Index!Refuse
    BY <2>1, InsertRefines
  <2>4. \/ returned' = 0 /\ Entries' = S
        \/ returned' \in {1, 2} /\ Entries' = S \union {<<key, value>>}
    BY <2>1, <2>3 DEF Index!Insert, Index!Refuse
  <2>5. ASSUME NEW T, Entries' = T PROVE Holding(T)'
    BY <1>2, <2>2, <2>5 DEF Holding, Holds
  <2> QED BY <2>4, <2>5
<1> QED BY <1>4, <1>5

(* An insert whose separator is refused may have lost any of the entries. *)
LEMMA ParentHolding ==
  ASSUME NEW S, Holding(S), bptree_insert_into_parent
  PROVE  /\ returned = 2
         /\ \/ returned' = 0 /\ \A T : Holding(T)'
            \/ returned' \in {1, 2} /\ Holding(S)'
<1>1. PICK h, A : Sound(h, A) /\ (A = Nodes => TreeInv /\ Entries = S)
  BY DEF Holding, Holds
<1>2. PICK g, B : Sound(g, B)' /\ (A # Nodes \/ Refused => B # Nodes')
  BY <1>1, ParentSound
<1>3. returned' \in {0, 1, 2} /\ returned = 2
  BY <1>1, <1>2 DEF Sound, Types, bptree_insert_into_parent
<1>4. CASE B # Nodes'
  <2>1. \A T : Holding(T)'
    BY <1>2, <1>4 DEF Holding, Holds
  <2> QED BY <1>3, <2>1
<1>5. CASE B = Nodes'
  <2>1. TreeInv /\ Entries = S /\ ~Refused
    BY <1>1, <1>2, <1>5
  <2>2. TreeInv'
    BY <2>1, ParentShape
  <2>3. Index!Complete \/ (Entries' = Entries /\ returned' = returned)
    BY <2>1, ParentRefines
  <2>4. returned' \in {1, 2} /\ Entries' = S
    BY <1>3, <2>1, <2>3 DEF Index!Complete
  <2>5. Holding(S)'
    BY <1>2, <2>2, <2>4 DEF Holding, Holds
  <2> QED BY <1>3, <2>4, <2>5
<1> QED BY <1>4, <1>5

LEMMA SameHolding ==
  ASSUME NEW S, Holding(S), UNCHANGED <<node, root, promotion, returned>>
  PROVE  Holding(S)'
<1>1. PICK h, A : Sound(h, A) /\ (A = Nodes => TreeInv /\ Entries = S)
  BY DEF Holding, Holds
<1>2. returned \in {0, 1, 2} /\ returned' = returned /\ UNCHANGED <<node, root, promotion>>
  BY <1>1 DEF Sound, Types
<1>3. Sound(h, A)' /\ Nodes' = Nodes
  BY <1>1, <1>2, SameSound
<1>4. ASSUME TreeInv PROVE TreeInv'
  <2>1. PICK f, R : Shape(f, R)
    BY <1>4 DEF TreeInv
  <2>2. Shape(f, R)'
    BY <1>2, <2>1, SameShape
  <2> QED BY <2>2 DEF TreeInv
<1>5. Entries' = Entries
  BY <1>2, <1>3 DEF Entries
<1> QED BY <1>1, <1>3, <1>4, <1>5 DEF Holding, Holds

LEMMA HoldingTypes ==
  ASSUME NEW S, Holding(S)
  PROVE  TypeOK /\ (Idle <=> returned # 2)
<1>1. PICK h, A : Sound(h, A)
  BY DEF Holding, Holds
<1>2. TypeOK
  BY <1>1, SoundTypes
<1> QED BY <1>1, <1>2 DEF Sound, Types

(* A tree of which bptree_destroy frees every node has lost none. *)
LEMMA HeldAll ==
  ASSUME NEW S, Holding(S), Idle, DestroyFreesAll
  PROVE  SoundTree /\ TreeInv /\ Entries = S
<1>1. PICK h, A : Sound(h, A) /\ (A = Nodes => TreeInv /\ Entries = S)
  BY DEF Holding, Holds
<1>0. A \subseteq Nodes /\ (root # Null => root \in A) /\ (root = Null => Nodes = {})
      /\ \A n \in Nodes : Kept(h, n)
  BY <1>1, SoundIs DEF Sound, Tied, Types, Nodes
<1>2. A = Nodes
  <2>1. CASE root = Null
    BY <1>0, <2>1
  <2>2. CASE root # Null
    <3>1. PICK f : Visits(f, Nodes) /\ bptree_destroy_node(root) = f[root]
      BY <1>1, <2>2, DestroyIs
    <3>2. \A m \in A : \A i \in 1 .. Len(node[m].children) : node[m].children[i] \in A
      <4> SUFFICES ASSUME NEW m \in A, NEW i \in 1 .. Len(node[m].children)
                   PROVE  node[m].children[i] \in A
        OBVIOUS
      <4>1. CASE node[m].is_leaf
        <5>1. node[m].children = <<>>
          BY <1>0, <4>1 DEF Kept
        <5>2. Len(node[m].children) = 0
          BY <5>1
        <5> QED BY <5>2
      <4>2. CASE ~node[m].is_leaf
        <5>1. Owns(A, m)
          BY <1>1, <4>2 DEF Sound, Tied
        <5> QED BY <5>1, Zenon DEF Owns
      <4> QED BY <4>1, <4>2
    <3>3. Layers(h)
      BY <1>1, LayersAre
    <3>4. \A x : Contains(f[root], x) => x \in A
      BY <1>0, <2>2, <3>1, <3>2, <3>3, VisitStays
    <3>5. f[root] \in Seq(Nodes)
      BY <1>0, <2>2, <3>1, <3>3, VisitTyped
    <3> PICK v \in Seq(Nodes) : v = f[root]
      BY <3>5
    <3>6. ToSet(v) = Nodes
      BY <3>1 DEF DestroyFreesAll
    <3>7. ASSUME NEW x \in Nodes PROVE x \in A
      <4>1. PICK i \in DOMAIN v : v[i] = x
        BY <3>6 DEF ToSet
      <4>2. i \in 1 .. Len(v)
        BY <4>1
      <4> QED BY <3>4, <4>1, <4>2 DEF Contains
    <3> QED BY <1>0, <3>7
  <2> QED BY <2>1, <2>2
<1> QED BY <1>1, <1>2 DEF SoundTree

-----------------------------------------------------------------------------
(* What a range scan of table.c reads: the keys and the values of the      *)
(* leaves from n on.                                                       *)

KeysAfter(n) == Concat(Chain(n), LAMBDA m : node[m].keys)
ValuesAfter(n) == Concat(Chain(n), LAMBDA m : node[m].values)

(* As many values as keys in each leaf are as many in all of them. *)
Paired(S, T, X, Y) ==
  /\ S \in Seq(Seq(X)) /\ T \in Seq(Seq(Y)) /\ Len(T) = Len(S)
  /\ \A i \in 1 .. Len(S) : Len(T[i]) = Len(S[i])

LEMMA SameLengths ==
  ASSUME NEW S, NEW T, NEW X, NEW Y, Paired(S, T, X, Y)
  PROVE  Len(FlattenSeq(T)) = Len(FlattenSeq(S))
<1> USE DEF Paired
<1> PICK n \in Nat : n = Len(S)
  OBVIOUS
<1>1. CASE n = 0
  <2>1. S = <<>> /\ T = <<>>
    BY <1>1, EmptyIs
  <2> QED BY <2>1
<1>2. CASE n # 0
  <2> DEFINE f == CHOOSE u : Joins(u, S, n)
             g == CHOOSE u : Joins(u, T, n)
  <2>1. FlattenSeq(S) = f[n] /\ FlattenSeq(T) = g[n]
    BY <1>2 DEF FlattenSeq, Joins
  <2>2. Joins(f, S, n) /\ Joins(g, T, n)
    BY JoinsExists
  <2> HIDE DEF f, g
  <2>3. /\ \A i \in 1 .. n : f[i] = IF i = 1 THEN S[i] ELSE f[i - 1] \o S[i]
        /\ \A i \in 1 .. n : g[i] = IF i = 1 THEN T[i] ELSE g[i - 1] \o T[i]
    BY <2>2 DEF Joins
  <2>4. \A i \in 1 .. n : S[i] \in Seq(X) /\ T[i] \in Seq(Y) /\ Len(T[i]) = Len(S[i])
    <3> PICK P : P = Seq(X)
      OBVIOUS
    <3> PICK Q : Q = Seq(Y)
      OBVIOUS
    <3>1. S \in Seq(P) /\ T \in Seq(Q)
      OBVIOUS
    <3>2. \A i \in 1 .. n : S[i] \in P /\ T[i] \in Q
      BY <3>1, ElementOf
    <3> QED BY <3>2
  <2> DEFINE Good(i) == f[i] \in Seq(X) /\ g[i] \in Seq(Y) /\ Len(g[i]) = Len(f[i])
             B == {i \in 1 .. n : ~Good(i)}
  <2> HIDE DEF Good
  <2>5. B = {}
    <3> SUFFICES ASSUME B # {} PROVE FALSE
      OBVIOUS
    <3>1. B \subseteq Nat
      OBVIOUS
    <3>2. PICK i \in B : \A y \in B : i <= y
      BY <3>1, LeastNumber
    <3>3. i \in 1 .. n /\ ~Good(i)
      OBVIOUS
    <3>4. CASE i = 1
      BY <2>3, <2>4, <3>3, <3>4 DEF Good
    <3>5. CASE i # 1
      <4>1. i - 1 \in 1 .. n /\ ~(i <= i - 1)
        BY <3>3, <3>5
      <4>2. Good(i - 1)
        BY <3>2, <4>1
      <4> PICK a \in Seq(X) : a = f[i - 1]
        BY <4>2 DEF Good
      <4> PICK b \in Seq(Y) : b = g[i - 1]
        BY <4>2 DEF Good
      <4> PICK s \in Seq(X) : s = S[i]
        BY <2>4, <3>3
      <4> PICK t \in Seq(Y) : t = T[i]
        BY <2>4, <3>3
      <4>3. Len(a) = Len(b) /\ Len(s) = Len(t)
        BY <2>4, <3>3, <4>2 DEF Good
      <4>4. f[i] = a \o s /\ g[i] = b \o t
        BY <2>3, <3>3, <3>5
      <4>5. /\ a \o s \in Seq(X) /\ Len(a \o s) = Len(a) + Len(s)
            /\ b \o t \in Seq(Y) /\ Len(b \o t) = Len(b) + Len(t)
        OBVIOUS
      <4>6. f[i] \in Seq(X) /\ g[i] \in Seq(Y) /\ Len(g[i]) = Len(f[i])
        BY <4>3, <4>4, <4>5
      <4> QED BY <3>3, <4>6 DEF Good
    <3> QED BY <3>4, <3>5
  <2>6. Good(n)
    BY <1>2, <2>5
  <2> QED BY <2>1, <2>6 DEF Good
<1> QED BY <1>1, <1>2

(* What the leaves from a leaf on are. *)
LEMMA RunIs ==
  ASSUME NEW h, NEW A, Sound(h, A), NEW n, n = Null \/ (n \in Nodes /\ node[n].is_leaf)
  PROVE  /\ Chain(n) \in Seq(Nodes)
         /\ \A i \in 1 .. Len(Chain(n)) : Chain(n)[i] \in Nodes /\ node[Chain(n)[i]].is_leaf
         /\ IF n = Null THEN Chain(n) = <<>> ELSE Len(Chain(n)) >= 1 /\ Chain(n)[1] = n
<1>0. Null \notin Nodes
  BY SoundIs
<1>1. PICK c : Listed(c, NoPlaces)
  BY DEF Sound, Linked
<1> PICK k \in Nat : k = Len(c)
  BY <1>1 DEF Listed
<1>2. /\ c \in Seq(Nodes)
      /\ \A m \in Nodes : node[m].is_leaf => \E i \in 1 .. k : c[i] = m
      /\ \A i \in 1 .. k : c[i] \in Nodes /\ node[c[i]].is_leaf
  BY <1>1, ElementOf DEF Listed
<1>3. Chain(Null) = <<>> /\ \A i \in 1 .. k : Chain(c[i]) = SubSeq(c, i, k)
  BY <1>1, ChainIs
<1>4. CASE n = Null
  <2>1. Chain(n) = <<>> /\ <<>> \in Seq(Nodes) /\ Len(<<>>) = 0
    BY <1>3, <1>4
  <2> QED BY <1>4, <2>1
<1>5. CASE n # Null
  <2>1. PICK p \in 1 .. k : c[p] = n
    BY <1>2, <1>5
  <2>2. p \in 1 .. Len(c) + 1 /\ k <= Len(c) /\ p <= k + 1
    OBVIOUS
  <2> PICK q : q = SubSeq(c, p, k)
    OBVIOUS
  <2>3. /\ q \in Seq(Nodes) /\ Len(q) = k + 1 - p
        /\ \A i \in 1 .. k + 1 - p : q[i] = c[p + i - 1]
    BY <1>2, <2>2, SubSeqIs
  <2>4. ASSUME NEW i \in 1 .. k + 1 - p PROVE q[i] \in Nodes /\ node[q[i]].is_leaf
    <3>1. p + i - 1 \in 1 .. k
      OBVIOUS
    <3> QED BY <1>2, <2>3, <3>1
  <2>5. 1 \in 1 .. k + 1 - p /\ p + 1 - 1 = p /\ k + 1 - p >= 1
    OBVIOUS
  <2>6. q[1] = n
    BY <2>1, <2>3, <2>5
  <2>7. Chain(n) = q
    BY <1>3, <2>1
  <2> QED BY <1>5, <2>3, <2>4, <2>5, <2>6, <2>7
<1> QED BY <1>4, <1>5

(* Whatever was refused, a scan reads as many values as keys. *)
LEMMA ReadsTyped ==
  ASSUME NEW h, NEW A, Sound(h, A), NEW n, n = Null \/ (n \in Nodes /\ node[n].is_leaf)
  PROVE  /\ KeysAfter(n) \in Seq(Int) /\ ValuesAfter(n) \in Seq(Values)
         /\ Len(ValuesAfter(n)) = Len(KeysAfter(n))
<1> PICK c : c = Chain(n)
  OBVIOUS
<1>0. \A m \in Nodes : node[m] \in NodeType /\ Kept(h, m)
  BY SoundIs
<1>1. c \in Seq(Nodes) /\ \A i \in 1 .. Len(c) : c[i] \in Nodes /\ node[c[i]].is_leaf
  BY RunIs
<1> PICK k \in Nat : k = Len(c)
  BY <1>1
<1> PICK S : S = [i \in 1 .. k |-> node[c[i]].keys]
  OBVIOUS
<1> PICK T : T = [i \in 1 .. k |-> node[c[i]].values]
  OBVIOUS
<1>2. KeysAfter(n) = FlattenSeq(S) /\ ValuesAfter(n) = FlattenSeq(T)
  BY DEF KeysAfter, ValuesAfter, Concat
<1>3. ASSUME NEW i \in 1 .. k
      PROVE  S[i] \in Seq(Int) /\ T[i] \in Seq(Values) /\ Len(T[i]) = Len(S[i])
  <2> PICK m \in Nodes : m = c[i] /\ node[m].is_leaf
    BY <1>1
  <2>1. node[m].keys \in Seq(Int) /\ node[m].values \in Seq(Values)
    BY <1>0 DEF NodeType
  <2>2. Len(node[m].values) = Len(node[m].keys)
    BY <1>0, Zenon DEF Kept
  <2> QED BY <2>1, <2>2
<1>4. S \in Seq(Seq(Int)) /\ T \in Seq(Seq(Values)) /\ Len(S) = k /\ Len(T) = k
  <2> PICK P : P = Seq(Int)
    OBVIOUS
  <2> PICK Q : Q = Seq(Values)
    OBVIOUS
  <2>1. S = [i \in 1 .. k |-> S[i]] /\ T = [i \in 1 .. k |-> T[i]]
    OBVIOUS
  <2>2. S \in Seq(P) /\ T \in Seq(Q) /\ Len(S) = k /\ Len(T) = k
    BY <1>3, <2>1
  <2> QED BY <2>2
<1>5. FlattenSeq(S) \in Seq(Int) /\ FlattenSeq(T) \in Seq(Values)
  BY <1>4, FlattenIs
<1>6. Len(FlattenSeq(T)) = Len(FlattenSeq(S))
  <2>1. Paired(S, T, Int, Values)
    BY <1>3, <1>4 DEF Paired
  <2> QED BY <2>1, SameLengths
<1> QED BY <1>2, <1>5, <1>6

LEMMA LeftmostReached ==
  ASSUME NEW h, NEW A, Sound(h, A)
  PROVE  IF root = Null THEN LeftmostLeaf = Null
         ELSE LeftmostLeaf \in Nodes /\ node[LeftmostLeaf].is_leaf
<1>1. PICK down : Walks(down, FirstChildren, Nodes \union {Null}) /\ LeftmostLeaf = down[root]
  BY LeftmostWalk
<1> PICK nx : nx = FirstChildren
  OBVIOUS
<1>2. /\ Descends(nx, h) /\ Null \notin Nodes
      /\ \A n \in Nodes : ~node[n].is_leaf => nx[n] \in Nodes
  BY FirstChildIs, SoundIs
<1>3. root # Null => root \in Nodes
  BY DEF Sound, Types
<1>4. CASE root = Null
  BY <1>1, <1>4 DEF Walks
<1>5. CASE root # Null
  <2>1. down[root] \in Nodes /\ node[down[root]].is_leaf
    <3>1. Nodes \subseteq Nodes
      OBVIOUS
    <3> QED BY <1>1, <1>2, <1>3, <1>5, <3>1, WalkEnds
  <2> QED BY <1>1, <1>5, <2>1
<1> QED BY <1>4, <1>5

(* The scans of table.c read as many values as keys, also in a tree that   *)
(* has lost nodes.                                                         *)
LEMMA ScansTyped ==
  ASSUME NEW S, Holding(S), NEW key \in Int,
         NEW n, n = LeftmostLeaf \/ n = bptree_find_leaf(key)
  PROVE  /\ KeysAfter(n) \in Seq(Int) /\ ValuesAfter(n) \in Seq(Values)
         /\ Len(ValuesAfter(n)) = Len(KeysAfter(n))
         /\ n = Null \/ node[n].keys \in Seq(Int)
<1>1. PICK h, A : Sound(h, A)
  BY DEF Holding, Holds
<1>2. A \subseteq Nodes /\ \A m \in Nodes : node[m] \in NodeType
  BY <1>1, SoundIs
<1>3. IF root = Null THEN LeftmostLeaf = Null
      ELSE LeftmostLeaf \in Nodes /\ node[LeftmostLeaf].is_leaf
  BY <1>1, LeftmostReached
<1>4. IF root = Null THEN bptree_find_leaf(key) = Null
      ELSE bptree_find_leaf(key) \in A /\ node[bptree_find_leaf(key)].is_leaf
  BY <1>1, LeafReached
<1>5. n = Null \/ (n \in Nodes /\ node[n].is_leaf)
  BY <1>2, <1>3, <1>4
<1>6. n \in Nodes => node[n].keys \in Seq(Int)
  BY <1>2 DEF NodeType
<1> QED BY <1>1, <1>5, <1>6, ReadsTyped

-----------------------------------------------------------------------------
(* What the scans read in a tree that has lost no node.                    *)

Less == {p \in Int \X Int : p[1] < p[2]}

LEMMA LessIs ==
  /\ \A a, b \in Int : <<a, b>> \in Less <=> a < b
  /\ \A a, b : <<a, b>> \in Less => a \in Int /\ b \in Int /\ a < b
  /\ \A a, b : ~(<<a, b>> \in Less /\ <<b, a>> \in Less)
BY DEF Less

LEMMA IncreasingIs ==
  ASSUME NEW s \in Seq(Int)
  PROVE  Increasing(s) <=> Before(s, Less)
<1>1. \A i \in 1 .. Len(s) : s[i] \in Int
  BY ElementOf
<1>2. \A i, j \in 1 .. Len(s) : <<s[i], s[j]>> \in Less <=> s[i] < s[j]
  BY <1>1, LessIs
<1> QED BY <1>2 DEF Increasing, Before

(* The first of some sequences comes first in their concatenation. *)
LEMMA FirstComesFirst ==
  ASSUME NEW S \in Seq(Seq(Int)), Len(S) >= 1, Layered(S, Less)
  PROVE  \E rest \in Seq(Int) :
           /\ FlattenSeq(S) = S[1] \o rest
           /\ \A x : Contains(rest, x) <=> \E i \in 2 .. Len(S) : Contains(S[i], x)
<1> PICK X : X = Seq(Int)
  OBVIOUS
<1> PICK n \in Nat : n = Len(S)
  OBVIOUS
<1>0. S \in Seq(X) /\ n >= 1
  OBVIOUS
<1>1. \A i \in 1 .. n : S[i] \in X
  BY <1>0, ElementOf
<1> PICK T : T = SubSeq(S, 2, n)
  OBVIOUS
<1>2. T \in Seq(X) /\ Len(T) = n - 1 /\ \A i \in 1 .. n - 1 : T[i] = S[2 + i - 1]
  <2>1. 2 \in 1 .. Len(S) + 1 /\ n <= Len(S) /\ 2 <= n + 1 /\ n + 1 - 2 = n - 1
    BY <1>0
  <2> QED BY <1>0, <2>1, SubSeqIs
<1>3. \A i \in 1 .. n - 1 : T[i] = S[i + 1] /\ i + 1 \in 2 .. n
  <2> SUFFICES ASSUME NEW i \in 1 .. n - 1 PROVE T[i] = S[i + 1] /\ i + 1 \in 2 .. n
    OBVIOUS
  <2>1. 2 + i - 1 = i + 1 /\ i + 1 \in 2 .. n
    BY <1>0
  <2> QED BY <1>2, <2>1
<1>4. \A i \in 2 .. n : i - 1 \in 1 .. n - 1 /\ T[i - 1] = S[i]
  <2> SUFFICES ASSUME NEW i \in 2 .. n PROVE i - 1 \in 1 .. n - 1 /\ T[i - 1] = S[i]
    OBVIOUS
  <2>1. i - 1 \in 1 .. n - 1 /\ (i - 1) + 1 = i
    OBVIOUS
  <2> QED BY <1>3, <2>1
<1>5. /\ \A a \in 1 .. n : Before(S[a], Less)
      /\ \A a, b \in 1 .. n : a < b => Precedes(S[a], S[b], Less)
  BY DEF Layered
<1>6. Layered(T, Less)
  <2>1. \A a \in 1 .. n - 1 : Before(T[a], Less)
    BY <1>3, <1>5
  <2>2. ASSUME NEW a \in 1 .. n - 1, NEW b \in 1 .. n - 1, a < b PROVE Precedes(T[a], T[b], Less)
    <3>1. a + 1 \in 1 .. n /\ b + 1 \in 1 .. n /\ a + 1 < b + 1
      BY <1>0, <2>2
    <3> QED BY <1>3, <1>5, <3>1
  <2> QED BY <1>2, <2>1, <2>2 DEF Layered
<1> PICK rest : rest = FlattenSeq(T)
  OBVIOUS
<1>7. /\ rest \in Seq(Int) /\ Before(rest, Less)
      /\ \A x : Contains(rest, x) <=> Gathered(T, n - 1, x)
  <2>1. T \in Seq(Seq(Int)) /\ Len(T) = n - 1
    BY <1>2
  <2> QED BY <1>6, <2>1, FlattenIs
<1>8. \A x : Contains(rest, x) <=> \E i \in 2 .. n : Contains(S[i], x)
  <2> SUFFICES ASSUME NEW x PROVE Gathered(T, n - 1, x) <=> \E i \in 2 .. n : Contains(S[i], x)
    BY <1>7
  <2>1. ASSUME Gathered(T, n - 1, x) PROVE \E i \in 2 .. n : Contains(S[i], x)
    BY <1>3, <2>1 DEF Gathered
  <2>2. ASSUME NEW i \in 2 .. n, Contains(S[i], x) PROVE Gathered(T, n - 1, x)
    BY <1>4, <2>2 DEF Gathered
  <2> QED BY <2>1, <2>2
<1> PICK first \in Seq(Int) : first = S[1]
  BY <1>0, <1>1
<1> PICK t \in Seq(Int) : t = first \o rest
  BY <1>7, JoinIs
<1>9. \A x : Contains(t, x) <=> Contains(first, x) \/ Contains(rest, x)
  BY <1>7, JoinIs
<1>10. Before(t, Less)
  <2>1. Before(first, Less)
    BY <1>0, <1>5
  <2>2. Precedes(first, rest, Less)
    <3> SUFFICES ASSUME NEW x, NEW y, Contains(first, x), Contains(rest, y) PROVE <<x, y>> \in Less
      BY DEF Precedes
    <3>1. PICK i \in 2 .. n : Contains(S[i], y)
      BY <1>8
    <3>2. 1 \in 1 .. n /\ i \in 1 .. n /\ 1 < i
      OBVIOUS
    <3>3. Precedes(S[1], S[i], Less)
      BY <1>5, <3>2
    <3> QED BY <3>1, <3>3 DEF Precedes
  <2> QED BY <1>7, <2>1, <2>2, JoinIs
<1> PICK s : s = FlattenSeq(S)
  OBVIOUS
<1>11. s \in Seq(Int) /\ Before(s, Less) /\ \A x : Contains(s, x) <=> Gathered(S, n, x)
  BY FlattenIs
<1>12. \A x : Contains(s, x) <=> Contains(t, x)
  <2>1. \A x : Gathered(S, n, x) <=> Contains(first, x) \/ \E i \in 2 .. n : Contains(S[i], x)
    <3>1. \A i : i \in 1 .. n <=> i = 1 \/ i \in 2 .. n
      BY <1>0
    <3> QED BY <3>1 DEF Gathered
  <2> QED BY <1>8, <1>9, <1>11, <2>1
<1>13. s = t
  <2>1. \A x, y : ~(<<x, y>> \in Less /\ <<y, x>> \in Less)
    BY LessIs
  <2> QED BY <1>10, <1>11, <1>12, <2>1, SameOrder
<1> QED BY <1>7, <1>8, <1>13

(* Some leaves, in the order of the keys that belong to them. *)
InPlaces(q, R) ==
  /\ q \in Seq(Nodes)
  /\ \A i \in 1 .. Len(q) : node[q[i]].is_leaf
  /\ \A i, j \in 1 .. Len(q) : i < j => \A a \in R[q[i]], b \in R[q[j]] : a < b

(* Their keys increase. *)
LEMMA RunInOrder ==
  ASSUME NEW h, NEW R, Shape(h, R), NEW q, InPlaces(q, R),
         NEW S, S = [i \in 1 .. Len(q) |-> node[q[i]].keys]
  PROVE  /\ S \in Seq(Seq(Int)) /\ Len(S) = Len(q) /\ Layered(S, Less)
         /\ \A i \in 1 .. Len(q) : S[i] = node[q[i]].keys
<1> PICK m \in Nat : m = Len(q)
  BY DEF InPlaces
<1>0. Types /\ \A n \in Nodes : node[n] \in NodeType
  BY NodesAre DEF Shape
<1>3. /\ \A i \in 1 .. m : q[i] \in Nodes /\ node[q[i]].is_leaf
      /\ \A i, j \in 1 .. m : i < j => \A a \in R[q[i]], b \in R[q[j]] : a < b
  BY ElementOf DEF InPlaces
<1>5. \A i \in 1 .. m : S[i] = node[q[i]].keys /\ S[i] \in Seq(Int)
  BY <1>0, <1>3 DEF NodeType
<1>6. S \in Seq(Seq(Int)) /\ Len(S) = m
  <2> PICK X : X = Seq(Int)
    OBVIOUS
  <2>1. S = [i \in 1 .. m |-> S[i]]
    OBVIOUS
  <2>2. S \in Seq(X) /\ Len(S) = m
    BY <1>5, <2>1
  <2> QED BY <2>2
<1>8. ASSUME NEW i \in 1 .. m
      PROVE  /\ Increasing(S[i])
             /\ \A a : Contains(S[i], a) => a \in Int /\ a \in R[q[i]]
  <2>1. /\ Increasing(node[q[i]].keys)
        /\ \A a \in 1 .. Len(node[q[i]].keys) : node[q[i]].keys[a] \in R[q[i]]
    BY <1>0, <1>3 DEF Shape, Leaves
  <2>2. \A a : Contains(S[i], a) => a \in R[q[i]]
    BY <1>5, <2>1 DEF Contains
  <2>3. R[q[i]] \subseteq Int
    BY <1>0, <1>3, ApartIs
  <2> QED BY <1>5, <2>1, <2>2, <2>3
<1>9. Layered(S, Less)
  <2>1. ASSUME NEW i \in 1 .. m PROVE Before(S[i], Less)
    BY <1>5, <1>8, IncreasingIs
  <2>2. ASSUME NEW i \in 1 .. m, NEW j \in 1 .. m, i < j PROVE Precedes(S[i], S[j], Less)
    <3> SUFFICES ASSUME NEW a, NEW b, Contains(S[i], a), Contains(S[j], b)
                 PROVE  <<a, b>> \in Less
      BY DEF Precedes
    <3>1. a \in Int /\ b \in Int /\ a \in R[q[i]] /\ b \in R[q[j]]
      BY <1>8
    <3>2. a < b
      BY <1>3, <2>2, <3>1
    <3> QED BY LessIs, <3>1, <3>2
  <2> QED BY <1>6, <2>1, <2>2 DEF Layered
<1> QED BY <1>5, <1>6, <1>9

(* What is read in leaf n and behind it: its own keys, and then greater    *)
(* ones than key, for the leaf n where key has its place.                  *)
LEMMA ReadsFrom ==
  ASSUME NEW h, NEW R, Intact(h, R), NEW key \in Int,
         NEW n \in Nodes, node[n].is_leaf, key \in R[n]
  PROVE  \E rest \in Seq(Int) :
           /\ node[n].keys \in Seq(Int)
           /\ KeysAfter(n) = node[n].keys \o rest
           /\ Increasing(node[n].keys \o rest)
           /\ \A x : Contains(rest, x) => x > key
           /\ \A x : Contains(node[n].keys \o rest, x) =>
                \E m \in Nodes : node[m].is_leaf /\ Contains(node[m].keys, x)
           /\ \A m \in Nodes : node[m].is_leaf =>
                \A x : Contains(node[m].keys, x) /\ x >= key => Contains(node[n].keys \o rest, x)
<1>0. /\ Shape(h, R) /\ Sound(h, Nodes) /\ Null \notin Nodes
      /\ \A m \in Nodes : node[m] \in NodeType /\ R[m] \subseteq Int
  BY SoundIs, ApartIs DEF Intact
<1>1. PICK c : Listed(c, R)
  BY <1>0 DEF Shape, Linked
<1> PICK k \in Nat : k = Len(c)
  BY <1>1 DEF Listed
<1>2. /\ c \in Seq(Nodes)
      /\ \A m \in Nodes : node[m].is_leaf => \E i \in 1 .. k : c[i] = m
      /\ \A i \in 1 .. k : c[i] \in Nodes /\ node[c[i]].is_leaf
      /\ \A i, j \in 1 .. k : i < j => \A a \in R[c[i]], b \in R[c[j]] : a < b
  BY <1>1, ElementOf DEF Listed
<1> PICK p \in 1 .. k : c[p] = n
  BY <1>2
<1> PICK m \in Nat : m = k + 1 - p /\ m >= 1
  <2>1. k + 1 - p \in Nat /\ k + 1 - p >= 1
    OBVIOUS
  <2> QED BY <2>1
<1> PICK q : q = SubSeq(c, p, k)
  OBVIOUS
<1>3. /\ q \in Seq(Nodes) /\ Len(q) = m
      /\ \A i \in 1 .. m : q[i] = c[p + i - 1]
  <2>1. p \in 1 .. Len(c) + 1 /\ k <= Len(c) /\ p <= k + 1
    OBVIOUS
  <2> QED BY <1>2, <2>1, SubSeqIs
<1>4. \A i \in 1 .. m : p + i - 1 \in 1 .. k
  OBVIOUS
<1>5. Chain(n) = q
  BY <1>0, <1>1, ChainIs
<1>6. InPlaces(q, R)
  <2>1. \A i \in 1 .. m : node[q[i]].is_leaf
    BY <1>2, <1>3, <1>4
  <2>2. ASSUME NEW i \in 1 .. m, NEW j \in 1 .. m, i < j
        PROVE  \A a \in R[q[i]], b \in R[q[j]] : a < b
    <3>1. PICK x \in 1 .. k : x = p + i - 1 /\ q[i] = c[x]
      BY <1>3, <1>4
    <3>2. PICK y \in 1 .. k : y = p + j - 1 /\ q[j] = c[y]
      BY <1>3, <1>4
    <3>3. x < y
      BY <2>2, <3>1, <3>2
    <3> QED BY <1>2, <3>1, <3>2, <3>3
  <2>3. q \in Seq(Nodes) /\ Len(q) = m
    BY <1>3
  <2>4. \A i, j \in 1 .. m : i < j => \A a \in R[q[i]], b \in R[q[j]] : a < b
    BY <2>2, Zenon
  <2>5. \A i, j \in 1 .. Len(q) : i < j => \A a \in R[q[i]], b \in R[q[j]] : a < b
    BY <2>3, <2>4, Zenon
  <2> QED BY <2>1, <2>3, <2>5, Zenon DEF InPlaces
<1> PICK S : S = [i \in 1 .. Len(q) |-> node[q[i]].keys]
  OBVIOUS
<1>7. /\ S \in Seq(Seq(Int)) /\ Len(S) = m /\ Layered(S, Less)
      /\ \A i \in 1 .. m : S[i] = node[q[i]].keys
  BY <1>0, <1>3, <1>6, RunInOrder
<1>8. KeysAfter(n) = FlattenSeq(S)
  BY <1>5 DEF KeysAfter, Concat
<1>9. 1 \in 1 .. m /\ q[1] = n
  <2>1. 1 \in 1 .. m /\ p + 1 - 1 = p
    OBVIOUS
  <2> QED BY <1>3, <2>1
<1> PICK first \in Seq(Int) : first = node[n].keys
  BY <1>0 DEF NodeType
<1>10. PICK rest \in Seq(Int) :
         /\ FlattenSeq(S) = S[1] \o rest
         /\ \A x : Contains(rest, x) <=> \E i \in 2 .. Len(S) : Contains(S[i], x)
  <2>1. S \in Seq(Seq(Int)) /\ Len(S) >= 1 /\ Layered(S, Less)
    BY <1>7
  <2> QED BY <2>1, FirstComesFirst
<1> PICK all \in Seq(Int) : all = first \o rest
  BY JoinIs
<1>11. FlattenSeq(S) = all
  BY <1>7, <1>9, <1>10
<1>12. Before(all, Less) /\ \A x : Contains(all, x) <=> Gathered(S, m, x)
  BY <1>7, <1>11, FlattenIs
<1>13. Increasing(all)
  BY <1>12, IncreasingIs
<1>14. ASSUME NEW i \in 1 .. m, NEW x, Contains(S[i], x) PROVE x \in Int /\ x \in R[q[i]]
  <2>1. q[i] \in Nodes /\ node[q[i]].is_leaf
    BY <1>2, <1>3, <1>4
  <2>2. /\ node[q[i]].keys \in Seq(Int)
        /\ \A a \in 1 .. Len(node[q[i]].keys) : node[q[i]].keys[a] \in R[q[i]]
    BY <1>0, <2>1 DEF Shape, Leaves, NodeType
  <2>3. x \in R[q[i]]
    <3>1. Contains(node[q[i]].keys, x)
      BY <1>7, <1>14
    <3> QED BY <2>2, <3>1, Zenon DEF Contains
  <2> QED BY <1>0, <2>1, <2>3
<1>15. ASSUME NEW x, Contains(rest, x) PROVE x > key
  <2>1. PICK i \in 2 .. m : Contains(S[i], x)
    BY <1>7, <1>10, <1>15
  <2>2. i \in 1 .. m /\ 1 < i
    OBVIOUS
  <2>3. x \in Int /\ x \in R[q[i]]
    BY <1>14, <2>1, <2>2
  <2>4. \A a \in R[q[1]], b \in R[q[i]] : a < b
    BY <1>3, <1>6, <1>9, <2>2 DEF InPlaces
  <2>5. key < x
    BY <1>9, <2>3, <2>4
  <2> QED BY <2>3, <2>5
<1>16. ASSUME NEW x, Contains(all, x)
       PROVE  \E l \in Nodes : node[l].is_leaf /\ Contains(node[l].keys, x)
  <2>1. PICK i \in 1 .. m : Contains(S[i], x)
    BY <1>12, <1>16 DEF Gathered
  <2>2. q[i] \in Nodes /\ node[q[i]].is_leaf
    BY <1>2, <1>3, <1>4
  <2> QED BY <1>7, <2>1, <2>2
<1>17. ASSUME NEW l \in Nodes, node[l].is_leaf, NEW x, Contains(node[l].keys, x), x >= key
       PROVE  Contains(all, x)
  <2>1. PICK j \in 1 .. k : c[j] = l
    BY <1>2, <1>17
  <2>2. x \in R[l] /\ x \in Int
    <3>1. /\ node[l].keys \in Seq(Int)
          /\ \A a \in 1 .. Len(node[l].keys) : node[l].keys[a] \in R[l]
      BY <1>0, <1>17 DEF Shape, Leaves, NodeType
    <3>2. x \in R[l]
      BY <1>17, <3>1 DEF Contains
    <3> QED BY <1>0, <3>2
  <2>3. ~(j < p)
    <3> SUFFICES ASSUME j < p PROVE FALSE
      OBVIOUS
    <3>1. x < key
      BY <1>2, <2>1, <2>2
    <3> QED BY <1>17, <2>2, <3>1
  <2>4. PICK i \in 1 .. m : i = j + 1 - p
    <3>1. j + 1 - p \in 1 .. m
      BY <2>3
    <3> QED BY <3>1
  <2>5. p + i - 1 = j
    BY <2>4
  <2>6. Contains(S[i], x)
    BY <1>3, <1>7, <1>17, <2>1, <2>5
  <2> QED BY <1>12, <2>6 DEF Gathered
<1> QED BY <1>8, <1>11, <1>13, <1>15, <1>16, <1>17

(* The same for all the leaves. *)
LEMMA ReadsAll ==
  ASSUME NEW h, NEW R, Intact(h, R)
  PROVE  /\ KeysAfter(LeftmostLeaf) \in Seq(Int)
         /\ Increasing(KeysAfter(LeftmostLeaf))
         /\ \A x : Contains(KeysAfter(LeftmostLeaf), x) <=>
                     \E m \in Nodes : node[m].is_leaf /\ Contains(node[m].keys, x)
<1>0. Shape(h, R)
  BY DEF Intact
<1>1. PICK c : Listed(c, R)
  BY <1>0 DEF Shape, Linked
<1>2. Chain(LeftmostLeaf) = c
  BY <1>1, ChainOfLeaves
<1>3. InPlaces(c, R)
  BY <1>1 DEF Listed, InPlaces
<1> PICK S : S = [i \in 1 .. Len(c) |-> node[c[i]].keys]
  OBVIOUS
<1>4. /\ S \in Seq(Seq(Int)) /\ Len(S) = Len(c) /\ Layered(S, Less)
      /\ \A i \in 1 .. Len(c) : S[i] = node[c[i]].keys
  BY <1>0, <1>3, RunInOrder
<1> PICK ks : ks = FlattenSeq(S)
  OBVIOUS
<1>5. KeysAfter(LeftmostLeaf) = ks
  BY <1>2 DEF KeysAfter, Concat
<1>6. ks \in Seq(Int) /\ Before(ks, Less) /\ \A x : Contains(ks, x) <=> Gathered(S, Len(S), x)
  BY <1>4, FlattenIs
<1>7. \A i \in 1 .. Len(c) : c[i] \in Nodes /\ node[c[i]].is_leaf
  BY <1>1, ElementOf DEF Listed
<1>8. ASSUME NEW x
      PROVE  Gathered(S, Len(S), x) <=> \E m \in Nodes : node[m].is_leaf /\ Contains(node[m].keys, x)
  <2>1. ASSUME Gathered(S, Len(S), x)
        PROVE  \E m \in Nodes : node[m].is_leaf /\ Contains(node[m].keys, x)
    BY <1>4, <1>7, <2>1 DEF Gathered
  <2>2. ASSUME NEW m \in Nodes, node[m].is_leaf, Contains(node[m].keys, x)
        PROVE  Gathered(S, Len(S), x)
    <3>1. PICK i \in 1 .. Len(c) : c[i] = m
      BY <1>1, <2>2 DEF Listed
    <3> QED BY <1>4, <2>2, <3>1 DEF Gathered
  <2> QED BY <2>1, <2>2
<1>9. Increasing(ks)
  BY <1>6, IncreasingIs
<1> QED BY <1>5, <1>6, <1>8, <1>9

(* Where every value is its key, the scans read the same of both. *)
LEMMA ReadsMirror ==
  ASSUME NEW h, NEW R, Intact(h, R), NEW I, Entries = {<<i, i>> : i \in I}
  PROVE  /\ \A n : n = Null \/ (n \in Nodes /\ node[n].is_leaf) => ValuesAfter(n) = KeysAfter(n)
         /\ \A x : x \in I <=> \E m \in Nodes : node[m].is_leaf /\ Contains(node[m].keys, x)
<1>0. Shape(h, R) /\ Sound(h, Nodes)
  BY DEF Intact
<1>1. ASSUME NEW m \in Nodes, node[m].is_leaf
      PROVE  /\ node[m].values = node[m].keys
             /\ \A x : Contains(node[m].keys, x) => x \in I
  <2>1. /\ node[m].keys \in Seq(Int) /\ node[m].values \in Seq(Values)
        /\ DOMAIN node[m].keys = 1 .. Len(node[m].keys)
        /\ Len(node[m].values) = Len(node[m].keys)
    BY <1>0, <1>1, LeafEntry
  <2>2. \A i \in 1 .. Len(node[m].keys) : <<node[m].keys[i], node[m].values[i]>> \in Entries
    BY <1>1, <2>1, EntriesAre
  <2>3. \A a, b : <<a, b>> \in Entries => a = b /\ a \in I
    OBVIOUS
  <2>4. \A i \in 1 .. Len(node[m].keys) : node[m].keys[i] = node[m].values[i] /\ node[m].keys[i] \in I
    BY <2>2, <2>3, Zenon
  <2> PICK k \in Nat : k = Len(node[m].keys)
    BY <2>1
  <2> PICK ks \in Seq(Int) : ks = node[m].keys
    BY <2>1
  <2> PICK vs \in Seq(Values) : vs = node[m].values
    BY <2>1
  <2>5. /\ ks = [i \in 1 .. k |-> ks[i]] /\ vs = [i \in 1 .. k |-> vs[i]]
        /\ \A i \in 1 .. k : ks[i] = vs[i]
    BY <2>1, <2>4
  <2>6. node[m].values = node[m].keys
    BY <2>5
  <2> QED BY <2>4, <2>6 DEF Contains
<1>2. ASSUME NEW x \in I
      PROVE  \E m \in Nodes : node[m].is_leaf /\ Contains(node[m].keys, x)
  <2>1. <<x, x>> \in Entries
    OBVIOUS
  <2>2. PICK m \in Nodes : /\ node[m].is_leaf
                          /\ \E i \in DOMAIN node[m].keys : x = node[m].keys[i] /\ x = node[m].values[i]
    BY <2>1, EntriesAre
  <2>3. DOMAIN node[m].keys = 1 .. Len(node[m].keys)
    BY <1>0, <2>2, LeafEntry
  <2> QED BY <2>2, <2>3 DEF Contains
<1>3. ASSUME NEW n, n = Null \/ (n \in Nodes /\ node[n].is_leaf)
      PROVE  ValuesAfter(n) = KeysAfter(n)
  <2> PICK c : c = Chain(n)
    OBVIOUS
  <2>1. \A i \in 1 .. Len(c) : c[i] \in Nodes /\ node[c[i]].is_leaf
    BY <1>0, <1>3, RunIs
  <2>2. [i \in 1 .. Len(c) |-> node[c[i]].values] = [i \in 1 .. Len(c) |-> node[c[i]].keys]
    BY <1>1, <2>1
  <2> QED BY <2>2 DEF KeysAfter, ValuesAfter, Concat
<1> QED BY <1>1, <1>2, <1>3

-----------------------------------------------------------------------------
(* The scans of table.c, in a tree that has lost no node.                  *)

LEMMA ScanAll ==
  ASSUME NEW I, I \subseteq Int, Holding({<<i, i>> : i \in I}), Idle, DestroyFreesAll
  PROVE  /\ KeysAfter(LeftmostLeaf) \in Seq(Int)
         /\ ValuesAfter(LeftmostLeaf) = KeysAfter(LeftmostLeaf)
         /\ Increasing(KeysAfter(LeftmostLeaf))
         /\ \A x : Contains(KeysAfter(LeftmostLeaf), x) <=> x \in I
<1> PICK S : S = {<<i, i>> : i \in I}
  OBVIOUS
<1>1. SoundTree /\ TreeInv /\ Entries = {<<i, i>> : i \in I}
  BY HeldAll
<1>2. PICK h, R : Intact(h, R)
  BY <1>1, IntactTree
<1>3. LeftmostLeaf = Null \/ (LeftmostLeaf \in Nodes /\ node[LeftmostLeaf].is_leaf)
  BY <1>2, LeftmostReached DEF Intact
<1>4. /\ \A n : n = Null \/ (n \in Nodes /\ node[n].is_leaf) => ValuesAfter(n) = KeysAfter(n)
      /\ \A x : x \in I <=> \E m \in Nodes : node[m].is_leaf /\ Contains(node[m].keys, x)
  BY <1>1, <1>2, ReadsMirror
<1> QED BY <1>2, <1>3, <1>4, ReadsAll

(* From the leaf where key has its place on: the keys of the leaf itself,  *)
(* and the rest of the keys that are greater than key.                     *)
LEMMA ScanFrom ==
  ASSUME NEW I, I \subseteq Int, Holding({<<i, i>> : i \in I}), Idle, DestroyFreesAll, NEW key \in Int
  PROVE  \E first, rest \in Seq(Int) :
           /\ first = IF bptree_find_leaf(key) = Null THEN <<>> ELSE node[bptree_find_leaf(key)].keys
           /\ KeysAfter(bptree_find_leaf(key)) = first \o rest
           /\ ValuesAfter(bptree_find_leaf(key)) = first \o rest
           /\ Increasing(first \o rest)
           /\ \A x : Contains(rest, x) => x > key
           /\ \A x : Contains(first \o rest, x) => x \in I
           /\ \A x \in I : x >= key => Contains(first \o rest, x)
<1> PICK leaf : leaf = bptree_find_leaf(key)
  OBVIOUS
<1>1. SoundTree /\ TreeInv /\ Entries = {<<i, i>> : i \in I}
  BY HeldAll
<1>2. PICK h, R : Intact(h, R)
  BY <1>1, IntactTree
<1>0. Shape(h, R) /\ Sound(h, Nodes) /\ Null \notin Nodes
  BY <1>2, SoundIs DEF Intact
<1>4. /\ \A n : n = Null \/ (n \in Nodes /\ node[n].is_leaf) => ValuesAfter(n) = KeysAfter(n)
      /\ \A x : x \in I <=> \E m \in Nodes : node[m].is_leaf /\ Contains(node[m].keys, x)
  BY <1>1, <1>2, ReadsMirror
<1>5. CASE root = Null
  <2>1. leaf = Null
    BY <1>0, <1>5, LeafReached
  <2>2. Chain(leaf) = <<>>
    BY <1>0, <2>1, RunIs
  <2>3. KeysAfter(leaf) = <<>>
    BY <2>2 DEF KeysAfter, Concat, FlattenSeq
  <2>4. ValuesAfter(leaf) = <<>>
    BY <1>4, <2>1, <2>3
  <2>5. Nodes = {}
    BY <1>0, <1>5 DEF Shape, Types, Nodes
  <2>6. I = {}
    BY <1>4, <2>5
  <2>7. <<>> \in Seq(Int) /\ <<>> \o <<>> = <<>> /\ Len(<<>>) = 0
    OBVIOUS
  <2>8. Increasing(<<>>) /\ \A x : ~Contains(<<>>, x)
    BY <2>7 DEF Increasing, Contains
  <2> QED BY <2>1, <2>3, <2>4, <2>6, <2>7, <2>8
<1>6. CASE root # Null
  <2>1. leaf \in Nodes /\ node[leaf].is_leaf /\ key \in R[leaf]
    BY <1>0, <1>6, LeafFound
  <2>2. PICK rest \in Seq(Int) :
           /\ node[leaf].keys \in Seq(Int)
           /\ KeysAfter(leaf) = node[leaf].keys \o rest
           /\ Increasing(node[leaf].keys \o rest)
           /\ \A x : Contains(rest, x) => x > key
           /\ \A x : Contains(node[leaf].keys \o rest, x) =>
                \E m \in Nodes : node[m].is_leaf /\ Contains(node[m].keys, x)
           /\ \A m \in Nodes : node[m].is_leaf =>
                \A x : Contains(node[m].keys, x) /\ x >= key => Contains(node[leaf].keys \o rest, x)
    BY <1>2, <2>1, ReadsFrom
  <2> PICK first \in Seq(Int) : first = node[leaf].keys
    BY <2>2
  <2>3. leaf # Null /\ ValuesAfter(leaf) = first \o rest
    BY <1>0, <1>4, <2>1, <2>2
  <2>4. \A x \in I : x >= key => Contains(first \o rest, x)
    BY <1>4, <2>2
  <2>5. \A x : Contains(first \o rest, x) => x \in I
    BY <1>4, <2>2
  <2> QED BY <2>2, <2>3, <2>4, <2>5
<1> QED BY <1>5, <1>6

LEMMA SearchHeld ==
  ASSUME NEW I, I \subseteq Int, Holding({<<i, i>> : i \in I}), Idle, DestroyFreesAll, NEW key \in Int
  PROVE  bptree_search(key) = IF key \in I THEN key ELSE Nothing
<1>1. TreeInv /\ Entries = {<<i, i>> : i \in I}
  BY HeldAll
<1>2. PICK h, R : Shape(h, R)
  BY <1>1 DEF TreeInv
<1>3. \A a, b : <<a, b>> \in Entries => a = b /\ a \in I
  BY <1>1
<1>4. CASE /\ bptree_search(key) = Nothing
           /\ \A n \in Nodes : node[n].is_leaf => \A i \in DOMAIN node[n].keys : node[n].keys[i] # key
  <2>1. <<key, key>> \notin Entries
    BY <1>4, EntriesAre
  <2>2. key \notin I
    BY <1>1, <2>1
  <2> QED BY <1>4, <2>2
<1>5. CASE \E n \in Nodes : /\ node[n].is_leaf
                            /\ \E i \in DOMAIN node[n].keys : /\ node[n].keys[i] = key
                                                              /\ bptree_search(key) = node[n].values[i]
  <2>1. <<key, bptree_search(key)>> \in Entries
    BY <1>5, EntriesAre
  <2>2. bptree_search(key) = key /\ key \in I
    BY <1>3, <2>1
  <2> QED BY <2>2
<1> QED BY <1>2, <1>4, <1>5, SearchIs

=============================================================================
