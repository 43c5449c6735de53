--------------------------- MODULE BPTree_proofs ---------------------------
(***************************************************************************)
(* Proofs about the B+ tree, for every order from 3 on and every set of    *)
(* keys: a search finds exactly what was inserted, and the tree implements *)
(* the unique index.                                                       *)
(***************************************************************************)
EXTENDS BPTree, WellFoundedInduction, TLAPS

NodeType == [is_leaf : BOOLEAN, keys : Seq(Int), values : Seq(Values),
             children : Seq(Nat), parent : Nat, next : Nat]

Promotions == [left : Nat, key : Int, right : Nat]

(* The right half of a split, which has no parent yet. *)
Orphan(n) == ~Idle /\ n = promotion.right

(* The keys that belong to n or, while a split is under way, to the node   *)
(* that has been split and its right half together.                        *)
Covered(R, n) == IF ~Idle /\ n = promotion.left THEN R[n] \union R[promotion.right] ELSE R[n]

(* The keys of a node that belong to its i-th child. *)
Slot(nd, r, i) ==
  {k \in r : (i > 1 => k >= nd.keys[i - 1]) /\ (i <= Len(nd.keys) => k < nd.keys[i])}

Increasing(ks) == \A i, j \in 1 .. Len(ks) : i < j => ks[i] < ks[j]
Ascending(ks) == \A i, j \in 1 .. Len(ks) : i < j => ks[i] <= ks[j]

Types ==
  /\ node \in Seq(NodeType)
  /\ root \in Nat
  /\ IF root = Null THEN node = <<>> ELSE root \in Nodes
  /\ promotion \in Promotions \union {Nothing}
  /\ returned \in {0, 1, 2}
  /\ Idle <=> returned # 2

(* h[n]: how far node n is above the leaves. *)
Heights(h) ==
  /\ h \in [Nodes -> Nat]
  /\ \A n \in Nodes : (node[n].is_leaf <=> h[n] = 0) /\ h[n] <= h[root]

(* R[n]: the keys whose place is below node n. *)
Places(h, R) ==
  /\ R \in [Nodes -> SUBSET Int]
  /\ \A n \in Nodes : R[n] # {}
  /\ root # Null => Covered(R, root) = Int
  /\ \A n, m \in Nodes : n # m /\ h[n] = h[m] => R[n] \intersect R[m] = {}

Leaves(R) ==
  \A n \in Nodes : node[n].is_leaf =>
    /\ Len(node[n].values) = Len(node[n].keys)
    /\ Len(node[n].keys) <= MaxKeys
    /\ Increasing(node[n].keys)
    /\ \A i \in 1 .. Len(node[n].keys) : node[n].keys[i] \in R[n]

(* c lists the leaves, each of them once, as the next pointers link them,  *)
(* in the order of the keys that belong to them.                           *)
Listed(c, R) ==
  /\ c \in Seq(Nodes)
  /\ \A n \in Nodes : node[n].is_leaf => \E i \in 1 .. Len(c) : c[i] = n
  /\ \A i \in 1 .. Len(c) :
       /\ node[c[i]].is_leaf
       /\ node[c[i]].next = IF i < Len(c) THEN c[i + 1] ELSE Null
  /\ \A i, j \in 1 .. Len(c) :
       i < j => c[i] # c[j] /\ \A a \in R[c[i]], b \in R[c[j]] : a < b

Linked(R) == \E c : Listed(c, R)

(* The i-th child of n is one level lower and covers its slot. *)
Child(h, R, n, i) ==
  LET c == node[n].children[i]
  IN  /\ c \in Nodes /\ ~Orphan(c)
      /\ node[c].parent = n
      /\ h[n] = h[c] + 1
      /\ Covered(R, c) = Slot(node[n], R[n], i)

InnerNode(h, R, n) ==
  /\ Len(node[n].children) = Len(node[n].keys) + 1
  /\ Len(node[n].keys) <= MaxKeys
  /\ Ascending(node[n].keys)
  /\ \A i \in 1 .. Len(node[n].children) : Child(h, R, n, i)
  /\ \A i, j \in 1 .. Len(node[n].children) : node[n].children[i] = node[n].children[j] => i = j

Inner(h, R) == \A n \in Nodes : ~node[n].is_leaf => InnerNode(h, R, n)

(* The parent pointer of n leads to the node whose child n is. *)
ParentOf(n) ==
  LET p == node[n].parent
  IN  IF n = root THEN p = Null
      ELSE /\ p \in Nodes /\ ~node[p].is_leaf
           /\ \E i \in 1 .. Len(node[p].children) : node[p].children[i] = n

Parents == \A n \in Nodes : ~Orphan(n) => ParentOf(n)

(* The two halves of a split. *)
Halves(h, R) ==
  ~Idle =>
    LET l == promotion.left
        r == promotion.right
    IN  /\ l \in Nodes /\ r \in Nodes /\ l # r /\ r # root
        /\ h[l] = h[r]
        /\ \A k \in R[l] : k < promotion.key
        /\ \A k \in R[r] : k >= promotion.key

Shape(h, R) ==
  /\ Types /\ Heights(h) /\ Places(h, R) /\ Leaves(R) /\ Linked(R)
  /\ Inner(h, R) /\ Parents /\ Halves(h, R)

TreeInv == \E h, R : Shape(h, R)

-----------------------------------------------------------------------------
(* Facts about numbers and sequences.                                      *)

(* Every non-empty set of naturals has a least element. *)
LEMMA LeastNumber ==
  ASSUME NEW T, T \subseteq Nat, T # {}
  PROVE  \E x \in T : \A y \in T : x <= y
<1> DEFINE R == OpToRel(<, Nat)
<1>1. IsWellFoundedOn(R, Nat)
  BY NatLessThanWellFounded, Zenon
<1>2. R = {p \in Nat \X Nat : p[1] < p[2]}
  BY DEF OpToRel
<1> HIDE DEF R
<1>3. PICK x \in T : \A y \in T : ~(<<y, x>> \in R)
  BY <1>1, WFMin
<1>4. ASSUME NEW y \in T, y < x PROVE FALSE
  <2>1. <<y, x>> \in Nat \X Nat /\ <<y, x>>[1] = y /\ <<y, x>>[2] = x
    OBVIOUS
  <2>2. <<y, x>> \in R
    BY <1>2, <1>4, <2>1
  <2> QED BY <1>3, <2>2
<1>5. \A y \in T : x <= y
  BY <1>4
<1> QED BY <1>5

LEMMA ElementOf ==
  ASSUME NEW S, NEW s \in Seq(S), NEW i \in 1 .. Len(s)
  PROVE  s[i] \in S
OBVIOUS

(* A sequence from its elements. *)
LEMMA SubSeqIs ==
  ASSUME NEW S, NEW s \in Seq(S), NEW a \in 1 .. Len(s) + 1, NEW b \in Nat, b <= Len(s), a <= b + 1
  PROVE  /\ SubSeq(s, a, b) \in Seq(S)
         /\ Len(SubSeq(s, a, b)) = b + 1 - a
         /\ \A i \in 1 .. b + 1 - a : SubSeq(s, a, b)[i] = s[a + i - 1]
OBVIOUS

LEMMA InsertAtIs ==
  ASSUME NEW S, NEW s \in Seq(S), NEW i \in 1 .. Len(s) + 1, NEW e \in S
  PROVE  /\ InsertAt(s, i, e) \in Seq(S)
         /\ Len(InsertAt(s, i, e)) = Len(s) + 1
         /\ \A j \in 1 .. i - 1 : InsertAt(s, i, e)[j] = s[j]
         /\ InsertAt(s, i, e)[i] = e
         /\ \A j \in i + 1 .. Len(s) + 1 : InsertAt(s, i, e)[j] = s[j - 1]
<1> DEFINE A == SubSeq(s, 1, i - 1)
           B == SubSeq(s, i, Len(s))
<1>0. Len(s) \in Nat /\ i - 1 \in Nat /\ i - 1 <= Len(s)
  OBVIOUS
<1>1. /\ A \in Seq(S) /\ Len(A) = i - 1
      /\ \A j \in 1 .. i - 1 : A[j] = s[j]
  BY <1>0, SubSeqIs
<1>2. /\ B \in Seq(S) /\ Len(B) = Len(s) + 1 - i
      /\ \A j \in 1 .. Len(s) + 1 - i : B[j] = s[i + j - 1]
  BY <1>0, SubSeqIs
<1> HIDE DEF A, B
<1>3. /\ <<e>> \in Seq(S) /\ Len(<<e>>) = 1 /\ <<e>>[1] = e
  OBVIOUS
<1>4. /\ A \o <<e>> \in Seq(S) /\ Len(A \o <<e>>) = i
      /\ \A j \in 1 .. i - 1 : (A \o <<e>>)[j] = s[j]
      /\ (A \o <<e>>)[i] = e
  BY <1>0, <1>1, <1>3
<1> DEFINE AE == A \o <<e>>
<1>5. AE \in Seq(S) /\ Len(AE) = i
  BY <1>4
<1> HIDE DEF AE
<1>6. /\ AE \o B \in Seq(S) /\ Len(AE \o B) = Len(s) + 1
  BY <1>0, <1>2, <1>5
<1>7. \A j \in 1 .. i : (AE \o B)[j] = AE[j]
  BY <1>0, <1>2, <1>5
<1>8. \A j \in i + 1 .. Len(s) + 1 : (AE \o B)[j] = B[j - i]
  BY <1>0, <1>2, <1>5
<1>9. InsertAt(s, i, e) = AE \o B
  BY DEF InsertAt, AE, A, B
<1>10. ASSUME NEW j \in i + 1 .. Len(s) + 1 PROVE B[j - i] = s[j - 1]
  <2>1. j - i \in 1 .. Len(s) + 1 - i /\ i + (j - i) - 1 = j - 1
    BY <1>0
  <2> QED BY <1>2, <2>1
<1>11. \A j \in 1 .. i - 1 : AE[j] = s[j]
  BY <1>4 DEF AE
<1>12. AE[i] = e
  BY <1>4 DEF AE
<1>13. ASSUME NEW j \in 1 .. i - 1 PROVE (AE \o B)[j] = s[j]
  <2>1. j \in 1 .. i
    OBVIOUS
  <2> QED BY <1>7, <1>11, <2>1, Zenon
<1>14. (AE \o B)[i] = e
  <2>1. i \in 1 .. i
    OBVIOUS
  <2> QED BY <1>7, <1>12, <2>1, Zenon
<1>15. \A j \in i + 1 .. Len(s) + 1 : (AE \o B)[j] = s[j - 1]
  BY <1>8, <1>10
<1> QED BY <1>6, <1>9, <1>13, <1>14, <1>15

(* The longest beginning of 1 .. n without an element of B. *)
LEMMA LeadingPart ==
  ASSUME NEW n \in Nat, NEW B
  PROVE  \E i \in 0 .. n : (\A j \in 1 .. i : j \notin B) /\ (i < n => i + 1 \in B)
<1> DEFINE T == {j \in 1 .. n : j \in B}
<1>1. CASE T = {}
  <2>1. n \in 0 .. n /\ ~(n < n) /\ \A j \in 1 .. n : j \notin B
    BY <1>1
  <2> QED BY <2>1
<1>2. CASE T # {}
  <2>1. T \subseteq Nat
    OBVIOUS
  <2>2. PICK x \in T : \A y \in T : x <= y
    BY <1>2, <2>1, LeastNumber
  <2>3. x - 1 \in 0 .. n /\ (x - 1) + 1 = x /\ x \in B
    BY <2>2
  <2>4. ASSUME NEW j \in 1 .. x - 1, j \in B PROVE FALSE
    <3>1. j \in T /\ ~(x <= j)
      BY <2>2, <2>4
    <3> QED BY <2>2, <3>1
  <2> QED BY <2>3, <2>4
<1> QED BY <1>1, <1>2

(* Where bptree_find_insert_index stops. *)
LEMMA InsertIndexIs ==
  ASSUME NEW ks \in Seq(Int), NEW key \in Int
  PROVE  /\ bptree_find_insert_index(ks, key) \in 0 .. Len(ks)
         /\ \A j \in 1 .. bptree_find_insert_index(ks, key) : ks[j] < key
         /\ bptree_find_insert_index(ks, key) < Len(ks)
              => ks[bptree_find_insert_index(ks, key) + 1] >= key
<1> DEFINE P(i) == (\A j \in 1 .. i : ks[j] < key) /\ (i < Len(ks) => ks[i + 1] >= key)
           B == {j \in 1 .. Len(ks) : ks[j] >= key}
<1>0. Len(ks) \in Nat /\ \A j \in 1 .. Len(ks) : ks[j] \in Int
  BY ElementOf
<1> HIDE DEF B
<1>1. PICK i \in 0 .. Len(ks) : (\A j \in 1 .. i : j \notin B) /\ (i < Len(ks) => i + 1 \in B)
  BY <1>0, LeadingPart
<1> USE DEF B
<1>2. P(i)
  <2>1. ASSUME NEW j \in 1 .. i PROVE ks[j] < key
    <3>1. j \in 1 .. Len(ks) /\ j \notin B
      BY <1>0, <1>1
    <3> QED BY <1>0, <3>1
  <2>2. ASSUME i < Len(ks) PROVE ks[i + 1] >= key
    BY <1>1, <2>2
  <2> QED BY <2>1, <2>2
<1>3. bptree_find_insert_index(ks, key) = CHOOSE j \in 0 .. Len(ks) : P(j)
  BY DEF bptree_find_insert_index
<1> HIDE DEF P
<1>4. bptree_find_insert_index(ks, key) \in 0 .. Len(ks) /\ P(bptree_find_insert_index(ks, key))
  BY <1>2, <1>3
<1> QED BY <1>4 DEF P

(* The child that a search goes on with. *)
LEMMA ChildForIs ==
  ASSUME NEW nd \in NodeType, NEW key \in Int
  PROVE  \E i \in 0 .. Len(nd.keys) :
           /\ ChildFor(nd, key) = nd.children[1 + i]
           /\ \A j \in 1 .. i : key >= nd.keys[j]
           /\ i < Len(nd.keys) => key < nd.keys[i + 1]
<1> DEFINE ks == nd.keys
           P(i) == (\A j \in 1 .. i : key >= ks[j]) /\ (i < Len(ks) => key < ks[i + 1])
           B == {j \in 1 .. Len(ks) : key < ks[j]}
<1>0. ks \in Seq(Int)
  BY DEF NodeType
<1>1. Len(ks) \in Nat /\ \A j \in 1 .. Len(ks) : ks[j] \in Int
  BY <1>0, ElementOf
<1> HIDE DEF B
<1>2. PICK i \in 0 .. Len(ks) : (\A j \in 1 .. i : j \notin B) /\ (i < Len(ks) => i + 1 \in B)
  BY <1>1, LeadingPart
<1> USE DEF B
<1>3. P(i)
  <2>1. ASSUME NEW j \in 1 .. i PROVE key >= ks[j]
    <3>1. j \in 1 .. Len(ks) /\ j \notin B
      BY <1>1, <1>2
    <3> QED BY <1>1, <3>1
  <2>2. ASSUME i < Len(ks) PROVE key < ks[i + 1]
    BY <1>2, <2>2
  <2> QED BY <2>1, <2>2
<1>4. ChildFor(nd, key) = nd.children[1 + CHOOSE j \in 0 .. Len(ks) : P(j)]
  BY DEF ChildFor
<1> HIDE DEF P
<1>5. (CHOOSE j \in 0 .. Len(ks) : P(j)) \in 0 .. Len(ks) /\ P(CHOOSE j \in 0 .. Len(ks) : P(j))
  BY <1>3
<1> QED BY <1>4, <1>5 DEF P

(* SelectInSeq looks for the first x. *)
LEMMA PositionIs ==
  ASSUME NEW S, NEW s \in Seq(S), NEW x
  PROVE  \/ /\ SelectInSeq(s, LAMBDA y : y = x) \in 1 .. Len(s)
            /\ s[SelectInSeq(s, LAMBDA y : y = x)] = x
         \/ SelectInSeq(s, LAMBDA y : y = x) = 0 /\ \A i \in 1 .. Len(s) : s[i] # x
<1> DEFINE I == {i \in 1 .. Len(s) : s[i] = x}
<1>1. SelectInSeq(s, LAMBDA y : y = x) = IF I # {} THEN Min(I) ELSE 0
  BY DEF SelectInSeq
<1>2. CASE I = {}
  BY <1>1, <1>2
<1>3. CASE I # {}
  <2>0. I \subseteq Nat
    OBVIOUS
  <2> HIDE DEF I
  <2>1. PICK m \in I : \A y \in I : m <= y
    BY <1>3, <2>0, LeastNumber
  <2>2. Min(I) \in I
    BY <2>1 DEF Min
  <2>3. Min(I) \in 1 .. Len(s) /\ s[Min(I)] = x
    BY <2>2 DEF I
  <2> QED BY <1>1, <1>3, <2>3
<1> QED BY <1>2, <1>3

-----------------------------------------------------------------------------
(* A search ends in the leaf where the key has its place.                  *)

LEMMA NodesAre ==
  ASSUME Types
  PROVE  /\ Len(node) \in Nat /\ Nodes = 1 .. Len(node) /\ Null \notin Nodes
         /\ \A n \in Nodes : node[n] \in NodeType
BY ElementOf DEF Types, Nodes, Null

(* A child is one level below its parent, and has the keys of its slot. *)
LEMMA ChildPlace ==
  ASSUME NEW h, NEW R, Shape(h, R), Idle, NEW n \in Nodes, ~node[n].is_leaf, NEW key \in Int
  PROVE  /\ ChildFor(node[n], key) \in Nodes
         /\ h[n] = h[ChildFor(node[n], key)] + 1
         /\ key \in R[n] => key \in R[ChildFor(node[n], key)]
<1> DEFINE nd == node[n]
<1>1. nd \in NodeType
  BY NodesAre DEF Shape
<1>2. nd.keys \in Seq(Int) /\ Len(nd.keys) \in Nat
  BY <1>1 DEF NodeType
<1>3. PICK i \in 0 .. Len(nd.keys) :
        /\ ChildFor(nd, key) = nd.children[1 + i]
        /\ \A j \in 1 .. i : key >= nd.keys[j]
        /\ i < Len(nd.keys) => key < nd.keys[i + 1]
  BY <1>1, ChildForIs
<1>4. 1 + i \in 1 .. Len(nd.children)
  BY <1>2 DEF Shape, Inner, InnerNode, Child
<1>5. /\ nd.children[1 + i] \in Nodes
      /\ h[n] = h[nd.children[1 + i]] + 1
      /\ Covered(R, nd.children[1 + i]) = Slot(nd, R[n], 1 + i)
  BY <1>4 DEF Shape, Inner, InnerNode, Child
<1>6. R[nd.children[1 + i]] = Slot(nd, R[n], 1 + i)
  BY <1>5 DEF Covered
<1>7. ASSUME key \in R[n] PROVE key \in Slot(nd, R[n], 1 + i)
  <2>1. 1 + i > 1 => key >= nd.keys[(1 + i) - 1]
    <3>1. ASSUME 1 + i > 1 PROVE i \in 1 .. i /\ (1 + i) - 1 = i
      BY <3>1
    <3> QED BY <1>3, <3>1
  <2>2. 1 + i <= Len(nd.keys) => key < nd.keys[1 + i]
    <3>1. 1 + i <= Len(nd.keys) => i < Len(nd.keys) /\ i + 1 = 1 + i
      BY <1>2
    <3> QED BY <1>3, <3>1
  <2> QED BY <1>7, <2>1, <2>2 DEF Slot
<1> QED BY <1>3, <1>5, <1>6, <1>7

(* What down[n] is, in the nodes up to height L. *)
Below(h, L) == {n \in Nodes : h[n] <= L} \union {Null}
Follows(f, key, D) ==
  f = [n \in D |-> IF n = Null \/ node[n].is_leaf THEN n ELSE f[ChildFor(node[n], key)]]

(* The recursion of bptree_find_leaf comes to an end. *)
LEMMA DownExists ==
  ASSUME NEW h, NEW R, Shape(h, R), Idle, NEW key \in Int, NEW L \in Nat
  PROVE  \E f : Follows(f, key, Below(h, L))
<1>0. h \in [Nodes -> Nat] /\ \A n \in Nodes : node[n].is_leaf <=> h[n] = 0
  BY DEF Shape, Heights
<1> DEFINE T == {m \in Nat : ~\E f : Follows(f, key, Below(h, m))}
<1> SUFFICES ASSUME T # {} PROVE FALSE
  OBVIOUS
<1>1. T \subseteq Nat
  OBVIOUS
<1> HIDE DEF T
<1>2. PICK m \in T : \A y \in T : m <= y
  BY <1>1, LeastNumber
<1>3. m \in Nat /\ ~\E f : Follows(f, key, Below(h, m))
  BY <1>2 DEF T
<1>4. CASE m = 0
  <2>1. Follows([n \in Below(h, 0) |-> n], key, Below(h, 0))
    BY <1>0 DEF Follows, Below
  <2> QED BY <1>3, <1>4, <2>1
<1>5. CASE m # 0
  <2>1. m - 1 \in Nat /\ ~(m <= m - 1)
    BY <1>3, <1>5
  <2>2. m - 1 \notin T
    BY <1>2, <2>1
  <2>3. PICK f : Follows(f, key, Below(h, m - 1))
    BY <2>1, <2>2 DEF T
  <2> DEFINE D == Below(h, m - 1)
             E == Below(h, m)
             g == [n \in E |-> IF n \in D THEN f[n] ELSE f[ChildFor(node[n], key)]]
  <2>4. ASSUME NEW n \in E, n # Null, ~node[n].is_leaf
        PROVE  ChildFor(node[n], key) \in D /\ ChildFor(node[n], key) \in E
    <3>1. n \in Nodes /\ h[n] <= m /\ h[n] \in Nat
      BY <1>0, <2>4 DEF Below
    <3>2. ChildFor(node[n], key) \in Nodes /\ h[n] = h[ChildFor(node[n], key)] + 1
      BY <2>4, <3>1, ChildPlace
    <3>3. h[ChildFor(node[n], key)] \in Nat
      BY <1>0, <3>2
    <3> QED BY <1>3, <3>1, <3>2, <3>3 DEF Below
  <2>5. \A n \in E : n = Null \/ node[n].is_leaf => n \in D
    BY <1>0, <2>1 DEF Below
  <2>6. \A n \in D : n \in E
    BY <1>0, <1>3 DEF Below
  <2>7. \A n \in D : f[n] = IF n = Null \/ node[n].is_leaf THEN n ELSE f[ChildFor(node[n], key)]
    BY <2>3 DEF Follows
  <2> HIDE DEF D, E
  <2>8. ASSUME NEW n \in E
        PROVE  g[n] = IF n = Null \/ node[n].is_leaf THEN n ELSE g[ChildFor(node[n], key)]
    <3>1. CASE n = Null \/ node[n].is_leaf
      BY <2>5, <2>7, <3>1
    <3>2. CASE ~(n = Null \/ node[n].is_leaf)
      <4>1. ChildFor(node[n], key) \in D /\ ChildFor(node[n], key) \in E
        BY <2>4, <3>2
      <4>2. g[n] = f[ChildFor(node[n], key)]
        BY <2>7, <3>2
      <4>3. g[ChildFor(node[n], key)] = f[ChildFor(node[n], key)]
        BY <4>1
      <4> QED BY <3>2, <4>2, <4>3
    <3> QED BY <3>1, <3>2
  <2>9. g = [n \in E |-> IF n = Null \/ node[n].is_leaf THEN n ELSE g[ChildFor(node[n], key)]]
    BY <2>8
  <2>10. Follows(g, key, E)
    BY <2>9 DEF Follows
  <2> QED BY <1>3, <2>10 DEF E
<1> QED BY <1>4, <1>5

(* It ends in the leaf where the key has its place. *)
LEMMA DownEnds ==
  ASSUME NEW h, NEW R, Shape(h, R), Idle, NEW key \in Int,
         NEW f, Follows(f, key, Nodes \union {Null}), NEW n \in Nodes, key \in R[n]
  PROVE  f[n] \in Nodes /\ node[f[n]].is_leaf /\ key \in R[f[n]]
<1>0. h \in [Nodes -> Nat]
  BY DEF Shape, Heights
<1> DEFINE Ends(m) == f[m] \in Nodes /\ node[f[m]].is_leaf /\ key \in R[f[m]]
           B == {m \in Nodes : key \in R[m] /\ ~Ends(m)}
           T == {h[m] : m \in B}
<1> HIDE DEF Ends
<1> SUFFICES ASSUME B # {} PROVE FALSE
  BY DEF Ends
<1>1. T \subseteq Nat /\ T # {}
  BY <1>0
<1> HIDE DEF T
<1>2. PICK x \in T : \A y \in T : x <= y
  BY <1>1, LeastNumber
<1>3. PICK m \in B : x = h[m]
  BY <1>2 DEF T
<1>4. m \in Nodes /\ key \in R[m] /\ ~Ends(m) /\ m # Null
  BY <1>3, NodesAre DEF Shape
<1>5. CASE node[m].is_leaf
  <2>1. f[m] = m
    BY <1>4, <1>5 DEF Follows
  <2> QED BY <1>4, <1>5, <2>1 DEF Ends
<1>6. CASE ~node[m].is_leaf
  <2> DEFINE c == ChildFor(node[m], key)
  <2>1. c \in Nodes /\ h[m] = h[c] + 1 /\ key \in R[c]
    BY <1>4, <1>6, ChildPlace
  <2> HIDE DEF c
  <2>2. f[m] = f[c]
    BY <1>4, <1>6 DEF Follows, c
  <2>3. c \notin B
    <3>1. ASSUME c \in B PROVE FALSE
      <4>1. h[c] \in T
        BY <3>1 DEF T
      <4>2. h[c] \in Nat /\ h[m] <= h[c]
        BY <1>0, <1>2, <1>3, <2>1, <4>1
      <4> QED BY <2>1, <4>2
    <3> QED BY <3>1
  <2>4. Ends(c)
    BY <2>1, <2>3
  <2> QED BY <1>4, <2>2, <2>4 DEF Ends
<1> QED BY <1>5, <1>6

(* bptree_find_leaf returns the leaf where the key has its place. *)
LEMMA LeafFound ==
  ASSUME NEW h, NEW R, Shape(h, R), Idle, root # Null, NEW key \in Int
  PROVE  /\ bptree_find_leaf(key) \in Nodes
         /\ node[bptree_find_leaf(key)].is_leaf
         /\ key \in R[bptree_find_leaf(key)]
<1> DEFINE D == Nodes \union {Null}
           down == CHOOSE f : Follows(f, key, D)
<1>1. bptree_find_leaf(key) = down[root]
  BY DEF bptree_find_leaf, Follows
<1>2. root \in Nodes /\ h \in [Nodes -> Nat] /\ (\A n \in Nodes : h[n] <= h[root]) /\ key \in R[root]
  BY DEF Shape, Types, Heights, Places, Covered
<1>3. h[root] \in Nat /\ Below(h, h[root]) = D
  BY <1>2 DEF Below
<1>4. \E f : Follows(f, key, D)
  BY <1>3, DownExists
<1>5. Follows(down, key, D)
  BY <1>4
<1> HIDE DEF down
<1> QED BY <1>1, <1>2, <1>5, DownEnds

(* A key is in one leaf only, and nowhere twice. *)
LEMMA OneLeaf ==
  ASSUME NEW h, NEW R, Shape(h, R), NEW n \in Nodes, NEW m \in Nodes, NEW key \in Int,
         node[n].is_leaf, node[m].is_leaf, key \in R[n], key \in R[m]
  PROVE  n = m
BY DEF Shape, Heights, Places

(* The entries, one by one. *)
LEMMA EntriesAre ==
  ASSUME NEW key, NEW value
  PROVE  <<key, value>> \in Entries <=>
           \E n \in Nodes : /\ node[n].is_leaf
                            /\ \E i \in DOMAIN node[n].keys :
                                 key = node[n].keys[i] /\ value = node[n].values[i]
BY DEF Entries

(* The entries of a leaf are in the place of the leaf, and typed. *)
LEMMA LeafEntry ==
  ASSUME NEW h, NEW R, Shape(h, R), NEW n \in Nodes, node[n].is_leaf
  PROVE  /\ node[n].keys \in Seq(Int) /\ node[n].values \in Seq(Values)
         /\ DOMAIN node[n].keys = 1 .. Len(node[n].keys)
         /\ Len(node[n].values) = Len(node[n].keys)
         /\ \A i \in DOMAIN node[n].keys :
              /\ node[n].keys[i] \in Int /\ node[n].values[i] \in Values
              /\ node[n].keys[i] \in R[n]
         /\ \A i, j \in DOMAIN node[n].keys : node[n].keys[i] = node[n].keys[j] => i = j
<1>1. node[n] \in NodeType
  BY NodesAre DEF Shape
<1>2. node[n].keys \in Seq(Int) /\ node[n].values \in Seq(Values)
  BY <1>1 DEF NodeType
<1>3. /\ Len(node[n].values) = Len(node[n].keys) /\ Increasing(node[n].keys)
      /\ \A i \in 1 .. Len(node[n].keys) : node[n].keys[i] \in R[n]
  BY DEF Shape, Leaves
<1>4. DOMAIN node[n].keys = 1 .. Len(node[n].keys)
  BY <1>2
<1>5. \A i \in 1 .. Len(node[n].keys) : node[n].keys[i] \in Int
  BY <1>2, ElementOf
<1>6. \A i \in 1 .. Len(node[n].keys) : node[n].values[i] \in Values
  BY <1>2, <1>3, ElementOf
<1>7. \A i, j \in 1 .. Len(node[n].keys) : node[n].keys[i] = node[n].keys[j] => i = j
  BY <1>3, <1>5 DEF Increasing
<1> QED BY <1>2, <1>3, <1>4, <1>5, <1>6, <1>7

(* What bptree_search answers. *)
LEMMA SearchIs ==
  ASSUME NEW h, NEW R, Shape(h, R), Idle, NEW key \in Int
  PROVE  \/ /\ bptree_search(key) = Nothing
            /\ \A n \in Nodes : node[n].is_leaf => \A i \in DOMAIN node[n].keys : node[n].keys[i] # key
         \/ \E n \in Nodes : /\ node[n].is_leaf
                             /\ \E i \in DOMAIN node[n].keys : /\ node[n].keys[i] = key
                                                               /\ bptree_search(key) = node[n].values[i]
<1>1. CASE root = Null
  <2>1. Nodes = {}
    BY <1>1 DEF Shape, Types, Nodes
  <2> DEFINE down == CHOOSE f : Follows(f, key, Nodes \union {Null})
  <2>2. bptree_find_leaf(key) = down[root]
    BY DEF bptree_find_leaf, Follows
  <2>3. Below(h, 0) = Nodes \union {Null}
    BY <2>1 DEF Below
  <2>4. \E f : Follows(f, key, Nodes \union {Null})
    BY <2>3, DownExists
  <2>5. Follows(down, key, Nodes \union {Null})
    BY <2>4
  <2> HIDE DEF down
  <2>6. down[Null] = Null
    BY <2>5 DEF Follows
  <2> QED BY <1>1, <2>1, <2>2, <2>6 DEF bptree_search
<1>2. CASE root # Null
  <2> DEFINE leaf == bptree_find_leaf(key)
             ks == node[leaf].keys
             p == SelectInSeq(ks, LAMBDA k : k = key)
  <2>1. leaf \in Nodes /\ node[leaf].is_leaf /\ key \in R[leaf]
    BY <1>2, LeafFound
  <2>2. bptree_search(key) = IF p = 0 THEN Nothing ELSE node[leaf].values[p]
    BY <2>1, NodesAre DEF bptree_search, ValueIn, Shape
  <2>3. ks \in Seq(Int) /\ DOMAIN ks = 1 .. Len(ks)
    BY <2>1, LeafEntry
  <2>4. (p \in 1 .. Len(ks) /\ ks[p] = key) \/ (p = 0 /\ \A i \in 1 .. Len(ks) : ks[i] # key)
    BY <2>3, PositionIs
  <2> HIDE DEF leaf, ks, p
  <2>5. CASE p \in 1 .. Len(ks) /\ ks[p] = key
    <3>1. bptree_search(key) = node[leaf].values[p] /\ p \in DOMAIN ks
      BY <2>2, <2>3, <2>5
    <3> QED BY <2>1, <2>5, <3>1 DEF ks
  <2>6. CASE p = 0 /\ \A i \in 1 .. Len(ks) : ks[i] # key
    <3>1. ASSUME NEW n \in Nodes, node[n].is_leaf, NEW i \in DOMAIN node[n].keys,
                 node[n].keys[i] = key
          PROVE  FALSE
      <4>1. key \in R[n]
        BY <3>1, LeafEntry
      <4>2. n = leaf
        BY <2>1, <3>1, <4>1, OneLeaf
      <4> QED BY <2>3, <2>6, <3>1, <4>2 DEF ks
    <3> QED BY <2>2, <2>6, <3>1
  <2> QED BY <2>4, <2>5, <2>6
<1> QED BY <1>1, <1>2

(* In a tree of this shape a search finds exactly the entries. *)
LEMMA ShapeSearch ==
  ASSUME NEW h, NEW R, Shape(h, R)
  PROVE  SearchFindsAll
<1> SUFFICES ASSUME Idle, NEW key \in Keys
             PROVE  /\ \A value \in Values : bptree_search(key) = value <=> <<key, value>> \in Entries
                    /\ bptree_search(key) \in Values \union {Nothing}
  BY DEF SearchFindsAll
<1>0. key \in Int
  BY KeysAssumption
<1>1. CASE /\ bptree_search(key) = Nothing
           /\ \A n \in Nodes : node[n].is_leaf => \A i \in DOMAIN node[n].keys : node[n].keys[i] # key
  <2>1. \A value \in Values : <<key, value>> \notin Entries /\ bptree_search(key) # value
    BY <1>1, EntriesAre, NothingAssumption
  <2> QED BY <1>1, <2>1
<1>2. CASE \E n \in Nodes : /\ node[n].is_leaf
                            /\ \E i \in DOMAIN node[n].keys : /\ node[n].keys[i] = key
                                                              /\ bptree_search(key) = node[n].values[i]
  <2>0. PICK n \in Nodes : /\ node[n].is_leaf
                          /\ \E i \in DOMAIN node[n].keys : /\ node[n].keys[i] = key
                                                            /\ bptree_search(key) = node[n].values[i]
    BY <1>2
  <2>1. PICK i \in DOMAIN node[n].keys :
          node[n].is_leaf /\ node[n].keys[i] = key /\ bptree_search(key) = node[n].values[i]
    BY <2>0
  <2>2. node[n].values[i] \in Values /\ key \in R[n]
    BY <2>1, LeafEntry
  <2>3. <<key, node[n].values[i]>> \in Entries
    BY <2>1, EntriesAre
  <2>4. ASSUME NEW value \in Values, <<key, value>> \in Entries PROVE value = node[n].values[i]
    <3>0. PICK m \in Nodes : /\ node[m].is_leaf
                            /\ \E j \in DOMAIN node[m].keys :
                                 key = node[m].keys[j] /\ value = node[m].values[j]
      BY <2>4, EntriesAre
    <3>1. PICK j \in DOMAIN node[m].keys :
            node[m].is_leaf /\ key = node[m].keys[j] /\ value = node[m].values[j]
      BY <3>0
    <3>2. key \in R[m]
      BY <3>1, LeafEntry
    <3>3. n = m
      BY <1>0, <2>1, <2>2, <3>1, <3>2, OneLeaf
    <3>4. i = j
      BY <2>1, <3>1, <3>3, LeafEntry
    <3> QED BY <3>1, <3>3, <3>4
  <2> QED BY <2>1, <2>2, <2>3, <2>4
<1> QED BY <1>0, <1>1, <1>2, SearchIs

-----------------------------------------------------------------------------
(* One more entry in a leaf, one more child in an internal node.           *)

(* t has the entries of nd and one more. *)
Adds(nd, t, key, value) ==
  LET n == Len(nd.keys)
  IN  /\ t \in NodeType /\ Len(t.keys) = n + 1
      /\ \E i \in 1 .. n + 1 : t.keys[i] = key /\ t.values[i] = value
      /\ \A i \in 1 .. n :
           \E j \in 1 .. n + 1 : t.keys[j] = nd.keys[i] /\ t.values[j] = nd.values[i]
      /\ \A j \in 1 .. n + 1 :
           \/ t.keys[j] = key /\ t.values[j] = value
           \/ \E i \in 1 .. n : t.keys[j] = nd.keys[i] /\ t.values[j] = nd.values[i]

LEMMA WithEntryIs ==
  ASSUME NEW nd \in NodeType, Len(nd.values) = Len(nd.keys), Increasing(nd.keys),
         NEW key \in Int, NEW value \in Values, ~Contains(nd.keys, key)
  PROVE  LET t == WithEntry(nd, key, value)
             n == Len(nd.keys)
         IN  /\ t \in NodeType
             /\ t.is_leaf = nd.is_leaf /\ t.children = nd.children
             /\ t.parent = nd.parent /\ t.next = nd.next
             /\ Len(t.keys) = n + 1 /\ Len(t.values) = n + 1
             /\ Increasing(t.keys)
             /\ Adds(nd, t, key, value)
<1> DEFINE t == WithEntry(nd, key, value)
           n == Len(nd.keys)
           m == bptree_find_insert_index(nd.keys, key)
           i == m + 1
<1>1. nd.keys \in Seq(Int) /\ nd.values \in Seq(Values) /\ n \in Nat
  BY DEF NodeType
<1>2. /\ m \in 0 .. n
      /\ \A j \in 1 .. m : nd.keys[j] < key
      /\ m < n => nd.keys[m + 1] >= key
  BY <1>1, InsertIndexIs
<1> HIDE DEF m
<1>3. i \in 1 .. n + 1
  BY <1>1, <1>2
<1>4. t = [nd EXCEPT !.keys = InsertAt(nd.keys, i, key), !.values = InsertAt(nd.values, i, value)]
  BY DEF WithEntry, m
<1> HIDE DEF t, i, n
<1>5. /\ InsertAt(nd.keys, i, key) \in Seq(Int) /\ Len(InsertAt(nd.keys, i, key)) = n + 1
      /\ \A j \in 1 .. i - 1 : InsertAt(nd.keys, i, key)[j] = nd.keys[j]
      /\ InsertAt(nd.keys, i, key)[i] = key
      /\ \A j \in i + 1 .. n + 1 : InsertAt(nd.keys, i, key)[j] = nd.keys[j - 1]
  <2> DEFINE s == nd.keys
             S == Int
  <2>1. s \in Seq(S) /\ i \in 1 .. Len(s) + 1 /\ key \in S
    BY <1>1, <1>3 DEF n
  <2> HIDE DEF s, S
  <2>2. /\ InsertAt(s, i, key) \in Seq(S)
        /\ Len(InsertAt(s, i, key)) = Len(s) + 1
        /\ \A j \in 1 .. i - 1 : InsertAt(s, i, key)[j] = s[j]
        /\ InsertAt(s, i, key)[i] = key
        /\ \A j \in i + 1 .. Len(s) + 1 : InsertAt(s, i, key)[j] = s[j - 1]
    BY <2>1, InsertAtIs
  <2> QED BY <2>2, Zenon DEF s, S, n
<1>6. /\ InsertAt(nd.values, i, value) \in Seq(Values) /\ Len(InsertAt(nd.values, i, value)) = n + 1
      /\ \A j \in 1 .. i - 1 : InsertAt(nd.values, i, value)[j] = nd.values[j]
      /\ InsertAt(nd.values, i, value)[i] = value
      /\ \A j \in i + 1 .. n + 1 : InsertAt(nd.values, i, value)[j] = nd.values[j - 1]
  <2> DEFINE s == nd.values
             S == Values
  <2>0. n = Len(s)
    BY DEF n
  <2>1. s \in Seq(S) /\ i \in 1 .. Len(s) + 1 /\ value \in S
    BY <1>1, <1>3, <2>0
  <2> HIDE DEF s, S
  <2>2. /\ InsertAt(s, i, value) \in Seq(S)
        /\ Len(InsertAt(s, i, value)) = Len(s) + 1
        /\ \A j \in 1 .. i - 1 : InsertAt(s, i, value)[j] = s[j]
        /\ InsertAt(s, i, value)[i] = value
        /\ \A j \in i + 1 .. Len(s) + 1 : InsertAt(s, i, value)[j] = s[j - 1]
    BY <2>1, InsertAtIs
  <2> QED BY <2>0, <2>2, Zenon DEF s, S
<1>7. t.keys = InsertAt(nd.keys, i, key) /\ t.values = InsertAt(nd.values, i, value)
  BY <1>4 DEF NodeType
<1>8. /\ t.is_leaf = nd.is_leaf /\ t.children = nd.children
      /\ t.parent = nd.parent /\ t.next = nd.next
  BY <1>4 DEF NodeType
<1>9. t \in NodeType
  BY <1>4, <1>5, <1>6 DEF NodeType
<1>10. \A j \in 1 .. n : nd.keys[j] \in Int /\ nd.keys[j] # key
  BY <1>1, ElementOf DEF Contains, n
<1>11. ASSUME NEW j \in 1 .. n, j >= i PROVE nd.keys[j] > key
  <2>1. m + 1 \in 1 .. n /\ m < n /\ m + 1 <= j
    BY <1>1, <1>2, <1>11 DEF i
  <2>2. nd.keys[m + 1] > key
    BY <1>2, <1>10, <2>1
  <2>3. m + 1 < j => nd.keys[m + 1] < nd.keys[j]
    BY <2>1 DEF Increasing, n
  <2> QED BY <1>10, <2>1, <2>2, <2>3
<1>12. Increasing(t.keys)
  <2> SUFFICES ASSUME NEW a \in 1 .. n + 1, NEW b \in 1 .. n + 1, a < b
               PROVE  t.keys[a] < t.keys[b]
    BY <1>5, <1>7 DEF Increasing
  <2>0. a \in Int /\ b \in Int /\ i \in Int /\ m \in Int /\ i = m + 1 /\ n \in Int
    BY <1>1, <1>2 DEF i
  <2>1. CASE b < i
    <3>1. a \in 1 .. i - 1 /\ b \in 1 .. i - 1 /\ a \in 1 .. n /\ b \in 1 .. n
      BY <1>3, <2>0, <2>1
    <3> QED BY <1>5, <1>7, <3>1 DEF Increasing, n
  <2>2. CASE b = i
    <3>1. a \in 1 .. i - 1 /\ a \in 1 .. m
      BY <2>0, <2>2
    <3> QED BY <1>2, <1>5, <1>7, <2>2, <3>1
  <2>3. CASE b > i /\ a < i
    <3>1. a \in 1 .. i - 1 /\ a \in 1 .. m /\ b \in i + 1 .. n + 1 /\ b - 1 \in 1 .. n /\ b - 1 >= i
          /\ a \in 1 .. n
      BY <1>2, <1>3, <2>0, <2>3
    <3>2. nd.keys[a] < key /\ nd.keys[b - 1] > key
      BY <1>2, <1>11, <3>1
    <3> QED BY <1>5, <1>7, <1>10, <3>1, <3>2
  <2>4. CASE b > i /\ a = i
    <3>1. b \in i + 1 .. n + 1 /\ b - 1 \in 1 .. n /\ b - 1 >= i
      BY <1>3, <2>0, <2>4
    <3> QED BY <1>5, <1>7, <1>10, <1>11, <2>4, <3>1
  <2>5. CASE b > i /\ a > i
    <3>1. /\ a \in i + 1 .. n + 1 /\ b \in i + 1 .. n + 1
          /\ a - 1 \in 1 .. n /\ b - 1 \in 1 .. n /\ a - 1 < b - 1
      BY <1>3, <2>0, <2>5
    <3> QED BY <1>5, <1>7, <3>1 DEF Increasing, n
  <2> QED BY <2>0, <2>1, <2>2, <2>3, <2>4, <2>5
<1>13. /\ t.keys[i] = key /\ t.values[i] = value
       /\ \A j \in 1 .. i - 1 : t.keys[j] = nd.keys[j] /\ t.values[j] = nd.values[j]
       /\ \A j \in i + 1 .. n + 1 : t.keys[j] = nd.keys[j - 1] /\ t.values[j] = nd.values[j - 1]
  BY <1>5, <1>6, <1>7
<1>14. Len(t.keys) = n + 1 /\ Len(t.values) = n + 1
  BY <1>5, <1>6, <1>7
<1>15. ASSUME NEW a \in 1 .. n
       PROVE  \E j \in 1 .. n + 1 : t.keys[j] = nd.keys[a] /\ t.values[j] = nd.values[a]
  <2>1. CASE a < i
    <3>1. a \in 1 .. i - 1 /\ a \in 1 .. n + 1
      BY <1>1, <1>3, <2>1
    <3> QED BY <1>13, <3>1
  <2>2. CASE a >= i
    <3>1. a + 1 \in i + 1 .. n + 1 /\ a + 1 \in 1 .. n + 1 /\ (a + 1) - 1 = a
      BY <1>1, <1>3, <2>2
    <3> QED BY <1>13, <3>1
  <2> QED BY <1>3, <2>1, <2>2
<1>16. ASSUME NEW j \in 1 .. n + 1
       PROVE  \/ t.keys[j] = key /\ t.values[j] = value
              \/ \E a \in 1 .. n : t.keys[j] = nd.keys[a] /\ t.values[j] = nd.values[a]
  <2>1. CASE j < i
    <3>1. j \in 1 .. i - 1 /\ j \in 1 .. n
      BY <1>1, <1>3, <2>1
    <3> QED BY <1>13, <3>1
  <2>2. CASE j > i
    <3>1. j \in i + 1 .. n + 1 /\ j - 1 \in 1 .. n
      BY <1>1, <1>3, <2>2
    <3> QED BY <1>13, <3>1
  <2>3. CASE j = i
    BY <1>13, <2>3
  <2> QED BY <1>3, <2>1, <2>2, <2>3
<1>17. Adds(nd, t, key, value)
  BY <1>3, <1>9, <1>13, <1>14, <1>15, <1>16, Zenon DEF Adds, n
<1> QED BY <1>8, <1>9, <1>12, <1>14, <1>17, Zenon DEF t, n

(* us is ks with one more element, at place i. *)
OneMore(ks, us, i, key) ==
  /\ us \in Seq(Int) /\ Len(us) = Len(ks) + 1
  /\ us[i] = key
  /\ \A j \in 1 .. i - 1 : us[j] = ks[j]
  /\ \A j \in i + 1 .. Len(ks) + 1 : us[j] = ks[j - 1]

(* tc is qc, of n + 1 elements, with r behind the i-th, which is l. *)
Behind(qc, tc, n, i, l, r) ==
  /\ qc[i] = l
  /\ tc[i + 1] = r
  /\ \A j \in 1 .. i : tc[j] = qc[j]
  /\ \A j \in i + 2 .. n + 2 : tc[j] = qc[j - 1]

(* t is node p with one more separator, and a child behind left. *)
Inserted(p, t, left, key, right) ==
  /\ t \in NodeType /\ t.is_leaf = p.is_leaf /\ t.parent = p.parent
  /\ Len(t.keys) = Len(p.keys) + 1 /\ Len(t.children) = Len(p.keys) + 2
  /\ \E i \in 1 .. Len(p.keys) + 1 :
       /\ OneMore(p.keys, t.keys, i, key)
       /\ Behind(p.children, t.children, Len(p.keys), i, left, right)

LEMMA WithChildIs ==
  ASSUME NEW p \in NodeType, Len(p.children) = Len(p.keys) + 1,
         NEW left, NEW key \in Int, NEW right \in Nat,
         \E j \in 1 .. Len(p.children) : p.children[j] = left
  PROVE  Inserted(p, WithChild(p, left, key, right), left, key, right)
<1> DEFINE t == WithChild(p, left, key, right)
           n == Len(p.keys)
           i == SelectInSeq(p.children, LAMBDA c : c = left)
<1>1. p.keys \in Seq(Int) /\ p.children \in Seq(Nat) /\ n \in Nat
  BY DEF NodeType
<1>2. i \in 1 .. Len(p.children) /\ p.children[i] = left
  BY <1>1, PositionIs
<1>3. t = [p EXCEPT !.keys = InsertAt(p.keys, i, key), !.children = InsertAt(p.children, i + 1, right)]
  BY DEF WithChild
<1> HIDE DEF t, i, n
<1>4. i \in 1 .. n + 1 /\ i + 1 \in 1 .. n + 2 /\ (n + 1) + 1 = n + 2
      /\ i \in Int /\ (i + 1) - 1 = i /\ (i + 1) + 1 = i + 2
  BY <1>1, <1>2 DEF n
<1>5. /\ InsertAt(p.keys, i, key) \in Seq(Int) /\ Len(InsertAt(p.keys, i, key)) = n + 1
      /\ \A j \in 1 .. i - 1 : InsertAt(p.keys, i, key)[j] = p.keys[j]
      /\ InsertAt(p.keys, i, key)[i] = key
      /\ \A j \in i + 1 .. n + 1 : InsertAt(p.keys, i, key)[j] = p.keys[j - 1]
  <2> DEFINE s == p.keys
             S == Int
  <2>0. n = Len(s)
    BY DEF n
  <2>1. s \in Seq(S) /\ i \in 1 .. Len(s) + 1 /\ key \in S
    BY <1>1, <1>4, <2>0
  <2> HIDE DEF s, S
  <2>2. /\ InsertAt(s, i, key) \in Seq(S)
        /\ Len(InsertAt(s, i, key)) = Len(s) + 1
        /\ \A j \in 1 .. i - 1 : InsertAt(s, i, key)[j] = s[j]
        /\ InsertAt(s, i, key)[i] = key
        /\ \A j \in i + 1 .. Len(s) + 1 : InsertAt(s, i, key)[j] = s[j - 1]
    BY <2>1, InsertAtIs
  <2> QED BY <2>0, <2>2, Zenon DEF s, S
<1>6. /\ InsertAt(p.children, i + 1, right) \in Seq(Nat)
      /\ Len(InsertAt(p.children, i + 1, right)) = n + 2
      /\ \A j \in 1 .. i : InsertAt(p.children, i + 1, right)[j] = p.children[j]
      /\ InsertAt(p.children, i + 1, right)[i + 1] = right
      /\ \A j \in i + 2 .. n + 2 : InsertAt(p.children, i + 1, right)[j] = p.children[j - 1]
  <2> DEFINE s == p.children
             S == Nat
             m == i + 1
  <2>0. n + 1 = Len(s)
    BY DEF n
  <2>1. s \in Seq(S) /\ m \in 1 .. Len(s) + 1 /\ right \in S
    BY <1>1, <1>4, <2>0
  <2> HIDE DEF s, S, m
  <2>2. /\ InsertAt(s, m, right) \in Seq(S)
        /\ Len(InsertAt(s, m, right)) = Len(s) + 1
        /\ \A j \in 1 .. m - 1 : InsertAt(s, m, right)[j] = s[j]
        /\ InsertAt(s, m, right)[m] = right
        /\ \A j \in m + 1 .. Len(s) + 1 : InsertAt(s, m, right)[j] = s[j - 1]
    BY <2>1, InsertAtIs
  <2>3. m - 1 = i /\ m + 1 = i + 2 /\ Len(s) + 1 = n + 2 /\ m = i + 1
    BY <1>4, <2>0 DEF m
  <2> QED BY <2>2, <2>3, Zenon DEF s, S
<1>7. /\ t.keys = InsertAt(p.keys, i, key) /\ t.children = InsertAt(p.children, i + 1, right)
      /\ t.is_leaf = p.is_leaf /\ t.values = p.values /\ t.parent = p.parent /\ t.next = p.next
  BY <1>3 DEF NodeType
<1>8. t \in NodeType
  BY <1>3, <1>5, <1>6 DEF NodeType
<1>9. Len(t.keys) = n + 1 /\ Len(t.children) = n + 2
  BY <1>5, <1>6, <1>7
<1>10. /\ p.children[i] = left
       /\ t.keys[i] = key /\ t.children[i + 1] = right
       /\ \A j \in 1 .. i - 1 : t.keys[j] = p.keys[j]
       /\ \A j \in i + 1 .. n + 1 : t.keys[j] = p.keys[j - 1]
       /\ \A j \in 1 .. i : t.children[j] = p.children[j]
       /\ \A j \in i + 2 .. n + 2 : t.children[j] = p.children[j - 1]
  BY <1>2, <1>5, <1>6, <1>7, Zenon
<1>11. OneMore(p.keys, t.keys, i, key)
  <2>1. t.keys \in Seq(Int)
    BY <1>5, <1>7
  <2> QED BY <1>9, <1>10, <2>1, Zenon DEF OneMore, n
<1>12. Behind(p.children, t.children, n, i, left, right)
  BY <1>10, Zenon DEF Behind
<1>13. Inserted(p, t, left, key, right)
  BY <1>4, <1>7, <1>8, <1>9, <1>11, <1>12, Zenon DEF Inserted, n
<1> QED BY <1>13 DEF t

-----------------------------------------------------------------------------
(* Every step keeps the shape of the tree.                                 *)

LEMMA InitShape == Init => TreeInv
<1> SUFFICES ASSUME Init PROVE TreeInv
  OBVIOUS
<1> DEFINE h == [n \in {} |-> 0]
           R == [n \in {} |-> Int]
<1>1. node = <<>> /\ root = 0 /\ Idle /\ returned = 0 /\ promotion = Nothing /\ Nodes = {}
  BY DEF Init, Null, Idle, Nodes
<1>2. Types
  <2>1. <<>> \in Seq(NodeType)
    OBVIOUS
  <2> QED BY <1>1, <2>1 DEF Types, Null
<1>3. Heights(h) /\ Places(h, R)
  BY <1>1 DEF Heights, Places, Null
<1>3a. Linked(R)
  <2>1. <<>> \in Seq(Nodes) /\ Len(<<>>) = 0
    OBVIOUS
  <2>2. Listed(<<>>, R)
    BY <1>1, <2>1 DEF Listed
  <2> QED BY <2>2 DEF Linked
<1>4. Leaves(R) /\ Inner(h, R) /\ Parents /\ Halves(h, R)
  BY <1>1 DEF Leaves, Inner, Parents, Halves
<1> QED BY <1>2, <1>3, <1>3a, <1>4 DEF TreeInv, Shape

(* What the steps do to the entries: one more, or none. *)
HasEntry(nd, k, v) == \E i \in DOMAIN nd.keys : k = nd.keys[i] /\ v = nd.values[i]

Gains(key, value) == Entries' = Entries \union {<<key, value>>}

LEMMA EntriesHas ==
  /\ \A e \in Entries : e = <<e[1], e[2]>>
  /\ \A k, v : <<k, v>> \in Entries <=> \E n \in Nodes : node[n].is_leaf /\ HasEntry(node[n], k, v)
<1>1. \A e \in Entries : e = <<e[1], e[2]>>
  BY DEF Entries
<1>2. ASSUME NEW k, NEW v
      PROVE  <<k, v>> \in Entries <=> \E n \in Nodes : node[n].is_leaf /\ HasEntry(node[n], k, v)
  BY DEF Entries, HasEntry
<1> QED BY <1>1, <1>2

LEMMA EntriesHasNext ==
  /\ \A e \in Entries' : e = <<e[1], e[2]>>
  /\ \A k, v : <<k, v>> \in Entries' <=> \E n \in Nodes' : node'[n].is_leaf /\ HasEntry(node'[n], k, v)
<1>1. \A e \in Entries' : e = <<e[1], e[2]>>
  BY DEF Entries
<1>2. ASSUME NEW k, NEW v
      PROVE  <<k, v>> \in Entries' <=> \E n \in Nodes' : node'[n].is_leaf /\ HasEntry(node'[n], k, v)
  BY DEF Entries, HasEntry
<1> QED BY <1>1, <1>2

(* It is enough to look at pairs. *)
LEMMA GainsPairs ==
  ASSUME NEW key, NEW value,
         \A k, v : <<k, v>> \in Entries' <=> <<k, v>> \in Entries \/ (k = key /\ v = value)
  PROVE  Gains(key, value)
<1>1. \A e \in Entries : e = <<e[1], e[2]>>
  BY EntriesHas
<1>2. \A e \in Entries' : e = <<e[1], e[2]>>
  BY DEF Entries
<1>3. ASSUME NEW e \in Entries' PROVE e \in Entries \union {<<key, value>>}
  <2>1. PICK k, v : e = <<k, v>>
    BY <1>2, <1>3
  <2> QED BY <1>3, <2>1
<1>4. ASSUME NEW e \in Entries PROVE e \in Entries'
  <2>1. PICK k, v : e = <<k, v>>
    BY <1>1, <1>4
  <2> QED BY <1>4, <2>1
<1>5. <<key, value>> \in Entries'
  OBVIOUS
<1> QED BY <1>3, <1>4, <1>5 DEF Gains

(* a and b together have the entries of nd and one more. *)
Gained(nd, a, b, key, value) ==
  \A k, v : HasEntry(a, k, v) \/ HasEntry(b, k, v) <=> HasEntry(nd, k, v) \/ (k = key /\ v = value)

(* The entries of one leaf, and of the leaf r that is split off it, if any. *)
LEMMA GainsLeaf ==
  ASSUME NEW key, NEW value, NEW leaf \in Nodes, node[leaf].is_leaf,
         NEW r, Nodes' = Nodes \union {r}, r \in Nodes => r = leaf, node'[r].is_leaf,
         node'[leaf].is_leaf, \A m \in Nodes : m # leaf => node'[m] = node[m],
         Gained(node[leaf], node'[leaf], node'[r], key, value)
  PROVE  Gains(key, value)
<1> SUFFICES ASSUME NEW k, NEW v
             PROVE  <<k, v>> \in Entries' <=> <<k, v>> \in Entries \/ (k = key /\ v = value)
  BY GainsPairs
<1>0. HasEntry(node'[leaf], k, v) \/ HasEntry(node'[r], k, v)
        <=> HasEntry(node[leaf], k, v) \/ (k = key /\ v = value)
  BY DEF Gained
<1>1. <<k, v>> \in Entries <=> \E n \in Nodes : node[n].is_leaf /\ HasEntry(node[n], k, v)
  BY EntriesHas
<1>2. <<k, v>> \in Entries' <=> \E n \in Nodes' : node'[n].is_leaf /\ HasEntry(node'[n], k, v)
  BY EntriesHasNext
<1>3. ASSUME NEW n \in Nodes', node'[n].is_leaf, HasEntry(node'[n], k, v)
      PROVE  (\E m \in Nodes : node[m].is_leaf /\ HasEntry(node[m], k, v)) \/ (k = key /\ v = value)
  <2>1. CASE n = leaf \/ n = r
    BY <1>0, <1>3, <2>1
  <2>2. CASE n # leaf /\ n \in Nodes
    <3>1. node'[n] = node[n]
      BY <2>2
    <3> QED BY <1>3, <2>2, <3>1
  <2> QED BY <1>3, <2>1, <2>2
<1>4. ASSUME NEW n \in Nodes, node[n].is_leaf, HasEntry(node[n], k, v)
      PROVE  \E m \in Nodes' : node'[m].is_leaf /\ HasEntry(node'[m], k, v)
  <2>1. CASE n = leaf
    BY <1>0, <1>4, <2>1
  <2>2. CASE n # leaf
    <3>1. node'[n] = node[n] /\ n \in Nodes'
      BY <2>2
    <3> QED BY <1>4, <3>1
  <2> QED BY <2>1, <2>2
<1>5. ASSUME k = key, v = value
      PROVE  \E m \in Nodes' : node'[m].is_leaf /\ HasEntry(node'[m], k, v)
  BY <1>0, <1>5
<1> QED BY <1>1, <1>2, <1>3, <1>4, <1>5

LEMMA AddsGained ==
  ASSUME NEW nd \in NodeType, NEW t, NEW key, NEW value, Adds(nd, t, key, value)
  PROVE  Gained(nd, t, t, key, value)
<1> SUFFICES ASSUME NEW k, NEW v
             PROVE  HasEntry(t, k, v) <=> HasEntry(nd, k, v) \/ (k = key /\ v = value)
  BY DEF Gained
<1>1. PICK n \in Nat : n = Len(nd.keys)
  BY DEF NodeType
<1>2. /\ t \in NodeType /\ Len(t.keys) = n + 1
      /\ \E i \in 1 .. n + 1 : t.keys[i] = key /\ t.values[i] = value
      /\ \A i \in 1 .. n : \E j \in 1 .. n + 1 : t.keys[j] = nd.keys[i] /\ t.values[j] = nd.values[i]
      /\ \A j \in 1 .. n + 1 :
           \/ t.keys[j] = key /\ t.values[j] = value
           \/ \E i \in 1 .. n : t.keys[j] = nd.keys[i] /\ t.values[j] = nd.values[i]
  BY <1>1, Zenon DEF Adds
<1>3. DOMAIN t.keys = 1 .. n + 1 /\ DOMAIN nd.keys = 1 .. n
  BY <1>1, <1>2 DEF NodeType
<1>4. ASSUME NEW j \in 1 .. n + 1, k = t.keys[j], v = t.values[j]
      PROVE  HasEntry(nd, k, v) \/ (k = key /\ v = value)
  <2>1. CASE t.keys[j] = key /\ t.values[j] = value
    BY <1>4, <2>1
  <2>2. CASE \E i \in 1 .. n : t.keys[j] = nd.keys[i] /\ t.values[j] = nd.values[i]
    BY <1>3, <1>4, <2>2 DEF HasEntry
  <2> QED BY <1>2, <2>1, <2>2
<1>5. ASSUME NEW i \in 1 .. n, k = nd.keys[i], v = nd.values[i] PROVE HasEntry(t, k, v)
  <2>1. PICK j \in 1 .. n + 1 : t.keys[j] = nd.keys[i] /\ t.values[j] = nd.values[i]
    BY <1>2
  <2> QED BY <1>3, <1>5, <2>1 DEF HasEntry
<1>6. k = key /\ v = value => HasEntry(t, k, v)
  BY <1>2, <1>3 DEF HasEntry
<1>7. HasEntry(t, k, v) => HasEntry(nd, k, v) \/ (k = key /\ v = value)
  BY <1>3, <1>4 DEF HasEntry
<1>8. HasEntry(nd, k, v) => HasEntry(t, k, v)
  BY <1>3, <1>5 DEF HasEntry
<1> QED BY <1>6, <1>7, <1>8

(* A step that changes no leaf but for its parent. *)
SameLeaves ==
  /\ \A n \in Nodes : n \in Nodes' /\ (node'[n].is_leaf <=> node[n].is_leaf)
  /\ \A n \in Nodes' : node'[n].is_leaf => n \in Nodes
  /\ \A n \in Nodes : node[n].is_leaf => node'[n].keys = node[n].keys /\ node'[n].values = node[n].values

LEMMA SameEntries ==
  ASSUME SameLeaves
  PROVE  Entries' = Entries
<1>1. \A e \in Entries : e = <<e[1], e[2]>>
  BY EntriesHas
<1>2. \A e \in Entries' : e = <<e[1], e[2]>>
  BY DEF Entries
<1>3. ASSUME NEW k, NEW v PROVE <<k, v>> \in Entries' <=> <<k, v>> \in Entries
  <2>1. <<k, v>> \in Entries <=> \E n \in Nodes : node[n].is_leaf /\ HasEntry(node[n], k, v)
    BY EntriesHas
  <2>2. <<k, v>> \in Entries' <=> \E n \in Nodes' : node'[n].is_leaf /\ HasEntry(node'[n], k, v)
    BY EntriesHasNext
  <2>3. ASSUME NEW n \in Nodes, node[n].is_leaf
        PROVE  HasEntry(node'[n], k, v) <=> HasEntry(node[n], k, v)
    <3>1. node'[n].keys = node[n].keys /\ node'[n].values = node[n].values
      BY <2>3 DEF SameLeaves
    <3> QED BY <3>1 DEF HasEntry
  <2> QED BY <2>1, <2>2, <2>3 DEF SameLeaves
<1>4. ASSUME NEW e \in Entries' PROVE e \in Entries
  <2>1. PICK k, v : e = <<k, v>>
    BY <1>2, <1>4
  <2> QED BY <1>3, <1>4, <2>1
<1>5. ASSUME NEW e \in Entries PROVE e \in Entries'
  <2>1. PICK k, v : e = <<k, v>>
    BY <1>1, <1>5
  <2> QED BY <1>3, <1>5, <2>1
<1> QED BY <1>4, <1>5

(* The list of the leaves stays as it is. *)
LEMMA ListKept ==
  ASSUME NEW R, NEW Q, Linked(R),
         \A n \in Nodes : node[n].is_leaf =>
           n \in Nodes' /\ node'[n].is_leaf /\ node'[n].next = node[n].next /\ Q[n] = R[n],
         \A n \in Nodes' : node'[n].is_leaf => n \in Nodes /\ node[n].is_leaf
  PROVE  Linked(Q)'
<1>1. PICK c : Listed(c, R)
  BY DEF Linked
<1>2. PICK m \in Nat : m = Len(c)
  BY <1>1 DEF Listed
<1>3. /\ c \in Seq(Nodes)
      /\ \A i \in 1 .. m : c[i] \in Nodes /\ node[c[i]].is_leaf
  BY <1>1, <1>2, ElementOf DEF Listed
<1>4. \A i \in 1 .. m : c[i] \in Nodes'
  BY <1>3
<1>5. c \in Seq(Nodes')
  BY <1>2, <1>3, <1>4
<1>6. \A i \in 1 .. m : node'[c[i]].is_leaf /\ node'[c[i]].next = IF i < m THEN c[i + 1] ELSE Null
  BY <1>1, <1>2, <1>3, Zenon DEF Listed
<1>7. \A i, j \in 1 .. m : i < j => c[i] # c[j] /\ \A a \in Q[c[i]], b \in Q[c[j]] : a < b
  <2> SUFFICES ASSUME NEW i \in 1 .. m, NEW j \in 1 .. m, i < j
               PROVE  c[i] # c[j] /\ \A a \in Q[c[i]], b \in Q[c[j]] : a < b
    OBVIOUS
  <2>1. c[i] # c[j] /\ \A a \in R[c[i]], b \in R[c[j]] : a < b
    BY <1>1, <1>2 DEF Listed
  <2>2. Q[c[i]] = R[c[i]] /\ Q[c[j]] = R[c[j]]
    BY <1>3
  <2> QED BY <2>1, <2>2
<1>8. \A n \in Nodes' : node'[n].is_leaf => \E i \in 1 .. m : c[i] = n
  BY <1>1, <1>2, Zenon DEF Listed
<1>9. Listed(c, Q)'
  BY <1>2, <1>5, <1>6, <1>7, <1>8, Zenon DEF Listed
<1> QED BY <1>9 DEF Linked

(* d is c with e as its i-th element. *)
InsertedAt(d, S, c, i, e) ==
  /\ d \in Seq(S) /\ Len(d) = Len(c) + 1
  /\ \A j \in 1 .. i - 1 : d[j] = c[j]
  /\ d[i] = e
  /\ \A j \in i + 1 .. Len(c) + 1 : d[j] = c[j - 1]

LEMMA InsertAtMakes ==
  ASSUME NEW S, NEW c \in Seq(S), NEW i \in 1 .. Len(c) + 1, NEW e \in S
  PROVE  InsertedAt(InsertAt(c, i, e), S, c, i, e)
BY InsertAtIs DEF InsertedAt

(* r comes into the sequence behind the k-th element. *)
InsertedBehind(d, S, c, k, r) ==
  /\ d \in Seq(S) /\ Len(d) = Len(c) + 1 /\ d[k + 1] = r
  /\ \A i \in 1 .. k : d[i] = c[i]
  /\ \A i \in k + 1 .. Len(c) : d[i + 1] = c[i]

LEMMA InsertBehind ==
  ASSUME NEW S, NEW c \in Seq(S), NEW k \in 1 .. Len(c), NEW r \in S
  PROVE  InsertedBehind(InsertAt(c, k + 1, r), S, c, k, r)
<1>1. PICK p \in 1 .. Len(c) + 1 : p = k + 1 /\ p - 1 = k
  OBVIOUS
<1>2. InsertedAt(InsertAt(c, p, r), S, c, p, r)
  BY InsertAtMakes
<1>3. PICK d : d = InsertAt(c, p, r)
  OBVIOUS
<1>4. InsertedAt(d, S, c, p, r)
  BY <1>2, <1>3
<1>5. ASSUME NEW i \in k + 1 .. Len(c) PROVE d[i + 1] = c[i]
  <2>1. i + 1 \in p + 1 .. Len(c) + 1 /\ (i + 1) - 1 = i
    BY <1>1
  <2> QED BY <1>4, <2>1 DEF InsertedAt
<1>6. InsertedBehind(d, S, c, k, r)
  BY <1>1, <1>4, <1>5 DEF InsertedAt, InsertedBehind
<1> QED BY <1>1, <1>3, <1>6

(* A leaf r comes into the list behind leaf, and takes over some of its    *)
(* keys, the greatest.                                                     *)
LEMMA ListGrows ==
  ASSUME NEW R, NEW Q, Linked(R), NEW leaf \in Nodes, node[leaf].is_leaf,
         NEW r, r \notin Nodes, Nodes' = Nodes \union {r},
         \A n \in Nodes : node'[n].is_leaf = node[n].is_leaf,
         \A n \in Nodes : n # leaf => node'[n].next = node[n].next /\ Q[n] = R[n],
         node'[r].is_leaf, node'[r].next = node[leaf].next, node'[leaf].next = r,
         Q[leaf] \subseteq R[leaf], Q[r] \subseteq R[leaf],
         \A a \in Q[leaf], b \in Q[r] : a < b
  PROVE  Linked(Q)'
<1>1. PICK c : Listed(c, R)
  BY DEF Linked
<1>2. PICK m \in Nat : m = Len(c)
  BY <1>1 DEF Listed
<1>3. /\ c \in Seq(Nodes)
      /\ \A n \in Nodes : node[n].is_leaf => \E i \in 1 .. m : c[i] = n
      /\ \A i \in 1 .. m : node[c[i]].next = IF i < m THEN c[i + 1] ELSE Null
      /\ \A i, j \in 1 .. m :
           i < j => c[i] # c[j] /\ \A a \in R[c[i]], b \in R[c[j]] : a < b
  BY <1>1, <1>2 DEF Listed
<1>4. \A i \in 1 .. m : c[i] \in Nodes /\ c[i] # r /\ node[c[i]].is_leaf
  BY <1>1, <1>2, ElementOf DEF Listed
<1>5. PICK k \in 1 .. m : c[k] = leaf
  BY <1>3
<1>6. c \in Seq(Nodes') /\ k \in 1 .. Len(c) /\ r \in Nodes'
  BY <1>2, <1>3, <1>4
<1>7. PICK d : d = InsertAt(c, k + 1, r)
  OBVIOUS
<1>8. /\ d \in Seq(Nodes') /\ Len(d) = m + 1 /\ d[k + 1] = r
      /\ \A i \in 1 .. k : d[i] = c[i]
      /\ \A i \in k + 1 .. m : d[i + 1] = c[i]
  <2>1. PICK S : S = Nodes'
    OBVIOUS
  <2>2. c \in Seq(S) /\ k \in 1 .. Len(c) /\ r \in S
    BY <1>6, <2>1
  <2>3. InsertedBehind(d, S, c, k, r)
    BY <1>7, <2>2, InsertBehind
  <2> QED BY <1>2, <2>1, <2>3 DEF InsertedBehind
<1>9. ASSUME NEW x \in 1 .. m + 1, x # k + 1
      PROVE  \E i \in 1 .. m : d[x] = c[i] /\ ((i <= k /\ x = i) \/ (i > k /\ x = i + 1))
  <2>1. CASE x <= k
    <3>1. x \in 1 .. k /\ x \in 1 .. m
      BY <2>1
    <3> QED BY <1>8, <2>1, <3>1
  <2>2. CASE x > k
    <3>1. PICK i \in k + 1 .. m : x = i + 1
      <4>1. x - 1 \in k + 1 .. m /\ x = (x - 1) + 1
        BY <1>9, <2>2
      <4> QED BY <4>1
    <3>2. i \in 1 .. m /\ i > k
      OBVIOUS
    <3> QED BY <1>8, <3>1, <3>2
  <2> QED BY <2>1, <2>2
<1>10. \A i \in 1 .. m : Q[c[i]] \subseteq R[c[i]]
  BY <1>4
<1>11. \A x \in 1 .. m + 1 : node'[d[x]].is_leaf
  <2> SUFFICES ASSUME NEW x \in 1 .. m + 1 PROVE node'[d[x]].is_leaf
    OBVIOUS
  <2>1. CASE x = k + 1
    BY <1>8, <2>1
  <2>2. CASE x # k + 1
    <3>1. PICK i \in 1 .. m : d[x] = c[i]
      BY <1>9, <2>2
    <3> QED BY <1>4, <3>1
  <2> QED BY <2>1, <2>2
<1>12. ASSUME NEW x \in 1 .. m + 1, NEW y \in 1 .. m + 1, x < y
       PROVE  d[x] # d[y] /\ \A a \in Q[d[x]], b \in Q[d[y]] : a < b
  <2>1. CASE x = k + 1
    <3>1. y # k + 1
      BY <1>12, <2>1
    <3>2. PICK j \in 1 .. m : d[y] = c[j] /\ ((j <= k /\ y = j) \/ (j > k /\ y = j + 1))
      BY <1>9, <3>1
    <3>3. k < j
      BY <1>12, <2>1, <3>2
    <3>4. c[j] # r /\ \A a \in R[leaf], b \in R[c[j]] : a < b
      BY <1>3, <1>4, <1>5, <3>3
    <3>5. d[x] = r /\ Q[c[j]] \subseteq R[c[j]]
      BY <1>8, <1>10, <2>1
    <3> QED BY <3>2, <3>4, <3>5
  <2>2. CASE y = k + 1
    <3>1. x # k + 1
      BY <1>12, <2>2
    <3>2. PICK i \in 1 .. m : d[x] = c[i] /\ ((i <= k /\ x = i) \/ (i > k /\ x = i + 1))
      BY <1>9, <3>1
    <3>3. i < k \/ i = k
      BY <1>12, <2>2, <3>2
    <3>4. d[y] = r /\ Q[c[i]] \subseteq R[c[i]] /\ c[i] # r
      BY <1>4, <1>8, <1>10, <2>2
    <3>5. CASE i = k
      BY <1>5, <3>2, <3>4, <3>5
    <3>6. CASE i < k
      <4>1. \A a \in R[c[i]], b \in R[leaf] : a < b
        BY <1>3, <1>5, <3>6
      <4> QED BY <3>2, <3>4, <4>1
    <3> QED BY <3>3, <3>5, <3>6
  <2>3. CASE x # k + 1 /\ y # k + 1
    <3>1. PICK i \in 1 .. m : d[x] = c[i] /\ ((i <= k /\ x = i) \/ (i > k /\ x = i + 1))
      BY <1>9, <2>3
    <3>2. PICK j \in 1 .. m : d[y] = c[j] /\ ((j <= k /\ y = j) \/ (j > k /\ y = j + 1))
      BY <1>9, <2>3
    <3>3. i < j
      BY <1>12, <3>1, <3>2
    <3>4. c[i] # c[j] /\ \A a \in R[c[i]], b \in R[c[j]] : a < b
      BY <1>3, <3>3
    <3> QED BY <1>10, <3>1, <3>2, <3>4
  <2> QED BY <2>1, <2>2, <2>3
<1>13. ASSUME NEW x \in 1 .. m + 1
       PROVE  node'[d[x]].next = IF x < m + 1 THEN d[x + 1] ELSE Null
  <2>1. CASE x = k + 1
    <3>1. node'[d[x]].next = IF k < m THEN c[k + 1] ELSE Null
      BY <1>3, <1>5, <1>8, <2>1
    <3>2. k < m => k + 1 \in k + 1 .. m /\ d[(k + 1) + 1] = c[k + 1]
      BY <1>8
    <3> QED BY <2>1, <3>1, <3>2
  <2>2. CASE x # k + 1
    <3>1. PICK i \in 1 .. m : d[x] = c[i] /\ ((i <= k /\ x = i) \/ (i > k /\ x = i + 1))
      BY <1>9, <2>2
    <3>2. CASE i = k
      <4>1. node'[d[x]].next = r /\ x = k
        BY <1>5, <3>1, <3>2
      <4> QED BY <1>8, <4>1
    <3>3. CASE i # k
      <4>1. c[i] # leaf
        BY <1>3, <1>5, <3>3
      <4>2. node'[d[x]].next = IF i < m THEN c[i + 1] ELSE Null
        BY <1>3, <1>4, <3>1, <4>1
      <4>3. CASE i < k
        <5>1. i + 1 \in 1 .. k /\ x = i /\ i < m /\ x < m + 1
          BY <3>1, <4>3
        <5>2. d[i + 1] = c[i + 1]
          BY <1>8, <5>1
        <5> QED BY <4>2, <5>1, <5>2
      <4>4. CASE i > k
        <5>1. x = i + 1 /\ (i < m <=> x < m + 1)
          BY <3>1, <4>4
        <5>2. i < m => i + 1 \in k + 1 .. m /\ d[(i + 1) + 1] = c[i + 1]
          BY <1>8, <4>4
        <5> QED BY <4>2, <5>1, <5>2
      <4> QED BY <3>3, <4>3, <4>4
    <3> QED BY <3>2, <3>3
  <2> QED BY <2>1, <2>2
<1>14. ASSUME NEW n \in Nodes', node'[n].is_leaf PROVE \E x \in 1 .. m + 1 : d[x] = n
  <2>1. CASE n = r
    <3>1. k + 1 \in 1 .. m + 1
      OBVIOUS
    <3> QED BY <1>8, <2>1, <3>1
  <2>2. CASE n # r
    <3>1. n \in Nodes /\ node[n].is_leaf
      BY <1>14, <2>2
    <3>2. PICK i \in 1 .. m : c[i] = n
      BY <1>3, <3>1
    <3>3. CASE i <= k
      <4>1. i \in 1 .. k /\ i \in 1 .. m + 1
        BY <3>3
      <4> QED BY <1>8, <3>2, <4>1
    <3>4. CASE i > k
      <4>1. i \in k + 1 .. m /\ i + 1 \in 1 .. m + 1
        BY <3>4
      <4>2. d[i + 1] = n
        BY <1>8, <3>2, <4>1
      <4> QED BY <4>1, <4>2
    <3> QED BY <3>3, <3>4
  <2> QED BY <2>1, <2>2
<1>15. Listed(d, Q)'
  <2>1. Len(d) = m + 1 /\ d \in Seq(Nodes')
    BY <1>8
  <2> QED BY <1>11, <1>12, <1>13, <1>14, <2>1 DEF Listed
<1> QED BY <1>15 DEF Linked

(* The first leaf: all keys have their place in it. *)
LEMMA FirstShape ==
  ASSUME NEW h, NEW R, Shape(h, R), Idle, root = Null, NEW key \in Int, NEW value \in Values,
         node' = Append(node, Leaf(<<key>>, <<value>>, Null, Null)),
         root' = Len(node'), promotion' = Nothing, returned' = 1
  PROVE  TreeInv' /\ Gains(key, value)
<1> DEFINE leaf == Leaf(<<key>>, <<value>>, Null, Null)
<1>1. node = <<>>
  BY DEF Shape, Types
<1>2. leaf \in NodeType
  BY DEF Leaf, NodeType, Null
<1>3. /\ leaf.is_leaf = TRUE /\ leaf.keys = <<key>> /\ leaf.values = <<value>> /\ leaf.parent = 0
      /\ leaf.next = Null
  BY DEF Leaf, Null
<1> HIDE DEF leaf
<1>4. node' \in Seq(NodeType) /\ Len(node') = 1 /\ node'[1] = leaf /\ Nodes' = {1} /\ root' = 1
  BY <1>1, <1>2 DEF Nodes, leaf
<1>5. PICK g : g = [n \in {1} |-> 0]
  OBVIOUS
<1>6. PICK Q : Q = [n \in {1} |-> Int]
  OBVIOUS
<1>7. Idle'
  BY DEF Idle
<1>8. Types'
  BY <1>4, <1>7 DEF Types, Null
<1>9. Heights(g)' /\ Places(g, Q)'
  <2>1. node'[1].is_leaf
    BY <1>3, <1>4
  <2>2. Heights(g)'
    BY <1>4, <1>5, <2>1 DEF Heights
  <2>3. Places(g, Q)'
    BY <1>4, <1>5, <1>6, <1>7 DEF Places, Covered
  <2> QED BY <2>2, <2>3
<1>10. Leaves(Q)'
  <2>1. Len(<<key>>) = 1 /\ Len(<<value>>) = 1 /\ <<key>>[1] = key /\ 1 <= MaxKeys
    BY OrderAssumption DEF MaxKeys
  <2>2. Increasing(<<key>>)
    BY <2>1 DEF Increasing
  <2>3. /\ Len(leaf.values) = Len(leaf.keys) /\ Len(leaf.keys) <= MaxKeys
        /\ Increasing(leaf.keys)
        /\ \A i \in 1 .. Len(leaf.keys) : leaf.keys[i] \in Int
    BY <1>3, <2>1, <2>2
  <2>4. Q[1] = Int
    BY <1>6
  <2> QED BY <1>4, <2>3, <2>4, Zenon DEF Leaves
<1>11. Inner(g, Q)' /\ Parents' /\ Halves(g, Q)'
  <2>1. \A n \in Nodes' : n = root' /\ node'[n].is_leaf /\ node'[n].parent = 0
    BY <1>3, <1>4
  <2>2. Inner(g, Q)'
    BY <2>1 DEF Inner
  <2>3. Parents'
    BY <2>1 DEF Parents, ParentOf, Null
  <2>4. Halves(g, Q)'
    BY <1>7 DEF Halves
  <2> QED BY <2>2, <2>3, <2>4
<1>a. Linked(Q)'
  <2>1. /\ <<1>> \in Seq(Nodes') /\ Len(<<1>>) = 1 /\ <<1>>[1] = 1
    BY <1>4
  <2>2. \A i \in 1 .. 1 : i = 1 /\ ~(i < 1)
    OBVIOUS
  <2>3. Listed(<<1>>, Q)'
    BY <1>3, <1>4, <2>1, <2>2 DEF Listed
  <2> QED BY <2>3 DEF Linked
<1>12. Shape(g, Q)'
  BY <1>8, <1>9, <1>10, <1>11, <1>a DEF Shape
<1>13. Gains(key, value)
  <2> SUFFICES ASSUME NEW k, NEW v
               PROVE  <<k, v>> \in Entries' <=> <<k, v>> \in Entries \/ (k = key /\ v = value)
    BY GainsPairs
  <2>1. Nodes = {}
    BY <1>1 DEF Nodes
  <2>2. <<k, v>> \notin Entries
    BY <2>1, EntriesHas
  <2>3. <<k, v>> \in Entries' <=> \E n \in Nodes' : node'[n].is_leaf /\ HasEntry(node'[n], k, v)
    BY EntriesHasNext
  <2>4. <<k, v>> \in Entries' <=> HasEntry(leaf, k, v)
    BY <1>3, <1>4, <2>3
  <2>5. /\ DOMAIN <<key>> = {1} /\ <<key>>[1] = key /\ <<value>>[1] = value
    OBVIOUS
  <2>6. HasEntry(leaf, k, v) <=> k = key /\ v = value
    BY <1>3, <2>5 DEF HasEntry
  <2> QED BY <2>2, <2>4, <2>6
<1> QED BY <1>12, <1>13 DEF TreeInv

(* An entry more in a leaf that has room. *)
LEMMA LeafShape ==
  ASSUME NEW h, NEW R, Shape(h, R), Idle, NEW leaf \in Nodes, node[leaf].is_leaf,
         NEW key \in R[leaf], NEW value \in Values, bptree_insert_into_leaf(leaf, key, value)
  PROVE  Shape(h, R)' /\ Gains(key, value)
<1>0. node[leaf] \in NodeType
  BY NodesAre DEF Shape
<1> PICK nd \in NodeType : nd = node[leaf]
  BY <1>0
<1> DEFINE t == WithEntry(nd, key, value)
<1>1. /\ ~Contains(nd.keys, key) /\ Len(nd.keys) < MaxKeys
      /\ node' = [node EXCEPT ![leaf] = t]
      /\ returned' = 1 /\ promotion' = Nothing /\ root' = root
  BY DEF bptree_insert_into_leaf, Return
<1>2. /\ node \in Seq(NodeType) /\ Nodes = 1 .. Len(node) /\ Len(node) \in Nat /\ nd \in NodeType
      /\ root \in Nodes /\ root # Null
  BY NodesAre DEF Shape, Types, Nodes
<1>3. key \in Int /\ R \in [Nodes -> SUBSET Int]
  BY DEF Shape, Places
<1>4. /\ Len(nd.values) = Len(nd.keys) /\ Increasing(nd.keys)
      /\ \A i \in 1 .. Len(nd.keys) : nd.keys[i] \in R[leaf]
  BY DEF Shape, Leaves
<1> DEFINE n == Len(nd.keys)
<1>5. /\ t \in NodeType
      /\ t.is_leaf = nd.is_leaf /\ t.children = nd.children
      /\ t.parent = nd.parent /\ t.next = nd.next
      /\ Len(t.keys) = n + 1 /\ Len(t.values) = n + 1
      /\ Increasing(t.keys)
      /\ Adds(nd, t, key, value)
  <2>1. ~Contains(nd.keys, key)
    BY <1>1
  <2>2. key \in Int
    BY <1>3
  <2>3. Len(nd.values) = Len(nd.keys) /\ Increasing(nd.keys)
    BY <1>4
  <2> QED BY <2>1, <2>2, <2>3, WithEntryIs
<1>a. Adds(nd, t, key, value)
  BY <1>5
<1>7. n \in Nat
  BY DEF NodeType
<1> HIDE DEF t
<1>b. \A j \in 1 .. Len(nd.keys) + 1 :
        t.keys[j] = key \/ \E i \in 1 .. Len(nd.keys) : t.keys[j] = nd.keys[i]
  BY <1>a, Zenon DEF Adds
<1>6. \A j \in 1 .. n + 1 : t.keys[j] = key \/ \E i \in 1 .. n : t.keys[j] = nd.keys[i]
  BY <1>b, Zenon
<1> HIDE DEF n
<1>8. \A j \in 1 .. n + 1 : t.keys[j] \in R[leaf]
  BY <1>4, <1>6 DEF n
<1>9. /\ node' \in Seq(NodeType) /\ Nodes' = Nodes /\ Len(node') = Len(node)
      /\ node'[leaf] = t
      /\ \A m \in Nodes : m # leaf => node'[m] = node[m]
  BY <1>1, <1>2, <1>5 DEF Nodes
<1>10. Idle' /\ Idle
  BY <1>1 DEF Idle
<1>11. /\ \A m \in Nodes : /\ node'[m].is_leaf = node[m].is_leaf
                           /\ node'[m].parent = node[m].parent
                           /\ node'[m].next = node[m].next
                           /\ node'[m].children = node[m].children
       /\ \A m \in Nodes : ~node[m].is_leaf => node'[m] = node[m]
  BY <1>5, <1>9
<1>12. Types'
  BY <1>1, <1>2, <1>9, <1>10 DEF Types, Shape
<1>13. Heights(h)' /\ Places(h, R)'
  BY <1>1, <1>9, <1>10, <1>11 DEF Heights, Places, Covered, Shape
<1>14. Leaves(R)'
  <2> SUFFICES ASSUME NEW m \in Nodes, node'[m].is_leaf
               PROVE  /\ Len(node'[m].values) = Len(node'[m].keys)
                      /\ Len(node'[m].keys) <= MaxKeys
                      /\ Increasing(node'[m].keys)
                      /\ \A i \in 1 .. Len(node'[m].keys) : node'[m].keys[i] \in R[m]
    BY <1>9 DEF Leaves
  <2>1. CASE m = leaf
    <3>1. n + 1 <= MaxKeys
      BY <1>1, <1>7, OrderAssumption DEF MaxKeys, n
    <3> QED BY <1>5, <1>8, <1>9, <2>1, <3>1
  <2>2. CASE m # leaf
    <3>1. node'[m] = node[m]
      BY <1>9, <2>2
    <3> QED BY <3>1 DEF Shape, Leaves
  <2> QED BY <2>1, <2>2
<1>15. Inner(h, R)'
  <2>1. \A c : Covered(R, c)' = R[c] /\ Covered(R, c) = R[c] /\ ~Orphan(c)' /\ ~Orphan(c)
    BY <1>10 DEF Covered, Orphan
  <2>2. ASSUME NEW m \in Nodes, ~node'[m].is_leaf
        PROVE  /\ node'[m] = node[m] /\ ~node[m].is_leaf
               /\ \A i \in 1 .. Len(node[m].children) :
                    node'[node[m].children[i]].parent = node[node[m].children[i]].parent
    <3>1. node'[m] = node[m] /\ ~node[m].is_leaf
      BY <1>11, <2>2
    <3>2. \A i \in 1 .. Len(node[m].children) : node[m].children[i] \in Nodes
      BY <3>1 DEF Inner, InnerNode, Child, Shape
    <3> QED BY <1>11, <3>1, <3>2
  <2>3. ASSUME NEW m \in Nodes, ~node'[m].is_leaf
        PROVE  InnerNode(h, R, m)'
    <3>1. InnerNode(h, R, m)
      BY <2>2, <2>3 DEF Inner, Shape
    <3>2. ASSUME NEW i \in 1 .. Len(node[m].children) PROVE Child(h, R, m, i)'
      <4>1. Child(h, R, m, i)
        BY <3>1 DEF InnerNode
      <4> QED BY <1>9, <2>1, <2>2, <2>3, <4>1 DEF Child
    <3> QED BY <2>2, <2>3, <3>1, <3>2 DEF InnerNode
  <2> QED BY <1>9, <2>3 DEF Inner
<1>16. Parents' /\ Halves(h, R)'
  BY <1>1, <1>9, <1>10, <1>11 DEF Parents, ParentOf, Halves, Orphan, Shape
<1>17. Gains(key, value)
  <2>1. Gained(nd, t, t, key, value)
    BY <1>a, AddsGained
  <2>2. Gained(node[leaf], node'[leaf], node'[leaf], key, value)
    BY <1>9, <2>1
  <2>3. Nodes' = Nodes \union {leaf} /\ node'[leaf].is_leaf
    BY <1>9, <1>11
  <2>4. \A m \in Nodes : m # leaf => node'[m] = node[m]
    BY <1>9
  <2> QED BY <2>2, <2>3, <2>4, GainsLeaf
<1>18. Linked(R)'
  <2>1. Linked(R)
    BY DEF Shape
  <2> QED BY <1>9, <1>11, <2>1, ListKept
<1> QED BY <1>12, <1>13, <1>14, <1>15, <1>16, <1>17, <1>18 DEF Shape

(* A sequence of integers cut out of another one keeps its order. *)
LEMMA KeysCut ==
  ASSUME NEW ks \in Seq(Int), NEW a \in 1 .. Len(ks) + 1, NEW b \in Nat, b <= Len(ks), a <= b + 1
  PROVE  /\ SubSeq(ks, a, b) \in Seq(Int)
         /\ Len(SubSeq(ks, a, b)) = b + 1 - a
         /\ \A i \in 1 .. b + 1 - a : SubSeq(ks, a, b)[i] = ks[a + i - 1]
         /\ Increasing(ks) => Increasing(SubSeq(ks, a, b))
         /\ Ascending(ks) => Ascending(SubSeq(ks, a, b))
<1> DEFINE c == SubSeq(ks, a, b)
           n == b + 1 - a
<1>1. c \in Seq(Int) /\ Len(c) = n /\ n \in Nat
  OBVIOUS
<1>2. \A i \in 1 .. n : c[i] = ks[a + i - 1]
  OBVIOUS
<1> HIDE DEF c
<1>3. \A i \in 1 .. n : a + i - 1 \in 1 .. Len(ks)
  OBVIOUS
<1>4. \A i, j \in 1 .. n : i < j => a + i - 1 < a + j - 1
  OBVIOUS
<1> HIDE DEF n
<1>5. Increasing(ks) => Increasing(c)
  BY <1>1, <1>2, <1>3, <1>4 DEF Increasing
<1>6. Ascending(ks) => Ascending(c)
  BY <1>1, <1>2, <1>3, <1>4 DEF Ascending
<1> QED BY <1>1, <1>2, <1>5, <1>6 DEF c, n

(* The middle of a full node. *)
LEMMA HalfIs ==
  /\ Order \in Nat /\ Half \in Nat /\ MaxKeys \in Nat /\ MaxKeys = Order - 1
  /\ Half >= 1 /\ Half + 1 <= MaxKeys /\ Half + 2 <= Order + 1
BY OrderAssumption DEF Half, MaxKeys

(* The two leaves that a full leaf becomes. *)
LowerLeaf(t, right) == Leaf(SubSeq(t.keys, 1, Half), SubSeq(t.values, 1, Half), t.parent, right)
UpperLeaf(t) ==
  Leaf(SubSeq(t.keys, Half + 1, Order), SubSeq(t.values, Half + 1, Order), t.parent, t.next)

LEMMA LeafHalves ==
  ASSUME NEW t \in NodeType, Len(t.keys) = Order, Len(t.values) = Order, Increasing(t.keys),
         NEW right \in Nat
  PROVE  LET lower == LowerLeaf(t, right)
             upper == UpperLeaf(t)
             sep   == t.keys[Half + 1]
         IN  /\ sep \in Int
             /\ lower \in NodeType /\ lower.is_leaf = TRUE /\ lower.parent = t.parent
             /\ upper \in NodeType /\ upper.is_leaf = TRUE /\ upper.parent = t.parent
             /\ lower.next = right /\ upper.next = t.next
             /\ lower.children = <<>> /\ upper.children = <<>>
             /\ Len(lower.keys) = Half /\ Len(lower.values) = Half /\ Increasing(lower.keys)
             /\ Len(upper.keys) = Order - Half /\ Len(upper.values) = Order - Half
             /\ Increasing(upper.keys)
             /\ \A i \in 1 .. Half : /\ i \in 1 .. Order
                                     /\ lower.keys[i] = t.keys[i] /\ lower.values[i] = t.values[i]
                                     /\ t.keys[i] < sep
             /\ \A i \in 1 .. Order - Half : /\ Half + i \in 1 .. Order
                                             /\ upper.keys[i] = t.keys[Half + i]
                                             /\ upper.values[i] = t.values[Half + i]
                                             /\ t.keys[Half + i] >= sep
<1> DEFINE ks == t.keys
           vs == t.values
           lk == SubSeq(ks, 1, Half)
           uk == SubSeq(ks, Half + 1, Order)
           lv == SubSeq(vs, 1, Half)
           uv == SubSeq(vs, Half + 1, Order)
<1>1. ks \in Seq(Int) /\ vs \in Seq(Values) /\ Len(ks) = Order /\ Len(vs) = Order /\ Increasing(ks)
      /\ t.parent \in Nat /\ t.next \in Nat
  BY DEF NodeType
<1>2. /\ LowerLeaf(t, right) = Leaf(lk, lv, t.parent, right)
      /\ UpperLeaf(t) = Leaf(uk, uv, t.parent, t.next)
      /\ ks = t.keys /\ vs = t.values
  BY DEF LowerLeaf, UpperLeaf
<1> HIDE DEF ks, vs
<1>3. /\ 1 \in 1 .. Order + 1 /\ Half <= Order /\ 1 <= Half + 1 /\ Half + 1 - 1 = Half
      /\ Half + 1 \in 1 .. Order + 1 /\ Half + 1 <= Order + 1 /\ Order + 1 - (Half + 1) = Order - Half
      /\ Half + 1 \in 1 .. Order /\ Half \in Nat /\ Order \in Nat /\ Order - Half \in Nat
  BY HalfIs
<1>4. /\ lk \in Seq(Int) /\ Len(lk) = Half /\ Increasing(lk)
      /\ \A i \in 1 .. Half : lk[i] = ks[1 + i - 1]
  <2>1. 1 \in 1 .. Len(ks) + 1 /\ Half <= Len(ks) /\ 1 <= Half + 1
    BY <1>1, <1>3
  <2>2. /\ lk \in Seq(Int) /\ Len(lk) = Half + 1 - 1
        /\ \A i \in 1 .. Half + 1 - 1 : lk[i] = ks[1 + i - 1]
        /\ Increasing(ks) => Increasing(lk)
    BY <1>1, <1>3, <2>1, KeysCut, Zenon
  <2> HIDE DEF lk
  <2> QED BY <1>1, <1>3, <2>2
<1>5. /\ uk \in Seq(Int) /\ Len(uk) = Order - Half /\ Increasing(uk)
      /\ \A i \in 1 .. Order - Half : uk[i] = ks[(Half + 1) + i - 1]
  <2>1. Half + 1 \in 1 .. Len(ks) + 1 /\ Order <= Len(ks) /\ Half + 1 <= Order + 1
    BY <1>1, <1>3
  <2>2. /\ uk \in Seq(Int) /\ Len(uk) = Order + 1 - (Half + 1)
        /\ \A i \in 1 .. Order + 1 - (Half + 1) : uk[i] = ks[(Half + 1) + i - 1]
        /\ Increasing(ks) => Increasing(uk)
    BY <1>1, <1>3, <2>1, KeysCut, Zenon
  <2> HIDE DEF uk
  <2> QED BY <1>1, <1>3, <2>2
<1>6. /\ lv \in Seq(Values) /\ Len(lv) = Half
      /\ \A i \in 1 .. Half : lv[i] = vs[i]
  BY <1>1, <1>3, SubSeqIs
<1>7. /\ uv \in Seq(Values) /\ Len(uv) = Order - Half
      /\ \A i \in 1 .. Order - Half : uv[i] = vs[Half + i]
  BY <1>1, <1>3, SubSeqIs
<1> HIDE DEF lk, uk, lv, uv
<1>8. \A i \in 1 .. Half : i \in 1 .. Order /\ lk[i] = ks[i] /\ lv[i] = vs[i] /\ i < Half + 1
  <2> SUFFICES ASSUME NEW i \in 1 .. Half
               PROVE  i \in 1 .. Order /\ lk[i] = ks[i] /\ lv[i] = vs[i] /\ i < Half + 1
    OBVIOUS
  <2>1. 1 + i - 1 = i /\ i \in 1 .. Order /\ i < Half + 1
    BY <1>3
  <2> QED BY <1>4, <1>6, <2>1
<1>9. \A i \in 1 .. Order - Half : /\ Half + i \in 1 .. Order
                                   /\ uk[i] = ks[Half + i] /\ uv[i] = vs[Half + i]
                                   /\ Half + i = Half + 1 \/ Half + 1 < Half + i
  <2> SUFFICES ASSUME NEW i \in 1 .. Order - Half
               PROVE  /\ Half + i \in 1 .. Order
                      /\ uk[i] = ks[Half + i] /\ uv[i] = vs[Half + i]
                      /\ Half + i = Half + 1 \/ Half + 1 < Half + i
    OBVIOUS
  <2>1. (Half + 1) + i - 1 = Half + i /\ Half + i \in 1 .. Order
        /\ (Half + i = Half + 1 \/ Half + 1 < Half + i)
    BY <1>3
  <2> QED BY <1>5, <1>7, <2>1
<1>10. \A i \in 1 .. Order : ks[i] \in Int
  BY <1>1, ElementOf
<1>11. \A i \in 1 .. Half : ks[i] < ks[Half + 1]
  BY <1>1, <1>3, <1>8 DEF Increasing
<1>12. \A i \in 1 .. Order - Half : ks[Half + i] >= ks[Half + 1]
  <2> SUFFICES ASSUME NEW i \in 1 .. Order - Half PROVE ks[Half + i] >= ks[Half + 1]
    OBVIOUS
  <2>1. Half + i \in 1 .. Order /\ (Half + i = Half + 1 \/ Half + 1 < Half + i)
    BY <1>9
  <2>2. Half + 1 < Half + i => ks[Half + 1] < ks[Half + i]
    BY <1>1, <1>3, <2>1 DEF Increasing
  <2>3. ks[Half + 1] \in Int /\ ks[Half + i] \in Int
    BY <1>3, <1>10, <2>1
  <2> QED BY <2>1, <2>2, <2>3
<1>13. /\ LowerLeaf(t, right) \in NodeType /\ UpperLeaf(t) \in NodeType
       /\ LowerLeaf(t, right).is_leaf = TRUE /\ UpperLeaf(t).is_leaf = TRUE
       /\ LowerLeaf(t, right).parent = t.parent /\ UpperLeaf(t).parent = t.parent
       /\ LowerLeaf(t, right).next = right /\ UpperLeaf(t).next = t.next
       /\ LowerLeaf(t, right).children = <<>> /\ UpperLeaf(t).children = <<>>
       /\ LowerLeaf(t, right).keys = lk /\ LowerLeaf(t, right).values = lv
       /\ UpperLeaf(t).keys = uk /\ UpperLeaf(t).values = uv
  BY <1>1, <1>2, <1>4, <1>5, <1>6, <1>7 DEF Leaf, NodeType
<1>14. ks[Half + 1] \in Int
  BY <1>3, <1>10
<1>15. /\ \A i \in 1 .. Half : i \in 1 .. Order /\ lk[i] = ks[i] /\ lv[i] = vs[i] /\ ks[i] < ks[Half + 1]
       /\ \A i \in 1 .. Order - Half : /\ Half + i \in 1 .. Order
                                       /\ uk[i] = ks[Half + i] /\ uv[i] = vs[Half + i]
                                       /\ ks[Half + i] >= ks[Half + 1]
  BY <1>8, <1>9, <1>11, <1>12
<1> QED BY <1>2, <1>4, <1>5, <1>6, <1>7, <1>13, <1>14, <1>15, Zenon

(* The two leaves have the entries of the one. *)
LEMMA HalvesHave ==
  ASSUME NEW t \in NodeType, Len(t.keys) = Order, Len(t.values) = Order, Increasing(t.keys),
         NEW right \in Nat, NEW lower, lower = LowerLeaf(t, right), NEW upper, upper = UpperLeaf(t),
         NEW k, NEW v
  PROVE  HasEntry(lower, k, v) \/ HasEntry(upper, k, v) <=> HasEntry(t, k, v)
<1>1. /\ lower \in NodeType /\ upper \in NodeType
      /\ Len(lower.keys) = Half /\ Len(upper.keys) = Order - Half
  BY LeafHalves
<1>2. /\ \A i \in 1 .. Half : /\ i \in 1 .. Order
                              /\ lower.keys[i] = t.keys[i] /\ lower.values[i] = t.values[i]
      /\ \A i \in 1 .. Order - Half : /\ Half + i \in 1 .. Order
                                      /\ upper.keys[i] = t.keys[Half + i]
                                      /\ upper.values[i] = t.values[Half + i]
  <2> DEFINE lw == LowerLeaf(t, right)
             uw == UpperLeaf(t)
  <2>1. /\ \A i \in 1 .. Half : /\ i \in 1 .. Order
                                /\ lw.keys[i] = t.keys[i] /\ lw.values[i] = t.values[i]
                                /\ t.keys[i] < t.keys[Half + 1]
        /\ \A i \in 1 .. Order - Half : /\ Half + i \in 1 .. Order
                                        /\ uw.keys[i] = t.keys[Half + i]
                                        /\ uw.values[i] = t.values[Half + i]
                                        /\ t.keys[Half + i] >= t.keys[Half + 1]
    BY LeafHalves, Zenon
  <2>2. lower = lw /\ upper = uw
    OBVIOUS
  <2> HIDE DEF lw, uw
  <2> QED BY <2>1, <2>2, Zenon
<1>3. DOMAIN lower.keys = 1 .. Half /\ DOMAIN upper.keys = 1 .. Order - Half /\ DOMAIN t.keys = 1 .. Order
  BY <1>1 DEF NodeType
<1>4. HasEntry(lower, k, v) \/ HasEntry(upper, k, v) => HasEntry(t, k, v)
  BY <1>2, <1>3 DEF HasEntry
<1>5. ASSUME NEW j \in 1 .. Order, k = t.keys[j], v = t.values[j]
      PROVE  HasEntry(lower, k, v) \/ HasEntry(upper, k, v)
  <2>0. Half \in Nat /\ Order \in Nat
    BY HalfIs
  <2>1. CASE j <= Half
    <3>1. j \in 1 .. Half
      BY <2>0, <2>1
    <3> QED BY <1>2, <1>3, <1>5, <3>1 DEF HasEntry
  <2>2. CASE j > Half
    <3>1. PICK i \in 1 .. Order - Half : Half + i = j
      <4>1. j - Half \in 1 .. Order - Half /\ Half + (j - Half) = j
        BY <2>0, <2>2
      <4> QED BY <4>1
    <3> QED BY <1>2, <1>3, <1>5, <3>1 DEF HasEntry
  <2> QED BY <2>0, <2>1, <2>2
<1> QED BY <1>3, <1>4, <1>5 DEF HasEntry

(* A node more at the end of the heap. *)
LEMMA HeapGrows ==
  ASSUME NEW f \in Seq(NodeType), NEW nd \in NodeType
  PROVE  /\ Append(f, nd) \in Seq(NodeType)
         /\ Len(Append(f, nd)) = Len(f) + 1
         /\ DOMAIN Append(f, nd) = (1 .. Len(f)) \union {Len(f) + 1}
         /\ Append(f, nd)[Len(f) + 1] = nd
         /\ \A n \in 1 .. Len(f) : Append(f, nd)[n] = f[n]
OBVIOUS

(* A full leaf is split; the right half is not in the tree yet. *)
LEMMA SplitLeafShape ==
  ASSUME NEW h, NEW R, Shape(h, R), Idle, NEW leaf \in Nodes, node[leaf].is_leaf,
         NEW key \in R[leaf], NEW value \in Values,
         bptree_split_leaf_and_insert(leaf, key, value), returned' = 2
  PROVE  TreeInv' /\ Gains(key, value)
<1>0. node[leaf] \in NodeType /\ Len(node) \in Nat
  BY NodesAre DEF Shape
<1> PICK nd \in NodeType : nd = node[leaf]
  BY <1>0
<1> PICK r \in Nat : r = Len(node) + 1
  BY <1>0
<1> PICK t : t = WithEntry(nd, key, value)
  OBVIOUS
<1>a. /\ ~Contains(nd.keys, key) /\ Len(nd.keys) >= MaxKeys
      /\ node' = Append([node EXCEPT ![leaf] = LowerLeaf(t, r)], UpperLeaf(t))
      /\ promotion' = [left |-> leaf, key |-> t.keys[Half + 1], right |-> r]
      /\ root' = root
  BY DEF bptree_split_leaf_and_insert, Promote, Return, CallocRefuses, LowerLeaf, UpperLeaf
<1>1. /\ node \in Seq(NodeType) /\ Nodes = 1 .. Len(node) /\ Len(node) \in Nat
      /\ root \in Nodes /\ root # Null /\ root \in Nat
  BY NodesAre DEF Shape, Types, Nodes
<1>2. key \in Int /\ R \in [Nodes -> SUBSET Int] /\ R[leaf] \subseteq Int /\ R[root] = Int
      /\ h \in [Nodes -> Nat] /\ h[leaf] = 0
  BY <1>1 DEF Shape, Places, Heights, Covered
<1>3. /\ Len(nd.values) = Len(nd.keys) /\ Increasing(nd.keys) /\ Len(nd.keys) <= MaxKeys
      /\ \A i \in 1 .. Len(nd.keys) : nd.keys[i] \in R[leaf]
  BY DEF Shape, Leaves
<1>4. Len(nd.keys) = MaxKeys /\ MaxKeys + 1 = Order
  <2>1. Len(nd.keys) \in Nat
    BY DEF NodeType
  <2>2. MaxKeys \in Nat /\ MaxKeys + 1 = Order
    BY HalfIs
  <2> QED BY <1>a, <1>3, <2>1, <2>2
<1>5. /\ t \in NodeType
      /\ t.parent = nd.parent /\ t.next = nd.next
      /\ Len(t.keys) = Len(nd.keys) + 1 /\ Len(t.values) = Len(nd.keys) + 1
      /\ Increasing(t.keys)
      /\ Adds(nd, t, key, value)
  <2>1. ~Contains(nd.keys, key)
    BY <1>a
  <2>2. key \in Int
    BY <1>2
  <2>3. Len(nd.values) = Len(nd.keys) /\ Increasing(nd.keys)
    BY <1>3
  <2> QED BY <2>1, <2>2, <2>3, WithEntryIs
<1>b. \A j \in 1 .. Len(nd.keys) + 1 :
        t.keys[j] = key \/ \E i \in 1 .. Len(nd.keys) : t.keys[j] = nd.keys[i]
  <2>1. Adds(nd, t, key, value)
    BY <1>5
  <2> QED BY <2>1, Zenon DEF Adds
<1>6. \A j \in 1 .. Order : t.keys[j] \in R[leaf]
  BY <1>3, <1>4, <1>b
<1> DEFINE lower == LowerLeaf(t, r)
           upper == UpperLeaf(t)
           sep == t.keys[Half + 1]
<1>7. /\ sep \in Int /\ sep \in R[leaf]
      /\ lower \in NodeType /\ lower.is_leaf = TRUE /\ lower.parent = t.parent
      /\ upper \in NodeType /\ upper.is_leaf = TRUE /\ upper.parent = t.parent
      /\ lower.next = r /\ upper.next = t.next
      /\ Len(lower.keys) = Half /\ Len(lower.values) = Half /\ Increasing(lower.keys)
      /\ Len(upper.keys) = Order - Half /\ Len(upper.values) = Order - Half
      /\ Increasing(upper.keys)
  <2>1. Half + 1 \in 1 .. Order /\ r \in Nat
    BY <1>1, HalfIs
  <2>2. Len(t.keys) = Order /\ Len(t.values) = Order
    BY <1>4, <1>5
  <2> QED BY <1>5, <1>6, <2>1, <2>2, LeafHalves
<1>8. /\ \A i \in 1 .. Half : lower.keys[i] \in R[leaf] /\ lower.keys[i] < sep
      /\ \A i \in 1 .. Order - Half : upper.keys[i] \in R[leaf] /\ upper.keys[i] >= sep
  <2>1. Len(t.keys) = Order /\ Len(t.values) = Order
    BY <1>4, <1>5
  <2>2. /\ \A i \in 1 .. Half : /\ i \in 1 .. Order
                                /\ lower.keys[i] = t.keys[i] /\ lower.values[i] = t.values[i]
                                /\ t.keys[i] < sep
        /\ \A i \in 1 .. Order - Half : /\ Half + i \in 1 .. Order
                                        /\ upper.keys[i] = t.keys[Half + i]
                                        /\ upper.values[i] = t.values[Half + i]
                                        /\ t.keys[Half + i] >= sep
    BY <1>5, <2>1, LeafHalves, Zenon
  <2> HIDE DEF lower, upper, sep
  <2> QED BY <1>6, <2>2
<1> HIDE DEF lower, upper, sep
<1>9. /\ node' \in Seq(NodeType) /\ Nodes' = Nodes \union {r} /\ r \notin Nodes /\ r \in Nat
      /\ node'[leaf] = lower /\ node'[r] = upper
      /\ \A m \in Nodes : m # leaf => node'[m] = node[m]
  <2>1. node' = Append([node EXCEPT ![leaf] = lower], upper)
    BY <1>a DEF lower, upper
  <2> DEFINE f == [node EXCEPT ![leaf] = lower]
  <2>2. f \in Seq(NodeType) /\ Len(f) = Len(node) /\ f[leaf] = lower
        /\ \A m \in Nodes : m # leaf => f[m] = node[m]
    BY <1>1, <1>7
  <2> HIDE DEF f
  <2>3. /\ Append(f, upper) \in Seq(NodeType)
        /\ DOMAIN Append(f, upper) = (1 .. Len(f)) \union {Len(f) + 1}
        /\ Append(f, upper)[Len(f) + 1] = upper
        /\ \A n \in 1 .. Len(f) : Append(f, upper)[n] = f[n]
    BY <1>7, <2>2, HeapGrows
  <2>4. node' = Append(f, upper)
    BY <2>1 DEF f
  <2>5. r = Len(f) + 1 /\ Nodes = 1 .. Len(f) /\ r \notin 1 .. Len(f) /\ r \in Nat
    BY <1>1, <2>2
  <2> QED BY <2>2, <2>3, <2>4, <2>5 DEF Nodes
<1>10. /\ \A m \in Nodes : /\ node'[m].is_leaf = node[m].is_leaf
                           /\ node'[m].parent = node[m].parent
       /\ \A m \in Nodes : ~node[m].is_leaf => node'[m] = node[m] /\ m # leaf
  <2>1. nd.is_leaf = TRUE
    BY DEF NodeType
  <2> QED BY <1>5, <1>7, <1>9, <2>1
<1>11. /\ ~Idle' /\ promotion' \in Promotions
       /\ promotion'.left = leaf /\ promotion'.right = r /\ promotion'.key = sep
  <2>1. promotion' = [left |-> leaf, key |-> sep, right |-> r] /\ leaf \in Nat
    BY <1>a, <1>1 DEF sep
  <2>2. promotion' \in [left : Nat, key : Int, right : Nat]
    BY <1>7, <1>9, <2>1
  <2> QED BY <2>1, <2>2, NothingAssumption DEF Idle, Promotions
<1>12. PICK g : g = [n \in Nodes \union {r} |-> IF n = r THEN 0 ELSE h[n]]
  OBVIOUS
<1>13. PICK Q : Q = [n \in Nodes \union {r} |->
                       IF n = leaf THEN {k \in R[leaf] : k < sep}
                       ELSE IF n = r THEN {k \in R[leaf] : k >= sep} ELSE R[n]]
  OBVIOUS
<1>14. /\ g \in [Nodes \union {r} -> Nat] /\ g[r] = 0 /\ \A n \in Nodes : g[n] = h[n]
  BY <1>2, <1>9, <1>12
<1>15. /\ Q[leaf] = {k \in R[leaf] : k < sep} /\ Q[r] = {k \in R[leaf] : k >= sep}
       /\ \A n \in Nodes : n # leaf => Q[n] = R[n]
       /\ Q \in [Nodes \union {r} -> SUBSET Int]
  BY <1>2, <1>9, <1>13
<1>16. Q[leaf] \union Q[r] = R[leaf] /\ Q[leaf] \intersect Q[r] = {}
  BY <1>2, <1>7, <1>15
<1>17. /\ \A c \in Nodes : Covered(Q, c)' = R[c] /\ Covered(R, c) = R[c] /\ ~Orphan(c)' /\ ~Orphan(c)
       /\ Orphan(r)'
  BY <1>9, <1>11, <1>15, <1>16 DEF Covered, Orphan
<1>18. Types'
  BY <1>a, <1>1, <1>9, <1>11 DEF Types
<1>19. Heights(g)'
  <2>1. node'[r].is_leaf /\ \A n \in Nodes : node'[n].is_leaf = node[n].is_leaf
    BY <1>7, <1>9, <1>10
  <2>2. \A n \in Nodes : (node[n].is_leaf <=> h[n] = 0) /\ h[n] <= h[root]
    BY DEF Heights, Shape
  <2>3. root' = root /\ Nodes' = Nodes \union {r} /\ h[root] \in Nat
    BY <1>a, <1>1, <1>2, <1>9
  <2> QED BY <1>1, <1>14, <2>1, <2>2, <2>3 DEF Heights
<1>20. Places(g, Q)'
  <2>1. Covered(Q, root)' = Int
    BY <1>a, <1>1, <1>2, <1>17
  <2>2. ASSUME NEW n \in Nodes, NEW m \in Nodes, n # m, g[n] = g[m] PROVE Q[n] \intersect Q[m] = {}
    <3>1. R[n] \intersect R[m] = {}
      BY <1>14, <2>2 DEF Shape, Places
    <3>2. Q[n] \subseteq R[n] /\ Q[m] \subseteq R[m]
      BY <1>15
    <3> QED BY <3>1, <3>2
  <2>3. ASSUME NEW m \in Nodes, g[m] = 0 PROVE Q[r] \intersect Q[m] = {}
    <3>1. CASE m = leaf
      BY <1>16, <3>1
    <3>2. CASE m # leaf
      <4>1. R[leaf] \intersect R[m] = {}
        BY <1>2, <1>14, <2>3, <3>2 DEF Shape, Places
      <4> QED BY <1>15, <3>2, <4>1
    <3> QED BY <3>1, <3>2
  <2>4. \A n, m \in Nodes \union {r} : n # m /\ g[n] = g[m] => Q[n] \intersect Q[m] = {}
    BY <1>14, <2>2, <2>3
  <2>5. \A n \in Nodes \union {r} : Q[n] # {}
    <3>1. lower.keys[1] \in Q[leaf] /\ upper.keys[1] \in Q[r]
      BY <1>8, <1>15, HalfIs
    <3>2. \A n \in Nodes : n # leaf => Q[n] # {}
      BY <1>15 DEF Shape, Places
    <3> QED BY <3>1, <3>2
  <2> QED BY <1>a, <1>1, <1>9, <1>15, <2>1, <2>4, <2>5 DEF Places
<1>21. Leaves(Q)'
  <2> SUFFICES ASSUME NEW m \in Nodes \union {r}, node'[m].is_leaf
               PROVE  /\ Len(node'[m].values) = Len(node'[m].keys)
                      /\ Len(node'[m].keys) <= MaxKeys
                      /\ Increasing(node'[m].keys)
                      /\ \A i \in 1 .. Len(node'[m].keys) : node'[m].keys[i] \in Q[m]
    BY <1>9 DEF Leaves
  <2>0. Half <= MaxKeys /\ Order - Half <= MaxKeys
    BY HalfIs
  <2>1. CASE m = leaf
    BY <1>7, <1>8, <1>9, <1>15, <2>0, <2>1
  <2>2. CASE m = r
    BY <1>7, <1>8, <1>9, <1>15, <2>0, <2>2
  <2>3. CASE m # leaf /\ m # r
    <3>1. node'[m] = node[m] /\ m \in Nodes /\ Q[m] = R[m]
      BY <1>9, <1>15, <2>3
    <3> QED BY <3>1 DEF Shape, Leaves
  <2> QED BY <2>1, <2>2, <2>3
<1>22. Inner(g, Q)'
  <2>1. ASSUME NEW m \in Nodes \union {r}, ~node'[m].is_leaf PROVE InnerNode(g, Q, m)'
    <3>0. m \in Nodes /\ ~node[m].is_leaf /\ node'[m] = node[m] /\ m # leaf /\ Q[m] = R[m]
      BY <1>7, <1>9, <1>10, <1>15, <2>1
    <3>1. InnerNode(h, R, m)
      BY <3>0 DEF Inner, Shape
    <3>2. ASSUME NEW i \in 1 .. Len(node[m].children) PROVE Child(g, Q, m, i)'
      <4>1. Child(h, R, m, i)
        BY <3>1 DEF InnerNode
      <4>2. PICK c \in Nodes : c = node[m].children[i]
        BY <4>1 DEF Child
      <4>3. node[c].parent = m /\ h[m] = h[c] + 1 /\ Covered(R, c) = Slot(node[m], R[m], i)
        BY <4>1, <4>2 DEF Child
      <4>4. node'[c].parent = m /\ g[m] = g[c] + 1 /\ ~Orphan(c)' /\ c \in Nodes'
        BY <1>9, <1>10, <1>14, <1>17, <3>0, <4>3
      <4>5. Covered(Q, c)' = Slot(node'[m], Q[m], i) /\ c = node'[m].children[i]
        BY <1>17, <3>0, <4>2, <4>3
      <4> QED BY <4>4, <4>5 DEF Child
    <3> QED BY <3>0, <3>1, <3>2 DEF InnerNode
  <2> QED BY <1>9, <2>1 DEF Inner
<1>23. Parents'
  <2>1. ASSUME NEW m \in Nodes PROVE ParentOf(m)'
    <3>1. ParentOf(m)
      BY <1>17 DEF Shape, Parents
    <3>2. CASE m = root
      BY <1>a, <1>10, <3>1, <3>2 DEF ParentOf
    <3>3. CASE m # root
      <4>1. PICK q \in Nodes : /\ q = node[m].parent /\ ~node[q].is_leaf
                              /\ \E i \in 1 .. Len(node[q].children) : node[q].children[i] = m
        BY <3>1, <3>3 DEF ParentOf
      <4>2. q = node'[m].parent /\ node'[q] = node[q] /\ q \in Nodes'
        BY <1>9, <1>10, <4>1
      <4>3. root' = root
        BY <1>a
      <4>4. /\ ~node'[q].is_leaf
            /\ \E i \in 1 .. Len(node'[q].children) : node'[q].children[i] = m
        BY <4>1, <4>2
      <4> QED BY <3>3, <4>2, <4>3, <4>4 DEF ParentOf
    <3> QED BY <3>2, <3>3
  <2> QED BY <1>9, <1>17, <2>1 DEF Parents
<1>24. Halves(g, Q)'
  BY <1>a, <1>1, <1>2, <1>7, <1>9, <1>11, <1>14, <1>15 DEF Halves
<1>c. Linked(Q)'
  <2>1. Linked(R)
    BY DEF Shape
  <2>2. \A a \in Q[leaf], b \in Q[r] : a < b
    BY <1>2, <1>7, <1>15
  <2>3. Q[leaf] \subseteq R[leaf] /\ Q[r] \subseteq R[leaf]
    BY <1>15
  <2>4. node'[r].is_leaf /\ node'[r].next = node[leaf].next /\ node'[leaf].next = r
    BY <1>5, <1>7, <1>9
  <2>5. r \notin Nodes /\ Nodes' = Nodes \union {r}
    BY <1>9
  <2>6. \A n \in Nodes : node'[n].is_leaf = node[n].is_leaf
    BY <1>10
  <2>7. \A n \in Nodes : n # leaf => node'[n].next = node[n].next /\ Q[n] = R[n]
    BY <1>9, <1>15
  <2> QED BY <2>1, <2>2, <2>3, <2>4, <2>5, <2>6, <2>7, ListGrows
<1>25. Shape(g, Q)'
  BY <1>18, <1>19, <1>20, <1>21, <1>22, <1>23, <1>24, <1>c DEF Shape
<1>26. Gains(key, value)
  <2>1. Gained(nd, t, t, key, value)
    BY <1>5, AddsGained
  <2>2. Len(t.keys) = Order /\ Len(t.values) = Order
    BY <1>4, <1>5
  <2>3. \A k, v : HasEntry(lower, k, v) \/ HasEntry(upper, k, v) <=> HasEntry(t, k, v)
    BY <1>5, <2>2, HalvesHave DEF lower, upper
  <2>4. Gained(nd, lower, upper, key, value)
    BY <2>1, <2>3 DEF Gained
  <2>5. Gained(node[leaf], node'[leaf], node'[r], key, value)
    BY <1>9, <2>4
  <2>6. Nodes' = Nodes \union {r} /\ node'[leaf].is_leaf /\ node'[r].is_leaf /\ r \notin Nodes
    BY <1>7, <1>9
  <2>7. \A m \in Nodes : m # leaf => node'[m] = node[m]
    BY <1>9
  <2> QED BY <2>5, <2>6, <2>7, GainsLeaf
<1> QED BY <1>25, <1>26 DEF TreeInv

(* A split has a left half whose parent is known. *)
LEMMA PromotionIs ==
  ASSUME NEW h, NEW R, Shape(h, R), ~Idle
  PROVE  LET l == promotion.left
             r == promotion.right
         IN  /\ promotion.key \in Int
             /\ l \in Nodes /\ r \in Nodes /\ l # r /\ r # root /\ h[l] = h[r]
             /\ ~Orphan(l) /\ Orphan(r) /\ \A c \in Nodes : c # r => ~Orphan(c)
             /\ Covered(R, l) = R[l] \union R[r] /\ \A c \in Nodes : c # l => Covered(R, c) = R[c]
             /\ R[l] = {k \in Covered(R, l) : k < promotion.key}
             /\ R[r] = {k \in Covered(R, l) : k >= promotion.key}
             /\ R[l] # {} /\ R[r] # {}
             /\ ParentOf(l)
<1> DEFINE l == promotion.left
           r == promotion.right
<1>1. promotion.key \in Int
  BY DEF Shape, Types, Idle, Promotions
<1>2. /\ l \in Nodes /\ r \in Nodes /\ l # r /\ r # root /\ h[l] = h[r]
      /\ \A k \in R[l] : k < promotion.key
      /\ \A k \in R[r] : k >= promotion.key
  BY DEF Shape, Halves
<1>3. ~Orphan(l) /\ Orphan(r) /\ \A c \in Nodes : c # r => ~Orphan(c)
  BY <1>2 DEF Orphan
<1>4. Covered(R, l) = R[l] \union R[r] /\ \A c \in Nodes : c # l => Covered(R, c) = R[c]
  BY DEF Covered
<1>5. R[l] \subseteq Int /\ R[r] \subseteq Int /\ R[l] # {} /\ R[r] # {}
  BY <1>2 DEF Shape, Places
<1>6. ParentOf(l)
  BY <1>2, <1>3 DEF Shape, Parents
<1> HIDE DEF l, r
<1>7. /\ R[l] = {k \in Covered(R, l) : k < promotion.key}
      /\ R[r] = {k \in Covered(R, l) : k >= promotion.key}
  BY <1>1, <1>2, <1>4, <1>5
<1> QED BY <1>1, <1>2, <1>3, <1>4, <1>5, <1>6, <1>7, Zenon DEF l, r

LEMMA SlotKeys ==
  ASSUME NEW nd, NEW md, nd.keys = md.keys, NEW q, NEW i
  PROVE  Slot(nd, q, i) = Slot(md, q, i)
BY DEF Slot

LEMMA ReparentIs ==
  ASSUME NEW nd \in NodeType, NEW p \in Nat
  PROVE  LET md == [nd EXCEPT !.parent = p]
         IN  /\ md \in NodeType /\ md.is_leaf = nd.is_leaf /\ md.keys = nd.keys
             /\ md.values = nd.values /\ md.children = nd.children /\ md.parent = p
             /\ md.next = nd.next
BY DEF NodeType

(* The heap s with another parent for node l, and for two nodes. *)
Reparented(s, l, w) == [s EXCEPT ![l].parent = w]
BothReparented(s, l, r, w) == [s EXCEPT ![l].parent = w, ![r].parent = w]

(* Heap f is s but for parent pointers, and those of the nodes in T are w. *)
Adopted(f, s, T, w) ==
  /\ f \in Seq(NodeType) /\ Len(f) = Len(s)
  /\ \A m \in 1 .. Len(s) :
       /\ f[m].is_leaf = s[m].is_leaf /\ f[m].keys = s[m].keys
       /\ f[m].values = s[m].values /\ f[m].children = s[m].children /\ f[m].next = s[m].next
       /\ f[m].parent = IF m \in T THEN w ELSE s[m].parent

LEMMA OneParent ==
  ASSUME NEW s \in Seq(NodeType), NEW l \in 1 .. Len(s), NEW w \in Nat,
         NEW f, f = Reparented(s, l, w)
  PROVE  /\ f \in Seq(NodeType) /\ Len(f) = Len(s)
         /\ f[l] = [s[l] EXCEPT !.parent = w]
         /\ \A m \in 1 .. Len(s) : m # l => f[m] = s[m]
<1> DEFINE nd == [s[l] EXCEPT !.parent = w]
<1>1. s[l] \in NodeType
  OBVIOUS
<1>2. nd \in NodeType
  BY <1>1, ReparentIs
<1>3. f = [s EXCEPT ![l] = nd]
  BY DEF Reparented
<1> HIDE DEF nd
<1>4. /\ [s EXCEPT ![l] = nd] \in Seq(NodeType) /\ Len([s EXCEPT ![l] = nd]) = Len(s)
      /\ [s EXCEPT ![l] = nd][l] = nd
      /\ \A m \in 1 .. Len(s) : m # l => [s EXCEPT ![l] = nd][m] = s[m]
  BY <1>2
<1> QED BY <1>3, <1>4, Zenon DEF nd

LEMMA TwoParents ==
  ASSUME NEW s \in Seq(NodeType), NEW l \in 1 .. Len(s), NEW r \in 1 .. Len(s), l # r, NEW w \in Nat
  PROVE  Adopted(BothReparented(s, l, r, w), s, {l, r}, w)
<1>1. PICK f1 : f1 = Reparented(s, l, w)
  OBVIOUS
<1>2. PICK f : f = BothReparented(s, l, r, w)
  OBVIOUS
<1>3. f = Reparented(f1, r, w)
  BY <1>1, <1>2 DEF Reparented, BothReparented
<1>4. /\ f1 \in Seq(NodeType) /\ Len(f1) = Len(s)
      /\ f1[l] = [s[l] EXCEPT !.parent = w]
      /\ \A m \in 1 .. Len(s) : m # l => f1[m] = s[m]
  BY <1>1, OneParent
<1>5. /\ f \in Seq(NodeType) /\ Len(f) = Len(s)
      /\ f[r] = [f1[r] EXCEPT !.parent = w]
      /\ \A m \in 1 .. Len(s) : m # r => f[m] = f1[m]
  BY <1>3, <1>4, OneParent
<1>6. \A m \in 1 .. Len(s) : s[m] \in NodeType
  OBVIOUS
<1>7. \A m \in 1 .. Len(s) : LET md == [s[m] EXCEPT !.parent = w]
         IN  /\ md.is_leaf = s[m].is_leaf /\ md.keys = s[m].keys
             /\ md.values = s[m].values /\ md.children = s[m].children /\ md.parent = w
             /\ md.next = s[m].next
  BY <1>6, ReparentIs, Zenon
<1>8. f[l] = [s[l] EXCEPT !.parent = w] /\ f[r] = [s[r] EXCEPT !.parent = w]
      /\ \A m \in 1 .. Len(s) : m \notin {l, r} => f[m] = s[m]
  BY <1>4, <1>5
<1>9. ASSUME NEW m \in 1 .. Len(s)
      PROVE  /\ f[m].is_leaf = s[m].is_leaf /\ f[m].keys = s[m].keys
             /\ f[m].values = s[m].values /\ f[m].children = s[m].children
             /\ f[m].next = s[m].next
             /\ f[m].parent = IF m \in {l, r} THEN w ELSE s[m].parent
  <2>1. CASE m \in {l, r}
    <3>1. f[m] = [s[m] EXCEPT !.parent = w]
      BY <1>8, <2>1
    <3> QED BY <1>7, <2>1, <3>1, Zenon
  <2>2. CASE m \notin {l, r}
    BY <1>8, <2>2, Zenon
  <2> QED BY <2>1, <2>2
<1> QED BY <1>2, <1>5, <1>9 DEF Adopted

(* A new root over the two halves of the old one. *)
LEMMA NewRootShape ==
  ASSUME NEW h, NEW R, Shape(h, R), ~Idle, node[promotion.left].parent = Null,
         bptree_create_new_root(promotion.left, promotion.key, promotion.right), returned' = 1
  PROVE  TreeInv' /\ Entries' = Entries
<1> PICK l : l = promotion.left
  OBVIOUS
<1> PICK r : r = promotion.right
  OBVIOUS
<1> PICK key : key = promotion.key
  OBVIOUS
<1>1. /\ key \in Int /\ l \in Nodes /\ r \in Nodes /\ l # r /\ h[l] = h[r]
      /\ \A c \in Nodes : c # r => ~Orphan(c)
      /\ Covered(R, l) = R[l] \union R[r] /\ \A c \in Nodes : c # l => Covered(R, c) = R[c]
      /\ R[l] = {k \in Covered(R, l) : k < key} /\ R[r] = {k \in Covered(R, l) : k >= key}
      /\ ParentOf(l) /\ Orphan(r)
  BY PromotionIs
<1>2. /\ node \in Seq(NodeType) /\ Nodes = 1 .. Len(node) /\ Len(node) \in Nat /\ Null \notin Nodes
      /\ \A n \in Nodes : node[n] \in NodeType
  BY NodesAre DEF Shape, Types
<1>3. l = root
  BY <1>1, <1>2 DEF ParentOf
<1>4. /\ h \in [Nodes -> Nat] /\ R \in [Nodes -> SUBSET Int]
      /\ \A n \in Nodes : (node[n].is_leaf <=> h[n] = 0) /\ h[n] <= h[l]
      /\ \A n, m \in Nodes : n # m /\ h[n] = h[m] => R[n] \intersect R[m] = {}
      /\ Covered(R, l) = Int
  BY <1>1, <1>2, <1>3 DEF Shape, Heights, Places
<1>5. R[l] = {k \in Int : k < key} /\ R[r] = {k \in Int : k >= key}
  BY <1>1, <1>4
<1> PICK w \in Nat : w = Len(node) + 1
  BY <1>2
<1> PICK top : top = Internal(<<key>>, <<l, r>>, Null)
  OBVIOUS
<1>6. /\ node' = Append([node EXCEPT ![l].parent = w, ![r].parent = w], top)
      /\ root' = w /\ promotion' = Nothing
  <2>1. bptree_create_new_root(l, key, r)
    OBVIOUS
  <2>2. ~CallocRefuses("root")
    BY DEF CallocRefuses, Return
  <2> QED BY <2>1, <2>2 DEF bptree_create_new_root, Return
<1>7. /\ top \in NodeType /\ top.is_leaf = FALSE /\ top.keys = <<key>> /\ top.children = <<l, r>>
      /\ top.parent = Null
  <2>1. l \in Nat /\ r \in Nat
    BY <1>1, <1>2
  <2>2. <<key>> \in Seq(Int) /\ <<l, r>> \in Seq(Nat) /\ <<>> \in Seq(Values)
    BY <1>1, <2>1
  <2> QED BY <2>2 DEF Internal, NodeType, Null
<1>8. /\ node' \in Seq(NodeType) /\ Nodes' = Nodes \union {w} /\ w \notin Nodes
      /\ node'[w] = top
      /\ \A m \in Nodes : /\ node'[m].is_leaf = node[m].is_leaf /\ node'[m].keys = node[m].keys
                          /\ node'[m].values = node[m].values
                          /\ node'[m].children = node[m].children /\ node'[m].next = node[m].next
                          /\ m \notin {l, r} => node'[m].parent = node[m].parent
      /\ node'[l].parent = w /\ node'[r].parent = w
  <2> PICK f : f = BothReparented(node, l, r, w)
    OBVIOUS
  <2>a. node \in Seq(NodeType) /\ l \in 1 .. Len(node) /\ r \in 1 .. Len(node) /\ l # r
    BY <1>1, <1>2
  <2>b. Adopted(f, node, {l, r}, w)
    BY <2>a, TwoParents
  <2>0. f \in Seq(NodeType) /\ Len(f) = Len(node)
    BY <2>b DEF Adopted
  <2>1. /\ \A m \in Nodes : /\ f[m].is_leaf = node[m].is_leaf /\ f[m].keys = node[m].keys
                            /\ f[m].values = node[m].values /\ f[m].children = node[m].children
                            /\ f[m].next = node[m].next
                            /\ m \notin {l, r} => f[m].parent = node[m].parent
        /\ f[l].parent = w /\ f[r].parent = w
    BY <1>2, <2>a, <2>b DEF Adopted
  <2>2. /\ Append(f, top) \in Seq(NodeType)
        /\ DOMAIN Append(f, top) = (1 .. Len(f)) \union {Len(f) + 1}
        /\ Append(f, top)[Len(f) + 1] = top
        /\ \A n \in 1 .. Len(f) : Append(f, top)[n] = f[n]
    BY <1>7, <2>0, HeapGrows
  <2>3. node' = Append(f, top)
    BY <1>6 DEF BothReparented
  <2>4. w = Len(f) + 1 /\ Nodes = 1 .. Len(f) /\ w \notin 1 .. Len(f)
    BY <1>2, <2>0
  <2> QED BY <1>1, <2>1, <2>2, <2>3, <2>4 DEF Nodes
<1>9. Idle' /\ \A c : ~Orphan(c)' /\ \A Q : Covered(Q, c)' = Q[c]
  BY <1>6 DEF Idle, Orphan, Covered
<1>10. PICK g : g = [n \in Nodes \union {w} |-> IF n = w THEN h[l] + 1 ELSE h[n]]
  OBVIOUS
<1>11. PICK Q : Q = [n \in Nodes \union {w} |-> IF n = w THEN Int ELSE R[n]]
  OBVIOUS
<1>12. /\ g \in [Nodes \union {w} -> Nat] /\ g[w] = h[l] + 1 /\ \A n \in Nodes : g[n] = h[n]
  BY <1>1, <1>4, <1>8, <1>10
<1>13. /\ Q \in [Nodes \union {w} -> SUBSET Int] /\ Q[w] = Int /\ \A n \in Nodes : Q[n] = R[n]
  BY <1>4, <1>8, <1>11
<1>14. Types'
  BY <1>2, <1>6, <1>8, <1>9 DEF Types, Null
<1>15. h[l] \in Nat /\ \A n \in Nodes : h[n] \in Nat /\ g[n] # g[w] /\ g[n] <= g[w]
  BY <1>1, <1>4, <1>12
<1>16. Heights(g)'
  <2>1. ASSUME NEW m \in Nodes PROVE (node'[m].is_leaf <=> g[m] = 0) /\ g[m] <= g[w]
    BY <1>4, <1>8, <1>12, <1>15
  <2>2. (node'[w].is_leaf <=> g[w] = 0) /\ g[w] <= g[w]
    BY <1>7, <1>8, <1>12, <1>15
  <2> QED BY <1>6, <1>8, <1>12, <2>1, <2>2 DEF Heights
<1>17. Places(g, Q)'
  <2>1. Covered(Q, root)' = Int
    BY <1>6, <1>9, <1>13
  <2>2. \A n, m \in Nodes \union {w} : n # m /\ g[n] = g[m] => Q[n] \intersect Q[m] = {}
    BY <1>4, <1>12, <1>13, <1>15
  <2>3. \A n \in Nodes \union {w} : Q[n] # {}
    BY <1>13 DEF Shape, Places
  <2> QED BY <1>8, <1>13, <2>1, <2>2, <2>3 DEF Places
<1>18. Leaves(Q)'
  <2> SUFFICES ASSUME NEW m \in Nodes \union {w}, node'[m].is_leaf
               PROVE  /\ Len(node'[m].values) = Len(node'[m].keys)
                      /\ Len(node'[m].keys) <= MaxKeys
                      /\ Increasing(node'[m].keys)
                      /\ \A i \in 1 .. Len(node'[m].keys) : node'[m].keys[i] \in Q[m]
    BY <1>8 DEF Leaves
  <2>1. m \in Nodes /\ node[m].is_leaf /\ node'[m].keys = node[m].keys
        /\ node'[m].values = node[m].values /\ Q[m] = R[m]
    BY <1>7, <1>8, <1>13
  <2> QED BY <2>1 DEF Leaves, Shape
<1>19. ASSUME NEW m \in Nodes, ~node'[m].is_leaf PROVE InnerNode(g, Q, m)'
  <2>1. InnerNode(h, R, m)
    BY <1>8, <1>19 DEF Inner, Shape
  <2>2. ASSUME NEW i \in 1 .. Len(node[m].children) PROVE Child(g, Q, m, i)'
    <3>1. Child(h, R, m, i)
      BY <2>1, <2>2 DEF InnerNode
    <3>2. PICK c \in Nodes : c = node[m].children[i]
      BY <3>1 DEF Child
    <3>3. /\ node[c].parent = m /\ h[m] = h[c] + 1 /\ Covered(R, c) = Slot(node[m], R[m], i)
          /\ ~Orphan(c)
      BY <3>1, <3>2 DEF Child
    <3>4. c # l /\ c # r
      BY <1>1, <1>2, <3>3
    <3>5. node'[c].parent = m /\ g[m] = g[c] + 1 /\ c \in Nodes' /\ c = node'[m].children[i]
      BY <1>8, <1>12, <3>2, <3>3, <3>4
    <3>6. Covered(Q, c)' = R[c] /\ R[c] = Slot(node[m], R[m], i) /\ Q[m] = R[m]
      BY <1>1, <1>9, <1>13, <3>3, <3>4
    <3>7. Slot(node'[m], R[m], i) = Slot(node[m], R[m], i)
      <4>1. node'[m].keys = node[m].keys
        BY <1>8
      <4> QED BY <4>1 DEF Slot
    <3> QED BY <1>9, <3>5, <3>6, <3>7 DEF Child
  <2> QED BY <1>8, <2>1, <2>2 DEF InnerNode
<1>20. InnerNode(g, Q, w)'
  <2>1. /\ Len(<<key>>) = 1 /\ Len(<<l, r>>) = 2 /\ <<l, r>>[1] = l /\ <<l, r>>[2] = r
        /\ <<key>>[1] = key /\ 1 <= MaxKeys
    BY HalfIs
  <2>2. Ascending(<<key>>)
    BY <2>1 DEF Ascending
  <2>3. Slot(top, Int, 1) = R[l] /\ Slot(top, Int, 2) = R[r]
    BY <1>1, <1>5, <1>7, <2>1 DEF Slot
  <2>4. Child(g, Q, w, 1)'
    <3>1. node'[w].children[1] = l
      BY <1>7, <1>8, <2>1
    <3>2. Covered(Q, l)' = Slot(node'[w], Q[w], 1)
      BY <1>1, <1>8, <1>9, <1>13, <2>3
    <3>3. l \in Nodes' /\ node'[l].parent = w /\ g[w] = g[l] + 1 /\ ~Orphan(l)'
      BY <1>1, <1>8, <1>9, <1>12
    <3> QED BY <3>1, <3>2, <3>3 DEF Child
  <2>5. Child(g, Q, w, 2)'
    <3>1. node'[w].children[2] = r
      BY <1>7, <1>8, <2>1
    <3>2. Covered(Q, r)' = Slot(node'[w], Q[w], 2)
      BY <1>1, <1>8, <1>9, <1>13, <2>3
    <3>3. r \in Nodes' /\ node'[r].parent = w /\ g[w] = g[r] + 1 /\ ~Orphan(r)'
      BY <1>1, <1>8, <1>9, <1>12
    <3> QED BY <3>1, <3>2, <3>3 DEF Child
  <2>6. \A i \in 1 .. 2 : i = 1 \/ i = 2
    OBVIOUS
  <2>7. \A i \in 1 .. 2 : Child(g, Q, w, i)'
    BY <2>4, <2>5, <2>6
  <2>8. \A i, j \in 1 .. 2 : <<l, r>>[i] = <<l, r>>[j] => i = j
    BY <1>1, <2>1, <2>6
  <2>9. /\ Len(node'[w].children) = 2 /\ Len(node'[w].keys) = 1
        /\ node'[w].children = <<l, r>> /\ node'[w].keys = <<key>>
    BY <1>7, <1>8, <2>1
  <2> QED BY <2>1, <2>2, <2>7, <2>8, <2>9 DEF InnerNode
<1>21. Inner(g, Q)'
  BY <1>8, <1>19, <1>20 DEF Inner
<1>22. ASSUME NEW m \in Nodes PROVE ParentOf(m)'
  <2>0. m # root'
    BY <1>6, <1>8
  <2>1. CASE m \in {l, r}
    <3>1. <<l, r>>[1] = l /\ <<l, r>>[2] = r /\ Len(<<l, r>>) = 2 /\ 1 \in 1 .. 2 /\ 2 \in 1 .. 2
      OBVIOUS
    <3>2. /\ node'[m].parent = w /\ w \in Nodes' /\ ~node'[w].is_leaf
          /\ node'[w].children = <<l, r>>
      BY <1>7, <1>8, <2>1
    <3>3. \E i \in 1 .. Len(node'[w].children) : node'[w].children[i] = m
      BY <2>1, <3>1, <3>2
    <3> QED BY <2>0, <3>2, <3>3 DEF ParentOf
  <2>2. CASE m \notin {l, r}
    <3>1. ParentOf(m)
      BY <1>1, <2>2 DEF Shape, Parents
    <3>2. PICK q \in Nodes : /\ q = node[m].parent /\ ~node[q].is_leaf
                            /\ \E i \in 1 .. Len(node[q].children) : node[q].children[i] = m
      BY <1>3, <2>2, <3>1 DEF ParentOf
    <3>3. q = node'[m].parent /\ q \in Nodes' /\ ~node'[q].is_leaf
          /\ \E i \in 1 .. Len(node'[q].children) : node'[q].children[i] = m
      BY <1>8, <2>2, <3>2
    <3> QED BY <2>0, <3>3 DEF ParentOf
  <2> QED BY <2>1, <2>2
<1>23. ParentOf(w)'
  BY <1>6, <1>7, <1>8 DEF ParentOf
<1>24. Parents' /\ Halves(g, Q)'
  BY <1>8, <1>9, <1>22, <1>23 DEF Parents, Halves
<1>a. Linked(Q)'
  <2>1. \A n \in Nodes' : node'[n].is_leaf => n \in Nodes /\ node[n].is_leaf
    BY <1>7, <1>8
  <2>2. Linked(R)
    BY DEF Shape
  <2>3. \A n \in Nodes : node[n].is_leaf =>
          n \in Nodes' /\ node'[n].is_leaf /\ node'[n].next = node[n].next /\ Q[n] = R[n]
    BY <1>8, <1>13
  <2> QED BY <2>1, <2>2, <2>3, ListKept
<1>25. Shape(g, Q)'
  BY <1>14, <1>16, <1>17, <1>18, <1>21, <1>24, <1>a DEF Shape
<1>26. SameLeaves
  BY <1>7, <1>8 DEF SameLeaves
<1> QED BY <1>25, <1>26, SameEntries DEF TreeInv

-----------------------------------------------------------------------------
(* An internal node with one more child.                                   *)

(* The keys of the set r that separators ks send to the i-th child. *)
Zone(ks, r, i) == {k \in r : (i > 1 => k >= ks[i - 1]) /\ (i <= Len(ks) => k < ks[i])}

LEMMA SlotIsZone ==
  ASSUME NEW nd, NEW r, NEW i
  PROVE  Slot(nd, r, i) = Zone(nd.keys, r, i)
BY DEF Slot, Zone

(* A separator within the i-th zone comes between its neighbours. *)
LEMMA OneMoreAscends ==
  ASSUME NEW n \in Nat, NEW ks, NEW us, NEW i \in 1 .. n + 1, NEW key \in Int,
         \A j \in 1 .. n : ks[j] \in Int, \A j, m \in 1 .. n : j < m => ks[j] <= ks[m],
         us[i] = key,
         \A j \in 1 .. i - 1 : us[j] = ks[j],
         \A j \in i + 1 .. n + 1 : us[j] = ks[j - 1],
         i > 1 => ks[i - 1] <= key, i <= n => key <= ks[i],
         NEW a \in 1 .. n + 1, NEW b \in 1 .. n + 1, a < b
  PROVE  us[a] <= us[b]
<1>1. CASE b < i
  <2>1. a \in 1 .. i - 1 /\ b \in 1 .. i - 1 /\ a \in 1 .. n /\ b \in 1 .. n
    BY <1>1
  <2> QED BY <2>1
<1>2. CASE b = i
  <2>1. a \in 1 .. i - 1 /\ a \in 1 .. n /\ i - 1 \in 1 .. n /\ i > 1 /\ (a = i - 1 \/ a < i - 1)
    BY <1>2
  <2>2. ks[a] <= ks[i - 1] /\ ks[a] \in Int /\ ks[i - 1] \in Int
    BY <2>1
  <2> QED BY <1>2, <2>1, <2>2
<1>3. CASE a < i /\ b > i
  <2>1. /\ a \in 1 .. i - 1 /\ a \in 1 .. n /\ b \in i + 1 .. n + 1 /\ b - 1 \in 1 .. n
        /\ a < b - 1
    BY <1>3
  <2>2. us[b] = ks[b - 1] /\ us[a] = ks[a]
    BY <2>1
  <2> QED BY <2>1, <2>2
<1>4. CASE a = i
  <2>1. b \in i + 1 .. n + 1 /\ b - 1 \in 1 .. n /\ i \in 1 .. n /\ i <= n
        /\ (i = b - 1 \/ i < b - 1)
    BY <1>4
  <2>2. ks[i] <= ks[b - 1] /\ ks[i] \in Int /\ ks[b - 1] \in Int
    <3>1. CASE i = b - 1
      BY <2>1, <3>1
    <3>2. CASE i < b - 1
      BY <2>1, <3>2
    <3> QED BY <2>1, <3>1, <3>2
  <2>3. us[b] = ks[b - 1]
    BY <2>1
  <2> QED BY <1>4, <2>1, <2>2, <2>3
<1>5. CASE a > i
  <2>1. /\ a \in i + 1 .. n + 1 /\ b \in i + 1 .. n + 1 /\ a - 1 \in 1 .. n /\ b - 1 \in 1 .. n
        /\ a - 1 < b - 1
    BY <1>5
  <2>2. us[a] = ks[a - 1] /\ us[b] = ks[b - 1]
    BY <2>1
  <2> QED BY <2>1, <2>2
<1> QED BY <1>1, <1>2, <1>3, <1>4, <1>5

(* It splits that zone and leaves the others alone. *)
Within(key, z) == (\E k \in z : k < key) /\ (\E k \in z : k >= key)

ZonesCut(ks, us, r, i, key) ==
  /\ \A j \in 1 .. i - 1 : Zone(us, r, j) = Zone(ks, r, j)
  /\ Zone(us, r, i) = {k \in Zone(ks, r, i) : k < key}
  /\ Zone(us, r, i + 1) = {k \in Zone(ks, r, i) : k >= key}
  /\ \A j \in i + 2 .. Len(ks) + 2 : Zone(us, r, j) = Zone(ks, r, j - 1)

LEMMA ZonesOfMore ==
  ASSUME NEW ks \in Seq(Int), Ascending(ks), NEW us,
         NEW i \in 1 .. Len(ks) + 1, NEW key \in Int, OneMore(ks, us, i, key),
         NEW r \in SUBSET Int, Within(key, Zone(ks, r, i))
  PROVE  Ascending(us) /\ ZonesCut(ks, us, r, i, key)
<1>0. PICK n \in Nat : n = Len(ks)
  OBVIOUS
<1>1. /\ \A j \in 1 .. n : ks[j] \in Int
      /\ i \in 1 .. n + 1 /\ i \in Nat
  BY <1>0, ElementOf
<1>2. /\ Len(us) = n + 1 /\ us[i] = key
      /\ \A j \in 1 .. i - 1 : us[j] = ks[j]
      /\ \A j \in i + 1 .. n + 1 : us[j] = ks[j - 1]
  BY <1>0 DEF OneMore
<1>3. (i > 1 => ks[i - 1] <= key) /\ (i <= n => key <= ks[i])
  <2>1. PICK k \in r : (i > 1 => k >= ks[i - 1]) /\ k < key
    BY DEF Zone, Within
  <2>2. PICK m \in r : (i <= n => m < ks[i]) /\ m >= key
    BY <1>0 DEF Zone, Within
  <2>3. k \in Int /\ m \in Int
    OBVIOUS
  <2>4. ASSUME i > 1 PROVE ks[i - 1] <= key
    <3>1. i - 1 \in 1 .. n
      BY <1>1, <2>4
    <3>2. ks[i - 1] \in Int
      BY <1>1, <3>1
    <3> QED BY <2>1, <2>3, <2>4, <3>2
  <2>5. ASSUME i <= n PROVE key <= ks[i]
    <3>1. i \in 1 .. n
      BY <1>1, <2>5
    <3>2. ks[i] \in Int
      BY <1>1, <3>1
    <3> QED BY <2>2, <2>3, <2>5, <3>2
  <2> QED BY <2>4, <2>5
<1>4. \A j, m \in 1 .. n : j < m => ks[j] <= ks[m]
  BY <1>0 DEF Ascending
<1>5. Ascending(us)
  <2> SUFFICES ASSUME NEW a \in 1 .. n + 1, NEW b \in 1 .. n + 1, a < b PROVE us[a] <= us[b]
    BY <1>2 DEF Ascending
  <2> QED BY <1>1, <1>2, <1>3, <1>4, OneMoreAscends
<1>6. ASSUME NEW j \in 1 .. i - 1 PROVE Zone(us, r, j) = Zone(ks, r, j)
  <2>1. j <= n /\ j <= Len(us) /\ j <= Len(ks) /\ (j > 1 => j - 1 \in 1 .. i - 1)
    BY <1>0, <1>1, <1>2
  <2>2. us[j] = ks[j] /\ (j > 1 => us[j - 1] = ks[j - 1])
    BY <1>2, <2>1
  <2> QED BY <2>1, <2>2 DEF Zone
<1>7. Zone(us, r, i) = {k \in Zone(ks, r, i) : k < key}
  <2>1. i <= Len(us) /\ (i > 1 => i - 1 \in 1 .. i - 1)
    BY <1>0, <1>1, <1>2
  <2>2. i > 1 => us[i - 1] = ks[i - 1]
    BY <1>2, <2>1
  <2>3. ASSUME NEW k \in r, k < key, i <= n PROVE k < ks[i]
    <3>1. i \in 1 .. n
      BY <1>1, <2>3
    <3>2. ks[i] \in Int /\ k \in Int
      BY <1>1, <3>1
    <3> QED BY <1>3, <2>3, <3>2
  <2> QED BY <1>0, <1>2, <2>1, <2>2, <2>3 DEF Zone
<1>8. Zone(us, r, i + 1) = {k \in Zone(ks, r, i) : k >= key}
  <2>1. /\ i + 1 > 1 /\ (i + 1) - 1 = i /\ (i + 1 <= Len(us) <=> i <= Len(ks))
        /\ i <= n => i + 1 \in i + 1 .. n + 1
    BY <1>0, <1>1, <1>2
  <2>2. i <= Len(ks) => us[i + 1] = ks[i]
    BY <1>0, <1>2, <2>1
  <2>3. ASSUME NEW k \in r, k >= key, i > 1 PROVE k >= ks[i - 1]
    <3>1. i - 1 \in 1 .. n
      BY <1>1, <2>3
    <3>2. ks[i - 1] \in Int /\ k \in Int
      BY <1>1, <3>1
    <3> QED BY <1>3, <2>3, <3>2
  <2> QED BY <1>2, <2>1, <2>2, <2>3 DEF Zone
<1>9. ASSUME NEW j \in i + 2 .. Len(ks) + 2 PROVE Zone(us, r, j) = Zone(ks, r, j - 1)
  <2>1. /\ j > 1 /\ j - 1 > 1
        /\ (j <= Len(us) <=> j - 1 <= Len(ks))
        /\ j - 1 \in i + 1 .. n + 1
        /\ j - 1 <= Len(ks) => j \in i + 1 .. n + 1
    BY <1>0, <1>1, <1>2
  <2>2. /\ us[j - 1] = ks[(j - 1) - 1]
        /\ j - 1 <= Len(ks) => us[j] = ks[j - 1]
    BY <1>2, <2>1
  <2> QED BY <2>1, <2>2 DEF Zone
<1>10. ZonesCut(ks, us, r, i, key)
  BY <1>6, <1>7, <1>8, <1>9 DEF ZonesCut
<1> QED BY <1>5, <1>10

(* Both halves of a node keep the zones that go to them. *)
ZonesKept(us, lo, up, r, sep) ==
  /\ lo \in Seq(Int) /\ Len(lo) = Half /\ Ascending(lo)
  /\ up \in Seq(Int) /\ Len(up) = Order - Half - 1 /\ Ascending(up)
  /\ sep \in Int
  /\ \A j \in 1 .. Half + 1 : Zone(lo, {k \in r : k < sep}, j) = Zone(us, r, j)
  /\ \A j \in 1 .. Order - Half : Zone(up, {k \in r : k >= sep}, j) = Zone(us, r, Half + 1 + j)

LEMMA ZonesOfHalves ==
  ASSUME NEW us \in Seq(Int), Ascending(us), Len(us) = Order, NEW r \in SUBSET Int,
         NEW lo, lo = SubSeq(us, 1, Half), NEW up, up = SubSeq(us, Half + 2, Order),
         NEW sep, sep = us[Half + 1]
  PROVE  ZonesKept(us, lo, up, r, sep)
<1>0. /\ \A j \in 1 .. Order : us[j] \in Int
      /\ Order \in Nat /\ Half \in Nat /\ Half >= 1 /\ Half + 2 <= Order
      /\ \A j, m \in 1 .. Order : j < m => us[j] <= us[m]
  BY ElementOf, HalfIs DEF Ascending
<1>1. /\ lo \in Seq(Int) /\ Len(lo) = Half /\ Ascending(lo)
      /\ \A j \in 1 .. Half : lo[j] = us[j]
  <2>1. 1 \in 1 .. Len(us) + 1 /\ Half <= Len(us) /\ 1 <= Half + 1 /\ Half + 1 - 1 = Half
        /\ \A j \in 1 .. Half : 1 + j - 1 = j
    BY <1>0
  <2>2. /\ lo \in Seq(Int) /\ Len(lo) = Half + 1 - 1
        /\ \A j \in 1 .. Half + 1 - 1 : lo[j] = us[1 + j - 1]
        /\ Ascending(us) => Ascending(lo)
    BY <1>0, <2>1, KeysCut, Zenon
  <2> QED BY <2>1, <2>2
<1>2. /\ up \in Seq(Int) /\ Len(up) = Order - Half - 1 /\ Ascending(up)
      /\ \A j \in 1 .. Order - Half - 1 : up[j] = us[Half + 1 + j]
  <2>1. /\ Half + 2 \in 1 .. Len(us) + 1 /\ Order <= Len(us) /\ Half + 2 <= Order + 1
        /\ Order + 1 - (Half + 2) = Order - Half - 1
        /\ \A j \in 1 .. Order - Half - 1 : (Half + 2) + j - 1 = Half + 1 + j
    BY <1>0
  <2>2. /\ up \in Seq(Int) /\ Len(up) = Order + 1 - (Half + 2)
        /\ \A j \in 1 .. Order + 1 - (Half + 2) : up[j] = us[(Half + 2) + j - 1]
        /\ Ascending(us) => Ascending(up)
    BY <1>0, <2>1, KeysCut, Zenon
  <2> QED BY <2>1, <2>2
<1>3. sep \in Int
  BY <1>0
<1>4. ASSUME NEW j \in 1 .. Half + 1 PROVE Zone(lo, {k \in r : k < sep}, j) = Zone(us, r, j)
  <2>1. (j > 1 => lo[j - 1] = us[j - 1]) /\ j <= Len(us)
    BY <1>0, <1>1
  <2>2. CASE j <= Half
    <3>1. lo[j] = us[j] /\ us[j] <= sep /\ us[j] \in Int /\ j <= Len(lo)
      BY <1>0, <1>1, <2>2
    <3>2. \A k \in r : k < us[j] => k < sep
      BY <1>3, <3>1
    <3> QED BY <2>1, <3>1, <3>2 DEF Zone
  <2>3. CASE j = Half + 1
    <3>1. ~(j <= Len(lo)) /\ us[j] = sep
      BY <1>0, <1>1, <2>3
    <3> QED BY <2>1, <3>1 DEF Zone
  <2> QED BY <1>0, <2>2, <2>3
<1>5. ASSUME NEW j \in 1 .. Order - Half
      PROVE  Zone(up, {k \in r : k >= sep}, j) = Zone(us, r, Half + 1 + j)
  <2> PICK x \in Nat : x = Half + 1 + j
    BY <1>0
  <2>1. /\ x > 1 /\ (j <= Len(up) <=> x <= Len(us))
        /\ j <= Len(up) => up[j] = us[x]
    BY <1>0, <1>2
  <2>2. CASE j = 1
    <3>1. us[x - 1] = sep /\ ~(j > 1)
      BY <1>0, <2>2
    <3>2. Zone(us, r, x) = {k \in r : k >= sep /\ (x <= Len(us) => k < us[x])}
      BY <2>1, <3>1 DEF Zone
    <3>3. Zone(up, {k \in r : k >= sep}, j) = {k \in r : k >= sep /\ (j <= Len(up) => k < up[j])}
      BY <3>1 DEF Zone
    <3> QED BY <2>1, <3>2, <3>3
  <2>3. CASE j > 1
    <3>1. up[j - 1] = us[x - 1] /\ us[x - 1] >= sep /\ us[x - 1] \in Int
      BY <1>0, <1>2, <2>3
    <3>2. \A k \in r : k >= us[x - 1] => k >= sep
      BY <1>3, <3>1
    <3> QED BY <2>1, <2>3, <3>1, <3>2 DEF Zone
  <2> QED BY <2>2, <2>3
<1> QED BY <1>1, <1>2, <1>3, <1>4, <1>5 DEF ZonesKept

(* The first n elements of q are different. *)
Distinct(q, n) == \A a, b \in 1 .. n : q[a] = q[b] => a = b

Avoids(q, n, r) == \A a \in 1 .. n : q[a] # r

(* The first n + 2 elements of t are the first n + 1 of q, and r. *)
Extends(t, q, n, r) ==
  /\ \A x \in 1 .. n + 1 : \E j \in 1 .. n + 2 : t[j] = q[x]
  /\ \E j \in 1 .. n + 2 : t[j] = r
  /\ \A j \in 1 .. n + 2 : t[j] = r \/ \E x \in 1 .. n + 1 : t[j] = q[x]

(* t is node p with the right half of the split as a child: every child    *)
(* has its zone, the right half included.                                  *)
Kid(h, R, p, t, j) ==
  LET c == t.children[j]
  IN  /\ c \in Nodes /\ h[p] = h[c] + 1
      /\ R[c] = Zone(t.keys, R[p], j)
      /\ c = promotion.right \/ node[c].parent = p

Whole(h, R, p, t) ==
  /\ t \in NodeType /\ t.is_leaf = FALSE /\ t.parent = node[p].parent
  /\ Len(t.keys) = Len(node[p].keys) + 1 /\ Len(t.children) = Len(node[p].keys) + 2
  /\ Ascending(t.keys)
  /\ \A j \in 1 .. Len(t.children) : Kid(h, R, p, t, j)
  /\ Distinct(t.children, Len(t.children))
  /\ \A m \in Nodes : (m # root /\ node[m].parent = p) \/ m = promotion.right
                        => \E j \in 1 .. Len(t.children) : t.children[j] = m

(* The parent of a node that has been split. *)
LEMMA ParentIs ==
  ASSUME NEW h, NEW R, Shape(h, R), ~Idle, NEW p, p = node[promotion.left].parent, p # Null
  PROVE  /\ p \in Nodes /\ ~node[p].is_leaf /\ p # promotion.left /\ p # promotion.right
         /\ InnerNode(h, R, p)
         /\ \E i \in 1 .. Len(node[p].children) : node[p].children[i] = promotion.left
         /\ ~Orphan(p) /\ Covered(R, p) = R[p]
<1> PICK l : l = promotion.left
  OBVIOUS
<1> PICK r : r = promotion.right
  OBVIOUS
<1>1. l \in Nodes /\ r \in Nodes /\ ParentOf(l) /\ h[l] = h[r]
      /\ (\A c \in Nodes : c # r => ~Orphan(c)) /\ (\A c \in Nodes : c # l => Covered(R, c) = R[c])
  BY PromotionIs
<1>2. /\ p \in Nodes /\ ~node[p].is_leaf
      /\ \E i \in 1 .. Len(node[p].children) : node[p].children[i] = l
  BY <1>1 DEF ParentOf
<1>3. InnerNode(h, R, p)
  BY <1>2 DEF Shape, Inner
<1>4. h[p] = h[l] + 1
  BY <1>2, <1>3, Zenon DEF InnerNode, Child
<1>5. h[l] \in Nat
  BY <1>1 DEF Shape, Heights
<1>6. p # l /\ p # r
  BY <1>1, <1>4, <1>5
<1> QED BY <1>1, <1>2, <1>3, <1>6

(* A sequence of n + 1 different elements with r behind the i-th. *)
LEMMA ChildrenOfMore ==
  ASSUME NEW n \in Nat, NEW i \in 1 .. n + 1, NEW q, NEW t, NEW l, NEW r,
         Distinct(q, n + 1), Avoids(q, n + 1, r), Behind(q, t, n, i, l, r)
  PROVE  Distinct(t, n + 2) /\ Extends(t, q, n, r)
<1>a. /\ \A a, b \in 1 .. n + 1 : q[a] = q[b] => a = b
      /\ \A a \in 1 .. n + 1 : q[a] # r
  BY DEF Distinct, Avoids
<1>0. /\ t[i + 1] = r
      /\ \A j \in 1 .. i : t[j] = q[j]
      /\ \A j \in i + 2 .. n + 2 : t[j] = q[j - 1]
  BY DEF Behind
<1>1. ASSUME NEW j \in 1 .. n + 2, j <= i
      PROVE  j \in 1 .. n + 1 /\ t[j] = q[j] /\ t[j] # r
  <2>1. j \in 1 .. i /\ j \in 1 .. n + 1
    BY <1>1
  <2> QED BY <1>a, <1>0, <2>1
<1>2. ASSUME NEW j \in 1 .. n + 2, j > i + 1
      PROVE  j - 1 \in 1 .. n + 1 /\ t[j] = q[j - 1] /\ t[j] # r
  <2>1. j \in i + 2 .. n + 2 /\ j - 1 \in 1 .. n + 1
    BY <1>2
  <2> QED BY <1>a, <1>0, <2>1
<1>3. ASSUME NEW a \in 1 .. n + 2, NEW b \in 1 .. n + 2, t[a] = t[b], a < b PROVE FALSE
  <2>1. CASE b <= i
    BY <1>a, <1>1, <1>3, <2>1
  <2>2. CASE b = i + 1
    <3>1. a <= i
      BY <1>3, <2>2
    <3> QED BY <1>0, <1>1, <1>3, <2>2, <3>1
  <2>3. CASE b > i + 1 /\ a <= i
    <3>1. t[a] = q[a] /\ t[b] = q[b - 1] /\ a \in 1 .. n + 1 /\ b - 1 \in 1 .. n + 1 /\ a # b - 1
      BY <1>1, <1>2, <2>3
    <3> QED BY <1>a, <1>3, <3>1
  <2>4. CASE b > i + 1 /\ a = i + 1
    BY <1>0, <1>2, <1>3, <2>4
  <2>5. CASE b > i + 1 /\ a > i + 1
    <3>1. t[a] = q[a - 1] /\ t[b] = q[b - 1] /\ a - 1 \in 1 .. n + 1 /\ b - 1 \in 1 .. n + 1
          /\ a - 1 # b - 1
      BY <1>2, <1>3, <2>5
    <3> QED BY <1>a, <1>3, <3>1
  <2> QED BY <1>3, <2>1, <2>2, <2>3, <2>4, <2>5
<1>4. ASSUME NEW x \in 1 .. n + 1 PROVE \E j \in 1 .. n + 2 : t[j] = q[x]
  <2>1. CASE x <= i
    <3>1. x \in 1 .. i /\ x \in 1 .. n + 2
      BY <2>1
    <3> QED BY <1>0, <3>1
  <2>2. CASE x > i
    <3>1. x + 1 \in i + 2 .. n + 2 /\ x + 1 \in 1 .. n + 2 /\ (x + 1) - 1 = x
      BY <2>2
    <3>2. t[x + 1] = q[x]
      BY <1>0, <3>1
    <3> QED BY <3>1, <3>2
  <2> QED BY <2>1, <2>2
<1>5. \A a, b \in 1 .. n + 2 : a < b \/ b < a \/ a = b
  OBVIOUS
<1>6. \A a, b \in 1 .. n + 2 : t[a] = t[b] => a = b
  BY <1>3, <1>5
<1>7. \A j \in 1 .. n + 2 : j <= i \/ j = i + 1 \/ j > i + 1
  OBVIOUS
<1>8. \A j \in 1 .. n + 2 : t[j] = r \/ \E x \in 1 .. n + 1 : t[j] = q[x]
  BY <1>0, <1>1, <1>2, <1>7
<1>9. \E j \in 1 .. n + 2 : t[j] = r
  <2>1. i + 1 \in 1 .. n + 2
    OBVIOUS
  <2> QED BY <1>0, <2>1
<1> QED BY <1>4, <1>6, <1>8, <1>9 DEF Distinct, Extends

(* The places Q of the children are their zones, before and after. *)
Zoned(Q, q, n, l, ks, rp) == \A a \in 1 .. n + 1 : q[a] # l => Q[q[a]] = Zone(ks, rp, a)
Parted(Q, l, r, z, key) ==
  /\ Q[l] = {k \in z : k < key} /\ Q[l] # {}
  /\ Q[r] = {k \in z : k >= key} /\ Q[r] # {}
AllZoned(Q, t, n, us, rp) == \A j \in 1 .. n : Q[t[j]] = Zone(us, rp, j)

LEMMA ZonesOfChildren ==
  ASSUME NEW n \in Nat, NEW i \in 1 .. n + 1, NEW ks \in Seq(Int), Len(ks) = n, Ascending(ks),
         NEW us, NEW key \in Int, OneMore(ks, us, i, key),
         NEW q, NEW t, NEW l, NEW r, Behind(q, t, n, i, l, r), Distinct(q, n + 1),
         NEW rp \in SUBSET Int, NEW Q, Zoned(Q, q, n, l, ks, rp),
         Parted(Q, l, r, Zone(ks, rp, i), key)
  PROVE  Ascending(us) /\ AllZoned(Q, t, n + 2, us, rp)
<1>0. /\ q[i] = l /\ t[i + 1] = r
      /\ \A j \in 1 .. i : t[j] = q[j]
      /\ \A j \in i + 2 .. n + 2 : t[j] = q[j - 1]
      /\ \A a, b \in 1 .. n + 1 : q[a] = q[b] => a = b
      /\ \A a \in 1 .. n + 1 : q[a] # l => Q[q[a]] = Zone(ks, rp, a)
  BY DEF Behind, Distinct, Zoned
<1>b. /\ Q[l] = {k \in Zone(ks, rp, i) : k < key} /\ Q[l] # {}
      /\ Q[r] = {k \in Zone(ks, rp, i) : k >= key} /\ Q[r] # {}
  BY DEF Parted
<1>1. /\ Ascending(us)
      /\ \A j \in 1 .. i - 1 : Zone(us, rp, j) = Zone(ks, rp, j)
      /\ Zone(us, rp, i) = {k \in Zone(ks, rp, i) : k < key}
      /\ Zone(us, rp, i + 1) = {k \in Zone(ks, rp, i) : k >= key}
      /\ \A j \in i + 2 .. n + 2 : Zone(us, rp, j) = Zone(ks, rp, j - 1)
  <2>1. Within(key, Zone(ks, rp, i))
    BY <1>b DEF Within
  <2>2. i \in 1 .. Len(ks) + 1
    OBVIOUS
  <2>3. Ascending(us) /\ ZonesCut(ks, us, rp, i, key)
    BY <2>1, <2>2, ZonesOfMore
  <2> QED BY <2>3 DEF ZonesCut
<1>2. \A j \in 1 .. n + 2 : j \in 1 .. i - 1 \/ j = i \/ j = i + 1 \/ j \in i + 2 .. n + 2
  OBVIOUS
<1>3. ASSUME NEW x \in 1 .. n + 1, x # i PROVE Q[q[x]] = Zone(ks, rp, x)
  <2>1. q[x] # l
    BY <1>0, <1>3
  <2> QED BY <1>0, <2>1
<1>4. ASSUME NEW j \in 1 .. n + 2 PROVE Q[t[j]] = Zone(us, rp, j)
  <2>1. CASE j \in 1 .. i - 1
    <3>1. j \in 1 .. n + 1 /\ j \in 1 .. i /\ j # i
      BY <2>1
    <3>2. t[j] = q[j]
      BY <1>0, <3>1
    <3> QED BY <1>1, <1>3, <2>1, <3>1, <3>2
  <2>2. CASE j = i
    <3>1. t[j] = l
      BY <1>0, <2>2
    <3> QED BY <1>1, <1>b, <2>2, <3>1
  <2>3. CASE j = i + 1
    BY <1>0, <1>1, <1>b, <2>3
  <2>4. CASE j \in i + 2 .. n + 2
    <3>1. j - 1 \in 1 .. n + 1 /\ j - 1 # i
      BY <2>4
    <3>2. t[j] = q[j - 1]
      BY <1>0, <2>4
    <3>3. Q[t[j]] = Zone(ks, rp, j - 1)
      BY <1>3, <3>1, <3>2
    <3> QED BY <1>1, <2>4, <3>3
  <2> QED BY <1>2, <2>1, <2>2, <2>3, <2>4
<1> QED BY <1>1, <1>4 DEF AllZoned

LEMMA WholeNode ==
  ASSUME NEW h, NEW R, Shape(h, R), ~Idle, NEW p, p = node[promotion.left].parent, p # Null,
         NEW t, t = WithChild(node[p], promotion.left, promotion.key, promotion.right)
  PROVE  Whole(h, R, p, t)
<1> PICK l : l = promotion.left
  OBVIOUS
<1> PICK r : r = promotion.right
  OBVIOUS
<1> PICK key : key = promotion.key
  OBVIOUS
<1>1. /\ key \in Int /\ l \in Nodes /\ r \in Nodes /\ l # r /\ h[l] = h[r]
      /\ ~Orphan(l) /\ Orphan(r)
      /\ \A c \in Nodes : c # r => ~Orphan(c)
      /\ \A c \in Nodes : c # l => Covered(R, c) = R[c]
      /\ R[l] = {k \in Covered(R, l) : k < key} /\ R[r] = {k \in Covered(R, l) : k >= key}
      /\ R[l] # {} /\ R[r] # {}
  BY PromotionIs
<1>2. /\ p \in Nodes /\ ~node[p].is_leaf /\ InnerNode(h, R, p)
      /\ \E i \in 1 .. Len(node[p].children) : node[p].children[i] = l
  BY ParentIs
<1>3. node[p] \in NodeType /\ r \in Nat
  BY <1>1, <1>2, NodesAre DEF Shape
<1> PICK q \in NodeType : q = node[p]
  BY <1>3
<1> PICK n \in Nat : n = Len(q.keys)
  BY DEF NodeType
<1>4. PICK ks \in Seq(Int) : ks = q.keys /\ Len(ks) = n
  BY DEF NodeType
<1>5. PICK qc \in Seq(Nat) : qc = q.children
  BY DEF NodeType
<1>6. /\ Len(qc) = n + 1 /\ Ascending(ks) /\ q.is_leaf = FALSE
      /\ \A i \in 1 .. n + 1 : Child(h, R, p, i)
      /\ Distinct(qc, n + 1)
  BY <1>2, <1>4, <1>5, Zenon DEF InnerNode, NodeType, Distinct
<1>7. Inserted(q, t, l, key, r)
  <2>1. \E j \in 1 .. Len(q.children) : q.children[j] = l
    BY <1>2
  <2>2. t = WithChild(q, l, key, r) /\ Len(q.children) = Len(q.keys) + 1
    BY <1>5, <1>6
  <2>3. key \in Int /\ r \in Nat
    BY <1>1, <1>3
  <2>4. Inserted(q, WithChild(q, l, key, r), l, key, r)
    BY <2>1, <2>2, <2>3, WithChildIs, Zenon
  <2> QED BY <2>2, <2>4
<1>a. /\ t \in NodeType /\ t.is_leaf = q.is_leaf /\ t.parent = q.parent
      /\ Len(t.keys) = n + 1 /\ Len(t.children) = n + 2
  BY <1>7, Zenon DEF Inserted
<1>8. PICK us \in Seq(Int) : us = t.keys /\ Len(us) = n + 1
  BY <1>a, Zenon DEF NodeType
<1>9. PICK tc \in Seq(Nat) : tc = t.children /\ Len(tc) = n + 2
  BY <1>a, Zenon DEF NodeType
<1>10. PICK i \in 1 .. n + 1 : OneMore(ks, us, i, key) /\ Behind(qc, tc, n, i, l, r)
  BY <1>4, <1>5, <1>7, <1>8, <1>9, Zenon DEF Inserted
<1>11. PICK rp \in SUBSET Int : rp = R[p]
  BY <1>2 DEF Shape, Places
<1>12. \A j \in 1 .. n + 1 : /\ qc[j] \in Nodes /\ qc[j] # r
                            /\ node[qc[j]].parent = p /\ h[p] = h[qc[j]] + 1
                            /\ Covered(R, qc[j]) = Zone(ks, rp, j)
  <2> SUFFICES ASSUME NEW j \in 1 .. n + 1
               PROVE  /\ qc[j] \in Nodes /\ qc[j] # r
                      /\ node[qc[j]].parent = p /\ h[p] = h[qc[j]] + 1
                      /\ Covered(R, qc[j]) = Zone(ks, rp, j)
    OBVIOUS
  <2>1. Child(h, R, p, j)
    BY <1>6
  <2>2. /\ qc[j] \in Nodes /\ ~Orphan(qc[j]) /\ node[qc[j]].parent = p /\ h[p] = h[qc[j]] + 1
        /\ Covered(R, qc[j]) = Slot(q, rp, j)
    BY <1>5, <1>11, <2>1 DEF Child
  <2>3. Slot(q, rp, j) = Zone(ks, rp, j)
    BY <1>4, SlotIsZone
  <2> QED BY <1>1, <2>2, <2>3
<1>13. Covered(R, l) = Zone(ks, rp, i) /\ h[p] = h[l] + 1
  <2>1. qc[i] = l
    BY <1>10 DEF Behind
  <2> QED BY <1>12, <2>1
<1>14. Ascending(us) /\ AllZoned(R, tc, n + 2, us, rp)
  <2>1. Zoned(R, qc, n, l, ks, rp)
    BY <1>1, <1>12 DEF Zoned
  <2>2. Parted(R, l, r, Zone(ks, rp, i), key)
    BY <1>1, <1>13 DEF Parted
  <2> QED BY <1>1, <1>4, <1>6, <1>10, <2>1, <2>2, ZonesOfChildren, Zenon
<1>15. Distinct(tc, n + 2) /\ Extends(tc, qc, n, r)
  <2>1. Avoids(qc, n + 1, r)
    BY <1>12 DEF Avoids
  <2> QED BY <1>6, <1>10, <2>1, ChildrenOfMore
<1>16. ASSUME NEW j \in 1 .. n + 2 PROVE Kid(h, R, p, t, j)
  <2>1. R[tc[j]] = Zone(t.keys, R[p], j)
    BY <1>8, <1>11, <1>14 DEF AllZoned
  <2>2. tc[j] \in Nodes /\ h[p] = h[tc[j]] + 1 /\ (tc[j] = r \/ node[tc[j]].parent = p)
    <3>1. CASE tc[j] = r
      BY <1>1, <1>13, <3>1
    <3>2. ASSUME NEW x \in 1 .. n + 1, tc[j] = qc[x]
          PROVE  tc[j] \in Nodes /\ h[p] = h[tc[j]] + 1 /\ node[tc[j]].parent = p
      BY <1>12, <3>2
    <3>3. tc[j] = r \/ \E x \in 1 .. n + 1 : tc[j] = qc[x]
      BY <1>15 DEF Extends
    <3> QED BY <3>1, <3>2, <3>3
  <2> QED BY <1>9, <2>1, <2>2, Zenon DEF Kid
<1>17. ASSUME NEW m \in Nodes, (m # root /\ node[m].parent = p) \/ m = r
       PROVE  \E j \in 1 .. n + 2 : tc[j] = m
  <2>1. CASE m = r
    BY <1>15, <2>1 DEF Extends
  <2>2. CASE m # r
    <3>1. ParentOf(m) /\ m # root /\ node[m].parent = p
      BY <1>1, <1>17, <2>2 DEF Shape, Parents
    <3>2. PICK x \in 1 .. Len(qc) : qc[x] = m
      BY <1>5, <3>1 DEF ParentOf
    <3>3. x \in 1 .. n + 1
      BY <1>6
    <3> QED BY <1>15, <3>2, <3>3 DEF Extends
  <2> QED BY <2>1, <2>2
<1>18. t.is_leaf = FALSE /\ t.parent = node[p].parent /\ Ascending(t.keys)
       /\ Len(t.keys) = Len(node[p].keys) + 1 /\ Len(t.children) = Len(node[p].keys) + 2
       /\ t \in NodeType /\ Distinct(t.children, Len(t.children))
  BY <1>6, <1>a, <1>8, <1>9, <1>14, <1>15, Zenon
<1>19. ASSUME NEW j \in 1 .. Len(t.children) PROVE Kid(h, R, p, t, j)
  <2>1. j \in 1 .. n + 2
    BY <1>a
  <2> QED BY <1>16, <2>1
<1>20. ASSUME NEW m \in Nodes, (m # root /\ node[m].parent = p) \/ m = promotion.right
       PROVE  \E j \in 1 .. Len(t.children) : t.children[j] = m
  <2>1. PICK j \in 1 .. n + 2 : tc[j] = m
    BY <1>17, <1>20
  <2>2. j \in 1 .. Len(t.children) /\ t.children[j] = m
    BY <1>9, <2>1
  <2> QED BY <2>2
<1> QED BY <1>18, <1>19, <1>20, Zenon DEF Whole

(* The heap s with node p replaced and p as the parent of r. *)
Grown(s, p, t, r) == [s EXCEPT ![p] = t, ![r].parent = p]

(* f is s but for node p, which is t, and the parent of r, which is p. *)
GrownTo(f, s, p, t, r) ==
  /\ f \in Seq(NodeType) /\ DOMAIN f = 1 .. Len(s) /\ f[p] = t
  /\ \A m \in 1 .. Len(s) : m # p =>
       /\ f[m].is_leaf = s[m].is_leaf /\ f[m].keys = s[m].keys
       /\ f[m].values = s[m].values /\ f[m].children = s[m].children /\ f[m].next = s[m].next
       /\ m # r => f[m].parent = s[m].parent
  /\ f[r].parent = p

LEMMA GrownIs ==
  ASSUME NEW s \in Seq(NodeType), NEW p \in 1 .. Len(s), NEW r \in 1 .. Len(s), p # r,
         NEW t \in NodeType, NEW f, f = Grown(s, p, t, r)
  PROVE  GrownTo(f, s, p, t, r)
<1>1. PICK f1 : f1 = [s EXCEPT ![p] = t]
  OBVIOUS
<1>2. /\ f1 \in Seq(NodeType) /\ Len(f1) = Len(s) /\ f1[p] = t
      /\ \A m \in 1 .. Len(s) : m # p => f1[m] = s[m]
  BY <1>1
<1>3. f = Reparented(f1, r, p)
  BY <1>1 DEF Grown, Reparented
<1>4. r \in 1 .. Len(f1) /\ p \in Nat
  BY <1>2
<1>5. /\ f \in Seq(NodeType) /\ Len(f) = Len(f1)
      /\ f[r] = [f1[r] EXCEPT !.parent = p]
      /\ \A m \in 1 .. Len(f1) : m # r => f[m] = f1[m]
  BY <1>2, <1>3, <1>4, OneParent
<1>6. s[r] \in NodeType /\ f1[r] = s[r]
  BY <1>2, ElementOf
<1>7. /\ f[r].is_leaf = s[r].is_leaf /\ f[r].keys = s[r].keys /\ f[r].values = s[r].values
      /\ f[r].children = s[r].children /\ f[r].parent = p /\ f[r].next = s[r].next
  BY <1>4, <1>5, <1>6, ReparentIs
<1>8. \A m \in 1 .. Len(s) : m # p /\ m # r => f[m] = s[m]
  BY <1>2, <1>5
<1>9. f[p] = t
  BY <1>2, <1>5
<1>10. ASSUME NEW m \in 1 .. Len(s), m # p
       PROVE  /\ f[m].is_leaf = s[m].is_leaf /\ f[m].keys = s[m].keys
              /\ f[m].values = s[m].values /\ f[m].children = s[m].children
              /\ f[m].next = s[m].next
              /\ m # r => f[m].parent = s[m].parent
  <2>1. CASE m = r
    BY <1>7, <2>1
  <2>2. CASE m # r
    BY <1>8, <1>10, <2>2
  <2> QED BY <2>1, <2>2
<1>11. DOMAIN f = 1 .. Len(s)
  BY <1>2, <1>5
<1> QED BY <1>5, <1>7, <1>9, <1>10, <1>11 DEF GrownTo

(* The parent has room for the right half. *)
LEMMA InternalShape ==
  ASSUME NEW h, NEW R, Shape(h, R), ~Idle, NEW p, p = node[promotion.left].parent, p # Null,
         bptree_insert_into_internal(p, promotion.left, promotion.key, promotion.right)
  PROVE  Shape(h, R)' /\ Entries' = Entries
<1> PICK l : l = promotion.left
  OBVIOUS
<1> PICK r : r = promotion.right
  OBVIOUS
<1> PICK t : t = WithChild(node[p], promotion.left, promotion.key, promotion.right)
  OBVIOUS
<1>1. /\ l \in Nodes /\ r \in Nodes /\ l # r /\ r # root /\ node[l].parent = p
      /\ \A c \in Nodes : c # r => ~Orphan(c)
      /\ \A c \in Nodes : c # l => Covered(R, c) = R[c]
      /\ Orphan(r)
  BY PromotionIs
<1>2. /\ p \in Nodes /\ ~node[p].is_leaf /\ p # r /\ p # l
  BY ParentIs
<1>3. /\ t \in NodeType /\ t.is_leaf = FALSE /\ t.parent = node[p].parent
      /\ Len(t.keys) = Len(node[p].keys) + 1 /\ Len(t.children) = Len(node[p].keys) + 2
      /\ Ascending(t.keys)
      /\ \A j \in 1 .. Len(t.children) : Kid(h, R, p, t, j)
      /\ Distinct(t.children, Len(t.children))
      /\ \A m \in Nodes : (m # root /\ node[m].parent = p) \/ m = r
                            => \E j \in 1 .. Len(t.children) : t.children[j] = m
  <2>1. Whole(h, R, p, t)
    BY WholeNode
  <2> QED BY <2>1, Zenon DEF Whole
<1>4. /\ node \in Seq(NodeType) /\ Nodes = 1 .. Len(node) /\ Len(node) \in Nat /\ Null \notin Nodes
      /\ root \in Nodes /\ root # Null /\ node[p] \in NodeType
  BY <1>1, <1>2, NodesAre DEF Shape, Types, Nodes
<1>5. /\ Len(node[p].keys) < MaxKeys /\ node' = Grown(node, p, t, r)
      /\ promotion' = Nothing /\ returned' = 1 /\ root' = root
  BY DEF bptree_insert_into_internal, Return, Grown
<1>6. /\ node' \in Seq(NodeType) /\ Nodes' = Nodes /\ node'[p] = t
      /\ \A m \in Nodes : m # p =>
           /\ node'[m].is_leaf = node[m].is_leaf /\ node'[m].keys = node[m].keys
           /\ node'[m].values = node[m].values /\ node'[m].children = node[m].children
           /\ node'[m].next = node[m].next
           /\ m # r => node'[m].parent = node[m].parent
      /\ node'[r].parent = p
  <2> PICK f : f = Grown(node, p, t, r)
    OBVIOUS
  <2>1. p \in 1 .. Len(node) /\ r \in 1 .. Len(node)
    BY <1>1, <1>2, <1>4
  <2>2. GrownTo(f, node, p, t, r)
    BY <1>2, <1>3, <1>4, <2>1, GrownIs, Zenon
  <2>3. node' = f
    BY <1>5
  <2> QED BY <1>4, <2>2, <2>3, Zenon DEF Nodes, GrownTo
<1>7. /\ \A m \in Nodes : node'[m].is_leaf <=> node[m].is_leaf
      /\ \A m \in Nodes : m # r => node'[m].parent = node[m].parent
      /\ \A m \in Nodes : node[m].is_leaf => m # p
  BY <1>2, <1>3, <1>6, Zenon
<1>8. Idle' /\ \A c : ~Orphan(c)' /\ Covered(R, c)' = R[c]
  BY <1>5 DEF Idle, Orphan, Covered
<1>9. Types'
  <2>0. root' = root /\ Nodes' = Nodes
    BY <1>5, <1>6, Zenon
  <2>1. root' \in Nat /\ root' # Null /\ root' \in Nodes'
    <3>1. root \in Nat /\ root # Null /\ root \in Nodes
      BY <1>4
    <3> QED BY <2>0, <3>1, Zenon
  <2>2. promotion' \in Promotions \union {Nothing} /\ returned' \in {0, 1, 2} /\ returned' # 2
    BY <1>5
  <2> QED BY <1>6, <1>8, <2>1, <2>2 DEF Types
<1>10. Heights(h)'
  BY <1>5, <1>6, <1>7, Zenon DEF Heights, Shape
<1>11. Places(h, R)'
  <2>1. R[root] = Int
    <3>1. CASE root # l
      BY <1>1, <1>4, <3>1 DEF Shape, Places
    <3>2. CASE root = l
      <4>1. ParentOf(l)
        BY PromotionIs
      <4> QED BY <1>1, <3>2, <4>1 DEF ParentOf
    <3> QED BY <3>1, <3>2
  <2> QED BY <1>5, <1>6, <1>8, <2>1, Zenon DEF Places, Shape
<1>12. Leaves(R)'
  <2> SUFFICES ASSUME NEW m \in Nodes, node'[m].is_leaf
               PROVE  /\ Len(node'[m].values) = Len(node'[m].keys)
                      /\ Len(node'[m].keys) <= MaxKeys
                      /\ Increasing(node'[m].keys)
                      /\ \A i \in 1 .. Len(node'[m].keys) : node'[m].keys[i] \in R[m]
    BY <1>6 DEF Leaves
  <2>1. node[m].is_leaf /\ node'[m].keys = node[m].keys /\ node'[m].values = node[m].values
    BY <1>6, <1>7
  <2> QED BY <2>1 DEF Leaves, Shape
<1>13. ASSUME NEW m \in Nodes, ~node'[m].is_leaf, m # p PROVE InnerNode(h, R, m)'
  <2>1. InnerNode(h, R, m) /\ node'[m].keys = node[m].keys /\ node'[m].children = node[m].children
    BY <1>6, <1>7, <1>13 DEF Inner, Shape
  <2>2. ASSUME NEW i \in 1 .. Len(node[m].children) PROVE Child(h, R, m, i)'
    <3>1. Child(h, R, m, i)
      BY <2>1, <2>2 DEF InnerNode
    <3>2. PICK c \in Nodes : c = node[m].children[i]
      BY <3>1 DEF Child
    <3>3. /\ node[c].parent = m /\ h[m] = h[c] + 1 /\ Covered(R, c) = Slot(node[m], R[m], i)
          /\ ~Orphan(c)
      BY <3>1, <3>2 DEF Child
    <3>4. c # l /\ c # r
      BY <1>1, <1>13, <3>3
    <3>5. node'[c].parent = m /\ c \in Nodes' /\ c = node'[m].children[i]
      BY <1>6, <1>7, <2>1, <3>2, <3>3, <3>4
    <3>6. Covered(R, c)' = R[c] /\ R[c] = Slot(node[m], R[m], i)
      BY <1>1, <1>8, <3>3, <3>4
    <3>7. Slot(node'[m], R[m], i) = Slot(node[m], R[m], i)
      BY <2>1 DEF Slot
    <3> QED BY <1>8, <3>3, <3>5, <3>6, <3>7 DEF Child
  <2> QED BY <1>6, <2>1, <2>2 DEF InnerNode
<1>14. InnerNode(h, R, p)'
  <2>1. ASSUME NEW i \in 1 .. Len(t.children) PROVE Child(h, R, p, i)'
    <3>1. Kid(h, R, p, t, i)
      BY <1>3, Zenon
    <3>2. PICK c \in Nodes : c = t.children[i]
      BY <3>1, Zenon DEF Kid
    <3>3. /\ h[p] = h[c] + 1 /\ R[c] = Zone(t.keys, R[p], i) /\ (c = r \/ node[c].parent = p)
      BY <3>1, <3>2, Zenon DEF Kid
    <3>4. node'[c].parent = p /\ c \in Nodes' /\ c = node'[p].children[i]
      BY <1>6, <1>7, <3>2, <3>3, Zenon
    <3>5. Covered(R, c)' = Slot(node'[p], R[p], i)
      <4>1. Slot(t, R[p], i) = Zone(t.keys, R[p], i)
        BY SlotIsZone
      <4> QED BY <1>6, <1>8, <3>3, <4>1
    <3> QED BY <1>8, <3>3, <3>4, <3>5, Zenon DEF Child
  <2>2. \A i, j \in 1 .. Len(t.children) : t.children[i] = t.children[j] => i = j
    BY <1>3, Zenon DEF Distinct
  <2>3. Len(t.children) = Len(t.keys) + 1 /\ Len(t.keys) <= MaxKeys
    <3>1. PICK q \in NodeType : q = node[p]
      BY <1>4
    <3>2. PICK n \in Nat : n = Len(q.keys)
      BY DEF NodeType
    <3>3. n < MaxKeys /\ Len(t.keys) = n + 1 /\ Len(t.children) = n + 2 /\ MaxKeys \in Nat
      BY <1>3, <1>5, <3>1, <3>2, HalfIs, Zenon
    <3> QED BY <3>3
  <2> QED BY <1>3, <1>6, <2>1, <2>2, <2>3, Zenon DEF InnerNode
<1>15. Inner(h, R)'
  BY <1>6, <1>13, <1>14 DEF Inner
<1>16. ASSUME NEW m \in Nodes PROVE ParentOf(m)'
  <2>0. root' = root
    BY <1>5
  <2>1. CASE m = r
    <3>1. \E i \in 1 .. Len(t.children) : t.children[i] = r
      BY <1>1, <1>3, Zenon
    <3>2. p \in Nodes' /\ ~node'[p].is_leaf /\ node'[m].parent = p /\ m # root'
      BY <1>1, <1>2, <1>3, <1>6, <2>0, <2>1, Zenon
    <3>3. \E i \in 1 .. Len(node'[p].children) : node'[p].children[i] = m
      BY <1>6, <2>1, <3>1, Zenon
    <3> QED BY <3>2, <3>3 DEF ParentOf
  <2>2. CASE m # r /\ m = root
    <3>1. ParentOf(m)
      BY <1>1, <2>2 DEF Shape, Parents
    <3> QED BY <1>7, <2>0, <2>2, <3>1 DEF ParentOf
  <2>3. CASE m # r /\ m # root
    <3>1. ParentOf(m)
      BY <1>1, <2>3 DEF Shape, Parents
    <3>2. PICK q \in Nodes : /\ q = node[m].parent /\ ~node[q].is_leaf
                            /\ \E i \in 1 .. Len(node[q].children) : node[q].children[i] = m
      BY <2>3, <3>1 DEF ParentOf
    <3>3. q = node'[m].parent /\ ~node'[q].is_leaf /\ q \in Nodes'
      BY <1>6, <1>7, <2>3, <3>2
    <3>4. \E i \in 1 .. Len(node'[q].children) : node'[q].children[i] = m
      <4>1. CASE q = p
        <5>1. m # root /\ node[m].parent = p
          BY <2>3, <3>2, <4>1
        <5>2. \E i \in 1 .. Len(t.children) : t.children[i] = m
          BY <1>3, <5>1, Zenon
        <5> QED BY <1>6, <4>1, <5>2
      <4>2. CASE q # p
        BY <1>6, <3>2, <4>2
      <4> QED BY <4>1, <4>2
    <3> QED BY <2>0, <2>3, <3>3, <3>4 DEF ParentOf
  <2> QED BY <2>1, <2>2, <2>3
<1>17. Parents' /\ Halves(h, R)'
  BY <1>6, <1>8, <1>16 DEF Parents, Halves
<1>18. SameLeaves
  BY <1>6, <1>7 DEF SameLeaves
<1>19. Linked(R)'
  <2>1. \A n \in Nodes' : node'[n].is_leaf => n \in Nodes /\ node[n].is_leaf
    BY <1>6, <1>7
  <2>2. Linked(R)
    BY DEF Shape
  <2>3. \A n \in Nodes : node[n].is_leaf =>
          n \in Nodes' /\ node'[n].is_leaf /\ node'[n].next = node[n].next
    BY <1>6, <1>7
  <2> QED BY <2>1, <2>2, <2>3, ListKept
<1> QED BY <1>9, <1>10, <1>11, <1>12, <1>15, <1>17, <1>18, <1>19, SameEntries DEF Shape

(* The children of s in lower have parent p, those in upper have w. *)
Moved(s, p, w, lower, upper) ==
  [n \in DOMAIN s |-> CASE Contains(lower, n) -> [s[n] EXCEPT !.parent = p]
                        [] Contains(upper, n) -> [s[n] EXCEPT !.parent = w]
                        [] OTHER -> s[n]]

(* f is s but for the parents of the moved nodes, and node p, which is lo; *)
(* the last node of f is up.                                               *)
MovedTo(f, s, p, w, lower, upper, lo, up) ==
  /\ f \in Seq(NodeType) /\ DOMAIN f = (1 .. Len(s)) \union {w} /\ f[p] = lo /\ f[w] = up
  /\ \A m \in 1 .. Len(s) : m # p =>
       /\ f[m].is_leaf = s[m].is_leaf /\ f[m].keys = s[m].keys
       /\ f[m].values = s[m].values /\ f[m].children = s[m].children /\ f[m].next = s[m].next
       /\ Contains(lower, m) => f[m].parent = p
       /\ Contains(upper, m) => f[m].parent = w
       /\ ~Contains(lower, m) /\ ~Contains(upper, m) => f[m].parent = s[m].parent

LEMMA MovedIs ==
  ASSUME NEW s \in Seq(NodeType), NEW p \in 1 .. Len(s), NEW w \in Nat, w = Len(s) + 1,
         NEW lower, NEW upper, \A n \in 1 .. Len(s) : ~(Contains(lower, n) /\ Contains(upper, n)),
         NEW lo \in NodeType, NEW up \in NodeType,
         NEW f, f = Append([Moved(s, p, w, lower, upper) EXCEPT ![p] = lo], up)
  PROVE  MovedTo(f, s, p, w, lower, upper, lo, up)
<1>1. PICK f1 : f1 = Moved(s, p, w, lower, upper)
  OBVIOUS
<1>2. /\ DOMAIN f1 = 1 .. Len(s) /\ f1 = [n \in 1 .. Len(s) |-> f1[n]]
      /\ \A n \in 1 .. Len(s) :
           /\ Contains(lower, n) => f1[n] = [s[n] EXCEPT !.parent = p]
           /\ Contains(upper, n) => f1[n] = [s[n] EXCEPT !.parent = w]
           /\ ~Contains(lower, n) /\ ~Contains(upper, n) => f1[n] = s[n]
  BY <1>1 DEF Moved
<1>3. \A n \in 1 .. Len(s) : s[n] \in NodeType
  BY ElementOf
<1>4. ASSUME NEW n \in 1 .. Len(s)
      PROVE  /\ f1[n] \in NodeType
             /\ f1[n].is_leaf = s[n].is_leaf /\ f1[n].keys = s[n].keys
             /\ f1[n].values = s[n].values /\ f1[n].children = s[n].children
             /\ f1[n].next = s[n].next
             /\ Contains(lower, n) => f1[n].parent = p
             /\ Contains(upper, n) => f1[n].parent = w
             /\ ~Contains(lower, n) /\ ~Contains(upper, n) => f1[n].parent = s[n].parent
  <2>0. p \in Nat /\ s[n] \in NodeType
    BY <1>3
  <2>1. CASE Contains(lower, n)
    <3>1. f1[n] = [s[n] EXCEPT !.parent = p] /\ ~Contains(upper, n)
      BY <1>2, <2>1
    <3> QED BY <2>0, <2>1, <3>1, ReparentIs
  <2>2. CASE Contains(upper, n)
    <3>1. f1[n] = [s[n] EXCEPT !.parent = w] /\ ~Contains(lower, n)
      BY <1>2, <2>2
    <3>2. LET md == [s[n] EXCEPT !.parent = w]
          IN  /\ md \in NodeType /\ md.is_leaf = s[n].is_leaf /\ md.keys = s[n].keys
              /\ md.values = s[n].values /\ md.children = s[n].children /\ md.parent = w
              /\ md.next = s[n].next
      BY <2>0, ReparentIs, Zenon
    <3> QED BY <2>2, <3>1, <3>2, Zenon
  <2>3. CASE ~Contains(lower, n) /\ ~Contains(upper, n)
    BY <1>2, <1>3, <2>3
  <2> QED BY <2>1, <2>2, <2>3
<1>5. f1 \in Seq(NodeType) /\ Len(f1) = Len(s)
  <2>1. f1 \in [1 .. Len(s) -> NodeType]
    BY <1>2, <1>4
  <2> QED BY <2>1
<1>6. PICK f2 : f2 = [f1 EXCEPT ![p] = lo]
  OBVIOUS
<1>7. /\ f2 \in Seq(NodeType) /\ Len(f2) = Len(s) /\ f2[p] = lo
      /\ \A m \in 1 .. Len(s) : m # p => f2[m] = f1[m]
  BY <1>5, <1>6
<1>8. f = Append(f2, up)
  BY <1>1, <1>6
<1>9. /\ f \in Seq(NodeType) /\ DOMAIN f = (1 .. Len(s)) \union {w}
      /\ f[w] = up /\ \A n \in 1 .. Len(s) : f[n] = f2[n]
  <2>1. /\ f \in Seq(NodeType) /\ DOMAIN f = (1 .. Len(f2)) \union {Len(f2) + 1}
        /\ f[Len(f2) + 1] = up /\ \A n \in 1 .. Len(f2) : f[n] = f2[n]
    <3>1. /\ Append(f2, up) \in Seq(NodeType)
          /\ DOMAIN Append(f2, up) = (1 .. Len(f2)) \union {Len(f2) + 1}
          /\ Append(f2, up)[Len(f2) + 1] = up
          /\ \A n \in 1 .. Len(f2) : Append(f2, up)[n] = f2[n]
      BY <1>7, HeapGrows
    <3> QED BY <1>8, <3>1
  <2>2. Len(f2) = Len(s) /\ Len(f2) + 1 = w
    BY <1>7
  <2> QED BY <2>1, <2>2
<1>10. \A m \in 1 .. Len(s) : m # p => f[m] = f1[m]
  BY <1>7, <1>9
<1>11. f[p] = lo
  BY <1>7, <1>9
<1>12. ASSUME NEW m \in 1 .. Len(s), m # p
       PROVE  /\ f[m].is_leaf = s[m].is_leaf /\ f[m].keys = s[m].keys
              /\ f[m].values = s[m].values /\ f[m].children = s[m].children /\ f[m].next = s[m].next
              /\ Contains(lower, m) => f[m].parent = p
              /\ Contains(upper, m) => f[m].parent = w
              /\ ~Contains(lower, m) /\ ~Contains(upper, m) => f[m].parent = s[m].parent
  BY <1>4, <1>10, <1>12, Zenon
<1> QED BY <1>9, <1>11, <1>12, Zenon DEF MovedTo

(* The two nodes that a full internal node becomes. *)
LowerChildren(t) == SubSeq(t.children, 1, Half + 1)
UpperChildren(t) == SubSeq(t.children, Half + 2, Order + 1)
LowerNode(t) == Internal(SubSeq(t.keys, 1, Half), LowerChildren(t), t.parent)
UpperNode(t) == Internal(SubSeq(t.keys, Half + 2, Order), UpperChildren(t), t.parent)

(* nd is an internal node with these keys, children and parent. *)
Made(nd, ks, cs, q) ==
  /\ nd \in NodeType /\ nd.is_leaf = FALSE
  /\ nd.keys = ks /\ nd.children = cs /\ nd.parent = q

(* lower and upper are the two parts of tc. *)
Cut(tc, lower, upper) ==
  /\ lower \in Seq(Nat) /\ Len(lower) = Half + 1
  /\ \A i \in 1 .. Half + 1 : lower[i] = tc[i]
  /\ upper \in Seq(Nat) /\ Len(upper) = Order - Half
  /\ \A i \in 1 .. Order - Half : upper[i] = tc[Half + 1 + i]

LEMMA ChildrenCut ==
  ASSUME NEW t \in NodeType, Len(t.children) = Order + 1
  PROVE  Cut(t.children, LowerChildren(t), UpperChildren(t))
<1>1. PICK tc \in Seq(Nat) : tc = t.children /\ Len(tc) = Order + 1
  BY DEF NodeType
<1>2. /\ Order \in Nat /\ Half \in Nat /\ Half >= 1 /\ Half + 2 <= Order
  BY HalfIs
<1>3. /\ SubSeq(tc, 1, Half + 1) \in Seq(Nat) /\ Len(SubSeq(tc, 1, Half + 1)) = Half + 1
      /\ \A i \in 1 .. Half + 1 : SubSeq(tc, 1, Half + 1)[i] = tc[i]
  BY <1>1, <1>2
<1>4. /\ SubSeq(tc, Half + 2, Order + 1) \in Seq(Nat)
      /\ Len(SubSeq(tc, Half + 2, Order + 1)) = Order - Half
      /\ \A i \in 1 .. Order - Half : SubSeq(tc, Half + 2, Order + 1)[i] = tc[Half + 1 + i]
  BY <1>1, <1>2
<1>5. Cut(tc, SubSeq(tc, 1, Half + 1), SubSeq(tc, Half + 2, Order + 1))
  BY <1>3, <1>4 DEF Cut
<1> QED BY <1>1, <1>5 DEF LowerChildren, UpperChildren

LEMMA NodesMade ==
  ASSUME NEW t \in NodeType, Len(t.keys) = Order, Len(t.children) = Order + 1
  PROVE  /\ Made(LowerNode(t), SubSeq(t.keys, 1, Half), LowerChildren(t), t.parent)
         /\ Made(UpperNode(t), SubSeq(t.keys, Half + 2, Order), UpperChildren(t), t.parent)
<1>1. LowerChildren(t) \in Seq(Nat) /\ UpperChildren(t) \in Seq(Nat)
  BY ChildrenCut DEF Cut
<1>2. t.keys \in Seq(Int) /\ t.parent \in Nat
  BY DEF NodeType
<1>3. Order \in Nat /\ Half \in Nat /\ Half >= 1 /\ Half + 2 <= Order
  BY HalfIs
<1>4. SubSeq(t.keys, 1, Half) \in Seq(Int) /\ SubSeq(t.keys, Half + 2, Order) \in Seq(Int)
  <2>1. PICK ks \in Seq(Int) : ks = t.keys /\ Len(ks) = Order
    BY <1>2
  <2>2. SubSeq(ks, 1, Half) \in Seq(Int) /\ SubSeq(ks, Half + 2, Order) \in Seq(Int)
    BY <1>3, <2>1
  <2> QED BY <2>1, <2>2
<1>5. ASSUME NEW ks \in Seq(Int), NEW cs \in Seq(Nat), NEW q \in Nat
      PROVE  Made(Internal(ks, cs, q), ks, cs, q)
  BY DEF Made, Internal, NodeType, Null
<1> QED BY <1>1, <1>2, <1>4, <1>5 DEF LowerNode, UpperNode

(* Where the children of a full node go. *)
Divided(tc, lower, upper) ==
  /\ \A i \in 1 .. Half + 1 : Contains(lower, tc[i])
  /\ \A i \in 1 .. Order - Half : Contains(upper, tc[Half + 1 + i])
  /\ \A c : Contains(lower, c) => \E i \in 1 .. Half + 1 : c = tc[i] /\ c = lower[i]
  /\ \A c : Contains(upper, c) => \E i \in 1 .. Order - Half : c = tc[Half + 1 + i] /\ c = upper[i]
  /\ \A c : ~(Contains(lower, c) /\ Contains(upper, c))
  /\ \A i \in 1 .. Order + 1 : Contains(lower, tc[i]) \/ Contains(upper, tc[i])

LEMMA ChildrenDivided ==
  ASSUME NEW t \in NodeType, Len(t.children) = Order + 1, Distinct(t.children, Order + 1)
  PROVE  Divided(t.children, LowerChildren(t), UpperChildren(t))
<1> PICK lower : lower = LowerChildren(t)
  OBVIOUS
<1> PICK upper : upper = UpperChildren(t)
  OBVIOUS
<1> PICK tc : tc = t.children
  OBVIOUS
<1>0. Order \in Nat /\ Half \in Nat /\ Half >= 1 /\ Half + 2 <= Order
  BY HalfIs
<1>1. /\ Len(lower) = Half + 1 /\ \A i \in 1 .. Half + 1 : lower[i] = tc[i]
      /\ Len(upper) = Order - Half /\ \A i \in 1 .. Order - Half : upper[i] = tc[Half + 1 + i]
  <2>1. Cut(tc, lower, upper)
    BY ChildrenCut
  <2> QED BY <2>1 DEF Cut
<1>2. /\ \A c : Contains(lower, c) <=> \E i \in 1 .. Half + 1 : lower[i] = c
      /\ \A c : Contains(upper, c) <=> \E i \in 1 .. Order - Half : upper[i] = c
  BY <1>1 DEF Contains
<1>3. \A i \in 1 .. Half + 1 : Contains(lower, tc[i])
  BY <1>1, <1>2
<1>4. \A i \in 1 .. Order - Half : Contains(upper, tc[Half + 1 + i])
  BY <1>1, <1>2
<1>5. \A c : Contains(lower, c) => \E i \in 1 .. Half + 1 : c = tc[i] /\ c = lower[i]
  BY <1>1, <1>2
<1>6. \A c : Contains(upper, c) => \E i \in 1 .. Order - Half : c = tc[Half + 1 + i] /\ c = upper[i]
  BY <1>1, <1>2
<1>7. ASSUME NEW c, Contains(lower, c), Contains(upper, c) PROVE FALSE
  <2>1. PICK i \in 1 .. Half + 1 : c = tc[i]
    BY <1>5, <1>7
  <2>2. PICK j \in 1 .. Order - Half : c = tc[Half + 1 + j]
    BY <1>6, <1>7
  <2>3. i \in 1 .. Order + 1 /\ Half + 1 + j \in 1 .. Order + 1 /\ i # Half + 1 + j
    BY <1>0
  <2> QED BY <2>1, <2>2, <2>3 DEF Distinct
<1>8. ASSUME NEW i \in 1 .. Order + 1 PROVE Contains(lower, tc[i]) \/ Contains(upper, tc[i])
  <2>1. CASE i <= Half + 1
    <3>1. i \in 1 .. Half + 1
      BY <1>0, <2>1
    <3> QED BY <1>3, <3>1
  <2>2. CASE i > Half + 1
    <3>1. i - (Half + 1) \in 1 .. Order - Half /\ Half + 1 + (i - (Half + 1)) = i
      BY <1>0, <2>2
    <3>2. Contains(upper, tc[Half + 1 + (i - (Half + 1))])
      BY <1>4, <3>1
    <3> QED BY <3>1, <3>2
  <2> QED BY <1>0, <2>1, <2>2
<1> QED BY <1>3, <1>4, <1>5, <1>6, <1>7, <1>8 DEF Divided

(* A full parent is split in turn. *)
LEMMA SplitInternalShape ==
  ASSUME NEW h, NEW R, Shape(h, R), ~Idle, NEW p, p = node[promotion.left].parent, p # Null,
         bptree_split_internal_and_insert(p, promotion.left, promotion.key, promotion.right),
         returned' = 2
  PROVE  TreeInv' /\ Entries' = Entries
<1> PICK l : l = promotion.left
  OBVIOUS
<1> PICK r : r = promotion.right
  OBVIOUS
<1> PICK t : t = WithChild(node[p], promotion.left, promotion.key, promotion.right)
  OBVIOUS
<1>1. /\ l \in Nodes /\ r \in Nodes /\ l # r /\ r # root /\ node[l].parent = p
      /\ \A c \in Nodes : c # r => ~Orphan(c)
      /\ \A c \in Nodes : c # l => Covered(R, c) = R[c]
      /\ Orphan(r)
  BY PromotionIs
<1>2. /\ p \in Nodes /\ ~node[p].is_leaf /\ p # r /\ p # l /\ InnerNode(h, R, p)
  BY ParentIs
<1>w. Whole(h, R, p, t)
  BY WholeNode
<1>4. /\ node \in Seq(NodeType) /\ Nodes = 1 .. Len(node) /\ Len(node) \in Nat /\ Null \notin Nodes
      /\ root \in Nodes /\ root # Null /\ root \in Nat /\ node[p] \in NodeType
  BY <1>1, <1>2, NodesAre DEF Shape, Types, Nodes
<1> PICK w \in Nat : w = Len(node) + 1
  BY <1>4
<1> PICK lower : lower = LowerChildren(t)
  OBVIOUS
<1> PICK upper : upper = UpperChildren(t)
  OBVIOUS
<1> PICK lo : lo = LowerNode(t)
  OBVIOUS
<1> PICK up : up = UpperNode(t)
  OBVIOUS
<1> PICK sep : sep = t.keys[Half + 1]
  OBVIOUS
<1>a. LET u == WithChild(node[p], promotion.left, promotion.key, promotion.right)
      IN  /\ Len(node[p].keys) >= MaxKeys
          /\ node' = Append([Moved(node, p, Len(node) + 1, LowerChildren(u), UpperChildren(u))
                               EXCEPT ![p] = LowerNode(u)], UpperNode(u))
          /\ promotion' = [left |-> p, key |-> u.keys[Half + 1], right |-> Len(node) + 1]
          /\ root' = root
  <2>1. ~CallocRefuses("right parent")
    BY DEF CallocRefuses, Return
  <2> QED BY <2>1, Zenon DEF bptree_split_internal_and_insert, Promote, Moved, Nodes, LowerNode, UpperNode,
                      LowerChildren, UpperChildren
<1>5. node' = Append([Moved(node, p, w, lower, upper) EXCEPT ![p] = lo], up)
  BY <1>a, Zenon
<1>b. promotion' = [left |-> p, key |-> sep, right |-> w]
  BY <1>a, Zenon
<1>c. root' = root
  BY <1>a, Zenon
<1>d. Len(node[p].keys) >= MaxKeys
  BY <1>a, Zenon
<1>3. /\ t \in NodeType /\ t.is_leaf = FALSE /\ t.parent = node[p].parent
      /\ Len(t.keys) = Order /\ Len(t.children) = Order + 1
      /\ Ascending(t.keys) /\ Distinct(t.children, Order + 1)
      /\ \A j \in 1 .. Order + 1 : Kid(h, R, p, t, j)
  <2>1. Len(node[p].keys) <= MaxKeys
    BY <1>2, Zenon DEF InnerNode
  <2>2. PICK q \in NodeType : q = node[p]
    BY <1>4
  <2>3. PICK n \in Nat : n = Len(q.keys)
    BY DEF NodeType
  <2>a. n <= MaxKeys /\ n >= MaxKeys
    BY <1>d, <2>1, <2>2, <2>3
  <2>4. n + 1 = Order /\ n + 2 = Order + 1
    BY <2>a, HalfIs
  <2>5. Len(t.keys) = Order /\ Len(t.children) = Order + 1
    BY <1>w, <2>2, <2>3, <2>4, Zenon DEF Whole
  <2> QED BY <1>w, <2>5, Zenon DEF Whole
<1>e. Divided(t.children, lower, upper)
  BY <1>3, ChildrenDivided, Zenon
<1>6. /\ \A m \in Nodes : (m # root /\ node[m].parent = p) \/ m = r
                            => Contains(lower, m) \/ Contains(upper, m)
      /\ \A c : ~(Contains(lower, c) /\ Contains(upper, c))
  <2>1. \A m \in Nodes : (m # root /\ node[m].parent = p) \/ m = r
                            => \E j \in 1 .. Order + 1 : t.children[j] = m
    BY <1>3, <1>w, Zenon DEF Whole
  <2>2. /\ \A j \in 1 .. Order + 1 : Contains(lower, t.children[j]) \/ Contains(upper, t.children[j])
        /\ \A c : ~(Contains(lower, c) /\ Contains(upper, c))
    BY <1>e, Zenon DEF Divided
  <2>3. ASSUME NEW m \in Nodes, (m # root /\ node[m].parent = p) \/ m = r
        PROVE  Contains(lower, m) \/ Contains(upper, m)
    <3>1. PICK j \in 1 .. Order + 1 : t.children[j] = m
      BY <2>1, <2>3, Zenon
    <3> QED BY <2>2, <3>1, Zenon
  <2> QED BY <2>2, <2>3, Zenon
<1>7. /\ \A c : Contains(lower, c) =>
                  \E i \in 1 .. Half + 1 : c = t.children[i] /\ c = lower[i]
      /\ \A c : Contains(upper, c) =>
                  \E i \in 1 .. Order - Half : c = t.children[Half + 1 + i] /\ c = upper[i]
      /\ \A i \in 1 .. Half + 1 : Contains(lower, t.children[i])
      /\ \A i \in 1 .. Order - Half : Contains(upper, t.children[Half + 1 + i])
  BY <1>e, Zenon DEF Divided
<1>8. /\ lower \in Seq(Nat) /\ Len(lower) = Half + 1
      /\ \A i \in 1 .. Half + 1 : lower[i] = t.children[i] /\ i \in 1 .. Order + 1
      /\ upper \in Seq(Nat) /\ Len(upper) = Order - Half
      /\ \A i \in 1 .. Order - Half : /\ upper[i] = t.children[Half + 1 + i]
                                      /\ Half + 1 + i \in 1 .. Order + 1
  <2>1. /\ \A i \in 1 .. Half + 1 : i \in 1 .. Order + 1
        /\ \A i \in 1 .. Order - Half : Half + 1 + i \in 1 .. Order + 1
    BY HalfIs
  <2>2. Cut(t.children, lower, upper)
    BY <1>3, ChildrenCut, Zenon
  <2> QED BY <2>1, <2>2, Zenon DEF Cut
<1>9. Made(lo, SubSeq(t.keys, 1, Half), lower, t.parent)
      /\ Made(up, SubSeq(t.keys, Half + 2, Order), upper, t.parent)
  BY <1>3, NodesMade, Zenon
<1>10. /\ lo \in NodeType /\ lo.is_leaf = FALSE /\ lo.children = lower /\ lo.parent = t.parent
       /\ up \in NodeType /\ up.is_leaf = FALSE /\ up.children = upper
       /\ lo.keys = SubSeq(t.keys, 1, Half) /\ up.keys = SubSeq(t.keys, Half + 2, Order)
  BY <1>9, Zenon DEF Made
<1>11. MovedTo(node', node, p, w, lower, upper, lo, up)
  <2>1. p \in 1 .. Len(node) /\ \A n \in 1 .. Len(node) : ~(Contains(lower, n) /\ Contains(upper, n))
    BY <1>2, <1>4, <1>6
  <2>2. PICK f : f = node'
    OBVIOUS
  <2>3. f = Append([Moved(node, p, w, lower, upper) EXCEPT ![p] = lo], up)
    BY <1>5, <2>2, Zenon
  <2>4. MovedTo(f, node, p, w, lower, upper, lo, up)
    BY <1>4, <1>10, <2>1, <2>3, MovedIs, Zenon
  <2> QED BY <2>2, <2>4
<1>12. /\ node' \in Seq(NodeType) /\ Nodes' = Nodes \union {w} /\ w \notin Nodes
       /\ node'[p] = lo /\ node'[w] = up
       /\ \A m \in Nodes : m # p =>
            /\ node'[m].is_leaf = node[m].is_leaf /\ node'[m].keys = node[m].keys
            /\ node'[m].values = node[m].values /\ node'[m].children = node[m].children
            /\ node'[m].next = node[m].next
            /\ Contains(lower, m) => node'[m].parent = p
            /\ Contains(upper, m) => node'[m].parent = w
            /\ ~Contains(lower, m) /\ ~Contains(upper, m) => node'[m].parent = node[m].parent
  <2>1. w \notin Nodes
    BY <1>4
  <2> QED BY <1>4, <1>11, <2>1, Zenon DEF MovedTo, Nodes
<1>13. PICK rp \in SUBSET Int : rp = R[p]
  BY <1>2 DEF Shape, Places
<1>14. PICK g : g = [n \in Nodes \union {w} |-> IF n = w THEN h[p] ELSE h[n]]
  OBVIOUS
<1>15. PICK Q : Q = [n \in Nodes \union {w} |->
                       IF n = p THEN {k \in rp : k < sep}
                       ELSE IF n = w THEN {k \in rp : k >= sep} ELSE R[n]]
  BY Zenon
<1>16. /\ h \in [Nodes -> Nat] /\ R \in [Nodes -> SUBSET Int]
       /\ \A n \in Nodes : (node[n].is_leaf <=> h[n] = 0) /\ h[n] <= h[root] /\ R[n] # {}
       /\ \A n, m \in Nodes : n # m /\ h[n] = h[m] => R[n] \intersect R[m] = {}
  BY <1>4 DEF Shape, Heights, Places
<1>17. g \in [Nodes \union {w} -> Nat] /\ g[w] = h[p] /\ \A n \in Nodes : g[n] = h[n]
  BY <1>2, <1>12, <1>14, <1>16, Zenon
<1>18. /\ Q \in [Nodes \union {w} -> SUBSET Int]
       /\ Q[p] = {k \in rp : k < sep} /\ Q[w] = {k \in rp : k >= sep}
       /\ \A n \in Nodes : n # p => Q[n] = R[n]
  BY <1>2, <1>12, <1>15, <1>16, Zenon
<1>19. /\ lo.keys \in Seq(Int) /\ Len(lo.keys) = Half /\ Ascending(lo.keys)
       /\ up.keys \in Seq(Int) /\ Len(up.keys) = Order - Half - 1 /\ Ascending(up.keys)
       /\ sep \in Int
       /\ \A j \in 1 .. Half + 1 : Zone(lo.keys, Q[p], j) = Zone(t.keys, rp, j)
       /\ \A j \in 1 .. Order - Half : Zone(up.keys, Q[w], j) = Zone(t.keys, rp, Half + 1 + j)
  <2>1. PICK us \in Seq(Int) : us = t.keys /\ Len(us) = Order /\ Ascending(us)
    BY <1>3, Zenon DEF NodeType
  <2>2. PICK lk : lk = SubSeq(us, 1, Half)
    OBVIOUS
  <2>3. PICK uk : uk = SubSeq(us, Half + 2, Order)
    OBVIOUS
  <2>4. sep = us[Half + 1]
    BY <2>1
  <2>5. ZonesKept(us, lk, uk, rp, sep)
    BY <2>1, <2>2, <2>3, <2>4, ZonesOfHalves, Zenon
  <2>6. lo.keys = lk /\ up.keys = uk
    BY <1>10, <2>1, <2>2, <2>3, Zenon
  <2>7. ZonesKept(t.keys, lo.keys, up.keys, rp, sep)
    BY <2>1, <2>5, <2>6, Zenon
  <2>8. /\ \A j \in 1 .. Half + 1 : Zone(lo.keys, {k \in rp : k < sep}, j) = Zone(t.keys, rp, j)
        /\ \A j \in 1 .. Order - Half :
             Zone(up.keys, {k \in rp : k >= sep}, j) = Zone(t.keys, rp, Half + 1 + j)
    BY <2>7, Zenon DEF ZonesKept
  <2>9. /\ lo.keys \in Seq(Int) /\ Len(lo.keys) = Half /\ Ascending(lo.keys)
        /\ up.keys \in Seq(Int) /\ Len(up.keys) = Order - Half - 1 /\ Ascending(up.keys)
        /\ sep \in Int
    BY <2>7, Zenon DEF ZonesKept
  <2>10. Q[p] = {k \in rp : k < sep} /\ Q[w] = {k \in rp : k >= sep}
    BY <1>18, Zenon
  <2>11. \A j \in 1 .. Half + 1 : Zone(lo.keys, Q[p], j) = Zone(t.keys, rp, j)
    BY <2>8, <2>10, Zenon
  <2>12. \A j \in 1 .. Order - Half : Zone(up.keys, Q[w], j) = Zone(t.keys, rp, Half + 1 + j)
    BY <2>8, <2>10, Zenon
  <2> QED BY <2>9, <2>11, <2>12, Zenon
<1>20. Q[p] \union Q[w] = rp /\ Q[p] \intersect Q[w] = {} /\ Q[p] \subseteq rp /\ Q[w] \subseteq rp
  <2>1. sep \in Int
    BY <1>19, Zenon
  <2>2. \A k \in rp : k < sep <=> ~(k >= sep)
    BY <2>1
  <2>3. Q[p] = {k \in rp : k < sep} /\ Q[w] = {k \in rp : k >= sep}
    BY <1>18, Zenon
  <2> QED BY <2>2, <2>3, Zenon
<1>21. /\ ~Idle' /\ promotion' \in Promotions
       /\ promotion'.left = p /\ promotion'.right = w /\ promotion'.key = sep
  <2>a. p \in Nat
    BY <1>2, <1>4
  <2>b. sep \in Int
    BY <1>19
  <2>1. p \in Nat /\ sep \in Int
    BY <2>a, <2>b
  <2>2. promotion' \in [left : Nat, key : Int, right : Nat]
    BY <1>b, <2>1
  <2>3. promotion'.left = p /\ promotion'.right = w /\ promotion'.key = sep
    BY <1>b
  <2> QED BY <2>2, <2>3, NothingAssumption DEF Idle, Promotions
<1>22. ASSUME NEW c \in Nodes PROVE Covered(Q, c)' = R[c] /\ ~Orphan(c)'
  <2>1. c # w
    BY <1>12
  <2>2. CASE c = p
    <3>1. Covered(Q, c)' = Q[p] \union Q[w]
      BY <1>21, <2>2 DEF Covered
    <3> QED BY <1>13, <1>20, <1>21, <2>1, <2>2, <3>1, Zenon DEF Orphan
  <2>3. CASE c # p
    <3>1. Covered(Q, c)' = Q[c]
      BY <1>21, <2>3 DEF Covered
    <3> QED BY <1>18, <1>21, <2>1, <2>3, <3>1, Zenon DEF Orphan
  <2> QED BY <2>2, <2>3
<1>23. Orphan(w)'
  BY <1>21 DEF Orphan
<1>24. Types'
  <2>0. root' = root /\ root \in Nodes'
    BY <1>4, <1>c, <1>12
  <2> QED BY <1>4, <1>12, <1>21, <2>0 DEF Types
<1>25. root # l
  <2>1. ParentOf(l)
    BY PromotionIs
  <2> QED BY <1>1, <2>1 DEF ParentOf
<1>26. Heights(g)'
  <2>0. h[p] \in Nat /\ h[p] # 0 /\ h[p] <= h[root] /\ g[root] = h[root]
    BY <1>2, <1>4, <1>16, <1>17
  <2>1. ASSUME NEW m \in Nodes PROVE (node'[m].is_leaf <=> g[m] = 0) /\ g[m] <= g[root]
    <3>0. g[m] = h[m] /\ (node[m].is_leaf <=> h[m] = 0) /\ h[m] <= h[root]
      BY <1>16, <1>17
    <3>1. CASE m = p
      <4>1. node'[m].is_leaf = FALSE
        BY <1>10, <1>12, <3>1, Zenon
      <4> QED BY <2>0, <3>0, <3>1, <4>1
    <3>2. CASE m # p
      <4>1. node'[m].is_leaf = node[m].is_leaf
        BY <1>12, <3>2
      <4> QED BY <2>0, <3>0, <4>1
    <3> QED BY <3>1, <3>2
  <2>2. (node'[w].is_leaf <=> g[w] = 0) /\ g[w] <= g[root]
    <3>1. node'[w].is_leaf = FALSE /\ g[w] = h[p]
      BY <1>10, <1>12, <1>17, Zenon
    <3> QED BY <2>0, <3>1
  <2>3. root' = root
    BY <1>c
  <2> QED BY <1>12, <1>17, <2>1, <2>2, <2>3, Zenon DEF Heights
<1>27. ASSUME NEW i \in 1 .. Order + 1
       PROVE  /\ t.children[i] \in Nodes /\ h[p] = h[t.children[i]] + 1
              /\ R[t.children[i]] = Zone(t.keys, rp, i)
              /\ (t.children[i] = r \/ node[t.children[i]].parent = p)
              /\ t.children[i] # p /\ t.children[i] # root
  <2>1. Kid(h, R, p, t, i)
    BY <1>3, Zenon
  <2>2. PICK c \in Nodes : c = t.children[i]
    BY <2>1, Zenon DEF Kid
  <2>3. h[p] = h[c] + 1 /\ R[c] = Zone(t.keys, rp, i) /\ (c = r \/ node[c].parent = p)
    BY <1>13, <2>1, <2>2, Zenon DEF Kid
  <2>4. h[c] \in Nat /\ h[p] \in Nat /\ h[root] \in Nat /\ h[p] <= h[root]
    BY <1>2, <1>4, <1>16
  <2>5. c # p /\ c # root
    BY <2>3, <2>4
  <2> QED BY <2>2, <2>3, <2>5, Zenon
<1>28. Q[p] # {} /\ Q[w] # {}
  <2>0. Half \in Nat /\ Half >= 1 /\ Order \in Nat /\ Half + 2 <= Order
    BY HalfIs
  <2>1. 1 \in 1 .. Half + 1 /\ 1 \in 1 .. Order + 1 /\ 1 \in 1 .. Order - Half
        /\ Half + 1 + 1 \in 1 .. Order + 1
    BY <2>0
  <2>2. Zone(lo.keys, Q[p], 1) = Zone(t.keys, rp, 1) /\ Zone(up.keys, Q[w], 1) = Zone(t.keys, rp, Half + 1 + 1)
    BY <1>19, <2>1, Zenon
  <2>a. ASSUME NEW i \in 1 .. Order + 1
        PROVE  R[t.children[i]] = Zone(t.keys, rp, i) /\ t.children[i] \in Nodes
    BY <1>27, Zenon
  <2>b. R[t.children[1]] = Zone(t.keys, rp, 1) /\ t.children[1] \in Nodes
    BY <2>1, <2>a, Zenon
  <2>c. /\ R[t.children[Half + 1 + 1]] = Zone(t.keys, rp, Half + 1 + 1)
        /\ t.children[Half + 1 + 1] \in Nodes
    BY <2>1, <2>a, Zenon
  <2>3. /\ R[t.children[1]] = Zone(t.keys, rp, 1) /\ t.children[1] \in Nodes
        /\ R[t.children[Half + 1 + 1]] = Zone(t.keys, rp, Half + 1 + 1)
        /\ t.children[Half + 1 + 1] \in Nodes
    BY <2>b, <2>c, Zenon
  <2>4. R[t.children[1]] # {} /\ R[t.children[Half + 1 + 1]] # {}
    BY <1>16, <2>3, Zenon
  <2>5. \A ks, q : Zone(ks, q, 1) \subseteq q
    BY DEF Zone
  <2>6. Zone(lo.keys, Q[p], 1) # {} /\ Zone(up.keys, Q[w], 1) # {}
    BY <2>2, <2>3, <2>4, Zenon
  <2> QED BY <2>5, <2>6
<1>29. Places(g, Q)'
  <2>1. ASSUME NEW n \in Nodes PROVE Q[n] # {} /\ Q[n] \subseteq R[n]
    <3>1. CASE n = p
      BY <1>13, <1>20, <1>28, <3>1
    <3>2. CASE n # p
      BY <1>16, <1>18, <3>2, Zenon
    <3> QED BY <3>1, <3>2
  <2>2. ASSUME NEW n \in Nodes, NEW m \in Nodes, n # m, g[n] = g[m]
        PROVE  Q[n] \intersect Q[m] = {}
    <3>1. R[n] \intersect R[m] = {}
      BY <1>16, <1>17, <2>2
    <3> QED BY <2>1, <3>1
  <2>3. ASSUME NEW m \in Nodes, g[w] = g[m]
        PROVE  Q[w] \intersect Q[m] = {}
    <3>1. CASE m = p
      BY <1>20, <3>1
    <3>2. CASE m # p
      <4>1. h[p] = h[m]
        BY <1>17, <2>3
      <4>2. R[p] \intersect R[m] = {}
        BY <1>2, <1>16, <3>2, <4>1
      <4>3. Q[w] \subseteq R[p] /\ Q[m] \subseteq R[m]
        BY <1>13, <1>20, <2>1
      <4> QED BY <4>2, <4>3
    <3> QED BY <3>1, <3>2
  <2>4. ASSUME NEW n \in Nodes \union {w}, NEW m \in Nodes \union {w}, n # m, g[n] = g[m]
        PROVE  Q[n] \intersect Q[m] = {}
    <3>1. CASE n \in Nodes /\ m \in Nodes
      BY <2>2, <2>4, <3>1, Zenon
    <3>2. CASE n = w /\ m \in Nodes
      BY <2>3, <2>4, <3>2, Zenon
    <3>3. CASE m = w /\ n \in Nodes
      <4>1. Q[w] \intersect Q[n] = {}
        BY <2>3, <2>4, <3>3, Zenon
      <4> QED BY <3>3, <4>1
    <3> QED BY <2>4, <3>1, <3>2, <3>3, Zenon
  <2>5. \A n \in Nodes \union {w} : Q[n] # {}
    BY <1>28, <2>1
  <2>6. Covered(Q, root)' = Int
    <3>1. R[root] = Int
      BY <1>1, <1>4, <1>25 DEF Shape, Places
    <3>2. PICK c \in Nodes : c = root
      BY <1>4
    <3>3. c = root'
      BY <1>c, <3>2
    <3>4. Covered(Q, root)' = Covered(Q, c)'
      BY <3>3 DEF Covered
    <3> QED BY <1>22, <3>1, <3>2, <3>4
  <2>7. root' = root
    BY <1>c
  <2>8. Nodes' = Nodes \union {w}
    BY <1>12
  <2>9. root # Null => Covered(Q, root)' = Int
    BY <2>6
  <2> QED BY <1>18, <2>4, <2>5, <2>6, <2>7, <2>8, Zenon DEF Places
<1>30. Leaves(Q)'
  <2>1. ASSUME NEW m \in Nodes, node'[m].is_leaf
        PROVE  /\ Len(node'[m].values) = Len(node'[m].keys)
               /\ Len(node'[m].keys) <= MaxKeys
               /\ Increasing(node'[m].keys)
               /\ \A i \in 1 .. Len(node'[m].keys) : node'[m].keys[i] \in Q[m]
    <3>1. m # p
      BY <1>10, <1>12, <2>1, Zenon
    <3>2. node[m].is_leaf /\ node'[m].keys = node[m].keys /\ node'[m].values = node[m].values
      BY <1>12, <2>1, <3>1
    <3>3. Q[m] = R[m]
      BY <1>18, <3>1, Zenon
    <3> QED BY <3>2, <3>3 DEF Leaves, Shape
  <2>2. ~node'[w].is_leaf
    BY <1>10, <1>12, Zenon
  <2> QED BY <1>12, <2>1, <2>2 DEF Leaves
<1>31. ASSUME NEW m \in Nodes, ~node'[m].is_leaf, m # p PROVE InnerNode(g, Q, m)'
  <2>1. ~node[m].is_leaf /\ node'[m].keys = node[m].keys /\ node'[m].children = node[m].children
    BY <1>12, <1>31
  <2>2. InnerNode(h, R, m) /\ Q[m] = R[m] /\ g[m] = h[m]
    BY <1>17, <1>18, <1>31, <2>1, Zenon DEF Inner, Shape
  <2>3. ASSUME NEW i \in 1 .. Len(node[m].children) PROVE Child(g, Q, m, i)'
    <3>1. Child(h, R, m, i)
      BY <2>2, <2>3 DEF InnerNode
    <3>2. PICK c \in Nodes : c = node[m].children[i]
      BY <3>1 DEF Child
    <3>3. /\ node[c].parent = m /\ h[m] = h[c] + 1 /\ Covered(R, c) = Slot(node[m], R[m], i)
          /\ ~Orphan(c)
      BY <3>1, <3>2 DEF Child
    <3>4. c # l /\ c # r
      BY <1>1, <1>31, <3>3
    <3>5. ~Contains(lower, c) /\ ~Contains(upper, c)
      <4>1. \A j \in 1 .. Order + 1 : t.children[j] # c
        BY <1>27, <1>31, <3>3, <3>4, Zenon
      <4>2. ~Contains(lower, c)
        <5>1. SUFFICES ASSUME Contains(lower, c) PROVE FALSE
          OBVIOUS
        <5>2. PICK j \in 1 .. Half + 1 : c = t.children[j]
          BY <1>7, <5>1, Zenon
        <5>3. j \in 1 .. Order + 1
          BY <1>8, Zenon
        <5> QED BY <4>1, <5>2, <5>3, Zenon
      <4>3. ~Contains(upper, c)
        <5>1. SUFFICES ASSUME Contains(upper, c) PROVE FALSE
          OBVIOUS
        <5>2. PICK j \in 1 .. Order - Half : c = t.children[Half + 1 + j]
          BY <1>7, <5>1, Zenon
        <5>3. Half + 1 + j \in 1 .. Order + 1
          BY <1>8, Zenon
        <5> QED BY <4>1, <5>2, <5>3, Zenon
      <4> QED BY <4>2, <4>3
    <3>6. node'[c].parent = m
      <4>1. CASE c = p
        BY <1>3, <1>10, <1>12, <3>3, <4>1, Zenon
      <4>2. CASE c # p
        BY <1>12, <3>3, <3>5, <4>2
      <4> QED BY <4>1, <4>2
    <3>7. Covered(Q, c)' = R[c] /\ ~Orphan(c)' /\ R[c] = Slot(node[m], R[m], i)
      BY <1>1, <1>22, <3>3, <3>4
    <3>8. Slot(node'[m], Q[m], i) = Slot(node[m], R[m], i)
      BY <2>1, <2>2 DEF Slot
    <3>9. c \in Nodes' /\ c = node'[m].children[i] /\ g[m] = g[c] + 1
      BY <1>12, <1>17, <2>1, <2>2, <3>2, <3>3, Zenon
    <3> QED BY <3>6, <3>7, <3>8, <3>9 DEF Child
  <2> QED BY <2>1, <2>2, <2>3 DEF InnerNode
<1>32. InnerNode(g, Q, p)'
  <2>0. node'[p] = lo /\ Len(lo.children) = Half + 1 /\ Len(lo.keys) = Half /\ Ascending(lo.keys)
    BY <1>8, <1>10, <1>12, <1>19, Zenon
  <2>1. ASSUME NEW i \in 1 .. Half + 1 PROVE Child(g, Q, p, i)'
    <3>1. i \in 1 .. Order + 1 /\ lower[i] = t.children[i]
      BY <1>8, Zenon
    <3>2. PICK c \in Nodes : c = t.children[i]
      BY <1>27, <3>1, Zenon
    <3>3. h[p] = h[c] + 1 /\ R[c] = Zone(t.keys, rp, i) /\ c # p
      BY <1>27, <3>1, <3>2, Zenon
    <3>4. Contains(lower, c)
      BY <1>7, <3>2, Zenon
    <3>5. node'[c].parent = p
      BY <1>12, <3>3, <3>4
    <3>6. Covered(Q, c)' = R[c] /\ ~Orphan(c)'
      BY <1>22
    <3>7. Slot(lo, Q[p], i) = R[c]
      <4>1. Slot(lo, Q[p], i) = Zone(lo.keys, Q[p], i)
        BY SlotIsZone
      <4>2. Zone(lo.keys, Q[p], i) = Zone(t.keys, rp, i)
        BY <1>19, Zenon
      <4> QED BY <3>3, <4>1, <4>2
    <3>8. c \in Nodes' /\ c = node'[p].children[i] /\ g[p] = g[c] + 1
      <4>1. c \in Nodes'
        BY <1>12
      <4>2. lo.children = lower
        BY <1>10, Zenon
      <4>3. c = node'[p].children[i]
        BY <2>0, <3>1, <3>2, <4>2, Zenon
      <4>4. g[p] = h[p] /\ g[c] = h[c]
        BY <1>2, <1>17
      <4> QED BY <3>3, <4>1, <4>3, <4>4, Zenon
    <3> QED BY <2>0, <3>5, <3>6, <3>7, <3>8, Zenon DEF Child
  <2>2. ASSUME NEW i \in 1 .. Half + 1, NEW j \in 1 .. Half + 1, lo.children[i] = lo.children[j]
        PROVE  i = j
    <3>0. lo.children = lower
      BY <1>10, Zenon
    <3>1. lower[i] = t.children[i] /\ lower[j] = t.children[j] /\ i \in 1 .. Order + 1 /\ j \in 1 .. Order + 1
      BY <1>8, Zenon
    <3>2. t.children[i] = t.children[j]
      BY <2>2, <3>0, <3>1
    <3>3. Distinct(t.children, Order + 1)
      BY <1>3
    <3> QED BY <3>1, <3>2, <3>3, Zenon DEF Distinct
  <2>3. Half <= MaxKeys /\ Half \in Nat
    BY HalfIs
  <2> QED BY <2>0, <2>1, <2>2, <2>3, Zenon DEF InnerNode
<1>33. InnerNode(g, Q, w)'
  <2>0. /\ node'[w] = up /\ Len(up.children) = Order - Half /\ Len(up.keys) = Order - Half - 1
        /\ Ascending(up.keys)
    BY <1>8, <1>10, <1>12, <1>19, Zenon
  <2>1. ASSUME NEW i \in 1 .. Order - Half PROVE Child(g, Q, w, i)'
    <3>1. PICK x \in 1 .. Order + 1 : x = Half + 1 + i
      BY <1>8, Zenon
    <3>a. upper[i] = t.children[x]
      BY <1>8, <3>1, Zenon
    <3>2. PICK c \in Nodes : c = t.children[x]
      BY <1>27, <3>1, Zenon
    <3>3. h[p] = h[c] + 1 /\ R[c] = Zone(t.keys, rp, x) /\ c # p
      BY <1>27, <3>1, <3>2, Zenon
    <3>4. Contains(upper, c)
      BY <1>7, <3>1, <3>2, Zenon
    <3>5. node'[c].parent = w
      BY <1>12, <3>3, <3>4
    <3>6. Covered(Q, c)' = R[c] /\ ~Orphan(c)'
      BY <1>22
    <3>7. Slot(up, Q[w], i) = R[c]
      <4>1. Slot(up, Q[w], i) = Zone(up.keys, Q[w], i)
        BY SlotIsZone
      <4>2. Zone(up.keys, Q[w], i) = Zone(t.keys, rp, Half + 1 + i)
        BY <1>19, Zenon
      <4> QED BY <3>1, <3>3, <4>1, <4>2
    <3>8. c \in Nodes' /\ c = node'[w].children[i] /\ g[w] = g[c] + 1
      <4>1. c \in Nodes'
        BY <1>12
      <4>2. up.children = upper
        BY <1>10, Zenon
      <4>3. c = node'[w].children[i]
        BY <2>0, <3>a, <3>2, <4>2, Zenon
      <4>4. g[w] = h[p] /\ g[c] = h[c]
        BY <1>17
      <4> QED BY <3>3, <4>1, <4>3, <4>4
    <3> QED BY <2>0, <3>5, <3>6, <3>7, <3>8, Zenon DEF Child
  <2>2. \A i, j \in 1 .. Order - Half : up.children[i] = up.children[j] => i = j
    <3> SUFFICES ASSUME NEW i \in 1 .. Order - Half, NEW j \in 1 .. Order - Half,
                        up.children[i] = up.children[j]
                 PROVE  i = j
      BY Zenon
    <3>1. /\ t.children[Half + 1 + i] = t.children[Half + 1 + j]
          /\ Half + 1 + i \in 1 .. Order + 1 /\ Half + 1 + j \in 1 .. Order + 1
      BY <1>8, <1>10, Zenon
    <3>2. Half + 1 + i = Half + 1 + j
      BY <1>3, <3>1, Zenon DEF Distinct
    <3> QED BY <3>2, HalfIs
  <2>3. Order - Half - 1 <= MaxKeys /\ Order - Half = (Order - Half - 1) + 1
    BY HalfIs DEF MaxKeys
  <2>4. Len(node'[w].children) = Order - Half /\ Len(node'[w].keys) = Order - Half - 1
    BY <2>0
  <2>5. /\ Len(node'[w].children) = Len(node'[w].keys) + 1 /\ Len(node'[w].keys) <= MaxKeys
        /\ Ascending(node'[w].keys)
    <3>1. Ascending(node'[w].keys)
      BY <2>0, Zenon
    <3> QED BY <2>3, <2>4, <3>1
  <2>6. \A i \in 1 .. Len(node'[w].children) : Child(g, Q, w, i)'
    BY <2>1, <2>4
  <2>7. \A i, j \in 1 .. Len(node'[w].children) :
           node'[w].children[i] = node'[w].children[j] => i = j
    BY <2>0, <2>2, <2>4, Zenon
  <2> QED BY <2>5, <2>6, <2>7 DEF InnerNode
<1>34. Inner(g, Q)'
  BY <1>12, <1>31, <1>32, <1>33 DEF Inner
<1>35. ASSUME NEW m \in Nodes PROVE ParentOf(m)'
  <2>0. root' = root
    BY <1>c
  <2>1. CASE Contains(lower, m)
    <3>1. PICK i \in 1 .. Half + 1 : m = t.children[i] /\ m = lower[i]
      BY <1>7, <2>1, Zenon
    <3>2. i \in 1 .. Order + 1
      BY <1>8, Zenon
    <3>3. m # p /\ m # root
      BY <1>27, <3>1, <3>2, Zenon
    <3>4. node'[m].parent = p /\ p \in Nodes' /\ ~node'[p].is_leaf
      BY <1>2, <1>10, <1>12, <2>1, <3>3, Zenon
    <3>5. node'[p].children = lower /\ Len(lower) = Half + 1
      BY <1>8, <1>10, <1>12, Zenon
    <3>6. \E j \in 1 .. Len(node'[p].children) : node'[p].children[j] = m
      BY <3>1, <3>5
    <3> QED BY <2>0, <3>3, <3>4, <3>6 DEF ParentOf
  <2>2. CASE Contains(upper, m)
    <3>1. PICK i \in 1 .. Order - Half : m = t.children[Half + 1 + i] /\ m = upper[i]
      BY <1>7, <2>2, Zenon
    <3>2. PICK x \in 1 .. Order + 1 : x = Half + 1 + i
      BY <1>8, Zenon
    <3>3. m # p /\ m # root
      <4>1. t.children[x] # p /\ t.children[x] # root
        BY <1>27, Zenon
      <4> QED BY <3>1, <3>2, <4>1, Zenon
    <3>4. node'[m].parent = w /\ w \in Nodes' /\ ~node'[w].is_leaf
      BY <1>10, <1>12, <2>2, <3>3, Zenon
    <3>5. node'[w].children = upper /\ Len(upper) = Order - Half
      BY <1>8, <1>10, <1>12, Zenon
    <3>6. \E j \in 1 .. Len(node'[w].children) : node'[w].children[j] = m
      BY <3>1, <3>5
    <3> QED BY <2>0, <3>3, <3>4, <3>6 DEF ParentOf
  <2>3. CASE ~Contains(lower, m) /\ ~Contains(upper, m)
    <3>1. m # r /\ ~(m # root /\ node[m].parent = p)
      BY <1>6, <2>3, Zenon
    <3>2. ParentOf(m)
      BY <1>1, <3>1 DEF Shape, Parents
    <3>3. node'[m].parent = node[m].parent
      <4>1. CASE m = p
        <5>1. node'[p].parent = t.parent
          BY <1>10, <1>12, Zenon
        <5> QED BY <1>3, <4>1, <5>1, Zenon
      <4>2. CASE m # p
        BY <1>12, <2>3, <4>2
      <4> QED BY <4>1, <4>2
    <3>4. CASE m = root
      <4>1. node[m].parent = Null
        BY <3>2, <3>4 DEF ParentOf
      <4> QED BY <2>0, <3>3, <3>4, <4>1 DEF ParentOf
    <3>5. CASE m # root
      <4>1. PICK q \in Nodes : /\ q = node[m].parent /\ ~node[q].is_leaf
                              /\ \E i \in 1 .. Len(node[q].children) : node[q].children[i] = m
        BY <3>2, <3>5 DEF ParentOf
      <4>2. q # p
        BY <3>1, <3>5, <4>1
      <4>3. node'[q].children = node[q].children /\ ~node'[q].is_leaf /\ q \in Nodes'
        BY <1>12, <4>1, <4>2
      <4>4. q = node'[m].parent
        BY <3>3, <4>1
      <4>5. \E i \in 1 .. Len(node'[q].children) : node'[q].children[i] = m
        BY <4>1, <4>3
      <4>6. m # root'
        BY <2>0, <3>5
      <4> QED BY <4>3, <4>4, <4>5, <4>6 DEF ParentOf
    <3> QED BY <3>4, <3>5
  <2> QED BY <2>1, <2>2, <2>3
<1>36. Parents'
  BY <1>12, <1>23, <1>35 DEF Parents
<1>37. Halves(g, Q)'
  <2>1. g[p] = g[w]
    BY <1>2, <1>17
  <2>2. (\A k \in Q[p] : k < sep) /\ (\A k \in Q[w] : k >= sep)
    BY <1>18, Zenon
  <2>3. p \in Nodes' /\ w \in Nodes' /\ p # w
    BY <1>2, <1>12
  <2>4. w # root'
    <3>1. root \in Nodes
      BY <1>4
    <3> QED BY <1>c, <1>12, <3>1
  <2> QED BY <1>21, <2>1, <2>2, <2>3, <2>4, Zenon DEF Halves
<1>f. Linked(Q)'
  <2>1. \A n \in Nodes' : node'[n].is_leaf => n \in Nodes /\ n # p
    BY <1>10, <1>12, Zenon
  <2>2. ASSUME NEW n \in Nodes, n # p
        PROVE  /\ node'[n].is_leaf <=> node[n].is_leaf
               /\ node'[n].next = node[n].next /\ Q[n] = R[n]
    BY <1>12, <1>18, <2>2, Zenon
  <2>3. \A n \in Nodes' : node'[n].is_leaf => n \in Nodes /\ node[n].is_leaf
    BY <2>1, <2>2
  <2>4. \A n \in Nodes : node[n].is_leaf =>
          n \in Nodes' /\ node'[n].is_leaf /\ node'[n].next = node[n].next /\ Q[n] = R[n]
    BY <1>2, <1>12, <2>2
  <2>5. Linked(R)
    BY DEF Shape
  <2> QED BY <2>3, <2>4, <2>5, ListKept
<1>38. Shape(g, Q)'
  BY <1>24, <1>26, <1>29, <1>30, <1>34, <1>36, <1>37, <1>f DEF Shape
<1>39. SameLeaves
  <2>1. ASSUME NEW m \in Nodes
        PROVE  /\ node'[m].is_leaf <=> node[m].is_leaf
               /\ node[m].is_leaf => node'[m].keys = node[m].keys /\ node'[m].values = node[m].values
    <3>1. CASE m = p
      BY <1>2, <1>10, <1>12, <3>1, Zenon
    <3>2. CASE m # p
      BY <1>12, <3>2
    <3> QED BY <3>1, <3>2
  <2>2. ~node'[w].is_leaf
    BY <1>10, <1>12
  <2> QED BY <1>12, <2>1, <2>2 DEF SameLeaves
<1> QED BY <1>38, <1>39, SameEntries DEF TreeInv

-----------------------------------------------------------------------------
(* All steps together.                                                     *)

(* Nothing has happened to the tree. *)
LEMMA SameShape ==
  ASSUME NEW h, NEW R, Shape(h, R), UNCHANGED <<node, root, promotion>>,
         returned' \in {0, 1, 2}, (returned' # 2) <=> (returned # 2)
  PROVE  Shape(h, R)'
<1>1. Nodes' = Nodes /\ node' = node /\ root' = root /\ promotion' = promotion
  BY DEF Nodes
<1>2. Idle' <=> Idle
  BY <1>1 DEF Idle
<1>3. \A n : (Orphan(n)' <=> Orphan(n)) /\ Covered(R, n)' = Covered(R, n)
  BY <1>1, <1>2 DEF Orphan, Covered
<1>4. Types' /\ Heights(h)'
  BY <1>1, <1>2 DEF Shape, Types, Heights
<1>5. Places(h, R)'
  BY <1>1, <1>2 DEF Shape, Places, Covered
<1>6. Leaves(R)'
  BY <1>1 DEF Shape, Leaves
<1>7. Inner(h, R)'
  BY <1>1, <1>2 DEF Shape, Inner, InnerNode, Child, Covered, Orphan, Slot
<1>8. Parents'
  BY <1>1, <1>2 DEF Shape, Parents, ParentOf, Orphan
<1>9. Halves(h, R)'
  BY <1>1, <1>2 DEF Shape, Halves
<1>10. Linked(R)'
  BY <1>1 DEF Shape, Linked, Listed
<1> QED BY <1>4, <1>5, <1>6, <1>7, <1>8, <1>9, <1>10 DEF Shape

(* The allocations of the way up succeed. *)
ParentsAllocated == CallocFails \subseteq {"first leaf", "right leaf"}

LEMMA InsertShape ==
  ASSUME TreeInv, NEW key \in Keys, NEW value \in Values, bptree_insert(key, value)
  PROVE  TreeInv'
<1>0. key \in Int /\ Idle
  BY KeysAssumption DEF bptree_insert
<1>1. PICK h, R : Shape(h, R)
  BY DEF TreeInv
<1>2. promotion = Nothing /\ returned # 2
  BY <1>0, <1>1 DEF Idle, Shape, Types
<1>3. ASSUME Return(0), UNCHANGED <<node, root>> PROVE TreeInv'
  <2>1. Shape(h, R)'
    <3>1. returned' = 0 /\ promotion' = promotion
      BY <1>2, <1>3 DEF Return
    <3> QED BY <1>1, <1>2, <1>3, <3>1, SameShape
  <2> QED BY <2>1 DEF TreeInv
<1>4. CASE InsertFirst(key, value)
  <2>1. CASE CallocRefuses("first leaf")
    BY <1>3, <2>1, Zenon DEF CallocRefuses
  <2>2. CASE ~CallocRefuses("first leaf")
    <3>1. /\ root = Null /\ node' = Append(node, Leaf(<<key>>, <<value>>, Null, Null))
          /\ root' = Len(node') /\ promotion' = Nothing /\ returned' = 1
      BY <1>4, <2>2, Zenon DEF InsertFirst, Return
    <3> QED BY <1>0, <1>1, <3>1, FirstShape
  <2> QED BY <2>1, <2>2, Zenon
<1>5. CASE root # Null
  <2> PICK leaf : leaf = bptree_find_leaf(key)
    OBVIOUS
  <2>1. leaf \in Nodes /\ node[leaf].is_leaf /\ key \in R[leaf]
    BY <1>0, <1>1, <1>5, LeafFound
  <2>2. CASE InsertDuplicate(leaf, key)
    BY <1>3, <2>2 DEF InsertDuplicate
  <2>3. CASE bptree_insert_into_leaf(leaf, key, value)
    <3>1. Shape(h, R)'
      BY <1>0, <1>1, <2>1, <2>3, LeafShape
    <3> QED BY <3>1 DEF TreeInv
  <2>4. CASE bptree_split_leaf_and_insert(leaf, key, value)
    <3>1. CASE CallocRefuses("right leaf")
      BY <1>3, <3>1, Zenon DEF CallocRefuses
    <3>2. CASE ~CallocRefuses("right leaf")
      <4>1. returned' = 2
        BY <2>4, <3>2, Zenon DEF bptree_split_leaf_and_insert, Promote
      <4> QED BY <1>0, <1>1, <2>1, <2>4, <4>1, SplitLeafShape
    <3> QED BY <3>1, <3>2, Zenon
  <2> QED BY <1>5, <2>2, <2>3, <2>4, Zenon DEF bptree_insert, InsertFirst
<1> QED BY <1>4, <1>5 DEF bptree_insert

(* An insert whose separator could not be passed on loses the right half. *)
Refused == CallocRefuses("root") \/ CallocRefuses("right parent")

LEMMA ParentShape ==
  ASSUME TreeInv, bptree_insert_into_parent, ~Refused
  PROVE  TreeInv'
<1>0. ~Idle
  BY DEF bptree_insert_into_parent
<1>1. PICK h, R : Shape(h, R)
  BY DEF TreeInv
<1> PICK p : p = node[promotion.left].parent
  OBVIOUS
<1>2. CASE p = Null
  <2>1. bptree_create_new_root(promotion.left, promotion.key, promotion.right)
    BY <1>2 DEF bptree_insert_into_parent
  <2>2. returned' = 1
    BY <2>1, Zenon DEF bptree_create_new_root, Return, Refused
  <2> QED BY <1>0, <1>1, <1>2, <2>1, <2>2, NewRootShape
<1>3. CASE p # Null
  <2>1. \/ bptree_insert_into_internal(p, promotion.left, promotion.key, promotion.right)
        \/ bptree_split_internal_and_insert(p, promotion.left, promotion.key, promotion.right)
    BY <1>3 DEF bptree_insert_into_parent
  <2>2. CASE bptree_insert_into_internal(p, promotion.left, promotion.key, promotion.right)
    <3>1. Shape(h, R)'
      BY <1>0, <1>1, <1>3, <2>2, InternalShape
    <3> QED BY <3>1 DEF TreeInv
  <2>3. CASE bptree_split_internal_and_insert(p, promotion.left, promotion.key, promotion.right)
    <3>1. returned' = 2
      BY <2>3, Zenon DEF bptree_split_internal_and_insert, Promote, Refused
    <3> QED BY <1>0, <1>1, <1>3, <2>3, <3>1, SplitInternalShape
  <2> QED BY <2>1, <2>2, <2>3
<1> QED BY <1>2, <1>3

(* TreeInv is inductive: as long as the nodes above the leaves can be      *)
(* allocated, every step of bptree_insert keeps the tree in shape.         *)
THEOREM TreeInvariance ==
  ASSUME ParentsAllocated
  PROVE  Spec => []TreeInv
<1>1. Init => TreeInv
  BY InitShape
<1>2. TreeInv /\ [Next]_vars => TreeInv'
  <2> SUFFICES ASSUME TreeInv, [Next]_vars PROVE TreeInv'
    OBVIOUS
  <2>1. CASE Next
    <3>1. ASSUME bptree_insert_into_parent PROVE TreeInv'
      <4>1. ~Refused
        BY Zenon DEF ParentsAllocated, Refused, CallocRefuses
      <4> QED BY <3>1, <4>1, ParentShape
    <3> QED BY <2>1, <3>1, InsertShape DEF Next
  <2>2. CASE UNCHANGED vars
    <3>1. PICK h, R : Shape(h, R)
      BY DEF TreeInv
    <3>2. Shape(h, R)'
      <4>1. returned \in {0, 1, 2} /\ returned' = returned /\ UNCHANGED <<node, root, promotion>>
        BY <2>2, <3>1 DEF Shape, Types, vars
      <4> QED BY <3>1, <4>1, SameShape
    <3> QED BY <3>2 DEF TreeInv
  <2> QED BY <2>1, <2>2
<1> QED BY <1>1, <1>2, PTL DEF Spec

(* Between two inserts bptree_search finds every key that some leaf holds, *)
(* with its value, and no other, for every order from 3 on and whatever    *)
(* keys are inserted in whatever order.                                    *)
THEOREM SearchCorrect ==
  ASSUME ParentsAllocated
  PROVE  Spec => []SearchFindsAll
<1>1. TreeInv => SearchFindsAll
  BY ShapeSearch DEF TreeInv
<1> QED BY <1>1, TreeInvariance, PTL

-----------------------------------------------------------------------------
(* The tree implements the unique index.                                   *)

(* A key that is not in the leaf where it belongs is nowhere. *)
LEMMA KeyNew ==
  ASSUME NEW h, NEW R, Shape(h, R), NEW leaf \in Nodes, node[leaf].is_leaf, NEW key \in R[leaf],
         key \in Int, ~Contains(node[leaf].keys, key)
  PROVE  \A e \in Entries : e[1] # key
<1> SUFFICES ASSUME NEW e \in Entries, e[1] = key PROVE FALSE
  OBVIOUS
<1>1. PICK v : e = <<key, v>>
  BY EntriesHas
<1>2. PICK n \in Nodes : node[n].is_leaf /\ HasEntry(node[n], key, v)
  BY <1>1, EntriesHas
<1>3. PICK i \in DOMAIN node[n].keys : node[n].keys[i] = key
  BY <1>2 DEF HasEntry
<1>4. key \in R[n] /\ DOMAIN node[n].keys = 1 .. Len(node[n].keys)
  BY <1>2, <1>3, LeafEntry
<1>5. n = leaf
  BY <1>2, <1>4, OneLeaf
<1> QED BY <1>3, <1>4, <1>5 DEF Contains

LEMMA InsertRefines ==
  ASSUME TreeInv, NEW key \in Keys, NEW value \in Values, bptree_insert(key, value)
  PROVE  Index!Insert(key, value) \/ Index!Refuse
<1>0. key \in Int /\ Idle
  BY KeysAssumption DEF bptree_insert
<1>1. PICK h, R : Shape(h, R)
  BY DEF TreeInv
<1>2. returned # 2
  BY <1>0, <1>1 DEF Shape, Types
<1>3. ASSUME Return(0), UNCHANGED <<node, root>> PROVE Index!Refuse
  <2>1. Entries' = Entries
    BY <1>3 DEF Entries, Nodes
  <2> QED BY <1>2, <1>3, <2>1 DEF Index!Refuse, Return
<1>4. ASSUME Gains(key, value), \A e \in Entries : e[1] # key, returned' \in {1, 2}
      PROVE  Index!Insert(key, value)
  BY <1>2, <1>4 DEF Index!Insert, Gains
<1>5. CASE InsertFirst(key, value)
  <2>1. CASE CallocRefuses("first leaf")
    BY <1>3, <2>1, Zenon DEF CallocRefuses
  <2>2. CASE ~CallocRefuses("first leaf")
    <3>1. /\ root = Null /\ node' = Append(node, Leaf(<<key>>, <<value>>, Null, Null))
          /\ root' = Len(node') /\ promotion' = Nothing /\ returned' = 1
      BY <1>5, <2>2, Zenon DEF InsertFirst, Return
    <3>2. Gains(key, value)
      BY <1>0, <1>1, <3>1, FirstShape
    <3>3. Nodes = {}
      BY <1>1, <3>1 DEF Shape, Types, Nodes
    <3>4. Entries = {}
      BY <3>3 DEF Entries
    <3> QED BY <1>4, <3>1, <3>2, <3>4
  <2> QED BY <2>1, <2>2, Zenon
<1>6. CASE root # Null
  <2> PICK leaf : leaf = bptree_find_leaf(key)
    OBVIOUS
  <2>1. leaf \in Nodes /\ node[leaf].is_leaf /\ key \in R[leaf]
    BY <1>0, <1>1, <1>6, LeafFound
  <2>2. CASE InsertDuplicate(leaf, key)
    BY <1>3, <2>2 DEF InsertDuplicate
  <2>3. CASE bptree_insert_into_leaf(leaf, key, value)
    <3>1. Gains(key, value)
      BY <1>0, <1>1, <2>1, <2>3, LeafShape
    <3>2. returned' = 1 /\ ~Contains(node[leaf].keys, key)
      BY <2>3 DEF bptree_insert_into_leaf, Return
    <3>3. \A e \in Entries : e[1] # key
      BY <1>0, <1>1, <2>1, <3>2, KeyNew
    <3> QED BY <1>4, <3>1, <3>2, <3>3
  <2>4. CASE bptree_split_leaf_and_insert(leaf, key, value)
    <3>1. CASE CallocRefuses("right leaf")
      BY <1>3, <3>1, Zenon DEF CallocRefuses
    <3>2. CASE ~CallocRefuses("right leaf")
      <4>1. returned' = 2 /\ ~Contains(node[leaf].keys, key)
        BY <2>4, <3>2, Zenon DEF bptree_split_leaf_and_insert, Promote
      <4>2. Gains(key, value)
        BY <1>0, <1>1, <2>1, <2>4, <4>1, SplitLeafShape
      <4>3. \A e \in Entries : e[1] # key
        BY <1>0, <1>1, <2>1, <4>1, KeyNew
      <4> QED BY <1>4, <4>1, <4>2, <4>3
    <3> QED BY <3>1, <3>2, Zenon
  <2> QED BY <1>6, <2>2, <2>3, <2>4, Zenon DEF bptree_insert, InsertFirst
<1> QED BY <1>5, <1>6 DEF bptree_insert

LEMMA ParentRefines ==
  ASSUME TreeInv, bptree_insert_into_parent, ~Refused
  PROVE  Index!Complete \/ (Entries' = Entries /\ returned' = returned)
<1>0. ~Idle
  BY DEF bptree_insert_into_parent
<1>1. PICK h, R : Shape(h, R)
  BY DEF TreeInv
<1>2. returned = 2
  BY <1>0, <1>1 DEF Shape, Types
<1> PICK p : p = node[promotion.left].parent
  OBVIOUS
<1>3. CASE p = Null
  <2>1. bptree_create_new_root(promotion.left, promotion.key, promotion.right)
    BY <1>3 DEF bptree_insert_into_parent
  <2>2. returned' = 1
    BY <2>1, Zenon DEF bptree_create_new_root, Return, Refused
  <2>3. Entries' = Entries
    BY <1>0, <1>1, <1>3, <2>1, <2>2, NewRootShape
  <2> QED BY <1>2, <2>2, <2>3 DEF Index!Complete
<1>4. CASE p # Null
  <2>1. \/ bptree_insert_into_internal(p, promotion.left, promotion.key, promotion.right)
        \/ bptree_split_internal_and_insert(p, promotion.left, promotion.key, promotion.right)
    BY <1>4 DEF bptree_insert_into_parent
  <2>2. CASE bptree_insert_into_internal(p, promotion.left, promotion.key, promotion.right)
    <3>1. Shape(h, R)' /\ Entries' = Entries
      BY <1>0, <1>1, <1>4, <2>2, InternalShape
    <3>2. returned' = 1
      BY <2>2 DEF bptree_insert_into_internal, Return
    <3> QED BY <1>2, <3>1, <3>2 DEF Index!Complete
  <2>3. CASE bptree_split_internal_and_insert(p, promotion.left, promotion.key, promotion.right)
    <3>1. returned' = 2
      BY <2>3, Zenon DEF bptree_split_internal_and_insert, Promote, Refused
    <3>2. Entries' = Entries
      BY <1>0, <1>1, <1>4, <2>3, <3>1, SplitInternalShape
    <3> QED BY <1>2, <3>1, <3>2
  <2> QED BY <2>1, <2>2, <2>3
<1> QED BY <1>3, <1>4

(* Every step of bptree_insert is a step of the unique index or leaves it  *)
(* as it is: what is inserted stays, with the value it was inserted with,  *)
(* no key is there twice, and an insert that says 0 has changed nothing.   *)
THEOREM TreeImplementsIndex ==
  ASSUME ParentsAllocated
  PROVE  Spec => ImplementsIndex
<1>1. Init => Index!Init
  <2> SUFFICES ASSUME Init PROVE Entries = {} /\ returned = 0
    BY DEF Index!Init
  <2>1. Nodes = {}
    BY DEF Init, Nodes
  <2> QED BY <2>1 DEF Init, Entries
<1>2. TreeInv /\ [Next]_vars => [Index!Next]_(Index!vars)
  <2> SUFFICES ASSUME TreeInv, [Next]_vars PROVE Index!Next \/ (Entries' = Entries /\ returned' = returned)
    BY DEF Index!vars
  <2>1. CASE \E key \in Keys, value \in Values : bptree_insert(key, value)
    <3>1. PICK key \in Keys, value \in Values : bptree_insert(key, value)
      BY <2>1
    <3>2. Index!Insert(key, value) \/ Index!Refuse
      BY <3>1, InsertRefines
    <3> QED BY <3>2 DEF Index!Next
  <2>2. CASE bptree_insert_into_parent
    <3>1. ~Refused
      BY Zenon DEF ParentsAllocated, Refused, CallocRefuses
    <3> QED BY <2>2, <3>1, ParentRefines DEF Index!Next
  <2>3. CASE UNCHANGED vars
    BY <2>3 DEF vars, Entries, Nodes
  <2> QED BY <2>1, <2>2, <2>3 DEF Next
<1> QED BY <1>1, <1>2, TreeInvariance, PTL DEF Spec, ImplementsIndex, Index!Spec

=============================================================================
