------------------------------- MODULE BPTree -------------------------------
(***************************************************************************)
(* The B+ tree of src/core/bptree.c: a heap of nodes with parent pointers, *)
(* whose leaves form a linked list.  Nodes are numbered in the order of    *)
(* their allocation, and a node's arrays are sequences of the length       *)
(* num_keys says they have.                                                *)
(*                                                                         *)
(* bptree_insert goes up the tree one split at a time.  Each split is a    *)
(* step: while one is owed to the parent, promotion says what is to be     *)
(* inserted there, and nothing else may happen to the tree.  calloc may    *)
(* refuse every new node.                                                  *)
(***************************************************************************)
EXTENDS Integers, Sequences, SequencesExt

CONSTANTS Order,      \* BPTREE_ORDER
          Keys,       \* the keys that are inserted
          Values,     \* the values (pointers) stored with them
          Nothing,    \* NULL as a value, and no promotion
          CallocFails \* the nodes calloc may refuse, a subset of NewNodes

(* The calls of bptree_create_node, named by what the node is for. *)
NewNodes == {"first leaf", "right leaf", "right parent", "root"}

ASSUME OrderAssumption == Order \in Nat /\ Order >= 3
ASSUME KeysAssumption == Keys \subseteq Int
ASSUME NothingAssumption == Nothing \notin Values /\ Nothing \notin [left : Nat, key : Int, right : Nat]
ASSUME CallocAssumption == CallocFails \subseteq NewNodes

VARIABLES node,       \* node[n]: the n-th node that was allocated
          root,       \* tree->root, a node or Null
          promotion,  \* the arguments of bptree_insert_into_parent, or Nothing
          returned    \* what the last bptree_insert returned; 2 while it runs

vars == <<node, root, promotion, returned>>

Null == 0
MaxKeys == Order - 1
Half == Order \div 2

Idle == promotion = Nothing

Nodes == DOMAIN node

Leaf(ks, vs, p, n) ==
  [is_leaf |-> TRUE, keys |-> ks, values |-> vs, children |-> <<>>, parent |-> p, next |-> n]

Internal(ks, cs, p) ==
  [is_leaf |-> FALSE, keys |-> ks, values |-> <<>>, children |-> cs, parent |-> p, next |-> Null]

-----------------------------------------------------------------------------
(* The searches.                                                           *)

(* The number of keys in front of the first one that is not below key.     *)
bptree_find_insert_index(ks, key) ==
  CHOOSE i \in 0 .. Len(ks) :
    /\ \A j \in 1 .. i : ks[j] < key
    /\ i < Len(ks) => ks[i + 1] >= key

(* Mutant of ChildFor: > for >=. *)
ChildFor_Left(nd, key) ==
  nd.children[1 + CHOOSE i \in 0 .. Len(nd.keys) :
                    /\ \A j \in 1 .. i : key > nd.keys[j]
                    /\ i < Len(nd.keys) => key <= nd.keys[i + 1]]

(* The child of an internal node under which key belongs: the one after    *)
(* the last of the leading separators that do not exceed it.               *)
ChildFor(nd, key) ==
  nd.children[1 + CHOOSE i \in 0 .. Len(nd.keys) :
                    /\ \A j \in 1 .. i : key >= nd.keys[j]
                    /\ i < Len(nd.keys) => key < nd.keys[i + 1]]

(* Down from the root, as long as there are children. *)
bptree_find_leaf(key) ==
  LET down[n \in Nodes \union {Null}] ==
        IF n = Null \/ node[n].is_leaf THEN n ELSE down[ChildFor(node[n], key)]
  IN  down[root]

(* The first value stored under key in leaf n. *)
ValueIn(n, key) ==
  LET i == SelectInSeq(node[n].keys, LAMBDA k : k = key)
  IN  IF i = 0 THEN Nothing ELSE node[n].values[i]

bptree_search(key) ==
  IF bptree_find_leaf(key) = Null THEN Nothing ELSE ValueIn(bptree_find_leaf(key), key)

-----------------------------------------------------------------------------
(* bptree_insert.                                                          *)

Init ==
  /\ node = <<>>
  /\ root = Null
  /\ promotion = Nothing
  /\ returned = 0

Return(r) ==
  /\ returned' = r
  /\ promotion' = Nothing

(* Goes on with bptree_insert_into_parent. *)
Promote(left, key, right) ==
  /\ promotion' = [left |-> left, key |-> key, right |-> right]
  /\ returned' = 2

(* calloc has no memory for the node: 0 is returned at once, whatever was  *)
(* already done.                                                           *)
CallocRefuses(new) ==
  /\ new \in CallocFails
  /\ Return(0)
  /\ UNCHANGED <<node, root>>

InsertFirst(key, value) ==
  /\ root = Null
  /\ \/ /\ node' = Append(node, Leaf(<<key>>, <<value>>, Null, Null))
        /\ root' = Len(node')
        /\ Return(1)
     \/ CallocRefuses("first leaf")

(* Mutant of InsertDuplicate: it reports success. *)
InsertDuplicate_Succeeds(leaf, key) ==
  /\ Contains(node[leaf].keys, key)
  /\ Return(1)
  /\ UNCHANGED <<node, root>>

InsertDuplicate(leaf, key) ==
  /\ Contains(node[leaf].keys, key)
  /\ Return(0)
  /\ UNCHANGED <<node, root>>

(* The entries of a leaf with one more, in key order. *)
WithEntry(nd, key, value) ==
  LET i == bptree_find_insert_index(nd.keys, key)
  IN  [nd EXCEPT !.keys = InsertAt(@, i + 1, key), !.values = InsertAt(@, i + 1, value)]

bptree_insert_into_leaf(leaf, key, value) ==
  /\ ~Contains(node[leaf].keys, key)
  /\ Len(node[leaf].keys) < MaxKeys
  /\ node' = [node EXCEPT ![leaf] = WithEntry(@, key, value)]
  /\ Return(1)
  /\ UNCHANGED root

(* The lower half of the entries stays, the upper half goes to a new right *)
(* leaf, which is linked behind this one.                                  *)
bptree_split_leaf_and_insert(leaf, key, value) ==
  /\ ~Contains(node[leaf].keys, key)
  /\ Len(node[leaf].keys) >= MaxKeys
  /\ \/ LET temp  == WithEntry(node[leaf], key, value)
            right == Len(node) + 1
        IN  /\ node' = Append([node EXCEPT ![leaf] =
                                 Leaf(SubSeq(temp.keys, 1, Half), SubSeq(temp.values, 1, Half),
                                      temp.parent, right)],
                              Leaf(SubSeq(temp.keys, Half + 1, Order),
                                   SubSeq(temp.values, Half + 1, Order),
                                   temp.parent, temp.next))
            /\ Promote(leaf, temp.keys[Half + 1], right)
            /\ UNCHANGED root
     \/ CallocRefuses("right leaf")

bptree_insert(key, value) ==
  /\ Idle
  /\ \/ InsertFirst(key, value)
     \/ /\ root # Null
        /\ LET leaf == bptree_find_leaf(key)
           IN  \/ InsertDuplicate(leaf, key)
               \/ bptree_insert_into_leaf(leaf, key, value)
               \/ bptree_split_leaf_and_insert(leaf, key, value)

-----------------------------------------------------------------------------
(* bptree_insert_into_parent, for the promotion that is owed.              *)

(* Mutant of bptree_create_new_root: the right child has no parent. *)
bptree_create_new_root_OneParent(left, key, right) ==
  LET new == Len(node) + 1
  IN  /\ node' = Append([node EXCEPT ![left].parent = new],
                        Internal(<<key>>, <<left, right>>, Null))
      /\ root' = new
      /\ Return(1)

bptree_create_new_root(left, key, right) ==
  \/ LET new == Len(node) + 1
     IN  /\ node' = Append([node EXCEPT ![left].parent = new, ![right].parent = new],
                           Internal(<<key>>, <<left, right>>, Null))
         /\ root' = new
         /\ Return(1)
  \/ CallocRefuses("root")

(* Node p with one more separator, and its right child behind left. *)
WithChild(p, left, key, right) ==
  LET i == SelectInSeq(p.children, LAMBDA c : c = left)
  IN  [p EXCEPT !.keys = InsertAt(@, i, key), !.children = InsertAt(@, i + 1, right)]

bptree_insert_into_internal(parent, left, key, right) ==
  /\ Len(node[parent].keys) < MaxKeys
  /\ node' = [node EXCEPT ![parent] = WithChild(@, left, key, right),
                          ![right].parent = parent]
  /\ Return(1)
  /\ UNCHANGED root

(* The middle separator goes up, the children behind it go to a new right  *)
(* node, and every child learns who its parent is now.                     *)
bptree_split_internal_and_insert(parent, left, key, right) ==
  /\ Len(node[parent].keys) >= MaxKeys
  /\ \/ LET temp  == WithChild(node[parent], left, key, right)
            new   == Len(node) + 1
            lower == SubSeq(temp.children, 1, Half + 1)
            upper == SubSeq(temp.children, Half + 2, Order + 1)
            moved == [n \in Nodes |->
                        CASE Contains(lower, n) -> [node[n] EXCEPT !.parent = parent]
                          [] Contains(upper, n) -> [node[n] EXCEPT !.parent = new]
                          [] OTHER -> node[n]]
        IN  /\ node' = Append([moved EXCEPT ![parent] =
                                 Internal(SubSeq(temp.keys, 1, Half), lower, temp.parent)],
                              Internal(SubSeq(temp.keys, Half + 2, Order), upper, temp.parent))
            /\ Promote(parent, temp.keys[Half + 1], new)
            /\ UNCHANGED root
     \/ CallocRefuses("right parent")

bptree_insert_into_parent ==
  /\ ~Idle
  /\ LET left   == promotion.left
         parent == node[left].parent
     IN  IF parent = Null
           THEN bptree_create_new_root(left, promotion.key, promotion.right)
           ELSE \/ bptree_insert_into_internal(parent, left, promotion.key, promotion.right)
                \/ bptree_split_internal_and_insert(parent, left, promotion.key, promotion.right)

Next ==
  \/ \E key \in Keys, value \in Values : bptree_insert(key, value)
  \/ bptree_insert_into_parent

Spec == Init /\ [][Next]_vars

-----------------------------------------------------------------------------
(* What the tree holds, read along the list of leaves.                     *)

(* The first child, and its first child, and so on to the leftmost leaf. *)
LeftmostLeaf ==
  LET down[n \in Nodes \union {Null}] ==
        IF n = Null \/ node[n].is_leaf THEN n ELSE down[node[n].children[1]]
  IN  down[root]

(* The leaves from n on, in the order of the next pointers. *)
Chain(n) ==
  LET from[m \in Nodes \union {Null}] ==
        IF m = Null THEN <<>> ELSE <<m>> \o from[node[m].next]
  IN  from[n]

Concat(ns, f(_)) == FlattenSeq([i \in 1 .. Len(ns) |-> f(ns[i])])

ChainKeys == Concat(Chain(LeftmostLeaf), LAMBDA n : node[n].keys)

(* Mutant of bptree_destroy_node: < num_keys for <= num_keys. *)
bptree_destroy_node_SkipsLast(n) ==
  LET visit[m \in Nodes] ==
        FlattenSeq([i \in DOMAIN node[m].keys |->
                      IF node[m].is_leaf THEN <<>> ELSE visit[node[m].children[i]]]) \o <<m>>
  IN  IF n = Null THEN <<>> ELSE visit[n]

(* bptree_destroy_node: the nodes in the order it frees them. *)
bptree_destroy_node(n) ==
  LET visit[m \in Nodes] ==
        FlattenSeq([i \in DOMAIN node[m].children |-> visit[node[m].children[i]]]) \o <<m>>
  IN  IF n = Null THEN <<>> ELSE visit[n]

-----------------------------------------------------------------------------

(* The types of the variables. *)
TypeOK ==
  /\ node \in Seq([is_leaf : BOOLEAN, keys : Seq(Int), values : Seq(Values),
                   children : Seq(Nat), parent : Nat, next : Nat])
  /\ root \in Nodes \union {Null}
  /\ promotion \in [left : Nodes, key : Int, right : Nodes] \union {Nothing}
  /\ returned \in {0, 1, 2}

(* The entries in the leaves. *)
Entries ==
  UNION {{<<node[n].keys[i], node[n].values[i]>> : i \in DOMAIN node[n].keys} :
           n \in {m \in Nodes : node[m].is_leaf}}

(* When no insert is under way, the separators lead to every key that is   *)
(* in some leaf, with the value it was inserted with, and to no other.     *)
SearchFindsAll ==
  Idle =>
    \A key \in Keys :
      /\ \A value \in Values : bptree_search(key) = value <=> <<key, value>> \in Entries
      /\ bptree_search(key) \in Values \union {Nothing}

(* The range scans of table.c read the leaves along the next pointers and  *)
(* stop early: the keys come in strictly increasing order there.           *)
ChainSorted == \A i, j \in DOMAIN ChainKeys : i < j => ChainKeys[i] < ChainKeys[j]

(* How far n is below the root, along the parent pointers. *)
Depth(n) ==
  LET up[m \in Nodes] == IF node[m].parent = Null THEN 0 ELSE 1 + up[node[m].parent]
  IN  up[n]

(* The two ways to reach a leaf agree: the next pointers visit the leaves  *)
(* in the order of the children arrays.  All leaves are equally deep, the  *)
(* parent pointers are the reverse of the children arrays, and every node  *)
(* but the root is at least as full as a split leaves it.                  *)
Balanced ==
  Idle /\ root # Null =>
    /\ Concat(bptree_destroy_node(root), LAMBDA n : IF node[n].is_leaf THEN <<n>> ELSE <<>>)
         = Chain(LeftmostLeaf)
    /\ node[root].parent = Null
    /\ \A n \in ToSet(bptree_destroy_node(root)) :
         /\ Len(node[n].keys) \in 1 .. MaxKeys
         /\ n # root => Len(node[n].keys) >= IF node[n].is_leaf THEN Half ELSE MaxKeys - Half
         /\ node[n].is_leaf => Depth(n) = Depth(LeftmostLeaf)
         /\ ~node[n].is_leaf => /\ Len(node[n].children) = Len(node[n].keys) + 1
                                /\ \A c \in ToSet(node[n].children) : node[c].parent = n

(* What the range scans of table.c rely on: sorted leaves, linked in the   *)
(* order of the tree.                                                      *)
WellLinked == ChainSorted /\ Balanced

(* bptree_destroy frees every node that was ever allocated, and none of    *)
(* them twice.                                                             *)
DestroyFreesAll ==
  Idle => /\ ToSet(bptree_destroy_node(root)) = Nodes
          /\ Len(bptree_destroy_node(root)) = Len(node)

(* The tree implements the unique index: see UniqueIndex. *)
Index == INSTANCE UniqueIndex WITH entries <- Entries, answer <- returned

ImplementsIndex == Index!Spec

=============================================================================
