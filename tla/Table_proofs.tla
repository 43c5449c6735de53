---------------------------- MODULE Table_proofs ----------------------------
(***************************************************************************)
(* Proofs about the users table, for every number of ids, every capacity   *)
(* the rows array starts with and whatever allocations fail.  The lemmas   *)
(* about the tree of the table are those of BPTreeLinks_proofs, taken as P *)
(* for a tree with the ids as keys and as values.                          *)
(***************************************************************************)
EXTENDS Table, TLAPS

(* What table_insert and table_destroy keep, whatever the tree answers. *)
RowsInv ==
  /\ next_id \in 1 .. MaxId + 1
  /\ rows \in Seq(1 .. MaxId)
  /\ capacity \in Nat
  /\ record \in (1 .. MaxId) \union {Nothing}
  /\ Inserting => live /\ record = next_id - 1
  /\ live \in BOOLEAN
  /\ freed \subseteq 1 .. MaxId
  /\ RowsFit
  /\ OwnedOnce

(* The elements of a sequence of ids with one more at its end. *)
LEMMA ToSetAppend ==
  ASSUME NEW s \in Seq(1 .. MaxId), NEW x \in 1 .. MaxId
  PROVE  ToSet(Append(s, x)) = ToSet(s) \union {x}
<1>1. Append(s, x) \in Seq(1 .. MaxId) /\ Len(Append(s, x)) = Len(s) + 1 /\ Len(s) \in Nat
  OBVIOUS
<1>2. /\ \A i \in 1 .. Len(s) : Append(s, x)[i] = s[i]
      /\ Append(s, x)[Len(s) + 1] = x
  OBVIOUS
<1>3. DOMAIN s = 1 .. Len(s) /\ DOMAIN Append(s, x) = 1 .. Len(s) + 1
  BY <1>1
<1>4. 1 .. Len(s) + 1 = (1 .. Len(s)) \union {Len(s) + 1}
  BY <1>1
<1> HIDE <1>1
<1> QED BY <1>2, <1>3, <1>4 DEF ToSet

LEMMA ElementType ==
  ASSUME NEW S, NEW s \in Seq(S), NEW i \in 1 .. Len(s)
  PROVE  s[i] \in S
OBVIOUS

(* The elements of a sequence of ids are ids. *)
LEMMA ToSetType ==
  ASSUME NEW s \in Seq(1 .. MaxId)
  PROVE  ToSet(s) \subseteq 1 .. MaxId
<1>1. DOMAIN s = 1 .. Len(s)
  OBVIOUS
<1>2. ASSUME NEW i \in 1 .. Len(s)
      PROVE  s[i] \in 1 .. MaxId
  BY ElementType
<1> QED BY <1>1, <1>2 DEF ToSet

LEMMA ToSetEmpty == ToSet(<<>>) = {}
BY DEF ToSet

(* table_ensure_capacity makes room for one more row. *)
LEMMA CapacityGrows ==
  ASSUME capacity \in Nat, rows \in Seq(1 .. MaxId), Len(rows) <= capacity, table_ensure_capacity
  PROVE  capacity' \in Nat /\ Len(rows) < capacity'
<1>1. Len(rows) \in Nat /\ FirstCapacity \in Nat \ {0}
  BY FirstCapacityAssumption
<1>2. CASE Len(rows) < capacity
  BY <1>1, <1>2 DEF table_ensure_capacity
<1>3. CASE ~(Len(rows) < capacity) /\ capacity = 0
  BY <1>1, <1>3 DEF table_ensure_capacity
<1>4. CASE ~(Len(rows) < capacity) /\ capacity # 0
  <2>1. capacity' = capacity * 2
    BY <1>4 DEF table_ensure_capacity
  <2> QED BY <1>1, <1>4, <2>1
<1> QED BY <1>2, <1>3, <1>4

LEMMA InitRowsInv == Init => RowsInv
BY ToSetEmpty, BoundAssumption
   DEF Init, table_create, RowsInv, Inserting, RowsFit, OwnedOnce

LEMMA StartRowsInv ==
  ASSUME RowsInv, InsertStart
  PROVE  RowsInv'
<1> USE DEF RowsInv
<1>1. /\ record = Nothing /\ live /\ next_id \in 1 .. MaxId
      /\ record' = next_id /\ next_id' = next_id + 1 /\ UNCHANGED <<rows, live, freed>>
      /\ table_ensure_capacity
  BY BoundAssumption DEF InsertStart, Idle, Inserting
<1>2. capacity' \in Nat /\ Len(rows) < capacity'
  BY <1>1, CapacityGrows DEF RowsFit
<1>3. RowsFit'
  BY <1>1, <1>2 DEF RowsFit, Inserting
<1>4. OwnedOnce'
  <2>1. (1 .. next_id' - 1) \ {record'} = (1 .. next_id - 1) \ {record}
    BY <1>1, BoundAssumption, NothingAssumption
  <2> QED BY <1>1, <2>1 DEF OwnedOnce
<1>5. next_id' \in 1 .. MaxId + 1 /\ record' \in 1 .. MaxId /\ record' = next_id' - 1
  BY <1>1, BoundAssumption
<1> QED BY <1>1, <1>2, <1>3, <1>4, <1>5 DEF Inserting

LEMMA EndsRowsInv ==
  ASSUME RowsInv, InsertEnds
  PROVE  RowsInv'
<1> USE DEF RowsInv
<1>1. /\ record \in 1 .. MaxId /\ live /\ record = next_id - 1 /\ record' = Nothing
      /\ UNCHANGED <<next_id, capacity, live>> /\ Len(rows) < capacity /\ Len(rows) \in Nat
  BY DEF InsertEnds, Inserting, RowsFit
<1>2. (1 .. next_id' - 1) \ {record'} = ((1 .. next_id - 1) \ {record}) \union {record}
  BY <1>1, BoundAssumption, NothingAssumption
<1>3. record \notin ToSet(rows) /\ record \notin freed
  BY DEF OwnedOnce
<1>4. CASE returned = 1
  <2>1. rows' = Append(rows, record) /\ freed' = freed
    BY <1>4 DEF InsertEnds
  <2>2. rows' \in Seq(1 .. MaxId) /\ Len(rows') = Len(rows) + 1
    BY <1>1, <2>1
  <2>3. ToSet(rows') = ToSet(rows) \union {record}
    <3>1. rows \in Seq(1 .. MaxId) /\ record \in 1 .. MaxId
      BY <1>1
    <3>2. ToSet(Append(rows, record)) = ToSet(rows) \union {record}
      BY <3>1, ToSetAppend
    <3> HIDE DEF RowsInv
    <3> QED BY <2>1, <3>2
  <2>4. OwnedOnce'
    BY <1>2, <1>3, <2>1, <2>3 DEF OwnedOnce
  <2>5. RowsFit'
    BY <1>1, <2>2 DEF RowsFit, Inserting
  <2> QED BY <1>1, <2>1, <2>2, <2>4, <2>5 DEF Inserting
<1>5. CASE returned # 1
  <2>1. freed' = freed \union {record} /\ rows' = rows
    BY <1>5 DEF InsertEnds
  <2>2. OwnedOnce'
    BY <1>2, <1>3, <2>1 DEF OwnedOnce
  <2>3. RowsFit'
    BY <1>1, <2>1 DEF RowsFit, Inserting
  <2> QED BY <1>1, <2>1, <2>2, <2>3 DEF Inserting
<1> QED BY <1>4, <1>5

LEMMA NextRowsInv ==
  ASSUME RowsInv, [Next]_vars
  PROVE  RowsInv'
<1> USE DEF RowsInv
<1>1. CASE InsertStart \/ InsertEnds
  BY <1>1, StartRowsInv, EndsRowsInv
<1>2. CASE InsertFails
  <2>1. UNCHANGED <<next_id, rows, record, live, freed>> /\ record = Nothing
    BY <1>2 DEF InsertFails, Idle, Inserting
  <2>2. capacity' \in Nat /\ Len(rows) <= capacity'
    BY <1>2, CapacityGrows DEF InsertFails, RowsFit
  <2> QED BY <2>1, <2>2 DEF RowsFit, OwnedOnce, Inserting
<1>3. CASE InsertPromotes \/ UNCHANGED vars
  <2>1. UNCHANGED <<next_id, rows, capacity, record, live, freed>>
    BY <1>3 DEF InsertPromotes, vars
  <2> QED BY <2>1 DEF RowsFit, OwnedOnce, Inserting
<1>4. CASE table_destroy
  <2>1. /\ live' = FALSE /\ freed' = freed \union ToSet(rows) /\ rows' = <<>>
        /\ UNCHANGED <<next_id, capacity, record>> /\ record = Nothing
    BY <1>4 DEF table_destroy, Idle, Inserting
  <2>2. ToSet(rows) \subseteq 1 .. MaxId /\ <<>> \in Seq(1 .. MaxId)
    BY ToSetType
  <2>5. rows' \in Seq(1 .. MaxId) /\ freed' \subseteq 1 .. MaxId /\ live' \in BOOLEAN
    BY <2>1, <2>2
  <2>3. OwnedOnce'
    BY <2>1, ToSetEmpty DEF OwnedOnce
  <2>4. RowsFit'
    BY <2>1 DEF RowsFit, Inserting
  <2> QED BY <2>1, <2>3, <2>4, <2>5 DEF Inserting
<1> QED BY <1>1, <1>2, <1>3, <1>4 DEF Next, table_insert

(* The rows array always has room for the record table_insert is about to  *)
(* write, and every record has one owner.                                  *)
THEOREM RowsInvariance == Spec => []RowsInv
BY InitRowsInv, NextRowsInv, PTL DEF Spec

(* No record is leaked or freed twice, wherever an insert fails: a record  *)
(* belongs to the rows or has been freed, never both, and table_destroy    *)
(* frees the others.                                                       *)
THEOREM RecordsOwned == Spec => []OwnedOnce
<1>1. RowsInv => OwnedOnce
  BY DEF RowsInv
<1> QED BY <1>1, RowsInvariance, PTL

-----------------------------------------------------------------------------
(* The tree of the table is the tree of the proofs about it.               *)

P == INSTANCE BPTreeLinks_proofs WITH Keys <- 1 .. MaxId, Values <- 1 .. MaxId

LEMMA SameBase ==
  /\ P!Null = Tree!Null /\ P!MaxKeys = Tree!MaxKeys /\ P!Half = Tree!Half
  /\ P!Nodes = Tree!Nodes /\ (P!Idle <=> Tree!Idle)
BY DEF P!Null, Tree!Null, P!MaxKeys, Tree!MaxKeys, P!Half, Tree!Half, P!Nodes, Tree!Nodes, P!Idle, Tree!Idle

LEMMA SameInit == Tree!Init => P!Init
BY DEF Tree!Init, P!Init, Tree!Null, P!Null

LEMMA SameTypes == P!TypeOK => Tree!TypeOK
BY DEF P!TypeOK, Tree!TypeOK, P!Null, Tree!Null, P!Nodes, Tree!Nodes

LEMMA SameFind == \A key : P!bptree_find_leaf(key) = Tree!bptree_find_leaf(key)
BY DEF P!ChildFor, Tree!ChildFor, P!bptree_find_leaf, Tree!bptree_find_leaf, P!Null, Tree!Null, P!Nodes, Tree!Nodes

(* The operators on sequences, which each instance has of its own. *)
LEMMA SameSequences ==
  /\ \A s : P!ToSet(s) = ToSet(s) /\ Tree!ToSet(s) = ToSet(s)
  /\ \A s, x : (P!Contains(s, x) <=> Contains(s, x)) /\ (Tree!Contains(s, x) <=> Contains(s, x))
  /\ \A s, i, x : P!InsertAt(s, i, x) = Tree!InsertAt(s, i, x)
  /\ \A s : P!FlattenSeq(s) = FlattenSeq(s) /\ Tree!FlattenSeq(s) = FlattenSeq(s)
BY DEF P!ToSet, ToSet, Tree!ToSet, P!Contains, Contains, Tree!Contains, P!InsertAt, Tree!InsertAt,
       P!FlattenSeq, FlattenSeq, Tree!FlattenSeq

LEMMA SameSearch == \A key : P!bptree_search(key) = Tree!bptree_search(key)
<1>1. \A n, key : P!ValueIn(n, key) = Tree!ValueIn(n, key)
  BY DEF P!ValueIn, Tree!ValueIn, P!SelectInSeq, Tree!SelectInSeq, P!Min, Tree!Min
<1> QED BY <1>1, SameFind DEF P!bptree_search, Tree!bptree_search, P!Null, Tree!Null

LEMMA SameLeftmost == P!LeftmostLeaf = Tree!LeftmostLeaf
BY DEF P!LeftmostLeaf, Tree!LeftmostLeaf, P!Null, Tree!Null, P!Nodes, Tree!Nodes

LEMMA SameChain == \A n : P!Chain(n) = Tree!Chain(n)
BY DEF P!Chain, Tree!Chain, P!Null, Tree!Null, P!Nodes, Tree!Nodes

LEMMA SameReads == \A n : P!KeysAfter(n) = KeysFrom(n) /\ P!ValuesAfter(n) = ValuesFrom(n)
<1> SUFFICES ASSUME NEW n PROVE P!KeysAfter(n) = KeysFrom(n) /\ P!ValuesAfter(n) = ValuesFrom(n)
  OBVIOUS
<1>1. PICK c : c = P!Chain(n) /\ c = Tree!Chain(n)
  BY SameChain
<1>2. /\ P!KeysAfter(n) = P!FlattenSeq([i \in 1 .. Len(c) |-> node[c[i]].keys])
      /\ P!ValuesAfter(n) = P!FlattenSeq([i \in 1 .. Len(c) |-> node[c[i]].values])
  BY <1>1 DEF P!KeysAfter, P!ValuesAfter, P!Concat
<1>3. /\ KeysFrom(n) = Tree!FlattenSeq([i \in 1 .. Len(c) |-> node[c[i]].keys])
      /\ ValuesFrom(n) = Tree!FlattenSeq([i \in 1 .. Len(c) |-> node[c[i]].values])
  BY <1>1 DEF KeysFrom, ValuesFrom, Tree!Concat
<1> QED BY <1>2, <1>3, SameSequences

LEMMA SameDestroy == Tree!DestroyFreesAll <=> P!DestroyFreesAll
<1>1. Tree!bptree_destroy_node(root) = P!bptree_destroy_node(root)
  BY DEF P!Nodes, Tree!Nodes, P!Null, Tree!Null, P!bptree_destroy_node, Tree!bptree_destroy_node,
         P!FlattenSeq, Tree!FlattenSeq
<1> QED BY <1>1, SameBase, SameSequences DEF Tree!DestroyFreesAll, P!DestroyFreesAll

LEMMA SameWith ==
  /\ \A nd, k, v : P!WithEntry(nd, k, v) = Tree!WithEntry(nd, k, v)
  /\ \A p, l, k, r : P!WithChild(p, l, k, r) = Tree!WithChild(p, l, k, r)
BY DEF P!WithEntry, Tree!WithEntry, P!bptree_find_insert_index, Tree!bptree_find_insert_index,
       P!InsertAt, Tree!InsertAt, P!WithChild, Tree!WithChild, P!SelectInSeq, Tree!SelectInSeq,
       P!Min, Tree!Min

LEMMA SameReturns ==
  /\ \A r : P!Return(r) <=> Tree!Return(r)
  /\ \A l, k, r : P!Promote(l, k, r) <=> Tree!Promote(l, k, r)
BY DEF P!Return, Tree!Return, P!Promote, Tree!Promote

LEMMA SameRefusals == \A new : P!CallocRefuses(new) <=> Tree!CallocRefuses(new)
BY DEF P!Return, Tree!Return, P!CallocRefuses, Tree!CallocRefuses

LEMMA SameNodes ==
  /\ \A ks, vs, p, n : P!Leaf(ks, vs, p, n) = Tree!Leaf(ks, vs, p, n)
  /\ \A ks, cs, p : P!Internal(ks, cs, p) = Tree!Internal(ks, cs, p)
BY DEF P!Leaf, Tree!Leaf, P!Internal, Tree!Internal, P!Null, Tree!Null

LEMMA SameInsert ==
  ASSUME NEW key, NEW value, Tree!bptree_insert(key, value)
  PROVE  P!bptree_insert(key, value)
<1>1. Tree!InsertFirst(key, value) => P!InsertFirst(key, value)
  BY SameReturns, SameNodes, SameRefusals, SameBase DEF Tree!InsertFirst, P!InsertFirst
<1>2. \A leaf : Tree!InsertDuplicate(leaf, key) => P!InsertDuplicate(leaf, key)
  BY SameReturns, SameSequences DEF Tree!InsertDuplicate, P!InsertDuplicate
<1>3. \A leaf : Tree!bptree_insert_into_leaf(leaf, key, value) => P!bptree_insert_into_leaf(leaf, key, value)
  BY SameReturns, SameSequences, SameWith, SameBase
     DEF Tree!bptree_insert_into_leaf, P!bptree_insert_into_leaf
<1>4. \A leaf : Tree!bptree_split_leaf_and_insert(leaf, key, value) => P!bptree_split_leaf_and_insert(leaf, key, value)
  BY SameReturns, SameSequences, SameWith, SameBase, SameNodes, SameRefusals
     DEF Tree!bptree_split_leaf_and_insert, P!bptree_split_leaf_and_insert
<1> QED BY <1>1, <1>2, <1>3, <1>4, SameBase, SameFind DEF Tree!bptree_insert, P!bptree_insert

LEMMA SameParent == Tree!bptree_insert_into_parent => P!bptree_insert_into_parent
<1>1. \A l, k, r : Tree!bptree_create_new_root(l, k, r) => P!bptree_create_new_root(l, k, r)
  BY SameReturns, SameNodes, SameRefusals, SameBase DEF Tree!bptree_create_new_root, P!bptree_create_new_root
<1>2. \A p, l, k, r : Tree!bptree_insert_into_internal(p, l, k, r) => P!bptree_insert_into_internal(p, l, k, r)
  BY SameReturns, SameWith, SameBase DEF Tree!bptree_insert_into_internal, P!bptree_insert_into_internal
<1>3. ASSUME NEW p, NEW l, NEW k, NEW r, Tree!bptree_split_internal_and_insert(p, l, k, r)
      PROVE  P!bptree_split_internal_and_insert(p, l, k, r)
  <2>1. CASE Tree!CallocRefuses("right parent")
    BY <1>3, <2>1, SameBase, SameRefusals
       DEF Tree!bptree_split_internal_and_insert, P!bptree_split_internal_and_insert
  <2>2. CASE ~Tree!CallocRefuses("right parent")
    <3> DEFINE temp      == Tree!WithChild(node[p], l, k, r)
               new       == Len(node) + 1
               lower     == SubSeq(temp.children, 1, Tree!Half + 1)
               upper     == SubSeq(temp.children, Tree!Half + 2, Order + 1)
               moved     == [n \in Tree!Nodes |->
                               CASE Tree!Contains(lower, n) -> [node[n] EXCEPT !.parent = p]
                                 [] Tree!Contains(upper, n) -> [node[n] EXCEPT !.parent = new]
                                 [] OTHER -> node[n]]
               lowerNode == Tree!Internal(SubSeq(temp.keys, 1, Tree!Half), lower, temp.parent)
               upperNode == Tree!Internal(SubSeq(temp.keys, Tree!Half + 2, Order), upper, temp.parent)
               tempP     == P!WithChild(node[p], l, k, r)
               lowerP    == SubSeq(tempP.children, 1, P!Half + 1)
               upperP    == SubSeq(tempP.children, P!Half + 2, Order + 1)
               movedP    == [n \in P!Nodes |->
                               CASE P!Contains(lowerP, n) -> [node[n] EXCEPT !.parent = p]
                                 [] P!Contains(upperP, n) -> [node[n] EXCEPT !.parent = new]
                                 [] OTHER -> node[n]]
               lowerPN   == P!Internal(SubSeq(tempP.keys, 1, P!Half), lowerP, tempP.parent)
               upperPN   == P!Internal(SubSeq(tempP.keys, P!Half + 2, Order), upperP, tempP.parent)
    <3>1. /\ Len(node[p].keys) >= Tree!MaxKeys
          /\ node' = Append([moved EXCEPT ![p] = lowerNode], upperNode)
          /\ Tree!Promote(p, temp.keys[Tree!Half + 1], new)
          /\ UNCHANGED root
      BY <1>3, <2>2, Zenon DEF Tree!bptree_split_internal_and_insert
    <3>2. tempP = temp
      BY SameWith, Zenon
    <3>3. lowerP = lower /\ upperP = upper
      BY <3>2, SameBase, Zenon
    <3>4. lowerPN = lowerNode /\ upperPN = upperNode
      BY <3>2, <3>3, SameBase, SameNodes, Zenon
    <3>5. ASSUME NEW n
          PROVE  (CASE P!Contains(lowerP, n) -> [node[n] EXCEPT !.parent = p]
                    [] P!Contains(upperP, n) -> [node[n] EXCEPT !.parent = new]
                    [] OTHER -> node[n])
                 = (CASE Tree!Contains(lower, n) -> [node[n] EXCEPT !.parent = p]
                      [] Tree!Contains(upper, n) -> [node[n] EXCEPT !.parent = new]
                      [] OTHER -> node[n])
      <4> DEFINE one == [node[n] EXCEPT !.parent = p]
                 two == [node[n] EXCEPT !.parent = new]
                 lo  == lower
                 up  == upper
      <4>1. P!Contains(lowerP, n) <=> Tree!Contains(lo, n)
        BY <3>3, SameSequences, Zenon
      <4>2. P!Contains(upperP, n) <=> Tree!Contains(up, n)
        BY <3>3, SameSequences, Zenon
      <4> HIDE DEF one, two, lo, up
      <4>3. (CASE P!Contains(lowerP, n) -> one [] P!Contains(upperP, n) -> two [] OTHER -> node[n])
            = (CASE Tree!Contains(lo, n) -> one [] Tree!Contains(up, n) -> two [] OTHER -> node[n])
        <5> HIDE DEF lowerP, upperP
        <5> QED BY <4>1, <4>2
      <4> QED BY <4>3 DEF one, two, lo, up
    <3>6. movedP = moved
      BY <3>5, SameBase, Zenon
    <3>7. Len(node[p].keys) >= P!MaxKeys /\ P!Promote(p, tempP.keys[P!Half + 1], new)
      BY <3>1, <3>2, SameBase, SameReturns, Zenon
    <3>8. node' = Append([movedP EXCEPT ![p] = lowerPN], upperPN)
      <4> HIDE DEF moved, movedP, lowerNode, lowerPN, upperNode, upperPN
      <4> QED BY <3>1, <3>4, <3>6
    <3> QED BY <3>1, <3>7, <3>8, Zenon DEF P!bptree_split_internal_and_insert
  <2> QED BY <2>1, <2>2
<1> QED BY <1>1, <1>2, <1>3, SameBase DEF Tree!bptree_insert_into_parent, P!bptree_insert_into_parent

(* The assumptions of the tree, which its lemmas are cited with. *)
TreeAssumptions ==
  /\ Order \in Nat /\ Order >= 3
  /\ 1 .. MaxId \subseteq Int
  /\ Nothing \notin 1 .. MaxId /\ Nothing \notin [left : Nat, key : Int, right : Nat]
  /\ CallocFails \subseteq P!NewNodes

LEMMA TreeAssumed == TreeAssumptions
<1>1. P!NewNodes = Tree!NewNodes
  BY DEF P!NewNodes, Tree!NewNodes
<1> QED BY <1>1, TreeAssumption, NothingAssumption, BoundAssumption DEF TreeAssumptions

LEMMA TreeStarts == P!Init => P!Holding({})
BY TreeAssumed, P!HoldingStarts DEF TreeAssumptions

LEMMA TreeInserts ==
  ASSUME NEW S, P!Holding(S), NEW k \in 1 .. MaxId, P!bptree_insert(k, k)
  PROVE  \/ returned' = 0 /\ P!Holding(S)'
         \/ returned' \in {1, 2} /\ P!Holding(S \union {<<k, k>>})'
BY TreeAssumed, P!InsertHolding DEF TreeAssumptions

LEMMA TreePromotes ==
  ASSUME NEW S, P!Holding(S), P!bptree_insert_into_parent
  PROVE  /\ returned = 2
         /\ \/ returned' = 0 /\ \A T : P!Holding(T)'
            \/ returned' \in {1, 2} /\ P!Holding(S)'
BY TreeAssumed, P!ParentHolding DEF TreeAssumptions

LEMMA TreeStays ==
  ASSUME NEW S, P!Holding(S), UNCHANGED treeVars
  PROVE  P!Holding(S)'
BY TreeAssumed, P!SameHolding DEF TreeAssumptions, treeVars

LEMMA TreeTyped ==
  ASSUME NEW S, P!Holding(S)
  PROVE  P!TypeOK /\ (P!Idle <=> returned # 2)
BY TreeAssumed, P!HoldingTypes DEF TreeAssumptions

-----------------------------------------------------------------------------
(* The records the tree is to have: those of the rows, and the one that is *)
(* being inserted once the tree has taken it.                              *)
Held == ToSet(rows) \union (IF Inserting /\ returned # 0 THEN {record} ELSE {})

InOrder(s) == \A i, j \in 1 .. Len(s) : i < j => s[i] < s[j]

(* The rows in the order of their ids, and the tree with the same records. *)
TableInv ==
  /\ RowsInv
  /\ InOrder(rows)
  /\ Inserting \/ returned # 2
  /\ \E S : P!Holding(S) /\ (live => S = {<<r, r>> : r \in Held})

LEMMA InitTable == Init => TableInv
<1> SUFFICES ASSUME Init PROVE TableInv
  OBVIOUS
<1>1. RowsInv
  BY InitRowsInv
<1>2. /\ P!Init /\ rows = <<>> /\ record = Nothing /\ returned # 2
  BY SameInit DEF Init, table_create, P!Init
<1>3. P!Holding({})
  BY <1>2, TreeStarts
<1>4. Held = {}
  BY <1>2, ToSetEmpty DEF Held, Inserting
<1>5. InOrder(rows)
  BY <1>2 DEF InOrder
<1>6. {<<r, r>> : r \in Held} = {}
  BY <1>4
<1> QED BY <1>1, <1>2, <1>3, <1>5, <1>6 DEF TableInv

(* A new id is greater than those of the rows. *)
LEMMA NewIdLast ==
  ASSUME NEW s \in Seq(1 .. MaxId), NEW x \in 1 .. MaxId, InOrder(s), \A y \in ToSet(s) : y < x
  PROVE  InOrder(Append(s, x))
<1> PICK m \in Nat : m = Len(s)
  OBVIOUS
<1> PICK t : t = Append(s, x)
  OBVIOUS
<1>1. Len(t) = m + 1 /\ t[m + 1] = x /\ \A i \in 1 .. m : t[i] = s[i]
  OBVIOUS
<1>2. \A i \in 1 .. m : s[i] \in ToSet(s) /\ s[i] \in 1 .. MaxId
  <2>1. DOMAIN s = 1 .. m
    OBVIOUS
  <2>2. \A i \in 1 .. Len(s) : s[i] \in 1 .. MaxId
    BY ElementType
  <2> QED BY <2>1, <2>2 DEF ToSet
<1>3. ASSUME NEW i \in 1 .. m + 1, NEW j \in 1 .. m + 1, i < j PROVE t[i] < t[j]
  <2>1. i \in 1 .. m
    BY <1>3
  <2>2. CASE j = m + 1
    BY <1>1, <1>2, <2>1, <2>2
  <2>3. CASE j \in 1 .. m
    BY <1>1, <1>3, <2>1, <2>3 DEF InOrder
  <2> QED BY <2>2, <2>3
<1> QED BY <1>1, <1>3 DEF InOrder

LEMMA StartTable ==
  ASSUME TableInv, InsertStart
  PROVE  TableInv'
<1>1. RowsInv'
  BY StartRowsInv DEF TableInv
<1>2. PICK S : P!Holding(S) /\ S = {<<r, r>> : r \in Held}
  BY DEF TableInv, InsertStart, Idle
<1>3. PICK k \in 1 .. MaxId : k = next_id
  BY BoundAssumption DEF TableInv, RowsInv, InsertStart
<1>4. record' = k /\ record = Nothing /\ k # Nothing /\ UNCHANGED <<rows, live>> /\ Tree!bptree_insert(k, k)
  BY <1>3, NothingAssumption DEF InsertStart, Idle, Inserting
<1>5. P!bptree_insert(k, k)
  BY <1>4, SameInsert
<1>6. \/ returned' = 0 /\ P!Holding(S)'
      \/ returned' \in {1, 2} /\ P!Holding(S \union {<<k, k>>})'
  BY <1>2, <1>5, TreeInserts
<1>7. Held = ToSet(rows)
  BY <1>4 DEF Held, Inserting
<1>8. Held' = ToSet(rows) \union (IF returned' # 0 THEN {k} ELSE {})
  BY <1>4 DEF Held, Inserting
<1>9. \E T : P!Holding(T)' /\ T = {<<r, r>> : r \in Held'}
  <2>1. CASE returned' = 0 /\ P!Holding(S)'
    <3>1. Held' = Held
      BY <1>7, <1>8, <2>1
    <3> QED BY <1>2, <2>1, <3>1
  <2>2. CASE returned' \in {1, 2} /\ P!Holding(S \union {<<k, k>>})'
    <3>1. Held' = Held \union {k}
      BY <1>7, <1>8, <2>2
    <3>2. S \union {<<k, k>>} = {<<r, r>> : r \in Held'}
      BY <1>2, <3>1
    <3> QED BY <2>2, <3>2
  <2> QED BY <1>6, <2>1, <2>2
<1>10. InOrder(rows)' /\ Inserting'
  BY <1>4 DEF TableInv, Inserting, InOrder
<1> QED BY <1>1, <1>9, <1>10 DEF TableInv

LEMMA PromotesTable ==
  ASSUME TableInv, InsertPromotes
  PROVE  TableInv'
<1>1. RowsInv'
  BY NextRowsInv DEF TableInv, Next, table_insert
<1>2. PICK S : P!Holding(S) /\ S = {<<r, r>> : r \in Held}
  BY DEF TableInv, RowsInv, InsertPromotes
<1>3. P!bptree_insert_into_parent
  BY SameParent DEF InsertPromotes
<1>4. /\ returned = 2
      /\ \/ returned' = 0 /\ \A T : P!Holding(T)'
         \/ returned' \in {1, 2} /\ P!Holding(S)'
  BY <1>2, <1>3, TreePromotes
<1>5. Inserting /\ UNCHANGED <<rows, record, live>>
  BY DEF InsertPromotes
<1>6. \E T : P!Holding(T)' /\ T = {<<r, r>> : r \in Held'}
  <2>1. CASE \A T : P!Holding(T)'
    BY <2>1
  <2>2. CASE returned' \in {1, 2} /\ P!Holding(S)'
    <3>1. Held' = Held
      BY <1>4, <1>5, <2>2 DEF Held, Inserting
    <3> QED BY <1>2, <2>2, <3>1
  <2> QED BY <1>4, <2>1, <2>2
<1>7. InOrder(rows)' /\ Inserting'
  BY <1>5 DEF TableInv, Inserting, InOrder
<1> QED BY <1>1, <1>6, <1>7 DEF TableInv

LEMMA EndsTable ==
  ASSUME TableInv, InsertEnds
  PROVE  TableInv'
<1>1. RowsInv'
  BY EndsRowsInv DEF TableInv
<1>2. PICK S : P!Holding(S) /\ S = {<<r, r>> : r \in Held}
  BY DEF TableInv, RowsInv, InsertEnds
<1>3. /\ UNCHANGED treeVars /\ Inserting /\ ~Inserting' /\ returned' = returned /\ returned # 2
      /\ record \in 1 .. MaxId /\ record = next_id - 1 /\ next_id \in 1 .. MaxId + 1
      /\ rows \in Seq(1 .. MaxId) /\ InOrder(rows) /\ OwnedOnce
      /\ rows' = IF returned = 1 THEN Append(rows, record) ELSE rows
  BY DEF TableInv, RowsInv, InsertEnds, Inserting, treeVars
<1>4. P!Holding(S)'
  BY <1>2, <1>3, TreeStays
<1>5. returned \in {0, 1, 2}
  BY <1>2, TreeTyped DEF P!TypeOK
<1>6. ToSet(rows') = Held
  <2>1. CASE returned = 1
    <3>1. ToSet(Append(rows, record)) = ToSet(rows) \union {record}
      BY <1>3, ToSetAppend
    <3> QED BY <1>3, <2>1, <3>1 DEF Held
  <2>2. CASE returned = 0
    BY <1>3, <2>2 DEF Held
  <2> QED BY <1>3, <1>5, <2>1, <2>2
<1>7. Held' = Held
  BY <1>3, <1>6 DEF Held
<1>8. InOrder(rows)'
  <2>1. \A y \in ToSet(rows) : y < record
    BY <1>3, BoundAssumption DEF OwnedOnce
  <2>2. InOrder(Append(rows, record))
    BY <1>3, <2>1, NewIdLast
  <2>3. InOrder(rows')
    BY <1>3, <2>2
  <2> QED BY <2>3 DEF InOrder
<1>9. P!Holding(S)' /\ S = {<<r, r>> : r \in Held'}
  BY <1>2, <1>4, <1>7
<1> QED BY <1>1, <1>3, <1>8, <1>9 DEF TableInv

LEMMA RestTable ==
  ASSUME TableInv, InsertFails \/ table_destroy \/ UNCHANGED vars
  PROVE  TableInv'
<1>1. RowsInv'
  BY NextRowsInv DEF TableInv, Next, table_insert
<1>2. PICK S : P!Holding(S) /\ (live => S = {<<r, r>> : r \in Held})
  BY DEF TableInv
<1>3. UNCHANGED treeVars /\ UNCHANGED record /\ returned' = returned
  BY DEF InsertFails, table_destroy, vars, treeVars
<1>4. P!Holding(S)'
  BY <1>2, <1>3, TreeStays
<1>5. CASE InsertFails \/ UNCHANGED vars
  <2>1. UNCHANGED <<rows, live>>
    BY <1>5 DEF InsertFails, vars
  <2>2. Held' = Held /\ InOrder(rows)' /\ (Inserting' <=> Inserting)
    BY <1>3, <2>1 DEF Held, Inserting, InOrder, TableInv
  <2>3. P!Holding(S)' /\ (live' => S = {<<r, r>> : r \in Held'})
    BY <1>2, <1>4, <2>1, <2>2
  <2> QED BY <1>1, <1>3, <2>2, <2>3 DEF TableInv
<1>6. CASE table_destroy
  <2>1. ~live' /\ rows' = <<>> /\ returned # 2
    BY <1>6 DEF table_destroy, Idle, TableInv
  <2>2. InOrder(rows)'
    BY <2>1 DEF InOrder
  <2> QED BY <1>1, <1>3, <1>4, <2>1, <2>2 DEF TableInv
<1> QED BY <1>5, <1>6

(* The table and its tree go together, between the statements and inside   *)
(* table_insert: the rows are in the order of their ids, the ids of the    *)
(* rows and of the record that has just been put into the index are what   *)
(* the leaves hold, unless a node above them could not be allocated.       *)
THEOREM TableInvariance == Spec => []TableInv
<1>1. TableInv /\ [Next]_vars => TableInv'
  BY StartTable, PromotesTable, EndsTable, RestTable DEF Next, table_insert
<1> QED BY <1>1, InitTable, PTL DEF Spec

(* Every variable of the table and of its tree has its type, whatever      *)
(* allocations fail.                                                       *)
THEOREM TableTypes == Spec => []TypeOK
<1>1. TableInv => TypeOK
  <2> SUFFICES ASSUME TableInv PROVE TypeOK
    OBVIOUS
  <2>1. PICK S : P!Holding(S)
    BY DEF TableInv
  <2>2. Tree!TypeOK
    BY <2>1, TreeTyped, SameTypes
  <2>3. RowsInv
    BY DEF TableInv
  <2> QED BY <2>2, <2>3 DEF RowsInv, TypeOK
<1> QED BY <1>1, TableInvariance, PTL

-----------------------------------------------------------------------------
(* Sequences of ids.                                                       *)

LEMMA OrderIs ==
  ASSUME NEW s \in Seq(Int)
  PROVE  InOrder(s) <=> P!Before(s, P!Less)
<1>1. P!Increasing(s) <=> P!Before(s, P!Less)
  BY TreeAssumed, P!IncreasingIs DEF TreeAssumptions
<1> QED BY <1>1 DEF P!Increasing, InOrder

(* An increasing sequence is known by its elements. *)
LEMMA SameIds ==
  ASSUME NEW s \in Seq(Int), NEW t \in Seq(Int), InOrder(s), InOrder(t),
         \A x : Contains(s, x) <=> Contains(t, x)
  PROVE  s = t
<1>1. P!Before(s, P!Less) /\ P!Before(t, P!Less)
  BY OrderIs
<1>2. \A x : P!Contains(s, x) <=> P!Contains(t, x)
  BY DEF P!Contains, Contains
<1>3. \A a, b : ~(<<a, b>> \in P!Less /\ <<b, a>> \in P!Less)
  BY DEF P!Less
<1> QED BY <1>1, <1>2, <1>3, TreeAssumed, P!SameOrder DEF TreeAssumptions

(* The first element of a sequence that is not in S ends the leading ones. *)
LEMMA LeadingIs ==
  ASSUME NEW s, Len(s) \in Nat, NEW S
  PROVE  /\ Leading(s, S) \in 0 .. Len(s)
         /\ \A j \in 1 .. Leading(s, S) : s[j] \in S
         /\ Leading(s, S) < Len(s) => s[Leading(s, S) + 1] \notin S
<1> DEFINE Ends(i) == (\A j \in 1 .. i : s[j] \in S) /\ (i < Len(s) => s[i + 1] \notin S)
<1>1. \E i \in 0 .. Len(s) : Ends(i)
  <2> DEFINE T == {j \in 1 .. Len(s) : s[j] \notin S}
  <2>1. CASE T = {}
    <3>1. Len(s) \in 0 .. Len(s) /\ Ends(Len(s))
      BY <2>1
    <3> HIDE DEF Ends
    <3> QED BY <3>1
  <2>2. CASE T # {}
    <3>1. T \subseteq Nat
      OBVIOUS
    <3> HIDE DEF T
    <3>2. PICK k \in T : \A y \in T : k <= y
      BY <2>2, <3>1, TreeAssumed, P!LeastNumber DEF TreeAssumptions
    <3>3. k \in 1 .. Len(s) /\ s[k] \notin S
      BY <3>2 DEF T
    <3>4. \A j \in 1 .. k - 1 : s[j] \in S
      BY <3>2, <3>3 DEF T
    <3>5. PICK i \in 0 .. Len(s) : i = k - 1 /\ k = i + 1
      BY <3>3
    <3>6. Ends(i)
      BY <3>3, <3>4, <3>5
    <3> HIDE DEF Ends
    <3> QED BY <3>6
  <2> QED BY <2>1, <2>2
<1>2. Leading(s, S) = CHOOSE i \in 0 .. Len(s) : Ends(i)
  BY DEF Leading
<1> HIDE DEF Ends
<1>3. Leading(s, S) \in 0 .. Len(s) /\ Ends(Leading(s, S))
  BY <1>1, <1>2
<1> QED BY <1>3 DEF Ends

(* The elements of s that are in S are its first c. *)
Cut(s, c, S) ==
  /\ c \in 0 .. Len(s)
  /\ \A j \in 1 .. c : s[j] \in S
  /\ \A j \in c + 1 .. Len(s) : s[j] \notin S

(* With an element of s, S has the smaller ones. *)
Lower(s, S) == \A i, j \in 1 .. Len(s) : s[i] < s[j] /\ s[j] \in S => s[i] \in S

(* In an increasing sequence the ids below a bound are the leading ones. *)
LEMMA LeadingBelow ==
  ASSUME NEW s \in Seq(Int), InOrder(s), NEW S, Lower(s, S)
  PROVE  Cut(s, Leading(s, S), S)
<1> PICK n \in Nat : n = Len(s)
  OBVIOUS
<1> PICK c : c = Leading(s, S)
  OBVIOUS
<1>1. /\ c \in 0 .. n
      /\ \A j \in 1 .. c : s[j] \in S
      /\ c < n => s[c + 1] \notin S
  BY LeadingIs
<1>2. ASSUME NEW j \in c + 1 .. n PROVE s[j] \notin S
  <2>1. c + 1 \in 1 .. n /\ j \in 1 .. n /\ c < n
    BY <1>1
  <2>2. CASE j = c + 1
    BY <1>1, <2>1, <2>2
  <2>3. CASE j # c + 1
    <3>1. s[c + 1] < s[j]
      BY <2>1, <2>3 DEF InOrder
    <3> QED BY <1>1, <2>1, <3>1 DEF Lower
  <2> QED BY <2>2, <2>3
<1> QED BY <1>1, <1>2 DEF Cut

(* The ends of a sequence. *)
LEMMA BackIs ==
  ASSUME NEW X, NEW s \in Seq(X), NEW c \in Nat
  PROVE  /\ SubSeq(s, c + 1, Len(s)) \in Seq(X)
         /\ Len(SubSeq(s, c + 1, Len(s))) = IF c <= Len(s) THEN Len(s) - c ELSE 0
         /\ \A i \in 1 .. Len(SubSeq(s, c + 1, Len(s))) : SubSeq(s, c + 1, Len(s))[i] = s[c + i]
<1>1. CASE c < Len(s)
  <2>1. \A i \in c + 1 .. Len(s) : s[i] \in X
    OBVIOUS
  <2>2. SubSeq(s, c + 1, Len(s)) \in Seq(X) /\ Len(SubSeq(s, c + 1, Len(s))) = Len(s) - c
    BY <1>1, <2>1
  <2>3. \A i \in 1 .. Len(s) - c : SubSeq(s, c + 1, Len(s))[i] = s[c + i]
    BY <1>1, <2>2
  <2> QED BY <1>1, <2>2, <2>3
<1>2. CASE c >= Len(s)
  <2>1. SubSeq(s, c + 1, Len(s)) = <<>>
    BY <1>2
  <2> QED BY <1>2, <2>1
<1> QED BY <1>1, <1>2

LEMMA FrontIs ==
  ASSUME NEW X, NEW s \in Seq(X), NEW c \in 0 .. Len(s)
  PROVE  /\ SubSeq(s, 1, c) \in Seq(X) /\ Len(SubSeq(s, 1, c)) = c
         /\ \A i \in 1 .. c : SubSeq(s, 1, c)[i] = s[i]
<1>1. \A i \in 1 .. c : s[i] \in X
  OBVIOUS
<1>2. CASE c = 0
  BY <1>2
<1>3. CASE c # 0
  BY <1>1, <1>3
<1> QED BY <1>2, <1>3

(* What a cut parts. *)
LEMMA BackPicks ==
  ASSUME NEW s \in Seq(Int), InOrder(s), NEW S, NEW c \in Nat, Cut(s, c, S)
  PROVE  /\ SubSeq(s, c + 1, Len(s)) \in Seq(Int) /\ InOrder(SubSeq(s, c + 1, Len(s)))
         /\ \A x : Contains(SubSeq(s, c + 1, Len(s)), x) <=> Contains(s, x) /\ x \notin S
<1> PICK n \in Nat : n = Len(s)
  OBVIOUS
<1> PICK t : t = SubSeq(s, c + 1, Len(s))
  OBVIOUS
<1>0. /\ c \in 0 .. n
      /\ \A j \in 1 .. c : s[j] \in S
      /\ \A j \in c + 1 .. n : s[j] \notin S
  BY DEF Cut
<1>1. t \in Seq(Int) /\ Len(t) = n - c /\ \A i \in 1 .. n - c : t[i] = s[c + i]
  <2>1. c \in Nat /\ c <= n
    BY <1>0
  <2>2. /\ t \in Seq(Int)
        /\ Len(t) = IF c <= Len(s) THEN Len(s) - c ELSE 0
        /\ \A i \in 1 .. Len(t) : t[i] = s[c + i]
    BY <2>1, BackIs, Zenon
  <2> QED BY <2>1, <2>2
<1>2. InOrder(t)
  BY <1>0, <1>1 DEF InOrder
<1>3. ASSUME NEW x PROVE Contains(t, x) <=> Contains(s, x) /\ x \notin S
  <2>1. ASSUME Contains(t, x) PROVE Contains(s, x) /\ x \notin S
    <3>1. PICK i \in 1 .. n - c : t[i] = x
      BY <1>1, <2>1 DEF Contains
    <3>2. c + i \in 1 .. n /\ c + i \in c + 1 .. n /\ s[c + i] = x
      BY <1>0, <1>1, <3>1
    <3> QED BY <1>0, <3>2 DEF Contains
  <2>2. ASSUME Contains(s, x), x \notin S PROVE Contains(t, x)
    <3>1. PICK j \in 1 .. n : s[j] = x
      BY <2>2 DEF Contains
    <3>2. j \notin 1 .. c
      BY <1>0, <2>2, <3>1
    <3>3. j - c \in 1 .. n - c /\ c + (j - c) = j
      BY <1>0, <3>2
    <3>4. t[j - c] = x
      BY <1>1, <3>1, <3>3
    <3> QED BY <1>1, <3>3, <3>4 DEF Contains
  <2> QED BY <2>1, <2>2
<1> QED BY <1>1, <1>2, <1>3

LEMMA FrontPicks ==
  ASSUME NEW s \in Seq(Int), InOrder(s), NEW S, NEW c, Cut(s, c, S)
  PROVE  /\ SubSeq(s, 1, c) \in Seq(Int) /\ InOrder(SubSeq(s, 1, c))
         /\ \A x : Contains(SubSeq(s, 1, c), x) <=> Contains(s, x) /\ x \in S
<1> PICK n \in Nat : n = Len(s)
  OBVIOUS
<1> PICK t : t = SubSeq(s, 1, c)
  OBVIOUS
<1>0. /\ c \in 0 .. n
      /\ \A j \in 1 .. c : s[j] \in S
      /\ \A j \in c + 1 .. n : s[j] \notin S
  BY DEF Cut
<1>1. t \in Seq(Int) /\ Len(t) = c /\ \A i \in 1 .. c : t[i] = s[i]
  BY <1>0, FrontIs
<1>2. InOrder(t)
  BY <1>0, <1>1 DEF InOrder
<1>3. ASSUME NEW x PROVE Contains(t, x) <=> Contains(s, x) /\ x \in S
  <2>1. ASSUME Contains(t, x) PROVE Contains(s, x) /\ x \in S
    BY <1>0, <1>1, <2>1 DEF Contains
  <2>2. ASSUME Contains(s, x), x \in S PROVE Contains(t, x)
    <3>1. PICK j \in 1 .. n : s[j] = x
      BY <2>2 DEF Contains
    <3>2. j \in 1 .. c
      BY <1>0, <2>2, <3>1
    <3> QED BY <1>0, <1>1, <3>1, <3>2 DEF Contains
  <2> QED BY <2>1, <2>2
<1> QED BY <1>1, <1>2, <1>3

-----------------------------------------------------------------------------
(* The scans of the rows.                                                  *)

(* The rows with an id in T. *)
Picked(T) == P!FlattenSeq([i \in 1 .. Len(rows) |-> IF rows[i] \in T THEN <<rows[i]>> ELSE <<>>])

(* The first of them, or Nothing. *)
FirstOf(T) == RowAt(IF {i \in 1 .. Len(rows) : rows[i] \in T} # {}
                    THEN Min({i \in 1 .. Len(rows) : rows[i] \in T}) ELSE 0)

LEMMA PickedIs ==
  ASSUME rows \in Seq(1 .. MaxId), InOrder(rows), NEW T
  PROVE  /\ Picked(T) \in Seq(Int) /\ InOrder(Picked(T))
         /\ \A x : Contains(Picked(T), x) <=> x \in ToSet(rows) /\ x \in T
<1> PICK s \in Seq(1 .. MaxId) : s = rows
  OBVIOUS
<1> PICK n \in Nat : n = Len(s)
  OBVIOUS
<1> PICK S : S = [i \in 1 .. n |-> IF s[i] \in T THEN <<s[i]>> ELSE <<>>]
  OBVIOUS
<1>1. \A i \in 1 .. n : s[i] \in Int
  <2>1. \A i \in 1 .. Len(s) : s[i] \in 1 .. MaxId
    BY ElementType
  <2> QED BY <2>1, BoundAssumption
<1>2. /\ Len(S) = n
      /\ \A i \in 1 .. n : S[i] = IF s[i] \in T THEN <<s[i]>> ELSE <<>>
  OBVIOUS
<1>3. S \in Seq(Seq(Int))
  <2> PICK X : X = Seq(Int)
    OBVIOUS
  <2>1. ASSUME NEW i \in 1 .. n PROVE (IF s[i] \in T THEN <<s[i]>> ELSE <<>>) \in X
    <3>1. <<s[i]>> \in Seq(Int) /\ <<>> \in Seq(Int)
      BY <1>1
    <3> QED BY <3>1
  <2>2. S \in Seq(X)
    BY <2>1
  <2> QED BY <2>2
<1>4. Picked(T) = P!FlattenSeq(S)
  BY DEF Picked
<1>5. /\ P!FlattenSeq(S) \in Seq(Int)
      /\ \A x : P!Contains(P!FlattenSeq(S), x) <=> P!Gathered(S, Len(S), x)
      /\ \A Rel : P!Layered(S, Rel) => P!Before(P!FlattenSeq(S), Rel)
  BY <1>3, TreeAssumed, P!FlattenIs DEF TreeAssumptions
<1>6. \A i \in 1 .. n : \A x : P!Contains(S[i], x) <=> x = s[i] /\ x \in T
  <2>1. \A y, x : (P!Contains(<<y>>, x) <=> x = y) /\ ~P!Contains(<<>>, x)
    BY DEF P!Contains
  <2> QED BY <1>2, <2>1
<1>7. P!Layered(S, P!Less)
  <2>1. ASSUME NEW a \in 1 .. n PROVE P!Before(S[a], P!Less)
    <3>1. \A y : P!Before(<<y>>, P!Less) /\ P!Before(<<>>, P!Less)
      BY DEF P!Before
    <3> QED BY <1>2, <3>1
  <2>2. ASSUME NEW a \in 1 .. n, NEW b \in 1 .. n, a < b PROVE P!Precedes(S[a], S[b], P!Less)
    <3>1. s[a] < s[b] /\ s[a] \in Int /\ s[b] \in Int
      BY <1>1, <2>2 DEF InOrder
    <3>2. <<s[a], s[b]>> \in P!Less
      BY <3>1 DEF P!Less
    <3> QED BY <1>6, <3>2 DEF P!Precedes
  <2> QED BY <1>2, <2>1, <2>2 DEF P!Layered
<1>8. InOrder(P!FlattenSeq(S))
  BY <1>5, <1>7, OrderIs
<1>9. \A x : Contains(P!FlattenSeq(S), x) <=> \E i \in 1 .. n : x = s[i] /\ x \in T
  <2>1. \A x : P!Contains(P!FlattenSeq(S), x) <=> Contains(P!FlattenSeq(S), x)
    BY DEF P!Contains, Contains
  <2>2. \A x : P!Gathered(S, n, x) <=> \E i \in 1 .. n : x = s[i] /\ x \in T
    BY <1>6 DEF P!Gathered
  <2> QED BY <1>2, <1>5, <2>1, <2>2
<1>10. \A x : x \in ToSet(rows) <=> \E i \in 1 .. n : x = s[i]
  BY DEF ToSet
<1> QED BY <1>4, <1>5, <1>8, <1>9, <1>10

(* An increasing sequence of the rows in T is the one a scan makes. *)
LEMMA PickedFrom ==
  ASSUME rows \in Seq(1 .. MaxId), InOrder(rows), NEW T,
         NEW t \in Seq(Int), InOrder(t), \A x : Contains(t, x) <=> x \in ToSet(rows) /\ x \in T
  PROVE  t = Picked(T)
<1>1. /\ Picked(T) \in Seq(Int) /\ InOrder(Picked(T))
      /\ \A x : Contains(Picked(T), x) <=> x \in ToSet(rows) /\ x \in T
  BY PickedIs
<1> QED BY <1>1, SameIds

(* The first row a scan finds heads the list of all of them. *)
LEMMA HeadIs ==
  ASSUME rows \in Seq(1 .. MaxId), InOrder(rows), NEW T, NEW k \in 1 .. Len(rows), rows[k] \in T
  PROVE  FirstOf(T) = Head(Picked(T))
<1> PICK s \in Seq(1 .. MaxId) : s = rows
  OBVIOUS
<1> PICK n \in Nat : n = Len(s)
  OBVIOUS
<1> PICK t : t = Picked(T)
  OBVIOUS
<1>0. \A i \in 1 .. n : s[i] \in Int
  <2>1. \A i \in 1 .. Len(s) : s[i] \in 1 .. MaxId
    BY ElementType
  <2> QED BY <2>1, BoundAssumption
<1>1. /\ t \in Seq(Int) /\ InOrder(t)
      /\ \A x : Contains(t, x) <=> x \in ToSet(s) /\ x \in T
  BY PickedIs
<1> DEFINE I == {i \in 1 .. n : s[i] \in T}
<1>2. PICK i \in I : \A j \in I : i <= j
  <2>1. I \subseteq Nat /\ I # {}
    OBVIOUS
  <2> HIDE DEF I
  <2> QED BY <2>1, TreeAssumed, P!LeastNumber DEF TreeAssumptions
<1>3. Min(I) \in I /\ \A j \in I : Min(I) <= j
  <2> HIDE DEF I
  <2> QED BY <1>2 DEF Min
<1>4. Min(I) = i
  BY <1>2, <1>3
<1>5. FirstOf(T) = s[i]
  <2>1. i # 0 /\ I # {}
    BY <1>2
  <2>2. FirstOf(T) = RowAt(IF I # {} THEN Min(I) ELSE 0)
    BY DEF FirstOf
  <2> HIDE DEF I
  <2> QED BY <1>4, <2>1, <2>2 DEF RowAt
<1>6. \A x : x \in ToSet(s) <=> \E j \in 1 .. n : x = s[j]
  BY DEF ToSet
<1>7. PICK m \in 1 .. Len(t) : t[m] = s[i]
  <2>1. s[i] \in ToSet(s) /\ s[i] \in T
    BY <1>2, <1>6
  <2> QED BY <1>1, <2>1 DEF Contains
<1>8. 1 \in 1 .. Len(t) /\ Len(t) \in Nat
  BY <1>1, <1>7
<1>9. Contains(t, t[1])
  BY <1>8 DEF Contains
<1>10. PICK j \in 1 .. n : t[1] = s[j] /\ s[j] \in T
  BY <1>1, <1>6, <1>9
<1>11. i <= j /\ i \in 1 .. n
  BY <1>2, <1>10
<1>12. ~(s[j] < s[i])
  BY <1>0, <1>11 DEF InOrder
<1>13. m = 1
  BY <1>1, <1>7, <1>8, <1>10, <1>12 DEF InOrder
<1> QED BY <1>1, <1>5, <1>7, <1>8, <1>13

(* How each query scans. *)
LEMMA ScansAre ==
  ASSUME rows \in Seq(1 .. MaxId)
  PROVE  /\ \A c, id : RowsWith(LAMBDA r : table_compare_int(r, c, id))
                       = Picked({r \in 1 .. MaxId : table_compare_int(r, c, id)})
         /\ \A name : table_find_by_name_matches(name) = Picked({r \in 1 .. MaxId : StoredName(r) = name})
         /\ \A c, age : table_find_by_age_condition(c, age)
                        = Picked({r \in 1 .. MaxId : table_compare_int(Users[r].age, c, age)})
<1> PICK s \in Seq(1 .. MaxId) : s = rows
  OBVIOUS
<1>1. \A i \in 1 .. Len(s) : s[i] \in 1 .. MaxId
  BY ElementType
<1>2. \A S : P!FlattenSeq(S) = Tree!FlattenSeq(S)
  BY SameSequences
<1>3. ASSUME NEW c, NEW id
      PROVE  RowsWith(LAMBDA r : table_compare_int(r, c, id))
             = Picked({r \in 1 .. MaxId : table_compare_int(r, c, id)})
  <2> DEFINE T == {r \in 1 .. MaxId : table_compare_int(r, c, id)}
             A == [i \in 1 .. Len(s) |-> IF table_compare_int(s[i], c, id) THEN <<s[i]>> ELSE <<>>]
             B == [i \in 1 .. Len(s) |-> IF s[i] \in T THEN <<s[i]>> ELSE <<>>]
  <2>1. A = B
    <3>1. \A i \in 1 .. Len(s) : table_compare_int(s[i], c, id) <=> s[i] \in T
      BY <1>1
    <3> HIDE DEF T
    <3> QED BY <3>1
  <2>2. RowsWith(LAMBDA r : table_compare_int(r, c, id)) = Tree!FlattenSeq(A)
    BY Zenon DEF RowsWith, Tree!Concat
  <2>3. Picked(T) = P!FlattenSeq(B)
    BY Zenon DEF Picked
  <2> QED BY <1>2, <2>1, <2>2, <2>3, Zenon
<1>4. ASSUME NEW name
      PROVE  table_find_by_name_matches(name) = Picked({r \in 1 .. MaxId : StoredName(r) = name})
  <2> DEFINE T == {r \in 1 .. MaxId : StoredName(r) = name}
             A == [i \in 1 .. Len(s) |-> IF StoredName(s[i]) = name THEN <<s[i]>> ELSE <<>>]
             B == [i \in 1 .. Len(s) |-> IF s[i] \in T THEN <<s[i]>> ELSE <<>>]
  <2>1. A = B
    <3>1. \A i \in 1 .. Len(s) : StoredName(s[i]) = name <=> s[i] \in T
      BY <1>1
    <3> HIDE DEF T
    <3> QED BY <3>1
  <2>2. table_find_by_name_matches(name) = Tree!FlattenSeq(A)
    BY Zenon DEF table_find_by_name_matches, RowsWith, Tree!Concat
  <2>3. Picked(T) = P!FlattenSeq(B)
    BY Zenon DEF Picked
  <2> QED BY <1>2, <2>1, <2>2, <2>3, Zenon
<1>5. ASSUME NEW c, NEW age
      PROVE  table_find_by_age_condition(c, age)
             = Picked({r \in 1 .. MaxId : table_compare_int(Users[r].age, c, age)})
  <2> DEFINE T == {r \in 1 .. MaxId : table_compare_int(Users[r].age, c, age)}
             A == [i \in 1 .. Len(s) |-> IF table_compare_int(Users[s[i]].age, c, age) THEN <<s[i]>> ELSE <<>>]
             B == [i \in 1 .. Len(s) |-> IF s[i] \in T THEN <<s[i]>> ELSE <<>>]
  <2>1. A = B
    <3>1. \A i \in 1 .. Len(s) : table_compare_int(Users[s[i]].age, c, age) <=> s[i] \in T
      BY <1>1
    <3> HIDE DEF T
    <3> QED BY <3>1
  <2>2. table_find_by_age_condition(c, age) = Tree!FlattenSeq(A)
    BY Zenon DEF table_find_by_age_condition, RowsWith, Tree!Concat
  <2>3. Picked(T) = P!FlattenSeq(B)
    BY Zenon DEF Picked
  <2> QED BY <1>2, <2>1, <2>2, <2>3, Zenon
<1> QED BY <1>3, <1>4, <1>5

LEMMA FirstsAre ==
  ASSUME rows \in Seq(1 .. MaxId)
  PROVE  /\ \A id : table_scan_by_id(id) = FirstOf({r \in 1 .. MaxId : r = id})
         /\ \A name : table_find_by_name(name) = FirstOf({r \in 1 .. MaxId : StoredName(r) = name})
         /\ \A age : table_find_by_age(age) = FirstOf({r \in 1 .. MaxId : Users[r].age = age})
<1> PICK s \in Seq(1 .. MaxId) : s = rows
  OBVIOUS
<1>1. \A i \in 1 .. Len(s) : s[i] \in 1 .. MaxId
  BY ElementType
<1>2. ASSUME NEW id PROVE table_scan_by_id(id) = FirstOf({r \in 1 .. MaxId : r = id})
  <2>1. {i \in 1 .. Len(s) : s[i] = id} = {i \in 1 .. Len(s) : s[i] \in {r \in 1 .. MaxId : r = id}}
    BY <1>1
  <2> QED BY <2>1, Zenon DEF table_scan_by_id, SelectInSeq, FirstOf
<1>3. ASSUME NEW name PROVE table_find_by_name(name) = FirstOf({r \in 1 .. MaxId : StoredName(r) = name})
  <2>1. {i \in 1 .. Len(s) : StoredName(s[i]) = name}
        = {i \in 1 .. Len(s) : s[i] \in {r \in 1 .. MaxId : StoredName(r) = name}}
    BY <1>1
  <2> QED BY <2>1, Zenon DEF table_find_by_name, SelectInSeq, FirstOf
<1>4. ASSUME NEW age PROVE table_find_by_age(age) = FirstOf({r \in 1 .. MaxId : Users[r].age = age})
  <2>1. {i \in 1 .. Len(s) : Users[s[i]].age = age}
        = {i \in 1 .. Len(s) : s[i] \in {r \in 1 .. MaxId : Users[r].age = age}}
    BY <1>1
  <2> QED BY <2>1, Zenon DEF table_find_by_age, SelectInSeq, FirstOf
<1> QED BY <1>2, <1>3, <1>4

(* What the comparisons compare. *)
LEMMA ComparesAre ==
  \A a, b : /\ table_compare_int(a, "EQ", b) <=> a = b
            /\ table_compare_int(a, "LT", b) <=> a < b
            /\ table_compare_int(a, "LE", b) <=> a <= b
            /\ table_compare_int(a, "GT", b) <=> a > b
            /\ table_compare_int(a, "GE", b) <=> a >= b
BY DEF table_compare_int

LEMMA TableScans ==
  ASSUME TableInv
  PROVE  ScansAgree
<1> SUFFICES ASSUME NEW i \in DOMAIN rows
             PROVE  LET name == Users[rows[i]].name
                        age  == Users[rows[i]].age
                    IN  /\ Len(name) < NameSize =>
                             /\ rows[i] \in ToSet(table_find_by_name_matches(name))
                             /\ table_find_by_name(name) = Head(table_find_by_name_matches(name))
                        /\ table_find_by_age(age) = Head(table_find_by_age_condition("EQ", age))
                        /\ \A c \in {<<"LT", "GE">>, <<"LE", "GT">>} :
                             LET below == ToSet(table_find_by_age_condition(c[1], age))
                                 above == ToSet(table_find_by_age_condition(c[2], age))
                             IN  below \union above = ToSet(table_collect_all) /\ below \intersect above = {}
  BY Zenon DEF ScansAgree
<1> PICK name : name = Users[rows[i]].name
  OBVIOUS
<1> PICK age : age = Users[rows[i]].age
  OBVIOUS
<1>1. rows \in Seq(1 .. MaxId) /\ InOrder(rows)
  BY DEF TableInv, RowsInv
<1>2. i \in 1 .. Len(rows) /\ rows[i] \in 1 .. MaxId
  <2>1. i \in 1 .. Len(rows)
    BY <1>1
  <2> QED BY <1>1, <2>1, ElementType
<1>3. \A r \in 1 .. MaxId : Users[r].age \in Int
  BY UsersAssumption
<1>4. age \in Int
  BY <1>2, <1>3
<1>5. \A T : /\ Picked(T) \in Seq(Int)
             /\ \A x : Contains(Picked(T), x) <=> x \in ToSet(rows) /\ x \in T
  BY <1>1, PickedIs
<1>6. \A T : \A x : x \in ToSet(Picked(T)) <=> x \in ToSet(rows) /\ x \in T
  <2>1. \A t \in Seq(Int) : \A x : x \in ToSet(t) <=> Contains(t, x)
    <3> SUFFICES ASSUME NEW t \in Seq(Int) PROVE \A x : x \in ToSet(t) <=> Contains(t, x)
      OBVIOUS
    <3>1. DOMAIN t = 1 .. Len(t)
      OBVIOUS
    <3> QED BY <3>1 DEF ToSet, Contains
  <2> QED BY <1>5, <2>1
<1>7. rows[i] \in ToSet(rows) /\ ToSet(rows) \subseteq 1 .. MaxId
  BY <1>1, ToSetType DEF ToSet
<1>8. ASSUME Len(name) < NameSize
      PROVE  /\ rows[i] \in ToSet(table_find_by_name_matches(name))
             /\ table_find_by_name(name) = Head(table_find_by_name_matches(name))
  <2> PICK T : T = {r \in 1 .. MaxId : StoredName(r) = name}
    OBVIOUS
  <2>1. StoredName(rows[i]) = name
    BY <1>8, Zenon DEF StoredName
  <2>2. rows[i] \in T
    BY <1>2, <2>1
  <2>3. table_find_by_name_matches(name) = Picked(T) /\ table_find_by_name(name) = FirstOf(T)
    BY <1>1, ScansAre, FirstsAre
  <2>4. FirstOf(T) = Head(Picked(T))
    BY <1>1, <1>2, <2>2, HeadIs
  <2> QED BY <1>6, <1>7, <2>2, <2>3, <2>4, Zenon
<1>9. table_find_by_age(age) = Head(table_find_by_age_condition("EQ", age))
  <2> PICK T : T = {r \in 1 .. MaxId : Users[r].age = age}
    OBVIOUS
  <2>1. rows[i] \in T
    BY <1>2
  <2>2. T = {r \in 1 .. MaxId : table_compare_int(Users[r].age, "EQ", age)}
    BY ComparesAre
  <2>3. table_find_by_age_condition("EQ", age) = Picked(T) /\ table_find_by_age(age) = FirstOf(T)
    BY <1>1, <2>2, ScansAre, FirstsAre
  <2>4. FirstOf(T) = Head(Picked(T))
    BY <1>1, <1>2, <2>1, HeadIs
  <2> QED BY <2>3, <2>4
<1>10. \A c : \A x : x \in ToSet(table_find_by_age_condition(c, age))
                     <=> x \in ToSet(rows) /\ table_compare_int(Users[x].age, c, age)
  <2> SUFFICES ASSUME NEW c, NEW x
               PROVE  x \in ToSet(table_find_by_age_condition(c, age))
                      <=> x \in ToSet(rows) /\ table_compare_int(Users[x].age, c, age)
    OBVIOUS
  <2> PICK T : T = {r \in 1 .. MaxId : table_compare_int(Users[r].age, c, age)}
    OBVIOUS
  <2>1. table_find_by_age_condition(c, age) = Picked(T)
    BY <1>1, ScansAre
  <2>2. x \in ToSet(rows) => (x \in T <=> table_compare_int(Users[x].age, c, age))
    BY <1>7
  <2> QED BY <1>6, <2>1, <2>2, Zenon
<1>11. ASSUME NEW c, NEW d,
              \A x \in 1 .. MaxId : table_compare_int(Users[x].age, c, age)
                                    <=> ~table_compare_int(Users[x].age, d, age)
       PROVE  LET below == ToSet(table_find_by_age_condition(c, age))
                  above == ToSet(table_find_by_age_condition(d, age))
              IN  below \union above = ToSet(table_collect_all) /\ below \intersect above = {}
  <2> PICK below : below = ToSet(table_find_by_age_condition(c, age))
    OBVIOUS
  <2> PICK above : above = ToSet(table_find_by_age_condition(d, age))
    OBVIOUS
  <2>1. \A x : x \in below <=> x \in ToSet(rows) /\ table_compare_int(Users[x].age, c, age)
    BY <1>10
  <2>2. \A x : x \in above <=> x \in ToSet(rows) /\ table_compare_int(Users[x].age, d, age)
    BY <1>10
  <2>3. below \union above = ToSet(rows) /\ below \intersect above = {}
    BY <1>7, <1>11, <2>1, <2>2
  <2> QED BY <2>3 DEF table_collect_all
<1>12. \A x \in 1 .. MaxId :
         /\ table_compare_int(Users[x].age, "LT", age) <=> ~table_compare_int(Users[x].age, "GE", age)
         /\ table_compare_int(Users[x].age, "LE", age) <=> ~table_compare_int(Users[x].age, "GT", age)
  BY <1>3, <1>4, ComparesAre
<1>13. \A c \in {<<"LT", "GE">>, <<"LE", "GT">>} :
         LET below == ToSet(table_find_by_age_condition(c[1], age))
             above == ToSet(table_find_by_age_condition(c[2], age))
         IN  below \union above = ToSet(table_collect_all) /\ below \intersect above = {}
  <2> SUFFICES ASSUME NEW c \in {<<"LT", "GE">>, <<"LE", "GT">>}
               PROVE  LET below == ToSet(table_find_by_age_condition(c[1], age))
                          above == ToSet(table_find_by_age_condition(c[2], age))
                      IN  below \union above = ToSet(table_collect_all) /\ below \intersect above = {}
    OBVIOUS
  <2> PICK p : p = c[1]
    OBVIOUS
  <2> PICK q : q = c[2]
    OBVIOUS
  <2>1. (p = "LT" /\ q = "GE") \/ (p = "LE" /\ q = "GT")
    OBVIOUS
  <2>2. \A x \in 1 .. MaxId : table_compare_int(Users[x].age, p, age)
                             <=> ~table_compare_int(Users[x].age, q, age)
    BY <1>12, <2>1
  <2>3. LET below == ToSet(table_find_by_age_condition(p, age))
            above == ToSet(table_find_by_age_condition(q, age))
        IN  below \union above = ToSet(table_collect_all) /\ below \intersect above = {}
    BY <1>11, <2>2
  <2> QED BY <2>3, Zenon
<1> QED BY <1>8, <1>9, <1>13, Zenon

-----------------------------------------------------------------------------
(* The tree and the rows.                                                  *)

(* The tree has exactly the records of the rows, and no node is cut off.   *)
Mirrors(I) == I = ToSet(rows) /\ P!Holding({<<i, i>> : i \in I}) /\ P!Idle /\ P!DestroyFreesAll

LEMMA TreeMirrors ==
  ASSUME TableInv, Idle, NoLostSplit
  PROVE  \E I : I \subseteq Int /\ Mirrors(I)
<1>1. ~Inserting /\ live /\ rows \in Seq(1 .. MaxId) /\ returned # 2
  BY DEF Idle, TableInv, RowsInv
<1> PICK I : I = ToSet(rows)
  OBVIOUS
<1>2. Held = I
  BY <1>1 DEF Held
<1>3. PICK S : P!Holding(S) /\ S = {<<r, r>> : r \in Held}
  BY <1>1 DEF TableInv
<1>4. P!Idle
  BY <1>1, <1>3, TreeTyped
<1>5. I \subseteq Int
  BY <1>1, ToSetType, BoundAssumption
<1>6. P!DestroyFreesAll
  BY SameDestroy DEF NoLostSplit
<1>7. S = {<<i, i>> : i \in I}
  BY <1>2, <1>3
<1>8. P!Holding({<<i, i>> : i \in I})
  BY <1>3, <1>7, Zenon
<1> QED BY <1>4, <1>5, <1>6, <1>8 DEF Mirrors

LEMMA FoundById ==
  ASSUME NEW I, I \subseteq Int, Mirrors(I), NEW id \in Int
  PROVE  table_find_by_id(id) = IF id \in I THEN id ELSE Nothing
<1>1. P!bptree_search(id) = IF id \in I THEN id ELSE Nothing
  <2>1. P!Holding({<<i, i>> : i \in I}) /\ P!Idle /\ P!DestroyFreesAll
    BY DEF Mirrors
  <2> QED BY <2>1, TreeAssumed, P!SearchHeld DEF TreeAssumptions
<1> QED BY <1>1, SameSearch DEF table_find_by_id

LEMMA LeavesRead ==
  ASSUME NEW I, I \subseteq Int, Mirrors(I)
  PROVE  LET all == KeysFrom(Tree!LeftmostLeaf)
         IN  /\ all \in Seq(Int) /\ InOrder(all)
             /\ ValuesFrom(Tree!LeftmostLeaf) = all
             /\ \A x : Contains(all, x) <=> x \in I
<1> PICK n : n = Tree!LeftmostLeaf /\ n = P!LeftmostLeaf
  BY SameLeftmost
<1>1. /\ P!KeysAfter(n) \in Seq(Int) /\ P!ValuesAfter(n) = P!KeysAfter(n)
      /\ P!Increasing(P!KeysAfter(n))
      /\ \A x : P!Contains(P!KeysAfter(n), x) <=> x \in I
  <2>1. P!Holding({<<i, i>> : i \in I}) /\ P!Idle /\ P!DestroyFreesAll
    BY DEF Mirrors
  <2> QED BY <2>1, TreeAssumed, P!ScanAll DEF TreeAssumptions
<1>2. P!KeysAfter(n) = KeysFrom(n) /\ P!ValuesAfter(n) = ValuesFrom(n)
  BY SameReads
<1>3. \A s : (P!Increasing(s) <=> InOrder(s)) /\ \A x : P!Contains(s, x) <=> Contains(s, x)
  BY DEF P!Increasing, InOrder, P!Contains, Contains
<1> QED BY <1>1, <1>2, <1>3

LEMMA LeafRead ==
  ASSUME NEW I, I \subseteq Int, Mirrors(I), NEW id \in Int
  PROVE  \E first, rest \in Seq(Int) :
           /\ first = IF table_find_id_leaf(id) = Tree!Null THEN <<>> ELSE node[table_find_id_leaf(id)].keys
           /\ KeysFrom(table_find_id_leaf(id)) = first \o rest
           /\ ValuesFrom(table_find_id_leaf(id)) = first \o rest
           /\ InOrder(first \o rest)
           /\ \A x : Contains(rest, x) => x > id
           /\ \A x : Contains(first \o rest, x) => x \in I
           /\ \A x \in I : x >= id => Contains(first \o rest, x)
<1> PICK n : n = table_find_id_leaf(id) /\ n = P!bptree_find_leaf(id)
  BY SameFind DEF table_find_id_leaf
<1>0. \E first, rest \in Seq(Int) :
           /\ first = IF P!bptree_find_leaf(id) = P!Null THEN <<>> ELSE node[P!bptree_find_leaf(id)].keys
           /\ P!KeysAfter(P!bptree_find_leaf(id)) = first \o rest
           /\ P!ValuesAfter(P!bptree_find_leaf(id)) = first \o rest
           /\ P!Increasing(first \o rest)
           /\ \A x : P!Contains(rest, x) => x > id
           /\ \A x : P!Contains(first \o rest, x) => x \in I
           /\ \A x \in I : x >= id => P!Contains(first \o rest, x)
  <2>1. P!Holding({<<i, i>> : i \in I}) /\ P!Idle /\ P!DestroyFreesAll
    BY DEF Mirrors
  <2> QED BY <2>1, TreeAssumed, P!ScanFrom DEF TreeAssumptions
<1>1. PICK first, rest \in Seq(Int) :
           /\ first = IF n = P!Null THEN <<>> ELSE node[n].keys
           /\ P!KeysAfter(n) = first \o rest
           /\ P!ValuesAfter(n) = first \o rest
           /\ P!Increasing(first \o rest)
           /\ \A x : P!Contains(rest, x) => x > id
           /\ \A x : P!Contains(first \o rest, x) => x \in I
           /\ \A x \in I : x >= id => P!Contains(first \o rest, x)
  BY <1>0, Zenon
<1>2. P!KeysAfter(n) = KeysFrom(n) /\ P!ValuesAfter(n) = ValuesFrom(n) /\ P!Null = Tree!Null
  BY SameReads, SameBase
<1>3. \A s : (P!Increasing(s) <=> InOrder(s)) /\ \A x : P!Contains(s, x) <=> Contains(s, x)
  BY DEF P!Increasing, InOrder, P!Contains, Contains
<1> QED BY <1>1, <1>2, <1>3

(* A scan of the leaves cut in two has the rows on either side of the cut. *)
LEMMA FrontOf ==
  ASSUME rows \in Seq(1 .. MaxId), InOrder(rows), NEW all \in Seq(Int), InOrder(all),
         NEW c, NEW T, Cut(all, c, T), \A x : Contains(all, x) /\ x \in T <=> x \in ToSet(rows) /\ x \in T
  PROVE  SubSeq(all, 1, c) = Picked(T)
<1> PICK t : t = SubSeq(all, 1, c)
  OBVIOUS
<1>1. /\ t \in Seq(Int) /\ InOrder(t)
      /\ \A x : Contains(t, x) <=> Contains(all, x) /\ x \in T
  BY FrontPicks
<1> QED BY <1>1, PickedFrom

(* What all has outside S are the rows with an id in T. *)
Sides(all, S, T) == \A x : Contains(all, x) /\ x \notin S <=> x \in ToSet(rows) /\ x \in T

LEMMA BackOf ==
  ASSUME rows \in Seq(1 .. MaxId), InOrder(rows), NEW all \in Seq(Int), InOrder(all),
         NEW c \in Nat, NEW S, Cut(all, c, S), NEW T,
         Sides(all, S, T)
  PROVE  SubSeq(all, c + 1, Len(all)) = Picked(T)
<1> PICK t : t = SubSeq(all, c + 1, Len(all))
  OBVIOUS
<1>1. /\ t \in Seq(Int) /\ InOrder(t)
      /\ \A x : Contains(t, x) <=> Contains(all, x) /\ x \notin S
  BY BackPicks
<1> QED BY <1>1, PickedFrom DEF Sides

(* EQ. *)
LEMMA EqualMatches ==
  ASSUME NEW I, I \subseteq Int, Mirrors(I), NEW id \in Int, rows \in Seq(1 .. MaxId), InOrder(rows)
  PROVE  /\ table_find_by_id(id) = table_scan_by_id(id)
         /\ table_find_by_id_condition("EQ", id) = RowsWith(LAMBDA r : table_compare_int(r, "EQ", id))
<1>1. I = ToSet(rows) /\ I \subseteq 1 .. MaxId /\ Nothing \notin I
  BY ToSetType, NothingAssumption DEF Mirrors
<1>2. table_find_by_id(id) = IF id \in I THEN id ELSE Nothing
  BY FoundById
<1> PICK T : T = {r \in 1 .. MaxId : r = id}
  OBVIOUS
<1>3. table_scan_by_id(id) = FirstOf(T)
  BY FirstsAre
<1>4. /\ Picked(T) \in Seq(Int) /\ InOrder(Picked(T))
      /\ \A x : Contains(Picked(T), x) <=> x \in ToSet(rows) /\ x \in T
  BY PickedIs
<1>5. T = {r \in 1 .. MaxId : table_compare_int(r, "EQ", id)}
  BY ComparesAre
<1>6. RowsWith(LAMBDA r : table_compare_int(r, "EQ", id)) = Picked(T)
  <2>1. RowsWith(LAMBDA r : table_compare_int(r, "EQ", id))
        = Picked({r \in 1 .. MaxId : table_compare_int(r, "EQ", id)})
    BY ScansAre
  <2> QED BY <1>5, <2>1, Zenon
<1>7. table_find_by_id_condition("EQ", id)
      = IF table_find_by_id(id) = Nothing THEN <<>> ELSE <<table_find_by_id(id)>>
  BY DEF table_find_by_id_condition
<1>8. \A i \in 1 .. Len(rows) : rows[i] \in I
  BY <1>1 DEF ToSet
<1>9. CASE id \in I
  <2>1. PICK k \in 1 .. Len(rows) : rows[k] = id
    BY <1>1, <1>9 DEF ToSet
  <2>2. rows[k] \in T
    BY <1>1, <1>9, <2>1
  <2>3. FirstOf(T) = Head(Picked(T))
    BY <2>2, HeadIs
  <2>4. <<id>> \in Seq(Int) /\ InOrder(<<id>>) /\ \A x : Contains(<<id>>, x) <=> x = id
    BY DEF InOrder, Contains
  <2>5. \A x : x = id <=> x \in ToSet(rows) /\ x \in T
    BY <1>1, <1>9
  <2>6. <<id>> = Picked(T)
    BY <2>4, <2>5, PickedFrom
  <2>7. Head(Picked(T)) = id
    BY <2>6
  <2> QED BY <1>1, <1>2, <1>3, <1>6, <1>7, <1>9, <2>3, <2>6, <2>7
<1>10. CASE id \notin I
  <2>1. {i \in 1 .. Len(rows) : rows[i] \in T} = {}
    BY <1>8, <1>10
  <2>2. FirstOf(T) = Nothing
    BY <2>1, Zenon DEF FirstOf, RowAt
  <2>3. <<>> \in Seq(Int) /\ InOrder(<<>>) /\ \A x : ~Contains(<<>>, x)
    BY DEF InOrder, Contains
  <2>4. \A x : ~(x \in ToSet(rows) /\ x \in T)
    BY <1>1, <1>10
  <2>5. <<>> = Picked(T)
    BY <2>3, <2>4, PickedFrom
  <2> QED BY <1>2, <1>3, <1>6, <1>7, <1>10, <2>2, <2>5
<1> QED BY <1>9, <1>10

(* LT and LE. *)
LEMMA BelowMatches ==
  ASSUME NEW I, I \subseteq Int, Mirrors(I), NEW id \in Int, rows \in Seq(1 .. MaxId), InOrder(rows),
         NEW c \in {"LT", "LE"}
  PROVE  table_find_by_id_condition(c, id) = RowsWith(LAMBDA r : table_compare_int(r, c, id))
<1>1. I = ToSet(rows) /\ I \subseteq 1 .. MaxId
  BY ToSetType DEF Mirrors
<1> PICK T : T = {k \in 1 .. MaxId : table_compare_int(k, c, id)}
  OBVIOUS
<1>2. RowsWith(LAMBDA r : table_compare_int(r, c, id)) = Picked(T)
  BY ScansAre
<1> PICK all : all = KeysFrom(Tree!LeftmostLeaf)
  OBVIOUS
<1>3. /\ all \in Seq(Int) /\ InOrder(all) /\ ValuesFrom(Tree!LeftmostLeaf) = all
      /\ \A x : Contains(all, x) <=> x \in I
  BY LeavesRead
<1> PICK n : n = Leading(all, T)
  OBVIOUS
<1>4. table_find_by_id_condition(c, id) = SubSeq(all, 1, n)
  BY <1>3 DEF table_find_by_id_condition
<1>5. \A k \in 1 .. MaxId : k \in T <=> (IF c = "LT" THEN k < id ELSE k <= id)
  BY ComparesAre
<1>6. \A i \in 1 .. Len(all) : all[i] \in 1 .. MaxId
  BY <1>1, <1>3 DEF Contains
<1>7. Lower(all, T)
  BY <1>5, <1>6, BoundAssumption DEF Lower
<1>8. Cut(all, n, T)
  BY <1>3, <1>7, LeadingBelow
<1>9. \A x : Contains(all, x) /\ x \in T <=> x \in ToSet(rows) /\ x \in T
  BY <1>1, <1>3
<1>10. SubSeq(all, 1, n) = Picked(T)
  BY <1>3, <1>8, <1>9, FrontOf
<1> QED BY <1>2, <1>4, <1>10

(* The ids below id, and those up to it. *)
Under(id) == {k \in 1 .. MaxId : k < id}
UpTo(id) == {k \in 1 .. MaxId : k <= id}

LEMMA UnderIs ==
  ASSUME NEW id \in Int
  PROVE  /\ \A x : x \in Under(id) => x \in Int /\ x < id
         /\ \A x : x \in UpTo(id) => x \in Int /\ x <= id
         /\ \A x \in 1 .. MaxId : (x \in Under(id) <=> x < id) /\ (x \in UpTo(id) <=> x <= id)
BY BoundAssumption DEF Under, UpTo

Ids(s) == \A i \in 1 .. Len(s) : s[i] \in 1 .. MaxId

LEMMA UnderLower ==
  ASSUME NEW s \in Seq(Int), Ids(s), NEW id \in Int
  PROVE  Lower(s, Under(id)) /\ Lower(s, UpTo(id))
<1>1. \A i \in 1 .. Len(s) : s[i] \in 1 .. MaxId /\ s[i] \in Int
  BY BoundAssumption DEF Ids
<1>2. \A x \in 1 .. MaxId : (x \in Under(id) <=> x < id) /\ (x \in UpTo(id) <=> x <= id)
  BY UnderIs
<1> QED BY <1>1, <1>2 DEF Lower

(* The keys below id are at the front of the first leaf. *)
LEMMA FirstCut ==
  ASSUME NEW first \in Seq(Int), NEW rest \in Seq(Int), NEW id \in Int,
         InOrder(first \o rest), Ids(first \o rest), \A x : Contains(rest, x) => x > id
  PROVE  /\ Leading(first, Under(id)) \in 0 .. Len(first)
         /\ Cut(first \o rest, Leading(first, Under(id)), Under(id))
<1> PICK all : all = first \o rest
  OBVIOUS
<1> PICK n \in Nat : n = Len(first)
  OBVIOUS
<1> PICK r \in Nat : r = Len(rest)
  OBVIOUS
<1>1. /\ all \in Seq(Int) /\ InOrder(all) /\ Ids(all) /\ Len(all) = n + r
      /\ \A i \in 1 .. n : all[i] = first[i]
      /\ \A i \in n + 1 .. n + r : all[i] = rest[i - n]
  OBVIOUS
<1>2. \A i \in n + 1 .. n + r : all[i] > id
  <2>1. \A i \in n + 1 .. n + r : i - n \in 1 .. r
    OBVIOUS
  <2>2. \A i \in n + 1 .. n + r : Contains(rest, all[i])
    BY <1>1, <2>1 DEF Contains
  <2> QED BY <2>2
<1>3. InOrder(first) /\ Ids(first)
  <2>1. \A i \in 1 .. n : i \in 1 .. n + r
    OBVIOUS
  <2>2. Ids(first)
    BY <1>1, <2>1 DEF Ids
  <2>3. InOrder(first)
    BY <1>1, <2>1 DEF InOrder
  <2> QED BY <2>2, <2>3
<1>4. Cut(first, Leading(first, Under(id)), Under(id))
  BY <1>3, UnderLower, LeadingBelow
<1> PICK c : c = Leading(first, Under(id))
  OBVIOUS
<1> PICK U : U = Under(id)
  OBVIOUS
<1>5. /\ c \in 0 .. n
      /\ \A j \in 1 .. c : first[j] \in U
      /\ \A j \in c + 1 .. n : first[j] \notin U
  BY <1>4 DEF Cut
<1>6. \A x : x \in U => x \in Int /\ x < id
  BY UnderIs
<1>7. \A j \in 1 .. c : all[j] \in U
  BY <1>1, <1>5
<1>8. ASSUME NEW j \in c + 1 .. n + r PROVE all[j] \notin U
  <2>1. CASE j <= n
    BY <1>1, <1>5, <2>1
  <2>2. CASE j > n
    <3>1. j \in n + 1 .. n + r
      BY <1>5, <2>2
    <3>2. all[j] > id
      BY <1>2, <3>1
    <3>3. ASSUME all[j] \in U PROVE FALSE
      <4>1. all[j] \in Int /\ all[j] < id
        BY <1>6, <3>3, Zenon
      <4>2. \A k \in Int : ~(k < id /\ k > id)
        OBVIOUS
      <4> QED BY <3>2, <4>1, <4>2, Zenon
    <3> QED BY <3>3
  <2> QED BY <1>5, <2>1, <2>2
<1>9. c \in 0 .. Len(all) /\ Len(all) = n + r
  BY <1>1, <1>5
<1>10. Cut(all, c, U)
  BY <1>7, <1>8, <1>9 DEF Cut
<1> QED BY <1>5, <1>10

(* Behind the keys below id, GT passes over those up to id. *)
LEMMA SecondCut ==
  ASSUME NEW all \in Seq(Int), InOrder(all), Ids(all), NEW id \in Int,
         NEW c \in Nat, Cut(all, c, Under(id)),
         NEW m, m = Leading(SubSeq(all, c + 1, Len(all)), UpTo(id))
  PROVE  m \in Nat /\ Cut(all, c + m, UpTo(id))
<1> PICK t : t = SubSeq(all, c + 1, Len(all))
  OBVIOUS
<1> PICK n \in Nat : n = Len(all)
  OBVIOUS
<1> PICK U : U = Under(id)
  OBVIOUS
<1> PICK V : V = UpTo(id)
  OBVIOUS
<1>1. c \in 0 .. n /\ \A j \in 1 .. c : all[j] \in U
  BY DEF Cut
<1>2. t \in Seq(Int) /\ InOrder(t)
  BY BackPicks
<1>3. Len(t) = n - c /\ \A i \in 1 .. n - c : t[i] = all[c + i]
  <2>1. c \in Nat /\ c <= n
    BY <1>1
  <2>2. /\ Len(t) = IF c <= Len(all) THEN Len(all) - c ELSE 0
        /\ \A i \in 1 .. Len(t) : t[i] = all[c + i]
    BY <2>1, BackIs
  <2> QED BY <2>1, <2>2
<1>4. Ids(t)
  <2>1. \A i \in 1 .. n - c : c + i \in 1 .. n
    BY <1>1
  <2> QED BY <1>3, <2>1 DEF Ids
<1>5. Cut(t, m, V)
  BY <1>2, <1>4, UnderLower, LeadingBelow
<1>6. /\ m \in 0 .. n - c
      /\ \A j \in 1 .. m : t[j] \in V
      /\ \A j \in m + 1 .. n - c : t[j] \notin V
  BY <1>3, <1>5 DEF Cut
<1>7. U \subseteq V
  <2>1. \A x : x < id /\ x \in Int => x <= id
    OBVIOUS
  <2> QED BY <2>1, BoundAssumption DEF Under, UpTo
<1>8. c + m \in 0 .. n
  BY <1>1, <1>6
<1>9. ASSUME NEW j \in 1 .. c + m PROVE all[j] \in V
  <2>1. CASE j <= c
    BY <1>1, <1>7, <2>1
  <2>2. CASE j > c
    <3>1. j - c \in 1 .. m /\ j - c \in 1 .. n - c /\ c + (j - c) = j
      BY <1>1, <1>6, <2>2
    <3> QED BY <1>3, <1>6, <3>1
  <2> QED BY <1>1, <1>6, <2>1, <2>2
<1>10. ASSUME NEW j \in (c + m) + 1 .. n PROVE all[j] \notin V
  <2>1. j - c \in m + 1 .. n - c /\ j - c \in 1 .. n - c /\ c + (j - c) = j
    BY <1>1, <1>6
  <2> QED BY <1>3, <1>6, <2>1
<1>11. Cut(all, c + m, V)
  BY <1>8, <1>9, <1>10 DEF Cut
<1> QED BY <1>6, <1>11

(* GT and GE. *)
LEMMA AboveMatches ==
  ASSUME NEW I, I \subseteq Int, Mirrors(I), NEW id \in Int, rows \in Seq(1 .. MaxId), InOrder(rows),
         NEW c \in {"GT", "GE"}
  PROVE  table_find_by_id_condition(c, id) = RowsWith(LAMBDA r : table_compare_int(r, c, id))
<1>1. I = ToSet(rows) /\ I \subseteq 1 .. MaxId
  BY ToSetType DEF Mirrors
<1>2. PICK T : T = {k \in 1 .. MaxId : table_compare_int(k, c, id)}
  OBVIOUS
<1>3. RowsWith(LAMBDA r : table_compare_int(r, c, id)) = Picked(T)
  BY <1>2, ScansAre
<1>4. \A k \in 1 .. MaxId : k \in T <=> (IF c = "GT" THEN k > id ELSE k >= id)
  BY <1>2, ComparesAre
<1>5. \E first, rest \in Seq(Int) :
           /\ first = IF table_find_id_leaf(id) = Tree!Null THEN <<>> ELSE node[table_find_id_leaf(id)].keys
           /\ KeysFrom(table_find_id_leaf(id)) = first \o rest
           /\ ValuesFrom(table_find_id_leaf(id)) = first \o rest
           /\ InOrder(first \o rest)
           /\ \A x : Contains(rest, x) => x > id
           /\ \A x : Contains(first \o rest, x) => x \in I
           /\ \A x \in I : x >= id => Contains(first \o rest, x)
  BY LeafRead
<1>6. PICK leaf : leaf = table_find_id_leaf(id)
  OBVIOUS
<1>7. PICK first, rest \in Seq(Int) :
           /\ first = IF leaf = Tree!Null THEN <<>> ELSE node[leaf].keys
           /\ KeysFrom(leaf) = first \o rest
           /\ ValuesFrom(leaf) = first \o rest
           /\ InOrder(first \o rest)
           /\ \A x : Contains(rest, x) => x > id
           /\ \A x : Contains(first \o rest, x) => x \in I
           /\ \A x \in I : x >= id => Contains(first \o rest, x)
  BY <1>5, <1>6, Zenon
<1>8. Ids(first \o rest)
  BY <1>1, <1>7 DEF Contains, Ids
<1>9. /\ Leading(first, Under(id)) \in 0 .. Len(first)
      /\ Cut(first \o rest, Leading(first, Under(id)), Under(id))
  BY <1>7, <1>8, FirstCut
<1>10. PICK all \in Seq(Int) : all = first \o rest
  <2>1. first \o rest \in Seq(Int)
    OBVIOUS
  <2> QED BY <2>1, Zenon
<1>11. KeysFrom(leaf) = all /\ ValuesFrom(leaf) = all
  BY <1>7, <1>10, Zenon
<1>12. InOrder(all) /\ Ids(all)
  BY <1>7, <1>8, <1>10, Zenon
<1>13. /\ \A x : Contains(all, x) => x \in I
       /\ \A x \in I : x >= id => Contains(all, x)
  BY <1>7, <1>10, Zenon
<1>14. PICK skip \in Nat : skip = Leading(first, Under(id)) /\ skip <= Len(first)
  BY <1>9
<1>15. Cut(all, skip, Under(id))
  BY <1>9, <1>10, <1>14
<1>16. (IF leaf = Tree!Null THEN 0 ELSE table_find_insert_index(node[leaf].keys, id)) = skip
  <2>1. leaf = Tree!Null => skip = 0
    BY <1>7, <1>14
  <2>2. leaf # Tree!Null => table_find_insert_index(node[leaf].keys, id) = skip
    BY <1>7, <1>14 DEF table_find_insert_index, Under
  <2> QED BY <2>1, <2>2
<1>17. table_find_by_id_condition(c, id)
       = LET sk    == IF leaf = Tree!Null THEN 0 ELSE table_find_insert_index(node[leaf].keys, id)
             re    == SubSeq(KeysFrom(leaf), sk + 1, Len(KeysFrom(leaf)))
             start == sk + IF c = "GE" THEN 0 ELSE Leading(re, {k \in 1 .. MaxId : k <= id})
         IN  SubSeq(ValuesFrom(leaf), start + 1, Len(ValuesFrom(leaf)))
  <2>1. c # "EQ"
    OBVIOUS
  <2> QED BY <1>6, <2>1 DEF table_find_by_id_condition
<1>18. PICK m : m = Leading(SubSeq(all, skip + 1, Len(all)), UpTo(id))
  OBVIOUS
<1>19. table_find_by_id_condition(c, id)
       = SubSeq(all, skip + (IF c = "GE" THEN 0 ELSE m) + 1, Len(all))
  BY <1>16, <1>17, <1>18, <1>11 DEF UpTo
<1>20. CASE c = "GE"
  <2>1. ASSUME NEW x PROVE Contains(all, x) /\ x \notin Under(id) <=> x \in ToSet(rows) /\ x \in T
    <3>1. x \in 1 .. MaxId => (x \in T <=> x >= id) /\ (x \in Under(id) <=> x < id)
      BY <1>4, <1>20, UnderIs
    <3>2. x \in 1 .. MaxId => (x >= id <=> ~(x < id))
      BY BoundAssumption
    <3> QED BY <1>1, <1>13, <3>1, <3>2
  <2>2. SubSeq(all, skip + 1, Len(all)) = Picked(T)
    <3>1. Sides(all, Under(id), T)
      BY <2>1 DEF Sides
    <3> QED BY <1>15, <1>12, <3>1, BackOf
  <2>3. skip + (IF c = "GE" THEN 0 ELSE m) + 1 = skip + 1
    BY <1>20
  <2> QED BY <1>3, <1>19, <2>2, <2>3
<1>21. CASE c = "GT"
  <2>1. m \in Nat /\ Cut(all, skip + m, UpTo(id))
    BY <1>15, <1>18, <1>12, SecondCut
  <2>2. ASSUME NEW x PROVE Contains(all, x) /\ x \notin UpTo(id) <=> x \in ToSet(rows) /\ x \in T
    <3>1. x \in 1 .. MaxId => (x \in T <=> x > id) /\ (x \in UpTo(id) <=> x <= id)
      BY <1>4, <1>21, UnderIs
    <3>2. x \in 1 .. MaxId => (x > id <=> ~(x <= id)) /\ (x > id => x >= id)
      BY BoundAssumption
    <3> QED BY <1>1, <1>13, <3>1, <3>2
  <2>3. SubSeq(all, (skip + m) + 1, Len(all)) = Picked(T)
    <3>1. Sides(all, UpTo(id), T)
      BY <2>2 DEF Sides
    <3>2. skip + m \in Nat
      BY <2>1
    <3> QED BY <1>12, <2>1, <3>1, <3>2, BackOf
  <2>4. skip + (IF c = "GE" THEN 0 ELSE m) + 1 = (skip + m) + 1
    BY <1>21, <2>1
  <2> QED BY <1>3, <1>19, <2>3, <2>4
<1> QED BY <1>20, <1>21

LEMMA TableIndex ==
  ASSUME TableInv
  PROVE  IndexMatchesScan
<1> SUFFICES ASSUME Idle, NoLostSplit, NEW id \in 0 .. MaxId + 1
             PROVE  /\ table_find_by_id(id) = table_scan_by_id(id)
                    /\ \A c \in Comparisons :
                         table_find_by_id_condition(c, id) = RowsWith(LAMBDA r : table_compare_int(r, c, id))
  BY DEF IndexMatchesScan
<1>1. rows \in Seq(1 .. MaxId) /\ InOrder(rows)
  BY DEF TableInv, RowsInv
<1>2. PICK I : I \subseteq Int /\ Mirrors(I)
  BY TreeMirrors
<1>3. id \in Int
  BY BoundAssumption
<1>4. /\ table_find_by_id(id) = table_scan_by_id(id)
      /\ table_find_by_id_condition("EQ", id) = RowsWith(LAMBDA r : table_compare_int(r, "EQ", id))
  BY <1>1, <1>2, <1>3, EqualMatches
<1>5. ASSUME NEW c \in Comparisons
      PROVE  table_find_by_id_condition(c, id) = RowsWith(LAMBDA r : table_compare_int(r, c, id))
  <2>1. CASE c = "EQ"
    BY <1>4, <2>1
  <2>2. CASE c \in {"LT", "LE"}
    BY <1>1, <1>2, <1>3, <2>2, BelowMatches
  <2>3. CASE c \in {"GT", "GE"}
    BY <1>1, <1>2, <1>3, <2>3, AboveMatches
  <2> QED BY <2>1, <2>2, <2>3 DEF Comparisons
<1> QED BY <1>4, <1>5

(* The same question has one answer: WHERE id OP n through the tree is     *)
(* what a scan of the rows gives, for every id and comparison, as long as  *)
(* no failed allocation has cut off a node; and the scans agree.           *)
THEOREM QueriesAnswered == Spec => []QueriesAgree
<1>1. TableInv => QueriesAgree
  BY TableIndex, TableScans DEF QueriesAgree
<1> QED BY <1>1, TableInvariance, PTL

-----------------------------------------------------------------------------
(* The result of a query, record by record.                                *)

Empty == [ok |-> TRUE, records |-> <<>>, capacity |-> 0]

(* result is after[i] of Answer(found, memory), for the i up to n. *)
Collects(after, found, memory, n) ==
  after = [i \in 0 .. n |->
             IF i = 0 THEN Empty
             ELSE IF after[i - 1].ok THEN table_append_record(after[i - 1], found[i], memory)
             ELSE after[i - 1]]

LEMMA CollectsExists ==
  ASSUME NEW found, NEW memory, NEW n \in Nat
  PROVE  \E f : Collects(f, found, memory, n)
<1> DEFINE T == {m \in Nat : ~\E f : Collects(f, found, memory, m)}
           More(r, x) == IF r.ok THEN table_append_record(r, x, memory) ELSE r
<1> SUFFICES ASSUME T # {} PROVE FALSE
  OBVIOUS
<1>1. T \subseteq Nat
  OBVIOUS
<1>2. \A f, m : Collects(f, found, memory, m)
                <=> f = [i \in 0 .. m |-> IF i = 0 THEN Empty ELSE More(f[i - 1], found[i])]
  BY Zenon DEF Collects
<1> HIDE DEF T, More
<1>3. PICK m \in T : \A y \in T : m <= y
  BY <1>1, TreeAssumed, P!LeastNumber DEF TreeAssumptions
<1>4. m \in Nat /\ ~\E f : Collects(f, found, memory, m)
  BY <1>3 DEF T
<1>5. CASE m = 0
  <2>1. PICK f : f = [i \in 0 .. 0 |-> Empty]
    OBVIOUS
  <2>2. f = [i \in 0 .. 0 |-> IF i = 0 THEN Empty ELSE More(f[i - 1], found[i])]
    BY <2>1
  <2> QED BY <1>2, <1>4, <1>5, <2>2
<1>6. CASE m # 0
  <2>1. PICK k \in Nat : m = k + 1 /\ ~(m <= k)
    <3>1. m - 1 \in Nat /\ m = (m - 1) + 1 /\ ~(m <= m - 1)
      BY <1>4, <1>6
    <3> QED BY <3>1
  <2>2. k \notin T
    BY <1>3, <2>1
  <2>3. PICK f : Collects(f, found, memory, k)
    BY <2>2 DEF T
  <2>4. \A i \in 0 .. k : f[i] = IF i = 0 THEN Empty ELSE More(f[i - 1], found[i])
    <3>1. f = [i \in 0 .. k |-> IF i = 0 THEN Empty ELSE More(f[i - 1], found[i])]
      BY <1>2, <2>3
    <3> QED BY <3>1
  <2>5. PICK g : g = [i \in 0 .. m |-> IF i \in 0 .. k THEN f[i] ELSE More(f[i - 1], found[i])]
    OBVIOUS
  <2>6. ASSUME NEW i \in 0 .. m PROVE g[i] = IF i = 0 THEN Empty ELSE More(g[i - 1], found[i])
    <3>1. i # 0 => i - 1 \in 0 .. k /\ i - 1 \in 0 .. m
      BY <2>1
    <3>2. i # 0 => g[i - 1] = f[i - 1]
      BY <2>5, <3>1
    <3>3. i = 0 => i \in 0 .. k
      BY <2>1
    <3>4. g[i] = IF i = 0 THEN Empty ELSE More(f[i - 1], found[i])
      BY <2>4, <2>5, <3>3
    <3> QED BY <3>2, <3>4
  <2>7. g = [i \in 0 .. m |-> g[i]]
    BY <2>5
  <2>8. g = [i \in 0 .. m |-> IF i = 0 THEN Empty ELSE More(g[i - 1], found[i])]
    BY <2>6, <2>7
  <2> QED BY <1>2, <1>4, <2>8
<1> QED BY <1>5, <1>6

LEMMA AnswerIs ==
  ASSUME NEW found, Len(found) \in Nat, NEW memory
  PROVE  \E after : Collects(after, found, memory, Len(found)) /\ Answer(found, memory) = after[Len(found)]
<1>1. PICK f : f = CHOOSE g : Collects(g, found, memory, Len(found))
  OBVIOUS
<1>2. Collects(f, found, memory, Len(found))
  BY <1>1, CollectsExists
<1>3. Answer(found, memory) = f[Len(found)]
  BY <1>1, Zenon DEF Answer, Collects, Empty
<1> QED BY <1>2, <1>3

(* After i records the result has them, or memory has run out below i. *)
Collected(r, found, memory, i) ==
  /\ r = [ok |-> r.ok, records |-> r.records, capacity |-> r.capacity]
  /\ r.capacity \in Nat /\ r.capacity <= memory
  /\ r.capacity \in {0, FirstCapacity, 2 * FirstCapacity}
  /\ \/ r.ok = TRUE /\ r.records = SubSeq(found, 1, i) /\ i <= r.capacity
     \/ r.ok = FALSE /\ r.records = <<>> /\ i > memory

LEMMA AppendCollects ==
  ASSUME NEW X, NEW found \in Seq(X), NEW memory \in {0, FirstCapacity, 2 * FirstCapacity},
         NEW i \in Nat, i + 1 <= Len(found), NEW r, Collected(r, found, memory, i)
  PROVE  Collected(IF r.ok THEN table_append_record(r, found[i + 1], memory) ELSE r, found, memory, i + 1)
<1>0. FirstCapacity \in Nat \ {0} /\ memory \in Nat
  BY FirstCapacityAssumption
<1>1. /\ r.capacity \in Nat /\ r.capacity <= memory
      /\ r.capacity \in {0, FirstCapacity, 2 * FirstCapacity}
      /\ r = [ok |-> r.ok, records |-> r.records, capacity |-> r.capacity]
  BY DEF Collected
<1>2. CASE r.ok = FALSE /\ r.records = <<>> /\ i > memory
  <2>1. i + 1 > memory
    BY <1>0, <1>2
  <2> QED BY <1>1, <1>2, <2>1 DEF Collected
<1>3. CASE r.ok = TRUE /\ r.records = SubSeq(found, 1, i) /\ i <= r.capacity
  <2>1. Len(r.records) = i /\ Append(r.records, found[i + 1]) = SubSeq(found, 1, i + 1)
    <3>1. i \in 0 .. Len(found) /\ i + 1 \in 1 .. Len(found)
      OBVIOUS
    <3>2. SubSeq(found, 1, i) \in Seq(X) /\ Len(SubSeq(found, 1, i)) = i
          /\ \A j \in 1 .. i : SubSeq(found, 1, i)[j] = found[j]
      BY <3>1, FrontIs
    <3>3. SubSeq(found, 1, i + 1) \in Seq(X) /\ Len(SubSeq(found, 1, i + 1)) = i + 1
          /\ \A j \in 1 .. i + 1 : SubSeq(found, 1, i + 1)[j] = found[j]
      BY <3>1, FrontIs
    <3>4. \A s, t \in Seq(X) : Len(s) = i /\ Len(t) = i + 1 /\ (\A j \in 1 .. i : s[j] = t[j])
            => Append(s, t[i + 1]) = t
      OBVIOUS
    <3>5. \A j \in 1 .. i : j \in 1 .. i + 1
      OBVIOUS
    <3>6. SubSeq(found, 1, i + 1)[i + 1] = found[i + 1]
      BY <3>1, <3>3
    <3> QED BY <1>3, <3>2, <3>3, <3>4, <3>5, <3>6
  <2> PICK grown : grown = IF r.capacity = 0 THEN FirstCapacity ELSE r.capacity * 2
    OBVIOUS
  <2>2. table_append_record(r, found[i + 1], memory)
        = IF Len(r.records) < r.capacity THEN [r EXCEPT !.records = Append(@, found[i + 1])]
          ELSE IF grown <= memory THEN [r EXCEPT !.records = Append(@, found[i + 1]), !.capacity = grown]
          ELSE [ok |-> FALSE, records |-> <<>>, capacity |-> 0]
    BY DEF table_append_record
  <2> PICK s : s = SubSeq(found, 1, i + 1)
    OBVIOUS
  <2>3. CASE i < r.capacity
    <3>1. table_append_record(r, found[i + 1], memory) = [ok |-> TRUE, records |-> s, capacity |-> r.capacity]
      BY <1>1, <1>3, <2>1, <2>2, <2>3
    <3>2. i + 1 <= r.capacity
      BY <1>1, <2>3
    <3> QED BY <1>1, <1>3, <3>1, <3>2 DEF Collected
  <2>4. CASE ~(i < r.capacity) /\ grown <= memory
    <3>1. table_append_record(r, found[i + 1], memory) = [ok |-> TRUE, records |-> s, capacity |-> grown]
      BY <1>1, <1>3, <2>1, <2>2, <2>4
    <3>2. i + 1 <= grown /\ grown \in Nat /\ grown \in {0, FirstCapacity, 2 * FirstCapacity}
      <4>1. i = r.capacity
        BY <1>1, <1>3, <2>4
      <4>2. CASE r.capacity = 0
        BY <1>0, <4>1, <4>2
      <4>3. CASE r.capacity = FirstCapacity
        BY <1>0, <4>1, <4>3
      <4>4. CASE r.capacity = 2 * FirstCapacity
        BY <1>0, <2>4, <4>1, <4>4
      <4> QED BY <1>1, <4>2, <4>3, <4>4
    <3> QED BY <1>3, <2>4, <3>1, <3>2 DEF Collected
  <2>5. CASE ~(i < r.capacity) /\ ~(grown <= memory)
    <3>1. table_append_record(r, found[i + 1], memory) = [ok |-> FALSE, records |-> <<>>, capacity |-> 0]
      BY <1>1, <1>3, <2>1, <2>2, <2>5
    <3>2. i + 1 > memory
      <4>1. i = r.capacity
        BY <1>1, <1>3, <2>5
      <4>2. CASE r.capacity = 0
        BY <1>0, <2>5, <4>1, <4>2
      <4>3. CASE r.capacity = FirstCapacity
        BY <1>0, <2>5, <4>1, <4>3
      <4>4. CASE r.capacity = 2 * FirstCapacity
        BY <1>0, <1>1, <4>1, <4>4
      <4> QED BY <1>1, <4>2, <4>3, <4>4
    <3> QED BY <1>0, <1>3, <3>1, <3>2 DEF Collected
  <2> QED BY <2>3, <2>4, <2>5, <1>3
<1> QED BY <1>2, <1>3 DEF Collected

(* A query hands over all it has found, or nothing. *)
LEMMA AnswersWhole ==
  ASSUME NEW X, NEW found \in Seq(X), NEW memory \in {0, FirstCapacity, 2 * FirstCapacity}
  PROVE  LET answer == Answer(found, memory)
         IN  /\ Len(answer.records) <= answer.capacity
             /\ answer.records = IF answer.ok THEN found ELSE <<>>
             /\ ~answer.ok => Len(found) > memory
<1> PICK n \in Nat : n = Len(found)
  OBVIOUS
<1>1. PICK after : Collects(after, found, memory, n) /\ Answer(found, memory) = after[n]
  BY AnswerIs
<1> DEFINE Good(i) == Collected(after[i], found, memory, i)
           T == {i \in 0 .. n : ~Good(i)}
<1>2. after[0] = Empty
  <2>1. 0 \in 0 .. n
    OBVIOUS
  <2> QED BY <1>1, <2>1, Zenon DEF Collects
<1>3. ASSUME NEW i \in Nat, i + 1 <= n
      PROVE  after[i + 1] = IF after[i].ok THEN table_append_record(after[i], found[i + 1], memory) ELSE after[i]
  <2>1. PICK k \in 0 .. n : k = i + 1 /\ k # 0 /\ k - 1 = i
    BY <1>3
  <2>2. after[k] = IF k = 0 THEN Empty
                   ELSE IF after[k - 1].ok THEN table_append_record(after[k - 1], found[k], memory)
                   ELSE after[k - 1]
    BY <1>1, Zenon DEF Collects
  <2> QED BY <2>1, <2>2
<1>4. Good(0)
  <2>1. SubSeq(found, 1, 0) = <<>> /\ memory \in Nat /\ 0 <= memory
    BY FirstCapacityAssumption
  <2> QED BY <1>2, <2>1 DEF Empty, Collected
<1>5. ASSUME NEW i \in Nat, i + 1 <= n, Good(i)
      PROVE  Good(i + 1)
  BY <1>3, <1>5, AppendCollects
<1> HIDE DEF Good
<1>6. T = {}
  <2> SUFFICES ASSUME T # {} PROVE FALSE
    OBVIOUS
  <2>1. T \subseteq Nat
    OBVIOUS
  <2> HIDE DEF T
  <2>2. PICK m \in T : \A y \in T : m <= y
    BY <2>1, TreeAssumed, P!LeastNumber DEF TreeAssumptions
  <2>3. m \in 0 .. n /\ ~Good(m)
    BY <2>2 DEF T
  <2>4. m # 0
    BY <1>4, <2>3
  <2>5. PICK k \in Nat : m = k + 1 /\ k \in 0 .. n /\ ~(m <= k) /\ k + 1 <= n
    <3>1. m - 1 \in Nat /\ m = (m - 1) + 1 /\ m - 1 \in 0 .. n /\ ~(m <= m - 1) /\ (m - 1) + 1 <= n
      BY <2>3, <2>4
    <3> QED BY <3>1
  <2>6. Good(k)
    BY <2>2, <2>5 DEF T
  <2> QED BY <1>5, <2>3, <2>5, <2>6
<1>7. Good(n)
  BY <1>6
<1> PICK r : r = after[n]
  OBVIOUS
<1>8. Collected(r, found, memory, n)
  BY <1>7 DEF Good
<1>9. SubSeq(found, 1, n) = found
  OBVIOUS
<1>10. CASE r.ok = TRUE /\ r.records = SubSeq(found, 1, n) /\ n <= r.capacity
  BY <1>1, <1>9, <1>10
<1>11. CASE r.ok = FALSE /\ r.records = <<>> /\ n > memory
  <2>1. Len(r.records) = 0 /\ r.capacity \in Nat
    BY <1>8, <1>11 DEF Collected
  <2> QED BY <1>1, <1>11, <2>1
<1> QED BY <1>8, <1>10, <1>11 DEF Collected

(* What a query finds is a sequence, also in a tree that has lost a node. *)
LEMMA FoundTyped ==
  ASSUME TableInv, NEW c \in Comparisons, NEW id \in Int
  PROVE  \E X : table_find_by_id_condition(c, id) \in Seq(X)
<1>1. PICK S : P!Holding(S)
  BY DEF TableInv
<1>2. ASSUME NEW n, n = Tree!LeftmostLeaf \/ n = table_find_id_leaf(id)
      PROVE  KeysFrom(n) \in Seq(Int) /\ ValuesFrom(n) \in Seq(1 .. MaxId) /\ Len(ValuesFrom(n)) = Len(KeysFrom(n))
             /\ (n = Tree!Null \/ node[n].keys \in Seq(Int))
  <2>1. n = P!LeftmostLeaf \/ n = P!bptree_find_leaf(id)
    BY <1>2, SameLeftmost, SameFind DEF table_find_id_leaf
  <2>2. /\ P!KeysAfter(n) \in Seq(Int) /\ P!ValuesAfter(n) \in Seq(1 .. MaxId)
        /\ Len(P!ValuesAfter(n)) = Len(P!KeysAfter(n))
        /\ n = P!Null \/ node[n].keys \in Seq(Int)
    BY <1>1, <2>1, TreeAssumed, P!ScansTyped DEF TreeAssumptions
  <2> QED BY <2>2, SameReads, SameBase
<1>3. CASE c = "EQ"
  <2>1. PICK v : v = table_find_by_id(id)
    OBVIOUS
  <2>2. table_find_by_id_condition(c, id) = IF v = Nothing THEN <<>> ELSE <<v>>
    BY <1>3, <2>1 DEF table_find_by_id_condition
  <2>3. <<v>> \in Seq({v}) /\ <<>> \in Seq({v})
    OBVIOUS
  <2> QED BY <2>2, <2>3
<1>4. CASE c \in {"GT", "GE"}
  <2>1. PICK leaf : leaf = table_find_id_leaf(id)
    OBVIOUS
  <2>2. PICK skip : skip = IF leaf = Tree!Null THEN 0 ELSE table_find_insert_index(node[leaf].keys, id)
    OBVIOUS
  <2>3. PICK behind : behind = SubSeq(KeysFrom(leaf), skip + 1, Len(KeysFrom(leaf)))
    OBVIOUS
  <2>4. PICK start : start = skip + IF c = "GE" THEN 0 ELSE Leading(behind, {k \in 1 .. MaxId : k <= id})
    OBVIOUS
  <2>5. table_find_by_id_condition(c, id) = SubSeq(ValuesFrom(leaf), start + 1, Len(ValuesFrom(leaf)))
    <3>1. c # "EQ"
      BY <1>4
    <3> QED BY <1>4, <2>1, <2>2, <2>3, <2>4, <3>1 DEF table_find_by_id_condition
  <2>6. KeysFrom(leaf) \in Seq(Int) /\ ValuesFrom(leaf) \in Seq(1 .. MaxId)
        /\ (leaf = Tree!Null \/ node[leaf].keys \in Seq(Int))
    BY <1>2, <2>1
  <2>7. skip \in Nat
    <3>1. CASE leaf = Tree!Null
      BY <2>2, <3>1
    <3>2. CASE leaf # Tree!Null
      <4>1. PICK keys \in Seq(Int) : keys = node[leaf].keys
        BY <2>6, <3>2
      <4>2. Len(keys) \in Nat
        OBVIOUS
      <4>3. table_find_insert_index(keys, id) \in 0 .. Len(keys)
        BY <4>2, LeadingIs DEF table_find_insert_index
      <4> QED BY <2>2, <3>2, <4>1, <4>2, <4>3
    <3> QED BY <3>1, <3>2
  <2>8. Len(behind) \in Nat
    <3>1. behind \in Seq(Int)
      BY <2>3, <2>6, <2>7, BackIs
    <3> QED BY <3>1
  <2>9. Leading(behind, {k \in 1 .. MaxId : k <= id}) \in 0 .. Len(behind)
    BY <2>8, LeadingIs
  <2>10. start \in Nat
    BY <2>4, <2>7, <2>8, <2>9
  <2>11. SubSeq(ValuesFrom(leaf), start + 1, Len(ValuesFrom(leaf))) \in Seq(1 .. MaxId)
    BY <2>6, <2>10, BackIs
  <2> QED BY <2>5, <2>11
<1>5. CASE c \in {"LT", "LE"}
  <2>1. PICK n : n = Tree!LeftmostLeaf
    OBVIOUS
  <2>2. KeysFrom(n) \in Seq(Int) /\ ValuesFrom(n) \in Seq(1 .. MaxId) /\ Len(ValuesFrom(n)) = Len(KeysFrom(n))
    BY <1>2, <2>1
  <2>3. PICK m : m = Leading(KeysFrom(n), {k \in 1 .. MaxId : table_compare_int(k, c, id)})
    OBVIOUS
  <2>4. table_find_by_id_condition(c, id) = SubSeq(ValuesFrom(n), 1, m)
    <3>1. c # "EQ" /\ c \notin {"GT", "GE"}
      BY <1>5
    <3> QED BY <2>1, <2>3, <3>1 DEF table_find_by_id_condition
  <2>5. m \in 0 .. Len(ValuesFrom(n))
    <3>1. Len(KeysFrom(n)) \in Nat
      BY <2>2
    <3>2. m \in 0 .. Len(KeysFrom(n))
      BY <2>3, <3>1, LeadingIs
    <3> QED BY <2>2, <3>2
  <2>6. SubSeq(ValuesFrom(n), 1, m) \in Seq(1 .. MaxId)
    BY <2>2, <2>5, FrontIs
  <2> QED BY <2>4, <2>6
<1> QED BY <1>3, <1>4, <1>5 DEF Comparisons

(* At whatever growth of its result a query runs out of memory, it answers *)
(* with all the rows it has found, in their order, or fails with none; and *)
(* it fails only when the rows are more than the memory holds.             *)
THEOREM QueriesWhole == Spec => []AllOrNothing
<1>1. TableInv => AllOrNothing
  <2> SUFFICES ASSUME TableInv,
                      NEW found \in {table_find_by_id_condition(c, id) : c \in Comparisons, id \in 1 .. MaxId}
                        \union {table_find_by_age_condition(c, Users[id].age) : c \in Comparisons, id \in 1 .. MaxId},
                      NEW memory \in {0, FirstCapacity, 2 * FirstCapacity}
               PROVE  LET answer == Answer(found, memory)
                      IN  /\ Len(answer.records) <= answer.capacity
                          /\ answer.records = IF answer.ok THEN found ELSE <<>>
                          /\ ~answer.ok => Len(found) > memory
    BY DEF AllOrNothing
  <2>1. rows \in Seq(1 .. MaxId) /\ InOrder(rows)
    BY DEF TableInv, RowsInv
  <2>2. CASE found \in {table_find_by_id_condition(c, id) : c \in Comparisons, id \in 1 .. MaxId}
    <3>1. PICK c \in Comparisons, id \in 1 .. MaxId : found = table_find_by_id_condition(c, id)
      BY <2>2
    <3>2. id \in Int
      BY BoundAssumption
    <3>3. PICK X : found \in Seq(X)
      BY <3>1, <3>2, FoundTyped
    <3> QED BY <3>3, AnswersWhole
  <2>3. CASE found \in {table_find_by_age_condition(c, Users[id].age) : c \in Comparisons, id \in 1 .. MaxId}
    <3>1. PICK c \in Comparisons, id \in 1 .. MaxId : found = table_find_by_age_condition(c, Users[id].age)
      BY <2>3
    <3>2. PICK T : found = Picked(T)
      <4>1. table_find_by_age_condition(c, Users[id].age)
            = Picked({r \in 1 .. MaxId : table_compare_int(Users[r].age, c, Users[id].age)})
        BY <2>1, ScansAre
      <4> QED BY <3>1, <4>1
    <3>3. found \in Seq(Int)
      BY <2>1, <3>2, PickedIs
    <3> QED BY <3>3, AnswersWhole
  <2> QED BY <2>2, <2>3
<1> QED BY <1>1, TableInvariance, PTL

=============================================================================
