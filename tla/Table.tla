------------------------------- MODULE Table -------------------------------
(***************************************************************************)
(* The users table of src/core/table.c: the array rows of record pointers, *)
(* in the order of insertion, and the B+ tree pk_index over the same       *)
(* records.  SELECT ... WHERE id uses only the tree, every other SELECT    *)
(* only the array.                                                         *)
(*                                                                         *)
(* A record is written as its id: table_insert gives every record an id of *)
(* its own, and nothing changes its name and age afterwards (Users).       *)
(* Callers take turns (DBServer shows why they do), so an insert runs to   *)
(* its end before anything else happens.                                   *)
(***************************************************************************)
EXTENDS Integers, Sequences, SequencesExt

CONSTANTS Order,            \* BPTREE_ORDER
          MaxId,            \* bound on the ids given out
          FirstCapacity,    \* the capacity of an array after its first growth
          Users,            \* Users[id]: the name and age inserted with id
          NameSize,         \* RECORD_NAME_SIZE
          Nothing,          \* NULL
          CallocFails,      \* the tree nodes calloc may refuse
          TableAllocFails   \* may the rows array and the records be refused?

ASSUME BoundAssumption == MaxId \in Nat
ASSUME FirstCapacityAssumption == FirstCapacity \in Nat \ {0}
ASSUME UsersAssumption ==
  /\ NameSize \in Nat \ {0}
  /\ DOMAIN Users = 1 .. MaxId
  /\ \A id \in 1 .. MaxId : Users[id].age \in Int
ASSUME NothingAssumption == Nothing \notin 1 .. MaxId
ASSUME TableAllocAssumption == TableAllocFails \in BOOLEAN

VARIABLES node, root, promotion, returned,  \* table->pk_index
          next_id,    \* table->next_id
          rows,       \* table->rows[0 .. size - 1]
          capacity,   \* table->capacity
          record,     \* the record table_insert is inserting, or Nothing
          live,       \* FALSE once table_destroy has run
          freed       \* the records that have been freed

treeVars == <<node, root, promotion, returned>>
vars == <<node, root, promotion, returned, next_id, rows, capacity, record, live, freed>>

Tree == INSTANCE BPTree WITH Keys <- 1 .. MaxId, Values <- 1 .. MaxId

ASSUME TreeAssumption ==
  /\ Order \in Nat /\ Order >= 3
  /\ CallocFails \subseteq Tree!NewNodes
  /\ Nothing \notin [left : Nat, key : Int, right : Nat]

Inserting == record # Nothing
Idle == live /\ ~Inserting

-----------------------------------------------------------------------------
(* table_create and table_insert.                                          *)

table_create ==
  /\ Tree!Init
  /\ next_id = 1
  /\ rows = <<>>
  /\ capacity = 0
  /\ record = Nothing
  /\ live = TRUE
  /\ freed = {}

(* Mutant of table_ensure_capacity: <= for <. *)
table_ensure_capacity_OffByOne ==
  capacity' = CASE capacity = 0 -> FirstCapacity
                [] Len(rows) <= capacity -> capacity
                [] OTHER -> capacity * 2

(* Room for one more row, by doubling. *)
table_ensure_capacity ==
  capacity' = CASE Len(rows) < capacity -> capacity
                [] capacity = 0 -> FirstCapacity
                [] OTHER -> capacity * 2

(* A new record with the next id goes to the tree. *)
InsertStart ==
  /\ Idle
  /\ next_id <= MaxId
  /\ table_ensure_capacity
  /\ record' = next_id
  /\ next_id' = next_id + 1
  /\ Tree!bptree_insert(record', record')
  /\ UNCHANGED <<rows, live, freed>>

(* No memory for the rows array, or, after it has grown, for the record. *)
InsertFails ==
  /\ Idle
  /\ next_id <= MaxId
  /\ TableAllocFails
  /\ UNCHANGED capacity \/ table_ensure_capacity
  /\ UNCHANGED <<treeVars, next_id, rows, record, live, freed>>

(* The tree passes its splits upwards. *)
InsertPromotes ==
  /\ Inserting
  /\ Tree!bptree_insert_into_parent
  /\ UNCHANGED <<next_id, rows, capacity, record, live, freed>>

(* Mutant of InsertEnds: the record of a failed insert is not freed. *)
InsertEnds_NeverFrees ==
  /\ Inserting
  /\ returned # 2
  /\ rows' = IF returned = 1 THEN Append(rows, record) ELSE rows
  /\ record' = Nothing
  /\ UNCHANGED <<treeVars, next_id, capacity, live, freed>>

(* bptree_insert has returned: the row counts, or its record is freed. *)
InsertEnds ==
  /\ Inserting
  /\ returned # 2
  /\ IF returned = 1
       THEN rows' = Append(rows, record) /\ UNCHANGED freed
       ELSE freed' = freed \union {record} /\ UNCHANGED rows
  /\ record' = Nothing
  /\ UNCHANGED <<treeVars, next_id, capacity, live>>

table_insert == InsertStart \/ InsertFails \/ InsertPromotes \/ InsertEnds

(* The records of the rows are freed, and the tree (BPTree has the way     *)
(* bptree_destroy takes through it).                                       *)
table_destroy ==
  /\ Idle
  /\ live' = FALSE
  /\ freed' = freed \union ToSet(rows)
  /\ rows' = <<>>
  /\ UNCHANGED <<treeVars, next_id, capacity, record>>

Init == table_create
Next == table_insert \/ table_destroy
Spec == Init /\ [][Next]_vars

-----------------------------------------------------------------------------
(* The queries.                                                            *)

Comparisons == {"EQ", "LT", "LE", "GT", "GE"}

table_compare_int(left, comparison, right) ==
  CASE comparison = "EQ" -> left = right
    [] comparison = "LT" -> left < right
    [] comparison = "LE" -> left <= right
    [] comparison = "GT" -> left > right
    [] comparison = "GE" -> left >= right

(* How many of the keys are in S before the first one that is not. *)
Leading(keys, S) ==
  CHOOSE i \in 0 .. Len(keys) :
    /\ \A j \in 1 .. i : keys[j] \in S
    /\ i < Len(keys) => keys[i + 1] \notin S

(* The position of the first key that is not smaller than key, from 0. *)
table_find_insert_index(keys, key) == Leading(keys, {k \in 1 .. MaxId : k < key})

(* The keys and the records in the leaves from n on. *)
KeysFrom(n) == Tree!Concat(Tree!Chain(n), LAMBDA m : node[m].keys)
ValuesFrom(n) == Tree!Concat(Tree!Chain(n), LAMBDA m : node[m].values)

(* Mutant of table_find_id_leaf: the leaf of the next id. *)
table_find_id_leaf_Next(id) == Tree!bptree_find_leaf(id + 1)

(* table_find_id_leaf is bptree_find_leaf written a second time. *)
table_find_id_leaf(id) == Tree!bptree_find_leaf(id)

table_find_by_id(id) == Tree!bptree_search(id)

(* What a scan that stops at row i returns; it is 0 where no row matches. *)
RowAt(i) == IF i = 0 THEN Nothing ELSE rows[i]

table_scan_by_id(id) == RowAt(SelectInSeq(rows, LAMBDA r : r = id))

(* EQ asks the tree.  GT and GE start in the leaf of id, behind the keys   *)
(* below it; GT then passes over the keys up to id, in this leaf or in the *)
(* next ones, and the rest of the leaves is collected without looking at   *)
(* the keys again.  LT and LE start at the leftmost leaf and stop at the   *)
(* first key that fails.                                                   *)
table_find_by_id_condition(comparison, id) ==
  CASE comparison = "EQ" ->
         IF table_find_by_id(id) = Nothing THEN <<>> ELSE <<table_find_by_id(id)>>
    [] comparison \in {"GT", "GE"} ->
         LET leaf  == table_find_id_leaf(id)
             skip  == IF leaf = Tree!Null THEN 0
                      ELSE table_find_insert_index(node[leaf].keys, id)
             rest  == SubSeq(KeysFrom(leaf), skip + 1, Len(KeysFrom(leaf)))
             start == skip + IF comparison = "GE" THEN 0
                             ELSE Leading(rest, {k \in 1 .. MaxId : k <= id})
         IN  SubSeq(ValuesFrom(leaf), start + 1, Len(ValuesFrom(leaf)))
    [] OTHER ->
         SubSeq(ValuesFrom(Tree!LeftmostLeaf), 1,
                Leading(KeysFrom(Tree!LeftmostLeaf),
                        {k \in 1 .. MaxId : table_compare_int(k, comparison, id)}))

(* The name a record has room for: strncpy cuts it. *)
StoredName(id) ==
  LET name == Users[id].name IN IF Len(name) < NameSize THEN name ELSE SubSeq(name, 1, NameSize - 1)

(* The rows that pass a test, in their order. *)
RowsWith(Test(_)) == Tree!Concat(rows, LAMBDA r : IF Test(r) THEN <<r>> ELSE <<>>)

(* The scans of the rows: all of them, the matching ones, the first match. *)
table_collect_all == rows
table_find_by_name_matches(name) == RowsWith(LAMBDA r : StoredName(r) = name)
table_find_by_age_condition(comparison, age) ==
  RowsWith(LAMBDA r : table_compare_int(Users[r].age, comparison, age))

table_find_by_name(name) == RowAt(SelectInSeq(rows, LAMBDA r : StoredName(r) = name))
table_find_by_age(age) == RowAt(SelectInSeq(rows, LAMBDA r : Users[r].age = age))

(* Mutant of table_append_record: a record too many is left out quietly. *)
table_append_record_Drops(result, r, memory) ==
  LET grown == IF result.capacity = 0 THEN FirstCapacity ELSE result.capacity * 2
  IN  IF Len(result.records) < result.capacity THEN [result EXCEPT !.records = Append(@, r)]
      ELSE IF grown <= memory THEN [result EXCEPT !.records = Append(@, r), !.capacity = grown]
      ELSE result

(* One record more in the result of a query.  When realloc refuses (memory *)
(* is the largest array it gives), the query frees its result and fails.   *)
table_append_record(result, r, memory) ==
  LET grown == IF result.capacity = 0 THEN FirstCapacity ELSE result.capacity * 2
  IN  IF Len(result.records) < result.capacity THEN [result EXCEPT !.records = Append(@, r)]
      ELSE IF grown <= memory THEN [result EXCEPT !.records = Append(@, r), !.capacity = grown]
      ELSE [ok |-> FALSE, records |-> <<>>, capacity |-> 0]

(* What a query that finds these records hands to its caller. *)
Answer(found, memory) ==
  LET after[i \in 0 .. Len(found)] ==
        IF i = 0 THEN [ok |-> TRUE, records |-> <<>>, capacity |-> 0]
        ELSE LET result == after[i - 1]
             IN  IF result.ok THEN table_append_record(result, found[i], memory) ELSE result
  IN  after[Len(found)]

-----------------------------------------------------------------------------

(* table_insert writes rows[size] before the tree has agreed: there is     *)
(* room for it, also where the array has just been filled.                 *)
RowsFit == Len(rows) <= capacity /\ (Inserting => Len(rows) < capacity)

(* The types of the variables, of the tree's too, and room in the rows.   *)
TypeOK ==
  /\ Tree!TypeOK
  /\ next_id \in 1 .. MaxId + 1
  /\ rows \in Seq(1 .. MaxId)
  /\ capacity \in Nat
  /\ record \in (1 .. MaxId) \union {Nothing}
  /\ live \in BOOLEAN
  /\ freed \subseteq 1 .. MaxId
  /\ RowsFit

(* Every split has reached the parent it was meant for: no node is cut off *)
(* from the root.                                                          *)
NoLostSplit == Tree!DestroyFreesAll

(* WHERE id OP n, answered by the tree alone, gives exactly the rows a     *)
(* scan of the array gives, in the same order, for ids that are present,   *)
(* lost by a failed insert, smaller than all and larger than all.  Failed  *)
(* allocations do no harm to this, but for the ones that cut off a node.   *)
IndexMatchesScan ==
  Idle /\ NoLostSplit =>
    \A id \in 0 .. MaxId + 1 :
      /\ table_find_by_id(id) = table_scan_by_id(id)
      /\ \A c \in Comparisons :
           table_find_by_id_condition(c, id) = RowsWith(LAMBDA r : table_compare_int(r, c, id))

(* A query answers with all its rows, in the order of the table, or fails  *)
(* with none, at whatever growth of its result memory runs out.            *)
AllOrNothing ==
  Idle =>
    \A found \in
         {table_find_by_id_condition(c, id) : c \in Comparisons, id \in 1 .. MaxId}
           \union {table_find_by_age_condition(c, Users[id].age) : c \in Comparisons, id \in 1 .. MaxId},
       memory \in {0, FirstCapacity, 2 * FirstCapacity} :
         LET answer == Answer(found, memory)
         IN  /\ Len(answer.records) <= answer.capacity
             /\ answer.records = IF answer.ok THEN found ELSE <<>>
             /\ ~answer.ok => Len(found) > memory

(* The scans agree with each other: a row is found by the name it was      *)
(* inserted with, if the name fits; the row found first heads the list of  *)
(* all matches; and a condition on age and its opposite divide the table.  *)
ScansAgree ==
  Idle =>
    /\ \A i \in DOMAIN rows :
         LET name == Users[rows[i]].name
             age  == Users[rows[i]].age
         IN  /\ Len(name) < NameSize =>
                  /\ rows[i] \in ToSet(table_find_by_name_matches(name))
                  /\ table_find_by_name(name) = Head(table_find_by_name_matches(name))
             /\ table_find_by_age(age) = Head(table_find_by_age_condition("EQ", age))
             /\ \A c \in {<<"LT", "GE">>, <<"LE", "GT">>} :
                  LET below == ToSet(table_find_by_age_condition(c[1], age))
                      above == ToSet(table_find_by_age_condition(c[2], age))
                  IN  below \union above = ToSet(table_collect_all) /\ below \intersect above = {}

(* The same question is answered in the same way by every function that    *)
(* can answer it.                                                          *)
QueriesAgree == IndexMatchesScan /\ ScansAgree

(* Every record table_insert has allocated is owned once, by the rows, or  *)
(* has been freed when its insert failed; table_destroy, which goes by the *)
(* rows, then frees the rest and nothing a second time.                    *)
OwnedOnce ==
  /\ ToSet(rows) \intersect freed = {}
  /\ ToSet(rows) \union freed = (1 .. next_id - 1) \ {record}

(* Design document: a record that was inserted stays as it is until        *)
(* shutdown, so no pointer in the tree leads to a record that was freed.   *)
NoDanglingIndex ==
  Idle => ToSet(ValuesFrom(Tree!LeftmostLeaf)) \intersect freed = {}

=============================================================================
