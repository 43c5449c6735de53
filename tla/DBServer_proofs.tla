--------------------------- MODULE DBServer_proofs ---------------------------
(***************************************************************************)
(* Proofs about the DB boundary, for every finite set of threads, every    *)
(* set of statements and every bound.                                      *)
(***************************************************************************)
EXTENDS DBServer, FiniteSetTheorems, TLAPS

-----------------------------------------------------------------------------
(* The two readings of a statement.                                        *)

(* The first word of a statement is one word. *)
LEMMA OneFirstWord ==
  ASSUME NEW s, NEW v, NEW w, sql_match_keyword(s, 1, v), sql_match_keyword(s, 1, w)
  PROVE  v = w
BY DEF sql_match_keyword

(* What the INSERT parser can answer. *)
LEMMA InsertOutcomes ==
  ASSUME NEW s
  PROVE  \/ sql_execute_insert(s) = NotMine /\ (s.lead \/ ~sql_match_keyword(s, 1, "insert"))
         \/ /\ sql_match_keyword(s, 1, "insert")
            /\ sql_execute_insert(s).path = "insert"
         \/ sql_match_keyword(s, 1, "insert") /\ sql_execute_insert(s) = SyntaxError
BY DEF sql_execute_insert, Outcome

(* Where sql_execute_select looks for WHERE. *)
WhereAt(s) == PastSemicolon(s, 5)

(* What the SELECT parser can answer. *)
LEMMA SelectOutcomes ==
  ASSUME NEW s
  PROVE  \/ sql_execute_select(s) \in {NotMine, SyntaxError, UnknownColumn}
         \/ /\ sql_match_keyword(s, 1, "select") /\ ~s.lead
            /\ sql_match_char(s, 2, "*")
            /\ sql_match_keyword(s, 3, "from") /\ sql_match_keyword(s, 4, "users")
            /\ \/ sql_match_statement_end(s, 5) /\ sql_execute_select(s).path = "all"
               \/ /\ WhereForm(s, WhereAt(s)) /\ LiteralForm(s, WhereAt(s))
                  /\ At(s, WhereAt(s) + 1).text \in Columns
                  /\ sql_execute_select(s).path = At(s, WhereAt(s) + 1).text
BY DEF sql_execute_select, SelectListError, Outcome, WhereAt

(* sql_execute answers as one of its parsers does, or with a syntax error, *)
(* or ends the program.                                                    *)
LEMMA ExecuteOutcomes ==
  ASSUME NEW s
  PROVE  \/ sql_execute(s) = SyntaxError
         \/ sql_execute(s).path = "exit"
         \/ /\ sql_execute(s) = sql_execute_insert(s)
            /\ sql_execute_insert(s).path # "syntax_error" \/ sql_execute_insert(s).told
         \/ /\ sql_execute(s) = sql_execute_select(s)
            /\ sql_execute_select(s).path # "syntax_error" \/ sql_execute_select(s).told
            /\ sql_execute_insert(s).path = "syntax_error" /\ ~sql_execute_insert(s).told
BY DEF sql_execute, ExitOutcome, HandsOn, Outcome

(* Whatever sql_execute does to the table, for every statement, is covered *)
(* by the lock that db_server_classify_query chooses for it: the two       *)
(* readings of the text cannot disagree.                                   *)
THEOREM LockCoversAll == \A s : LockCovers(s)
<1> SUFFICES ASSUME NEW s PROVE LockCovers(s)
  OBVIOUS
<1>1. NotMine.path = "syntax_error" /\ SyntaxError.path = "syntax_error"
      /\ UnknownColumn.path = "query_error"
  BY DEF NotMine, SyntaxError, UnknownColumn, Outcome
<1>2. sql_execute(s).path = "insert" => sql_match_keyword(s, 1, "insert")
  BY <1>1, ExecuteOutcomes, InsertOutcomes, SelectOutcomes DEF Columns
<1>3. sql_execute(s).path \in SelectPaths => sql_match_keyword(s, 1, "select")
  BY <1>1, ExecuteOutcomes, InsertOutcomes, SelectOutcomes DEF SelectPaths, Columns
<1> QED BY <1>2, <1>3, OneFirstWord DEF LockCovers, db_server_classify_query, sql_match_keyword

-----------------------------------------------------------------------------
(* The lock and the table.                                                 *)

(* The control points of a call before it has a result. *)
Undecided == {"locking", "contended", "executing", "collecting"} \union Inserting

(* What the read/write lock guarantees. *)
LockExclusion ==
  /\ \A t, u \in writer : t = u
  /\ writer # {} => readers = {}

(* A call has a statement from its start to its response, and a result     *)
(* from the end of sql_execute, or from the timeout, on.                   *)
CallInv ==
  \A t \in Threads :
    /\ pc[t] = "idle" <=> stmt[t] = NoStmt
    /\ stmt[t] # NoStmt => stmt[t] \in Stmts
    /\ result[t] = NoResult <=> pc[t] \in Undecided \union {"idle"}
    /\ pc[t] \in Inserting => Path(t) = "insert"
    /\ pc[t] = "collecting" => Path(t) \in SelectPaths

(* The parts of NoHalfInsert: the index against the rows, and the results. *)
IndexExact ==
  /\ (\A t \in Threads : pc[t] # "committing") => index \ freed = RowIds
  /\ RowIds \intersect freed = {}

ResultsKnown ==
  \A t \in Threads : result[t] # NoResult => result[t].ids \subseteq RowIds \union Dangling

(* The table while table_insert is between two of its steps. *)
TableInv ==
  /\ next_id >= 1
  /\ \A i, j \in DOMAIN rows : i < j => rows[i] < rows[j]
  /\ \A id \in RowIds \union index \union freed : id < next_id
  /\ \A t \in Threads :
       /\ pc[t] = "numbering" => local[t] = next_id /\ local[t] <= MaxId
       /\ pc[t] \in {"indexing", "committing"} =>
            local[t] + 1 = next_id /\ local[t] <= MaxId /\ local[t] >= 1
              /\ local[t] \notin RowIds \union freed
       /\ pc[t] = "indexing" => local[t] \notin index
       /\ pc[t] = "committing" => index \ freed = RowIds \union {local[t]}
       /\ pc[t] = "collecting" => local[t] = Len(rows)
  /\ IndexExact

IndInv == TypeOK /\ LockDiscipline /\ LockExclusion /\ CallInv /\ TableInv /\ ResultsKnown

-----------------------------------------------------------------------------

(* The empty table of table_create satisfies the invariant. *)
LEMMA InitIndInv == Init => IndInv
<1> SUFFICES ASSUME Init PROVE IndInv
  OBVIOUS
<1>1. TypeOK
  BY DEF Init, TypeOK, Points, Active, Counters
<1>2. LockDiscipline /\ LockExclusion
  BY DEF Init, LockDiscipline, LockExclusion, Locked, Inserting
<1>3. CallInv
  BY DEF Init, CallInv, Undecided, Inserting
<1>4. RowIds = {}
  BY DEF Init, RowIds
<1>5. TableInv
  BY <1>4 DEF Init, TableInv, IndexExact
<1>6. ResultsKnown
  BY DEF Init, ResultsKnown
<1> QED BY <1>1, <1>2, <1>3, <1>5, <1>6 DEF IndInv

(* Results are kept by a step that changes neither them nor the table, or  *)
(* that refuses a call and at most leaves something in the index.          *)
LEMMA ResultsSame ==
  ASSUME ResultsKnown, UNCHANGED <<rows, index, freed, result>>
  PROVE  ResultsKnown'
BY DEF ResultsKnown, RowIds, Dangling

LEMMA ResultsRefused ==
  ASSUME TypeOK, ResultsKnown, NEW t \in Threads, rows' = rows, index \subseteq index',
         freed \subseteq freed', \E st : result' = [result EXCEPT ![t] = Result(st, {})]
  PROVE  ResultsKnown'
<1>1. PICK st : result' = [result EXCEPT ![t] = Result(st, {})]
  OBVIOUS
<1>2. RowIds' = RowIds /\ Dangling \subseteq Dangling'
  BY DEF RowIds, Dangling
<1>3. result'[t].ids = {} /\ \A u \in Threads : u # t => result'[u] = result[u]
  BY <1>1 DEF TypeOK, Result
<1> QED BY <1>2, <1>3 DEF ResultsKnown

(* Counting keeps the counters natural numbers. *)
LEMMA CountedType ==
  ASSUME TypeOK, NEW C
  PROVE  Counted(C) \in [Counters -> Nat]
BY DEF TypeOK, Counted

(* The ids of the rows are natural numbers, and appending a row adds its   *)
(* id.                                                                     *)
LEMMA RowIdsType ==
  ASSUME TypeOK
  PROVE  RowIds \subseteq Nat /\ RowIds = {rows[i] : i \in 1 .. Len(rows)}
BY DEF TypeOK, RowIds

LEMMA RowIdsAppend ==
  ASSUME TypeOK, NEW id \in Nat, rows' = Append(rows, id)
  PROVE  /\ RowIds' = RowIds \union {id}
         /\ DOMAIN rows' = 1 .. Len(rows) + 1
         /\ \A i \in 1 .. Len(rows) : rows'[i] = rows[i]
         /\ rows'[Len(rows) + 1] = id
<1>1. /\ DOMAIN rows' = 1 .. Len(rows) + 1 /\ DOMAIN rows = 1 .. Len(rows)
      /\ \A i \in 1 .. Len(rows) : rows'[i] = rows[i]
      /\ rows'[Len(rows) + 1] = id
      /\ Len(rows) \in Nat
  BY DEF TypeOK
<1>2. RowIds' = {rows'[i] : i \in 1 .. Len(rows) + 1}
  BY <1>1 DEF RowIds
<1> QED BY <1>1, <1>2 DEF RowIds

(* What sql_execute does with a statement is covered by the statement's    *)
(* lock.                                                                   *)
LEMMA PathLocked ==
  ASSUME NEW s
  PROVE  /\ sql_execute(s).path = "insert" => db_server_classify_query(s) = "WRITE"
         /\ sql_execute(s).path \in SelectPaths => db_server_classify_query(s) = "READ"
BY LockCoversAll DEF LockCovers

(* A thread whose statement takes the lock for writing keeps everybody     *)
(* else out of the table.                                                  *)
LEMMA WriterAlone ==
  ASSUME IndInv, NEW t \in Threads, pc[t] \in Inserting
  PROVE  /\ t \in writer
         /\ \A u \in Threads : u # t => pc[u] \notin Inserting \union {"collecting"}
         /\ \A u \in Threads :
              u # t => ~(pc[u] = "executing" /\ Path(u) \in SelectPaths \union {"insert"})
<1>1. t \in writer /\ readers = {} /\ \A u \in writer : u = t
  BY DEF IndInv, LockDiscipline, LockExclusion
<1>2. \A u \in Threads : u # t => pc[u] \notin Inserting \union {"collecting"}
  BY <1>1 DEF IndInv, LockDiscipline
<1>3. ASSUME NEW u \in Threads, u # t, pc[u] = "executing", Path(u) \in SelectPaths \union {"insert"}
      PROVE  FALSE
  <2>1. Kind(u) \in {"READ", "WRITE"}
    BY <1>3, PathLocked DEF Path, Kind
  <2>2. u \in readers \union writer
    BY <1>3, <2>1 DEF IndInv, LockDiscipline, Locked
  <2> QED BY <1>1, <1>3, <2>2
<1> QED BY <1>1, <1>2, <1>3

(* A new call touches only its own thread's variables and counters. *)
LEMMA BeginInv ==
  ASSUME IndInv, NEW t \in Threads, NEW s \in Stmts, Begin(t, s)
  PROVE  IndInv'
<1> USE DEF Goto, lockVars, tableVars
<1>1. TypeOK'
  <2>1. metrics' \in [Counters -> Nat]
    BY CountedType DEF IndInv, Begin, db_server_metrics_query_started
  <2> QED BY <2>1, StmtsAssumption DEF IndInv, TypeOK, Points, Active, Begin
<1>2. LockDiscipline'
  BY DEF IndInv, LockDiscipline, Locked, Inserting, Kind, Begin
<1>3. LockExclusion'
  BY DEF IndInv, LockExclusion, Begin
<1>4. CallInv'
  BY StmtsAssumption, NoResultAssumption
      DEF IndInv, TypeOK, CallInv, Undecided, Inserting, Path, Begin
<1>5. TableInv'
  BY DEF IndInv, TableInv, IndexExact, RowIds, Begin
<1>6. ResultsKnown'
  BY ResultsSame DEF IndInv, Begin
<1> QED BY <1>1, <1>2, <1>3, <1>4, <1>5, <1>6 DEF IndInv

(* A try that succeeds gives the lock its kind of statement needs, and     *)
(* only when nobody holds it in a way that excludes it.                    *)
LEMMA TryLockInv ==
  ASSUME IndInv, NEW t \in Threads, db_server_try_acquire_lock(t)
  PROVE  IndInv'
<1> USE DEF Goto, lockVars, tableVars
<1>1. TypeOK'
  BY DEF IndInv, TypeOK, Points, Active, Locked, db_server_try_acquire_lock
<1>2. LockDiscipline'
  BY DEF IndInv, TypeOK, LockDiscipline, Locked, Inserting, Kind, db_server_try_acquire_lock
<1>3. LockExclusion'
  BY DEF IndInv, LockExclusion, db_server_try_acquire_lock, CanLock
<1>4. CallInv'
  BY DEF IndInv, TypeOK, CallInv, Undecided, Inserting, Path, db_server_try_acquire_lock
<1>5. TableInv'
  BY DEF IndInv, TypeOK, TableInv, IndexExact, RowIds, db_server_try_acquire_lock
<1>6. ResultsKnown'
  BY ResultsSame DEF IndInv, db_server_try_acquire_lock
<1> QED BY <1>1, <1>2, <1>3, <1>4, <1>5, <1>6 DEF IndInv

(* Waiting for the lock changes nothing that is shared. *)
LEMMA WaitInv ==
  ASSUME IndInv, NEW t \in Threads, Expire(t) \/ SleepAndRetry(t)
  PROVE  IndInv'
<1> USE DEF Goto, lockVars, tableVars
<1>1. TypeOK'
  BY DEF IndInv, TypeOK, Points, Active, Expire, SleepAndRetry
<1>2. LockDiscipline'
  BY DEF IndInv, TypeOK, LockDiscipline, Locked, Inserting, Kind, Expire, SleepAndRetry
<1>3. LockExclusion'
  BY DEF IndInv, LockExclusion, Expire, SleepAndRetry
<1>4. CallInv'
  BY DEF IndInv, TypeOK, CallInv, Undecided, Inserting, Path, Expire, SleepAndRetry
<1>5. TableInv'
  BY DEF IndInv, TypeOK, TableInv, IndexExact, RowIds, Expire, SleepAndRetry
<1>6. ResultsKnown'
  BY ResultsSame DEF IndInv, Expire, SleepAndRetry
<1> QED BY <1>1, <1>2, <1>3, <1>4, <1>5, <1>6 DEF IndInv

(* A call that times out gets a result and holds no lock. *)
LEMMA GiveUpInv ==
  ASSUME IndInv, NEW t \in Threads, GiveUp(t)
  PROVE  IndInv'
<1> USE DEF Goto, lockVars, tableVars
<1>1. TypeOK'
  BY DEF IndInv, TypeOK, Points, Active, GiveUp, Result, Results, Statuses, RefusalStatuses
<1>2. LockDiscipline'
  BY DEF IndInv, LockDiscipline, Locked, Inserting, Kind, GiveUp
<1>3. LockExclusion'
  BY DEF IndInv, LockExclusion, GiveUp
<1>4. CallInv'
  BY StmtsAssumption, NoResultAssumption
      DEF IndInv, TypeOK, CallInv, Undecided, Inserting, Path, GiveUp, Result, Results,
          Statuses, RefusalStatuses
<1>5. TableInv'
  BY DEF IndInv, TableInv, IndexExact, RowIds, GiveUp
<1>6. ResultsKnown'
  <2>1. \E st : result' = [result EXCEPT ![t] = Result(st, {})]
    BY DEF GiveUp
  <2> QED BY <2>1, ResultsRefused DEF IndInv, GiveUp
<1> QED BY <1>1, <1>2, <1>3, <1>4, <1>5, <1>6 DEF IndInv

(* A call releases what it took. *)
LEMMA ReleaseInv ==
  ASSUME IndInv, NEW t \in Threads, db_server_release_lock(t)
  PROVE  IndInv'
<1> USE DEF Goto, lockVars, tableVars
<1>1. TypeOK'
  BY DEF IndInv, TypeOK, Points, Active, db_server_release_lock
<1>2. LockDiscipline'
  BY DEF IndInv, TypeOK, LockDiscipline, Locked, Inserting, Kind, db_server_release_lock
<1>3. LockExclusion'
  BY DEF IndInv, LockExclusion, db_server_release_lock
<1>4. CallInv'
  BY DEF IndInv, CallInv, Undecided, Inserting, Path, db_server_release_lock
<1>5. TableInv'
  BY DEF IndInv, TableInv, IndexExact, RowIds, db_server_release_lock
<1>6. ResultsKnown'
  BY ResultsSame DEF IndInv, db_server_release_lock
<1> QED BY <1>1, <1>2, <1>3, <1>4, <1>5, <1>6 DEF IndInv

(* A statement that is rejected does not reach the table. *)
LEMMA RejectInv ==
  ASSUME IndInv, NEW t \in Threads, Reject(t)
  PROVE  IndInv'
<1> USE DEF Goto, lockVars, tableVars
<1>1. TypeOK'
  BY DEF IndInv, TypeOK, Points, Active, Locked, Reject, Result, Results, Statuses,
          RefusalStatuses
<1>2. LockDiscipline'
  BY DEF IndInv, LockDiscipline, Locked, Inserting, Kind, Reject
<1>3. LockExclusion'
  BY DEF IndInv, LockExclusion, Reject
<1>4. CallInv'
  BY StmtsAssumption, NoResultAssumption
      DEF IndInv, TypeOK, CallInv, Undecided, Inserting, Path, Reject, Result, Results,
          Statuses, RefusalStatuses
<1>5. TableInv'
  BY DEF IndInv, TableInv, IndexExact, RowIds, Reject
<1>6. ResultsKnown'
  <2>1. \E st : result' = [result EXCEPT ![t] = Result(st, {})]
    BY DEF Reject
  <2> QED BY <2>1, ResultsRefused DEF IndInv, Reject
<1> QED BY <1>1, <1>2, <1>3, <1>4, <1>5, <1>6 DEF IndInv

(* A call that runs out of memory leaves the table as it is. *)
LEMMA NoMemoryInv ==
  ASSUME IndInv, NEW t \in Threads, InsertNoMemory(t) \/ SelectNoMemory(t)
  PROVE  IndInv'
<1>0. /\ pc[t] \in {"executing", "collecting"} /\ pc' = [pc EXCEPT ![t] = "releasing"]
      /\ result' = [result EXCEPT ![t] = Result("ERROR", {})]
      /\ UNCHANGED <<stmt, expired, readers, writer, next_id, rows, index, freed, local, metrics>>
  BY DEF InsertNoMemory, SelectNoMemory, Goto, lockVars, tableVars
<1>1. TypeOK'
  BY <1>0 DEF IndInv, TypeOK, Points, Active, Locked, Result, Results, Statuses, RefusalStatuses
<1>2. LockDiscipline'
  BY <1>0 DEF IndInv, TypeOK, LockDiscipline, Locked, Inserting, Kind
<1>3. LockExclusion'
  BY <1>0 DEF IndInv, LockExclusion
<1>4. CallInv'
  BY <1>0, StmtsAssumption, NoResultAssumption
      DEF IndInv, TypeOK, CallInv, Undecided, Inserting, Path, Result, Results, Statuses,
          RefusalStatuses
<1>5. TableInv'
  BY <1>0 DEF IndInv, TypeOK, TableInv, IndexExact, RowIds
<1>6. ResultsKnown'
  BY <1>0, ResultsRefused DEF IndInv
<1> QED BY <1>1, <1>2, <1>3, <1>4, <1>5, <1>6 DEF IndInv

(* table_insert reads next_id alone. *)
LEMMA InsertStartInv ==
  ASSUME IndInv, NEW t \in Threads, InsertStart(t)
  PROVE  IndInv'
<1> USE DEF Goto, lockVars, tableVars
<1>1. TypeOK'
  BY DEF IndInv, TypeOK, Points, Active, Locked, Inserting, InsertStart
<1>2. LockDiscipline'
  BY PathLocked DEF IndInv, LockDiscipline, Locked, Inserting, Kind, Path, InsertStart
<1>3. LockExclusion'
  BY DEF IndInv, LockExclusion, InsertStart
<1>4. CallInv'
  BY DEF IndInv, CallInv, Undecided, Inserting, Path, InsertStart
<1>5. TableInv'
  BY DEF IndInv, TypeOK, TableInv, IndexExact, RowIds, InsertStart
<1>6. ResultsKnown'
  BY ResultsSame DEF IndInv, InsertStart
<1> QED BY <1>1, <1>2, <1>3, <1>4, <1>5, <1>6 DEF IndInv

(* next_id moves past the new id. *)
LEMMA InsertNumberInv ==
  ASSUME IndInv, NEW t \in Threads, InsertNumber(t)
  PROVE  IndInv'
<1> USE DEF Goto, lockVars, tableVars
<1>1. TypeOK'
  BY DEF IndInv, TypeOK, Points, Active, Locked, Inserting, InsertNumber
<1>2. LockDiscipline'
  BY DEF IndInv, LockDiscipline, Locked, Inserting, Kind, InsertNumber
<1>3. LockExclusion'
  BY DEF IndInv, LockExclusion, InsertNumber
<1>4. CallInv'
  BY DEF IndInv, CallInv, Undecided, Inserting, Path, InsertNumber
<1>5. TableInv'
  <2>1. RowIds' = RowIds /\ RowIds \subseteq Nat
    BY RowIdsType DEF IndInv, InsertNumber, RowIds
  <2>2. \A u \in Threads : u # t => pc[u] \notin Inserting \union {"collecting"}
    BY WriterAlone DEF Inserting, InsertNumber
  <2> QED BY <2>1, <2>2 DEF IndInv, TypeOK, TableInv, IndexExact, Inserting, InsertNumber
<1>6. ResultsKnown'
  BY ResultsSame DEF IndInv, InsertNumber
<1> QED BY <1>1, <1>2, <1>3, <1>4, <1>5, <1>6 DEF IndInv

(* The new id enters the index, which is now one ahead of the rows. *)
LEMMA InsertIndexInv ==
  ASSUME IndInv, NEW t \in Threads, InsertIndex(t)
  PROVE  IndInv'
<1> USE DEF Goto, lockVars, tableVars
<1>1. TypeOK'
  BY DEF IndInv, TypeOK, Points, Active, Locked, Inserting, InsertIndex
<1>2. LockDiscipline'
  BY DEF IndInv, LockDiscipline, Locked, Inserting, Kind, InsertIndex
<1>3. LockExclusion'
  BY DEF IndInv, LockExclusion, InsertIndex
<1>4. CallInv'
  BY DEF IndInv, CallInv, Undecided, Inserting, Path, InsertIndex
<1>5. TableInv'
  <2>1. RowIds' = RowIds /\ index' = index \union {local[t]}
    BY DEF InsertIndex, RowIds
  <2>2. \A u \in Threads : u # t => pc[u] \notin Inserting \union {"collecting"}
    BY WriterAlone DEF Inserting, InsertIndex
  <2>3. /\ local[t] + 1 = next_id /\ local[t] \notin RowIds \union freed \union index
        /\ local[t] \in Nat /\ index \ freed = RowIds
    <3>1. \A u \in Threads : pc[u] # "committing"
      BY <2>2 DEF Inserting, InsertIndex
    <3> QED BY <3>1 DEF IndInv, TypeOK, TableInv, IndexExact, InsertIndex
  <2>4. \A id \in RowIds \union index' \union freed : id < next_id
    <3>1. local[t] < next_id
      BY <2>3
    <3> QED BY <2>1, <3>1 DEF IndInv, TableInv
  <2>5. pc'[t] = "committing" /\ \A u \in Threads : u # t => pc'[u] = pc[u]
    BY DEF IndInv, TypeOK, InsertIndex
  <2>6. IndexExact'
    BY <2>1, <2>5 DEF IndInv, TableInv, IndexExact, InsertIndex
  <2>7. index' \ freed = RowIds \union {local[t]}
    BY <2>1, <2>3
  <2> QED BY <2>1, <2>2, <2>3, <2>4, <2>5, <2>6, <2>7
          DEF IndInv, TableInv, Inserting, InsertIndex
<1>6. ResultsKnown'
  BY DEF IndInv, ResultsKnown, RowIds, Dangling, InsertIndex
<1> QED BY <1>1, <1>2, <1>3, <1>4, <1>5, <1>6 DEF IndInv

(* A failed index insertion loses the id, and a lost split leaves its key  *)
(* in the index without a row.                                             *)
LEMMA InsertIndexFailsInv ==
  ASSUME IndInv, NEW t \in Threads, InsertIndexFails(t) \/ InsertSplitLost(t)
  PROVE  IndInv'
<1> USE DEF Goto, lockVars, tableVars
<1>0. /\ pc[t] = "indexing" /\ pc' = [pc EXCEPT ![t] = "releasing"]
      /\ result' = [result EXCEPT ![t] = Result("ERROR", {})]
      /\ UNCHANGED <<stmt, expired, readers, writer, next_id, rows, local, metrics>>
      /\ freed' = freed \union {local[t]}
      /\ index' \in {index, index \union {local[t]}}
  BY DEF InsertIndexFails, InsertSplitLost
<1>1. TypeOK'
  BY <1>0 DEF IndInv, TypeOK, Points, Active, Locked, Result, Results, Statuses, RefusalStatuses
<1>2. LockDiscipline'
  BY <1>0 DEF IndInv, TypeOK, LockDiscipline, Locked, Inserting, Kind
<1>3. LockExclusion'
  BY <1>0 DEF IndInv, LockExclusion
<1>4. CallInv'
  BY <1>0, StmtsAssumption, NoResultAssumption
      DEF IndInv, TypeOK, CallInv, Undecided, Inserting, Path, Result, Results, Statuses,
          RefusalStatuses
<1>5. TableInv'
  <2>1. RowIds' = RowIds /\ next_id' = next_id /\ rows' = rows /\ local' = local
    BY <1>0 DEF RowIds
  <2>2. \A u \in Threads : u # t => pc[u] \notin Inserting \union {"collecting"}
    BY <1>0, WriterAlone DEF Inserting
  <2>3. /\ local[t] + 1 = next_id /\ local[t] \notin RowIds \union freed \union index
        /\ local[t] \in Nat /\ index \ freed = RowIds
    <3>1. \A u \in Threads : pc[u] # "committing"
      BY <1>0, <2>2 DEF Inserting
    <3> QED BY <1>0, <3>1 DEF IndInv, TypeOK, TableInv, IndexExact
  <2>5. IndexExact'
    BY <1>0, <2>1, <2>3 DEF IndInv, TableInv, IndexExact
  <2>6. \A id \in RowIds \union index' \union freed' : id < next_id
    <3>1. local[t] < next_id
      BY <2>3
    <3> QED BY <1>0, <3>1 DEF IndInv, TableInv
  <2>7. \A u \in Threads : pc'[u] \notin Inserting /\ pc'[u] # "collecting"
    BY <1>0, <2>2 DEF IndInv, TypeOK, Inserting
  <2> QED BY <2>1, <2>5, <2>6, <2>7 DEF IndInv, TableInv, Inserting
<1>6. ResultsKnown'
  BY <1>0, ResultsRefused DEF IndInv
<1> QED BY <1>1, <1>2, <1>3, <1>4, <1>5, <1>6 DEF IndInv

(* The new row closes the gap between the index and the rows. *)
LEMMA InsertCommitInv ==
  ASSUME IndInv, NEW t \in Threads, InsertCommit(t)
  PROVE  IndInv'
<1> USE DEF Goto, lockVars, tableVars
<1>1. TypeOK'
  BY DEF IndInv, TypeOK, Points, Active, Locked, InsertCommit, Result, Results, Statuses
<1>2. LockDiscipline'
  BY DEF IndInv, LockDiscipline, Locked, Inserting, Kind, InsertCommit
<1>3. LockExclusion'
  BY DEF IndInv, LockExclusion, InsertCommit
<1>4. CallInv'
  BY StmtsAssumption, NoResultAssumption
      DEF IndInv, TypeOK, CallInv, Undecided, Inserting, Path, InsertCommit, Result, Results,
          Statuses
<1>5. TableInv'
  <2>1. /\ RowIds' = RowIds \union {local[t]}
        /\ DOMAIN rows' = 1 .. Len(rows) + 1
        /\ \A i \in 1 .. Len(rows) : rows'[i] = rows[i]
        /\ rows'[Len(rows) + 1] = local[t]
    BY RowIdsAppend DEF IndInv, InsertCommit, TypeOK
  <2>2. \A u \in Threads : u # t => pc[u] \notin Inserting \union {"collecting"}
    BY WriterAlone DEF Inserting, InsertCommit
  <2>3. /\ local[t] + 1 = next_id /\ index \ freed = RowIds \union {local[t]}
        /\ local[t] \in Nat /\ local[t] \notin freed /\ RowIds \intersect freed = {}
    BY DEF IndInv, TypeOK, TableInv, IndexExact, InsertCommit
  <2>4. RowIds \subseteq Nat /\ \A id \in RowIds : id < local[t]
    BY <2>3, RowIdsType DEF IndInv, TableInv, InsertCommit
  <2>5. \A i, j \in DOMAIN rows' : i < j => rows'[i] < rows'[j]
    <3> SUFFICES ASSUME NEW i \in DOMAIN rows', NEW j \in DOMAIN rows', i < j
                 PROVE  rows'[i] < rows'[j]
      OBVIOUS
    <3>1. Len(rows) \in Nat /\ DOMAIN rows = 1 .. Len(rows) /\ i \in 1 .. Len(rows)
      BY <2>1 DEF TypeOK
    <3>2. CASE j = Len(rows) + 1
      BY <2>1, <2>4, <3>1, <3>2 DEF RowIds
    <3>3. CASE j # Len(rows) + 1
      BY <2>1, <3>1, <3>3 DEF IndInv, TableInv
    <3> QED BY <3>2, <3>3
  <2>6. \A id \in RowIds' \union index' \union freed' : id < next_id'
    <3>1. next_id' = local[t] + 1 /\ RowIds' = RowIds \union {local[t]}
      BY <2>1, <2>3 DEF InsertCommit
    <3>2. \A id \in RowIds \union {local[t]} : id < local[t] + 1
      BY <2>3, <2>4
    <3> QED BY <3>1, <3>2 DEF IndInv, TableInv, InsertCommit
  <2>7. IndexExact'
    BY <2>1, <2>3 DEF IndexExact, InsertCommit
  <2> QED BY <2>2, <2>5, <2>6, <2>7 DEF IndInv, TypeOK, TableInv, Inserting, InsertCommit
<1>6. ResultsKnown'
  <2>1. RowIds' = RowIds \union {local[t]} /\ Dangling' = Dangling
    BY RowIdsAppend DEF IndInv, InsertCommit, TypeOK, Dangling
  <2>2. result'[t].ids = {local[t]} /\ \A u \in Threads : u # t => result'[u] = result[u]
    BY DEF IndInv, TypeOK, InsertCommit, Result
  <2> QED BY <2>1, <2>2 DEF IndInv, ResultsKnown
<1> QED BY <1>1, <1>2, <1>3, <1>4, <1>5, <1>6 DEF IndInv

(* A SELECT reads the size of a table that nobody changes meanwhile. *)
LEMMA SelectStartInv ==
  ASSUME IndInv, NEW t \in Threads, SelectStart(t)
  PROVE  IndInv'
<1> USE DEF Goto, lockVars, tableVars
<1>1. TypeOK'
  BY DEF IndInv, TypeOK, Points, Active, Locked, SelectStart
<1>2. LockDiscipline'
  BY PathLocked DEF IndInv, LockDiscipline, Locked, Inserting, Kind, Path, SelectStart
<1>3. LockExclusion'
  BY DEF IndInv, LockExclusion, SelectStart
<1>4. CallInv'
  BY DEF IndInv, CallInv, Undecided, Inserting, Path, SelectStart
<1>5. TableInv'
  BY DEF IndInv, TypeOK, TableInv, IndexExact, RowIds, SelectStart
<1>6. ResultsKnown'
  BY ResultsSame DEF IndInv, SelectStart
<1> QED BY <1>1, <1>2, <1>3, <1>4, <1>5, <1>6 DEF IndInv

(* What a SELECT finds are rows and what lost splits have left. *)
LEMMA MatchesKnown ==
  ASSUME IndInv, NEW t \in Threads, pc[t] = "collecting"
  PROVE  /\ Matches(t) = (IF Path(t) = "id" THEN RowIds \union Dangling ELSE RowIds)
         /\ Matches(t) \subseteq Nat /\ Matches(t) \subseteq RowIds \union Dangling
<1>1. {rows[i] : i \in 1 .. local[t]} = RowIds
  BY RowIdsType DEF IndInv, TableInv
<1>2. index = RowIds \union Dangling
  <2>1. \A u \in Threads : pc[u] # "committing"
    BY WriterAlone DEF Inserting
  <2>2. index \ freed = RowIds
    BY <2>1 DEF IndInv, TableInv, IndexExact
  <2> QED BY <2>2 DEF Dangling
<1>3. RowIds \subseteq Nat /\ index \subseteq Nat
  BY RowIdsType DEF IndInv, TypeOK
<1>4. Matches(t) = (IF Path(t) = "id" THEN index ELSE RowIds)
  BY <1>1 DEF Matches
<1> QED BY <1>2, <1>3, <1>4

(* A SELECT's result is made of them. *)
LEMMA SelectCollectInv ==
  ASSUME IndInv, NEW t \in Threads, SelectCollect(t)
  PROVE  IndInv'
<1> USE DEF Goto, lockVars, tableVars
<1>0. PICK r \in Results : result' = [result EXCEPT ![t] = r]
  <2>1. Matches(t) \subseteq Nat
    BY MatchesKnown DEF SelectCollect
  <2>2. Collected(t, Matches(t)) \in Results
    BY <2>1 DEF Collected, Result, Results, Statuses
  <2> QED BY <2>2 DEF SelectCollect
<1>1. TypeOK'
  BY <1>0 DEF IndInv, TypeOK, Points, Active, Locked, SelectCollect
<1>2. LockDiscipline'
  BY DEF IndInv, LockDiscipline, Locked, Inserting, Kind, SelectCollect
<1>3. LockExclusion'
  BY DEF IndInv, LockExclusion, SelectCollect
<1>4. CallInv'
  BY <1>0, NoResultAssumption
      DEF IndInv, TypeOK, CallInv, Undecided, Inserting, Path, SelectCollect
<1>5. TableInv'
  BY DEF IndInv, TableInv, IndexExact, RowIds, SelectCollect
<1>6. ResultsKnown'
  <2>1. RowIds' = RowIds /\ Dangling' = Dangling
    BY DEF SelectCollect, RowIds, Dangling
  <2>2. Matches(t) \subseteq RowIds \union Dangling
    BY MatchesKnown DEF SelectCollect
  <2>3. result'[t].ids = Matches(t) /\ \A u \in Threads : u # t => result'[u] = result[u]
    BY DEF IndInv, TypeOK, SelectCollect, Collected, Result
  <2> QED BY <2>1, <2>2, <2>3 DEF IndInv, ResultsKnown
<1> QED BY <1>1, <1>2, <1>3, <1>4, <1>5, <1>6 DEF IndInv

(* The end of a call only counts. *)
LEMMA FinishInv ==
  ASSUME IndInv, NEW t \in Threads, Finish(t)
  PROVE  IndInv'
<1> USE DEF Goto, lockVars, tableVars
<1>1. TypeOK'
  <2>1. metrics' \in [Counters -> Nat]
    <3>1. PICK m \in [Counters -> Nat] : m = Counted(FinishedCounters(result[t].status))
      BY CountedType DEF IndInv
    <3>2. metrics' = [m EXCEPT !["active_query_requests"] = IF @ > 0 THEN @ - 1 ELSE @]
      BY <3>1 DEF Finish, db_server_metrics_query_finished
    <3> QED BY <3>2 DEF Counters
  <2> QED BY <2>1 DEF IndInv, TypeOK, Points, Finish
<1>2. LockDiscipline'
  BY DEF IndInv, LockDiscipline, Locked, Inserting, Kind, Finish
<1>3. LockExclusion'
  BY DEF IndInv, LockExclusion, Finish
<1>4. CallInv'
  BY DEF IndInv, CallInv, Undecided, Inserting, Path, Finish
<1>5. TableInv'
  BY DEF IndInv, TableInv, IndexExact, RowIds, Finish
<1>6. ResultsKnown'
  BY ResultsSame DEF IndInv, Finish
<1> QED BY <1>1, <1>2, <1>3, <1>4, <1>5, <1>6 DEF IndInv

(* The response frees the call. *)
LEMMA RespondInv ==
  ASSUME IndInv, NEW t \in Threads, Respond(t)
  PROVE  IndInv'
<1> USE DEF Goto, lockVars, tableVars
<1>1. TypeOK'
  BY DEF IndInv, TypeOK, Points, Respond
<1>2. LockDiscipline'
  BY DEF IndInv, LockDiscipline, Locked, Inserting, Kind, Respond
<1>3. LockExclusion'
  BY DEF IndInv, LockExclusion, Respond
<1>4. CallInv'
  BY DEF IndInv, TypeOK, CallInv, Inserting, Path, Respond
<1>5. TableInv'
  BY DEF IndInv, TableInv, IndexExact, RowIds, Respond
<1>6. ResultsKnown'
  BY DEF IndInv, TypeOK, ResultsKnown, RowIds, Dangling, Respond
<1> QED BY <1>1, <1>2, <1>3, <1>4, <1>5, <1>6 DEF IndInv

(* The counters of requests that do not reach the table. *)
LEMMA RecordInv ==
  ASSUME IndInv, NEW C, RecordRequest(C)
  PROVE  IndInv'
<1> USE DEF lockVars, tableVars, RecordRequest
<1>1. TypeOK'
  <2>1. metrics' \in [Counters -> Nat]
    BY CountedType DEF IndInv
  <2> QED BY <2>1 DEF IndInv, TypeOK
<1> QED BY <1>1 DEF IndInv, LockDiscipline, LockExclusion, CallInv, TableInv, IndexExact,
                    ResultsKnown, RowIds, Dangling, Kind, Path

(* Every step keeps the invariant. *)
LEMMA NextIndInv == IndInv /\ [Next]_vars => IndInv'
<1> SUFFICES ASSUME IndInv, [Next]_vars PROVE IndInv'
  OBVIOUS
<1>1. ASSUME NEW t \in Threads, NEW s \in Stmts, Begin(t, s) PROVE IndInv'
  BY <1>1, BeginInv
<1>2. ASSUME NEW t \in Threads, Expire(t) PROVE IndInv'
  BY <1>2, WaitInv
<1>3. ASSUME NEW t \in Threads, Step(t) PROVE IndInv'
  BY <1>3, TryLockInv, WaitInv, GiveUpInv, RejectInv, NoMemoryInv, InsertStartInv,
     InsertNumberInv, InsertIndexInv, InsertIndexFailsInv, InsertCommitInv, SelectStartInv,
     SelectCollectInv, ReleaseInv, FinishInv, RespondInv DEF Step
<1>4. ASSUME \/ db_server_record_health_request \/ db_server_record_metrics_request
             \/ db_server_record_queue_full
      PROVE  IndInv'
  BY <1>4, RecordInv DEF db_server_record_health_request, db_server_record_metrics_request,
                         db_server_record_queue_full
<1>5. CASE UNCHANGED vars
  BY <1>5 DEF vars, IndInv, TypeOK, LockDiscipline, LockExclusion, CallInv, TableInv,
              IndexExact, ResultsKnown, RowIds, Dangling, Kind, Path
<1> QED BY <1>1, <1>2, <1>3, <1>4, <1>5 DEF Next

(* The inductive invariant of the DB boundary holds in every state. *)
THEOREM Invariance == Spec => []IndInv
BY InitIndInv, NextIndInv, PTL DEF Spec

(* The types of the DB boundary's state. *)
THEOREM TypeCorrect == Spec => []TypeOK
<1>1. IndInv => TypeOK
  BY DEF IndInv
<1> QED BY <1>1, Invariance, PTL

(* db_server_execute gives every path through sql_execute the lock it      *)
(* needs, and gives it back.                                               *)
THEOREM LocksPaired == Spec => []LockDiscipline
<1>1. IndInv => LockDiscipline
  BY DEF IndInv
<1> QED BY <1>1, Invariance, PTL

(* Nobody is inside the table while a thread is inside table_insert. *)
THEOREM WritersExclusive == Spec => []TableExclusion
<1>1. IndInv => TableExclusion
  BY WriterAlone DEF TableExclusion
<1> QED BY <1>1, Invariance, PTL

(* Outside the last step of table_insert the index holds the rows and what *)
(* lost splits have left, a row is never freed, and results are made of    *)
(* such ids as long as their callers have them.                            *)
THEOREM IndexAgrees == Spec => []NoHalfInsert
<1>1. IndInv => NoHalfInsert
  BY DEF IndInv, TableInv, IndexExact, ResultsKnown, NoHalfInsert
<1> QED BY <1>1, Invariance, PTL

(* No id is given out twice. *)
THEOREM IdsUnique == Spec => []IdsIncrease
<1>1. IndInv => IdsIncrease
  <2> SUFFICES ASSUME IndInv PROVE IdsIncrease
    OBVIOUS
  <2> QED BY DEF IdsIncrease, IndInv, TableInv
<1> QED BY <1>1, Invariance, PTL

-----------------------------------------------------------------------------

(* The calls that active_query_requests counts. *)
ActiveCalls == {t \in Threads : pc[t] \in Active}

(* Entering or leaving a call changes the number of active calls by one. *)
LEMMA ActiveCallsFinite == IsFiniteSet(ActiveCalls) /\ Cardinality(ActiveCalls) \in Nat
<1>1. IsFiniteSet(ActiveCalls)
  BY ThreadsAssumption, FS_Subset DEF ActiveCalls
<1> QED BY <1>1, FS_CardinalityType

LEMMA ActiveCallsGrow ==
  ASSUME NEW t \in Threads, t \notin ActiveCalls, ActiveCalls' = ActiveCalls \union {t}
  PROVE  Cardinality(ActiveCalls') = Cardinality(ActiveCalls) + 1
BY ActiveCallsFinite, FS_AddElement

LEMMA ActiveCallsShrink ==
  ASSUME NEW t \in ActiveCalls, ActiveCalls' = ActiveCalls \ {t}
  PROVE  Cardinality(ActiveCalls) > 0 /\ Cardinality(ActiveCalls') = Cardinality(ActiveCalls) - 1
<1>1. Cardinality(ActiveCalls \ {t}) = Cardinality(ActiveCalls) - 1
  BY ActiveCallsFinite, FS_RemoveElement
<1>2. Cardinality(ActiveCalls \ {t}) \in Nat
  BY ActiveCallsFinite, FS_Subset, FS_CardinalityType
<1> QED BY <1>1, <1>2, ActiveCallsFinite

(* The invariant of the counters, in terms of the active calls. *)
LEMMA MetricsForm ==
  MetricsAddUp <=>
    /\ metrics["total_requests"] =
         metrics["total_query_requests"] + metrics["total_health_requests"]
           + metrics["total_metrics_requests"] + metrics["total_queue_full"]
    /\ metrics["total_errors"] =
         metrics["total_syntax_errors"] + metrics["total_query_errors"]
           + metrics["total_internal_errors"] + metrics["total_queue_full"]
           + metrics["total_lock_timeouts"]
    /\ metrics["active_query_requests"] = Cardinality(ActiveCalls)
    /\ metrics["total_errors"] - metrics["total_queue_full"]
         + metrics["total_not_found_results"] + metrics["active_query_requests"]
         <= metrics["total_query_requests"]
BY DEF MetricsAddUp, ActiveCalls

(* A step that neither counts nor begins or ends a call. *)
LEMMA MetricsKept ==
  ASSUME MetricsAddUp, metrics' = metrics, ActiveCalls' = ActiveCalls
  PROVE  MetricsAddUp'
BY MetricsForm DEF MetricsAddUp, ActiveCalls

(* db_server_metrics_query_started counts a new active call. *)
LEMMA BeginMetrics ==
  ASSUME IndInv, MetricsAddUp, NEW t \in Threads, NEW s \in Stmts, Begin(t, s)
  PROVE  MetricsAddUp'
<1>1. t \notin ActiveCalls /\ ActiveCalls' = ActiveCalls \union {t}
  BY DEF Begin, Goto, ActiveCalls, Active, Locked, Inserting, IndInv, TypeOK
<1>2. Cardinality(ActiveCalls') = Cardinality(ActiveCalls) + 1
  BY <1>1, ActiveCallsGrow
<1>3. \A c \in Counters : metrics[c] \in Nat
  BY DEF IndInv, TypeOK
<1>4. PICK C : /\ C \in SUBSET {"total_insert_requests", "total_select_requests"}
               /\ metrics' = Counted({"total_requests", "total_query_requests",
                                      "active_query_requests"} \union C)
  BY DEF Begin, db_server_metrics_query_started
<1> QED BY <1>2, <1>3, <1>4, ActiveCallsFinite
        DEF MetricsAddUp, ActiveCalls, Counted, Counters

(* db_server_metrics_query_finished puts an error into one class and takes *)
(* the call off the active ones; the counter it lowers is positive.        *)
LEMMA FinishMetrics ==
  ASSUME IndInv, MetricsAddUp, NEW t \in Threads, Finish(t)
  PROVE  MetricsAddUp'
<1>1. t \in ActiveCalls /\ ActiveCalls' = ActiveCalls \ {t}
  BY DEF Finish, Goto, ActiveCalls, Active, Locked, Inserting, IndInv, TypeOK
<1>2. /\ Cardinality(ActiveCalls) > 0 /\ Cardinality(ActiveCalls) \in Nat
      /\ Cardinality(ActiveCalls') = Cardinality(ActiveCalls) - 1
  BY <1>1, ActiveCallsShrink, ActiveCallsFinite
<1>3. \A c \in Counters : metrics[c] \in Nat
  BY DEF IndInv, TypeOK
<1>4. result[t].status \in Statuses
  BY DEF Finish, IndInv, TypeOK, CallInv, Undecided, Inserting, Results
<1> DEFINE C == FinishedCounters(result[t].status)
<1>5. C \in {{}, {"total_not_found_results"}, {"total_errors", "total_lock_timeouts"},
             {"total_errors", "total_syntax_errors"}, {"total_errors", "total_query_errors"},
             {"total_errors", "total_internal_errors"}}
  BY <1>4 DEF FinishedCounters, Statuses, RefusalStatuses
<1> HIDE DEF C
<1>6. metrics' = [Counted(C) EXCEPT !["active_query_requests"] = IF @ > 0 THEN @ - 1 ELSE @]
  BY DEF Finish, db_server_metrics_query_finished, C
<1>7. "active_query_requests" \notin C
  BY <1>5
<1>8. \A c \in Counters :
        metrics'[c] = IF c = "active_query_requests" THEN metrics[c] - 1
                      ELSE IF c \in C THEN metrics[c] + 1 ELSE metrics[c]
  <2>1. metrics["active_query_requests"] > 0
    BY <1>2, MetricsForm
  <2> QED BY <1>3, <1>6, <1>7, <2>1 DEF Counted, Counters
<1> QED BY <1>2, <1>3, <1>5, <1>8, MetricsForm DEF MetricsAddUp, ActiveCalls, Counters

(* The requests that are no statement are counted in a class of their own. *)
LEMMA RecordMetrics ==
  ASSUME IndInv, MetricsAddUp,
         \/ db_server_record_health_request \/ db_server_record_metrics_request
         \/ db_server_record_queue_full
  PROVE  MetricsAddUp'
<1>1. ActiveCalls' = ActiveCalls
  BY DEF db_server_record_health_request, db_server_record_metrics_request,
         db_server_record_queue_full, RecordRequest, ActiveCalls
<1>2. \A c \in Counters : metrics[c] \in Nat
  BY DEF IndInv, TypeOK
<1>3. PICK C \in {{"total_health_requests"}, {"total_metrics_requests"},
                  {"total_errors", "total_queue_full"}} :
        metrics' = Counted({"total_requests"} \union C)
  BY DEF db_server_record_health_request, db_server_record_metrics_request,
         db_server_record_queue_full, RecordRequest
<1>4. \A c \in Counters :
        metrics'[c] = IF c \in {"total_requests"} \union C THEN metrics[c] + 1 ELSE metrics[c]
  BY <1>3 DEF Counted
<1>5. Cardinality(ActiveCalls') = Cardinality(ActiveCalls)
  BY <1>1
<1>6. CASE C = {"total_health_requests"}
  BY <1>2, <1>4, <1>5, <1>6, ActiveCallsFinite DEF MetricsAddUp, ActiveCalls, Counters
<1>7. CASE C = {"total_metrics_requests"}
  BY <1>2, <1>4, <1>5, <1>7, ActiveCallsFinite DEF MetricsAddUp, ActiveCalls, Counters
<1>8. CASE C = {"total_errors", "total_queue_full"}
  <2>1. /\ metrics'["total_requests"] = metrics["total_requests"] + 1
        /\ metrics'["total_errors"] = metrics["total_errors"] + 1
        /\ metrics'["total_queue_full"] = metrics["total_queue_full"] + 1
    BY <1>4, <1>8 DEF Counters
  <2>2. \A c \in Counters \ {"total_requests", "total_errors", "total_queue_full"} :
          metrics'[c] = metrics[c]
    BY <1>4, <1>8
  <2> QED BY <1>2, <1>5, <2>1, <2>2, ActiveCallsFinite DEF MetricsAddUp, ActiveCalls, Counters
<1> QED BY <1>3, <1>6, <1>7, <1>8

(* The counters of GET /metrics add up whatever the calls run into: no     *)
(* request is in two classes or in none, no call that timed out or failed  *)
(* leaves active_query_requests too high, and the counter never underflows.*)
THEOREM CountersAddUp == Spec => []MetricsAddUp
<1>1. Init => MetricsAddUp
  <2> SUFFICES ASSUME Init PROVE MetricsAddUp
    OBVIOUS
  <2>1. {t \in Threads : pc[t] \in Active} = {}
    BY DEF Init, Active, Locked, Inserting
  <2>2. \A c \in Counters : metrics[c] = 0
    BY DEF Init
  <2> QED BY <2>1, <2>2, FS_EmptySet DEF MetricsAddUp, Counters
<1>2. IndInv /\ MetricsAddUp /\ [Next]_vars => MetricsAddUp'
  <2> SUFFICES ASSUME IndInv, MetricsAddUp, [Next]_vars PROVE MetricsAddUp'
    OBVIOUS
  <2>1. ASSUME NEW t \in Threads,
               \/ db_server_try_acquire_lock(t) \/ Expire(t) \/ SleepAndRetry(t) \/ GiveUp(t)
               \/ Reject(t) \/ InsertNoMemory(t) \/ InsertStart(t) \/ InsertNumber(t)
               \/ InsertIndex(t) \/ InsertIndexFails(t) \/ InsertSplitLost(t) \/ InsertCommit(t)
               \/ SelectStart(t) \/ SelectCollect(t) \/ SelectNoMemory(t)
               \/ db_server_release_lock(t) \/ Respond(t)
        PROVE  MetricsAddUp'
    <3>1. /\ metrics' = metrics
          /\ \/ pc' = pc
             \/ \E q \in Active : pc[t] \in Active /\ pc' = [pc EXCEPT ![t] = q]
             \/ pc[t] = "responding" /\ pc' = [pc EXCEPT ![t] = "idle"]
      BY <2>1 DEF Goto, Active, Locked, Inserting, db_server_try_acquire_lock, Expire,
                  SleepAndRetry, GiveUp, Reject, InsertNoMemory, SelectNoMemory, InsertStart, InsertNumber,
                  InsertIndex, InsertIndexFails, InsertSplitLost, InsertCommit, SelectStart,
                  SelectCollect,
                  db_server_release_lock, Respond
    <3>2. ActiveCalls' = ActiveCalls
      BY <3>1 DEF ActiveCalls, Active, Locked, Inserting, IndInv, TypeOK
    <3> QED BY <3>1, <3>2, MetricsKept
  <2>2. CASE UNCHANGED vars
    BY <2>2, MetricsKept DEF vars, ActiveCalls
  <2> QED BY <2>1, <2>2, BeginMetrics, FinishMetrics, RecordMetrics DEF Next, Step
<1> QED BY <1>1, <1>2, Invariance, PTL DEF Spec

-----------------------------------------------------------------------------

(* Every step of the DB boundary is a step of the atomic users table or    *)
(* leaves its state as it is.                                              *)
LEMMA StepLinearizes ==
  ASSUME IndInv, [Next]_vars
  PROVE  [Users!Next]_(Users!vars)
<1> USE DEF Users!vars, lockVars, tableVars, Goto
<1>1. ASSUME NEW t \in Threads, NEW s \in Stmts, Begin(t, s)
      PROVE  Users!Ask(t, s)
  BY <1>1 DEF Users!Ask, Begin, IndInv, CallInv, Dangling
<1>0. Users!UserIds = RowIds
  BY DEF Users!UserIds, RowIds
<1>2. ASSUME NEW t \in Threads,
             \/ Expire(t) \/ db_server_try_acquire_lock(t) \/ SleepAndRetry(t)
             \/ InsertStart(t) \/ InsertNumber(t) \/ SelectStart(t)
             \/ db_server_release_lock(t) \/ Finish(t)
      PROVE  UNCHANGED Users!vars
  BY <1>2 DEF Expire, db_server_try_acquire_lock, SleepAndRetry, InsertStart, InsertNumber,
              SelectStart, db_server_release_lock, Finish, Dangling
<1>3. ASSUME NEW t \in Threads, InsertIndex(t)
      PROVE  UNCHANGED Users!vars
  <2>1. local[t] \notin freed
    BY <1>3 DEF InsertIndex, IndInv, TableInv
  <2> QED BY <1>3, <2>1 DEF InsertIndex, Dangling
<1>4. ASSUME NEW t \in Threads,
             GiveUp(t) \/ Reject(t) \/ InsertNoMemory(t) \/ SelectNoMemory(t)
               \/ InsertIndexFails(t)
      PROVE  Users!Refuse(t)
  <2>1. Users!Waits(t)
    BY <1>4 DEF Users!Waits, GiveUp, Reject, InsertNoMemory, SelectNoMemory, InsertIndexFails,
                IndInv, CallInv, Undecided, Inserting
  <2>2. \E st \in RefusalStatuses : result' = [result EXCEPT ![t] = [status |-> st, ids |-> {}]]
    BY <1>4 DEF GiveUp, Reject, InsertNoMemory, SelectNoMemory, InsertIndexFails, Result,
                RefusalStatuses
  <2>3. Dangling' = Dangling
    <3>1. CASE InsertIndexFails(t)
      <4>1. local[t] \notin index
        BY <3>1 DEF InsertIndexFails, IndInv, TableInv
      <4> QED BY <3>1, <4>1 DEF InsertIndexFails, Dangling
    <3> QED BY <1>4, <3>1 DEF GiveUp, Reject, InsertNoMemory, SelectNoMemory, Dangling
  <2>4. rows' = rows /\ stmt' = stmt
    BY <1>4 DEF GiveUp, Reject, InsertNoMemory, SelectNoMemory, InsertIndexFails
  <2> QED BY <2>1, <2>2, <2>3, <2>4 DEF Users!Refuse
<1>5. ASSUME NEW t \in Threads, pc[t] \in {"indexing", "committing"}
      PROVE  /\ Users!Waits(t) /\ stmt[t] \in Inserts
             /\ local[t] \in Users!NewIds
  <2>1. Users!Waits(t) /\ stmt[t] \in Inserts
    BY <1>5 DEF Users!Waits, IndInv, CallInv, Undecided, Inserting, Path, Inserts
  <2>2. local[t] \in 1 .. MaxId
    BY <1>5, BoundsAssumption DEF IndInv, TableInv, TypeOK
  <2>3. \A old \in RowIds \union Dangling : old < local[t]
    <3>1. local[t] + 1 = next_id /\ local[t] \notin RowIds \union freed /\ local[t] \in Nat
      BY <1>5 DEF IndInv, TableInv, TypeOK
    <3>2. RowIds \union Dangling \subseteq RowIds \union freed
      BY DEF Dangling
    <3>3. RowIds \union freed \subseteq Nat
      BY RowIdsType DEF IndInv, TypeOK
    <3>4. \A old \in RowIds \union freed : old < next_id
      BY DEF IndInv, TableInv
    <3> QED BY <3>1, <3>2, <3>3, <3>4
  <2> QED BY <1>0, <2>1, <2>2, <2>3 DEF Users!NewIds
<1>8. ASSUME NEW t \in Threads, InsertSplitLost(t)
      PROVE  Users!LoseSplit(t)
  <2>1. Users!Waits(t) /\ stmt[t] \in Inserts /\ local[t] \in Users!NewIds
    BY <1>5, <1>8 DEF InsertSplitLost
  <2>2. Dangling' = Dangling \union {local[t]}
    BY <1>8 DEF InsertSplitLost, Dangling
  <2> QED BY <1>8, <2>1, <2>2 DEF Users!LoseSplit, InsertSplitLost, Result
<1>9. ASSUME NEW t \in Threads, InsertCommit(t)
      PROVE  Users!Insert(t)
  <2>1. Users!Waits(t) /\ stmt[t] \in Inserts /\ local[t] \in Users!NewIds
    BY <1>5, <1>9 DEF InsertCommit
  <2>2. Dangling' = Dangling
    BY <1>9 DEF InsertCommit, Dangling
  <2> QED BY <1>9, <2>1, <2>2 DEF Users!Insert, InsertCommit, Result
<1>10. ASSUME NEW t \in Threads, SelectCollect(t)
       PROVE  Users!Select(t)
  <2>1. Users!Waits(t) /\ stmt[t] \in Selects
    BY <1>10 DEF Users!Waits, SelectCollect, IndInv, CallInv, Undecided, Inserting, Path,
                 Selects
  <2>2. Matches(t) = Users!Seen(t)
    <3>1. Matches(t) = (IF Path(t) = "id" THEN RowIds \union Dangling ELSE RowIds)
      BY <1>10, MatchesKnown DEF SelectCollect
    <3>2. stmt[t] \in Walks <=> Path(t) = "id"
      BY <2>1 DEF Walks, Path, Selects
    <3> QED BY <1>0, <3>1, <3>2 DEF Users!Seen
  <2>3. \E st \in {"OK", "NOT_FOUND"} :
          /\ st = "NOT_FOUND" => Matches(t) = {}
          /\ result' = [result EXCEPT ![t] = [status |-> st, ids |-> Matches(t)]]
    BY <1>10 DEF SelectCollect, Collected, Result
  <2>4. rows' = rows /\ stmt' = stmt /\ Dangling' = Dangling
    BY <1>10 DEF SelectCollect, Dangling
  <2> QED BY <1>0, <2>1, <2>2, <2>3, <2>4 DEF Users!Select
<1>6. ASSUME NEW t \in Threads, Respond(t)
      PROVE  Users!Return(t)
  BY <1>6 DEF Users!Return, Respond, IndInv, CallInv, Undecided, Inserting, Dangling
<1>7. ASSUME \/ db_server_record_health_request \/ db_server_record_metrics_request
             \/ db_server_record_queue_full \/ UNCHANGED vars
      PROVE  UNCHANGED Users!vars
  BY <1>7 DEF db_server_record_health_request, db_server_record_metrics_request,
              db_server_record_queue_full, RecordRequest, vars, Dangling
<1> QED BY <1>1, <1>2, <1>3, <1>4, <1>6, <1>7, <1>8, <1>9, <1>10 DEF Next, Step, Users!Next

(* db_server_execute on the shared table is linearizable: every statement  *)
(* takes effect at one moment between the call and its response, a call    *)
(* that timed out or failed added no row, and a SELECT returns the rows    *)
(* inserted before that moment, and no id beside them but those of lost    *)
(* splits.                                                                 *)
THEOREM ExecuteLinearizable == Spec => Linearizable
<1>1. Init => Users!Init
  BY DEF Init, Users!Init, Dangling
<1>2. IndInv /\ [Next]_vars => [Users!Next]_(Users!vars)
  BY StepLinearizes
<1> QED BY <1>1, <1>2, Invariance, PTL DEF Spec, Linearizable, Users!Spec

=============================================================================
