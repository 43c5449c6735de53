------------------------------ MODULE DBServer ------------------------------
(***************************************************************************)
(* The DB boundary of src/server/db_server.c: worker threads call          *)
(* db_server_execute on one shared Table.  A call is classified, counted,  *)
(* takes the read or the write lock by trying again and again until a      *)
(* deadline, runs sql_execute, releases the lock, is counted again, and    *)
(* its result is then serialised by the caller.                            *)
(*                                                                         *)
(* A step is one critical section or one access to shared memory.  Inside  *)
(* sql_execute the accesses of table_insert (src/core/table.c) are steps   *)
(* of their own, so that only the lock keeps two threads apart.  The       *)
(* B+ tree is here the set of ids in its leaves, and a full leaf is        *)
(* possible as soon as the tree holds LeafSize keys.                       *)
(***************************************************************************)
EXTENDS SQL, FiniteSets

CONSTANTS Threads,      \* the threads that call db_server_execute
          Stmts,        \* the statements they may pass, a subset of Statements
          NoStmt,       \* no call in progress
          NoResult,     \* no result yet
          Timed,        \* lock_timeout_ms > 0
          LeafSize,     \* BPTREE_MAX_KEYS, the keys of a full leaf
          MaxRequests,  \* bound on metrics.total_requests
          MaxId         \* bound on the ids given out (INT_MAX in the code)

ASSUME StmtsAssumption == Stmts \subseteq Statements /\ NoStmt \notin Statements
ASSUME ThreadsAssumption == IsFiniteSet(Threads)
ASSUME TimedAssumption == Timed \in BOOLEAN
ASSUME BoundsAssumption == MaxRequests \in Nat /\ MaxId \in Nat
ASSUME LeafAssumption == LeafSize \in Nat \ {0}

(* A SELECT by id walks the whole leaf list, from id 1 on. *)
ASSUME ConditionsAssumption ==
  \A s \in Stmts :
    sql_execute(s).path = "id" => sql_execute(s).op = ">=" /\ sql_execute(s).value <= 1

VARIABLES pc,        \* where each thread is, see Points
          stmt,      \* the statement of each thread's call
          expired,   \* has lock_timeout_ms passed since the call's start_time?
          readers,   \* the threads that hold db_lock for reading
          writer,    \* the threads that hold db_lock for writing
          next_id,   \* table->next_id
          rows,      \* the ids of table->rows[0 .. size - 1]
          index,     \* the ids in the leaves of table->pk_index
          freed,     \* the ids of the records that table_insert freed again
          local,     \* each thread's record->id, or the size it read
          result,    \* each thread's execution, or NoResult
          metrics    \* server->metrics

tableVars == <<next_id, rows, index, freed>>
lockVars == <<readers, writer>>
vars == <<pc, stmt, expired, readers, writer, next_id, rows, index, freed, local, result,
          metrics>>

(***************************************************************************)
(* "locking": about to try the lock; "contended": the try failed;          *)
(* "executing": about to run sql_execute; "numbering", "indexing" and      *)
(* "committing": inside table_insert; "collecting": inside the table's     *)
(* search functions; "releasing": sql_execute returned; "finishing": the   *)
(* lock is no longer held; "responding": db_server_execute returned.       *)
(***************************************************************************)
Inserting == {"numbering", "indexing", "committing"}
Locked    == {"executing", "collecting", "releasing"} \union Inserting
Active    == {"locking", "contended", "finishing"} \union Locked
Points    == {"idle", "responding"} \union Active

Counters == {"total_requests", "total_health_requests", "total_metrics_requests",
             "total_query_requests", "total_select_requests", "total_insert_requests",
             "total_errors", "total_syntax_errors", "total_query_errors",
             "total_internal_errors", "total_not_found_results", "total_queue_full",
             "total_lock_timeouts", "active_query_requests"}

RefusalStatuses == {"LOCK_TIMEOUT", "SYNTAX_ERROR", "QUERY_ERROR", "EXIT", "ERROR"}
Statuses == RefusalStatuses \union {"OK", "NOT_FOUND"}

Result(status, ids) == [status |-> status, ids |-> ids]
Results == [status : Statuses, ids : SUBSET Nat]

ASSUME NoResultAssumption == NoResult \notin Results

RowIds == {rows[i] : i \in DOMAIN rows}

(* The keys of the index whose record has been freed. *)
Dangling == index \intersect freed

-----------------------------------------------------------------------------
(* The two readings of a statement, see SQL: the lock it is given, and the *)
(* path it takes through sql_execute.                                      *)
Kind(t) == db_server_classify_query(stmt[t])
Path(t) == sql_execute(stmt[t]).path

-----------------------------------------------------------------------------

(* db_server_init_with_config and table_create. *)
Init ==
  /\ pc = [t \in Threads |-> "idle"]
  /\ stmt = [t \in Threads |-> NoStmt]
  /\ expired = [t \in Threads |-> FALSE]
  /\ readers = {}
  /\ writer = {}
  /\ next_id = 1
  /\ rows = <<>>
  /\ index = {}
  /\ freed = {}
  /\ local = [t \in Threads |-> 0]
  /\ result = [t \in Threads |-> NoResult]
  /\ metrics = [c \in Counters |-> 0]

Goto(t, point) == pc' = [pc EXCEPT ![t] = point]

(* metrics with every counter of C one higher. *)
Counted(C) == [c \in Counters |-> IF c \in C THEN metrics[c] + 1 ELSE metrics[c]]

db_server_metrics_query_started(kind) ==
  metrics' = Counted({"total_requests", "total_query_requests", "active_query_requests"}
                       \union (CASE kind = "WRITE" -> {"total_insert_requests"}
                                 [] kind = "READ" -> {"total_select_requests"}
                                 [] OTHER -> {}))

(* Mutant of FinishedCounters: EXIT has its class but is not an error. *)
FinishedCounters_ExitIsFine(status) ==
  CASE status = "LOCK_TIMEOUT" -> {"total_errors", "total_lock_timeouts"}
    [] status = "NOT_FOUND" -> {"total_not_found_results"}
    [] status = "SYNTAX_ERROR" -> {"total_errors", "total_syntax_errors"}
    [] status = "QUERY_ERROR" -> {"total_errors", "total_query_errors"}
    [] status = "EXIT" -> {"total_query_errors"}
    [] status = "ERROR" -> {"total_errors", "total_internal_errors"}
    [] OTHER -> {}

(* What a finished execution adds to the counters. *)
FinishedCounters(status) ==
  CASE status = "LOCK_TIMEOUT" -> {"total_errors", "total_lock_timeouts"}
    [] status = "NOT_FOUND" -> {"total_not_found_results"}
    [] status = "SYNTAX_ERROR" -> {"total_errors", "total_syntax_errors"}
    [] status \in {"QUERY_ERROR", "EXIT"} -> {"total_errors", "total_query_errors"}
    [] status = "ERROR" -> {"total_errors", "total_internal_errors"}
    [] OTHER -> {}

db_server_metrics_query_finished(status) ==
  metrics' = [Counted(FinishedCounters(status)) EXCEPT !["active_query_requests"] =
                IF @ > 0 THEN @ - 1 ELSE @]

(* Thread t calls db_server_execute with statement s. *)
Begin(t, s) ==
  /\ pc[t] = "idle"
  /\ metrics["total_requests"] < MaxRequests
  /\ stmt' = [stmt EXCEPT ![t] = s]
  /\ db_server_metrics_query_started(db_server_classify_query(s))
  /\ Goto(t, "locking")
  /\ UNCHANGED <<expired, lockVars, tableVars, local, result>>

-----------------------------------------------------------------------------
(* db_server_try_acquire_lock and db_server_release_lock.                  *)

(* Mutant of CanLock: a writer does not wait for the readers. *)
CanLock_IgnoresReaders(kind) == kind \in {"READ", "WRITE"} => writer = {}

(* pthread_rwlock_tryrdlock and pthread_rwlock_trywrlock never queue the   *)
(* caller: they succeed exactly when the lock can be had at once.          *)
CanLock(kind) ==
  CASE kind = "WRITE" -> writer = {} /\ readers = {}
    [] kind = "READ" -> writer = {}
    [] OTHER -> TRUE

db_server_try_acquire_lock(t) ==
  /\ pc[t] = "locking"
  /\ IF CanLock(Kind(t))
       THEN /\ readers' = IF Kind(t) = "READ" THEN readers \union {t} ELSE readers
            /\ writer' = IF Kind(t) = "WRITE" THEN writer \union {t} ELSE writer
            /\ Goto(t, "executing")
       ELSE /\ Goto(t, "contended")
            /\ UNCHANGED lockVars
  /\ UNCHANGED <<stmt, expired, tableVars, local, result, metrics>>

(* The clock reaches start_time + lock_timeout_ms. *)
Expire(t) ==
  /\ Timed
  /\ pc[t] \in {"locking", "contended"}
  /\ ~expired[t]
  /\ expired' = [expired EXCEPT ![t] = TRUE]
  /\ UNCHANGED <<pc, stmt, lockVars, tableVars, local, result, metrics>>

(* Mutant of SleepAndRetry: only after the deadline it tries again. *)
SleepAndRetry_Late(t) ==
  /\ pc[t] = "contended"
  /\ expired[t]
  /\ Goto(t, "locking")
  /\ UNCHANGED <<stmt, expired, lockVars, tableVars, local, result, metrics>>

(* The try failed and time is left: sleep a millisecond and try again. *)
SleepAndRetry(t) ==
  /\ pc[t] = "contended"
  /\ ~(Timed /\ expired[t])
  /\ Goto(t, "locking")
  /\ UNCHANGED <<stmt, expired, lockVars, tableVars, local, result, metrics>>

(* The try failed and no time is left. *)
GiveUp(t) ==
  /\ pc[t] = "contended"
  /\ Timed /\ expired[t]
  /\ result' = [result EXCEPT ![t] = Result("LOCK_TIMEOUT", {})]
  /\ Goto(t, "finishing")
  /\ UNCHANGED <<stmt, expired, lockVars, tableVars, local, metrics>>

(* Mutant of db_server_release_lock: an internal error skips it. *)
db_server_release_lock_NotOnError(t) ==
  /\ pc[t] = "releasing"
  /\ readers' = IF result[t].status = "ERROR" THEN readers ELSE readers \ {t}
  /\ writer' = IF result[t].status = "ERROR" THEN writer ELSE writer \ {t}
  /\ Goto(t, "finishing")
  /\ UNCHANGED <<stmt, expired, tableVars, local, result, metrics>>

db_server_release_lock(t) ==
  /\ pc[t] = "releasing"
  /\ readers' = IF Kind(t) = "READ" THEN readers \ {t} ELSE readers
  /\ writer' = IF Kind(t) = "WRITE" THEN writer \ {t} ELSE writer
  /\ Goto(t, "finishing")
  /\ UNCHANGED <<stmt, expired, tableVars, local, result, metrics>>

-----------------------------------------------------------------------------
(* sql_execute and what it calls in table.c.                               *)

(* A statement that does not reach the table. *)
Reject(t) ==
  /\ pc[t] = "executing"
  /\ Path(t) \in {"exit", "query_error", "syntax_error"}
  /\ result' = [result EXCEPT ![t] =
       Result(CASE Path(t) = "exit" -> "EXIT"
                [] Path(t) = "query_error" -> "QUERY_ERROR"
                [] Path(t) = "syntax_error" -> "SYNTAX_ERROR", {})]
  /\ Goto(t, "releasing")
  /\ UNCHANGED <<stmt, expired, lockVars, tableVars, local, metrics>>

(* table_insert has no memory for more rows, or for the record. *)
InsertNoMemory(t) ==
  /\ pc[t] = "executing"
  /\ Path(t) = "insert"
  /\ result' = [result EXCEPT ![t] = Result("ERROR", {})]
  /\ Goto(t, "releasing")
  /\ UNCHANGED <<stmt, expired, lockVars, tableVars, local, metrics>>

(* table_insert: record->id = table->next_id++, its read ... *)
InsertStart(t) ==
  /\ pc[t] = "executing"
  /\ Path(t) = "insert"
  /\ next_id <= MaxId
  /\ local' = [local EXCEPT ![t] = next_id]
  /\ Goto(t, "numbering")
  /\ UNCHANGED <<stmt, expired, lockVars, tableVars, result, metrics>>

(* Mutant of InsertNumber: the id is not used up. *)
InsertNumber_Forgets(t) ==
  /\ pc[t] = "numbering"
  /\ next_id' = local[t]
  /\ Goto(t, "indexing")
  /\ UNCHANGED <<stmt, expired, lockVars, rows, index, freed, local, result, metrics>>

(* ... and its write. *)
InsertNumber(t) ==
  /\ pc[t] = "numbering"
  /\ next_id' = local[t] + 1
  /\ Goto(t, "indexing")
  /\ UNCHANGED <<stmt, expired, lockVars, rows, index, freed, local, result, metrics>>

(* bptree_insert succeeds ... *)
InsertIndex(t) ==
  /\ pc[t] = "indexing"
  /\ index' = index \union {local[t]}
  /\ Goto(t, "committing")
  /\ UNCHANGED <<stmt, expired, lockVars, next_id, rows, freed, local, result, metrics>>

(* Mutant of InsertIndexFails: the row is counted before the tree has      *)
(* agreed.                                                                 *)
InsertIndexFails_Counted(t) ==
  /\ pc[t] = "indexing"
  /\ index = {} \/ Cardinality(index) >= LeafSize
  /\ rows' = Append(rows, local[t])
  /\ freed' = freed \union {local[t]}
  /\ result' = [result EXCEPT ![t] = Result("ERROR", {})]
  /\ Goto(t, "releasing")
  /\ UNCHANGED <<stmt, expired, lockVars, next_id, index, local, metrics>>

(* ... or has no memory for the first node it needs, the root of an empty  *)
(* tree or the right half of a full leaf: the record is freed, its id is   *)
(* lost.                                                                   *)
InsertIndexFails(t) ==
  /\ pc[t] = "indexing"
  /\ index = {} \/ Cardinality(index) >= LeafSize
  /\ freed' = freed \union {local[t]}
  /\ result' = [result EXCEPT ![t] = Result("ERROR", {})]
  /\ Goto(t, "releasing")
  /\ UNCHANGED <<stmt, expired, lockVars, next_id, rows, index, local, metrics>>

(* ... or for a later one, a new root or the right half of a parent: the   *)
(* key is already in a leaf and stays there, and the record is freed.      *)
InsertSplitLost(t) ==
  /\ pc[t] = "indexing"
  /\ Cardinality(index) >= LeafSize
  /\ index' = index \union {local[t]}
  /\ freed' = freed \union {local[t]}
  /\ result' = [result EXCEPT ![t] = Result("ERROR", {})]
  /\ Goto(t, "releasing")
  /\ UNCHANGED <<stmt, expired, lockVars, next_id, rows, local, metrics>>

(* table->size++ makes the row visible. *)
InsertCommit(t) ==
  /\ pc[t] = "committing"
  /\ rows' = Append(rows, local[t])
  /\ result' = [result EXCEPT ![t] = Result("OK", {local[t]})]
  /\ Goto(t, "releasing")
  /\ UNCHANGED <<stmt, expired, lockVars, next_id, index, freed, local, metrics>>

(* A SELECT reads table->size, or finds its first leaf ... *)
SelectStart(t) ==
  /\ pc[t] = "executing"
  /\ Path(t) \in SelectPaths
  /\ local' = [local EXCEPT ![t] = Len(rows)]
  /\ Goto(t, "collecting")
  /\ UNCHANGED <<stmt, expired, lockVars, tableVars, result, metrics>>

(* Only a SELECT with a condition answers NOT_FOUND. *)
Collected(t, ids) == Result(IF Path(t) # "all" /\ ids = {} THEN "NOT_FOUND" ELSE "OK", ids)

(* Mutant of Matches: the row at the size that was read is left out. *)
Matches_OffByOne(t) ==
  IF Path(t) = "id" THEN index ELSE {rows[i] : i \in {j \in DOMAIN rows : j < local[t]}}

(* What it finds: the rows below that size, or the keys in the leaves; a   *)
(* key whose record has been freed stands for whatever is read there.      *)
(* Conditions are ones that every row satisfies; the ones that do not are  *)
(* the subject of Table.                                                   *)
Matches(t) == IF Path(t) = "id" THEN index ELSE {rows[i] : i \in 1 .. local[t]}

(* ... and then copies what matches ... *)
SelectCollect(t) ==
  /\ pc[t] = "collecting"
  /\ result' = [result EXCEPT ![t] = Collected(t, Matches(t))]
  /\ Goto(t, "releasing")
  /\ UNCHANGED <<stmt, expired, lockVars, tableVars, local, metrics>>

(* ... or has no memory for it. *)
SelectNoMemory(t) ==
  /\ pc[t] = "collecting"
  /\ Matches(t) # {}
  /\ result' = [result EXCEPT ![t] = Result("ERROR", {})]
  /\ Goto(t, "releasing")
  /\ UNCHANGED <<stmt, expired, lockVars, tableVars, local, metrics>>

-----------------------------------------------------------------------------

(* The end of db_server_execute. *)
Finish(t) ==
  /\ pc[t] = "finishing"
  /\ db_server_metrics_query_finished(result[t].status)
  /\ Goto(t, "responding")
  /\ UNCHANGED <<stmt, expired, lockVars, tableVars, local, result>>

(* The caller reads the records of the result (api_build_execution_        *)
(* response) and destroys it (db_server_execution_destroy).                *)
Respond(t) ==
  /\ pc[t] = "responding"
  /\ stmt' = [stmt EXCEPT ![t] = NoStmt]
  /\ result' = [result EXCEPT ![t] = NoResult]
  /\ expired' = [expired EXCEPT ![t] = FALSE]
  /\ local' = [local EXCEPT ![t] = 0]
  /\ Goto(t, "idle")
  /\ UNCHANGED <<lockVars, tableVars, metrics>>

(* db_server_record_health_request, _metrics_request and _queue_full. *)
RecordRequest(C) ==
  /\ metrics["total_requests"] < MaxRequests
  /\ metrics' = Counted({"total_requests"} \union C)
  /\ UNCHANGED <<pc, stmt, expired, lockVars, tableVars, local, result>>

db_server_record_health_request == RecordRequest({"total_health_requests"})
db_server_record_metrics_request == RecordRequest({"total_metrics_requests"})
db_server_record_queue_full == RecordRequest({"total_errors", "total_queue_full"})

(* The steps of a call that is under way. *)
Step(t) ==
  \/ db_server_try_acquire_lock(t) \/ SleepAndRetry(t) \/ GiveUp(t)
  \/ Reject(t)
  \/ InsertNoMemory(t) \/ InsertStart(t) \/ InsertNumber(t)
  \/ InsertIndex(t) \/ InsertIndexFails(t) \/ InsertSplitLost(t) \/ InsertCommit(t)
  \/ SelectStart(t) \/ SelectCollect(t) \/ SelectNoMemory(t)
  \/ db_server_release_lock(t) \/ Finish(t) \/ Respond(t)

Next ==
  \/ \E t \in Threads : (\E s \in Stmts : Begin(t, s)) \/ Expire(t) \/ Step(t)
  \/ db_server_record_health_request
  \/ db_server_record_metrics_request
  \/ db_server_record_queue_full

Spec == Init /\ [][Next]_vars

(* A thread inside a call keeps running.  Nothing is assumed of the clock: *)
(* a deadline may pass at any moment or never.                             *)
Fairness == \A t \in Threads : WF_vars(Step(t))

FairSpec == Spec /\ Fairness

-----------------------------------------------------------------------------

(* The types of the variables. *)
TypeOK ==
  /\ pc \in [Threads -> Points]
  /\ stmt \in [Threads -> Statements \union {NoStmt}]
  /\ expired \in [Threads -> BOOLEAN]
  /\ readers \subseteq Threads
  /\ writer \subseteq Threads
  /\ next_id \in Nat
  /\ rows \in Seq(Nat)
  /\ index \subseteq Nat
  /\ freed \subseteq Nat
  /\ local \in [Threads -> Nat]
  /\ result \in [Threads -> Results \union {NoResult}]
  /\ metrics \in [Counters -> Nat]

(* On every path through db_server_execute, the ones that end in an error  *)
(* included, db_server_release_lock gives back exactly what                *)
(* db_server_try_acquire_lock took, and what it took is what the parser's  *)
(* own path through sql_execute needs.                                     *)
LockDiscipline ==
  \A t \in Threads :
    /\ t \in readers <=> pc[t] \in Locked /\ Kind(t) = "READ"
    /\ t \in writer  <=> pc[t] \in Locked /\ Kind(t) = "WRITE"
    /\ pc[t] \in Inserting => t \in writer
    /\ pc[t] = "collecting" => t \in readers

(* While a thread is inside table_insert nobody else is inside the table,  *)
(* although db_server_classify_query and sql_execute read the statement    *)
(* each in its own way.                                                    *)
TableExclusion ==
  \A t, u \in Threads :
    t # u /\ pc[t] \in Inserting => pc[u] \notin Inserting \union {"collecting"}

(* Outside table_insert every row is in the index, and whatever else is    *)
(* there is left over from a lost split: the half-done INSERT of another   *)
(* call is invisible.  A row is never freed, so the ids of a result are    *)
(* still rows when the caller reads them after the lock has been released, *)
(* but for the ones that a lost split left in the index.                   *)
NoHalfInsert ==
  /\ (\A t \in Threads : pc[t] # "committing") => index \ freed = RowIds
  /\ RowIds \intersect freed = {}
  /\ \A t \in Threads : result[t] # NoResult => result[t].ids \subseteq RowIds \union Dangling

(* Ids are given out once: rows are in increasing id order below next_id,  *)
(* also after inserts that failed and lost their id.                       *)
IdsIncrease ==
  /\ \A i, j \in DOMAIN rows : i < j => rows[i] < rows[j]
  /\ (\A t \in Threads : pc[t] # "numbering") => \A id \in RowIds \union index : id < next_id

(* The counters of GET /metrics add up in every state: every request is in *)
(* one class, every error in one class, and active_query_requests is the   *)
(* number of calls between db_server_metrics_query_started and             *)
(* db_server_metrics_query_finished.                                       *)
MetricsAddUp ==
  /\ metrics["total_requests"] =
       metrics["total_query_requests"] + metrics["total_health_requests"]
         + metrics["total_metrics_requests"] + metrics["total_queue_full"]
  /\ metrics["total_errors"] =
       metrics["total_syntax_errors"] + metrics["total_query_errors"]
         + metrics["total_internal_errors"] + metrics["total_queue_full"]
         + metrics["total_lock_timeouts"]
  /\ metrics["active_query_requests"] = Cardinality({t \in Threads : pc[t] \in Active})
  /\ metrics["total_errors"] - metrics["total_queue_full"] + metrics["total_not_found_results"]
       + metrics["active_query_requests"] <= metrics["total_query_requests"]

(* The statements that change the table, and the ones that only read it. *)
Inserts == {s \in Stmts : sql_execute(s).path = "insert"}
Selects == {s \in Stmts : sql_execute(s).path \in SelectPaths}
Walks   == {s \in Stmts : sql_execute(s).path = "id"}

(* Every call takes effect at once: db_server_execute on the shared table  *)
(* implements the atomic users table, in which a refused INSERT may leave  *)
(* an id dangling that only a SELECT by id shows.                          *)
Users == INSTANCE UsersTable
           WITH Ids <- 1 .. MaxId,
                Refusals <- RefusalStatuses,
                users <- rows, dangling <- Dangling, call <- stmt, answer <- result

Linearizable == Users!Spec

(* Every call of db_server_execute comes to an end, also one whose lock    *)
(* timeout never passes and which waits for as long as others hold the     *)
(* lock: each of them gives it back, whatever its statement ran into, and  *)
(* the calls are as many as MaxRequests.                                   *)
CallsReturn == \A t \in Threads : pc[t] # "idle" ~> pc[t] = "idle"

(* README: once a writer waits for the lock, no new reader passes it.      *)
PhaseGate ==
  [][(\E t \in Threads : pc[t] = "contended" /\ Kind(t) = "WRITE")
       => readers' \subseteq readers]_vars

=============================================================================
