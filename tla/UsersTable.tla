----------------------------- MODULE UsersTable -----------------------------
(***************************************************************************)
(* What the DB boundary (src/server/db_server.c) promises its callers: a   *)
(* table of users on which every statement takes effect in one step,       *)
(* somewhere between the call and the answer.  An INSERT adds one user     *)
(* under an id larger than every id before it, a SELECT sees the users     *)
(* added so far, and a call that is refused (lock timeout, syntax error,   *)
(* no memory) leaves no user.  All an INSERT that found no memory may      *)
(* leave behind is a dangling id, the key of a split that was lost, which  *)
(* a SELECT by id shows beside the users and no other SELECT does.         *)
(***************************************************************************)
EXTENDS Naturals, Sequences

CONSTANTS Threads,   \* the callers
          Stmts,     \* the statements they may pass
          NoStmt,    \* no call in progress
          NoResult,  \* not answered yet
          Ids,       \* the ids users may get
          Inserts,   \* the statements that add a user
          Selects,   \* the statements that read the users
          Walks,     \* those among them that read the index
          Refusals   \* the answers that say why nothing happened

VARIABLES users,     \* the ids of the users, in the order they were added
          dangling,  \* the ids of lost splits
          call,      \* call[t]: the statement thread t waits for, or NoStmt
          answer     \* answer[t]: its result, or NoResult

vars == <<users, dangling, call, answer>>

UserIds == {users[i] : i \in DOMAIN users}

(* The ids larger than every id before. *)
NewIds == {id \in Ids : \A old \in UserIds \union dangling : old < id}

Init ==
  /\ users = <<>>
  /\ dangling = {}
  /\ call = [t \in Threads |-> NoStmt]
  /\ answer = [t \in Threads |-> NoResult]

Ask(t, s) ==
  /\ call[t] = NoStmt
  /\ call' = [call EXCEPT ![t] = s]
  /\ UNCHANGED <<users, dangling, answer>>

Waits(t) == call[t] # NoStmt /\ answer[t] = NoResult

Insert(t) ==
  /\ Waits(t)
  /\ call[t] \in Inserts
  /\ \E id \in NewIds :
       /\ users' = Append(users, id)
       /\ answer' = [answer EXCEPT ![t] = [status |-> "OK", ids |-> {id}]]
  /\ UNCHANGED <<dangling, call>>

(* What the SELECT of thread t shows. *)
Seen(t) == IF call[t] \in Walks THEN UserIds \union dangling ELSE UserIds

Select(t) ==
  /\ Waits(t)
  /\ call[t] \in Selects
  /\ \E st \in {"OK", "NOT_FOUND"} :
       /\ st = "NOT_FOUND" => Seen(t) = {}
       /\ answer' = [answer EXCEPT ![t] = [status |-> st, ids |-> Seen(t)]]
  /\ UNCHANGED <<users, dangling, call>>

Refuse(t) ==
  /\ Waits(t)
  /\ \E st \in Refusals : answer' = [answer EXCEPT ![t] = [status |-> st, ids |-> {}]]
  /\ UNCHANGED <<users, dangling, call>>

(* An INSERT found no memory, but its key is in the index. *)
LoseSplit(t) ==
  /\ Waits(t)
  /\ call[t] \in Inserts
  /\ \E id \in NewIds : dangling' = dangling \union {id}
  /\ answer' = [answer EXCEPT ![t] = [status |-> "ERROR", ids |-> {}]]
  /\ UNCHANGED <<users, call>>

Return(t) ==
  /\ answer[t] # NoResult
  /\ call' = [call EXCEPT ![t] = NoStmt]
  /\ answer' = [answer EXCEPT ![t] = NoResult]
  /\ UNCHANGED <<users, dangling>>

Next ==
  \E t \in Threads :
    \/ \E s \in Stmts : Ask(t, s)
    \/ Insert(t) \/ Select(t) \/ Refuse(t) \/ LoseSplit(t) \/ Return(t)

Spec == Init /\ [][Next]_vars

=============================================================================
