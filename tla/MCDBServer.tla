----------------------------- MODULE MCDBServer -----------------------------
(* Instances of DBServer for TLC. *)
EXTENDS DBServer

Stmt(l, s) == [lead |-> l, tokens |-> s]

INSERT == <<Word("insert"), Word("into"), Word("users"), Word("values"), Char("("),
            Quoted("ann"), Char(","), Number(1), Char(")")>>
SELECT == <<Word("select"), Char("*"), Word("from"), Word("users")>>
WHERE(column) == SELECT \o <<Word("where"), Word(column), Compare(">="), Number(1)>>

(* The statements that reach the table. *)
TableStmts == {Stmt(FALSE, INSERT), Stmt(FALSE, SELECT), Stmt(FALSE, WHERE("id"))}

(* Statements for every lock that reach the table and that do not, one of  *)
(* them for the white space that only one of the parsers skips.            *)
OneOfEach ==
  TableStmts \union {Stmt(TRUE, INSERT), Stmt(FALSE, WHERE("size")), Stmt(TRUE, <<Word("exit")>>)}

=============================================================================
