-------------------------------- MODULE SQL --------------------------------
(***************************************************************************)
(* The readings of a statement: the parser of src/core/sql.c, which decides *)
(* what sql_execute does to the table, and the two scans of                *)
(* src/server/db_server.c, which decide which lock the call takes and      *)
(* whether its answer says that the index was used.  The three share no    *)
(* code.                                                                   *)
(*                                                                         *)
(* A statement is the white space before its first token, and its tokens.  *)
(* Keywords and names are compared without case, so a word is written in   *)
(* lower case.  A word of 32 characters or more is a "long_word", a string *)
(* of RECORD_NAME_SIZE characters or more a "long_string", one without its *)
(* closing quote an "open_string"; everything else that no rule of the     *)
(* grammar accepts is "junk".                                              *)
(***************************************************************************)
EXTENDS Integers, Sequences

CONSTANTS IntSize,   \* the number of int values, 2^32
          LongMax    \* the largest long, 2^63 - 1

ASSUME WidthAssumption == IntSize \in Nat \ {0} /\ LongMax \in Nat

Token(kind, text, value) == [kind |-> kind, text |-> text, value |-> value]
Word(w) == Token("word", w, 0)
Char(c) == Token("char", c, 0)
Compare(op) == Token("comparison", op, 0)
Number(n) == Token("number", "none", n)
Quoted(x) == Token("string", x, 0)

Kinds == {"word", "long_word", "char", "comparison", "number", "string", "long_string",
          "open_string", "junk"}
Statements == [lead : BOOLEAN, tokens : Seq([kind : Kinds, text : STRING, value : Int])]

Columns == {"id", "name", "age"}

(* The paths of sql_execute that read the table. *)
SelectPaths == {"all"} \union Columns

(* The token at position i; behind the last one is the end of the input. *)
At(s, i) == IF i \in 1 .. Len(s.tokens) THEN s.tokens[i] ELSE Token("end", "none", 0)

sql_match_keyword(s, i, w) == At(s, i).kind = "word" /\ At(s, i).text = w
sql_match_char(s, i, c) == At(s, i).kind = "char" /\ At(s, i).text = c
sql_parse_identifier(s, i) == At(s, i).kind = "word"
sql_parse_string(s, i) == At(s, i).kind = "string"
sql_parse_comparison(s, i) == At(s, i).kind = "comparison"

(* sql_match_statement_end moves the cursor behind an optional semicolon,  *)
(* and leaves it there when something follows and its answer is 0.         *)
PastSemicolon(s, i) == IF sql_match_char(s, i, ";") THEN i + 1 ELSE i

sql_match_statement_end(s, i) == At(s, PastSemicolon(s, i)).kind = "end"

(* strtol stops at the bounds of long ... *)
strtol(n) == CASE n > LongMax -> LongMax
               [] n < -LongMax - 1 -> -LongMax - 1
               [] OTHER -> n

(* Mutant of sql_parse_int: the sign is lost. *)
sql_parse_int_Unsigned(n) == strtol(n) % IntSize

(* ... and the cast to int keeps its low bits. *)
sql_parse_int(n) ==
  LET low == strtol(n) % IntSize IN IF 2 * low < IntSize THEN low ELSE low - IntSize

-----------------------------------------------------------------------------
(* What a parser makes of a statement: the path it takes, whether its      *)
(* error has a message, and the operands of the path.                      *)

Outcome(path, told, op, text, number) ==
  [path |-> path, told |-> told, op |-> op, text |-> text, value |-> number]

SyntaxError == Outcome("syntax_error", TRUE, "none", "none", 0)
UnknownColumn == Outcome("query_error", TRUE, "none", "none", 0)

(* A syntax error without a message: the statement is not this parser's. *)
NotMine == Outcome("syntax_error", FALSE, "none", "none", 0)

(* The tokens behind INSERT. *)
InsertForm(s) ==
  /\ sql_match_keyword(s, 2, "into")
  /\ sql_match_keyword(s, 3, "users")
  /\ sql_match_keyword(s, 4, "values")
  /\ sql_match_char(s, 5, "(")
  /\ sql_parse_string(s, 6)
  /\ sql_match_char(s, 7, ",")
  /\ At(s, 8).kind = "number"
  /\ sql_match_char(s, 9, ")")
  /\ sql_match_statement_end(s, 10)

(* Mutant of sql_execute_insert: REPLACE does the same. *)
sql_execute_insert_Replace(s) ==
  IF s.lead \/ ~(sql_match_keyword(s, 1, "insert") \/ sql_match_keyword(s, 1, "replace"))
    THEN NotMine
  ELSE IF InsertForm(s)
    THEN Outcome("insert", FALSE, "none", At(s, 6).text, sql_parse_int(At(s, 8).value))
  ELSE SyntaxError

(* The keyword is looked for at the first character of the input. *)
sql_execute_insert(s) ==
  IF s.lead \/ ~sql_match_keyword(s, 1, "insert")
    THEN NotMine
  ELSE IF InsertForm(s)
    THEN Outcome("insert", FALSE, "none", At(s, 6).text, sql_parse_int(At(s, 8).value))
  ELSE SyntaxError

(* WHERE column comparison literal, with WHERE at the token w. *)
WhereForm(s, w) ==
  /\ sql_match_keyword(s, w, "where")
  /\ sql_parse_identifier(s, w + 1)
  /\ sql_parse_comparison(s, w + 2)

(* The condition's literal, which the column's type decides. *)
LiteralForm(s, w) ==
  /\ IF At(s, w + 1).text = "name" THEN At(s, w + 2).text = "=" /\ sql_parse_string(s, w + 3)
                                   ELSE At(s, w + 3).kind = "number"
  /\ sql_match_statement_end(s, w + 4)

(* The select list is a star: a column there is unknown, or misplaced. *)
SelectListError(s) ==
  IF sql_parse_identifier(s, 2) /\ At(s, 2).text \notin Columns THEN UnknownColumn ELSE SyntaxError

(* Where the statement does not end, WHERE is looked for behind the        *)
(* semicolon that was passed: SELECT * FROM users; WHERE id = 1 is run.    *)
sql_execute_select(s) ==
  LET w == PastSemicolon(s, 5)
  IN  IF s.lead \/ ~sql_match_keyword(s, 1, "select") THEN NotMine
      ELSE IF ~sql_match_char(s, 2, "*") THEN SelectListError(s)
      ELSE IF ~(sql_match_keyword(s, 3, "from") /\ sql_match_keyword(s, 4, "users"))
        THEN SyntaxError
      ELSE IF sql_match_statement_end(s, 5) THEN Outcome("all", FALSE, "none", "none", 0)
      ELSE IF ~WhereForm(s, w) THEN SyntaxError
      ELSE IF At(s, w + 1).text \notin Columns THEN UnknownColumn
      ELSE IF LiteralForm(s, w)
        THEN Outcome(At(s, w + 1).text, FALSE, At(s, w + 2).text, At(s, w + 3).text,
                     sql_parse_int(At(s, w + 3).value))
      ELSE SyntaxError

(* EXIT and QUIT, and nothing behind them. *)
Leaves(s) == sql_match_keyword(s, 1, "exit") \/ sql_match_keyword(s, 1, "quit")
ExitOutcome(s) ==
  IF sql_match_statement_end(s, 2) THEN Outcome("exit", FALSE, "none", "none", 0) ELSE SyntaxError

(* A parser that says "syntax error" without a message hands the statement *)
(* on.                                                                     *)
HandsOn(outcome) == outcome.path = "syntax_error" /\ ~outcome.told

(* Mutant of sql_execute: nobody's statement gets no message. *)
sql_execute_Silent(s) ==
  IF Leaves(s) THEN ExitOutcome(s)
  ELSE IF ~HandsOn(sql_execute_insert(s)) THEN sql_execute_insert(s)
  ELSE sql_execute_select(s)

(* Only EXIT and QUIT are matched behind white space. *)
sql_execute(s) ==
  IF Leaves(s) THEN ExitOutcome(s)
  ELSE IF ~HandsOn(sql_execute_insert(s)) THEN sql_execute_insert(s)
  ELSE IF ~HandsOn(sql_execute_select(s)) THEN sql_execute_select(s)
  ELSE SyntaxError

-----------------------------------------------------------------------------
(* The scans of db_server.c.                                               *)

(* Skips white space before it matches the keyword. *)
db_server_classify_query(s) ==
  IF sql_match_keyword(s, 1, "select") THEN "READ"
  ELSE IF sql_match_keyword(s, 1, "insert") THEN "WRITE"
  ELSE "NONE"

(* WHERE is looked for at every character, and only its right end has to   *)
(* be a word's end: it is found at the end of longer words, and in string  *)
(* literals, of which "where_id" stands for the ones that hold WHERE id    *)
(* and "where" for the ones that hold another WHERE.                       *)
HoldsWhere(t) ==
  \/ t.kind \in {"word", "long_word"} /\ t.text \in {"where", "nowhere"}
  \/ t.kind \in {"string", "long_string", "open_string"} /\ t.text \in {"where", "where_id"}

(* Mutant of db_server_guess_uses_index: any WHERE that is followed by id. *)
db_server_guess_uses_index_AnyWhere(s) ==
  /\ sql_match_keyword(s, 1, "select")
  /\ \E i \in 2 .. Len(s.tokens) :
       /\ HoldsWhere(At(s, i))
       /\ At(s, i).text = "where_id" \/ sql_match_keyword(s, i + 1, "id")

(* The first WHERE decides. *)
db_server_guess_uses_index(s) ==
  /\ sql_match_keyword(s, 1, "select")
  /\ \E i \in 2 .. Len(s.tokens) :
       /\ HoldsWhere(At(s, i))
       /\ \A j \in 2 .. i - 1 : ~HoldsWhere(At(s, j))
       /\ \/ At(s, i).text = "where_id"
          \/ At(s, i).kind \in {"word", "long_word"} /\ sql_match_keyword(s, i + 1, "id")

-----------------------------------------------------------------------------

(* Whatever sql_execute does to the table is covered by the lock that      *)
(* db_server_classify_query chose for the same text.                       *)
LockCovers(s) ==
  /\ sql_execute(s).path = "insert" => db_server_classify_query(s) = "WRITE"
  /\ sql_execute(s).path \in SelectPaths => db_server_classify_query(s) = "READ"

(* used_index, guessed from the text, is the path the SELECT took. *)
GuessIsRight(s) ==
  sql_execute(s).path \in SelectPaths =>
    (db_server_guess_uses_index(s) <=> sql_execute(s).path = "id")

(* No statement falls between the parsers: every error has a message, and  *)
(* a statement that begins with INSERT is never answered by the SELECT     *)
(* parser.                                                                 *)
ErrorsTold(s) ==
  /\ sql_execute(s).path \in {"syntax_error", "query_error"} => sql_execute(s).told
  /\ sql_match_keyword(s, 1, "insert") => sql_execute(s).path \in {"insert", "syntax_error"}

=============================================================================
