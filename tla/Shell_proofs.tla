---------------------------- MODULE Shell_proofs ----------------------------
(***************************************************************************)
(* Proofs about the programs that run statements without HTTP, for all     *)
(* arguments, all input, every size of the buffer and every width of the   *)
(* numbers: the readings of a statement agree, the arguments and the lines *)
(* are taken as they were meant, and ages keep their order.                *)
(***************************************************************************)
EXTENDS Shell, FiniteSetTheorems, WellFoundedInduction, TLAPS

-----------------------------------------------------------------------------
(* The readings of a statement, for every statement: however long, of      *)
(* whatever tokens, and for every width of int and long.                   *)

(* The elements of a sequence over S are in S. *)
LEMMA ElementOf ==
  ASSUME NEW S, NEW q \in Seq(S), NEW i \in 1 .. Len(q)
  PROVE  q[i] \in S
OBVIOUS

(* The first word of a statement is one word. *)
LEMMA OneFirstWord ==
  ASSUME NEW s, NEW v, NEW w, sql_match_keyword(s, 1, v), sql_match_keyword(s, 1, w)
  PROVE  v = w
BY DEF sql_match_keyword

(* What the INSERT parser can answer. *)
LEMMA InsertOutcomes ==
  ASSUME NEW s
  PROVE  \/ sql_execute_insert(s) = NotMine /\ (s.lead \/ ~sql_match_keyword(s, 1, "insert"))
         \/ /\ sql_match_keyword(s, 1, "insert")
            /\ sql_execute_insert(s).path = "insert"
         \/ sql_match_keyword(s, 1, "insert") /\ sql_execute_insert(s) = SyntaxError
BY DEF sql_execute_insert, Outcome

(* Where sql_execute_select looks for WHERE. *)
WhereAt(s) == PastSemicolon(s, 5)

(* What the SELECT parser can answer. *)
LEMMA SelectOutcomes ==
  ASSUME NEW s
  PROVE  \/ sql_execute_select(s) \in {NotMine, SyntaxError, UnknownColumn}
         \/ /\ sql_match_keyword(s, 1, "select") /\ ~s.lead
            /\ sql_match_char(s, 2, "*")
            /\ sql_match_keyword(s, 3, "from") /\ sql_match_keyword(s, 4, "users")
            /\ \/ sql_match_statement_end(s, 5) /\ sql_execute_select(s).path = "all"
               \/ /\ WhereForm(s, WhereAt(s)) /\ LiteralForm(s, WhereAt(s))
                  /\ At(s, WhereAt(s) + 1).text \in Columns
                  /\ sql_execute_select(s).path = At(s, WhereAt(s) + 1).text
BY DEF sql_execute_select, SelectListError, Outcome, WhereAt

(* sql_execute answers as one of its parsers does, or with a syntax error, *)
(* or ends the program.                                                    *)
LEMMA ExecuteOutcomes ==
  ASSUME NEW s
  PROVE  \/ sql_execute(s) = SyntaxError
         \/ sql_execute(s).path = "exit"
         \/ /\ sql_execute(s) = sql_execute_insert(s)
            /\ sql_execute_insert(s).path # "syntax_error" \/ sql_execute_insert(s).told
         \/ /\ sql_execute(s) = sql_execute_select(s)
            /\ sql_execute_select(s).path # "syntax_error" \/ sql_execute_select(s).told
            /\ sql_execute_insert(s).path = "syntax_error" /\ ~sql_execute_insert(s).told
BY DEF sql_execute, ExitOutcome, HandsOn, Outcome

(* Whatever sql_execute does to the table, for every statement, is covered *)
(* by the lock that db_server_classify_query chooses for it: the two       *)
(* readings of the text cannot disagree.                                   *)
THEOREM LockCoversAll == \A s : LockCovers(s)
<1> SUFFICES ASSUME NEW s PROVE LockCovers(s)
  OBVIOUS
<1>1. NotMine.path = "syntax_error" /\ SyntaxError.path = "syntax_error"
      /\ UnknownColumn.path = "query_error"
  BY DEF NotMine, SyntaxError, UnknownColumn, Outcome
<1>2. sql_execute(s).path = "insert" => sql_match_keyword(s, 1, "insert")
  BY <1>1, ExecuteOutcomes, InsertOutcomes, SelectOutcomes DEF Columns
<1>3. sql_execute(s).path \in SelectPaths => sql_match_keyword(s, 1, "select")
  BY <1>1, ExecuteOutcomes, InsertOutcomes, SelectOutcomes DEF SelectPaths, Columns
<1> QED BY <1>2, <1>3, OneFirstWord DEF LockCovers, db_server_classify_query, sql_match_keyword

(* Every error of sql_execute has a message, and only the INSERT parser    *)
(* answers a statement that begins with INSERT.                            *)
THEOREM ErrorsToldAll == \A s : ErrorsTold(s)
<1> SUFFICES ASSUME NEW s PROVE ErrorsTold(s)
  OBVIOUS
<1>1. /\ NotMine.path = "syntax_error" /\ NotMine.told = FALSE
      /\ SyntaxError.path = "syntax_error" /\ SyntaxError.told = TRUE
      /\ UnknownColumn.path = "query_error" /\ UnknownColumn.told = TRUE
  BY DEF NotMine, SyntaxError, UnknownColumn, Outcome
<1>2. sql_execute(s).path \in {"syntax_error", "query_error"} => sql_execute(s).told
  BY <1>1, ExecuteOutcomes, InsertOutcomes, SelectOutcomes DEF Columns
<1>3. ASSUME sql_match_keyword(s, 1, "insert")
      PROVE  sql_execute(s).path \in {"insert", "syntax_error"}
  <2>1. ~Leaves(s) /\ ~sql_match_keyword(s, 1, "select")
    BY <1>3 DEF Leaves, sql_match_keyword
  <2>2. sql_execute_select(s) = NotMine
    BY <2>1 DEF sql_execute_select
  <2> QED BY <1>1, <2>1, <2>2, InsertOutcomes DEF sql_execute, HandsOn
<1> QED BY <1>2, <1>3 DEF ErrorsTold

(* WHERE is looked for behind the table's name, or behind a semicolon      *)
(* there.                                                                  *)
LEMMA WhereAtIs ==
  ASSUME NEW s
  PROVE  /\ WhereAt(s) \in {5, 6}
         /\ WhereAt(s) = 6 => At(s, 5).kind = "char"
<1>1. CASE sql_match_char(s, 5, ";")
  <2>1. At(s, 5).kind = "char"
    BY <1>1 DEF sql_match_char
  <2>2. WhereAt(s) = 5 + 1
    BY <1>1, Zenon DEF WhereAt, PastSemicolon
  <2>3. WhereAt(s) = 6
    BY <2>2
  <2> QED BY <2>1, <2>3
<1>2. CASE ~sql_match_char(s, 5, ";")
  <2>1. WhereAt(s) = 5
    BY <1>2, Zenon DEF WhereAt, PastSemicolon
  <2> QED BY <2>1
<1> QED BY <1>1, <1>2

(* The end of the input is behind the last token. *)
LEMMA EndsBefore ==
  ASSUME NEW s \in Statements, NEW k \in Nat \ {0}, At(s, k).kind = "end"
  PROVE  Len(s.tokens) < k
<1>1. s.tokens \in Seq([kind : Kinds, text : STRING, value : Int]) /\ Len(s.tokens) \in Nat
  BY DEF Statements
<1>2. ASSUME k \in 1 .. Len(s.tokens) PROVE FALSE
  <2>1. s.tokens[k] \in [kind : Kinds, text : STRING, value : Int]
    BY <1>1, <1>2, ElementOf
  <2>2. s.tokens[k].kind \in Kinds /\ "end" \notin Kinds
    BY <2>1 DEF Kinds
  <2> QED BY <1>2, <2>2 DEF At
<1> QED BY <1>1, <1>2

(* The scan for WHERE that fills used_index agrees, for every SELECT that  *)
(* is executed, with the path it takes: the grammar leaves no room for     *)
(* another WHERE in front of the real one.                                 *)
THEOREM GuessIsRightAll == \A s \in Statements : GuessIsRight(s)
<1> SUFFICES ASSUME NEW s \in Statements, sql_execute(s).path \in SelectPaths
             PROVE  db_server_guess_uses_index(s) <=> sql_execute(s).path = "id"
  BY DEF GuessIsRight
<1> DEFINE n == Len(s.tokens)
           w == WhereAt(s)
<1>0. n \in Nat /\ w \in {5, 6}
  BY WhereAtIs DEF Statements
<1>1. /\ sql_match_keyword(s, 1, "select")
      /\ sql_match_char(s, 2, "*")
      /\ sql_match_keyword(s, 3, "from") /\ sql_match_keyword(s, 4, "users")
      /\ \/ sql_match_statement_end(s, 5) /\ sql_execute(s).path = "all"
         \/ /\ WhereForm(s, w) /\ At(s, w + 1).text \in Columns
            /\ sql_execute(s).path = At(s, w + 1).text
  <2>1. NotMine.path = "syntax_error" /\ SyntaxError.path = "syntax_error"
        /\ UnknownColumn.path = "query_error"
    BY DEF NotMine, SyntaxError, UnknownColumn, Outcome
  <2>2. sql_execute(s) = sql_execute_select(s)
        /\ sql_execute_select(s) \notin {NotMine, SyntaxError, UnknownColumn}
    BY <2>1, ExecuteOutcomes, InsertOutcomes, SelectOutcomes DEF SelectPaths, Columns
  <2> QED BY <2>2, SelectOutcomes
<1>2. \A j \in 2 .. w - 1 : ~HoldsWhere(At(s, j))
  <2>1. ~HoldsWhere(At(s, 2))
    BY <1>1 DEF HoldsWhere, sql_match_char
  <2>2. ~HoldsWhere(At(s, 3)) /\ ~HoldsWhere(At(s, 4))
    BY <1>1 DEF HoldsWhere, sql_match_keyword
  <2>3. w = 6 => ~HoldsWhere(At(s, 5))
    BY WhereAtIs DEF HoldsWhere
  <2>4. \A j \in 2 .. w - 1 : j = 2 \/ j = 3 \/ j = 4 \/ (j = 5 /\ w = 6)
    <3> HIDE DEF w
    <3> QED BY <1>0
  <2> QED BY <2>1, <2>2, <2>3, <2>4
<1>3. CASE sql_match_statement_end(s, 5) /\ sql_execute(s).path = "all"
  <2>1. At(s, w).kind = "end"
    BY <1>3 DEF sql_match_statement_end, WhereAt
  <2>2. n < w
    BY <1>0, <2>1, EndsBefore
  <2>3. \A i \in 2 .. n : i \in 2 .. w - 1
    <3> HIDE DEF w, n
    <3> QED BY <1>0, <2>2
  <2>4. \A i \in 2 .. n : ~HoldsWhere(At(s, i))
    BY <1>2, <2>3
  <2> QED BY <1>3, <2>4 DEF db_server_guess_uses_index
<1>4. CASE /\ WhereForm(s, w) /\ At(s, w + 1).text \in Columns
           /\ sql_execute(s).path = At(s, w + 1).text
  <2>1. HoldsWhere(At(s, w)) /\ At(s, w).kind = "word" /\ At(s, w).text = "where"
        /\ At(s, w + 1).kind = "word"
    BY <1>4 DEF WhereForm, HoldsWhere, sql_match_keyword, sql_parse_identifier
  <2>2. n >= w
    <3>1. w \in 1 .. n
      BY <2>1 DEF At, Token
    <3> HIDE DEF w, n
    <3> QED BY <1>0, <3>1
  <2>3. sql_match_keyword(s, w + 1, "id") <=> sql_execute(s).path = "id"
    BY <1>4, <2>1 DEF sql_match_keyword
  <2>4. ASSUME NEW i \in 2 .. n, HoldsWhere(At(s, i)),
               \A j \in 2 .. i - 1 : ~HoldsWhere(At(s, j))
        PROVE  i = w
    <3>1. i \notin 2 .. w - 1 /\ w \notin 2 .. i - 1
      BY <1>2, <2>1, <2>4
    <3> HIDE DEF w, n
    <3> QED BY <1>0, <2>4, <3>1
  <2>5. w \in 2 .. n
    <3> HIDE DEF w, n
    <3> QED BY <1>0, <2>2
  <2>6. CASE sql_match_keyword(s, w + 1, "id")
    <3>1. db_server_guess_uses_index(s)
      BY <1>1, <1>2, <2>1, <2>5, <2>6 DEF db_server_guess_uses_index
    <3> QED BY <2>3, <2>6, <3>1
  <2>7. CASE ~sql_match_keyword(s, w + 1, "id")
    <3>1. ASSUME db_server_guess_uses_index(s) PROVE FALSE
      <4>1. PICK i \in 2 .. n :
              /\ HoldsWhere(At(s, i))
              /\ \A j \in 2 .. i - 1 : ~HoldsWhere(At(s, j))
              /\ \/ At(s, i).text = "where_id"
                 \/ At(s, i).kind \in {"word", "long_word"} /\ sql_match_keyword(s, i + 1, "id")
        BY <3>1 DEF db_server_guess_uses_index
      <4>2. i = w
        BY <2>4, <4>1
      <4> QED BY <2>1, <2>7, <4>1, <4>2
    <3> QED BY <2>3, <2>7, <3>1
  <2> QED BY <2>6, <2>7
<1> QED BY <1>1, <1>3, <1>4

-----------------------------------------------------------------------------
(* The statements of the programs.                                         *)

(* Whatever the shell or the server reads from its arguments or its        *)
(* standard input, cut by fgets where it may be, the lock that             *)
(* db_server_classify_query chooses covers what sql_execute does.          *)
THEOREM StatementsLocked == Spec => []StatementsCovered
<1>1. StatementsCovered
  BY LockCoversAll DEF StatementsCovered
<1> QED
  BY <1>1, PTL

(* Nothing that is read this way falls between the parsers of sql.c: every *)
(* error sql_execute returns for it has a message.                         *)
THEOREM StatementsAnswered == Spec => []ErrorsExplained
<1>1. ErrorsExplained
  BY ErrorsToldAll DEF ErrorsExplained
<1> QED
  BY <1>1, PTL

-----------------------------------------------------------------------------
(* The tokens in a buffer.                                                 *)

(* Every non-empty set of naturals has a least element. *)
LEMMA LeastNumber ==
  ASSUME NEW T, T \subseteq Nat, T # {}
  PROVE  \E x \in T : \A y \in T : x <= y
<1> DEFINE R == OpToRel(<, Nat)
<1>1. IsWellFoundedOn(R, Nat)
  BY NatLessThanWellFounded
<1>2. R = {p \in Nat \X Nat : p[1] < p[2]}
  BY DEF OpToRel
<1> HIDE DEF R
<1>3. PICK x \in T : \A y \in T : ~(<<y, x>> \in R)
  BY <1>1, WFMin
<1>4. ASSUME NEW y \in T, y < x PROVE FALSE
  <2>1. <<y, x>> \in Nat \X Nat /\ <<y, x>>[1] = y /\ <<y, x>>[2] = x
    OBVIOUS
  <2>2. <<y, x>> \in R
    BY <1>2, <1>4, <2>1
  <2> QED BY <1>3, <2>2
<1>5. \A y \in T : x <= y
  BY <1>4
<1> QED BY <1>5

TokenType == [kind : Kinds, text : STRING, value : Int]

(* f collects the tokens among the first n units. *)
Keeps(f, units, n) ==
  f = [i \in 0 .. n |-> IF i = 0 THEN <<>>
                        ELSE IF Blank(units[i]) THEN f[i - 1]
                        ELSE Append(f[i - 1], units[i])]

(* What the scan adds at position i. *)
Kept(q, u) == IF Blank(u) THEN q ELSE Append(q, u)

(* A unit is a token or white space. *)
LEMMA KeptType ==
  ASSUME NEW q \in Seq(TokenType), NEW u \in Units
  PROVE  Kept(q, u) \in Seq(TokenType)
<1>1. CASE Blank(u)
  BY <1>1 DEF Kept
<1>2. CASE ~Blank(u)
  <2>1. u \in TokenType
    BY <1>2 DEF Units, TokenType, Blank
  <2>2. Kept(q, u) = Append(q, u)
    BY <1>2 DEF Kept
  <2> QED BY <2>1, <2>2
<1> QED BY <1>1, <1>2

(* The function that Tokens defines by recursion exists. *)
LEMMA KeepsExists ==
  ASSUME NEW units \in Seq(Units), NEW N \in Nat
  PROVE  \E f : Keeps(f, units, N)
<1> DEFINE T == {n \in Nat : ~\E f : Keeps(f, units, n)}
<1> SUFFICES ASSUME T # {} PROVE FALSE
  OBVIOUS
<1>1. T \subseteq Nat
  OBVIOUS
<1> HIDE DEF T
<1>2. PICK n \in T : \A y \in T : n <= y
  BY <1>1, LeastNumber
<1>3. n \in Nat /\ ~\E f : Keeps(f, units, n)
  BY <1>2 DEF T
<1>4. CASE n = 0
  <2> DEFINE f == [i \in 0 .. 0 |-> <<>>]
  <2>1. \A i \in 0 .. 0 : i = 0
    OBVIOUS
  <2>2. Keeps(f, units, 0)
    BY <2>1 DEF Keeps
  <2> QED BY <1>3, <1>4, <2>2
<1>5. CASE n # 0
  <2>1. n - 1 \in Nat /\ ~(n <= n - 1)
    BY <1>3, <1>5
  <2>2. PICK f : Keeps(f, units, n - 1)
    BY <1>2, <2>1 DEF T
  <2> DEFINE g == [i \in 0 .. n |-> IF i = n THEN Kept(f[n - 1], units[n]) ELSE f[i]]
  <2>3. \A i \in 0 .. n - 1 : f[i] = IF i = 0 THEN <<>>
                                    ELSE IF Blank(units[i]) THEN f[i - 1]
                                    ELSE Append(f[i - 1], units[i])
    BY <2>2 DEF Keeps
  <2>4. ASSUME NEW i \in 0 .. n
        PROVE  g[i] = IF i = 0 THEN <<>>
                      ELSE IF Blank(units[i]) THEN g[i - 1]
                      ELSE Append(g[i - 1], units[i])
    <3>1. CASE i = n
      <4>1. g[i] = Kept(f[n - 1], units[n]) /\ g[i - 1] = f[n - 1] /\ i # 0
        BY <1>3, <1>5, <3>1
      <4> HIDE DEF g
      <4> QED BY <3>1, <4>1 DEF Kept
    <3>2. CASE i # n /\ i # 0
      <4>1. g[i] = f[i] /\ g[i - 1] = f[i - 1] /\ i \in 0 .. n - 1
        BY <1>3, <3>2
      <4> HIDE DEF g
      <4> QED BY <2>3, <3>2, <4>1
    <3>3. CASE i = 0 /\ i # n
      <4>1. g[i] = f[i] /\ i \in 0 .. n - 1
        BY <1>3, <3>3
      <4> HIDE DEF g
      <4> QED BY <2>3, <3>3, <4>1
    <3> QED BY <3>1, <3>2, <3>3
  <2>5. g = [i \in 0 .. n |-> g[i]]
    OBVIOUS
  <2> HIDE DEF g
  <2>6. Keeps(g, units, n)
    BY <2>4, <2>5 DEF Keeps
  <2> QED BY <1>3, <2>6
<1> QED BY <1>4, <1>5

(* What is collected are tokens. *)
LEMMA KeepsTokens ==
  ASSUME NEW units \in Seq(Units), NEW f, Keeps(f, units, Len(units))
  PROVE  f[Len(units)] \in Seq(TokenType)
<1> DEFINE N == Len(units)
           T == {n \in 0 .. N : f[n] \notin Seq(TokenType)}
<1>0. N \in Nat
  OBVIOUS
<1> SUFFICES ASSUME T # {} PROVE FALSE
  BY <1>0
<1>1. T \subseteq Nat
  BY <1>0
<1>2. \A i \in 0 .. N : f[i] = IF i = 0 THEN <<>> ELSE Kept(f[i - 1], units[i])
  BY DEF Keeps, Kept
<1> HIDE DEF T, N
<1>3. PICK n \in T : \A y \in T : n <= y
  BY <1>1, LeastNumber
<1>4. n \in 0 .. N /\ f[n] \notin Seq(TokenType)
  BY <1>3 DEF T
<1>5. n # 0
  <2>1. <<>> \in Seq(TokenType)
    OBVIOUS
  <2> QED BY <1>2, <1>4, <2>1
<1>6. n - 1 \in 0 .. N /\ ~(n <= n - 1) /\ n \in 1 .. N
  BY <1>0, <1>4, <1>5
<1>7. f[n - 1] \in Seq(TokenType)
  BY <1>3, <1>6 DEF T
<1>8. units[n] \in Units
  BY <1>6, ElementOf DEF N
<1>9. f[n] = Kept(f[n - 1], units[n])
  BY <1>2, <1>4, <1>5
<1> QED BY <1>4, <1>7, <1>8, <1>9, KeptType

(* What is in the buffer is a statement, however fgets cut it. *)
LEMMA StatementType ==
  ASSUME NEW units \in Seq(Units)
  PROVE  StatementOf(units) \in Statements
<1> DEFINE kept == CHOOSE f : Keeps(f, units, Len(units))
<1>0. Len(units) \in Nat
  OBVIOUS
<1>1. Keeps(kept, units, Len(units))
  BY <1>0, KeepsExists
<1>2. Tokens(units) = kept[Len(units)]
  BY DEF Tokens, Keeps
<1> HIDE DEF kept
<1>3. Tokens(units) \in Seq(TokenType)
  BY <1>1, <1>2, KeepsTokens
<1>4. (units # <<>> /\ Blank(units[1])) \in BOOLEAN
  BY DEF Blank
<1> QED BY <1>3, <1>4 DEF StatementOf, Statements, TokenType

-----------------------------------------------------------------------------
(* What the programs are given, and what is left of it.                    *)

OptionNames == Flags \union NumberOptions \union {"--query"}

TextInv ==
  /\ program \in {"cli", "server"} /\ pc \in Points
  /\ argv \in Seq(Arguments) /\ typed \in Seq(Units) /\ stdin \in Seq(Units)
  /\ \A i \in 1 .. Len(argv) : argv[i].numeric => argv[i].text \notin OptionNames

(* Where fgets may stop. *)
Stops == {n \in 1 .. Len(stdin) : stdin[n] = Newline \/ n = Len(stdin) \/ n = BufferSize - 1}

(* fgets takes the units up to the first place where it may stop. *)
LEMMA TakenIs ==
  ASSUME stdin \in Seq(Units), stdin # <<>>
  PROVE  /\ Taken \in 1 .. Len(stdin) /\ Taken < BufferSize
         /\ \A i \in 1 .. Taken - 1 : stdin[i] # Newline
         /\ stdin[Taken] = Newline \/ Taken = Len(stdin) \/ Taken = BufferSize - 1
<1>0. Len(stdin) \in Nat \ {0} /\ BufferSize \in Nat \ {0, 1}
  BY BufferAssumption
<1>1. Stops \subseteq Nat /\ Len(stdin) \in Stops
  BY <1>0 DEF Stops
<1>2. PICK n \in Stops : \A m \in Stops : n <= m
  BY <1>1, LeastNumber
<1>3. n \in 1 .. Len(stdin) /\ (stdin[n] = Newline \/ n = Len(stdin) \/ n = BufferSize - 1)
  BY <1>2 DEF Stops
<1>4. ASSUME NEW i \in 1 .. n - 1 PROVE stdin[i] # Newline
  <2>1. i \in 1 .. Len(stdin) /\ ~(n <= i)
    BY <1>0, <1>3
  <2>2. i \notin Stops
    BY <1>2, <2>1
  <2> QED BY <2>1, <2>2 DEF Stops
<1>5. n < BufferSize
  <2> SUFFICES ASSUME ~(n < BufferSize) PROVE FALSE
    OBVIOUS
  <2>1. BufferSize - 1 \in 1 .. Len(stdin) /\ ~(n <= BufferSize - 1)
    BY <1>0, <1>3
  <2>2. BufferSize - 1 \in Stops
    BY <2>1 DEF Stops
  <2> QED BY <1>2, <2>1, <2>2
<1> DEFINE P(m) == /\ \A i \in 1 .. m - 1 : stdin[i] # Newline
                   /\ m < BufferSize
                   /\ stdin[m] = Newline \/ m = Len(stdin) \/ m = BufferSize - 1
<1>6. P(n)
  BY <1>3, <1>4, <1>5
<1>7. Taken = CHOOSE m \in 1 .. Len(stdin) : P(m)
  BY DEF Taken
<1>8. Taken \in 1 .. Len(stdin) /\ P(Taken)
  <2> HIDE DEF P
  <2> QED BY <1>3, <1>6, <1>7
<1> QED BY <1>8

(* The input is consumed from its beginning. *)
LEMMA RestIs ==
  ASSUME stdin \in Seq(Units), stdin # <<>>
  PROVE  /\ SubSeq(stdin, 1, Taken) \in Seq(Units)
         /\ SubSeq(stdin, Taken + 1, Len(stdin)) \in Seq(Units)
         /\ Len(SubSeq(stdin, Taken + 1, Len(stdin))) = Len(stdin) - Taken
         /\ \A i \in 1 .. Len(stdin) - Taken :
              SubSeq(stdin, Taken + 1, Len(stdin))[i] = stdin[Taken + i]
<1>1. PICK n \in 1 .. Len(stdin) : n = Taken
  BY TakenIs
<1>2. /\ SubSeq(stdin, 1, n) \in Seq(Units)
      /\ SubSeq(stdin, n + 1, Len(stdin)) \in Seq(Units)
      /\ Len(SubSeq(stdin, n + 1, Len(stdin))) = Len(stdin) - n
      /\ \A i \in 1 .. Len(stdin) - n : SubSeq(stdin, n + 1, Len(stdin))[i] = stdin[n + i]
  OBVIOUS
<1> QED BY <1>1, <1>2

(* What only reading the standard input changes, and what nothing does. *)
LEMMA TextSteps ==
  ASSUME TextInv, [Next]_vars
  PROVE  /\ program' = program /\ argv' = argv /\ typed' = typed
         /\ stdin' = stdin \/ RunLine
         /\ pc' \in Points
<1>1. CASE Help
  BY <1>1 DEF Help, Points
<1>2. CASE Serve
  BY <1>2 DEF Serve, TextInv
<1>3. CASE Query
  BY <1>3 DEF Query, TextInv
<1>4. ASSUME NEW o \in NumberOptions, SetOption(o)
      PROVE  /\ program' = program /\ argv' = argv /\ typed' = typed /\ stdin' = stdin
             /\ pc' \in Points
  BY <1>4 DEF SetOption, TextInv
<1>5. CASE BadArgument
  BY <1>5 DEF BadArgument, Points
<1>6. CASE ArgumentsEnd
  BY <1>6 DEF ArgumentsEnd, Points
<1>7. CASE RunQuery
  BY <1>7 DEF RunQuery, Points
<1>8. CASE PassOver
  BY <1>8 DEF PassOver, TextInv
<1>9. CASE QueriesEnd
  BY <1>9 DEF QueriesEnd, Points
<1>10. CASE RunLine
  BY <1>10 DEF RunLine, Points
<1>11. CASE InputEnds
  BY <1>11 DEF InputEnds, Points
<1>12. CASE UNCHANGED vars
  BY <1>12 DEF vars, TextInv
<1> QED BY <1>1, <1>2, <1>3, <1>4, <1>5, <1>6, <1>7, <1>8, <1>9, <1>10, <1>11, <1>12 DEF Next

LEMMA InitText == Init => TextInv
<1> SUFFICES ASSUME Init PROVE TextInv
  OBVIOUS
<1>1. PICK s \in Starts : program = s.program /\ argv = s.argv /\ typed = s.typed
  BY DEF Init
<1>2. stdin = typed /\ pc \in Points
  BY DEF Init, Points
<1> QED BY <1>1, <1>2, StartsAssumption DEF TextInv, OptionNames

LEMMA NextText == TextInv /\ [Next]_vars => TextInv'
<1> SUFFICES ASSUME TextInv, [Next]_vars PROVE TextInv'
  OBVIOUS
<1>1. stdin' \in Seq(Units)
  <2>1. CASE RunLine
    BY <2>1, RestIs DEF RunLine, TextInv
  <2>2. CASE stdin' = stdin
    BY <2>2 DEF TextInv
  <2> QED BY <2>1, <2>2, TextSteps
<1> QED BY <1>1, TextSteps DEF TextInv

-----------------------------------------------------------------------------
(* The first pass.  P is the set of the positions of the options that have *)
(* been read; it is no state of the program.                               *)

(* From option to option, P leads from the first argument to a. *)
Walk(P, a) ==
  /\ P \subseteq 1 .. a - 1
  /\ a > 1 => 1 \in P
  /\ \A i \in P : /\ i + Width(i) <= a
                  /\ Width(i) = 2 => i + 1 \notin P
                  /\ i + Width(i) < a => i + Width(i) \in P

(* The arguments at P are options, and have values of their kind. *)
Proper(P) == \A i \in P : /\ argv[i].text \in OptionNames
                          /\ argv[i].text \in NumberOptions => argv[i + 1].numeric

(* The value option o has after the options at P. *)
Told(P, o) ==
  LET at_o == {i \in P : argv[i].text = o}
  IN  IF at_o = {}
        THEN options[o] = Default
        ELSE \E last \in at_o : /\ \A i \in at_o : i <= last
                                /\ options[o] = Stored(o, argv[last + 1])

(* What has been learnt from the options at P. *)
Heard(P) ==
  /\ Proper(P)
  /\ has_query_argument <=> \E i \in P : argv[i].text = "--query"
  /\ \A o \in NumberOptions : Told(P, o)

AfterParsing == {"serving", "querying", "reading", "ended"}

(* In the second pass, at stands at an option, at the value of one, or     *)
(* behind the last argument.                                               *)
Placed(P) ==
  \/ at \in P \union {Len(argv) + 1}
  \/ /\ at - 1 \in P
     /\ argv[at - 1].text \in NumberOptions

WalkInv ==
  /\ at \in 1 .. Len(argv) + 1
  /\ options \in [NumberOptions -> Int]
  /\ program = "cli" => pc \in {"reading", "ended"} /\ ~has_query_argument
  /\ pc = "parsing" => \E P \in SUBSET (1 .. Len(argv)) : Walk(P, at) /\ Heard(P)
  /\ pc \in AfterParsing /\ program = "server" =>
       \E P \in SUBSET (1 .. Len(argv)) :
         /\ Walk(P, Len(argv) + 1) /\ Heard(P)
         /\ pc = "querying" => Placed(P)

(* An option more: one that stands alone, or one with its value. *)
LEMMA WalkOn ==
  ASSUME NEW P, NEW a \in Nat \ {0}, Walk(P, a), Width(a) \in {1, 2}
  PROVE  Walk(P \union {a}, a + Width(a))
<1> DEFINE w == Width(a)
           Q == P \union {a}
<1>0. \A i : Width(i) \in {1, 2}
  BY DEF Width
<1>1. \A i \in P : /\ i \in 1 .. a - 1
                   /\ i + Width(i) <= a
                   /\ Width(i) = 2 => i + 1 \notin P
                   /\ i + Width(i) < a => i + Width(i) \in P
  BY DEF Walk
<1>2. a > 1 => 1 \in P
  BY DEF Walk
<1>3. Q \subseteq 1 .. a + w - 1
  BY <1>1
<1>4. 1 \in Q
  BY <1>2
<1>5. ASSUME NEW i \in P
      PROVE  /\ i + Width(i) <= a + w
             /\ Width(i) = 2 => i + 1 \notin Q
             /\ i + Width(i) < a + w => i + Width(i) \in Q
  <2>1. PICK v \in {1, 2} : v = Width(i)
    BY <1>0
  <2>2. i \in 1 .. a - 1 /\ i + v <= a /\ (v = 2 => i + 1 \notin P) /\ (i + v < a => i + v \in P)
    BY <1>1, <2>1
  <2>3. i + v <= a + w
    BY <2>2
  <2>4. v = 2 => i + 1 \notin Q
    BY <2>2
  <2>5. i + v \in Q
    BY <2>2
  <2> QED BY <2>1, <2>3, <2>4, <2>5
<1>6. a + 1 \notin Q
  BY <1>1
<1>7. ~(a + w < a + w) /\ a + w <= a + w
  OBVIOUS
<1>8. \A i \in Q : /\ i + Width(i) <= a + w
                   /\ Width(i) = 2 => i + 1 \notin Q
                   /\ i + Width(i) < a + w => i + Width(i) \in Q
  BY <1>5, <1>6, <1>7
<1> QED BY <1>3, <1>4, <1>8 DEF Walk

(* Of two arguments in a row one is an option. *)
LEMMA NoGap ==
  ASSUME NEW P, NEW n \in Nat, P \subseteq 1 .. n, n # 0 => 1 \in P,
         \A i \in P : i + Width(i) <= n => i + Width(i) \in P,
         NEW k \in 1 .. n, k + 1 \in 1 .. n, k + 1 \notin P
  PROVE  k \in P
<1> DEFINE T == {i \in 1 .. n - 1 : i \notin P /\ i + 1 \notin P}
<1>0. \A i : Width(i) \in {1, 2}
  BY DEF Width
<1> SUFFICES ASSUME T # {} PROVE FALSE
  OBVIOUS
<1>1. T \subseteq Nat
  OBVIOUS
<1> HIDE DEF T
<1>2. PICK m \in T : \A y \in T : m <= y
  BY <1>1, LeastNumber
<1>3. m \in 1 .. n - 1 /\ m \notin P /\ m + 1 \notin P
  BY <1>2 DEF T
<1>4. m - 1 \in 1 .. n - 1 /\ ~(m <= m - 1) /\ (m - 1) + 1 = m /\ (m - 1) + 2 = m + 1
  BY <1>3
<1>5. m - 1 \in P
  BY <1>2, <1>3, <1>4 DEF T
<1>6. CASE Width(m - 1) = 1
  BY <1>3, <1>4, <1>5, <1>6
<1>7. CASE Width(m - 1) = 2
  BY <1>3, <1>4, <1>5, <1>7
<1> QED BY <1>0, <1>6, <1>7

(* Two walks to the same place are the same. *)
LEMMA OneWalk ==
  ASSUME NEW P, NEW Q, Len(argv) \in Nat, Walk(P, Len(argv) + 1),
         Q \subseteq 1 .. Len(argv), Len(argv) # 0 => 1 \in Q,
         \A i \in Q : /\ Width(i) = 2 => i + 1 \notin Q
                      /\ i + Width(i) <= Len(argv) => i + Width(i) \in Q
  PROVE  P = Q
<1> DEFINE n == Len(argv)
           T == {i \in 1 .. n : (i \in P) # (i \in Q)}
<1>0. \A i : Width(i) \in {1, 2}
  BY DEF Width
<1>1. P \subseteq 1 .. n
  <2>1. (n + 1) - 1 = n
    OBVIOUS
  <2> QED BY <2>1 DEF Walk
<1>2. n # 0 => 1 \in P
  BY DEF Walk
<1>3. \A i \in P : /\ Width(i) = 2 => i + 1 \notin P
                   /\ i + Width(i) <= n => i + Width(i) \in P
  BY <1>0, <1>1 DEF Walk
<1> SUFFICES ASSUME T # {} PROVE FALSE
  BY <1>1
<1>4. T \subseteq Nat
  OBVIOUS
<1> HIDE DEF T
<1>5. PICK m \in T : \A y \in T : m <= y
  BY <1>4, LeastNumber
<1>6. m \in 1 .. n /\ (m \in P) # (m \in Q)
  BY <1>5 DEF T
<1>7. \A i \in 1 .. m - 1 : i \in P <=> i \in Q
  BY <1>5, <1>6 DEF T
<1>8. m # 1
  BY <1>2, <1>6
<1>9. m - 1 \in 1 .. m - 1 /\ m - 1 \in 1 .. n
  BY <1>6, <1>8
<1>10. CASE m - 1 \in P
  <2>1. m - 1 \in Q
    BY <1>7, <1>9, <1>10
  <2>2. CASE Width(m - 1) = 1
    BY <1>3, <1>6, <1>10, <2>1, <2>2
  <2>3. CASE Width(m - 1) = 2
    BY <1>3, <1>6, <1>10, <2>1, <2>3
  <2> QED BY <1>0, <2>2, <2>3
<1>11. CASE m - 1 \notin P
  <2>1. m - 1 \notin Q
    BY <1>7, <1>9, <1>11
  <2>2. m - 1 # 1
    BY <1>2, <1>6, <1>11
  <2>3. PICK k \in 1 .. n : /\ k + 1 = m - 1 /\ k + 2 = m /\ k \in 1 .. m - 1
                            /\ k + 1 \in 1 .. n /\ k + 1 <= n /\ k + 2 <= n
    <3>1. m - 2 \in 1 .. n /\ (m - 2) + 1 = m - 1 /\ (m - 2) + 2 = m /\ m - 2 \in 1 .. m - 1
      BY <1>6, <1>8, <2>2
    <3>2. m - 1 \in 1 .. n /\ m - 1 <= n /\ m <= n
      BY <1>6, <1>8
    <3> QED BY <3>1, <3>2
  <2>4. k \in P
    <3>1. k + 1 \notin P
      BY <1>11, <2>3
    <3>2. n \in Nat /\ \A i \in P : i + Width(i) <= n => i + Width(i) \in P
      BY <1>3
    <3> HIDE DEF n
    <3> QED BY <1>1, <1>2, <2>3, <3>1, <3>2, NoGap
  <2>5. k \in Q
    BY <1>7, <2>3, <2>4
  <2>6. Width(k) = 2
    <3>1. ASSUME Width(k) = 1 PROVE k + 1 \in P
      BY <1>3, <2>3, <2>4, <3>1
    <3> QED BY <1>0, <1>11, <2>3, <3>1
  <2>7. k + 2 \in P /\ k + 2 \in Q
    BY <1>3, <2>3, <2>4, <2>5, <2>6
  <2> QED BY <1>6, <2>3, <2>7
<1> QED BY <1>10, <1>11

(* Walks are about the arguments, which do not change. *)
LEMMA SameWalk ==
  ASSUME NEW P, NEW a, argv' = argv
  PROVE  Walk(P, a)' <=> Walk(P, a)
BY DEF Walk, Width

LEMMA SameHeard ==
  ASSUME NEW P, argv' = argv, options' = options, has_query_argument' = has_query_argument
  PROVE  Heard(P)' <=> Heard(P)
BY DEF Heard, Proper, Told

(* The first pass has read one more argument, which is no option with a    *)
(* number.                                                                 *)
LEMMA HeardFlag ==
  ASSUME TextInv, WalkInv, pc = "parsing", at <= Len(argv), argv[at].text \in {"--serve", "--query"},
         argv' = argv, options' = options, at + Width(at) <= Len(argv) + 1, at' = at + Width(at),
         has_query_argument' <=> (has_query_argument \/ argv[at].text = "--query")
  PROVE  \E P \in SUBSET (1 .. Len(argv')) : Walk(P, at)' /\ Heard(P)'
<1>1. PICK P \in SUBSET (1 .. Len(argv)) : Walk(P, at) /\ Heard(P)
  BY DEF WalkInv
<1> PICK Q : Q = P \union {at}
  OBVIOUS
<1> PICK b : b = at'
  OBVIOUS
<1>2. at \in Nat \ {0} /\ at \in 1 .. Len(argv) /\ Width(at) \in {1, 2}
  BY DEF WalkInv, TextInv, Width
<1>3. Walk(Q, at + Width(at))
  BY <1>1, <1>2, WalkOn
<1>4. Walk(Q, at)'
  <2>1. Walk(Q, b)
    BY <1>3
  <2>2. Walk(Q, b)'
    BY <2>1, SameWalk
  <2> QED BY <2>2 DEF Walk
<1>5. /\ argv[at].text \notin NumberOptions /\ argv[at].text \in OptionNames
      /\ \A o \in NumberOptions : argv[at].text # o
  BY DEF NumberOptions, OptionNames, Flags
<1>6. Proper(Q)'
  BY <1>1, <1>5 DEF Heard, Proper
<1>7. has_query_argument' <=> \E i \in Q : argv[i].text = "--query"
  BY <1>1 DEF Heard
<1>8. ASSUME NEW o \in NumberOptions PROVE Told(Q, o)'
  <2>1. {i \in Q : argv[i].text = o} = {i \in P : argv[i].text = o}
    BY <1>5
  <2>2. Told(P, o)
    BY <1>1 DEF Heard
  <2> QED BY <2>1, <2>2 DEF Told
<1>9. Heard(Q)'
  BY <1>6, <1>7, <1>8 DEF Heard
<1> QED BY <1>2, <1>4, <1>9

(* What is stored for an option is a number. *)
LEMMA StoredType ==
  ASSUME NEW o \in NumberOptions, NEW a \in Arguments
  PROVE  Stored(o, a) \in Int
<1>1. strtoul(a.value) \in Int
  BY NumbersAssumption DEF strtoul, Arguments
<1>2. \A n \in Int : n % UIntSize \in Int
  BY NumbersAssumption
<1> QED BY <1>1, <1>2 DEF Stored

(* The first pass has read an option and its number. *)
LEMMA HeardOption ==
  ASSUME TextInv, WalkInv, NEW o \in NumberOptions, SetOption(o)
  PROVE  /\ \E P \in SUBSET (1 .. Len(argv')) : Walk(P, at)' /\ Heard(P)'
         /\ at' \in 1 .. Len(argv') + 1
         /\ options' \in [NumberOptions -> Int]
<1>0. /\ pc = "parsing" /\ at < Len(argv) /\ argv[at].text = o /\ argv' = argv
      /\ Accepts(o, argv[at + 1]) /\ at' = at + 2
      /\ options' = [options EXCEPT ![o] = Stored(o, argv[at + 1])]
      /\ has_query_argument' = has_query_argument
  BY DEF SetOption, Parsing
<1>1. PICK P \in SUBSET (1 .. Len(argv)) : Walk(P, at) /\ Heard(P)
  BY <1>0 DEF WalkInv
<1> PICK Q : Q = P \union {at}
  OBVIOUS
<1> PICK b : b = at'
  OBVIOUS
<1>2. /\ at \in Nat \ {0} /\ at \in 1 .. Len(argv) /\ at + 1 \in 1 .. Len(argv)
      /\ Len(argv) \in Nat /\ options \in [NumberOptions -> Int]
  BY <1>0 DEF WalkInv, TextInv
<1>3. Width(at) = 2
  BY <1>0 DEF Width, NumberOptions, Flags
<1>4. Walk(Q, at + 2)
  <2>1. Width(at) \in {1, 2}
    BY <1>3
  <2> QED BY <1>1, <1>2, <1>3, <2>1, WalkOn
<1>5. Walk(Q, at)'
  <2>1. Walk(Q, b)
    BY <1>0, <1>4
  <2>2. Walk(Q, b)'
    BY <1>0, <2>1, SameWalk
  <2> QED BY <2>2 DEF Walk
<1>6. argv[at + 1] \in Arguments /\ argv[at + 1].numeric
  BY <1>0, <1>2, ElementOf DEF TextInv, Accepts
<1>7. Proper(Q)'
  <2>1. o \in OptionNames
    BY DEF OptionNames
  <2> QED BY <1>0, <1>1, <1>6, <2>1 DEF Heard, Proper
<1>8. has_query_argument' <=> \E i \in Q : argv'[i].text = "--query"
  <2>1. o # "--query"
    BY DEF NumberOptions
  <2> QED BY <1>0, <1>1, <2>1 DEF Heard
<1>9. \A i \in P : i \in 1 .. at - 1 /\ i <= at
  BY <1>1, <1>2 DEF Walk
<1>10. ASSUME NEW x \in NumberOptions PROVE Told(Q, x)'
  <2>1. CASE x = o
    <3> PICK S : S = {i \in Q : argv[i].text = o}
      OBVIOUS
    <3>1. at \in S /\ \A i \in S : i <= at
      BY <1>0, <1>2, <1>9
    <3>2. options'[o] = Stored(o, argv[at + 1])
      BY <1>0, <1>2
    <3>3. S # {} /\ \E last \in S : (\A i \in S : i <= last) /\ options'[o] = Stored(o, argv[last + 1])
      BY <3>1, <3>2
    <3> QED BY <1>0, <2>1, <3>3 DEF Told
  <2>2. CASE x # o
    <3>1. {i \in Q : argv[i].text = x} = {i \in P : argv[i].text = x}
      BY <1>0, <2>2
    <3>2. Told(P, x)
      BY <1>1 DEF Heard
    <3>3. options'[x] = options[x]
      BY <1>0, <1>2, <2>2
    <3> QED BY <1>0, <3>1, <3>2, <3>3 DEF Told
  <2> QED BY <2>1, <2>2
<1>11. Heard(Q)'
  BY <1>7, <1>8, <1>10 DEF Heard
<1>12. Q \in SUBSET (1 .. Len(argv')) /\ at' \in 1 .. Len(argv') + 1
  BY <1>0, <1>2
<1>13. options' \in [NumberOptions -> Int]
  BY <1>0, <1>2, <1>6, StoredType
<1> QED BY <1>5, <1>11, <1>12, <1>13

(* The walk over all arguments, seen from one of its options. *)
LEMMA WalkStep ==
  ASSUME NEW P, NEW i \in P, Len(argv) \in Nat, Walk(P, Len(argv) + 1)
  PROVE  /\ i \in 1 .. Len(argv)
         /\ i + Width(i) \in 1 .. Len(argv) + 1
         /\ i + Width(i) \in P \union {Len(argv) + 1}
<1>1. PICK w \in {1, 2} : w = Width(i)
  BY DEF Width
<1>2. /\ i \in 1 .. (Len(argv) + 1) - 1 /\ i + w <= Len(argv) + 1
      /\ i + w < Len(argv) + 1 => i + w \in P
  BY <1>1 DEF Walk
<1> QED BY <1>1, <1>2

(* Where the second pass is when it finds --query, or something else. *)
LEMMA SecondPass ==
  ASSUME TextInv, WalkInv, NEW P \in SUBSET (1 .. Len(argv)), at <= Len(argv),
         Walk(P, Len(argv) + 1), Proper(P), Placed(P)
  PROVE  /\ argv[at].text = "--query" =>
              /\ at \in P /\ Width(at) = 2
              /\ at + 1 \in 1 .. Len(argv)
              /\ at + 2 \in P \union {Len(argv) + 1} /\ at + 2 \in 1 .. Len(argv) + 1
         /\ argv[at].text # "--query" =>
              /\ at + 1 \in 1 .. Len(argv) + 1
              /\ \/ at + 1 \in P \union {Len(argv) + 1}
                 \/ at \in P /\ argv[at].text \in NumberOptions
<1>0. at \in 1 .. Len(argv) /\ Len(argv) \in Nat /\ at # Len(argv) + 1
  BY DEF WalkInv, TextInv
<1>1. CASE at \in P
  <2>1. argv[at].text \in OptionNames
    BY <1>1 DEF Proper
  <2>2. CASE argv[at].text = "--query"
    <3>1. Width(at) = 2
      BY <2>2 DEF Width, Flags
    <3>2. at + 2 \in P \union {Len(argv) + 1} /\ at + 2 \in 1 .. Len(argv) + 1
      BY <1>0, <1>1, <3>1, WalkStep
    <3>3. at + 1 \in 1 .. Len(argv)
      BY <1>0, <3>2
    <3> QED BY <1>1, <2>2, <3>1, <3>2, <3>3
  <2>3. CASE argv[at].text \in Flags
    <3>1. Width(at) = 1 /\ argv[at].text # "--query"
      BY <2>3 DEF Width, Flags
    <3>2. at + 1 \in P \union {Len(argv) + 1} /\ at + 1 \in 1 .. Len(argv) + 1
      BY <1>0, <1>1, <3>1, WalkStep
    <3> QED BY <3>1, <3>2
  <2>4. CASE argv[at].text \in NumberOptions
    <3>1. argv[at].text # "--query" /\ at + 1 \in 1 .. Len(argv) + 1
      BY <1>0, <2>4 DEF NumberOptions
    <3> QED BY <1>1, <2>4, <3>1
  <2> QED BY <2>1, <2>2, <2>3, <2>4 DEF OptionNames
<1>2. CASE at \notin P
  <2>1. at - 1 \in P /\ argv[at - 1].text \in NumberOptions
    BY <1>0, <1>2 DEF Placed
  <2>2. Width(at - 1) = 2
    BY <2>1 DEF Width, Flags, NumberOptions
  <2>3. (at - 1) + 2 = at + 1 /\ (at - 1) + 1 = at
    BY <1>0
  <2>4. at + 1 \in P \union {Len(argv) + 1} /\ at + 1 \in 1 .. Len(argv) + 1
    BY <1>0, <2>1, <2>2, <2>3, WalkStep
  <2>5. argv[at].numeric
    BY <2>1, <2>3 DEF Proper
  <2>6. argv[at].text # "--query"
    BY <1>0, <2>5 DEF TextInv, OptionNames
  <2> QED BY <2>4, <2>6
<1> QED BY <1>1, <1>2

LEMMA InitWalk == TextInv /\ Init => WalkInv
<1> SUFFICES ASSUME TextInv, Init PROVE WalkInv
  OBVIOUS
<1>1. /\ at = 1 /\ ~has_query_argument /\ options = [o \in NumberOptions |-> Default]
      /\ pc = IF program = "server" THEN "parsing" ELSE "reading"
  BY DEF Init
<1>2. Len(argv) \in Nat /\ program \in {"cli", "server"}
  BY DEF TextInv
<1>3. Walk({}, at) /\ Heard({})
  <2>1. Walk({}, at)
    BY <1>1 DEF Walk
  <2>2. \A o \in NumberOptions : Told({}, o)
    BY <1>1 DEF Told
  <2> QED BY <1>1, <2>1, <2>2 DEF Heard, Proper
<1>4. at \in 1 .. Len(argv) + 1 /\ options \in [NumberOptions -> Int]
  BY <1>1, <1>2 DEF Default
<1>5. {} \in SUBSET (1 .. Len(argv))
  OBVIOUS
<1> QED BY <1>1, <1>2, <1>3, <1>4, <1>5 DEF WalkInv, AfterParsing

(* Steps behind the first pass leave what it found alone. *)
LEMMA LaterWalk ==
  ASSUME TextInv, WalkInv, pc \in AfterParsing, pc' \in AfterParsing,
         argv' = argv, program' = program, options' = options,
         has_query_argument' = has_query_argument,
         at' \in 1 .. Len(argv) + 1,
         program = "cli" => pc' \in {"reading", "ended"},
         pc' = "querying" => program = "server" /\
           \A P \in SUBSET (1 .. Len(argv)) :
             Walk(P, Len(argv) + 1) /\ Heard(P) /\ (pc = "querying" => Placed(P)) => Placed(P)'
  PROVE  WalkInv'
<1>1. /\ at' \in 1 .. Len(argv') + 1 /\ options' \in [NumberOptions -> Int]
      /\ program' = "cli" => pc' \in {"reading", "ended"} /\ ~has_query_argument'
      /\ pc' # "parsing"
  BY DEF WalkInv, AfterParsing
<1>2. ASSUME program' = "server"
      PROVE  \E P \in SUBSET (1 .. Len(argv')) :
               /\ Walk(P, Len(argv) + 1)' /\ Heard(P)'
               /\ pc' = "querying" => Placed(P)'
  <2>1. PICK P \in SUBSET (1 .. Len(argv)) :
          Walk(P, Len(argv) + 1) /\ Heard(P) /\ (pc = "querying" => Placed(P))
    BY <1>2 DEF WalkInv
  <2>2. Heard(P)'
    BY <2>1, SameHeard
  <2>3. Walk(P, Len(argv) + 1)'
    BY <2>1 DEF Walk, Width
  <2> QED BY <2>1, <2>2, <2>3
<1> QED BY <1>1, <1>2 DEF WalkInv

LEMMA NextWalk == TextInv /\ WalkInv /\ [Next]_vars => WalkInv'
<1> SUFFICES ASSUME TextInv, WalkInv, [Next]_vars PROVE WalkInv'
  OBVIOUS
<1>0. /\ argv' = argv /\ program' = program /\ Len(argv) \in Nat /\ at \in 1 .. Len(argv) + 1
      /\ options \in [NumberOptions -> Int] /\ program \in {"cli", "server"}
      /\ pc = "parsing" => program = "server"
  BY TextSteps DEF TextInv, WalkInv
<1>1. CASE Help \/ BadArgument
  <2>1. /\ pc' \notin AfterParsing /\ pc' # "parsing" /\ pc = "parsing"
        /\ at' = at /\ options' = options
    BY <1>1 DEF Help, BadArgument, Parsing, AfterParsing, argVars
  <2> QED BY <1>0, <2>1 DEF WalkInv
<1>2. CASE Serve
  <2>1. /\ pc = "parsing" /\ at <= Len(argv) /\ argv[at].text = "--serve" /\ options' = options
        /\ at' = at + 1 /\ has_query_argument' = has_query_argument /\ pc' = pc
    BY <1>2 DEF Serve, Parsing
  <2>2. Width(at) = 1 /\ at + 1 <= Len(argv) + 1 /\ at + 1 \in 1 .. Len(argv) + 1
    BY <1>0, <2>1 DEF Width, Flags
  <2>3. has_query_argument' <=> (has_query_argument \/ argv[at].text = "--query")
    BY <2>1
  <2>4. \E P \in SUBSET (1 .. Len(argv')) : Walk(P, at)' /\ Heard(P)'
    BY <2>1, <2>2, <2>3, <1>0, HeardFlag
  <2> QED BY <1>0, <2>1, <2>2, <2>4 DEF WalkInv, AfterParsing
<1>3. CASE Query
  <2>1. /\ pc = "parsing" /\ at < Len(argv) /\ argv[at].text = "--query" /\ options' = options
        /\ at' = at + 2 /\ has_query_argument' = TRUE /\ pc' = pc
    BY <1>3 DEF Query, Parsing
  <2>2. Width(at) = 2 /\ at + 2 <= Len(argv) + 1 /\ at + 2 \in 1 .. Len(argv) + 1 /\ at <= Len(argv)
    BY <1>0, <2>1 DEF Width, Flags
  <2>3. has_query_argument' <=> (has_query_argument \/ argv[at].text = "--query")
    BY <2>1
  <2>4. \E P \in SUBSET (1 .. Len(argv')) : Walk(P, at)' /\ Heard(P)'
    BY <2>1, <2>2, <2>3, <1>0, HeardFlag
  <2> QED BY <1>0, <2>1, <2>2, <2>4 DEF WalkInv, AfterParsing
<1>4. ASSUME NEW o \in NumberOptions, SetOption(o) PROVE WalkInv'
  <2>1. pc' = pc /\ pc = "parsing"
    BY <1>4 DEF SetOption, Parsing
  <2>2. /\ \E P \in SUBSET (1 .. Len(argv')) : Walk(P, at)' /\ Heard(P)'
        /\ at' \in 1 .. Len(argv') + 1
        /\ options' \in [NumberOptions -> Int]
    BY <1>4, HeardOption
  <2> QED BY <1>0, <2>1, <2>2 DEF WalkInv, AfterParsing
<1>5. CASE ArgumentsEnd
  <2>1. /\ pc = "parsing" /\ at > Len(argv) /\ at' = 1 /\ options' = options
        /\ has_query_argument' = has_query_argument /\ pc' # "parsing"
    BY <1>5 DEF ArgumentsEnd, argVars
  <2>2. PICK P \in SUBSET (1 .. Len(argv)) : Walk(P, at) /\ Heard(P)
    BY <2>1 DEF WalkInv
  <2>3. Walk(P, Len(argv) + 1)
    <3>1. at = Len(argv) + 1
      BY <1>0, <2>1
    <3> QED BY <2>2, <3>1
  <2>4. Heard(P)'
    BY <1>0, <2>1, <2>2, SameHeard
  <2>5. Walk(P, Len(argv) + 1)'
    BY <1>0, <2>3 DEF Walk, Width
  <2>6. Placed(P)'
    BY <1>0, <2>1, <2>3 DEF Placed, Walk
  <2>7. at' \in 1 .. Len(argv') + 1 /\ program' = "server"
    BY <1>0, <2>1
  <2> QED BY <1>0, <2>1, <2>4, <2>5, <2>6, <2>7 DEF WalkInv
<1>6. CASE RunQuery
  <2>1. /\ pc = "querying" /\ at <= Len(argv) /\ argv[at].text = "--query" /\ at' = at + 2
        /\ options' = options /\ has_query_argument' = has_query_argument
        /\ pc' \in {"ended", "querying"}
    BY <1>6 DEF RunQuery, argVars
  <2>2. program = "server" /\ pc \in AfterParsing /\ pc' \in AfterParsing
    BY <1>0, <2>1 DEF WalkInv, AfterParsing
  <2>3. ASSUME NEW P \in SUBSET (1 .. Len(argv)),
               Walk(P, Len(argv) + 1), Heard(P), pc = "querying" => Placed(P)
        PROVE  Placed(P)' /\ at' \in 1 .. Len(argv) + 1
    <3>1. at + 2 \in P \union {Len(argv) + 1} /\ at + 2 \in 1 .. Len(argv) + 1
      BY <2>1, <2>3, SecondPass DEF Heard
    <3> QED BY <1>0, <2>1, <3>1 DEF Placed
  <2>4. at' \in 1 .. Len(argv) + 1
    BY <2>2, <2>3 DEF WalkInv
  <2> QED BY <1>0, <2>1, <2>2, <2>3, <2>4, LaterWalk
<1>7. CASE PassOver
  <2>1. /\ pc = "querying" /\ at <= Len(argv) /\ argv[at].text # "--query" /\ at' = at + 1
        /\ options' = options /\ has_query_argument' = has_query_argument
        /\ pc' = "querying"
    BY <1>7 DEF PassOver, argVars
  <2>2. program = "server" /\ pc \in AfterParsing /\ pc' \in AfterParsing
    BY <1>0, <2>1 DEF WalkInv, AfterParsing
  <2>3. ASSUME NEW P \in SUBSET (1 .. Len(argv)),
               Walk(P, Len(argv) + 1), Heard(P), pc = "querying" => Placed(P)
        PROVE  Placed(P)' /\ at' \in 1 .. Len(argv) + 1
    <3>1. /\ at + 1 \in 1 .. Len(argv) + 1
          /\ \/ at + 1 \in P \union {Len(argv) + 1}
             \/ at \in P /\ argv[at].text \in NumberOptions
      BY <2>1, <2>3, SecondPass DEF Heard
    <3>2. at' - 1 = at
      BY <1>0, <2>1
    <3> QED BY <1>0, <2>1, <3>1, <3>2 DEF Placed
  <2>4. at' \in 1 .. Len(argv) + 1
    BY <2>2, <2>3 DEF WalkInv
  <2> QED BY <1>0, <2>1, <2>2, <2>3, <2>4, LaterWalk
<1>8. CASE QueriesEnd \/ RunLine \/ InputEnds
  <2>1. /\ pc \in AfterParsing /\ pc' \in {"reading", "ended"} /\ pc' \in AfterParsing /\ at' = at
        /\ options' = options /\ has_query_argument' = has_query_argument /\ pc' # "querying"
    BY <1>8 DEF QueriesEnd, RunLine, InputEnds, argVars, AfterParsing
  <2> QED BY <1>0, <2>1, LaterWalk
<1>9. CASE UNCHANGED vars
  <2>1. /\ pc' = pc /\ at' = at /\ options' = options /\ has_query_argument' = has_query_argument
    BY <1>9 DEF vars
  <2>2. \A P : Placed(P)' <=> Placed(P)
    BY <1>0, <2>1 DEF Placed
  <2>3. \A P : Heard(P)' <=> Heard(P)
    BY <1>0, <2>1, SameHeard
  <2>4. \A P : (Walk(P, Len(argv) + 1)' <=> Walk(P, Len(argv) + 1)) /\ (Walk(P, at)' <=> Walk(P, at))
    BY <1>0, <2>1 DEF Walk, Width
  <2> QED BY <1>0, <2>1, <2>2, <2>3, <2>4 DEF WalkInv
<1> QED BY <1>1, <1>2, <1>3, <1>4, <1>5, <1>6, <1>7, <1>8, <1>9 DEF Next

-----------------------------------------------------------------------------
(* The statements that have been run, and the rows.                        *)

Paths == SelectPaths \union {"insert", "exit", "syntax_error", "query_error", "error"}
EntryType == [stmt : Statements, path : Paths, ids : SUBSET Int]
RowType == [id : Int, name : STRING, age : Int]

(* The age that an INSERT stores, and the one that a SELECT compares with. *)
AgeOf(s) == sql_parse_int(At(s, 8).value)
OpOf(s) == At(s, WhereAt(s) + 2).text
Operand(s) == At(s, WhereAt(s) + 3).value

(* Ids are given once; and the row of every INSERT is there. *)
TableInv ==
  /\ ran \in Seq(EntryType) /\ rows \in Seq(RowType) /\ next_id \in Int
  /\ \A k \in 1 .. Len(rows) : rows[k].id < next_id
  /\ \A k, m \in 1 .. Len(rows) : rows[k].id = rows[m].id => k = m
  /\ \A i \in 1 .. Len(ran) :
       ran[i].path = "insert" =>
         /\ At(ran[i].stmt, 8).kind = "number"
         /\ \E k \in 1 .. Len(rows) : ran[i].ids = {rows[k].id} /\ rows[k].age = AgeOf(ran[i].stmt)

(* AgesCompare for the statements m and n. *)
AgesCompareAt(i, j) ==
  ran[i].path = "insert" /\ ran[j].path = "age" =>
    LET m == At(ran[i].stmt, 8).value
        op == OpOf(ran[j].stmt)
        n == Operand(ran[j].stmt)
        found == ran[i].ids \subseteq ran[j].ids
    IN  /\ m = n /\ op = "=" => found
        /\ InRange(m) /\ InRange(n) => (found <=> InOrder(m, op, n))

(* WHERE compares with a number, and that is the only comparison. *)
ComparesNumber(s) ==
  /\ At(s, WhereAt(s) + 3).kind = "number"
  /\ \A k \in DOMAIN s.tokens : s.tokens[k].kind = "comparison" <=> k = WhereAt(s) + 2
  /\ WhereAt(s) + 2 \in DOMAIN s.tokens

AgesInv ==
  /\ \A i, j \in 1 .. Len(ran) : i < j => AgesCompareAt(i, j)
  /\ \A i \in 1 .. Len(ran) : ran[i].path = "age" => ComparesNumber(ran[i].stmt)

(* The tokens of a statement. *)
LEMMA AtType ==
  ASSUME NEW s \in Statements, NEW i \in Nat
  PROVE  At(s, i).value \in Int /\ (At(s, i).kind # "end" => At(s, i).text \in STRING)
<1>1. s.tokens \in Seq(TokenType)
  BY DEF Statements, TokenType
<1>2. CASE i \in 1 .. Len(s.tokens)
  <2>1. s.tokens[i] \in TokenType
    BY <1>1, <1>2, ElementOf
  <2>2. s.tokens[i].text \in STRING /\ s.tokens[i].value \in Int
    BY <2>1 DEF TokenType
  <2>3. At(s, i) = s.tokens[i]
    BY <1>2 DEF At
  <2> QED BY <2>2, <2>3
<1>3. CASE i \notin 1 .. Len(s.tokens)
  <2>1. At(s, i) = Token("end", "none", 0)
    BY <1>3 DEF At
  <2> QED BY <2>1 DEF Token
<1> QED BY <1>2, <1>3

(* A number is reduced to an int; one that fits an int stays as it is. *)
LEMMA ParseInt ==
  ASSUME NEW n \in Int
  PROVE  sql_parse_int(n) \in Int /\ (InRange(n) => sql_parse_int(n) = n)
<1>0. IntSize \in Nat \ {0} /\ LongMax \in Nat /\ IntSize <= 2 * (LongMax + 1)
  BY WidthAssumption, NumbersAssumption
<1>1. strtol(n) \in Int
  BY <1>0 DEF strtol
<1>2. strtol(n) % IntSize \in Int
  BY <1>0, <1>1
<1>3. sql_parse_int(n) \in Int
  BY <1>0, <1>2 DEF sql_parse_int
<1>4. ASSUME InRange(n) PROVE sql_parse_int(n) = n
  <2>1. 2 * n < IntSize /\ 2 * n >= -IntSize
    BY <1>4 DEF InRange
  <2>2. strtol(n) = n
    BY <1>0, <2>1 DEF strtol
  <2>3. CASE n >= 0
    <3>1. n % IntSize = n
      BY <1>0, <2>1, <2>3
    <3> QED BY <1>0, <2>1, <2>2, <3>1 DEF sql_parse_int
  <2>4. CASE n < 0
    <3>1. n % IntSize = n + IntSize
      BY <1>0, <2>1, <2>4
    <3> QED BY <1>0, <2>1, <2>2, <2>4, <3>1 DEF sql_parse_int
  <2> QED BY <2>3, <2>4
<1> QED BY <1>3, <1>4

(* The tokens of a SELECT by age. *)
LEMMA OneComparison ==
  ASSUME NEW s \in Statements,
         sql_match_keyword(s, 1, "select"), sql_match_char(s, 2, "*"),
         sql_match_keyword(s, 3, "from"), sql_match_keyword(s, 4, "users"),
         WhereForm(s, WhereAt(s)), LiteralForm(s, WhereAt(s)), At(s, WhereAt(s) + 1).text = "age"
  PROVE  ComparesNumber(s)
<1> DEFINE w == WhereAt(s)
           n == Len(s.tokens)
<1>0. w \in {5, 6} /\ n \in Nat /\ DOMAIN s.tokens = 1 .. n
  BY WhereAtIs DEF Statements
<1>1. At(s, w + 2).kind = "comparison" /\ At(s, w + 3).kind = "number"
  BY DEF WhereForm, LiteralForm, sql_parse_comparison
<1>2. \A k : At(s, k).kind # "end" => k \in 1 .. n /\ At(s, k) = s.tokens[k]
  BY DEF At, Token
<1>3. /\ At(s, 1).kind # "comparison" /\ At(s, 2).kind # "comparison"
      /\ At(s, 3).kind # "comparison" /\ At(s, 4).kind # "comparison"
      /\ At(s, w).kind # "comparison" /\ At(s, w + 1).kind # "comparison"
      /\ w = 6 => At(s, 5).kind # "comparison"
  BY WhereAtIs DEF WhereForm, sql_match_keyword, sql_match_char, sql_parse_identifier
<1>4. At(s, w + 4).kind # "comparison"
  BY DEF LiteralForm, sql_match_statement_end, PastSemicolon, sql_match_char
<1>5. n <= w + 4
  <2>1. PICK k \in {w + 4, w + 5} : At(s, k).kind = "end"
    <3>1. sql_match_statement_end(s, w + 4)
      BY DEF LiteralForm
    <3>2. PastSemicolon(s, w + 4) \in {w + 4, w + 4 + 1}
      BY DEF PastSemicolon
    <3>3. w + 4 + 1 = w + 5
      BY <1>0
    <3> QED BY <3>1, <3>2, <3>3 DEF sql_match_statement_end
  <2>2. k \in Nat \ {0}
    BY <1>0
  <2>3. n < k
    BY <2>1, <2>2, EndsBefore
  <2> HIDE DEF w, n
  <2> QED BY <1>0, <2>3
<1>6. ASSUME NEW k \in 1 .. n, k # w + 2 PROVE At(s, k).kind # "comparison"
  <2>1. k \in {1, 2, 3, 4, w, w + 1, w + 3, w + 4} \/ (k = 5 /\ w = 6)
    <3> HIDE DEF w, n
    <3> QED BY <1>0, <1>5, <1>6
  <2> QED BY <1>1, <1>3, <1>4, <2>1
<1>7. \A k \in 1 .. n : At(s, k) = s.tokens[k]
  BY DEF At
<1>8. w + 2 \in 1 .. n
  BY <1>1, <1>2
<1>9. \A k \in DOMAIN s.tokens : s.tokens[k].kind = "comparison" <=> k = w + 2
  BY <1>0, <1>1, <1>6, <1>7, <1>8
<1> QED BY <1>0, <1>1, <1>8, <1>9 DEF ComparesNumber

(* What a statement that is run finds in its tokens. *)
LEMMA OutcomeIs ==
  ASSUME NEW s \in Statements
  PROVE  LET o == sql_execute(s)
         IN  /\ o.path \in {"insert", "all", "id", "name", "age", "exit", "syntax_error",
                            "query_error"}
             /\ o.path = "insert" => /\ o.text \in STRING /\ o.value = AgeOf(s)
                                     /\ At(s, 8).kind = "number"
             /\ o.path = "age" => /\ o.op = OpOf(s) /\ o.value = sql_parse_int(Operand(s))
                                  /\ ComparesNumber(s)
<1> DEFINE i == sql_execute_insert(s)
           e == sql_execute_select(s)
           o == sql_execute(s)
<1>0. /\ NotMine.path = "syntax_error" /\ NotMine.told = FALSE
      /\ SyntaxError.path = "syntax_error" /\ SyntaxError.told = TRUE
      /\ UnknownColumn.path = "query_error" /\ UnknownColumn.told = TRUE
  BY DEF NotMine, SyntaxError, UnknownColumn, Outcome
<1>1. /\ i.path \in {"insert", "syntax_error"}
      /\ i.path = "insert" => /\ i.text = At(s, 6).text /\ i.value = AgeOf(s)
                              /\ At(s, 8).kind = "number" /\ At(s, 6).kind = "string"
  <2>1. CASE i = NotMine \/ i = SyntaxError
    BY <1>0, <2>1
  <2>2. CASE InsertForm(s) /\ i = Outcome("insert", FALSE, "none", At(s, 6).text, AgeOf(s))
    <3>1. At(s, 8).kind = "number" /\ At(s, 6).kind = "string"
      BY <2>2 DEF InsertForm, sql_parse_string
    <3>2. i.path = "insert" /\ i.text = At(s, 6).text /\ i.value = AgeOf(s)
      BY <2>2 DEF Outcome
    <3> QED BY <3>1, <3>2
  <2> QED BY <2>1, <2>2 DEF sql_execute_insert, AgeOf
<1>2. /\ e.path \in {"all", "id", "name", "age", "syntax_error", "query_error"}
      /\ e.path = "age" => /\ e.op = OpOf(s) /\ e.value = sql_parse_int(Operand(s))
                           /\ ComparesNumber(s)
  <2>1. CASE e \in {NotMine, SyntaxError, UnknownColumn}
    BY <1>0, <2>1
  <2>2. CASE e = Outcome("all", FALSE, "none", "none", 0)
    BY <2>2 DEF Outcome
  <2>3. CASE /\ At(s, WhereAt(s) + 1).text \in Columns
             /\ WhereForm(s, WhereAt(s)) /\ LiteralForm(s, WhereAt(s))
             /\ sql_match_char(s, 2, "*")
             /\ sql_match_keyword(s, 3, "from") /\ sql_match_keyword(s, 4, "users")
             /\ sql_match_keyword(s, 1, "select")
             /\ e = Outcome(At(s, WhereAt(s) + 1).text, FALSE, OpOf(s),
                            At(s, WhereAt(s) + 3).text, sql_parse_int(Operand(s)))
    <3>1. e.path = At(s, WhereAt(s) + 1).text /\ e.op = OpOf(s)
          /\ e.value = sql_parse_int(Operand(s))
      BY <2>3 DEF Outcome
    <3>2. At(s, WhereAt(s) + 1).text = "age" => ComparesNumber(s)
      BY <2>3, OneComparison
    <3> QED BY <2>3, <3>1, <3>2 DEF Columns
  <2> QED BY <2>1, <2>2, <2>3
          DEF sql_execute_select, SelectListError, OpOf, Operand, WhereAt
<1>3. CASE o = i \/ o = e
  <2>1. At(s, 6).kind = "string" => At(s, 6).text \in STRING
    BY AtType
  <2> HIDE DEF i, e, o
  <2> QED BY <1>1, <1>2, <1>3, <2>1 DEF o
<1>4. CASE o = SyntaxError \/ o.path = "exit"
  <2> HIDE DEF o
  <2> QED BY <1>0, <1>4 DEF o
<1>5. o = i \/ o = e \/ o = SyntaxError \/ o.path = "exit"
  BY ExecuteOutcomes
<1> QED BY <1>3, <1>4, <1>5

(* The ways a statement can end. *)
RunInserts(s) ==
  /\ sql_execute(s).path = "insert"
  /\ rows' = Append(rows, [id |-> next_id, name |-> sql_execute(s).text,
                           age |-> sql_execute(s).value])
  /\ next_id' = next_id + 1
  /\ ran' = Append(ran, [stmt |-> s, path |-> "insert", ids |-> {next_id}])

RunSelects(s) ==
  /\ sql_execute(s).path \in SelectPaths
  /\ ran' = Append(ran, [stmt |-> s, path |-> sql_execute(s).path,
                         ids |-> {rows[i].id : i \in {j \in DOMAIN rows :
                                                        Selected(sql_execute(s), rows[j])}}])
  /\ rows' = rows /\ next_id' = next_id

RunElse(s) ==
  /\ rows' = rows /\ next_id' \in {next_id, next_id + 1}
  /\ \E path \in {"error", "exit", "syntax_error", "query_error"} :
       ran' = Append(ran, [stmt |-> s, path |-> path, ids |-> {}])

LEMMA RunIs ==
  ASSUME NEW s, Run(s), next_id \in Int
  PROVE  RunInserts(s) \/ RunSelects(s) \/ RunElse(s)
<1>1. CASE /\ sql_execute(s).path = "insert"
           /\ rows' = Append(rows, [id |-> next_id, name |-> sql_execute(s).text,
                                    age |-> sql_execute(s).value])
           /\ next_id' = next_id + 1
           /\ Printed(s, "insert", {next_id})
  BY <1>1 DEF Printed, RunInserts
<1>2. CASE /\ sql_execute(s).path \in SelectPaths
           /\ Printed(s, sql_execute(s).path,
                      {rows[i].id : i \in {j \in DOMAIN rows : Selected(sql_execute(s), rows[j])}})
           /\ UNCHANGED tableVars
  BY <1>2 DEF Printed, RunSelects, tableVars
<1>3. CASE /\ sql_execute(s).path \in SelectPaths \union {"insert"}
           /\ sql_execute(s).path \in SelectPaths => rows # <<>>
           /\ next_id' \in {next_id, next_id + IF sql_execute(s).path = "insert" THEN 1 ELSE 0}
           /\ Printed(s, "error", {})
           /\ UNCHANGED rows
  <2>1. next_id' \in {next_id, next_id + 0, next_id + 1} /\ rows' = rows
        /\ ran' = Append(ran, [stmt |-> s, path |-> "error", ids |-> {}])
    BY <1>3 DEF Printed
  <2> QED BY <2>1 DEF RunElse
<1>4. CASE /\ sql_execute(s).path \in {"exit", "syntax_error", "query_error"}
           /\ Printed(s, sql_execute(s).path, {})
           /\ UNCHANGED tableVars
  BY <1>4 DEF Printed, RunElse, tableVars
<1> QED BY <1>1, <1>2, <1>3, <1>4, Zenon DEF Run

(* The statement of each step that runs one. *)
LEMMA RunSteps ==
  ASSUME TextInv, WalkInv, [Next]_vars
  PROVE  \/ \E s \in Statements : Run(s)
         \/ rows' = rows /\ next_id' = next_id /\ ran' = ran
<1>1. CASE RunQuery
  <2>1. /\ pc = "querying" /\ at <= Len(argv) /\ argv[at].text = "--query"
        /\ Run(argv[at + 1].stmt)
    BY <1>1 DEF RunQuery
  <2>2. program = "server" /\ Len(argv) \in Nat
    BY <2>1 DEF WalkInv, TextInv
  <2>3. PICK P \in SUBSET (1 .. Len(argv)) :
          Walk(P, Len(argv) + 1) /\ Heard(P) /\ (pc = "querying" => Placed(P))
    BY <2>1, <2>2 DEF WalkInv, AfterParsing
  <2>4. at + 1 \in 1 .. Len(argv)
    BY <2>1, <2>3, SecondPass DEF Heard
  <2>5. argv[at + 1] \in Arguments
    BY <2>4, ElementOf DEF TextInv
  <2>6. argv[at + 1].stmt \in Statements
    BY <2>5 DEF Arguments
  <2> QED BY <2>1, <2>6
<1>2. CASE RunLine
  <2>1. stdin # <<>> /\ Run(StatementOf(SubSeq(stdin, 1, Taken)))
    BY <1>2 DEF RunLine
  <2>2. SubSeq(stdin, 1, Taken) \in Seq(Units)
    BY <2>1, RestIs DEF TextInv
  <2>3. StatementOf(SubSeq(stdin, 1, Taken)) \in Statements
    BY <2>2, StatementType
  <2> QED BY <2>1, <2>3
<1>3. CASE Help \/ Serve \/ Query \/ BadArgument \/ ArgumentsEnd \/ PassOver \/ QueriesEnd \/ InputEnds
  BY <1>3 DEF Help, Serve, Query, BadArgument, ArgumentsEnd, PassOver, QueriesEnd, InputEnds,
     tableVars
<1>4. ASSUME NEW o \in NumberOptions, SetOption(o)
      PROVE  rows' = rows /\ next_id' = next_id /\ ran' = ran
  BY <1>4 DEF SetOption, tableVars
<1>5. CASE UNCHANGED vars
  BY <1>5 DEF vars
<1> QED BY <1>1, <1>2, <1>3, <1>4, <1>5 DEF Next

(* The ids of the rows that a SELECT collects. *)
SelectedIds(s) == {rows[i].id : i \in {j \in DOMAIN rows : Selected(sql_execute(s), rows[j])}}

(* What is printed for a statement is one entry more. *)
LEMMA RunEntry ==
  ASSUME TableInv, NEW s \in Statements, RunInserts(s) \/ RunSelects(s) \/ RunElse(s)
  PROVE  \E e \in EntryType :
           /\ ran' = Append(ran, e) /\ e.stmt = s
           /\ e.path = "insert" => RunInserts(s)
           /\ e.path = "age" => sql_execute(s).path = "age" /\ e.ids = SelectedIds(s)
<1>0. next_id \in Int /\ rows \in Seq(RowType)
  BY DEF TableInv
<1>1. CASE RunInserts(s)
  <2> DEFINE e == [stmt |-> s, path |-> "insert", ids |-> {next_id}]
  <2>1. e \in EntryType /\ e.stmt = s /\ e.path # "age"
    BY <1>0 DEF EntryType, Paths
  <2> QED BY <1>1, <2>1 DEF RunInserts
<1>2. CASE RunSelects(s)
  <2> DEFINE I == SelectedIds(s)
             e == [stmt |-> s, path |-> sql_execute(s).path, ids |-> I]
  <2>1. \A i \in DOMAIN rows : rows[i].id \in Int
    <3>1. DOMAIN rows = 1 .. Len(rows)
      BY <1>0
    <3>2. \A i \in 1 .. Len(rows) : rows[i] \in RowType
      BY <1>0, ElementOf
    <3> QED BY <3>1, <3>2 DEF RowType
  <2>2. I \subseteq Int
    BY <2>1 DEF SelectedIds
  <2> HIDE DEF I
  <2>3. e \in EntryType /\ e.stmt = s /\ e.path = sql_execute(s).path /\ e.ids = I
    BY <1>2, <2>2 DEF EntryType, Paths, RunSelects
  <2>4. ran' = Append(ran, e)
    BY <1>2 DEF RunSelects, SelectedIds, I
  <2>5. sql_execute(s).path # "insert"
    BY <1>2 DEF RunSelects, SelectPaths, Columns
  <2> QED BY <2>3, <2>4, <2>5 DEF I
<1>3. CASE RunElse(s)
  <2>1. PICK path \in {"error", "exit", "syntax_error", "query_error"} :
          ran' = Append(ran, [stmt |-> s, path |-> path, ids |-> {}])
    BY <1>3 DEF RunElse
  <2> DEFINE e == [stmt |-> s, path |-> path, ids |-> {}]
  <2>2. e \in EntryType /\ e.stmt = s /\ e.path \notin {"insert", "age"}
    BY <2>1 DEF EntryType, Paths
  <2> QED BY <2>1, <2>2
<1> QED BY <1>1, <1>2, <1>3

(* One element more at the end. *)
LEMMA AppendIs ==
  ASSUME NEW S, NEW q \in Seq(S), NEW e \in S, NEW r, r = Append(q, e)
  PROVE  /\ r \in Seq(S) /\ Len(r) = Len(q) + 1 /\ r[Len(q) + 1] = e
         /\ \A i \in 1 .. Len(q) : r[i] = q[i]
         /\ Len(q) \in Nat
OBVIOUS

(* What TableInv says of the rows, and of one statement that has been run. *)
RowsApart(rs, n) == /\ \A k \in 1 .. Len(rs) : rs[k].id < n
                    /\ \A k, m \in 1 .. Len(rs) : rs[k].id = rs[m].id => k = m
Recorded(e, rs) ==
  e.path = "insert" =>
    /\ At(e.stmt, 8).kind = "number"
    /\ \E k \in 1 .. Len(rs) : e.ids = {rs[k].id} /\ rs[k].age = AgeOf(e.stmt)

LEMMA TableParts ==
  TableInv <=> /\ ran \in Seq(EntryType) /\ rows \in Seq(RowType) /\ next_id \in Int
               /\ RowsApart(rows, next_id)
               /\ \A i \in 1 .. Len(ran) : Recorded(ran[i], rows)
BY DEF TableInv, RowsApart, Recorded

(* TableInv after a statement more, if its entry is as it should be. *)
LEMMA TableStep ==
  ASSUME TableInv, NEW e \in EntryType, ran' = Append(ran, e), rows' \in Seq(RowType),
         next_id' \in Int, RowsApart(rows, next_id)', Recorded(e, rows'),
         \A d \in EntryType : Recorded(d, rows) => Recorded(d, rows')
  PROVE  TableInv'
<1>1. ran \in Seq(EntryType) /\ \A i \in 1 .. Len(ran) : Recorded(ran[i], rows)
  BY TableParts
<1>2. PICK r : r = ran'
  OBVIOUS
<1>3. /\ r \in Seq(EntryType) /\ Len(r) = Len(ran) + 1 /\ r[Len(ran) + 1] = e
      /\ \A i \in 1 .. Len(ran) : r[i] = ran[i]
      /\ Len(ran) \in Nat
  BY <1>1, <1>2, AppendIs
<1>4. ASSUME NEW i \in 1 .. Len(r) PROVE Recorded(r[i], rows')
  <2>1. CASE i = Len(ran) + 1
    BY <1>3, <2>1
  <2>2. CASE i # Len(ran) + 1
    <3>1. i \in 1 .. Len(ran)
      BY <1>3, <2>2
    <3>2. Recorded(ran[i], rows) /\ ran[i] \in EntryType /\ r[i] = ran[i]
      BY <1>1, <1>3, <3>1, ElementOf
    <3> QED BY <3>2
  <2> QED BY <2>1, <2>2
<1>5. \A i \in 1 .. Len(ran') : Recorded(ran[i], rows)'
  BY <1>2, <1>4 DEF Recorded
<1>6. ran' \in Seq(EntryType)
  BY <1>2, <1>3
<1> QED BY <1>5, <1>6 DEF TableInv, RowsApart, Recorded

LEMMA NextTable == TextInv /\ WalkInv /\ TableInv /\ [Next]_vars => TableInv'
<1> SUFFICES ASSUME TextInv, WalkInv, TableInv, [Next]_vars PROVE TableInv'
  OBVIOUS
<1>0. /\ ran \in Seq(EntryType) /\ rows \in Seq(RowType) /\ next_id \in Int
      /\ RowsApart(rows, next_id)
  BY TableParts
<1>1. CASE rows' = rows /\ next_id' = next_id /\ ran' = ran
  BY <1>1 DEF TableInv
<1>2. ASSUME NEW s \in Statements, Run(s) PROVE TableInv'
  <2>1. RunInserts(s) \/ RunSelects(s) \/ RunElse(s)
    BY <1>0, <1>2, RunIs
  <2>2. CASE RunInserts(s)
    <3> DEFINE e == [stmt |-> s, path |-> "insert", ids |-> {next_id}]
               row == [id |-> next_id, name |-> sql_execute(s).text, age |-> sql_execute(s).value]
    <3>1. ran' = Append(ran, e) /\ rows' = Append(rows, row) /\ next_id' = next_id + 1
          /\ sql_execute(s).path = "insert"
      BY <2>2 DEF RunInserts
    <3>2. /\ sql_execute(s).text \in STRING /\ sql_execute(s).value = AgeOf(s)
          /\ At(s, 8).kind = "number"
      BY <3>1, OutcomeIs
    <3>3. AgeOf(s) \in Int
      BY AtType, ParseInt DEF AgeOf
    <3>4. row \in RowType
      BY <1>0, <3>2, <3>3 DEF RowType
    <3>5. e \in EntryType
      BY <1>0 DEF EntryType, Paths
    <3>6. PICK rs : rs = rows'
      OBVIOUS
    <3>7. /\ rs \in Seq(RowType) /\ Len(rs) = Len(rows) + 1 /\ rs[Len(rows) + 1] = row
          /\ \A i \in 1 .. Len(rows) : rs[i] = rows[i]
          /\ Len(rows) \in Nat
      <4> HIDE DEF row
      <4> QED BY <1>0, <3>1, <3>4, <3>6, AppendIs
    <3>8. row.id = next_id /\ row.age = AgeOf(s)
      BY <3>2
    <3>9. e.stmt = s /\ e.ids = {next_id} /\ e.path = "insert"
      OBVIOUS
    <3> HIDE DEF row, e
    <3>10. RowsApart(rows, next_id)'
      <4>1. ASSUME NEW k \in 1 .. Len(rs)
            PROVE  rs[k].id < next_id' /\ (k # Len(rows) + 1 => rs[k].id < next_id)
        <5>1. CASE k = Len(rows) + 1
          BY <1>0, <3>1, <3>7, <3>8, <5>1
        <5>2. CASE k # Len(rows) + 1
          <6>1. k \in 1 .. Len(rows) /\ rs[k] = rows[k]
            BY <3>7, <5>2
          <6>2. rs[k] \in RowType
            BY <3>7, ElementOf
          <6>3. rs[k].id \in Int
            BY <6>2 DEF RowType
          <6>4. rs[k].id < next_id
            BY <1>0, <6>1 DEF RowsApart
          <6> QED BY <1>0, <3>1, <6>3, <6>4
        <5> QED BY <5>1, <5>2
      <4>2. ASSUME NEW k \in 1 .. Len(rs), NEW m \in 1 .. Len(rs), rs[k].id = rs[m].id
            PROVE  k = m
        <5>1. CASE k = Len(rows) + 1 \/ m = Len(rows) + 1
          BY <1>0, <3>7, <3>8, <4>1, <4>2, <5>1
        <5>2. CASE k # Len(rows) + 1 /\ m # Len(rows) + 1
          <6>1. k \in 1 .. Len(rows) /\ rs[k] = rows[k] /\ m \in 1 .. Len(rows) /\ rs[m] = rows[m]
            BY <3>7, <5>2
          <6> QED BY <1>0, <4>2, <6>1 DEF RowsApart
        <5> QED BY <5>1, <5>2
      <4> QED BY <3>6, <4>1, <4>2 DEF RowsApart
    <3>11. Recorded(e, rows')
      <4>1. Len(rows) + 1 \in 1 .. Len(rs)
        BY <3>7
      <4>2. e.ids = {rs[Len(rows) + 1].id} /\ rs[Len(rows) + 1].age = AgeOf(e.stmt)
        BY <3>7, <3>8, <3>9
      <4> QED BY <3>2, <3>6, <3>9, <4>1, <4>2 DEF Recorded
    <3>12. ASSUME NEW d \in EntryType, Recorded(d, rows) PROVE Recorded(d, rows')
      <4>1. CASE d.path = "insert"
        <5>1. PICK k \in 1 .. Len(rows) : d.ids = {rows[k].id} /\ rows[k].age = AgeOf(d.stmt)
          BY <3>12, <4>1 DEF Recorded
        <5>2. k \in 1 .. Len(rs) /\ rs[k] = rows[k]
          BY <3>7
        <5> QED BY <3>6, <3>12, <4>1, <5>1, <5>2 DEF Recorded
      <4>2. CASE d.path # "insert"
        BY <4>2 DEF Recorded
      <4> QED BY <4>1, <4>2
    <3>13. rows' \in Seq(RowType) /\ next_id' \in Int
      BY <1>0, <3>1, <3>6, <3>7
    <3> QED BY <3>1, <3>5, <3>10, <3>11, <3>12, <3>13, TableStep
  <2>3. CASE RunSelects(s) \/ RunElse(s)
    <3>1. PICK e \in EntryType : ran' = Append(ran, e) /\ (e.path = "insert" => RunInserts(s))
      BY <2>1, RunEntry
    <3>2. ~RunInserts(s)
      <4>1. CASE RunSelects(s)
        BY <4>1 DEF RunSelects, RunInserts, SelectPaths, Columns
      <4>2. CASE RunElse(s)
        <5>1. SUFFICES ASSUME rows' = rows, RunInserts(s) PROVE FALSE
          BY <4>2 DEF RunElse
        <5>2. Len(rows') = Len(rows) + 1 /\ Len(rows) \in Nat
          BY <1>0, <5>1 DEF RunInserts
        <5> QED BY <5>1, <5>2
      <4> QED BY <2>3, <4>1, <4>2
    <3>3. rows' = rows /\ next_id' \in {next_id, next_id + 1}
      BY <2>3 DEF RunSelects, RunElse
    <3>4. Recorded(e, rows')
      BY <3>1, <3>2 DEF Recorded
    <3>5. RowsApart(rows, next_id)'
      <4>1. ASSUME NEW k \in 1 .. Len(rows) PROVE rows[k].id \in Int
        <5>1. rows[k] \in RowType
          BY <1>0, ElementOf
        <5> QED BY <5>1 DEF RowType
      <4> QED BY <1>0, <3>3, <4>1 DEF RowsApart
    <3>6. rows' \in Seq(RowType) /\ next_id' \in Int
      BY <1>0, <3>3
    <3> QED BY <3>1, <3>3, <3>4, <3>5, <3>6, TableStep
  <2> QED BY <2>1, <2>2, <2>3
<1> QED BY <1>1, <1>2, RunSteps

(* Whether a SELECT by age finds the row of an INSERT depends on the two   *)
(* ages as they are stored.                                                *)
LEMMA FoundByAge ==
  ASSUME TableInv, NEW d \in EntryType, Recorded(d, rows), d.path = "insert",
         NEW s \in Statements, sql_execute(s).path = "age"
  PROVE  d.ids \subseteq SelectedIds(s) <=> InOrder(AgeOf(d.stmt), OpOf(s), sql_parse_int(Operand(s)))
<1>0. rows \in Seq(RowType) /\ RowsApart(rows, next_id) /\ DOMAIN rows = 1 .. Len(rows)
  BY TableParts
<1>1. PICK k \in 1 .. Len(rows) : d.ids = {rows[k].id} /\ rows[k].age = AgeOf(d.stmt)
  BY DEF Recorded
<1>2. sql_execute(s).op = OpOf(s) /\ sql_execute(s).value = sql_parse_int(Operand(s))
  BY OutcomeIs
<1>3. \A i \in 1 .. Len(rows) :
        Selected(sql_execute(s), rows[i])
          <=> InOrder(rows[i].age, OpOf(s), sql_parse_int(Operand(s)))
  BY <1>2 DEF Selected
<1>4. SelectedIds(s) =
        {rows[i].id : i \in {j \in 1 .. Len(rows) :
                               InOrder(rows[j].age, OpOf(s), sql_parse_int(Operand(s)))}}
  BY <1>0, <1>3 DEF SelectedIds
<1>5. d.ids \subseteq SelectedIds(s) <=>
        \E i \in 1 .. Len(rows) : /\ rows[k].id = rows[i].id
                                  /\ InOrder(rows[i].age, OpOf(s), sql_parse_int(Operand(s)))
  BY <1>1, <1>4
<1>6. \A i \in 1 .. Len(rows) : rows[k].id = rows[i].id => k = i
  BY <1>0, <1>1 DEF RowsApart
<1> QED BY <1>1, <1>5, <1>6

(* AgesCompareAt for two statements that have been run. *)
AgesAgree(d, e) ==
  d.path = "insert" /\ e.path = "age" =>
    LET m == At(d.stmt, 8).value
        op == OpOf(e.stmt)
        n == Operand(e.stmt)
        found == d.ids \subseteq e.ids
    IN  /\ m = n /\ op = "=" => found
        /\ InRange(m) /\ InRange(n) => (found <=> InOrder(m, op, n))

LEMMA AgesAreAgreed ==
  ASSUME TableInv, NEW d \in EntryType, Recorded(d, rows), NEW e \in EntryType,
         NEW s \in Statements, e.stmt = s,
         e.path = "age" => sql_execute(s).path = "age" /\ e.ids = SelectedIds(s)
  PROVE  AgesAgree(d, e)
<1> SUFFICES ASSUME d.path = "insert", e.path = "age" PROVE AgesAgree(d, e)
  BY DEF AgesAgree
<1> DEFINE m == At(d.stmt, 8).value
           op == OpOf(s)
           n == Operand(s)
<1>1. d.ids \subseteq e.ids <=> InOrder(sql_parse_int(m), op, sql_parse_int(n))
  BY FoundByAge DEF AgeOf
<1>2. d.stmt \in Statements
  BY DEF EntryType
<1>3. m \in Int /\ n \in Int
  <2>1. WhereAt(s) + 3 \in Nat
    BY WhereAtIs
  <2> QED BY <1>2, <2>1, AtType DEF Operand
<1> HIDE DEF m, op, n
<1>4. m = n /\ op = "=" => InOrder(sql_parse_int(m), op, sql_parse_int(n))
  BY DEF InOrder
<1>5. InRange(m) => sql_parse_int(m) = m
  BY <1>3, ParseInt
<1>6. InRange(n) => sql_parse_int(n) = n
  BY <1>3, ParseInt
<1>7. /\ m = n /\ op = "=" => d.ids \subseteq e.ids
      /\ InRange(m) /\ InRange(n) => (d.ids \subseteq e.ids <=> InOrder(m, op, n))
  BY <1>1, <1>4, <1>5, <1>6
<1> QED BY <1>7 DEF AgesAgree, m, op, n

LEMMA NextAges == TextInv /\ WalkInv /\ TableInv /\ AgesInv /\ [Next]_vars => AgesInv'
<1> SUFFICES ASSUME TextInv, WalkInv, TableInv, AgesInv, [Next]_vars PROVE AgesInv'
  OBVIOUS
<1>0. /\ ran \in Seq(EntryType) /\ next_id \in Int
      /\ \A i \in 1 .. Len(ran) : Recorded(ran[i], rows)
  BY TableParts
<1>a. \A i, j \in 1 .. Len(ran) : i < j => AgesAgree(ran[i], ran[j])
  BY DEF AgesInv, AgesCompareAt, AgesAgree
<1>1. CASE ran' = ran
  BY <1>1 DEF AgesInv, AgesCompareAt
<1>2. ASSUME NEW s \in Statements, Run(s) PROVE AgesInv'
  <2>1. RunInserts(s) \/ RunSelects(s) \/ RunElse(s)
    BY <1>0, <1>2, RunIs
  <2>2. PICK e \in EntryType :
          /\ ran' = Append(ran, e) /\ e.stmt = s
          /\ e.path = "age" => sql_execute(s).path = "age" /\ e.ids = SelectedIds(s)
    BY <2>1, RunEntry
  <2>3. PICK r : r = ran'
    OBVIOUS
  <2>4. /\ Len(r) = Len(ran) + 1 /\ r[Len(ran) + 1] = e
        /\ \A i \in 1 .. Len(ran) : r[i] = ran[i]
        /\ Len(ran) \in Nat
    BY <1>0, <2>2, <2>3, AppendIs
  <2>6. ASSUME NEW i \in 1 .. Len(r), r[i].path = "age" PROVE ComparesNumber(r[i].stmt)
    <3>1. CASE i = Len(ran) + 1
      <4>1. r[i] = e
        BY <2>4, <3>1
      <4> QED BY <2>2, <2>6, <4>1, OutcomeIs
    <3>2. CASE i # Len(ran) + 1
      <4>1. i \in 1 .. Len(ran) /\ r[i] = ran[i]
        BY <2>4, <3>2
      <4> QED BY <2>6, <4>1 DEF AgesInv
    <3> QED BY <3>1, <3>2
  <2>5. ASSUME NEW i \in 1 .. Len(r), NEW j \in 1 .. Len(r), i < j
        PROVE  AgesAgree(r[i], r[j])
    <3>1. i \in 1 .. Len(ran)
      BY <2>4, <2>5
    <3>2. r[i] = ran[i] /\ ran[i] \in EntryType /\ Recorded(ran[i], rows)
      BY <1>0, <2>4, <3>1, ElementOf
    <3>3. CASE j = Len(ran) + 1
      <4>1. AgesAgree(ran[i], e)
        BY <2>2, <3>2, AgesAreAgreed
      <4> QED BY <2>4, <3>2, <3>3, <4>1
    <3>4. CASE j # Len(ran) + 1
      <4>1. j \in 1 .. Len(ran) /\ r[j] = ran[j]
        BY <2>4, <3>4
      <4> QED BY <1>a, <2>5, <3>1, <3>2, <4>1
    <3> QED BY <3>3, <3>4
  <2> QED BY <2>3, <2>5, <2>6 DEF AgesInv, AgesCompareAt, AgesAgree
<1> QED BY <1>1, <1>2, RunSteps

ShellInv == TextInv /\ WalkInv /\ TableInv

LEMMA InitTable == Init => TableInv /\ AgesInv
<1> SUFFICES ASSUME Init PROVE TableInv /\ AgesInv
  OBVIOUS
<1>1. ran = <<>> /\ rows = <<>> /\ next_id = 1
  BY DEF Init
<1>2. Len(ran) = 0 /\ Len(rows) = 0
  BY <1>1
<1> QED BY <1>1, <1>2 DEF TableInv, AgesInv

(* The arguments, the input, the rows and what has been run keep their     *)
(* types; the first pass leaves from option to option, and the second one  *)
(* never stands where the first one did not.                               *)
THEOREM ShellInvariance == Spec => []ShellInv
<1>1. Init => ShellInv
  BY InitText, InitWalk, InitTable DEF ShellInv
<1>2. ShellInv /\ [Next]_vars => ShellInv'
  BY NextText, NextWalk, NextTable DEF ShellInv
<1> QED BY <1>1, <1>2, PTL DEF Spec

(* usedIndex, guessed from the text of a statement, is the path its SELECT *)
(* took: for every statement that the arguments or the input can bring.    *)
THEOREM UsedIndexTrue == Spec => []UsedIndexHonest
<1>1. ShellInv => UsedIndexHonest
  <2> SUFFICES ASSUME ShellInv PROVE UsedIndexHonest
    OBVIOUS
  <2>1. ran \in Seq(EntryType) /\ DOMAIN ran = 1 .. Len(ran)
    BY DEF ShellInv, TableInv
  <2>2. ASSUME NEW i \in DOMAIN ran PROVE ran[i].stmt \in Statements
    <3>1. ran[i] \in EntryType
      BY <2>1, ElementOf
    <3> QED BY <3>1 DEF EntryType
  <2> QED BY <2>2, GuessIsRightAll DEF UsedIndexHonest
<1> QED BY <1>1, ShellInvariance, PTL

(* A row is found again by the age it was inserted with, whatever literal  *)
(* that was, and ages that fit an int compare as numbers: sql_parse_int    *)
(* reads the literals of INSERT and of WHERE in the same way.              *)
THEOREM AgesKeepOrder == Spec => []AgesCompare
<1>1. Init => AgesInv
  BY InitTable
<1>2. ShellInv /\ AgesInv /\ [Next]_vars => AgesInv'
  BY NextAges DEF ShellInv
<1>3. ShellInv /\ AgesInv => AgesCompare
  <2> SUFFICES ASSUME ShellInv, AgesInv, NEW i \in DOMAIN ran, NEW j \in DOMAIN ran, i < j,
                      ran[i].path = "insert", ran[j].path = "age"
               PROVE  LET m == ran[i].stmt.tokens[8].value
                          c == ComparisonIn(ran[j].stmt)
                          op == ran[j].stmt.tokens[c].text
                          n == ran[j].stmt.tokens[c + 1].value
                          found == ran[i].ids \subseteq ran[j].ids
                      IN  /\ m = n /\ op = "=" => found
                          /\ InRange(m) /\ InRange(n) => (found <=> InOrder(m, op, n))
    BY DEF AgesCompare
  <2> DEFINE s == ran[j].stmt
             w == WhereAt(s)
  <2>1. ran \in Seq(EntryType) /\ DOMAIN ran = 1 .. Len(ran)
    BY DEF ShellInv, TableInv
  <2>2. /\ At(ran[i].stmt, 8).kind = "number"
        /\ ComparesNumber(s)
    BY <2>1 DEF ShellInv, TableInv, AgesInv
  <2>3. \A t, k : At(t, k).kind # "end" => At(t, k) = t.tokens[k]
    BY DEF At, Token
  <2>4. ComparisonIn(s) = w + 2
    BY <2>2 DEF ComparesNumber, ComparisonIn
  <2>5. ran[j].stmt \in Statements
    <3>1. ran[j] \in EntryType
      BY <2>1, ElementOf
    <3> QED BY <3>1 DEF EntryType
  <2>6. At(s, w + 2) = s.tokens[w + 2]
    <3>1. DOMAIN s.tokens = 1 .. Len(s.tokens)
      BY <2>5 DEF Statements
    <3> QED BY <2>2, <3>1 DEF ComparesNumber, At
  <2>7. w + 2 + 1 = w + 3
    BY WhereAtIs
  <2>8. /\ At(ran[i].stmt, 8) = ran[i].stmt.tokens[8]
        /\ At(s, w + 3) = s.tokens[w + 3]
    BY <2>2, <2>3 DEF ComparesNumber
  <2>9. AgesCompareAt(i, j)
    BY <2>1 DEF AgesInv
  <2>10. /\ OpOf(s) = s.tokens[ComparisonIn(s)].text
         /\ Operand(s) = s.tokens[ComparisonIn(s) + 1].value
    BY <2>4, <2>6, <2>7, <2>8 DEF OpOf, Operand
  <2> QED BY <2>8, <2>9, <2>10 DEF AgesCompareAt
<1> QED BY <1>1, <1>2, <1>3, ShellInvariance, PTL DEF Spec

-----------------------------------------------------------------------------
(* Statements at positions, and the order in which they are run.           *)

(* The statements in r are the ones at the positions of P up to b.         *)
Did(r, P, f, b) ==
  /\ Len(r) = Cardinality({q \in P : q <= b})
  /\ \A p \in P : p <= b => r[Nth(P, p)].stmt = f[p]

(* The positions up to b are finitely many. *)
LEMMA UpTo ==
  ASSUME NEW N \in Nat, NEW P \in SUBSET (1 .. N), NEW b
  PROVE  /\ IsFiniteSet(P) /\ Cardinality(P) \in Nat
         /\ IsFiniteSet({q \in P : q <= b}) /\ Cardinality({q \in P : q <= b}) \in Nat
         /\ Cardinality({q \in P : q <= b}) <= Cardinality(P)
<1>1. IsFiniteSet(1 .. N)
  BY FS_Interval
<1>2. IsFiniteSet(P)
  BY <1>1, FS_Subset
<1>3. {q \in P : q <= b} \subseteq P
  OBVIOUS
<1> QED BY <1>2, <1>3, FS_Subset, FS_CardinalityType

(* One position further on: either there is none of P ... *)
LEMMA DidSkip ==
  ASSUME NEW P, P \subseteq Nat, NEW b \in Nat, NEW c \in Nat, b <= c,
         \A q \in P : ~(b < q /\ q <= c), NEW r, NEW f, Did(r, P, f, b)
  PROVE  Did(r, P, f, c)
<1>1. \A q \in P : q <= b <=> q <= c
  OBVIOUS
<1>2. {q \in P : q <= b} = {q \in P : q <= c}
  BY <1>1
<1> QED BY <1>1, <1>2 DEF Did

(* ... or one, and the statement there has been run. *)
LEMMA DidNext ==
  ASSUME NEW N \in Nat, NEW P \in SUBSET (1 .. N), NEW p \in P, NEW b \in Nat, NEW c \in Nat,
         b < p, p <= c, \A q \in P : b < q /\ q <= c => q = p,
         NEW ra \in Seq(EntryType), NEW e \in EntryType, NEW r, r = Append(ra, e),
         NEW f, e.stmt = f[p], Did(ra, P, f, b)
  PROVE  Did(r, P, f, c)
<1> DEFINE A == {q \in P : q <= b}
           B == {q \in P : q <= c}
<1>0. \A q \in P : q \in Nat
  OBVIOUS
<1>1. IsFiniteSet(A) /\ Cardinality(A) \in Nat
  BY UpTo
<1>2. p \notin A /\ B = A \union {p} /\ {q \in P : q <= p} = B
  <2>1. \A q \in P : (q <= c <=> q <= b \/ q = p) /\ (q <= p <=> q <= c) /\ ~(p <= b)
    BY <1>0
  <2> QED BY <2>1
<1>3. /\ Len(ra) = Cardinality(A)
      /\ \A q \in P : q <= b => ra[Nth(P, q)].stmt = f[q]
  BY DEF Did
<1>a. \A q \in P : q <= c => q <= b \/ q = p
  BY <1>0
<1>b. \A q \in P : q <= b <=> q \in A
  OBVIOUS
<1> HIDE DEF A, B
<1>4. Cardinality(B) = Cardinality(A) + 1
  BY <1>1, <1>2, FS_AddElement
<1>5. /\ Len(r) = Len(ra) + 1 /\ r[Len(ra) + 1] = e /\ \A i \in 1 .. Len(ra) : r[i] = ra[i]
      /\ Len(ra) \in Nat
  BY AppendIs
<1>6. Len(r) = Cardinality(B)
  BY <1>3, <1>4, <1>5
<1>7. r[Nth(P, p)].stmt = f[p]
  BY <1>2, <1>3, <1>4, <1>5 DEF Nth
<1>8. ASSUME NEW q \in P, q <= b PROVE r[Nth(P, q)].stmt = f[q]
  <2> DEFINE C == {x \in P : x <= q}
  <2>1. C \subseteq A /\ q \in C /\ IsFiniteSet(C)
    <3>1. \A x \in P : x <= q => x <= b
      BY <1>0, <1>8
    <3>2. q <= q
      BY <1>0
    <3>3. IsFiniteSet(C)
      BY UpTo
    <3> QED BY <3>1, <3>2, <3>3 DEF A
  <2>2. Cardinality(C) <= Cardinality(A) /\ Cardinality(C) \in Nat
    BY <1>1, <2>1, FS_Subset, FS_CardinalityType
  <2>3. Cardinality(C) # 0
    BY <2>1, FS_EmptySet
  <2>4. Nth(P, q) = Cardinality(C)
    BY DEF Nth
  <2> HIDE DEF C
  <2>5. Nth(P, q) \in 1 .. Len(ra)
    BY <1>1, <1>3, <2>2, <2>3, <2>4
  <2> QED BY <1>3, <1>5, <1>8, <2>5
<1>9. \A q \in P : q <= c => r[Nth(P, q)].stmt = f[q]
  BY <1>7, <1>8, <1>a
<1> QED BY <1>6, <1>9 DEF Did, B

(* What has been run are the first of the statements. *)
LEMMA DidFirst ==
  ASSUME NEW N \in Nat, NEW P \in SUBSET (1 .. N), NEW b \in Nat, NEW f, Did(ran, P, f, b)
  PROVE  /\ Len(ran) <= Cardinality(P)
         /\ \A p \in P : Nth(P, p) <= Len(ran) => ran[Nth(P, p)].stmt = f[p]
         /\ b >= N => Len(ran) = Cardinality(P)
<1> DEFINE A == {q \in P : q <= b}
<1>0. \A q \in P : q \in 1 .. N /\ q \in Nat
  OBVIOUS
<1>1. IsFiniteSet(A) /\ Cardinality(A) \in Nat /\ Cardinality(A) <= Cardinality(P)
  BY UpTo
<1>2. /\ Len(ran) = Cardinality(A)
      /\ \A q \in P : q <= b => ran[Nth(P, q)].stmt = f[q]
  BY DEF Did
<1>3. ASSUME NEW p \in P, Nth(P, p) <= Len(ran) PROVE p <= b
  <2> SUFFICES ASSUME ~(p <= b) PROVE FALSE
    OBVIOUS
  <2> DEFINE C == {q \in P : q <= p}
  <2>1. A \union {p} \subseteq C /\ p \notin A
    <3>1. (\A q \in P : q <= b => q <= p) /\ p <= p
      BY <1>0
    <3> QED BY <3>1
  <2>2. IsFiniteSet(C) /\ Cardinality(C) \in Nat
    BY UpTo
  <2>3. Nth(P, p) = Cardinality(C)
    BY DEF Nth
  <2> HIDE DEF A, C
  <2>4. Cardinality(A \union {p}) = Cardinality(A) + 1
    BY <1>1, <2>1, FS_AddElement
  <2>5. Cardinality(A \union {p}) <= Cardinality(C)
    BY <2>1, <2>2, FS_Subset
  <2> QED BY <1>1, <1>2, <1>3, <2>2, <2>3, <2>4, <2>5
<1>4. b >= N => A = P
  <2>1. \A q \in P : b >= N => q <= b
    BY <1>0
  <2> QED BY <2>1
<1> HIDE DEF A
<1> QED BY <1>1, <1>2, <1>3, <1>4

(* No EXIT has been run, but the last statement may be one. *)
NoExitBefore == \A i \in 1 .. Len(ran) - 1 : ~Exits(ran[i].stmt)
LastExits == ran # <<>> /\ Exits(ran[Len(ran)].stmt)

(* A statement more: EXIT ends the run. *)
LEMMA ExitStep ==
  ASSUME ran \in Seq(EntryType), NEW e \in EntryType, ran' = Append(ran, e),
         NoExitBefore, ~LastExits
  PROVE  NoExitBefore' /\ (LastExits' <=> Exits(e.stmt))
<1> PICK r : r = ran'
  OBVIOUS
<1>1. /\ Len(r) = Len(ran) + 1 /\ r[Len(ran) + 1] = e /\ \A i \in 1 .. Len(ran) : r[i] = ran[i]
      /\ Len(ran) \in Nat
  BY AppendIs
<1>2. r # <<>>
  BY <1>1
<1>3. ASSUME NEW i \in 1 .. Len(r) - 1 PROVE ~Exits(r[i].stmt)
  <2>1. i \in 1 .. Len(ran) /\ r[i] = ran[i]
    BY <1>1
  <2>2. CASE i = Len(ran)
    <3>1. ran # <<>>
      BY <2>1, <2>2
    <3> QED BY <2>1, <2>2, <3>1 DEF LastExits
  <2>3. CASE i # Len(ran)
    BY <1>1, <2>1, <2>3 DEF NoExitBefore
  <2> QED BY <2>2, <2>3
<1>4. NoExitBefore'
  BY <1>3 DEF NoExitBefore, Exits
<1>5. LastExits' <=> Exits(e.stmt)
  BY <1>1, <1>2 DEF LastExits, Exits
<1> QED BY <1>4, <1>5

(* The walk over all arguments finds the options. *)
LEMMA OptionsFound ==
  ASSUME NEW P \in SUBSET (1 .. Len(argv)), Len(argv) \in Nat, argv \in Seq(Arguments),
         Walk(P, Len(argv) + 1)
  PROVE  OptionPositions = P
<1> DEFINE Good(Q) == /\ argv # <<>> => 1 \in Q
                      /\ \A i \in 1 .. Len(argv) :
                           i \in Q => /\ Width(i) = 2 => i + 1 \notin Q
                                      /\ i + Width(i) <= Len(argv) => i + Width(i) \in Q
<1>0. argv # <<>> <=> Len(argv) # 0
  OBVIOUS
<1>1. Good(P)
  <2>1. \A i \in P : /\ Width(i) = 2 => i + 1 \notin P
                     /\ i + Width(i) <= Len(argv) => i + Width(i) \in P
    <3> SUFFICES ASSUME NEW i \in P
                 PROVE  /\ Width(i) = 2 => i + 1 \notin P
                        /\ i + Width(i) <= Len(argv) => i + Width(i) \in P
      OBVIOUS
    <3>1. PICK w \in {1, 2} : w = Width(i)
      BY DEF Width
    <3>2. i \in Nat /\ (w = 2 => i + 1 \notin P) /\ (i + w < Len(argv) + 1 => i + w \in P)
      BY <3>1 DEF Walk
    <3> QED BY <3>1, <3>2
  <2>2. Len(argv) # 0 => 1 \in P
    BY DEF Walk
  <2> QED BY <1>0, <2>1, <2>2
<1>2. ASSUME NEW Q \in SUBSET (1 .. Len(argv)), Good(Q) PROVE Q = P
  <2>1. \A i \in Q : /\ Width(i) = 2 => i + 1 \notin Q
                     /\ i + Width(i) <= Len(argv) => i + Width(i) \in Q
    BY <1>2
  <2>2. Len(argv) # 0 => 1 \in Q
    BY <1>0, <1>2
  <2> QED BY <2>1, <2>2, OneWalk
<1>3. OptionPositions = CHOOSE Q \in SUBSET (1 .. Len(argv)) : Good(Q)
  BY DEF OptionPositions
<1> HIDE DEF Good
<1> QED BY <1>1, <1>2, <1>3

(* Which statements of --query have been run. *)
QueryInv ==
  /\ pc = "parsing" => ran = <<>>
  /\ pc = "reading" => ~has_query_argument
  /\ pc \in {"querying", "ended"} /\ has_query_argument =>
       /\ NoExitBefore
       /\ pc = "querying" => ~LastExits
       /\ pc = "ended" => at > Len(argv) \/ LastExits
       /\ Did(ran, QueryPositions, QueryArguments, at - 1)

(* What the second pass knows of the first. *)
LEMMA AfterFirstPass ==
  ASSUME TextInv, WalkInv, pc \in AfterParsing, program = "server"
  PROVE  /\ OptionPositions \in SUBSET (1 .. Len(argv))
         /\ Walk(OptionPositions, Len(argv) + 1) /\ Heard(OptionPositions)
         /\ pc = "querying" => Placed(OptionPositions)
<1>0. Len(argv) \in Nat /\ argv \in Seq(Arguments)
  BY DEF TextInv
<1>1. PICK P \in SUBSET (1 .. Len(argv)) :
        Walk(P, Len(argv) + 1) /\ Heard(P) /\ (pc = "querying" => Placed(P))
  BY DEF WalkInv
<1>2. OptionPositions = P
  BY <1>0, <1>1, OptionsFound
<1> QED BY <1>1, <1>2

LEMMA QueriesStay ==
  ASSUME argv' = argv
  PROVE  QueryPositions' = QueryPositions /\ QueryArguments' = QueryArguments
BY DEF QueryPositions, QueryArguments, OptionPositions, Width

LEMMA QueryStep ==
  ASSUME TextInv, WalkInv, TableInv, QueryInv, RunQuery
  PROVE  QueryInv'
<1> DEFINE s == argv[at + 1].stmt
           P == OptionPositions
<1>1. /\ pc = "querying" /\ at <= Len(argv) /\ argv[at].text = "--query"
      /\ Run(s) /\ pc' = IF Exits(s) THEN "ended" ELSE "querying"
      /\ at' = at + 2 /\ argv' = argv /\ has_query_argument' = has_query_argument
  BY DEF RunQuery, argVars, Exits
<1>2. program = "server" /\ Len(argv) \in Nat /\ at \in 1 .. Len(argv) + 1 /\ pc \in AfterParsing
  BY <1>1 DEF WalkInv, TextInv, AfterParsing
<1>3. P \in SUBSET (1 .. Len(argv)) /\ Walk(P, Len(argv) + 1) /\ Heard(P) /\ Placed(P)
  BY <1>1, <1>2, AfterFirstPass
<1> HIDE DEF P
<1>4. at \in P /\ Width(at) = 2 /\ at + 1 \in 1 .. Len(argv)
  BY <1>1, <1>3, SecondPass DEF Heard
<1>5. at + 1 \notin P
  BY <1>3, <1>4 DEF Walk
<1>6. QueryPositions = {i \in P : argv[i].text = "--query"}
      /\ QueryPositions \in SUBSET (1 .. Len(argv)) /\ at \in QueryPositions
  BY <1>1, <1>3, <1>4 DEF QueryPositions, P
<1>7. QueryArguments[at] = s
  BY <1>6 DEF QueryArguments
<1>8. s \in Statements
  <2>1. argv[at + 1] \in Arguments
    BY <1>4, ElementOf DEF TextInv
  <2> QED BY <2>1 DEF Arguments
<1>9. PICK e \in EntryType : ran' = Append(ran, e) /\ e.stmt = s
  <2>1. next_id \in Int
    BY DEF TableInv
  <2>2. RunInserts(s) \/ RunSelects(s) \/ RunElse(s)
    BY <1>1, <2>1, RunIs
  <2> QED BY <1>8, <2>2, RunEntry
<1>10. ran \in Seq(EntryType)
  BY DEF TableInv
<1> HIDE DEF s
<1>11. CASE has_query_argument
  <2>1. NoExitBefore /\ ~LastExits /\ Did(ran, QueryPositions, QueryArguments, at - 1)
    BY <1>1, <1>11 DEF QueryInv
  <2>2. NoExitBefore' /\ (LastExits' <=> Exits(e.stmt))
    BY <1>9, <1>10, <2>1, ExitStep
  <2>3. PICK r, Q, f, a, b, c : r = ran' /\ Q = QueryPositions /\ f = QueryArguments
                                /\ a = at /\ b = at - 1 /\ c = at + 1
    OBVIOUS
  <2>4. /\ a \in Q /\ b \in Nat /\ c \in Nat /\ b < a /\ a <= c
        /\ \A q \in Q : b < q /\ q <= c => q = a
    <3>1. \A q \in Q : q \in 1 .. Len(argv) /\ q # at + 1
      BY <1>5, <1>6, <2>3
    <3> QED BY <1>2, <1>6, <2>3, <3>1
  <2>5. Q \in SUBSET (1 .. Len(argv)) /\ e.stmt = f[a] /\ Did(ran, Q, f, b)
    BY <1>6, <1>7, <1>9, <2>1, <2>3
  <2>6. Did(r, Q, f, c)
    BY <1>2, <1>9, <1>10, <2>3, <2>4, <2>5, DidNext
  <2>7. QueryPositions' = Q /\ QueryArguments' = f /\ (at - 1)' = c
    BY <1>1, <1>2, <2>3, QueriesStay
  <2>8. Did(ran, QueryPositions, QueryArguments, at - 1)'
    BY <2>3, <2>6, <2>7 DEF Did, Nth
  <2>9. pc' \in {"querying", "ended"} /\ (pc' = "ended" <=> Exits(e.stmt))
    BY <1>1, <1>9
  <2> QED BY <2>2, <2>8, <2>9 DEF QueryInv
<1>12. CASE ~has_query_argument
  <2>1. pc' \in {"querying", "ended"}
    BY <1>1
  <2> QED BY <1>1, <1>12, <2>1 DEF QueryInv
<1> QED BY <1>11, <1>12

(* Without a statement run, and the pass where it was or further on. *)
LEMMA QueriesSame ==
  ASSUME QueryInv, TextInv, WalkInv, argv' = argv, ran' = ran,
         has_query_argument' = has_query_argument,
         pc = "querying", pc' = "querying" \/ (pc' = "ended" /\ at' > Len(argv)),
         has_query_argument =>
           \A P, f : P = QueryPositions /\ Did(ran, P, f, at - 1) => Did(ran, P, f, at' - 1)
  PROVE  QueryInv'
<1>1. CASE has_query_argument
  <2>1. NoExitBefore /\ ~LastExits /\ Did(ran, QueryPositions, QueryArguments, at - 1)
    BY <1>1 DEF QueryInv
  <2>2. NoExitBefore' /\ ~LastExits'
    BY <2>1 DEF NoExitBefore, LastExits, Exits
  <2>3. PICK Q, f, c : Q = QueryPositions /\ f = QueryArguments /\ c = at' - 1
    OBVIOUS
  <2>4. Did(ran, Q, f, c)
    BY <1>1, <2>1, <2>3
  <2>5. QueryPositions' = Q /\ QueryArguments' = f
    BY <2>3, QueriesStay
  <2>6. Did(ran, QueryPositions, QueryArguments, at - 1)'
    BY <2>3, <2>4, <2>5 DEF Did, Nth
  <2> QED BY <2>2, <2>6 DEF QueryInv
<1>2. CASE ~has_query_argument
  BY <1>2 DEF QueryInv
<1> QED BY <1>1, <1>2

(* Before the second pass nothing has been run. *)
LEMMA DidNone ==
  ASSUME NEW P, P \subseteq Nat \ {0}, NEW f
  PROVE  Did(<<>>, P, f, 0)
<1>1. \A q \in P : ~(q <= 0)
  OBVIOUS
<1>2. {q \in P : q <= 0} = {} /\ Len(<<>>) = 0
  BY <1>1
<1> QED BY <1>1, <1>2, FS_EmptySet DEF Did

(* The second pass goes past an argument that is no --query. *)
LEMMA PassedOver ==
  ASSUME TextInv, WalkInv, QueryInv, PassOver
  PROVE  QueryInv'
<1>1. /\ pc = "querying" /\ pc' = "querying" /\ at <= Len(argv) /\ argv[at].text # "--query"
      /\ at' = at + 1 /\ ran' = ran /\ argv' = argv /\ has_query_argument' = has_query_argument
  BY DEF PassOver, argVars
<1>2. program = "server" /\ Len(argv) \in Nat /\ at \in 1 .. Len(argv) + 1 /\ pc \in AfterParsing
  BY <1>1 DEF WalkInv, TextInv, AfterParsing
<1>3. OptionPositions \in SUBSET (1 .. Len(argv))
  BY <1>1, <1>2, AfterFirstPass
<1>4. QueryPositions \subseteq 1 .. Len(argv) /\ at \notin QueryPositions
  BY <1>1, <1>3 DEF QueryPositions
<1>5. ASSUME NEW P, NEW f, P = QueryPositions, Did(ran, P, f, at - 1)
      PROVE  Did(ran, P, f, at' - 1)
  <2>1. PICK b, c : b = at - 1 /\ c = at
    OBVIOUS
  <2>2. P \subseteq Nat /\ b \in Nat /\ c \in Nat /\ b <= c /\ at' - 1 = c
    BY <1>1, <1>2, <1>4, <1>5, <2>1
  <2>3. \A q \in P : ~(b < q /\ q <= c)
    <3>1. \A q \in P : q \in Nat /\ q # at
      BY <1>4, <1>5
    <3> QED BY <1>2, <2>1, <3>1
  <2>4. Did(ran, P, f, b)
    BY <1>5, <2>1
  <2>5. Did(ran, P, f, c)
    BY <2>2, <2>3, <2>4, DidSkip
  <2> QED BY <2>2, <2>5
<1> QED BY <1>1, <1>5, QueriesSame

LEMMA NextQueries == ShellInv /\ QueryInv /\ [Next]_vars => QueryInv'
<1> SUFFICES ASSUME TextInv, WalkInv, TableInv, QueryInv, [Next]_vars PROVE QueryInv'
  BY DEF ShellInv
<1>0. argv' = argv /\ Len(argv) \in Nat /\ argv \in Seq(Arguments)
  BY TextSteps DEF TextInv
<1>1. CASE Help \/ Serve \/ Query \/ BadArgument
  <2>1. pc = "parsing" /\ pc' \in {"parsing", "helped", "failed"} /\ ran' = ran
    BY <1>1 DEF Help, Serve, Query, BadArgument, Parsing
  <2> QED BY <2>1 DEF QueryInv
<1>2. ASSUME NEW o \in NumberOptions, SetOption(o) PROVE QueryInv'
  <2>1. pc = "parsing" /\ pc' = "parsing" /\ ran' = ran
    BY <1>2 DEF SetOption, Parsing
  <2> QED BY <2>1 DEF QueryInv
<1>3. CASE ArgumentsEnd
  <2>1. /\ pc = "parsing" /\ at > Len(argv) /\ at' = 1 /\ ran' = ran
        /\ has_query_argument' = has_query_argument
        /\ pc' \in {"serving", "querying", "reading", "failed"}
        /\ pc' = "reading" => ~has_query_argument
    BY <1>3 DEF ArgumentsEnd, argVars
  <2>2. PICK P \in SUBSET (1 .. Len(argv)) : Walk(P, at)
    BY <2>1 DEF WalkInv
  <2>3. Walk(P, Len(argv) + 1)
    <3>1. at = Len(argv) + 1
      BY <1>0, <2>1 DEF WalkInv
    <3> QED BY <2>2, <3>1
  <2>4. OptionPositions = P
    BY <1>0, <2>3, OptionsFound
  <2>5. QueryPositions \subseteq Nat \ {0}
    <3>1. QueryPositions \subseteq P
      BY <2>4 DEF QueryPositions
    <3>2. \A i \in P : i \in Nat \ {0}
      BY <1>0
    <3> QED BY <3>1, <3>2
  <2>6. ran' = <<>> /\ NoExitBefore' /\ ~LastExits'
    <3>1. ran' = <<>>
      BY <2>1 DEF QueryInv
    <3>2. Len(<<>>) = 0 /\ \A i \in 1 .. 0 - 1 : FALSE
      OBVIOUS
    <3> QED BY <3>1, <3>2 DEF NoExitBefore, LastExits
  <2>7. PICK Q, f : Q = QueryPositions /\ f = QueryArguments
    OBVIOUS
  <2>8. Did(<<>>, Q, f, 0)
    BY <2>5, <2>7, DidNone
  <2>9. QueryPositions' = Q /\ QueryArguments' = f /\ (at - 1)' = 0
    BY <1>0, <2>1, <2>7, QueriesStay
  <2>10. Did(ran, QueryPositions, QueryArguments, at - 1)'
    BY <2>6, <2>8, <2>9 DEF Did, Nth
  <2> QED BY <2>1, <2>6, <2>10 DEF QueryInv
<1>4. CASE RunQuery
  BY <1>4, QueryStep
<1>5. CASE PassOver
  BY <1>5, PassedOver
<1>6. CASE QueriesEnd
  <2>1. /\ pc = "querying" /\ pc' = "ended" /\ at > Len(argv) /\ at' = at /\ ran' = ran
        /\ has_query_argument' = has_query_argument
    BY <1>6 DEF QueriesEnd, argVars
  <2> QED BY <1>0, <2>1, QueriesSame
<1>7. CASE RunLine \/ InputEnds
  <2>1. /\ pc = "reading" /\ pc' \in {"reading", "ended"}
        /\ has_query_argument' = has_query_argument
    BY <1>7 DEF RunLine, InputEnds, argVars
  <2> QED BY <2>1 DEF QueryInv
<1>8. CASE UNCHANGED vars
  <2>1. /\ pc' = pc /\ at' = at /\ ran' = ran /\ has_query_argument' = has_query_argument
    BY <1>8 DEF vars
  <2>2. PICK Q, f : Q = QueryPositions /\ f = QueryArguments
    OBVIOUS
  <2>3. QueryPositions' = Q /\ QueryArguments' = f
    BY <1>0, <2>2, QueriesStay
  <2>4. Did(ran, QueryPositions, QueryArguments, at - 1)
          => Did(ran, QueryPositions, QueryArguments, at - 1)'
    BY <2>1, <2>2, <2>3 DEF Did, Nth
  <2>5. (NoExitBefore' <=> NoExitBefore) /\ (LastExits' <=> LastExits)
    BY <2>1 DEF NoExitBefore, LastExits, Exits
  <2> QED BY <1>0, <2>1, <2>4, <2>5 DEF QueryInv
<1> QED BY <1>1, <1>2, <1>3, <1>4, <1>5, <1>6, <1>7, <1>8 DEF Next

(* A value that an unsigned int can hold is stored as it is. *)
LEMMA StoredAsTold ==
  ASSUME NEW o \in NumberOptions, NEW a, a.value \in 0 .. UIntSize - 1
  PROVE  Stored(o, a) = a.value
<1> PICK n : n = a.value
  OBVIOUS
<1>1. n \in Nat /\ n < UIntSize /\ n <= ULongMax
  BY NumbersAssumption
<1>2. strtoul(n) = n
  <2>1. ~(n > ULongMax \/ n < -ULongMax) /\ ~(n < 0)
    BY <1>1, NumbersAssumption
  <2> QED BY <2>1 DEF strtoul
<1>3. n % UIntSize = n
  BY <1>1, NumbersAssumption
<1> QED BY <1>2, <1>3 DEF Stored

(* The arguments are taken as they were meant: the second pass runs each   *)
(* statement of --query once, in order, until one is EXIT, an option has   *)
(* the value it was last given, and neither pass looks behind the last     *)
(* argument.                                                               *)
THEOREM ArgumentsTaken == Spec => []ArgumentsAsTold
<1>1. Init => QueryInv
  <2> SUFFICES ASSUME Init PROVE QueryInv
    OBVIOUS
  <2>1. ran = <<>> /\ has_query_argument = FALSE
    BY DEF Init
  <2> QED BY <2>1 DEF QueryInv
<1>2. ShellInv /\ QueryInv /\ [Next]_vars => QueryInv'
  BY NextQueries
<1>3. ShellInv /\ QueryInv => ArgumentsAsTold
  <2> SUFFICES ASSUME TextInv, WalkInv, TableInv, QueryInv PROVE ArgumentsAsTold
    BY DEF ShellInv
  <2>1. pc \in Points /\ at \in 1 .. Len(argv) + 1 /\ Len(argv) \in Nat
    BY DEF TextInv, WalkInv
  <2>2. QueriesInOrder
    <3> SUFFICES ASSUME pc \in {"querying", "ended"}, has_query_argument
                 PROVE  RunsExactly(QueryPositions, QueryArguments)
      BY DEF QueriesInOrder
    <3>1. program = "server" /\ pc \in AfterParsing
      BY DEF WalkInv, TextInv, AfterParsing
    <3>2. QueryPositions \in SUBSET (1 .. Len(argv))
      BY <3>1, AfterFirstPass DEF QueryPositions
    <3>3. /\ NoExitBefore /\ Did(ran, QueryPositions, QueryArguments, at - 1)
          /\ pc = "ended" => at > Len(argv) \/ LastExits
      BY DEF QueryInv
    <3>4. PICK b, N, Q, f : /\ b = at - 1 /\ N = Len(argv)
                            /\ Q = QueryPositions /\ f = QueryArguments
      OBVIOUS
    <3>5. b \in Nat /\ (at > Len(argv) => b >= Len(argv))
      BY <2>1, <3>4
    <3>6. N \in Nat /\ Q \in SUBSET (1 .. N) /\ b \in Nat /\ Did(ran, Q, f, b)
      BY <2>1, <3>2, <3>3, <3>4, <3>5
    <3>7. /\ Len(ran) <= Cardinality(Q)
          /\ \A p \in Q : Nth(Q, p) <= Len(ran) => ran[Nth(Q, p)].stmt = f[p]
          /\ b >= N => Len(ran) = Cardinality(Q)
      BY <3>6, DidFirst
    <3> QED BY <3>3, <3>4, <3>5, <3>7 DEF RunsExactly, NoExitBefore, LastExits
  <2>3. OptionsAsTold
    <3> SUFFICES ASSUME pc \in {"serving", "querying", "reading"}, program = "server",
                        NEW o \in NumberOptions
                 PROVE  LET at_o == {i \in OptionPositions : argv[i].text = o}
                        IN  IF at_o = {}
                              THEN options[o] = Default
                              ELSE \E last \in at_o :
                                     /\ \A i \in at_o : i <= last
                                     /\ argv[last + 1].value \in 0 .. UIntSize - 1
                                          => options[o] = argv[last + 1].value
      BY DEF OptionsAsTold
    <3>1. Heard(OptionPositions)
      BY AfterFirstPass DEF AfterParsing
    <3>2. Told(OptionPositions, o)
      BY <3>1 DEF Heard
    <3>3. \A i : argv[i + 1].value \in 0 .. UIntSize - 1
                => Stored(o, argv[i + 1]) = argv[i + 1].value
      BY StoredAsTold
    <3> QED BY <3>2, <3>3, Zenon DEF Told
  <2> QED BY <2>1, <2>2, <2>3 DEF ArgumentsAsTold
<1> QED BY <1>1, <1>2, <1>3, ShellInvariance, PTL DEF Spec

-----------------------------------------------------------------------------
(* The standard input, line by line.                                       *)

(* How much of the input has been read. *)
Consumed == Len(typed) - Len(stdin)

(* Which lines have been run. *)
LineInv ==
  /\ Consumed \in Nat
  /\ \A i \in 1 .. Len(stdin) : stdin[i] = typed[Consumed + i]
  /\ pc = "parsing" => Consumed = 0 /\ ran = <<>>
  /\ pc = "querying" => has_query_argument
  /\ pc \in {"reading", "ended"} /\ ~has_query_argument /\ LinesFit =>
       /\ Consumed \in LineEnds \union {0}
       /\ NoExitBefore
       /\ pc = "reading" => ~LastExits
       /\ pc = "ended" => stdin = <<>> \/ LastExits
       /\ Did(ran, LineEnds, Lines, Consumed)

(* The line that ends at e begins behind the end of the one before it. *)
LEMMA LineStartIs ==
  ASSUME NEW c \in Nat, NEW e \in Nat, c < e, c \in LineEnds \union {0},
         \A i \in c + 1 .. e - 1 : i \notin LineEnds
  PROVE  LineStart(e) = c + 1
<1> DEFINE Begins(b) == (b = 1 \/ b - 1 \in LineEnds) /\ \A i \in b .. e - 1 : i \notin LineEnds
<1>1. c + 1 \in 1 .. e /\ Begins(c + 1)
  <2>1. (c + 1) - 1 = c /\ (c = 0 => c + 1 = 1)
    OBVIOUS
  <2> QED BY <2>1
<1>2. ASSUME NEW b \in 1 .. e, Begins(b) PROVE b = c + 1
  <2>1. CASE b < c + 1
    <3>1. c # 0 /\ c \in b .. e - 1
      BY <2>1
    <3> QED BY <1>2, <3>1
  <2>2. CASE b > c + 1
    <3>1. b # 1 /\ b - 1 \in c + 1 .. e - 1
      BY <2>2
    <3> QED BY <1>2, <3>1
  <2> QED BY <2>1, <2>2
<1>3. LineStart(e) = CHOOSE b \in 1 .. e : Begins(b)
  BY DEF LineStart
<1> HIDE DEF Begins
<1> QED BY <1>1, <1>2, <1>3

(* If the lines fit, fgets takes just the next one. *)
LEMMA NextLine ==
  ASSUME TextInv, NEW c \in Nat, c = Consumed, stdin # <<>>,
         \A i \in 1 .. Len(stdin) : stdin[i] = typed[c + i],
         LinesFit, c \in LineEnds \union {0},
         NEW t, t = Taken, NEW e, e = c + t
  PROVE  /\ e \in LineEnds
         /\ \A i \in c + 1 .. e - 1 : i \notin LineEnds
         /\ Lines[e] = StatementOf(SubSeq(stdin, 1, t))
<1>0. /\ stdin \in Seq(Units) /\ typed \in Seq(Units) /\ Len(stdin) \in Nat /\ Len(typed) \in Nat
      /\ BufferSize \in Nat \ {0, 1}
  BY BufferAssumption DEF TextInv
<1>2. /\ t \in 1 .. Len(stdin) /\ t < BufferSize
      /\ \A i \in 1 .. t - 1 : stdin[i] # Newline
      /\ stdin[t] = Newline \/ t = Len(stdin) \/ t = BufferSize - 1
  BY <1>0, TakenIs
<1>3. e \in Nat /\ e = c + t
  BY <1>2
<1>4. Len(typed) = c + Len(stdin) /\ e \in 1 .. Len(typed) /\ c < e
  BY <1>0, <1>2, <1>3 DEF Consumed
<1>5. ASSUME NEW i \in c + 1 .. e - 1 PROVE i \notin LineEnds
  <2>1. i - c \in 1 .. t - 1 /\ i - c \in 1 .. Len(stdin) /\ c + (i - c) = i /\ i # Len(typed)
    BY <1>2, <1>3, <1>4
  <2>2. typed[i] # Newline
    BY <1>2, <2>1
  <2> QED BY <2>1, <2>2 DEF LineEnds
<1>6. e \in LineEnds
  <2>1. CASE stdin[t] = Newline
    BY <1>2, <1>3, <1>4, <2>1 DEF LineEnds
  <2>2. CASE t = Len(stdin)
    BY <1>3, <1>4, <2>2 DEF LineEnds
  <2>3. CASE t = BufferSize - 1
    <3>1. c + 1 \in 1 .. Len(typed)
      BY <1>0, <1>2, <1>4
    <3>2. PICK l \in LineEnds : l >= c + 1 /\ l < (c + 1) + BufferSize - 1
      BY <3>1 DEF LinesFit
    <3>3. l \in 1 .. Len(typed)
      BY DEF LineEnds
    <3>4. l = e \/ l \in c + 1 .. e - 1
      BY <1>0, <1>2, <1>3, <2>3, <3>2, <3>3
    <3> QED BY <1>5, <3>2, <3>4
  <2> QED BY <1>2, <2>1, <2>2, <2>3
<1>7. LineStart(e) = c + 1
  BY <1>4, <1>5, LineStartIs
<1>8. SubSeq(stdin, 1, t) = SubSeq(typed, c + 1, e)
  <2>1. \A i \in 1 .. t : stdin[i] = typed[c + i]
    BY <1>2
  <2>2. /\ SubSeq(stdin, 1, t) \in Seq(Units) /\ Len(SubSeq(stdin, 1, t)) = t
        /\ \A i \in 1 .. t : SubSeq(stdin, 1, t)[i] = stdin[i]
    BY <1>0, <1>2
  <2>3. /\ SubSeq(typed, c + 1, e) \in Seq(Units) /\ Len(SubSeq(typed, c + 1, e)) = t
        /\ \A i \in 1 .. t : SubSeq(typed, c + 1, e)[i] = typed[c + i]
    <3>1. PICK m \in Nat : m = c + 1
      OBVIOUS
    <3>2. m \in 1 .. Len(typed) /\ e \in 1 .. Len(typed) /\ m <= e /\ (e - m) + 1 = t
      BY <1>0, <1>2, <1>3, <1>4, <3>1
    <3>3. /\ SubSeq(typed, m, e) \in Seq(Units) /\ Len(SubSeq(typed, m, e)) = (e - m) + 1
          /\ \A i \in 1 .. (e - m) + 1 : SubSeq(typed, m, e)[i] = typed[(m + i) - 1]
      BY <1>0, <3>2
    <3>4. \A i \in 1 .. t : (m + i) - 1 = c + i
      BY <3>1, <1>2
    <3> QED BY <3>1, <3>2, <3>3, <3>4
  <2> QED BY <2>1, <2>2, <2>3
<1>9. Lines[e] = StatementOf(SubSeq(stdin, 1, t))
  BY <1>6, <1>7, <1>8 DEF Lines
<1> QED BY <1>5, <1>6, <1>9

LEMMA LinesStay ==
  ASSUME typed' = typed
  PROVE  LineEnds' = LineEnds /\ Lines' = Lines /\ LinesFit' = LinesFit
<1>1. LineEnds' = LineEnds
  BY DEF LineEnds
<1>2. \A e : LineStart(e)' = LineStart(e)
  BY <1>1 DEF LineStart
<1> QED BY <1>1, <1>2 DEF Lines, LinesFit

LEMMA LineStep ==
  ASSUME TextInv, TableInv, LineInv, RunLine
  PROVE  LineInv'
<1> PICK s : s = StatementOf(SubSeq(stdin, 1, Taken))
  OBVIOUS
<1>1. /\ pc = "reading" /\ stdin # <<>> /\ Run(s)
      /\ pc' = IF Exits(s) THEN "ended" ELSE "reading"
      /\ stdin' = SubSeq(stdin, Taken + 1, Len(stdin))
      /\ typed' = typed /\ has_query_argument' = has_query_argument
  BY DEF RunLine, argVars, Exits
<1>2. stdin \in Seq(Units) /\ Len(stdin) \in Nat /\ Len(typed) \in Nat
  BY DEF TextInv
<1> PICK t : t = Taken
  OBVIOUS
<1>3. PICK c \in Nat : c = Consumed /\ t = Taken
  BY DEF LineInv
<1>4. t \in 1 .. Len(stdin)
  BY <1>1, <1>2, <1>3, TakenIs
<1>5. /\ Len(stdin') = Len(stdin) - t
      /\ \A i \in 1 .. Len(stdin) - t : stdin'[i] = stdin[t + i]
  BY <1>1, <1>2, <1>3, RestIs
<1>6. Consumed' = c + t /\ c + t \in Nat
  <2>1. c = Len(typed) - Len(stdin) /\ Consumed' = Len(typed) - Len(stdin')
    BY <1>1, <1>3 DEF Consumed
  <2> QED BY <1>2, <1>4, <1>5, <2>1
<1>7. ASSUME NEW i \in 1 .. Len(stdin') PROVE stdin'[i] = typed'[Consumed' + i]
  <2>1. i \in 1 .. Len(stdin) - t /\ t + i \in 1 .. Len(stdin) /\ c + (t + i) = (c + t) + i
    BY <1>2, <1>4, <1>5
  <2>2. stdin[t + i] = typed[c + (t + i)]
    BY <1>3, <2>1 DEF LineInv
  <2> QED BY <1>1, <1>5, <1>6, <2>1, <2>2
<1>8. s \in Statements
  BY <1>1, <1>2, RestIs, StatementType
<1>9. PICK x \in EntryType : ran' = Append(ran, x) /\ x.stmt = s
  <2>1. next_id \in Int
    BY DEF TableInv
  <2>2. RunInserts(s) \/ RunSelects(s) \/ RunElse(s)
    BY <1>1, <2>1, RunIs
  <2> QED BY <1>8, <2>2, RunEntry
<1>10. pc' \in {"reading", "ended"} /\ (pc' = "ended" <=> Exits(s))
  BY <1>1
<1>11. ASSUME ~has_query_argument, LinesFit
       PROVE  /\ Consumed' \in LineEnds' \union {0}
              /\ NoExitBefore'
              /\ LastExits' <=> Exits(s)
              /\ Did(ran, LineEnds, Lines, Consumed)'
  <2>1. /\ c \in LineEnds \union {0} /\ NoExitBefore /\ ~LastExits
        /\ Did(ran, LineEnds, Lines, c)
        /\ \A i \in 1 .. Len(stdin) : stdin[i] = typed[c + i]
    BY <1>1, <1>3, <1>11 DEF LineInv
  <2>2. PICK P, f, r, e, N : /\ P = LineEnds /\ f = Lines /\ r = ran' /\ e = c + t
                             /\ N = Len(typed)
    OBVIOUS
  <2>3. /\ e \in P /\ f[e] = s
        /\ \A i \in c + 1 .. e - 1 : i \notin P
    BY <1>1, <1>3, <1>11, <2>1, <2>2, NextLine
  <2>4. ran \in Seq(EntryType) /\ Did(ran, P, f, c) /\ N \in Nat /\ P \in SUBSET (1 .. N)
    BY <1>2, <2>1, <2>2 DEF TableInv, LineEnds
  <2>5. NoExitBefore' /\ (LastExits' <=> Exits(s))
    BY <1>9, <2>1, <2>4, ExitStep
  <2>6. e \in Nat /\ c < e /\ e <= e /\ \A q \in P : c < q /\ q <= e => q = e
    <3>1. e \in Nat /\ c < e /\ e <= e
      BY <1>4, <1>6, <2>2
    <3>2. \A q \in P : q \in Nat
      BY <2>4
    <3> QED BY <2>3, <3>1, <3>2
  <2>7. Did(r, P, f, e)
    BY <1>9, <2>2, <2>3, <2>4, <2>6, DidNext
  <2>8. LineEnds' = P /\ Lines' = f
    BY <1>1, <2>2, LinesStay
  <2>9. Did(ran, LineEnds, Lines, Consumed)'
    BY <1>6, <2>2, <2>7, <2>8 DEF Did, Nth
  <2> QED BY <1>6, <2>2, <2>3, <2>5, <2>8, <2>9
<1>12. LinesFit' = LinesFit
  BY <1>1, LinesStay
<1> QED BY <1>1, <1>6, <1>7, <1>10, <1>11, <1>12 DEF LineInv

LEMMA InitLines == Init => LineInv
<1> SUFFICES ASSUME Init PROVE LineInv
  OBVIOUS
<1>1. ran = <<>> /\ stdin = typed /\ pc \in {"parsing", "reading"} /\ typed \in Seq(Units)
  BY InitText DEF Init, TextInv
<1>2. Len(typed) \in Nat /\ Consumed = 0 /\ \A i \in 1 .. Len(typed) : 0 + i = i
  BY <1>1 DEF Consumed
<1>3. NoExitBefore /\ ~LastExits
  <2>1. Len(<<>>) = 0 /\ \A i \in 1 .. 0 - 1 : FALSE
    OBVIOUS
  <2> QED BY <1>1, <2>1 DEF NoExitBefore, LastExits
<1>4. PICK P, f : P = LineEnds /\ f = Lines
  OBVIOUS
<1>5. P \subseteq Nat \ {0}
  <2>1. P \subseteq 1 .. Len(typed)
    BY <1>4 DEF LineEnds
  <2>2. \A i \in 1 .. Len(typed) : i \in Nat \ {0}
    BY <1>2
  <2> QED BY <2>1, <2>2
<1>6. Did(<<>>, P, f, 0)
  BY <1>5, DidNone
<1> QED BY <1>1, <1>2, <1>3, <1>4, <1>6 DEF LineInv

(* Nothing is read and nothing is run, in the same mode or in one without  *)
(* lines.                                                                  *)
LEMMA LinesSame ==
  ASSUME LineInv, typed' = typed, stdin' = stdin, ran' = ran,
         pc' \in {"parsing", "querying"} => pc' = pc,
         has_query_argument' = has_query_argument \/ pc = "parsing",
         pc' \in {"reading", "ended"} /\ ~has_query_argument' =>
           pc' = pc \/ (pc = "reading" /\ (pc' = "ended" => stdin = <<>>))
  PROVE  LineInv'
<1>1. PICK c : c = Consumed
  OBVIOUS
<1>2. Consumed' = c
  BY <1>1 DEF Consumed
<1>3. LineEnds' = LineEnds /\ Lines' = Lines /\ LinesFit' = LinesFit
  BY LinesStay
<1>4. (NoExitBefore' <=> NoExitBefore) /\ (LastExits' <=> LastExits)
  BY DEF NoExitBefore, LastExits, Exits
<1>5. PICK P, f : P = LineEnds /\ f = Lines
  OBVIOUS
<1>6. Did(ran, LineEnds, Lines, Consumed) => Did(ran, P, f, c)
  BY <1>1, <1>5
<1>7. Did(ran, P, f, c) => Did(ran, LineEnds, Lines, Consumed)'
  BY <1>2, <1>3, <1>5 DEF Did, Nth
<1>8. c \in Nat /\ \A i \in 1 .. Len(stdin) : stdin[i] = typed[c + i]
  BY <1>1 DEF LineInv
<1>9. pc' = "parsing" => Consumed' = 0 /\ ran' = <<>>
  BY <1>1, <1>2 DEF LineInv
<1>10. pc' = "querying" => has_query_argument'
  BY DEF LineInv
<1>11. ASSUME pc' \in {"reading", "ended"}, ~has_query_argument', LinesFit'
       PROVE  /\ Consumed' \in LineEnds' \union {0}
              /\ NoExitBefore'
              /\ pc' = "reading" => ~LastExits'
              /\ pc' = "ended" => stdin' = <<>> \/ LastExits'
              /\ Did(ran, LineEnds, Lines, Consumed)'
  <2>1. pc \in {"reading", "ended"} /\ ~has_query_argument /\ LinesFit
    BY <1>3, <1>11
  <2>2. /\ Consumed \in LineEnds \union {0} /\ NoExitBefore
        /\ pc = "reading" => ~LastExits
        /\ pc = "ended" => stdin = <<>> \/ LastExits
        /\ Did(ran, LineEnds, Lines, Consumed)
    BY <2>1 DEF LineInv
  <2> QED BY <1>1, <1>2, <1>3, <1>4, <1>6, <1>7, <1>11, <2>2
<1> QED BY <1>2, <1>8, <1>9, <1>10, <1>11 DEF LineInv

LEMMA NextLines == ShellInv /\ LineInv /\ [Next]_vars => LineInv'
<1> SUFFICES ASSUME TextInv, WalkInv, TableInv, LineInv, [Next]_vars PROVE LineInv'
  BY DEF ShellInv
<1>1. CASE Help \/ Serve \/ Query \/ BadArgument
  <2>1. /\ pc = "parsing" /\ pc' \in {"parsing", "helped", "failed"} /\ ran' = ran
        /\ typed' = typed /\ stdin' = stdin
    BY <1>1 DEF Help, Serve, Query, BadArgument, Parsing
  <2> QED BY <2>1, LinesSame
<1>2. ASSUME NEW o \in NumberOptions, SetOption(o) PROVE LineInv'
  <2>1. /\ pc = "parsing" /\ pc' = "parsing" /\ ran' = ran /\ typed' = typed /\ stdin' = stdin
    BY <1>2 DEF SetOption, Parsing
  <2> QED BY <2>1, LinesSame
<1>3. CASE ArgumentsEnd
  <2>1. /\ pc = "parsing" /\ ran' = ran /\ typed' = typed /\ stdin' = stdin
        /\ has_query_argument' = has_query_argument
        /\ pc' \in {"serving", "querying", "reading", "failed"}
        /\ pc' = "querying" => has_query_argument
    BY <1>3 DEF ArgumentsEnd, argVars
  <2>2. PICK P, f : P = LineEnds /\ f = Lines
    OBVIOUS
  <2>3. P \subseteq Nat \ {0}
    <3>1. P \subseteq 1 .. Len(typed) /\ Len(typed) \in Nat
      BY <2>2 DEF LineEnds, TextInv
    <3>2. \A i \in 1 .. Len(typed) : i \in Nat \ {0}
      BY <3>1
    <3> QED BY <3>1, <3>2
  <2>4. Did(<<>>, P, f, 0)
    BY <2>3, DidNone
  <2>5. LineEnds' = P /\ Lines' = f
    BY <2>1, <2>2, LinesStay
  <2>6. Consumed = 0 /\ ran = <<>>
    BY <2>1 DEF LineInv
  <2>7. Consumed' = 0
    BY <2>1, <2>6 DEF Consumed
  <2>8. Did(ran, LineEnds, Lines, Consumed)'
    BY <2>1, <2>4, <2>5, <2>6, <2>7 DEF Did, Nth
  <2>9. NoExitBefore' /\ ~LastExits'
    <3>1. Len(<<>>) = 0 /\ \A i \in 1 .. 0 - 1 : FALSE
      OBVIOUS
    <3> QED BY <2>1, <2>6, <3>1 DEF NoExitBefore, LastExits
  <2>10. \A i \in 1 .. Len(stdin) : stdin[i] = typed[0 + i]
    BY <2>6 DEF LineInv
  <2> QED BY <2>1, <2>7, <2>8, <2>9, <2>10 DEF LineInv
<1>4. CASE RunQuery
  <2>1. /\ pc = "querying" /\ pc' \in {"querying", "ended"} /\ typed' = typed /\ stdin' = stdin
        /\ has_query_argument' = has_query_argument
    BY <1>4 DEF RunQuery, argVars
  <2>2. Consumed' = Consumed
    BY <2>1 DEF Consumed
  <2>3. has_query_argument /\ Consumed \in Nat
        /\ \A i \in 1 .. Len(stdin) : stdin[i] = typed[Consumed + i]
    BY <2>1 DEF LineInv
  <2> QED BY <2>1, <2>2, <2>3 DEF LineInv
<1>5. CASE PassOver \/ QueriesEnd
  <2>1. /\ pc = "querying" /\ pc' \in {"querying", "ended"} /\ typed' = typed /\ stdin' = stdin
        /\ has_query_argument' = has_query_argument /\ ran' = ran
    BY <1>5 DEF PassOver, QueriesEnd, argVars
  <2>2. has_query_argument
    BY <2>1 DEF LineInv
  <2> QED BY <2>1, <2>2, LinesSame
<1>6. CASE RunLine
  BY <1>6, LineStep
<1>7. CASE InputEnds
  <2>1. /\ pc = "reading" /\ pc' = "ended" /\ stdin = <<>> /\ typed' = typed /\ stdin' = stdin
        /\ has_query_argument' = has_query_argument /\ ran' = ran
    BY <1>7 DEF InputEnds, argVars
  <2> QED BY <2>1, LinesSame
<1>8. CASE UNCHANGED vars
  <2>1. /\ pc' = pc /\ ran' = ran /\ typed' = typed /\ stdin' = stdin
        /\ has_query_argument' = has_query_argument
    BY <1>8 DEF vars
  <2> QED BY <2>1, LinesSame
<1> QED BY <1>1, <1>2, <1>3, <1>4, <1>5, <1>6, <1>7, <1>8 DEF Next

(* Usage text: of an input whose lines fit into the buffer each line is    *)
(* run as one statement, in order, until one of them is EXIT.              *)
THEOREM LinesTaken == Spec => []OneStatementPerLine
<1>1. Init => LineInv
  BY InitLines
<1>2. ShellInv /\ LineInv /\ [Next]_vars => LineInv'
  BY NextLines
<1>3. ShellInv /\ LineInv => OneStatementPerLine
  <2> SUFFICES ASSUME TextInv, LineInv, pc \in {"reading", "ended"}, ~has_query_argument, LinesFit
               PROVE  RunsExactly(LineEnds, Lines)
    BY DEF ShellInv, OneStatementPerLine
  <2>1. /\ NoExitBefore /\ Did(ran, LineEnds, Lines, Consumed) /\ Consumed \in Nat
        /\ pc = "ended" => stdin = <<>> \/ LastExits
    BY DEF LineInv
  <2>2. PICK b, N, Q, f : b = Consumed /\ N = Len(typed) /\ Q = LineEnds /\ f = Lines
    OBVIOUS
  <2>3. N \in Nat /\ Q \in SUBSET (1 .. N) /\ b \in Nat /\ Did(ran, Q, f, b)
    BY <2>1, <2>2 DEF TextInv, LineEnds
  <2>4. stdin = <<>> => b >= N
    <3>1. Len(<<>>) = 0
      OBVIOUS
    <3> QED BY <2>2, <2>3, <3>1 DEF Consumed
  <2>5. /\ Len(ran) <= Cardinality(Q)
        /\ \A p \in Q : Nth(Q, p) <= Len(ran) => ran[Nth(Q, p)].stmt = f[p]
        /\ b >= N => Len(ran) = Cardinality(Q)
    BY <2>3, DidFirst
  <2> QED BY <2>1, <2>2, <2>4, <2>5 DEF RunsExactly, NoExitBefore, LastExits
<1> QED BY <1>1, <1>2, <1>3, ShellInvariance, PTL DEF Spec

=============================================================================
