------------------------------- MODULE Shell -------------------------------
(***************************************************************************)
(* The two programs that run statements without HTTP: the shell of         *)
(* src/cli/main.c, and src/server/server.c, whose main reads its arguments *)
(* in one pass and, with --query, runs the statements in a second pass     *)
(* over the same arguments; without it, it reads them from its standard    *)
(* input.                                                                  *)
(*                                                                         *)
(* A program runs alone, so db_server_execute has the lock at once and a   *)
(* statement is one step.  Standard input is a sequence of units: tokens,  *)
(* white space, and the end of a line; fgets cuts it between two units.    *)
(* The tree and the array of the table are the subject of Table: here it   *)
(* is its rows.                                                            *)
(***************************************************************************)
EXTENDS SQL, FiniteSets

CONSTANTS Starts,       \* the ways to start: program, arguments and standard input
          BufferSize,   \* sizeof(input)
          UIntSize,     \* the number of unsigned int values, 2^32
          ULongMax,     \* the largest unsigned long, 2^64 - 1
          MaxPort       \* 65535

Flags == {"--help", "--serve"}
NumberOptions == {"--port", "--workers", "--queue", "--lock-timeout-ms",
                  "--simulate-read-delay-ms", "--simulate-write-delay-ms", "--max-requests"}

Units == [kind : Kinds \union {"newline", "space"}, text : STRING, value : Int]
Arguments == [text : STRING, numeric : BOOLEAN, value : Int, stmt : Statements]

ASSUME BufferAssumption == BufferSize \in Nat \ {0, 1}

(* int is no wider than long, unsigned int no wider than unsigned long. *)
ASSUME NumbersAssumption ==
  /\ UIntSize \in Nat \ {0} /\ ULongMax \in Nat /\ MaxPort \in Nat
  /\ UIntSize - 1 <= ULongMax
  /\ IntSize <= 2 * (LongMax + 1)

(* An argument that is a number is not the name of an option. *)
ASSUME StartsAssumption ==
  \A s \in Starts :
    /\ s.program \in {"cli", "server"} /\ s.argv \in Seq(Arguments) /\ s.typed \in Seq(Units)
    /\ \A i \in 1 .. Len(s.argv) :
         s.argv[i].numeric => s.argv[i].text \notin Flags \union NumberOptions \union {"--query"}

VARIABLES program,     \* "cli" or "server"
          argv,        \* argv[1 ..]
          at,          \* index in either pass
          serve_mode, has_query_argument,
          options,     \* the numbers options were set to, or Default
          typed,       \* the whole standard input
          stdin,       \* what is left of it
          pc,          \* see Points
          rows,        \* the table's rows
          next_id,     \* table->next_id
          ran          \* the statements run and what was printed for them

argVars == <<serve_mode, has_query_argument, options>>
tableVars == <<rows, next_id>>
vars == <<program, argv, at, serve_mode, has_query_argument, options, typed, stdin, pc, rows,
          next_id, ran>>

(* "parsing": first pass; "querying": second pass; "reading": standard     *)
(* input; "serving": in http_server_run; "helped": the usage was printed;  *)
(* "ended" and "failed": main returned 0 or 1.                             *)
Points == {"parsing", "querying", "reading", "serving", "helped", "ended", "failed"}

(* An option that the arguments do not set. *)
Default == -1

Newline == Token("newline", "none", 0)
Space == Token("space", "none", 0)
Blank(u) == u.kind \in {"newline", "space"}

(* The units that are no white space, in order. *)
Tokens(units) ==
  LET kept[n \in 0 .. Len(units)] == IF n = 0 THEN <<>>
                                     ELSE IF Blank(units[n]) THEN kept[n - 1]
                                     ELSE Append(kept[n - 1], units[n])
  IN  kept[Len(units)]

(* The statement in a buffer of units. *)
StatementOf(units) ==
  [lead |-> units # <<>> /\ Blank(units[1]), tokens |-> Tokens(units)]

Init ==
  /\ \E s \in Starts : program = s.program /\ argv = s.argv /\ typed = s.typed
  /\ stdin = typed
  /\ at = 1
  /\ serve_mode = FALSE
  /\ has_query_argument = FALSE
  /\ options = [o \in NumberOptions |-> Default]
  /\ pc = IF program = "server" THEN "parsing" ELSE "reading"
  /\ rows = <<>>
  /\ next_id = 1
  /\ ran = <<>>

-----------------------------------------------------------------------------
(* The first pass over the arguments.                                      *)

Parsing(option) == pc = "parsing" /\ at <= Len(argv) /\ argv[at].text = option

Help ==
  /\ Parsing("--help")
  /\ pc' = "helped"
  /\ UNCHANGED <<program, argv, at, argVars, typed, stdin, tableVars, ran>>

Serve ==
  /\ Parsing("--serve")
  /\ serve_mode' = TRUE
  /\ at' = at + 1
  /\ UNCHANGED <<program, argv, has_query_argument, options, typed, stdin, pc, tableVars, ran>>

(* The statement is skipped, whatever it looks like. *)
Query ==
  /\ Parsing("--query")
  /\ at < Len(argv)
  /\ has_query_argument' = TRUE
  /\ at' = at + 2
  /\ UNCHANGED <<program, argv, serve_mode, options, typed, stdin, pc, tableVars, ran>>

(* strtoul takes a minus sign, and stops at the largest unsigned long. *)
strtoul(n) == CASE n > ULongMax \/ n < -ULongMax -> ULongMax
                [] n < 0 -> ULongMax + 1 + n
                [] OTHER -> n

(* What is accepted as the value of an option, and what is stored. *)
Accepts(o, a) ==
  /\ a.numeric
  /\ o = "--port" => strtoul(a.value) <= MaxPort
  /\ o \in {"--workers", "--queue"} => strtoul(a.value) # 0

Stored(o, a) ==
  IF o \in {"--port", "--workers", "--queue"} THEN strtoul(a.value)
                                              ELSE strtoul(a.value) % UIntSize

SetOption(o) ==
  /\ Parsing(o)
  /\ at < Len(argv)
  /\ Accepts(o, argv[at + 1])
  /\ options' = [options EXCEPT ![o] = Stored(o, argv[at + 1])]
  /\ at' = at + 2
  /\ UNCHANGED <<program, argv, serve_mode, has_query_argument, typed, stdin, pc, tableVars, ran>>

(* An option without its value, with a bad one, or unknown. *)
BadArgument ==
  /\ pc = "parsing"
  /\ at <= Len(argv)
  /\ \/ argv[at].text \notin Flags \union NumberOptions \union {"--query"}
     \/ argv[at].text \in NumberOptions \union {"--query"} /\ at = Len(argv)
     \/ /\ argv[at].text \in NumberOptions /\ at < Len(argv)
        /\ ~Accepts(argv[at].text, argv[at + 1])
  /\ pc' = "failed"
  /\ UNCHANGED <<program, argv, at, argVars, typed, stdin, tableVars, ran>>

(* After the first pass: one of the three modes, or an error.              *)
(* db_server_init_with_config may fail.                                    *)
ArgumentsEnd ==
  /\ pc = "parsing"
  /\ at > Len(argv)
  /\ \/ serve_mode /\ pc' = IF has_query_argument THEN "failed" ELSE "serving"
     \/ ~serve_mode /\ pc' \in {IF has_query_argument THEN "querying" ELSE "reading", "failed"}
  /\ at' = 1
  /\ UNCHANGED <<program, argv, argVars, typed, stdin, tableVars, ran>>

-----------------------------------------------------------------------------
(* One statement: sql_execute and what is printed for it.                  *)

InOrder(left, op, right) ==
  CASE op = "="  -> left = right
    [] op = "<"  -> left < right
    [] op = "<=" -> left <= right
    [] op = ">"  -> left > right
    [] op = ">=" -> left >= right

(* The rows a SELECT collects. *)
Selected(o, r) ==
  CASE o.path = "all" -> TRUE
    [] o.path = "id" -> InOrder(r.id, o.op, o.value)
    [] o.path = "age" -> InOrder(r.age, o.op, o.value)
    [] o.path = "name" -> r.name = o.text

Printed(s, path, ids) == ran' = Append(ran, [stmt |-> s, path |-> path, ids |-> ids])

(* Runs s.  Without memory an INSERT or a SELECT is an error, and an       *)
(* INSERT may have used up an id.                                          *)
Run(s) ==
  LET o == sql_execute(s)
  IN  \/ /\ o.path = "insert"
         /\ rows' = Append(rows, [id |-> next_id, name |-> o.text, age |-> o.value])
         /\ next_id' = next_id + 1
         /\ Printed(s, "insert", {next_id})
      \/ /\ o.path \in SelectPaths
         /\ Printed(s, o.path, {rows[i].id : i \in {j \in DOMAIN rows : Selected(o, rows[j])}})
         /\ UNCHANGED tableVars
      \/ /\ o.path \in SelectPaths \union {"insert"}
         /\ o.path \in SelectPaths => rows # <<>>
         /\ next_id' \in {next_id, next_id + IF o.path = "insert" THEN 1 ELSE 0}
         /\ Printed(s, "error", {})
         /\ UNCHANGED rows
      \/ /\ o.path \in {"exit", "syntax_error", "query_error"}
         /\ Printed(s, o.path, {})
         /\ UNCHANGED tableVars

(* Mutant of RunQuery: the statement itself is looked at as an argument    *)
(* again.                                                                  *)
RunQuery_Rescans ==
  /\ pc = "querying"
  /\ at < Len(argv)
  /\ argv[at].text = "--query"
  /\ Run(argv[at + 1].stmt)
  /\ pc' = IF sql_execute(argv[at + 1].stmt).path = "exit" THEN "ended" ELSE "querying"
  /\ at' = at + 1
  /\ UNCHANGED <<program, argv, argVars, typed, stdin>>

(* The second pass runs the argument behind --query ... *)
RunQuery ==
  /\ pc = "querying"
  /\ at <= Len(argv)
  /\ argv[at].text = "--query"
  /\ Run(argv[at + 1].stmt)
  /\ pc' = IF sql_execute(argv[at + 1].stmt).path = "exit" THEN "ended" ELSE "querying"
  /\ at' = at + 2
  /\ UNCHANGED <<program, argv, argVars, typed, stdin>>

(* ... and passes over every other one. *)
PassOver ==
  /\ pc = "querying"
  /\ at <= Len(argv)
  /\ argv[at].text # "--query"
  /\ at' = at + 1
  /\ UNCHANGED <<program, argv, argVars, typed, stdin, pc, tableVars, ran>>

QueriesEnd ==
  /\ pc = "querying"
  /\ at > Len(argv)
  /\ pc' = "ended"
  /\ UNCHANGED <<program, argv, at, argVars, typed, stdin, tableVars, ran>>

(* How many units fgets takes: up to the end of the line, or as many as    *)
(* the buffer has room for beside its terminating NUL.                     *)
Taken ==
  CHOOSE n \in 1 .. Len(stdin) :
    /\ \A i \in 1 .. n - 1 : stdin[i] # Newline
    /\ n < BufferSize
    /\ stdin[n] = Newline \/ n = Len(stdin) \/ n = BufferSize - 1

(* Mutant of RunLine: EXIT does not stop the program. *)
RunLine_NoExit ==
  /\ pc = "reading"
  /\ stdin # <<>>
  /\ Run(StatementOf(SubSeq(stdin, 1, Taken)))
  /\ stdin' = SubSeq(stdin, Taken + 1, Len(stdin))
  /\ UNCHANGED <<program, argv, at, argVars, typed, pc>>

(* server_run_stdin and the loop of the shell. *)
RunLine ==
  /\ pc = "reading"
  /\ stdin # <<>>
  /\ LET s == StatementOf(SubSeq(stdin, 1, Taken))
     IN  Run(s) /\ pc' = IF sql_execute(s).path = "exit" THEN "ended" ELSE "reading"
  /\ stdin' = SubSeq(stdin, Taken + 1, Len(stdin))
  /\ UNCHANGED <<program, argv, at, argVars, typed>>

InputEnds ==
  /\ pc = "reading"
  /\ stdin = <<>>
  /\ pc' = "ended"
  /\ UNCHANGED <<program, argv, at, argVars, typed, stdin, tableVars, ran>>

Next ==
  \/ Help \/ Serve \/ Query \/ (\E o \in NumberOptions : SetOption(o)) \/ BadArgument
  \/ ArgumentsEnd \/ RunQuery \/ PassOver \/ QueriesEnd \/ RunLine \/ InputEnds

Spec == Init /\ [][Next]_vars

-----------------------------------------------------------------------------

(* For every statement the programs are given, and whatever its tokens     *)
(* are, the lock of db_server_execute covers what sql_execute does.        *)
StatementsCovered == \A i \in DOMAIN ran : LockCovers(ran[i].stmt)

(* usedIndex is printed as it was: the scan for WHERE is not misled by     *)
(* string literals or by other words.                                      *)
UsedIndexHonest == \A i \in DOMAIN ran : GuessIsRight(ran[i].stmt)

(* Every error that sql_execute returns has a message. *)
ErrorsExplained == \A i \in DOMAIN ran : ErrorsTold(ran[i].stmt)

InRange(n) == 2 * n < IntSize /\ 2 * n >= -IntSize

(* The comparison of a SELECT that is run, which has only one. *)
ComparisonIn(s) == CHOOSE k \in DOMAIN s.tokens : s.tokens[k].kind = "comparison"

(* A row is found again by the age it was inserted with, whatever literal  *)
(* that was; and among the literals that fit an int, WHERE age OP n means  *)
(* what it says.                                                           *)
AgesCompare ==
  \A i, j \in DOMAIN ran :
    i < j /\ ran[i].path = "insert" /\ ran[j].path = "age" =>
      LET m == ran[i].stmt.tokens[8].value
          c == ComparisonIn(ran[j].stmt)
          op == ran[j].stmt.tokens[c].text
          n == ran[j].stmt.tokens[c + 1].value
          found == ran[i].ids \subseteq ran[j].ids
      IN  /\ m = n /\ op = "=" => found
          /\ InRange(m) /\ InRange(n) => (found <=> InOrder(m, op, n))

Exits(s) == sql_execute(s).path = "exit"

(* The rank of p among the positions P. *)
Nth(P, p) == Cardinality({q \in P : q <= p})

(* A statement f[p] is given at each position p of P.  What has been run   *)
(* are the first of them, in order, none behind an EXIT, and in the end    *)
(* all of them or all up to an EXIT.                                       *)
RunsExactly(P, f) ==
  /\ Len(ran) <= Cardinality(P)
  /\ \A p \in P : Nth(P, p) <= Len(ran) => ran[Nth(P, p)].stmt = f[p]
  /\ \A i \in 1 .. Len(ran) - 1 : ~Exits(ran[i].stmt)
  /\ pc = "ended" => \/ Len(ran) = Cardinality(P)
                     \/ ran # <<>> /\ Exits(ran[Len(ran)].stmt)

Width(i) == IF argv[i].text \in Flags THEN 1 ELSE 2

(* The positions of the options among the arguments: the first is one, and *)
(* the next one follows it or its value.                                   *)
OptionPositions ==
  CHOOSE P \in SUBSET (1 .. Len(argv)) :
    /\ argv # <<>> => 1 \in P
    /\ \A i \in 1 .. Len(argv) :
         i \in P => /\ Width(i) = 2 => i + 1 \notin P
                    /\ i + Width(i) <= Len(argv) => i + Width(i) \in P

QueryPositions == {i \in OptionPositions : argv[i].text = "--query"}
QueryArguments == [i \in QueryPositions |-> argv[i + 1].stmt]

(* The two passes over the arguments agree on what an option is and what   *)
(* is an option's value: each --query statement is run once, in order,     *)
(* until one of them is EXIT.                                              *)
QueriesInOrder ==
  pc \in {"querying", "ended"} /\ has_query_argument =>
    RunsExactly(QueryPositions, QueryArguments)

(* An option has the value it was last given, if the value fits. *)
OptionsAsTold ==
  pc \in {"serving", "querying", "reading"} /\ program = "server" =>
    \A o \in NumberOptions :
      LET at_o == {i \in OptionPositions : argv[i].text = o}
      IN  IF at_o = {}
            THEN options[o] = Default
            ELSE \E last \in at_o :
                   /\ \A i \in at_o : i <= last
                   /\ argv[last + 1].value \in 0 .. UIntSize - 1
                        => options[o] = argv[last + 1].value

(* Both passes take the arguments as they were meant, and neither looks    *)
(* behind the last one.                                                    *)
ArgumentsAsTold ==
  /\ pc \in Points /\ at \in 1 .. Len(argv) + 1
  /\ QueriesInOrder
  /\ OptionsAsTold

(* The positions in the input where a line ends. *)
LineEnds == {i \in 1 .. Len(typed) : typed[i] = Newline \/ i = Len(typed)}

LineStart(e) ==
  CHOOSE b \in 1 .. e : (b = 1 \/ b - 1 \in LineEnds) /\ \A i \in b .. e - 1 : i \notin LineEnds

(* The statement of the line that ends at e. *)
Lines == [e \in LineEnds |-> StatementOf(SubSeq(typed, LineStart(e), e))]

(* Do all lines, with their ends, fit into the buffer? *)
LinesFit ==
  \A i \in 1 .. Len(typed) : \E e \in LineEnds : e >= i /\ e < i + BufferSize - 1

(* Usage text: one SQL statement per line of the standard input, until one *)
(* of them is EXIT.  This holds of lines that fit into the buffer.         *)
OneStatementPerLine ==
  pc \in {"reading", "ended"} /\ ~has_query_argument /\ LinesFit =>
    RunsExactly(LineEnds, Lines)

=============================================================================
