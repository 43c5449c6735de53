------------------------------ MODULE MCShell ------------------------------
(* Instances of Shell for TLC. *)
EXTENDS Shell, SequencesExt

INSERT(x, n) == <<Word("insert"), Word("into"), Word("users"), Word("values"), Char("("),
                  Quoted(x), Char(","), Number(n), Char(")"), Char(";")>>
SELECT == <<Word("select"), Char("*"), Word("from"), Word("users")>>
WHERE(column, op, literal) == SELECT \o <<Word("where"), Word(column), Compare(op), literal>>

(* The same with a semicolon in front of WHERE, which is run as well. *)
Split(f) == InsertAt(f, 5, Char(";"))

(* One statement of every form. *)
Forms == {INSERT("ann", 1), SELECT, WHERE("id", ">=", Number(1)), WHERE("age", "<", Number(2)),
          WHERE("name", "=", Quoted("ann")), Split(WHERE("id", "<", Number(2))), <<Word("exit")>>, <<Word("quit"), Char(";")>>}

Vocabulary ==
  {Word(w) : w \in {"insert", "select", "replace", "into", "users", "where", "nowhere", "id",
                    "name", "age", "exit"}}
    \union {Char(c) : c \in {"(", ",", "*", ";"}}
    \union {Token("long_word", "nowhere", 0), Compare("="), Number(2), Quoted("where_id"),
            Quoted("where"), Token("long_string", "where_id", 0),
            Token("open_string", "where_id", 0), Token("junk", "none", 0), Space}

(* The forms, the forms with one token changed, left out or put in, and    *)
(* with two tokens changed behind SELECT ... WHERE.                        *)
Near(f) ==
  {ReplaceAt(f, i, t) : i \in DOMAIN f, t \in Vocabulary}
    \union {RemoveAt(f, i) : i \in DOMAIN f}
    \union {InsertAt(f, i, t) : i \in DOMAIN f, t \in Vocabulary}
    \union {Append(f, t) : t \in Vocabulary}

TwiceChanged ==
  LET f == WHERE("name", "=", Quoted("ann"))
  IN  {ReplaceAt(ReplaceAt(f, i, t), j, u) : i, j \in 4 .. 8, t, u \in Vocabulary}

Cli(units) == [program |-> "cli", argv |-> <<>>, typed |-> units]

(* Every statement alone, in a buffer that holds it. *)
Alone == {Cli(f) : f \in Forms \union TwiceChanged \union UNION {Near(f) : f \in Forms}}

(* Three lines: ages at the bounds of int and long and beyond, EXIT, an    *)
(* empty line, a line that is longer than the buffer.                      *)
Literals == {-9, -8, -1, 1, 7, 8, 17, 40}
Stored3 == {Cli(INSERT("ann", m) \o <<Newline>> \o f) :
              m \in Literals,
              f \in UNION {{WHERE("age", op, Number(n)), Split(WHERE("age", op, Number(n)))} :
                            n \in Literals, op \in {"=", "<", ">="}}}
ShortLines == {<<Space, Word("exit")>>, <<>>, SELECT, INSERT("bob", 2),
               <<Space, Space>> \o INSERT("bob", 2)}
Talks == {Cli(a \o <<Newline>> \o b \o <<Newline>> \o c) : a, b, c \in ShortLines}

Arg(text, numeric, value, s) ==
  [text |-> text, numeric |-> numeric, value |-> value, stmt |-> [lead |-> FALSE, tokens |-> s]]

Option(o) == Arg(o, FALSE, 0, <<Token("junk", "none", 0)>>)
Args == {Option(o) : o \in {"--query", "--serve", "--help", "--port", "--workers", "--max-requests"}}
          \union {Arg("insert", FALSE, 0, INSERT("ann", 1)), Arg("exit", FALSE, 0, <<Word("exit")>>)}
          \union {Arg("number", TRUE, n, <<Number(n)>>) : n \in {-1, 0, 5, 9}}

Commands == {[program |-> "server", argv |-> a, typed |-> SELECT] : a \in SeqOf(Args, 4)}

AllStarts == Alone \union Stored3 \union Talks \union Commands

=============================================================================
