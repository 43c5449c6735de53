----------------------------- MODULE HTTPClient -----------------------------
(***************************************************************************)
(* What the clients of src/server/http_server.c send: a sequence of units. *)
(* A unit is a character, or a run of characters of which only one thing   *)
(* matters: a word of the request line, a header line without its end, a   *)
(* name in the JSON body.  All lengths, Content-Length included, count     *)
(* units.                                                                  *)
(*                                                                         *)
(* The clients are not under src/.  Proper says which requests are written *)
(* as HTTP and JSON ask and within the sizes api.c and http_server.c have  *)
(* room for, Message how, and Meaning what they ask for.                   *)
(***************************************************************************)
EXTENDS Integers, Sequences

CONSTANTS BufferSize,   \* HTTP_SERVER_REQUEST_BUFFER_SIZE
          SizeMax,      \* SIZE_MAX
          KeySize,      \* sizeof(key), sizeof(ignored) and sizeof(query) in
          IgnoredSize,  \* api_extract_query_string
          QuerySize,
          Words         \* the characters, words and names that occur, each
                        \* short enough for the buffer it is read into

(* Those with a meaning of their own. *)
Names == {"quote", "backslash", "slash", "n", "r", "t", "u", "00xx", "lf", "cr", "tab", "control",
          "open", "close", "colon", "comma", "query", "unknown",
          "GET", "POST", "HTTP/1.1", "Content-Length", "other"}

ASSUME WordsAssumption == Names \subseteq Words

Units == [kind : {"char", "word", "header"}, text : Words, value : Int]
Unit(kind, text, value) == [kind |-> kind, text |-> text, value |-> value]
WordUnit(w) == Unit("word", w, 0)
LengthHeader(n) == Unit("header", "Content-Length", n)
OtherHeader == Unit("header", "other", 0)
Ch(c) == Unit("char", c, 0)
CRLF == <<Ch("cr"), Ch("lf")>>

(* One text behind the other. *)
Joined(texts) ==
  LET Join[i \in 0 .. Len(texts)] == IF i = 0 THEN <<>> ELSE Join[i - 1] \o texts[i]
  IN  Join[Len(texts)]

-----------------------------------------------------------------------------
(* JSON.  A string literal is a sequence of characters, each with the way  *)
(* it is written: as it is, or as one of the escapes api.c knows (it       *)
(* refuses \b, \f and \uXXXX, which JSON has too).                         *)

Escapes == [quote |-> "quote", backslash |-> "backslash", slash |-> "slash",
            n |-> "lf", r |-> "cr", t |-> "tab"]

Spelled == [says : Units, as : Seq(Units)]
Spells(c) ==
  \/ c.as = <<c.says>> /\ c.says \notin {Ch("quote"), Ch("backslash")}
  \/ \E e \in DOMAIN Escapes : c.as = <<Ch("backslash"), Ch(e)>> /\ c.says = Ch(Escapes[e])

Says(s) == [i \in DOMAIN s |-> s[i].says]
Quote(s) == <<Ch("quote")>> \o Joined([i \in DOMAIN s |-> s[i].as]) \o <<Ch("quote")>>
StringLiteral(s, size) == (\A i \in DOMAIN s : Spells(s[i])) /\ Len(s) < size

(* A member of an object, white space left out.  A value that is not a     *)
(* string is a number or a word like true, of which nothing matters but    *)
(* that no comma, closing brace or quote is in it.                         *)
Members == [key : Seq(Spelled), string : BOOLEAN, value : Seq(Spelled)]
Written(m) == Quote(m.key) \o <<Ch("colon")>> \o (IF m.string THEN Quote(m.value) ELSE Says(m.value))
Bare(s) == \A i \in DOMAIN s : s[i].says \notin {Ch("quote"), Ch("comma"), Ch("close")}

(* The member with the statement, and those that may stand in front of it. *)
Statement(m) ==
  /\ StringLiteral(m.key, KeySize) /\ Says(m.key) = <<Ch("query")>>
  /\ m.string /\ StringLiteral(m.value, QuerySize)
Other(m) ==
  /\ StringLiteral(m.key, KeySize) /\ Says(m.key) # <<Ch("query")>>
  /\ IF m.string THEN StringLiteral(m.value, IgnoredSize) ELSE Bare(m.value)

Object(ms) ==
  <<Ch("open")>>
    \o Joined([i \in DOMAIN ms |->
                 Written(ms[i]) \o <<Ch(IF i = Len(ms) THEN "close" ELSE "comma")>>])

-----------------------------------------------------------------------------
(* HTTP.                                                                   *)

Line(method, path) == <<WordUnit(method), WordUnit(path), WordUnit("HTTP/1.1")>> \o CRLF
Text(line, headers, body) ==
  line \o Joined([i \in DOMAIN headers |-> <<headers[i]>> \o CRLF]) \o CRLF \o body

Request(method, path, query) == [method |-> method, path |-> path, query |-> query]

(* r is a request with the headers r.headers; if it asks for the execution *)
(* of a statement, its body is an object with the members r.members, and   *)
(* number r.asked of them is the statement.  r.more is what comes behind   *)
(* it on the same connection.                                              *)
Asks(r) == r.method = "POST" /\ r.path = "/query"
Content(r) == IF Asks(r) THEN Object(r.members) ELSE <<>>
Message(r) == Text(Line(r.method, r.path), r.headers, Content(r))
Meaning(r) == Request(r.method, r.path, IF Asks(r) THEN Says(r.members[r.asked].value) ELSE <<>>)

Proper(r) ==
  /\ r.method \in {"GET", "POST"} /\ r.path \in Words /\ r.more \in Seq(Units)
  /\ r.headers \in Seq({OtherHeader, LengthHeader(Len(Content(r)))})
  /\ Asks(r) =>
       /\ \E i \in DOMAIN r.headers : r.headers[i] = LengthHeader(Len(Content(r)))
       /\ r.members \in Seq(Members) /\ r.asked \in DOMAIN r.members
       /\ Statement(r.members[r.asked])
       /\ \A i \in 1 .. r.asked - 1 : Other(r.members[i])
  /\ Len(Message(r)) < BufferSize /\ Len(Message(r)) < SizeMax

=============================================================================
