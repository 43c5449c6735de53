---------------------------- MODULE HTTPRequest ----------------------------
(***************************************************************************)
(* One request on one connection, from the first recv to the statement     *)
(* that db_server_execute is given: http_server_read_request of            *)
(* src/server/http_server.c, which collects the request from the pieces    *)
(* recv returns, and api_parse_http_request of src/server/api.c, which     *)
(* reads it again from the beginning.                                      *)
(***************************************************************************)
EXTENDS HTTPClient, FiniteSets

CONSTANTS Requests,     \* requests sent as a client should
          Texts,        \* what else may come
          Unclear       \* the intention of a client that sends that

ASSUME SizesAssumption ==
  BufferSize \in Nat \ {0} /\ SizeMax \in Nat /\ {KeySize, IgnoredSize, QuerySize} \subseteq Nat

ASSUME ClientsAssumption == (\A r \in Requests : Proper(r)) /\ Texts \subseteq Seq(Units)

VARIABLES wire,            \* everything the client sends before it closes its side
          meant,           \* the request the client means, or Unclear
          total,           \* units received so far; the buffer holds these
          headers_ready, expected_total,
          pc,              \* "reading", "parsing", "routing" or "refused"
          why,             \* the error of a refused request
          request          \* what api_parse_http_request has found

vars == <<wire, meant, total, headers_ready, expected_total, pc, why, request>>

NoRequest == Request("none", "none", <<>>)

buffer == SubSeq(wire, 1, total)

Init ==
  /\ \/ \E r \in Requests : wire = Message(r) \o r.more /\ meant = Meaning(r)
     \/ wire \in Texts /\ meant = Unclear
  /\ total = 0
  /\ headers_ready = FALSE
  /\ expected_total = 0
  /\ pc = "reading"
  /\ why = "none"
  /\ request = NoRequest

-----------------------------------------------------------------------------
(* http_server_read_request.                                               *)

(* strstr for the empty line: how many units are in front of it, or -1. *)
HeaderEnd(text) ==
  LET found == {i \in 0 .. Len(text) - 4 : SubSeq(text, i + 1, i + 4) = CRLF \o CRLF}
  IN  IF found = {} THEN -1 ELSE CHOOSE i \in found : \A j \in found : i <= j

(* strtoul takes a minus sign, and stops at the largest number. *)
strtoul(n) == IF n > SizeMax \/ n < -SizeMax THEN SizeMax ELSE IF n < 0 THEN SizeMax + 1 + n ELSE n

(* The header lines that give a length: they begin where a line ends. *)
LengthPositions(text) ==
  {i \in 3 .. HeaderEnd(text) : /\ text[i - 2] = Ch("cr") /\ text[i - 1] = Ch("lf")
                               /\ text[i].kind = "header" /\ text[i].text = "Content-Length"}

(* The first Content-Length, or 0. *)
http_server_parse_content_length(text) ==
  LET P == LengthPositions(text)
  IN  IF P = {} THEN 0 ELSE strtoul(text[CHOOSE i \in P : \A j \in P : i <= j].value)

(* Mutant of ExpectedTotal: the empty line is not counted. *)
ExpectedTotal_NoEmptyLine(text) ==
  (HeaderEnd(text) + http_server_parse_content_length(text)) % (SizeMax + 1)

(* The headers, the empty line and the announced body, as size_t. *)
ExpectedTotal(text) ==
  (HeaderEnd(text) + 4 + http_server_parse_content_length(text)) % (SizeMax + 1)

TooLong(n) == (n + 1) % (SizeMax + 1) > BufferSize

Refuse(reason) ==
  /\ pc' = "refused"
  /\ why' = reason
  /\ UNCHANGED request

(* Mutant of Room: the terminating NUL is forgotten. *)
Room_NoNul == BufferSize - total

(* What recv is asked for at most. *)
Room == BufferSize - total - 1

(* Mutant of Arrived: recv waits until everything it asked for is there. *)
Arrived_WaitAll(n) == n = Room /\ total + n <= Len(wire)

(* recv returns what has arrived, be it only a part of what was sent. *)
Arrived(n) == n <= Room /\ total + n <= Len(wire)

(* Mutant of Searched: only the new piece is searched. *)
Searched_Piece(n) == SubSeq(wire, total + 1, total + n)

(* Where the end of the headers is looked for after a piece of n units: in *)
(* everything received so far.                                             *)
Searched(n) == SubSeq(wire, 1, total + n)

(* One turn of the loop, with a piece of n units. *)
Recv(n) ==
  LET ready == headers_ready \/ HeaderEnd(Searched(n)) >= 0
      want  == IF headers_ready \/ ~ready THEN expected_total
                                         ELSE ExpectedTotal(SubSeq(wire, 1, total + n))
  IN  /\ pc = "reading"
      /\ Arrived(n)
      /\ total' = total + n
      /\ headers_ready' = ready
      /\ expected_total' = want
      /\ \/ /\ ~headers_ready /\ ready /\ TooLong(want)
            /\ Refuse("too long")
         \/ /\ headers_ready \/ ~ready \/ ~TooLong(want)
            /\ pc' = IF ready /\ total' >= want THEN "parsing" ELSE "reading"
            /\ UNCHANGED <<why, request>>
      /\ UNCHANGED <<wire, meant>>

(* The loop ends without a request: the client closed its side (recv       *)
(* returns 0), or the buffer is full.                                      *)
EndOfInput ==
  /\ pc = "reading"
  /\ total = Len(wire) \/ Room = 0
  /\ Refuse(IF headers_ready THEN "incomplete body" ELSE "incomplete headers")
  /\ UNCHANGED <<wire, meant, total, headers_ready, expected_total>>

(* recv fails: the connection was reset, or a signal came. *)
RecvError ==
  /\ pc = "reading"
  /\ Room > 0
  /\ Refuse("socket error")
  /\ UNCHANGED <<wire, meant, total, headers_ready, expected_total>>

-----------------------------------------------------------------------------
(* The JSON body.                                                          *)

NotAString == [ok |-> FALSE, next |-> 0, text |-> <<>>]

(* What follows a backslash, and the character it stands for. *)
Unescaped == [quote |-> "quote", backslash |-> "backslash", slash |-> "slash",
              n |-> "lf", r |-> "cr", t |-> "tab"]

(* The rest of a string literal from position i on: where it ends, and     *)
(* what it says.                                                           *)
DecodeFrom(text) ==
  LET Decode[i \in 1 .. Len(text) + 2] ==
        IF i > Len(text) THEN NotAString
        ELSE IF text[i] = Ch("quote") THEN [ok |-> TRUE, next |-> i + 1, text |-> <<>>]
        ELSE IF text[i] # Ch("backslash") THEN [Decode[i + 1] EXCEPT !.text = <<text[i]>> \o @]
        ELSE IF i < Len(text) /\ text[i + 1].text \in DOMAIN Unescaped
               THEN [Decode[i + 2] EXCEPT !.text = <<Ch(Unescaped[text[i + 1].text])>> \o @]
        ELSE NotAString
  IN  Decode

(* A string literal at position i that fits into size units with its NUL. *)
api_parse_json_string(text, i, size) ==
  LET d == IF i <= Len(text) /\ text[i] = Ch("quote") THEN DecodeFrom(text)[i + 1] ELSE NotAString
  IN  IF d.ok /\ Len(d.text) < size THEN d ELSE NotAString

(* The first position from i on that holds one of cs, or the end. *)
SkipTo(text, i, cs) ==
  CHOOSE k \in i .. Len(text) + 1 :
    /\ \A j \in i .. k - 1 : text[j] \notin cs
    /\ k <= Len(text) => text[k] \in cs

(* Mutant of ValueEnd: a string value is passed over like a bare one. *)
ValueEnd_Bare(text, i) == SkipTo(text, i, {Ch("comma"), Ch("close")})

(* The end of a value that is not the query's: a string has to fit into    *)
(* ignored; anything else ends at a comma or a brace.  0 if there is none. *)
ValueEnd(text, i) ==
  IF i <= Len(text) /\ text[i] = Ch("quote") THEN api_parse_json_string(text, i, IgnoredSize).next
                                             ELSE SkipTo(text, i, {Ch("comma"), Ch("close")})

(* Looks for a member called query, from the first member on; white space  *)
(* between the tokens is left out.  The comma between members may be       *)
(* missing.                                                                *)
api_extract_query_string(text) ==
  LET Member[i \in 1 .. Len(text) + 1] ==
        LET key   == api_parse_json_string(text, i, KeySize)
            after == ValueEnd(text, key.next + 1)
        IN  IF i > Len(text) \/ ~key.ok THEN NotAString
            ELSE IF key.next > Len(text) \/ text[key.next] # Ch("colon") THEN NotAString
            ELSE IF key.text = <<Ch("query")>>
                   THEN api_parse_json_string(text, key.next + 1, QuerySize)
            ELSE IF after = 0 THEN NotAString
            ELSE IF after <= Len(text) /\ text[after] = Ch("comma") THEN Member[after + 1]
            ELSE Member[after]
  IN  IF text # <<>> /\ text[1] = Ch("open") THEN Member[2] ELSE NotAString

-----------------------------------------------------------------------------
(* api_parse_http_request.                                                 *)

(* The last Content-Length, or 0. *)
ContentLength(text) ==
  LET P == LengthPositions(text)
  IN  IF P = {} THEN 0 ELSE strtoul(text[CHOOSE i \in P : \A j \in P : i >= j].value)

(* sscanf does not stop at the end of the request line: it takes three     *)
(* words, wherever they are.  A word is a unit that is one, a run of       *)
(* characters other than white space, the name of a header with its colon, *)
(* or its value, which a client writes with a space in front.              *)
White == {Ch("cr"), Ch("lf"), Ch("tab")}
WordPositions(text) ==
  {i \in DOMAIN text :
     /\ text[i] \notin White
     /\ text[i].kind = "char" => i = 1 \/ text[i - 1].kind # "char" \/ text[i - 1] \in White}

(* How many words begin in the first n units, a header counting as two. *)
WordsUpTo(text, n) ==
  Cardinality(WordPositions(text) \cap 1 .. n)
    + Cardinality({i \in 1 .. n : text[i].kind = "header"})
NthWord(text, n) ==
  LET i == CHOOSE i \in WordPositions(text) :
             WordsUpTo(text, i - 1) < n /\ n <= WordsUpTo(text, i)
  IN  IF text[i].kind = "word" THEN text[i].text ELSE "other"
HasThreeWords(text) == WordsUpTo(text, Len(text)) >= 3

Method(text) == IF NthWord(text, 1) \in {"GET", "POST"} THEN NthWord(text, 1) ELSE "UNKNOWN"
Path(text) == NthWord(text, 2)

(* The units the parser takes for the body. *)
Body(text) == SubSeq(text, HeaderEnd(text) + 5, HeaderEnd(text) + 4 + ContentLength(text))

(* Only POST /query has a body that is looked at.  Where more is announced *)
(* than was received, the parser reads what happens to be behind it.       *)
Parse ==
  /\ pc = "parsing"
  /\ IF ~HasThreeWords(buffer) THEN Refuse("request line")
     ELSE IF ~(Method(buffer) = "POST" /\ Path(buffer) = "/query")
       THEN /\ pc' = "routing"
            /\ request' = Request(Method(buffer), Path(buffer), <<>>)
            /\ UNCHANGED why
     ELSE IF ContentLength(buffer) = 0 THEN Refuse("no body")
     ELSE IF HeaderEnd(buffer) + 4 + ContentLength(buffer) > total
       THEN \/ Refuse("no query")
            \/ /\ pc' = "routing"
               /\ request' = Request("POST", "/query", <<Ch("unknown")>>)
               /\ UNCHANGED why
     ELSE LET found == api_extract_query_string(Body(buffer))
          IN  IF ~found.ok THEN Refuse("no query")
              ELSE /\ pc' = "routing"
                   /\ request' = Request("POST", "/query", found.text)
                   /\ UNCHANGED why
  /\ UNCHANGED <<wire, meant, total, headers_ready, expected_total>>

-----------------------------------------------------------------------------

Next == (\E n \in 1 .. Len(wire) : Recv(n)) \/ EndOfInput \/ RecvError \/ Parse

Spec == Init /\ [][Next]_vars

(* What the client has sent arrives, and the worker goes on. *)
FairSpec == Spec /\ WF_vars(Parse \/ \E n \in 1 .. Len(wire) : Recv(n))

-----------------------------------------------------------------------------
(* The text of a response.                                                 *)

(* Mutant of api_escape_json_string_alloc: a backslash is left alone. *)
api_escape_json_string_alloc_Backslash(text) ==
  LET Escape[i \in 0 .. Len(text)] ==
        IF i = 0 THEN <<>>
        ELSE Escape[i - 1] \o (IF text[i] = Ch("quote") THEN <<Ch("backslash"), text[i]>>
                               ELSE <<text[i]>>)
  IN  Escape[Len(text)]

(* What a character of a text is written as. *)
Escaped(u) ==
  CASE u \in {Ch("quote"), Ch("backslash")} -> <<Ch("backslash"), u>>
    [] u = Ch("lf") -> <<Ch("backslash"), Ch("n")>>
    [] u = Ch("cr") -> <<Ch("backslash"), Ch("r")>>
    [] u = Ch("tab") -> <<Ch("backslash"), Ch("t")>>
    [] u = Ch("control") -> <<Ch("backslash"), Ch("u"), Ch("00xx")>>
    [] OTHER -> <<u>>

(* Quotes, backslashes and control characters of a message or a name. *)
api_escape_json_string_alloc(text) ==
  LET Escape[i \in 0 .. Len(text)] == IF i = 0 THEN <<>> ELSE Escape[i - 1] \o Escaped(text[i])
  IN  Escape[Len(text)]

-----------------------------------------------------------------------------

(* The types of the variables. *)
TypeOK ==
  /\ total \in 0 .. BufferSize - 1
  /\ headers_ready \in BOOLEAN
  /\ expected_total \in 0 .. SizeMax
  /\ pc \in {"reading", "parsing", "routing", "refused"}

(* What http_server_read_request decides, written without a loop. *)
ReadVerdict ==
  LET seen == SubSeq(wire, 1, IF Len(wire) < BufferSize THEN Len(wire) ELSE BufferSize - 1)
  IN  IF HeaderEnd(seen) < 0 THEN "incomplete headers"
      ELSE IF TooLong(ExpectedTotal(seen)) THEN "too long"
      ELSE IF Len(seen) < ExpectedTotal(seen) THEN "incomplete body"
      ELSE "complete"

(* However recv cuts what the client sends into pieces, also in the middle *)
(* of the empty line or of an escape, the same is decided.                 *)
PiecesDoNotMatter ==
  /\ pc \in {"parsing", "routing"} => ReadVerdict = "complete"
  /\ why \in {"incomplete headers", "incomplete body", "too long"} => why = ReadVerdict

(* The two readings of Content-Length: if the request has one, and its     *)
(* value and the length of the headers add up to a size_t, the body that   *)
(* api_parse_http_request reads has been received.                         *)
BodyReceived ==
  pc = "parsing" /\ Cardinality(LengthPositions(buffer)) <= 1
    /\ HeaderEnd(buffer) + 4 + ContentLength(buffer) <= SizeMax =>
      HeaderEnd(buffer) + 4 + ContentLength(buffer) <= total

(* A request that is sent as a client should is understood as it was       *)
(* meant: method, path, and the statement with its quotes, backslashes and *)
(* line ends, whatever other members the JSON object has.                  *)
Understood ==
  meant # Unclear =>
    /\ pc = "routing" => request = meant
    /\ pc = "refused" => why = "socket error"

(* What a statement says comes back in a response as it was sent: the      *)
(* names in its rows and the excerpt in its error message are escaped so   *)
(* that a JSON reader gets the same text.  (The reader here is the one of  *)
(* api.c, which has no \u for the other control characters.)               *)
EscapesDecode ==
  pc = "routing" /\ (\A i \in DOMAIN request.query : request.query[i] # Ch("control")) =>
    LET said == <<Ch("quote")>> \o api_escape_json_string_alloc(request.query) \o <<Ch("quote")>>
        back == api_parse_json_string(said, 1, Len(said))
    IN  back.ok /\ back.text = request.query /\ back.next = Len(said) + 1

(* A complete request is acted on as soon as it is there: the worker does  *)
(* not wait for the client to close its side.                              *)
CompleteIsRead == ReadVerdict = "complete" ~> pc \in {"routing", "refused"}

=============================================================================
