--------------------------- MODULE MCHTTPRequest ---------------------------
(* What clients send, for TLC: requests of every kind with a body that is  *)
(* encoded as JSON asks for, and what comes when something goes wrong.     *)
EXTENDS HTTPRequest

AllWords == STRING

Plainly(u) == [says |-> u, as |-> <<u>>]
Escaping(c) == [says |-> Ch(Escapes[c]), as |-> <<Ch("backslash"), Ch(c)>>]
Spell(u) == IF u.text \in {"quote", "backslash"} THEN Escaping(u.text)
            ELSE IF u.text = "lf" THEN Escaping("n") ELSE Plainly(u)
Encoded(text) == [i \in DOMAIN text |-> Spell(text[i])]

Mem(key, string, value) == [key |-> Encoded(key), string |-> string, value |-> Encoded(value)]
Query(text) == Mem(<<Ch("query")>>, TRUE, text)
Limit == Mem(<<Ch("limit")>>, FALSE, <<Ch("ten")>>)
Tag(text) == Mem(<<Ch("tag")>>, TRUE, text)

Queries == {<<>>, <<Ch("select")>>, <<Ch("insert"), Ch("quote"), Ch("kim"), Ch("quote")>>,
            <<Ch("insert"), Ch("backslash")>>, <<Ch("select"), Ch("lf"), Ch("control")>>}

Bodies == {[members |-> <<Query(q)>>, asked |-> 1] : q \in Queries}
            \union {[members |-> <<Limit, Query(q)>>, asked |-> 2] : q \in Queries}
            \union {[members |-> <<Tag(<<Ch("a"), Ch("comma"), Ch("quote")>>), Query(q)>>, asked |-> 2] :
                      q \in Queries}
            \union {[members |-> <<Query(<<Ch("select")>>), Limit>>, asked |-> 1],
                    [members |-> <<[Query(<<>>) EXCEPT !.value = <<Escaping("slash"), Plainly(Ch("slash"))>>]>>,
                     asked |-> 1]}

Post(b) == [method |-> "POST", path |-> "/query", members |-> b.members, asked |-> b.asked,
            headers |-> <<OtherHeader, LengthHeader(Len(Object(b.members)))>>, more |-> <<>>]
Get(m, p) == [method |-> m, path |-> p, members |-> <<>>, asked |-> 0,
              headers |-> <<OtherHeader>>, more |-> <<>>]

Select == Post([members |-> <<Query(<<Ch("select")>>)>>, asked |-> 1])
Plain == Message(Select)
PostWith(headers) == Text(Line("POST", "/query"), headers, Content(Select))

\* The end of a line that a client appends, or a second request, may follow.
WellFormed ==
  {Post(b) : b \in Bodies}
    \union {Get(m, p) : m \in {"GET", "POST"}, p \in {"/health", "/metrics", "/other"}}
    \union {[Select EXCEPT !.more = t] : t \in {CRLF, SubSeq(Plain, 1, 8), Plain}}

\* A request that is cut off, that announces something else, or that is too long.
Unusual ==
  {SubSeq(Plain, 1, k) : k \in 0 .. Len(Plain) - 1}
    \union {PostWith(h) : h \in {<<>>, <<LengthHeader(2)>>, <<LengthHeader(7), LengthHeader(9)>>,
                                <<LengthHeader(BufferSize)>>, <<LengthHeader(SizeMax + 1)>>}}
    \union {PostWith([i \in 1 .. BufferSize |-> OtherHeader]),
            Text(<<WordUnit("GET")>> \o CRLF, <<>>, <<>>),
            Text(<<WordUnit("GET"), WordUnit("/health")>> \o CRLF, <<>>, CRLF),
            Text(<<WordUnit("GET"), WordUnit("/health")>> \o CRLF, <<>>, <<Ch("a"), Ch("a")>>),
            Text(<<WordUnit("GET"), LengthHeader(9)>> \o CRLF, <<>>, <<>>),
            Text(<<WordUnit("POST"), WordUnit("/query"), LengthHeader(9)>> \o CRLF, <<OtherHeader>>, <<>>),
            Text(<<WordUnit("PUT"), WordUnit("/health")>> \o CRLF, <<OtherHeader>>, <<>>),
            Message(Post([members |-> <<Tag([i \in 1 .. IgnoredSize |-> Ch("a")]), Query(<<>>)>>,
                          asked |-> 2])),
            Message(Post([members |-> <<Query([i \in 1 .. QuerySize |-> Ch("a")])>>, asked |-> 1]))}
=============================================================================
