------------------------- MODULE HTTPRequest_proofs -------------------------
(***************************************************************************)
(* Proofs about http_server_read_request and the JSON of api.c, for        *)
(* everything a client may send, every size of the buffers and every       *)
(* SIZE_MAX: the request that is found does not depend on the pieces it    *)
(* arrives in; what is read as a text is written so that it comes back as  *)
(* the same text; and a proper request is read as it is meant.             *)
(***************************************************************************)
EXTENDS HTTPRequest, FiniteSetTheorems, SequenceTheorems, WellFoundedInduction, TLAPS

(* The places of an empty line. *)
Found(text) == {i \in 0 .. Len(text) - 4 : SubSeq(text, i + 1, i + 4) = CRLF \o CRLF}

(* The first m units of what is sent. *)
Prefix(m) == SubSeq(wire, 1, m)

(* The most http_server_read_request can see of it. *)
Visible == IF Len(wire) < BufferSize THEN Len(wire) ELSE BufferSize - 1

(* What the loop of http_server_read_request keeps. *)
ReadInv ==
  /\ TypeOK
  /\ wire \in Seq(Units)
  /\ total <= Len(wire)
  /\ headers_ready <=> HeaderEnd(buffer) >= 0
  /\ headers_ready => expected_total = ExpectedTotal(buffer)
  /\ pc = "reading" /\ headers_ready => ~TooLong(expected_total) /\ total < expected_total
  /\ pc \in {"reading", "parsing"} => why = "none"
  /\ pc \in {"parsing", "routing"} =>
       headers_ready /\ ~TooLong(expected_total) /\ total >= expected_total

-----------------------------------------------------------------------------
(* Numbers and characters.                                                 *)

(* Every non-empty set of naturals has a least element. *)
LEMMA LeastNumber ==
  ASSUME NEW T, T \subseteq Nat, T # {}
  PROVE  \E x \in T : \A y \in T : x <= y
<1> DEFINE R == OpToRel(<, Nat)
<1>1. IsWellFoundedOn(R, Nat)
  BY NatLessThanWellFounded
<1>2. R = {p \in Nat \X Nat : p[1] < p[2]}
  BY DEF OpToRel
<1> HIDE DEF R
<1>3. PICK x \in T : \A y \in T : ~(<<y, x>> \in R)
  BY <1>1, WFMin
<1>4. ASSUME NEW y \in T, y < x PROVE FALSE
  <2>1. <<y, x>> \in Nat \X Nat /\ <<y, x>>[1] = y /\ <<y, x>>[2] = x
    OBVIOUS
  <2>2. <<y, x>> \in R
    BY <1>2, <1>4, <2>1
  <2> QED BY <1>3, <2>2
<1>5. \A y \in T : x <= y
  BY <1>4
<1> QED BY <1>5

(* The characters that matter are units. *)
LEMMA CharacterTypes ==
  /\ \A c \in Names : Ch(c) \in Units
  /\ \A c, d : Ch(c) = Ch(d) => c = d
<1>1. \A c : Ch(c) = [kind |-> "char", text |-> c, value |-> 0]
  BY DEF Ch, Unit
<1>2. \A c \in Names : Ch(c) \in Units
  BY <1>1, WordsAssumption DEF Units
<1>3. \A c, d : Ch(c) = Ch(d) => c = d
  BY <1>1
<1> QED BY <1>2, <1>3

LEMMA NamedUnits ==
  /\ Ch("quote") \in Units /\ Ch("backslash") \in Units
  /\ Ch("n") \in Units /\ Ch("r") \in Units /\ Ch("t") \in Units
  /\ Ch("unknown") \in Units
BY CharacterTypes DEF Names

-----------------------------------------------------------------------------
(* Texts that are put together.                                            *)

(* What holds at one end of 0 .. n and is passed on holds everywhere. *)
LEMMA Downward ==
  ASSUME NEW n \in Nat, NEW G, n \in G, \A i \in 1 .. n : i \in G => i - 1 \in G
  PROVE  \A i \in 0 .. n : i \in G
<1> DEFINE T == {m \in 0 .. n : n - m \notin G}
<1>1. T = {}
  <2> SUFFICES ASSUME T # {} PROVE FALSE
    OBVIOUS
  <2>1. T \subseteq Nat
    OBVIOUS
  <2> HIDE DEF T
  <2>2. PICK m \in T : \A y \in T : m <= y
    BY <2>1, LeastNumber
  <2>3. m \in 0 .. n /\ n - m \notin G
    BY <2>2 DEF T
  <2>4. m # 0
    <3>1. n - 0 = n
      OBVIOUS
    <3> QED BY <2>3, <3>1
  <2>5. PICK i \in 1 .. n : i = n - (m - 1) /\ i - 1 = n - m
    <3>1. n - (m - 1) \in 1 .. n /\ (n - (m - 1)) - 1 = n - m
      BY <2>3, <2>4
    <3> QED BY <3>1
  <2>6. m - 1 \in 0 .. n /\ ~(m <= m - 1)
    BY <2>3, <2>4
  <2>7. m - 1 \notin T
    BY <2>2, <2>6
  <2>8. i \in G
    BY <2>5, <2>6, <2>7 DEF T
  <2> QED BY <2>3, <2>5, <2>8
<1>2. ASSUME NEW i \in 0 .. n PROVE i \in G
  <2>1. n - i \in 0 .. n /\ n - (n - i) = i
    OBVIOUS
  <2>2. n - i \notin T
    BY <1>1
  <2> QED BY <2>1, <2>2
<1> QED BY <1>2

LEMMA Upward ==
  ASSUME NEW n \in Nat, NEW G, 0 \in G, \A i \in 1 .. n : i - 1 \in G => i \in G
  PROVE  \A i \in 0 .. n : i \in G
<1> DEFINE T == {m \in 0 .. n : m \notin G}
<1>1. T = {}
  <2> SUFFICES ASSUME T # {} PROVE FALSE
    OBVIOUS
  <2>1. T \subseteq Nat
    OBVIOUS
  <2> HIDE DEF T
  <2>2. PICK m \in T : \A y \in T : m <= y
    BY <2>1, LeastNumber
  <2>3. m \in 0 .. n /\ m \notin G
    BY <2>2 DEF T
  <2>4. m \in 1 .. n /\ m - 1 \in 0 .. n /\ ~(m <= m - 1)
    BY <2>3
  <2>5. m - 1 \notin T
    BY <2>2, <2>4
  <2>6. m - 1 \in G
    BY <2>4, <2>5 DEF T
  <2> QED BY <2>3, <2>4, <2>6
<1> QED BY <1>1

(* e[i] is what the first i texts give together. *)
Joins(e, texts, n) == e = [i \in 0 .. n |-> IF i = 0 THEN <<>> ELSE e[i - 1] \o texts[i]]

LEMMA JoinExists ==
  ASSUME NEW texts, NEW n \in Nat
  PROVE  \E e : Joins(e, texts, n)
<1> DEFINE G == {m \in 0 .. n : \E e : Joins(e, texts, m)}
<1>1. 0 \in G
  <2>1. PICK e : e = [i \in 0 .. 0 |-> <<>>]
    OBVIOUS
  <2>2. e = [i \in 0 .. 0 |-> IF i = 0 THEN <<>> ELSE e[i - 1] \o texts[i]]
    BY <2>1
  <2> QED BY <2>2 DEF Joins
<1>2. ASSUME NEW m \in 1 .. n, m - 1 \in G PROVE m \in G
  <2>1. PICK k \in Nat : k = m - 1 /\ m = k + 1
    OBVIOUS
  <2>3. PICK e : Joins(e, texts, k)
    BY <1>2, <2>1
  <2>4. \A i \in 0 .. k : e[i] = IF i = 0 THEN <<>> ELSE e[i - 1] \o texts[i]
    <3>1. e = [i \in 0 .. k |-> IF i = 0 THEN <<>> ELSE e[i - 1] \o texts[i]]
      BY <2>3 DEF Joins
    <3> QED BY <3>1
  <2>5. PICK g : g = [i \in 0 .. m |-> IF i \in 0 .. k THEN e[i] ELSE e[i - 1] \o texts[i]]
    OBVIOUS
  <2>6. ASSUME NEW i \in 0 .. m PROVE g[i] = IF i = 0 THEN <<>> ELSE g[i - 1] \o texts[i]
    <3>1. i # 0 => i - 1 \in 0 .. k /\ i - 1 \in 0 .. m
      BY <2>1
    <3>2. i # 0 => g[i - 1] = e[i - 1]
      BY <2>5, <3>1
    <3>3. i = 0 => i \in 0 .. k
      BY <2>1
    <3>4. g[i] = IF i = 0 THEN <<>> ELSE e[i - 1] \o texts[i]
      BY <2>4, <2>5, <3>3
    <3> QED BY <3>2, <3>4
  <2>7. g = [i \in 0 .. m |-> g[i]]
    BY <2>5
  <2>8. g = [i \in 0 .. m |-> IF i = 0 THEN <<>> ELSE g[i - 1] \o texts[i]]
    BY <2>6, <2>7
  <2>9. Joins(g, texts, m)
    BY <2>8 DEF Joins
  <2> QED BY <2>9
<1> HIDE DEF G
<1>3. n \in G
  BY <1>1, <1>2, Upward
<1> QED BY <1>3 DEF G

LEMMA JoinedIs ==
  ASSUME NEW texts, Len(texts) \in Nat
  PROVE  \E e : Joins(e, texts, Len(texts)) /\ Joined(texts) = e[Len(texts)]
<1>1. PICK e : e = CHOOSE g : Joins(g, texts, Len(texts))
  OBVIOUS
<1>2. Joins(e, texts, Len(texts))
  BY <1>1, JoinExists
<1>3. Joined(texts) = e[Len(texts)]
  BY <1>1, Zenon DEF Joined, Joins
<1> QED BY <1>2, <1>3

(* What is joined grows from text to text. *)
Grows(e, texts, n, S) ==
  /\ \A i \in 0 .. n : e[i] \in Seq(S)
  /\ e[0] = <<>>
  /\ \A i \in 1 .. n : e[i] = e[i - 1] \o texts[i] /\ Len(e[i]) = Len(e[i - 1]) + Len(texts[i])

LEMMA JoinGrows ==
  ASSUME NEW S, NEW texts, NEW n \in Nat, \A i \in 1 .. n : texts[i] \in Seq(S),
         NEW e, Joins(e, texts, n)
  PROVE  Grows(e, texts, n, S)
<1> DEFINE G == {i \in 0 .. n : e[i] \in Seq(S)}
<1>1. \A i \in 0 .. n : e[i] = IF i = 0 THEN <<>> ELSE e[i - 1] \o texts[i]
  <2>1. e = [i \in 0 .. n |-> IF i = 0 THEN <<>> ELSE e[i - 1] \o texts[i]]
    BY DEF Joins
  <2> QED BY <2>1
<1>2. e[0] = <<>>
  BY <1>1
<1>3. ASSUME NEW i \in 1 .. n, e[i - 1] \in Seq(S)
      PROVE  e[i] \in Seq(S) /\ e[i] = e[i - 1] \o texts[i] /\ Len(e[i]) = Len(e[i - 1]) + Len(texts[i])
  <2>1. PICK s \in Seq(S) : s = e[i - 1]
    BY <1>3
  <2>2. PICK t \in Seq(S) : t = texts[i]
    OBVIOUS
  <2>3. e[i] = s \o t
    <3>1. i \in 0 .. n /\ i # 0
      OBVIOUS
    <3> QED BY <1>1, <2>1, <2>2, <3>1
  <2>4. s \o t \in Seq(S) /\ Len(s \o t) = Len(s) + Len(t)
    OBVIOUS
  <2> QED BY <2>1, <2>2, <2>3, <2>4
<1>4. 0 \in G
  <2>1. <<>> \in Seq(S) /\ 0 \in 0 .. n
    OBVIOUS
  <2> QED BY <1>2, <2>1
<1>5. ASSUME NEW i \in 1 .. n, i - 1 \in G PROVE i \in G
  <2>1. i \in 0 .. n
    OBVIOUS
  <2> QED BY <1>3, <1>5, <2>1
<1> HIDE DEF G
<1>6. \A i \in 0 .. n : i \in G
  BY <1>4, <1>5, Upward
<1>7. \A i \in 0 .. n : e[i] \in Seq(S)
  BY <1>6 DEF G
<1>8. \A i \in 1 .. n : i - 1 \in 0 .. n
  OBVIOUS
<1> QED BY <1>2, <1>3, <1>7, <1>8 DEF Grows

LEMMA JoinedType ==
  ASSUME NEW S, NEW texts, NEW n \in Nat, n = Len(texts), \A i \in 1 .. n : texts[i] \in Seq(S)
  PROVE  Joined(texts) \in Seq(S)
<1>1. PICK e : Joins(e, texts, n) /\ Joined(texts) = e[n]
  BY JoinedIs
<1>2. n \in 0 .. n
  OBVIOUS
<1>3. Grows(e, texts, n, S)
  BY <1>1, JoinGrows
<1> QED BY <1>1, <1>2, <1>3 DEF Grows

(* text has part behind its first o units. *)
Holds(text, o, part) == o + Len(part) <= Len(text) /\ \A k \in 1 .. Len(part) : text[o + k] = part[k]

LEMMA HoldsBoth ==
  ASSUME NEW S, NEW a \in Seq(S), NEW b \in Seq(S), NEW c, c = a \o b,
         NEW text \in Seq(S), NEW o \in Nat, Holds(text, o, c)
  PROVE  Holds(text, o, a) /\ Holds(text, o + Len(a), b)
<1>2. PICK x \in Nat, y \in Nat, z \in Nat : x = Len(a) /\ y = Len(b) /\ z = Len(text)
  OBVIOUS
<1>3. /\ Len(c) = x + y
      /\ \A k \in 1 .. x : c[k] = a[k]
      /\ \A k \in 1 .. y : c[x + k] = b[k]
  BY <1>2
<1>4. o + (x + y) <= z /\ \A k \in 1 .. x + y : text[o + k] = c[k]
  BY <1>2, <1>3 DEF Holds
<1>5. ASSUME NEW k \in 1 .. x PROVE text[o + k] = a[k]
  <2>1. k \in 1 .. x + y
    OBVIOUS
  <2> QED BY <1>3, <1>4, <2>1
<1>6. ASSUME NEW k \in 1 .. y PROVE text[o + x + k] = b[k]
  <2>1. x + k \in 1 .. x + y /\ o + (x + k) = o + x + k
    OBVIOUS
  <2>2. text[o + (x + k)] = c[x + k]
    BY <1>4, <2>1
  <2> QED BY <1>3, <2>1, <2>2
<1>7. o + x <= z /\ o + x + y <= z
  BY <1>4
<1> QED BY <1>2, <1>5, <1>6, <1>7 DEF Holds

(* Where the texts are that have been joined. *)
Laid(at, text, texts, n) ==
  /\ \A i \in 0 .. n : at[i] \in Nat /\ at[i] <= Len(text)
  /\ \A i \in 1 .. n : at[i] = at[i - 1] + Len(texts[i]) /\ Holds(text, at[i - 1], texts[i])

LEMMA HoldsJoined ==
  ASSUME NEW S, NEW texts, NEW n \in Nat, n = Len(texts), \A i \in 1 .. n : texts[i] \in Seq(S),
         NEW text \in Seq(S), NEW o \in Nat, Holds(text, o, Joined(texts))
  PROVE  \E at : at[0] = o /\ at[n] = o + Len(Joined(texts)) /\ Laid(at, text, texts, n)
<1>1. PICK e : Joins(e, texts, n) /\ Joined(texts) = e[n]
  BY JoinedIs
<1>2. Grows(e, texts, n, S)
  BY <1>1, JoinGrows
<1>3. /\ \A i \in 0 .. n : e[i] \in Seq(S)
      /\ e[0] = <<>>
      /\ \A i \in 1 .. n : e[i] = e[i - 1] \o texts[i] /\ Len(e[i]) = Len(e[i - 1]) + Len(texts[i])
  BY <1>2 DEF Grows
<1> DEFINE G == {i \in 0 .. n : Holds(text, o, e[i])}
<1>4. n \in G
  BY <1>1
<1>5. ASSUME NEW i \in 1 .. n, Holds(text, o, e[i])
      PROVE  Holds(text, o, e[i - 1]) /\ Holds(text, o + Len(e[i - 1]), texts[i])
  <2>1. PICK a \in Seq(S) : a = e[i - 1]
    BY <1>3
  <2>2. PICK b \in Seq(S) : b = texts[i]
    OBVIOUS
  <2>3. PICK c : c = e[i] /\ c = a \o b
    BY <1>3, <2>1, <2>2
  <2>4. Holds(text, o, c)
    BY <1>5, <2>3
  <2>5. Holds(text, o, a) /\ Holds(text, o + Len(a), b)
    BY <2>3, <2>4, HoldsBoth
  <2> QED BY <2>1, <2>2, <2>5
<1>6. ASSUME NEW i \in 1 .. n, i \in G PROVE i - 1 \in G
  BY <1>5, <1>6
<1>7. \A i \in 0 .. n : Holds(text, o, e[i])
  <2> HIDE DEF G
  <2>1. \A i \in 0 .. n : i \in G
    BY <1>4, <1>6, Downward
  <2> QED BY <2>1 DEF G
<1>8. PICK at : at = [i \in 0 .. n |-> o + Len(e[i])]
  OBVIOUS
<1>9. \A i \in 0 .. n : at[i] \in Nat /\ at[i] <= Len(text)
  <2>1. ASSUME NEW i \in 0 .. n PROVE at[i] \in Nat /\ at[i] <= Len(text)
    <3>1. Len(e[i]) \in Nat
      BY <1>3
    <3>2. at[i] = o + Len(e[i])
      BY <1>8
    <3>3. o + Len(e[i]) <= Len(text)
      BY <1>7 DEF Holds
    <3> QED BY <3>1, <3>2, <3>3
  <2> QED BY <2>1
<1>10. ASSUME NEW i \in 1 .. n
      PROVE  at[i] = at[i - 1] + Len(texts[i]) /\ Holds(text, at[i - 1], texts[i])
  <2>1. i \in 0 .. n /\ i - 1 \in 0 .. n
    OBVIOUS
  <2>2. at[i] = o + Len(e[i]) /\ at[i - 1] = o + Len(e[i - 1])
    BY <1>8, <2>1
  <2>3. Len(e[i]) = Len(e[i - 1]) + Len(texts[i]) /\ Len(e[i - 1]) \in Nat /\ Len(texts[i]) \in Nat
    <3>1. e[i - 1] \in Seq(S) /\ texts[i] \in Seq(S)
      BY <1>3, <2>1
    <3>2. Len(e[i - 1]) \in Nat /\ Len(texts[i]) \in Nat
      BY <3>1
    <3> QED BY <1>3, <3>2
  <2>4. o + (Len(e[i - 1]) + Len(texts[i])) = (o + Len(e[i - 1])) + Len(texts[i])
    <3>1. \A x, y \in Nat : o + (x + y) = (o + x) + y
      OBVIOUS
    <3> QED BY <2>3, <3>1
  <2>5. Holds(text, o + Len(e[i - 1]), texts[i])
    BY <1>5, <1>7, <2>1
  <2> QED BY <2>2, <2>3, <2>4, <2>5
<1>11. at[0] = o /\ at[n] = o + Len(Joined(texts))
  <2>1. 0 \in 0 .. n /\ n \in 0 .. n /\ Len(e[0]) = 0
    BY <1>3
  <2>2. at[0] = o + 0
    BY <1>8, <2>1
  <2>3. at[n] = o + Len(e[n])
    BY <1>8, <2>1
  <2>4. o + 0 = o
    OBVIOUS
  <2> QED BY <1>1, <2>2, <2>3, <2>4
<1> QED BY <1>9, <1>10, <1>11 DEF Laid

(* Texts that have at least one unit give at least as many together. *)
LEMMA JoinedLong ==
  ASSUME NEW S, NEW texts, NEW n \in Nat, n = Len(texts),
         \A i \in 1 .. n : texts[i] \in Seq(S) /\ Len(texts[i]) >= 1
  PROVE  Len(Joined(texts)) >= n
<1>1. PICK e : Joins(e, texts, n) /\ Joined(texts) = e[n]
  BY JoinedIs
<1>2. Grows(e, texts, n, S)
  BY <1>1, JoinGrows
<1>3. /\ \A i \in 0 .. n : e[i] \in Seq(S)
      /\ e[0] = <<>>
      /\ \A i \in 1 .. n : Len(e[i]) = Len(e[i - 1]) + Len(texts[i])
  BY <1>2 DEF Grows
<1> DEFINE G == {i \in 0 .. n : Len(e[i]) >= i}
<1>4. 0 \in G
  <2>1. 0 \in 0 .. n /\ Len(<<>>) >= 0
    OBVIOUS
  <2> QED BY <1>3, <2>1
<1>5. ASSUME NEW i \in 1 .. n, i - 1 \in G PROVE i \in G
  <2>1. PICK x \in Nat, y \in Nat : x = Len(e[i - 1]) /\ y = Len(texts[i]) /\ y >= 1
    <3> HIDE DEF G
    <3>0. i - 1 \in 0 .. n
      OBVIOUS
    <3>1. e[i - 1] \in Seq(S) /\ texts[i] \in Seq(S) /\ Len(texts[i]) >= 1
      BY <1>3, <3>0
    <3>2. Len(e[i - 1]) \in Nat /\ Len(texts[i]) \in Nat
      BY <3>1
    <3> QED BY <3>1, <3>2
  <2>2. Len(e[i]) = x + y
    BY <1>3, <2>1
  <2>3. x >= i - 1
    BY <1>5, <2>1
  <2>4. x + y >= i /\ i \in 0 .. n
    <3>1. \A a, b \in Nat : a >= i - 1 /\ b >= 1 => a + b >= i
      OBVIOUS
    <3>2. i \in 0 .. n
      OBVIOUS
    <3>3. x + y >= i
      BY <2>1, <2>3, <3>1
    <3> QED BY <3>2, <3>3
  <2> QED BY <2>2, <2>4
<1> HIDE DEF G
<1>6. \A i \in 0 .. n : i \in G
  BY <1>4, <1>5, Upward
<1>7. n \in G
  <2>1. n \in 0 .. n
    OBVIOUS
  <2> QED BY <1>6, <2>1
<1> QED BY <1>1, <1>7 DEF G

LEMMA JoinType == \A c \in Units, s \in Seq(Units) : <<c>> \o s \in Seq(Units)
<1>1. \A c \in Units : <<c>> \in Seq(Units)
  OBVIOUS
<1>2. \A s, t \in Seq(Units) : s \o t \in Seq(Units)
  OBVIOUS
<1> QED BY <1>1, <1>2

LEMMA RestIs ==
  ASSUME NEW q \in Seq(Units), NEW n \in Nat, n = Len(q), NEW i \in 1 .. n
  PROVE  /\ SubSeq(q, i + 1, n) \in Seq(Units)
         /\ <<q[i]>> \o SubSeq(q, i + 1, n) = SubSeq(q, i, n)
<1>1. ASSUME NEW m \in 1 .. n + 1
      PROVE  /\ SubSeq(q, m, n) \in Seq(Units) /\ Len(SubSeq(q, m, n)) = n - m + 1
             /\ \A j \in 1 .. n - m + 1 : SubSeq(q, m, n)[j] = q[m + j - 1]
  <2>1. m \in Int /\ n \in Int /\ \A j \in m .. n : q[j] \in Units
    OBVIOUS
  <2>2. /\ SubSeq(q, m, n) \in Seq(Units)
        /\ Len(SubSeq(q, m, n)) = IF m <= n THEN n - m + 1 ELSE 0
        /\ \A j \in 1 .. n - m + 1 : SubSeq(q, m, n)[j] = q[m + j - 1]
    BY <2>1, SubSeqProperties
  <2>3. (IF m <= n THEN n - m + 1 ELSE 0) = n - m + 1
    OBVIOUS
  <2> QED BY <2>2, <2>3
<1>2. i \in 1 .. n + 1 /\ i + 1 \in 1 .. n + 1 /\ n - (i + 1) + 1 = n - i
  OBVIOUS
<1>3. PICK s \in Seq(Units) : s = SubSeq(q, i + 1, n)
  BY <1>1, <1>2
<1>4. PICK t \in Seq(Units) : t = SubSeq(q, i, n)
  BY <1>1, <1>2
<1>5. Len(s) = n - i /\ Len(t) = n - i + 1
  BY <1>1, <1>2, <1>3, <1>4
<1>6. \A j \in 1 .. n - i : s[j] = q[i + j]
  <2>1. \A j \in 1 .. n - i : s[j] = q[i + 1 + j - 1]
    BY <1>1, <1>2, <1>3
  <2>2. \A j \in 1 .. n - i : i + 1 + j - 1 = i + j
    OBVIOUS
  <2> QED BY <2>1, <2>2
<1>7. \A j \in 1 .. n - i + 1 : t[j] = q[i + j - 1]
  BY <1>1, <1>2, <1>4
<1>8. PICK c \in Units : c = q[i]
  OBVIOUS
<1>9. PICK u \in Seq(Units) : u = <<c>> \o s
  BY JoinType, <1>3
<1>10. Len(u) = n - i + 1 /\ u[1] = q[i] /\ \A j \in 2 .. n - i + 1 : u[j] = s[j - 1]
  BY <1>5, <1>9, <1>8
<1>11. ASSUME NEW j \in 1 .. n - i + 1 PROVE u[j] = t[j]
  <2>1. CASE j = 1
    <3>1. t[1] = q[i]
      <4>1. 1 \in 1 .. n - i + 1 /\ i + 1 - 1 = i
        OBVIOUS
      <4>2. t[1] = q[i + 1 - 1]
        BY <1>7, <4>1
      <4> QED BY <4>1, <4>2
    <3> QED BY <1>10, <2>1, <3>1
  <2>2. CASE j # 1
    <3>1. j \in 2 .. n - i + 1 /\ j - 1 \in 1 .. n - i /\ i + (j - 1) = i + j - 1
      BY <2>2
    <3>2. u[j] = q[i + (j - 1)]
      BY <1>6, <1>10, <3>1
    <3> QED BY <1>7, <3>1, <3>2
  <2> QED BY <2>1, <2>2
<1>12. u = t
  BY <1>5, <1>10, <1>11
<1> QED BY <1>3, <1>4, <1>9, <1>12, <1>8

(* The text between quotes. *)
Quoted(said, w, c) == said = <<c>> \o w \o <<c>>

LEMMA QuotedIs ==
  ASSUME NEW w \in Seq(Units), NEW a \in Nat, a = Len(w), NEW c \in Units,
         NEW said, Quoted(said, w, c)
  PROVE  /\ said \in Seq(Units) /\ Len(said) = a + 2 /\ said[1] = c /\ said[a + 2] = c
         /\ \A j \in 1 .. a : said[j + 1] = w[j]
<1>1. PICK s \in Seq(Units) : s = <<c>> \o w
  BY JoinType
<1>2. Len(s) = a + 1 /\ s[1] = c /\ \A j \in 1 .. a : s[j + 1] = w[j]
  BY <1>1
<1>3. said = s \o <<c>>
  BY <1>1 DEF Quoted
<1>4. <<c>> \in Seq(Units) /\ Len(<<c>>) = 1 /\ <<c>>[1] = c
  OBVIOUS
<1>5. said \in Seq(Units) /\ Len(said) = a + 2 /\ said[a + 2] = c
  BY <1>2, <1>3
<1>6. \A j \in 1 .. a + 1 : said[j] = s[j]
  BY <1>2, <1>3
<1>7. said[1] = c
  BY <1>2, <1>6
<1>8. ASSUME NEW j \in 1 .. a PROVE said[j + 1] = w[j]
  <2>1. j + 1 \in 1 .. a + 1
    OBVIOUS
  <2> QED BY <1>2, <1>6, <2>1
<1> QED BY <1>5, <1>7, <1>8

-----------------------------------------------------------------------------
(* What clients send is a sequence of units.                               *)

(* What a literal says, and how it is written. *)
Spellings(s) == [i \in DOMAIN s |-> s[i].as]

LEMMA SpelledIs ==
  ASSUME NEW s \in Seq(Spelled), NEW n \in Nat, n = Len(s)
  PROVE  /\ Says(s) \in Seq(Units) /\ Len(Says(s)) = n
         /\ \A i \in 1 .. n : s[i] \in Spelled /\ Says(s)[i] = s[i].says /\ Spellings(s)[i] = s[i].as
         /\ Len(Spellings(s)) = n
         /\ \A i \in 1 .. n : Spellings(s)[i] \in Seq(Units)
<1>1. DOMAIN s = 1 .. n /\ \A i \in 1 .. n : s[i] \in Spelled
  OBVIOUS
<1>2. \A i \in 1 .. n : s[i].says \in Units /\ s[i].as \in Seq(Units)
  BY <1>1 DEF Spelled
<1>3. Says(s) = [i \in 1 .. n |-> s[i].says]
  BY <1>1 DEF Says
<1>4. Spellings(s) = [i \in 1 .. n |-> s[i].as]
  BY <1>1 DEF Spellings
<1>5. Says(s) \in Seq(Units) /\ Len(Says(s)) = n
  BY <1>2, <1>3
<1>6. Len(Spellings(s)) = n
  BY <1>4
<1> QED BY <1>1, <1>2, <1>3, <1>4, <1>5, <1>6

LEMMA QuoteIs ==
  ASSUME NEW s \in Seq(Spelled)
  PROVE  /\ Quoted(Quote(s), Joined(Spellings(s)), Ch("quote"))
         /\ Quote(s) \in Seq(Units) /\ Len(Quote(s)) >= 2
<1>1. Quoted(Quote(s), Joined(Spellings(s)), Ch("quote"))
  BY DEF Quoted, Quote, Spellings
<1>2. PICK n \in Nat : n = Len(s)
  OBVIOUS
<1>3. PICK w \in Seq(Units) : w = Joined(Spellings(s))
  BY <1>2, SpelledIs, JoinedType
<1>4. PICK c \in Units : c = Ch("quote")
  BY NamedUnits
<1>5. PICK a \in Nat : a = Len(w)
  OBVIOUS
<1>6. PICK said : said = Quote(s) /\ Quoted(said, w, c)
  BY <1>1, <1>3, <1>4
<1>7. said \in Seq(Units) /\ Len(said) = a + 2
  BY <1>5, <1>6, QuotedIs
<1> QED BY <1>1, <1>6, <1>7

(* One unit behind a text. *)
LEMMA EndedType ==
  ASSUME NEW s \in Seq(Units), NEW c \in Units
  PROVE  s \o <<c>> \in Seq(Units) /\ Len(s \o <<c>>) = Len(s) + 1
<1>1. <<c>> \in Seq(Units) /\ Len(<<c>>) = 1
  OBVIOUS
<1> QED BY <1>1

LEMMA WrittenType ==
  ASSUME NEW m \in Members
  PROVE  /\ m.key \in Seq(Spelled) /\ m.value \in Seq(Spelled) /\ m.string \in BOOLEAN
         /\ Written(m) \in Seq(Units) /\ Says(m.value) \in Seq(Units)
<1>1. m.key \in Seq(Spelled) /\ m.value \in Seq(Spelled) /\ m.string \in BOOLEAN
  BY DEF Members
<1>2. PICK key \in Seq(Units) : key = Quote(m.key)
  BY <1>1, QuoteIs
<1>3. PICK value \in Seq(Units) : value = IF m.string THEN Quote(m.value) ELSE Says(m.value)
  BY <1>1, QuoteIs, SpelledIs
<1>4. PICK c \in Units : c = Ch("colon")
  BY CharacterTypes DEF Names
<1>5. <<c>> \in Seq(Units)
  OBVIOUS
<1>6. Written(m) = key \o <<c>> \o value
  BY <1>2, <1>3, <1>4 DEF Written
<1>7. Says(m.value) \in Seq(Units)
  BY <1>1, SpelledIs
<1> QED BY <1>1, <1>5, <1>6, <1>7

(* The members as they stand in the object. *)
Piece(ms, i, n) == Written(ms[i]) \o <<Ch(IF i = n THEN "close" ELSE "comma")>>

LEMMA PieceType ==
  ASSUME NEW ms \in Seq(Members), NEW n, NEW i \in 1 .. Len(ms)
  PROVE  Piece(ms, i, n) \in Seq(Units)
<1>1. PICK m \in Members : m = ms[i]
  OBVIOUS
<1>2. PICK c \in Units : c = Ch(IF i = n THEN "close" ELSE "comma")
  BY CharacterTypes DEF Names
<1>3. PICK s \in Seq(Units) : s = Written(m)
  BY WrittenType
<1>4. Piece(ms, i, n) = s \o <<c>>
  BY <1>1, <1>2, <1>3 DEF Piece
<1> QED BY <1>4, EndedType

LEMMA ObjectIs ==
  ASSUME NEW ms \in Seq(Members), NEW n \in Nat, n = Len(ms)
  PROVE  \E texts : /\ Object(ms) = <<Ch("open")>> \o Joined(texts)
                    /\ Len(texts) = n
                    /\ \A i \in 1 .. n : texts[i] = Piece(ms, i, n) /\ texts[i] \in Seq(Units)
<1>1. PICK texts : texts = [i \in 1 .. n |-> Piece(ms, i, n)]
  OBVIOUS
<1>2. Object(ms) = <<Ch("open")>> \o Joined(texts)
  <2>1. DOMAIN ms = 1 .. n
    OBVIOUS
  <2>2. [i \in DOMAIN ms |-> Written(ms[i]) \o <<Ch(IF i = Len(ms) THEN "close" ELSE "comma")>>] = texts
    BY <1>1, <2>1 DEF Piece
  <2> QED BY <2>2 DEF Object
<1>3. \A i \in 1 .. n : texts[i] = Piece(ms, i, n) /\ texts[i] \in Seq(Units)
  BY <1>1, PieceType
<1>4. Len(texts) = n
  BY <1>1
<1> QED BY <1>2, <1>3, <1>4

LEMMA ObjectType ==
  ASSUME NEW ms \in Seq(Members)
  PROVE  Object(ms) \in Seq(Units)
<1>1. PICK n \in Nat : n = Len(ms)
  OBVIOUS
<1>2. PICK texts : /\ Object(ms) = <<Ch("open")>> \o Joined(texts)
                   /\ Len(texts) = n
                   /\ \A i \in 1 .. n : texts[i] = Piece(ms, i, n) /\ texts[i] \in Seq(Units)
  BY <1>1, ObjectIs
<1>3. Joined(texts) \in Seq(Units)
  BY <1>2, JoinedType
<1>4. Ch("open") \in Units
  BY CharacterTypes DEF Names
<1> QED BY <1>2, <1>3, <1>4, JoinType

-----------------------------------------------------------------------------
(* The head of a request by its positions: three words, and headers, each  *)
(* line with its end, and the empty line.                                  *)
Headers(hs) == [i \in DOMAIN hs |-> <<hs[i]>> \o CRLF]

LEMMA LineEndIs == /\ Ch("cr") \in Units /\ Ch("lf") \in Units /\ Ch("cr") # Ch("lf")
                   /\ CRLF \in Seq(Units) /\ Len(CRLF) = 2 /\ CRLF[1] = Ch("cr") /\ CRLF[2] = Ch("lf")
<1>1. Ch("cr") \in Units /\ Ch("lf") \in Units
  BY CharacterTypes DEF Names
<1>2. Ch("cr") # Ch("lf")
  BY CharacterTypes
<1> QED BY <1>1, <1>2 DEF CRLF

LEMMA HeadersAre ==
  ASSUME NEW hs \in Seq(Units), NEW n \in Nat, n = Len(hs)
  PROVE  /\ Len(Headers(hs)) = n
         /\ \A i \in 1 .. n : /\ Headers(hs)[i] = <<hs[i]>> \o CRLF /\ Headers(hs)[i] \in Seq(Units)
                              /\ Len(Headers(hs)[i]) = 3
<1>1. Headers(hs) = [i \in 1 .. n |-> <<hs[i]>> \o CRLF]
  BY DEF Headers
<1>2. PICK e \in Seq(Units) : e = CRLF /\ Len(e) = 2
  BY LineEndIs
<1>3. ASSUME NEW i \in 1 .. n PROVE <<hs[i]>> \o e \in Seq(Units) /\ Len(<<hs[i]>> \o e) = 3
  <2>1. PICK h \in Units : h = hs[i]
    OBVIOUS
  <2>2. <<h>> \in Seq(Units)
    OBVIOUS
  <2>3. PICK w \in Seq(Units) : w = <<h>>
    BY <2>2
  <2>4. Len(w) = 1
    BY <2>3
  <2>5. \A x, y \in Seq(Units) : x \o y \in Seq(Units) /\ Len(x \o y) = Len(x) + Len(y)
    OBVIOUS
  <2>6. w \o e \in Seq(Units) /\ Len(w \o e) = 1 + 2
    BY <1>2, <2>4, <2>5
  <2> QED BY <2>1, <2>3, <2>6
<1> QED BY <1>1, <1>2, <1>3

LEMMA WordType == (\A w \in Words : WordUnit(w) \in Units) /\ WordUnit("HTTP/1.1") \in Units
<1>1. \A w \in Words : WordUnit(w) \in Units
  BY DEF WordUnit, Unit, Units
<1>2. "HTTP/1.1" \in Words
  BY WordsAssumption DEF Names
<1> QED BY <1>1, <1>2

(* The parts of a message have their types. *)
LEMMA TextType ==
  ASSUME NEW m \in Words, NEW p \in Words, NEW hs \in Seq(Units), NEW body \in Seq(Units)
  PROVE  /\ Line(m, p) \in Seq(Units) /\ Joined(Headers(hs)) \in Seq(Units)
         /\ Text(Line(m, p), hs, body) = ((Line(m, p) \o Joined(Headers(hs))) \o CRLF) \o body
         /\ Text(Line(m, p), hs, body) \in Seq(Units)
<1>1. WordUnit(m) \in Units /\ WordUnit(p) \in Units /\ WordUnit("HTTP/1.1") \in Units
  BY WordType
<1>2. PICK a \in Seq(Units) : a = Line(m, p)
  <2>1. <<WordUnit(m), WordUnit(p), WordUnit("HTTP/1.1")>> \in Seq(Units)
    BY <1>1
  <2>2. CRLF \in Seq(Units)
    BY LineEndIs
  <2>3. Line(m, p) \in Seq(Units)
    BY <2>1, <2>2 DEF Line
  <2> QED BY <2>3
<1>3. PICK b \in Seq(Units) : b = Joined(Headers(hs))
  <2>1. PICK n \in Nat : n = Len(hs)
    OBVIOUS
  <2>2. Joined(Headers(hs)) \in Seq(Units)
    BY <2>1, HeadersAre, JoinedType
  <2> QED BY <2>2
<1>4. Text(a, hs, body) = ((a \o b) \o CRLF) \o body
  BY <1>3 DEF Text, Headers
<1>5. ((a \o b) \o CRLF) \o body \in Seq(Units)
  <2>1. CRLF \in Seq(Units)
    BY LineEndIs
  <2> QED BY <2>1
<1> QED BY <1>2, <1>3, <1>4, <1>5

LEMMA MessageType ==
  ASSUME NEW r, Proper(r)
  PROVE  /\ Content(r) \in Seq(Units) /\ Message(r) \in Seq(Units)
         /\ r.headers \in Seq(Units) /\ r.method \in Words /\ r.path \in Words
<1>1. PICK c \in Seq(Units) : c = Content(r)
  <2>1. CASE Asks(r)
    BY <2>1, ObjectType DEF Proper, Content
  <2>2. CASE ~Asks(r)
    <3>1. Content(r) = <<>>
      BY <2>2 DEF Content
    <3>2. <<>> \in Seq(Units)
      OBVIOUS
    <3> QED BY <3>1, <3>2
  <2> QED BY <2>1, <2>2
<1>2. r.method \in Words /\ r.path \in Words
  BY WordsAssumption DEF Proper, Names
<1>3. r.headers \in Seq(Units)
  <2>1. PICK n \in Nat : n = Len(c)
    OBVIOUS
  <2>2. LengthHeader(n) \in Units /\ OtherHeader \in Units
    BY WordsAssumption DEF LengthHeader, OtherHeader, Unit, Units, Names
  <2>3. {OtherHeader, LengthHeader(n)} \subseteq Units
    BY <2>2
  <2>4. r.headers \in Seq({OtherHeader, LengthHeader(n)})
    BY <1>1, <2>1 DEF Proper
  <2> QED BY <2>3, <2>4
<1>4. Message(r) = Text(Line(r.method, r.path), r.headers, c)
  BY <1>1 DEF Message
<1>5. Message(r) \in Seq(Units)
  <2>1. PICK m \in Words, p \in Words, hs \in Seq(Units) : m = r.method /\ p = r.path /\ hs = r.headers
    BY <1>2, <1>3
  <2>2. Text(Line(m, p), hs, c) \in Seq(Units)
    BY TextType
  <2> QED BY <1>4, <2>1, <2>2
<1> QED BY <1>1, <1>2, <1>3, <1>5

(* What comes over the wire. *)
LEMMA WireType == Init => wire \in Seq(Units)
<1> SUFFICES ASSUME Init PROVE wire \in Seq(Units)
  OBVIOUS
<1>1. ASSUME NEW r \in Requests, wire = Message(r) \o r.more PROVE wire \in Seq(Units)
  <2>1. Proper(r)
    BY ClientsAssumption
  <2>2. Message(r) \in Seq(Units)
    BY <2>1, MessageType
  <2>3. r.more \in Seq(Units)
    BY <2>1 DEF Proper
  <2> QED BY <1>1, <2>2, <2>3
<1>2. wire \in Texts => wire \in Seq(Units)
  BY ClientsAssumption
<1>3. wire \in Texts \/ \E r \in Requests : wire = Message(r) \o r.more
  BY DEF Init
<1> QED BY <1>1, <1>2, <1>3

-----------------------------------------------------------------------------
(* The first empty line, and the first Content-Length.                     *)

(* HeaderEnd is the first place of an empty line. *)
LEMMA HeaderEndIs ==
  ASSUME NEW t \in Seq(Units)
  PROVE  \/ Found(t) = {} /\ HeaderEnd(t) = -1
         \/ /\ HeaderEnd(t) \in Found(t) /\ \A j \in Found(t) : HeaderEnd(t) <= j
            /\ HeaderEnd(t) \in 0 .. Len(t) - 4
<1>1. HeaderEnd(t) = IF Found(t) = {} THEN -1 ELSE CHOOSE i \in Found(t) : \A j \in Found(t) : i <= j
  BY DEF HeaderEnd, Found
<1>2. CASE Found(t) = {}
  BY <1>1, <1>2
<1>3. CASE Found(t) # {}
  <2>1. Found(t) \subseteq Nat /\ Found(t) \subseteq 0 .. Len(t) - 4
    BY DEF Found
  <2>2. \E i \in Found(t) : \A j \in Found(t) : i <= j
    BY <1>3, <2>1, LeastNumber
  <2>3. HeaderEnd(t) \in Found(t) /\ \A j \in Found(t) : HeaderEnd(t) <= j
    BY <1>1, <1>3, <2>2
  <2> QED BY <2>1, <2>3
<1> QED BY <1>2, <1>3

(* A prefix. *)
LEMMA PrefixIs ==
  ASSUME wire \in Seq(Units), NEW m \in 0 .. Len(wire)
  PROVE  /\ Prefix(m) \in Seq(Units) /\ Len(Prefix(m)) = m
         /\ \A i \in 1 .. m : Prefix(m)[i] = wire[i]
BY DEF Prefix

(* The empty lines in a prefix are the ones that end in it. *)
LEMMA PrefixFound ==
  ASSUME wire \in Seq(Units), NEW m \in 0 .. Len(wire)
  PROVE  Found(Prefix(m)) = {i \in 0 .. m - 4 : SubSeq(wire, i + 1, i + 4) = CRLF \o CRLF}
<1>1. ASSUME NEW i \in 0 .. m - 4
      PROVE  SubSeq(Prefix(m), i + 1, i + 4) = SubSeq(wire, i + 1, i + 4)
  BY PrefixIs DEF Prefix
<1> QED BY <1>1, PrefixIs DEF Found

(* Once the empty line is there, more units change nothing in front of it. *)
LEMMA HeaderEndStays ==
  ASSUME wire \in Seq(Units), NEW m \in 0 .. Len(wire), NEW k \in m .. Len(wire),
         HeaderEnd(Prefix(m)) >= 0
  PROVE  HeaderEnd(Prefix(k)) = HeaderEnd(Prefix(m)) /\ HeaderEnd(Prefix(m)) \in 0 .. m - 4
<1> DEFINE h == HeaderEnd(Prefix(m))
           e == HeaderEnd(Prefix(k))
<1>1. /\ Prefix(m) \in Seq(Units) /\ Len(Prefix(m)) = m
      /\ Prefix(k) \in Seq(Units) /\ Len(Prefix(k)) = k /\ k \in 0 .. Len(wire)
  BY PrefixIs
<1>2. h \in Found(Prefix(m)) /\ h \in 0 .. m - 4 /\ \A j \in Found(Prefix(m)) : h <= j
  BY <1>1, HeaderEndIs
<1>3. Found(Prefix(m)) = {i \in Found(Prefix(k)) : i <= m - 4}
  <2>1. Found(Prefix(m)) = {i \in 0 .. m - 4 : SubSeq(wire, i + 1, i + 4) = CRLF \o CRLF}
    BY PrefixFound
  <2>2. Found(Prefix(k)) = {i \in 0 .. k - 4 : SubSeq(wire, i + 1, i + 4) = CRLF \o CRLF}
    BY <1>1, PrefixFound
  <2>3. \A i : i \in 0 .. m - 4 <=> i \in 0 .. k - 4 /\ i <= m - 4
    OBVIOUS
  <2> QED BY <2>1, <2>2, <2>3
<1>4. h \in Found(Prefix(k))
  BY <1>2, <1>3
<1>5. e \in Found(Prefix(k)) /\ e \in 0 .. k - 4 /\ \A j \in Found(Prefix(k)) : e <= j
  BY <1>1, <1>4, HeaderEndIs
<1> HIDE DEF h, e
<1>6. e <= h /\ h <= e
  BY <1>2, <1>3, <1>4, <1>5
<1>7. e = h
  BY <1>2, <1>5, <1>6
<1> QED BY <1>2, <1>7 DEF h, e

(* strtoul gives a size_t. *)
LEMMA StrtoulType == \A n \in Int : strtoul(n) \in 0 .. SizeMax
BY SizesAssumption DEF strtoul

(* The first Content-Length is a header in front of the empty line. *)
LEMMA FirstLength ==
  ASSUME NEW t \in Seq(Units), LengthPositions(t) # {}
  PROVE  \E i \in LengthPositions(t) :
           /\ \A j \in LengthPositions(t) : i <= j
           /\ i = CHOOSE x \in LengthPositions(t) : \A j \in LengthPositions(t) : x <= j
           /\ i \in 1 .. HeaderEnd(t) /\ i \in 1 .. Len(t)
           /\ http_server_parse_content_length(t) = strtoul(t[i].value)
<1>1. HeaderEnd(t) \in Int /\ HeaderEnd(t) <= Len(t) /\ Len(t) \in Nat
  BY HeaderEndIs
<1>2. LengthPositions(t) \subseteq Nat /\ LengthPositions(t) \subseteq 1 .. HeaderEnd(t)
  BY <1>1 DEF LengthPositions
<1>3. \E i \in LengthPositions(t) : \A j \in LengthPositions(t) : i <= j
  BY <1>2, LeastNumber
<1> DEFINE i == CHOOSE x \in LengthPositions(t) : \A j \in LengthPositions(t) : x <= j
<1>4. i \in LengthPositions(t) /\ \A j \in LengthPositions(t) : i <= j
  BY <1>3
<1>5. http_server_parse_content_length(t) = strtoul(t[i].value)
  BY DEF http_server_parse_content_length
<1> HIDE DEF i
<1>6. i \in 1 .. HeaderEnd(t) /\ i \in 1 .. Len(t)
  BY <1>1, <1>2, <1>4
<1> QED BY <1>4, <1>5, <1>6 DEF i

LEMMA ContentLengthType ==
  ASSUME NEW t \in Seq(Units)
  PROVE  http_server_parse_content_length(t) \in 0 .. SizeMax
<1>1. CASE LengthPositions(t) = {}
  BY <1>1, SizesAssumption DEF http_server_parse_content_length
<1>2. CASE LengthPositions(t) # {}
  <2>1. PICK i \in 1 .. Len(t) : http_server_parse_content_length(t) = strtoul(t[i].value)
    BY <1>2, FirstLength
  <2>2. t[i] \in Units
    BY <2>1
  <2>3. t[i].value \in Int
    BY <2>2 DEF Units
  <2> QED BY <2>1, <2>3, StrtoulType
<1> QED BY <1>1, <1>2

LEMMA ExpectedTotalType ==
  ASSUME NEW t \in Seq(Units)
  PROVE  ExpectedTotal(t) \in 0 .. SizeMax
<1>1. HeaderEnd(t) + 4 + http_server_parse_content_length(t) \in Int
  BY HeaderEndIs, ContentLengthType
<1> QED BY <1>1, SizesAssumption DEF ExpectedTotal

(* What is announced in front of the empty line stays the same, too. *)
LEMMA ExpectedTotalStays ==
  ASSUME wire \in Seq(Units), NEW m \in 0 .. Len(wire), NEW k \in m .. Len(wire),
         HeaderEnd(Prefix(m)) >= 0
  PROVE  ExpectedTotal(Prefix(k)) = ExpectedTotal(Prefix(m))
<1> DEFINE P == LengthPositions(Prefix(m))
<1>1. /\ HeaderEnd(Prefix(k)) = HeaderEnd(Prefix(m)) /\ HeaderEnd(Prefix(m)) \in 0 .. m - 4
  BY HeaderEndStays
<1>2. /\ Prefix(m) \in Seq(Units) /\ Prefix(k) \in Seq(Units)
      /\ \A i \in 1 .. m : Prefix(m)[i] = Prefix(k)[i]
  <2>1. /\ Prefix(m) \in Seq(Units) /\ \A i \in 1 .. m : Prefix(m)[i] = wire[i]
    BY PrefixIs
  <2>2. /\ Prefix(k) \in Seq(Units) /\ \A i \in 1 .. k : Prefix(k)[i] = wire[i]
    BY PrefixIs
  <2>3. \A i \in 1 .. m : i \in 1 .. k
    OBVIOUS
  <2> QED BY <2>1, <2>2, <2>3
<1>3. LengthPositions(Prefix(k)) = P
  <2>1. PICK n \in 0 .. m - 4 : n = HeaderEnd(Prefix(m)) /\ n = HeaderEnd(Prefix(k))
    BY <1>1
  <2>2. PICK a, b : a = Prefix(m) /\ b = Prefix(k)
    OBVIOUS
  <2>3. \A i \in 3 .. n : i \in 1 .. m /\ i - 1 \in 1 .. m /\ i - 2 \in 1 .. m
    BY <2>1
  <2>4. \A i \in 3 .. n : a[i] = b[i] /\ a[i - 1] = b[i - 1] /\ a[i - 2] = b[i - 2]
    BY <1>2, <2>2, <2>3
  <2>5. /\ LengthPositions(a) = {i \in 3 .. n : /\ a[i - 2] = Ch("cr") /\ a[i - 1] = Ch("lf")
                                                /\ a[i].kind = "header" /\ a[i].text = "Content-Length"}
        /\ LengthPositions(b) = {i \in 3 .. n : /\ b[i - 2] = Ch("cr") /\ b[i - 1] = Ch("lf")
                                                /\ b[i].kind = "header" /\ b[i].text = "Content-Length"}
    BY <2>1, <2>2 DEF LengthPositions
  <2>6. LengthPositions(a) = LengthPositions(b)
    BY <2>4, <2>5, Zenon
  <2> QED BY <2>2, <2>6
<1>4. http_server_parse_content_length(Prefix(k)) = http_server_parse_content_length(Prefix(m))
  <2>1. CASE P = {}
    BY <1>3, <2>1 DEF http_server_parse_content_length
  <2>2. CASE P # {}
    <3> DEFINE i == CHOOSE x \in P : \A j \in P : x <= j
    <3>1. /\ i \in 1 .. HeaderEnd(Prefix(m))
          /\ http_server_parse_content_length(Prefix(m)) = strtoul(Prefix(m)[i].value)
      BY <1>2, <2>2, FirstLength
    <3>2. http_server_parse_content_length(Prefix(k)) = strtoul(Prefix(k)[i].value)
      BY <1>2, <1>3, <2>2, FirstLength
    <3> HIDE DEF i
    <3>3. Prefix(k)[i] = Prefix(m)[i]
      BY <1>1, <1>2, <3>1
    <3> QED BY <3>1, <3>2, <3>3
  <2> QED BY <2>1, <2>2
<1> QED BY <1>1, <1>4 DEF ExpectedTotal

-----------------------------------------------------------------------------
(* The loop.                                                               *)

LEMMA InitReadInv == Init => ReadInv
<1> SUFFICES ASSUME Init PROVE ReadInv
  OBVIOUS
<1>1. /\ wire \in Seq(Units) /\ total = 0 /\ headers_ready = FALSE /\ expected_total = 0
      /\ pc = "reading" /\ why = "none"
  BY WireType, Zenon DEF Init
<1>2. buffer = <<>>
  BY <1>1 DEF buffer
<1>3. HeaderEnd(buffer) = -1
  <2>1. buffer \in Seq(Units) /\ Len(buffer) = 0
    BY <1>2
  <2>2. ~(HeaderEnd(buffer) \in 0 .. Len(buffer) - 4)
    BY <2>1
  <2> QED BY <2>1, <2>2, HeaderEndIs
<1>4. TypeOK
  <2>1. 0 \in 0 .. BufferSize - 1 /\ 0 \in 0 .. SizeMax
    BY SizesAssumption
  <2> QED BY <1>1, <2>1 DEF TypeOK
<1> QED BY <1>1, <1>3, <1>4 DEF ReadInv

(* One turn of the loop, with a piece of n units. *)
LEMMA RecvReadInv ==
  ASSUME ReadInv, NEW n \in 1 .. Len(wire), Recv(n)
  PROVE  /\ ReadInv' /\ UNCHANGED wire
         /\ pc' = "refused" => headers_ready' /\ TooLong(expected_total') /\ why' = "too long"
<1> DEFINE m == total + n
           ready == headers_ready \/ HeaderEnd(Searched(n)) >= 0
           want == IF headers_ready \/ ~ready THEN expected_total
                                              ELSE ExpectedTotal(SubSeq(wire, 1, total + n))
<1> USE DEF ReadInv
<1>1. /\ total \in Nat /\ m \in Nat /\ m <= Len(wire) /\ m <= BufferSize - 1 /\ total <= m
      /\ Len(wire) \in Nat /\ BufferSize \in Nat
  <2>1. n <= BufferSize - total - 1 /\ total + n <= Len(wire)
    BY DEF Recv, Arrived, Room
  <2>2. total \in Nat /\ Len(wire) \in Nat /\ BufferSize \in Nat /\ n \in Nat
    BY SizesAssumption DEF TypeOK
  <2> QED BY <2>1, <2>2
<1>2. /\ pc = "reading" /\ total' = m /\ headers_ready' = ready /\ expected_total' = want
      /\ UNCHANGED <<wire, meant>>
  BY DEF Recv
<1>3. /\ buffer = Prefix(total) /\ Searched(n) = Prefix(m) /\ buffer' = Prefix(m)
      /\ total \in 0 .. Len(wire) /\ m \in total .. Len(wire) /\ m \in 0 .. Len(wire)
  BY <1>1, <1>2 DEF buffer, Searched, Prefix
<1>4. Prefix(m) \in Seq(Units)
  BY <1>3, PrefixIs
<1>5. headers_ready => /\ HeaderEnd(Prefix(m)) >= 0
                       /\ ExpectedTotal(Prefix(m)) = expected_total
  BY <1>3, HeaderEndStays, ExpectedTotalStays
<1>6. ready <=> HeaderEnd(Prefix(m)) >= 0
  BY <1>3, <1>5
<1>7. ready => want = ExpectedTotal(Prefix(m))
  BY <1>5 DEF Prefix
<1>8. want \in 0 .. SizeMax
  <2>1. expected_total \in 0 .. SizeMax
    BY DEF TypeOK
  <2>2. ExpectedTotal(SubSeq(wire, 1, total + n)) \in 0 .. SizeMax
    BY <1>4, ExpectedTotalType DEF Prefix
  <2> QED BY <2>1, <2>2
<1>9. /\ \/ /\ ~headers_ready /\ ready /\ TooLong(want) /\ pc' = "refused" /\ why' = "too long"
         \/ /\ headers_ready \/ ~ready \/ ~TooLong(want)
            /\ pc' = IF ready /\ m >= want THEN "parsing" ELSE "reading"
            /\ why' = why
  BY <1>2 DEF Recv, Refuse
<1>10. headers_ready => ~TooLong(want)
  BY <1>2
<1>11. headers_ready' \in BOOLEAN /\ (headers_ready' <=> ready) /\ why = "none"
  BY <1>2 DEF TypeOK
<1> HIDE DEF m, ready, want, ReadInv
<1>12. TypeOK'
  <2>1. total' \in 0 .. BufferSize - 1 /\ expected_total' \in 0 .. SizeMax
    BY <1>1, <1>2, <1>8
  <2>2. pc' \in {"reading", "parsing", "routing", "refused"}
    BY <1>9
  <2> QED BY <1>11, <2>1, <2>2 DEF TypeOK
<1>13. TooLong(expected_total)' <=> TooLong(want)
  BY <1>2 DEF TooLong
<1>14. /\ (headers_ready <=> HeaderEnd(buffer) >= 0)'
       /\ (headers_ready => expected_total = ExpectedTotal(buffer))'
  BY <1>2, <1>3, <1>6, <1>7, <1>11
<1>15. /\ pc' = "reading" /\ headers_ready' => ~TooLong(want) /\ total' < expected_total'
       /\ pc' \in {"reading", "parsing"} => why' = "none"
       /\ pc' \in {"parsing", "routing"} =>
            headers_ready' /\ ~TooLong(want) /\ total' >= expected_total'
       /\ pc' = "refused" => headers_ready' /\ TooLong(want) /\ why' = "too long"
  <2>1. total' = m /\ expected_total' = want /\ m \in Int /\ want \in Int
    BY <1>1, <1>2, <1>8
  <2>2. (ready /\ m >= want) \/ ~ready \/ m < want
    BY <2>1
  <2>3. CASE ready /\ m >= want
    BY <1>9, <1>10, <1>11, <2>1, <2>3
  <2>4. CASE ~ready \/ m < want
    <3>1. ~(ready /\ m >= want)
      BY <2>1, <2>4
    <3> QED BY <1>9, <1>10, <1>11, <2>1, <2>4, <3>1
  <2> QED BY <2>2, <2>3, <2>4
<1>16. (wire \in Seq(Units) /\ total <= Len(wire))'
  BY <1>1, <1>2 DEF ReadInv
<1> QED BY <1>2, <1>12, <1>13, <1>14, <1>15, <1>16 DEF ReadInv

(* The other steps. *)
LEMMA NextReadInv ==
  ASSUME ReadInv, [Next]_vars
  PROVE  ReadInv'
<1>1. ASSUME NEW n \in 1 .. Len(wire), Recv(n) PROVE ReadInv'
  BY <1>1, RecvReadInv
<1>2. CASE EndOfInput \/ RecvError \/ Parse
  <2>1. /\ UNCHANGED <<wire, total, headers_ready, expected_total>>
        /\ \/ pc' = "refused"
           \/ pc = "parsing" /\ pc' = "routing" /\ why' = why
    BY <1>2 DEF EndOfInput, RecvError, Parse, Refuse
  <2>2. buffer' = buffer /\ (TooLong(expected_total)' <=> TooLong(expected_total))
    BY <2>1 DEF buffer, TooLong
  <2>3. TypeOK' /\ (HeaderEnd(buffer)' = HeaderEnd(buffer))
        /\ ExpectedTotal(buffer)' = ExpectedTotal(buffer)
    BY <2>1, <2>2 DEF ReadInv, TypeOK
  <2> QED BY <2>1, <2>2, <2>3 DEF ReadInv
<1>3. CASE UNCHANGED vars
  BY <1>3 DEF vars, ReadInv, TypeOK, buffer, TooLong
<1> QED BY <1>1, <1>2, <1>3 DEF Next

(* The loop of http_server_read_request keeps its invariant. *)
THEOREM ReadInvariance == Spec => []ReadInv
BY InitReadInv, NextReadInv, PTL DEF Spec

(* The variables of http_server_read_request have their types: what is     *)
(* received leaves room for the terminating NUL.                           *)
THEOREM TypeCorrect == Spec => []TypeOK
<1>1. ReadInv => TypeOK
  BY DEF ReadInv
<1> QED BY <1>1, ReadInvariance, PTL

-----------------------------------------------------------------------------
(* The verdict.                                                            *)

(* All that can be seen decides as the part that was received. *)
LEMMA VerdictOf ==
  ASSUME ReadInv
  PROVE  /\ headers_ready => /\ HeaderEnd(Prefix(Visible)) >= 0
                             /\ ExpectedTotal(Prefix(Visible)) = expected_total
         /\ Len(Prefix(Visible)) = Visible /\ total <= Visible /\ Visible \in Nat
         /\ total = Len(wire) \/ total = BufferSize - 1 => total = Visible /\ buffer = Prefix(Visible)
<1>1. /\ total \in Nat /\ Len(wire) \in Nat /\ BufferSize \in Nat /\ total <= BufferSize - 1
      /\ total <= Len(wire) /\ wire \in Seq(Units)
  BY SizesAssumption DEF ReadInv, TypeOK
<1>2. Visible \in 0 .. Len(wire) /\ Visible \in total .. Len(wire) /\ total \in 0 .. Len(wire)
  BY <1>1 DEF Visible
<1>3. Len(Prefix(Visible)) = Visible
  BY <1>1, <1>2, PrefixIs
<1>4. headers_ready => /\ HeaderEnd(Prefix(Visible)) >= 0
                       /\ ExpectedTotal(Prefix(Visible)) = expected_total
  <2> SUFFICES ASSUME headers_ready PROVE /\ HeaderEnd(Prefix(Visible)) >= 0
                                          /\ ExpectedTotal(Prefix(Visible)) = expected_total
    OBVIOUS
  <2>1. HeaderEnd(Prefix(total)) >= 0 /\ expected_total = ExpectedTotal(Prefix(total))
    BY DEF ReadInv, buffer, Prefix
  <2> HIDE DEF Visible
  <2>2. HeaderEnd(Prefix(Visible)) = HeaderEnd(Prefix(total))
    BY <1>1, <1>2, <2>1, HeaderEndStays
  <2>3. ExpectedTotal(Prefix(Visible)) = ExpectedTotal(Prefix(total))
    BY <1>1, <1>2, <2>1, ExpectedTotalStays
  <2> QED BY <2>1, <2>2, <2>3
<1>5. total = Len(wire) \/ total = BufferSize - 1 => total = Visible
  BY <1>1 DEF Visible
<1> QED BY <1>1, <1>2, <1>3, <1>4, <1>5 DEF buffer, Prefix

LEMMA VerdictForm ==
  ReadVerdict = IF HeaderEnd(Prefix(Visible)) < 0 THEN "incomplete headers"
                ELSE IF TooLong(ExpectedTotal(Prefix(Visible))) THEN "too long"
                ELSE IF Len(Prefix(Visible)) < ExpectedTotal(Prefix(Visible)) THEN "incomplete body"
                ELSE "complete"
BY DEF ReadVerdict, Prefix, Visible

(* The four verdicts, from what the loop knows when it ends. *)
LEMMA Verdicts ==
  ASSUME ReadInv
  PROVE  LET all == total = Len(wire) \/ total = BufferSize - 1
         IN  /\ headers_ready /\ TooLong(expected_total) => ReadVerdict = "too long"
             /\ headers_ready /\ ~TooLong(expected_total) /\ total >= expected_total
                  => ReadVerdict = "complete"
             /\ headers_ready /\ ~TooLong(expected_total) /\ total < expected_total /\ all
                  => ReadVerdict = "incomplete body"
             /\ ~headers_ready /\ all => ReadVerdict = "incomplete headers"
<1> DEFINE h == HeaderEnd(Prefix(Visible))
           x == ExpectedTotal(Prefix(Visible))
<1>1. ReadVerdict = IF h < 0 THEN "incomplete headers"
                    ELSE IF TooLong(x) THEN "too long"
                    ELSE IF Visible < x THEN "incomplete body" ELSE "complete"
  BY VerdictForm, VerdictOf
<1>2. /\ headers_ready => h >= 0 /\ x = expected_total
      /\ total <= Visible
      /\ total = Len(wire) \/ total = BufferSize - 1 => total = Visible /\ buffer = Prefix(Visible)
  BY VerdictOf
<1>3. total \in Nat /\ expected_total \in Nat /\ h \in Int /\ Visible \in Nat
  <2>1. wire \in Seq(Units) /\ Visible \in 0 .. Len(wire)
    BY SizesAssumption DEF Visible, ReadInv, TypeOK
  <2>2. Prefix(Visible) \in Seq(Units)
    BY <2>1, PrefixIs
  <2>3. h \in Int
    BY <2>2, HeaderEndIs
  <2>4. total \in Nat /\ expected_total \in Nat
    BY SizesAssumption DEF ReadInv, TypeOK
  <2> QED BY <2>1, <2>3, <2>4
<1>4. ASSUME ~headers_ready, total = Len(wire) \/ total = BufferSize - 1
      PROVE  ReadVerdict = "incomplete headers"
  <2>1. ~(HeaderEnd(buffer) >= 0) /\ buffer = Prefix(Visible)
    BY <1>2, <1>4 DEF ReadInv
  <2>2. h < 0
    BY <1>3, <2>1
  <2> QED BY <1>1, <2>2
<1> HIDE DEF h, x
<1>5. ASSUME headers_ready
      PROVE  ReadVerdict = IF TooLong(expected_total) THEN "too long"
                           ELSE IF Visible < expected_total THEN "incomplete body" ELSE "complete"
  <2>1. h >= 0 /\ x = expected_total
    BY <1>2, <1>5
  <2>2. ~(h < 0)
    BY <1>3, <2>1
  <2> QED BY <1>1, <2>1, <2>2
<1>6. total >= expected_total => ~(Visible < expected_total)
  BY <1>2, <1>3
<1>7. (total = Len(wire) \/ total = BufferSize - 1) /\ total < expected_total
        => Visible < expected_total
  BY <1>2
<1> QED BY <1>4, <1>5, <1>6, <1>7, Zenon

LEMMA RefusedTooLong ==
  ReadInv => (headers_ready /\ TooLong(expected_total) => ReadVerdict = "too long")
BY Verdicts

(* Why a request was refused. *)
WhyInv == why \in {"incomplete headers", "incomplete body", "too long"} => why = ReadVerdict

LEMMA NextWhyInv ==
  ASSUME ReadInv, WhyInv, [Next]_vars
  PROVE  WhyInv'
<1>0. ReadInv'
  BY NextReadInv
<1>1. wire' = wire => ReadVerdict' = ReadVerdict
  BY DEF ReadVerdict
<1>2. ASSUME NEW n \in 1 .. Len(wire), Recv(n) PROVE WhyInv'
  <2>1. wire' = wire /\ (pc' = "refused" => headers_ready' /\ TooLong(expected_total') /\ why' = "too long")
    BY <1>2, RecvReadInv
  <2>2. CASE pc' # "refused"
    <3>1. why' = why
      BY <1>2, <2>2 DEF Recv, Refuse
    <3> QED BY <1>1, <2>1, <3>1 DEF WhyInv
  <2>3. CASE pc' = "refused"
    <3>1. (headers_ready /\ TooLong(expected_total) => ReadVerdict = "too long")'
      BY <1>0, RefusedTooLong, PTL
    <3> QED BY <2>1, <2>3, <3>1 DEF WhyInv
  <2> QED BY <2>2, <2>3
<1>3. CASE EndOfInput
  <2>1. /\ pc = "reading" /\ (total = Len(wire) \/ total = BufferSize - 1)
        /\ why' = IF headers_ready THEN "incomplete body" ELSE "incomplete headers"
        /\ wire' = wire
    <3>1. total \in Nat /\ BufferSize \in Nat
      BY SizesAssumption DEF ReadInv, TypeOK
    <3>2. Room = 0 => total = BufferSize - 1
      BY <3>1 DEF Room
    <3> QED BY <1>3, <3>2, Zenon DEF EndOfInput, Refuse
  <2>2. headers_ready => ~TooLong(expected_total) /\ total < expected_total
    BY <2>1 DEF ReadInv
  <2>3. ReadVerdict = IF headers_ready THEN "incomplete body" ELSE "incomplete headers"
    BY <2>1, <2>2, Verdicts
  <2> QED BY <1>1, <2>1, <2>3 DEF WhyInv
<1>4. CASE RecvError \/ Parse \/ UNCHANGED vars
  <2>1. wire' = wire /\ (why' = why \/ why' \in {"socket error", "request line", "no body", "no query"})
    BY <1>4 DEF RecvError, Parse, Refuse, vars
  <2> QED BY <1>1, <2>1 DEF WhyInv
<1> QED BY <1>2, <1>3, <1>4 DEF Next

(* However recv cuts what the client sends into pieces, the loop of        *)
(* http_server_read_request comes to the verdict of all that was sent.     *)
THEOREM SameInAnyPieces == Spec => []PiecesDoNotMatter
<1>1. Init => WhyInv
  BY DEF Init, WhyInv
<1>2. ReadInv /\ WhyInv /\ [Next]_vars => WhyInv'
  BY NextWhyInv
<1>3. ReadInv /\ WhyInv => PiecesDoNotMatter
  BY Verdicts DEF ReadInv, WhyInv, PiecesDoNotMatter
<1> QED BY <1>1, <1>2, <1>3, ReadInvariance, PTL DEF Spec

(* With at most one Content-Length the first is the last. *)
LEMMA LengthsAgree ==
  ASSUME NEW t \in Seq(Units), Cardinality(LengthPositions(t)) <= 1
  PROVE  ContentLength(t) = http_server_parse_content_length(t)
<1> DEFINE P == LengthPositions(t)
<1>1. CASE P = {}
  BY <1>1 DEF ContentLength, http_server_parse_content_length
<1>2. CASE P # {}
  <2>1. P \subseteq 1 .. HeaderEnd(t) /\ HeaderEnd(t) \in Int
    BY HeaderEndIs DEF LengthPositions
  <2>2. IsFiniteSet(P)
    BY <2>1, FS_Interval, FS_Subset
  <2> HIDE DEF P
  <2>3. PICK i \in P : TRUE
    BY <1>2
  <2>4. Cardinality(P) \in Nat /\ Cardinality(P \ {i}) = Cardinality(P) - 1
        /\ IsFiniteSet(P \ {i}) /\ Cardinality(P \ {i}) \in Nat
    BY <2>2, <2>3, FS_RemoveElement, FS_CardinalityType
  <2>5. Cardinality(P \ {i}) = 0
    BY <2>4 DEF P
  <2>6. P = {i}
    <3>1. P \ {i} = {}
      BY <2>4, <2>5, FS_EmptySet
    <3> QED BY <2>3, <3>1
  <2>7. i \in Int
    BY <2>1, <2>3
  <2>8. /\ i = CHOOSE x \in P : \A j \in P : x >= j
        /\ i = CHOOSE x \in P : \A j \in P : x <= j
    <3>1. \A x \in P : (\A j \in P : x >= j) <=> x = i
      BY <2>6, <2>7
    <3>2. \A x \in P : (\A j \in P : x <= j) <=> x = i
      BY <2>6, <2>7
    <3> QED BY <2>3, <3>1, <3>2
  <2>9. ContentLength(t) = strtoul(t[CHOOSE x \in P : \A j \in P : x >= j].value)
    BY <1>2 DEF ContentLength, P
  <2>10. http_server_parse_content_length(t)
           = strtoul(t[CHOOSE x \in P : \A j \in P : x <= j].value)
    BY <1>2 DEF http_server_parse_content_length, P
  <2> QED BY <2>8, <2>9, <2>10
<1> QED BY <1>1, <1>2

(* The two readings of Content-Length, by http_server_read_request and by  *)
(* api_parse_http_request, agree: the body that is parsed has arrived.     *)
THEOREM BodyIsThere == Spec => []BodyReceived
<1>1. ReadInv => BodyReceived
  <2> SUFFICES ASSUME ReadInv, pc = "parsing", Cardinality(LengthPositions(buffer)) <= 1,
                      HeaderEnd(buffer) + 4 + ContentLength(buffer) <= SizeMax
               PROVE  HeaderEnd(buffer) + 4 + ContentLength(buffer) <= total
    BY DEF BodyReceived
  <2>1. buffer \in Seq(Units)
    <3>1. wire \in Seq(Units) /\ total \in 0 .. Len(wire) /\ buffer = Prefix(total)
      BY SizesAssumption DEF ReadInv, TypeOK, buffer, Prefix
    <3> QED BY <3>1, PrefixIs
  <2>2. /\ HeaderEnd(buffer) >= 0 /\ expected_total = ExpectedTotal(buffer)
        /\ total >= expected_total
    BY DEF ReadInv
  <2>3. ContentLength(buffer) = http_server_parse_content_length(buffer)
    BY <2>1, LengthsAgree
  <2>4. HeaderEnd(buffer) \in Nat /\ ContentLength(buffer) \in Nat
    BY <2>1, <2>2, <2>3, HeaderEndIs, ContentLengthType
  <2>5. ExpectedTotal(buffer) = (HeaderEnd(buffer) + 4 + ContentLength(buffer)) % (SizeMax + 1)
    BY <2>3 DEF ExpectedTotal
  <2>6. ExpectedTotal(buffer) = HeaderEnd(buffer) + 4 + ContentLength(buffer)
    <3>1. \A n \in Nat : n <= SizeMax => n % (SizeMax + 1) = n
      BY SizesAssumption
    <3>2. HeaderEnd(buffer) + 4 + ContentLength(buffer) \in Nat
      BY <2>4
    <3> QED BY <2>5, <3>1, <3>2
  <2> QED BY <2>2, <2>6
<1> QED BY <1>1, ReadInvariance, PTL

-----------------------------------------------------------------------------
(* A string literal, read back from its end.                               *)

Literals == [ok : BOOLEAN, next : Nat, text : Seq(Units)]

With(r, c) == [r EXCEPT !.text = <<c>> \o @]

(* What is read at position i, if one and two are read at the next two. *)
Decoded(text, i, one, two) ==
  IF i > Len(text) THEN NotAString
  ELSE IF text[i] = Ch("quote") THEN [ok |-> TRUE, next |-> i + 1, text |-> <<>>]
  ELSE IF text[i] # Ch("backslash") THEN With(one, text[i])
  ELSE IF i < Len(text) /\ text[i + 1].text \in DOMAIN Unescaped
         THEN With(two, Ch(Unescaped[text[i + 1].text]))
  ELSE NotAString

Decodes(d, text, k) ==
  d = [i \in k .. Len(text) + 2 |-> Decoded(text, i, d[i + 1], d[i + 2])]

LEMMA DecodeExists ==
  ASSUME NEW text, Len(text) \in Nat
  PROVE  \E d : Decodes(d, text, 1)
<1>1. PICK n \in Nat : n = Len(text)
  OBVIOUS
<1> DEFINE T == {m \in 0 .. n : ~\E d : Decodes(d, text, n + 1 - m)}
<1>2. \A d, k : Decodes(d, text, k) <=> d = [i \in k .. n + 2 |-> Decoded(text, i, d[i + 1], d[i + 2])]
  BY <1>1, Zenon DEF Decodes
<1>3. \A i, x, y : i > n => Decoded(text, i, x, y) = NotAString
  BY <1>1 DEF Decoded
<1>4. T = {}
  <2> SUFFICES ASSUME T # {} PROVE FALSE
    OBVIOUS
  <2>1. T \subseteq Nat
    OBVIOUS
  <2> HIDE DEF T
  <2>2. PICK m \in T : \A y \in T : m <= y
    BY <2>1, LeastNumber
  <2>3. m \in 0 .. n /\ ~\E d : Decodes(d, text, n + 1 - m)
    BY <2>2 DEF T
  <2>4. PICK k \in Nat : k = n + 1 - m
    BY <2>3
  <2>5. CASE m = 0
    <3>1. PICK d : d = [i \in k .. n + 2 |-> NotAString]
      OBVIOUS
    <3>2. \A i \in k .. n + 2 : d[i] = Decoded(text, i, d[i + 1], d[i + 2])
      <4>1. \A i \in k .. n + 2 : i > n
        BY <2>4, <2>5, <1>1
      <4> QED BY <3>1, <4>1, <1>3
    <3>3. d = [i \in k .. n + 2 |-> Decoded(text, i, d[i + 1], d[i + 2])]
      BY <3>1, <3>2
    <3> QED BY <1>2, <2>3, <2>4, <3>3
  <2>6. CASE m # 0
    <3>1. PICK j \in Nat : m = j + 1 /\ j \in 0 .. n /\ ~(m <= j) /\ n + 1 - j = k + 1
      <4>1. m - 1 \in Nat /\ m = (m - 1) + 1 /\ m - 1 \in 0 .. n /\ ~(m <= m - 1) /\ n + 1 - (m - 1) = k + 1
        BY <2>3, <2>4, <2>6, <1>1
      <4> QED BY <4>1
    <3>2. j \notin T
      BY <2>2, <3>1
    <3>3. PICK d : Decodes(d, text, k + 1)
      BY <3>1, <3>2 DEF T
    <3>4. \A i \in k + 1 .. n + 2 : d[i] = Decoded(text, i, d[i + 1], d[i + 2])
      <4>1. d = [i \in k + 1 .. n + 2 |-> Decoded(text, i, d[i + 1], d[i + 2])]
        BY <1>2, <3>3
      <4> QED BY <4>1
    <3>5. PICK g : g = [i \in k .. n + 2 |-> IF i = k THEN Decoded(text, k, d[k + 1], d[k + 2]) ELSE d[i]]
      OBVIOUS
    <3>6. ASSUME NEW i \in k .. n + 2 PROVE g[i] = Decoded(text, i, g[i + 1], g[i + 2])
      <4>1. CASE i > n
        <5>1. g[i] = d[i] /\ d[i] = NotAString
          <6>1. i # k /\ i \in k + 1 .. n + 2
            BY <2>3, <2>4, <2>6, <4>1, <1>1
          <6>2. d[i] = Decoded(text, i, d[i + 1], d[i + 2])
            BY <3>4, <6>1
          <6> QED BY <3>5, <6>1, <6>2, <4>1, <1>3
        <5> QED BY <5>1, <4>1, <1>3
      <4>2. CASE ~(i > n)
        <5>1. i + 1 \in k .. n + 2 /\ i + 2 \in k .. n + 2 /\ i + 1 # k /\ i + 2 # k
          BY <4>2, <1>1
        <5>2. g[i + 1] = d[i + 1] /\ g[i + 2] = d[i + 2]
          BY <3>5, <5>1
        <5>3. CASE i = k
          BY <3>5, <5>2, <5>3
        <5>4. CASE i # k
          <6>1. i \in k + 1 .. n + 2
            BY <5>4, <1>1
          <6>2. d[i] = Decoded(text, i, d[i + 1], d[i + 2])
            BY <3>4, <6>1
          <6> QED BY <3>5, <5>2, <5>4, <6>2
        <5> QED BY <5>3, <5>4
      <4> QED BY <4>1, <4>2
    <3>7. g = [i \in k .. n + 2 |-> g[i]]
      BY <3>5
    <3>8. g = [i \in k .. n + 2 |-> Decoded(text, i, g[i + 1], g[i + 2])]
      BY <3>6, <3>7
    <3> QED BY <1>2, <2>3, <2>4, <3>8
  <2> QED BY <2>5, <2>6
<1>5. n \in 0 .. n /\ n + 1 - n = 1
  BY <1>1
<1> QED BY <1>4, <1>5

LEMMA DecodeIs ==
  ASSUME NEW text, Len(text) \in Nat
  PROVE  \A i \in 1 .. Len(text) + 2 :
           DecodeFrom(text)[i] = Decoded(text, i, DecodeFrom(text)[i + 1], DecodeFrom(text)[i + 2])
<1>1. DecodeFrom(text) = CHOOSE d : Decodes(d, text, 1)
  BY Zenon DEF DecodeFrom, Decodes, Decoded, With
<1>2. Decodes(DecodeFrom(text), text, 1)
  BY <1>1, DecodeExists
<1>3. PICK d : d = DecodeFrom(text)
  OBVIOUS
<1>4. d = [i \in 1 .. Len(text) + 2 |-> Decoded(text, i, d[i + 1], d[i + 2])]
  BY <1>2, <1>3, Zenon DEF Decodes
<1>5. \A i \in 1 .. Len(text) + 2 : d[i] = Decoded(text, i, d[i + 1], d[i + 2])
  BY <1>4
<1> QED BY <1>3, <1>5

(* A literal that ends, ends behind its start and inside the text. *)
Literal(r, i, n) == r \in Literals /\ (r.ok => r.next > i /\ r.next <= n + 1)

LEMMA WithIs ==
  ASSUME NEW r \in Literals, NEW c \in Units
  PROVE  With(r, c) = [ok |-> r.ok, next |-> r.next, text |-> <<c>> \o r.text]
         /\ <<c>> \o r.text \in Seq(Units)
<1>1. r = [ok |-> r.ok, next |-> r.next, text |-> r.text] /\ r.text \in Seq(Units)
  BY DEF Literals
<1>2. <<c>> \in Seq(Units)
  OBVIOUS
<1>3. <<c>> \o r.text \in Seq(Units)
  BY <1>1, <1>2
<1>4. PICK s : s = <<c>> \o r.text
  OBVIOUS
<1>5. With(r, c) = [r EXCEPT !.text = s]
  BY <1>4 DEF With
<1>6. [r EXCEPT !.text = s] = [ok |-> r.ok, next |-> r.next, text |-> s]
  BY <1>1
<1> QED BY <1>3, <1>4, <1>5, <1>6

LEMMA WithType ==
  ASSUME NEW r, NEW c \in Units, NEW i \in Nat, NEW j \in Nat, i <= j, NEW n, Literal(r, j, n)
  PROVE  Literal(With(r, c), i, n)
<1>1. r \in Literals /\ r.ok \in BOOLEAN /\ r.next \in Nat
  BY DEF Literal, Literals
<1>2. With(r, c) = [ok |-> r.ok, next |-> r.next, text |-> <<c>> \o r.text]
      /\ <<c>> \o r.text \in Seq(Units)
  BY <1>1, WithIs
<1>3. With(r, c) \in Literals
  BY <1>1, <1>2 DEF Literals
<1>4. r.ok => r.next > i
  BY <1>1 DEF Literal
<1> QED BY <1>2, <1>3, <1>4 DEF Literal

LEMMA EmptyLiteral == \A i, n : Literal(NotAString, i, n)
<1>1. <<>> \in Seq(Units)
  OBVIOUS
<1> QED BY <1>1 DEF NotAString, Literal, Literals

(* The characters a backslash makes of those behind it. *)
LEMMA UnescapedAre ==
  /\ \A x \in DOMAIN Unescaped : Ch(Unescaped[x]) \in Units
  /\ "n" \in DOMAIN Unescaped /\ Unescaped["n"] = "lf"
  /\ "r" \in DOMAIN Unescaped /\ Unescaped["r"] = "cr"
  /\ "t" \in DOMAIN Unescaped /\ Unescaped["t"] = "tab"
  /\ "quote" \in DOMAIN Unescaped /\ Unescaped["quote"] = "quote"
  /\ "backslash" \in DOMAIN Unescaped /\ Unescaped["backslash"] = "backslash"
<1>1. DOMAIN Unescaped = {"quote", "backslash", "slash", "n", "r", "t"}
  BY DEF Unescaped
<1>2. /\ Unescaped["n"] = "lf" /\ Unescaped["r"] = "cr" /\ Unescaped["t"] = "tab"
      /\ Unescaped["quote"] = "quote" /\ Unescaped["backslash"] = "backslash"
      /\ Unescaped["slash"] = "slash"
  BY DEF Unescaped
<1>3. \A x \in DOMAIN Unescaped : Unescaped[x] \in Names
  BY <1>1, <1>2 DEF Names
<1> QED BY <1>1, <1>2, <1>3, CharacterTypes

LEMMA DecodeType ==
  ASSUME NEW text \in Seq(Units)
  PROVE  \A i \in 1 .. Len(text) + 2 : Literal(DecodeFrom(text)[i], i, Len(text))
<1>1. PICK n \in Nat : n = Len(text)
  OBVIOUS
<1>2. PICK d : d = DecodeFrom(text)
  OBVIOUS
<1> DEFINE Good(i) == Literal(d[i], i, n)
           T == {m \in 0 .. n + 1 : ~Good(n + 2 - m)}
<1>3. \A i \in 1 .. n + 2 : d[i] = Decoded(text, i, d[i + 1], d[i + 2])
  BY <1>1, <1>2, DecodeIs
<1>4. ASSUME NEW i \in 1 .. n + 2, i > n PROVE Good(i)
  <2>1. d[i] = NotAString
    BY <1>1, <1>3, <1>4 DEF Decoded
  <2> QED BY <2>1, EmptyLiteral
<1>5. ASSUME NEW i \in 1 .. n, Good(i + 1), Good(i + 2) PROVE Good(i)
  <2>1. i \in 1 .. n + 2 /\ ~(i > n) /\ i \in Nat /\ i + 1 \in Nat /\ i + 2 \in Nat /\ i <= i + 1 /\ i <= i + 2
    BY <1>1
  <2>2. d[i] = Decoded(text, i, d[i + 1], d[i + 2])
    BY <1>3, <2>1
  <2>3. text[i] \in Units
    BY <1>1, <2>1
  <2>4. CASE text[i] = Ch("quote")
    <3>1. d[i] = [ok |-> TRUE, next |-> i + 1, text |-> <<>>]
      BY <1>1, <2>1, <2>2, <2>4 DEF Decoded
    <3>2. <<>> \in Seq(Units)
      OBVIOUS
    <3> QED BY <1>1, <2>1, <3>1, <3>2 DEF Literal, Literals
  <2>5. CASE text[i] # Ch("quote") /\ text[i] # Ch("backslash")
    <3>1. d[i] = With(d[i + 1], text[i])
      BY <1>1, <2>1, <2>2, <2>5 DEF Decoded
    <3> QED BY <1>5, <2>1, <2>3, <3>1, WithType
  <2>6. CASE text[i] # Ch("quote") /\ text[i] = Ch("backslash")
    <3>1. CASE i < n /\ text[i + 1].text \in DOMAIN Unescaped
      <4>1. PICK c : c = Ch(Unescaped[text[i + 1].text])
        OBVIOUS
      <4>2. d[i] = With(d[i + 2], c)
        BY <1>1, <2>1, <2>2, <2>6, <3>1, <4>1 DEF Decoded
      <4>3. c \in Units
        BY <3>1, <4>1, UnescapedAre
      <4> QED BY <1>5, <2>1, <4>2, <4>3, WithType
    <3>2. CASE ~(i < n /\ text[i + 1].text \in DOMAIN Unescaped)
      <4>1. d[i] = NotAString
        BY <1>1, <2>1, <2>2, <2>6, <3>2 DEF Decoded
      <4> QED BY <4>1, EmptyLiteral
    <3> QED BY <3>1, <3>2
  <2> QED BY <2>4, <2>5, <2>6
<1> HIDE DEF Good
<1>6. T = {}
  <2> SUFFICES ASSUME T # {} PROVE FALSE
    OBVIOUS
  <2>1. T \subseteq Nat
    OBVIOUS
  <2> HIDE DEF T
  <2>2. PICK m \in T : \A y \in T : m <= y
    BY <2>1, LeastNumber
  <2>3. m \in 0 .. n + 1 /\ ~Good(n + 2 - m)
    BY <2>2 DEF T
  <2>4. PICK i \in 1 .. n + 2 : i = n + 2 - m
    BY <2>3, <1>1
  <2>5. i \in 1 .. n
    <3>1. ~(i > n)
      BY <1>4, <2>3, <2>4
    <3> QED BY <1>1, <3>1
  <2>6. Good(i + 1)
    <3>1. m - 1 \in 0 .. n + 1 /\ ~(m <= m - 1) /\ n + 2 - (m - 1) = i + 1
      BY <2>3, <2>4, <2>5, <1>1
    <3>2. m - 1 \notin T
      BY <2>2, <3>1
    <3> QED BY <3>1, <3>2 DEF T
  <2>7. Good(i + 2)
    <3>1. m - 2 \in 0 .. n + 1 /\ ~(m <= m - 2) /\ n + 2 - (m - 2) = i + 2
      BY <2>3, <2>4, <2>5, <1>1
    <3>2. m - 2 \notin T
      BY <2>2, <3>1
    <3> QED BY <3>1, <3>2 DEF T
  <2>8. Good(i)
    BY <1>5, <2>5, <2>6, <2>7
  <2> QED BY <2>3, <2>4, <2>8
<1>7. ASSUME NEW i \in 1 .. n + 2 PROVE Good(i)
  <2>1. n + 2 - i \in 0 .. n + 1 /\ n + 2 - (n + 2 - i) = i
    BY <1>1
  <2> HIDE DEF T
  <2>2. n + 2 - i \notin T
    BY <1>6
  <2> QED BY <2>1, <2>2 DEF T
<1> QED BY <1>1, <1>2, <1>7 DEF Good

(* A string literal of a JSON text. *)
LEMMA StringType ==
  ASSUME NEW text \in Seq(Units), NEW i \in 1 .. Len(text) + 1, NEW size
  PROVE  Literal(api_parse_json_string(text, i, size), i, Len(text))
<1>1. PICK d : d = IF i <= Len(text) /\ text[i] = Ch("quote") THEN DecodeFrom(text)[i + 1] ELSE NotAString
  OBVIOUS
<1>2. api_parse_json_string(text, i, size) = IF d.ok /\ Len(d.text) < size THEN d ELSE NotAString
  BY <1>1, Zenon DEF api_parse_json_string
<1>3. Literal(d, i, Len(text))
  <2>1. CASE i <= Len(text) /\ text[i] = Ch("quote")
    <3>1. i + 1 \in 1 .. Len(text) + 2
      OBVIOUS
    <3>2. Literal(d, i + 1, Len(text))
      BY <1>1, <2>1, <3>1, DecodeType
    <3>3. \A z \in Nat : z > i + 1 => z > i
      OBVIOUS
    <3> QED BY <3>2, <3>3 DEF Literal, Literals
  <2>2. CASE ~(i <= Len(text) /\ text[i] = Ch("quote"))
    BY <1>1, <2>2, EmptyLiteral
  <2> QED BY <2>1, <2>2
<1> QED BY <1>2, <1>3, EmptyLiteral

-----------------------------------------------------------------------------
(* The members of the JSON object, one behind the other.                   *)

LEMMA SkipToIs ==
  ASSUME NEW text, Len(text) \in Nat, NEW i \in 1 .. Len(text) + 1, NEW cs
  PROVE  SkipTo(text, i, cs) \in i .. Len(text) + 1
<1>1. PICK n \in Nat : n = Len(text)
  OBVIOUS
<1> DEFINE T == {k \in i .. n + 1 : k <= n => text[k] \in cs}
           Stops(k) == /\ \A j \in i .. k - 1 : text[j] \notin cs
                       /\ k <= n => text[k] \in cs
<1>2. T \subseteq Nat /\ n + 1 \in T
  BY <1>1
<1>3. PICK k \in T : \A j \in T : k <= j
  BY <1>2, LeastNumber
<1>4. k \in i .. n + 1
  OBVIOUS
<1>5. ASSUME NEW j \in i .. k - 1 PROVE text[j] \notin cs
  <2>1. j \in i .. n + 1 /\ ~(k <= j)
    BY <1>4, <1>5, <1>1
  <2> QED BY <1>3, <2>1
<1>6. Stops(k)
  BY <1>5
<1>7. SkipTo(text, i, cs) = CHOOSE x \in i .. n + 1 : Stops(x)
  BY <1>1, Zenon DEF SkipTo
<1> HIDE DEF Stops
<1>8. (CHOOSE x \in i .. n + 1 : Stops(x)) \in i .. n + 1
  BY <1>4, <1>6
<1> QED BY <1>1, <1>7, <1>8

LEMMA ValueEndIs ==
  ASSUME NEW text \in Seq(Units), NEW i \in 1 .. Len(text) + 1
  PROVE  ValueEnd(text, i) = 0 \/ ValueEnd(text, i) \in i .. Len(text) + 1
<1>1. CASE i <= Len(text) /\ text[i] = Ch("quote")
  <2>1. PICK r : r = api_parse_json_string(text, i, IgnoredSize)
    OBVIOUS
  <2>2. ValueEnd(text, i) = r.next
    BY <1>1, <2>1 DEF ValueEnd
  <2>3. Literal(r, i, Len(text))
    BY <2>1, StringType
  <2>4. r = NotAString \/ r.ok
    BY <2>1 DEF api_parse_json_string
  <2>5. NotAString.next = 0
    BY DEF NotAString
  <2>6. r.ok => r.next \in i .. Len(text) + 1
    BY <2>3 DEF Literal, Literals
  <2> QED BY <2>2, <2>4, <2>5, <2>6
<1>2. CASE ~(i <= Len(text) /\ text[i] = Ch("quote"))
  <2>1. ValueEnd(text, i) = SkipTo(text, i, {Ch("comma"), Ch("close")})
    BY <1>2 DEF ValueEnd
  <2> QED BY <2>1, SkipToIs
<1> QED BY <1>1, <1>2

(* f goes from member to member along next, and ends with what base says. *)
Chases(f, next, base, k, n) == f = [i \in k .. n |-> IF next[i] = 0 THEN base[i] ELSE f[next[i]]]

LEMMA ChaseExists ==
  ASSUME NEW n \in Nat, NEW next, NEW base,
         \A i \in 1 .. n : next[i] = 0 \/ next[i] \in i + 1 .. n
  PROVE  \E f : Chases(f, next, base, 1, n)
<1> DEFINE T == {m \in 0 .. n : ~\E f : Chases(f, next, base, n + 1 - m, n)}
<1>4. T = {}
  <2> SUFFICES ASSUME T # {} PROVE FALSE
    OBVIOUS
  <2>1. T \subseteq Nat
    OBVIOUS
  <2> HIDE DEF T
  <2>2. PICK m \in T : \A y \in T : m <= y
    BY <2>1, LeastNumber
  <2>3. m \in 0 .. n /\ ~\E f : Chases(f, next, base, n + 1 - m, n)
    BY <2>2 DEF T
  <2>4. PICK k \in Nat : k = n + 1 - m
    BY <2>3
  <2>5. CASE m = 0
    <3>1. PICK f : f = [i \in k .. n |-> 0]
      OBVIOUS
    <3>2. k .. n = {}
      BY <2>4, <2>5
    <3>3. f = [i \in k .. n |-> IF next[i] = 0 THEN base[i] ELSE f[next[i]]]
      BY <3>1, <3>2
    <3> QED BY <2>3, <2>4, <3>3 DEF Chases
  <2>6. CASE m # 0
    <3>1. PICK j \in Nat : m = j + 1 /\ j \in 0 .. n /\ ~(m <= j) /\ n + 1 - j = k + 1
      <4>1. m - 1 \in Nat /\ m = (m - 1) + 1 /\ m - 1 \in 0 .. n /\ ~(m <= m - 1) /\ n + 1 - (m - 1) = k + 1
        BY <2>3, <2>4, <2>6
      <4> QED BY <4>1
    <3>2. j \notin T
      BY <2>2, <3>1
    <3>3. PICK f : Chases(f, next, base, k + 1, n)
      BY <3>1, <3>2 DEF T
    <3>4. \A i \in k + 1 .. n : f[i] = IF next[i] = 0 THEN base[i] ELSE f[next[i]]
      <4>1. f = [i \in k + 1 .. n |-> IF next[i] = 0 THEN base[i] ELSE f[next[i]]]
        BY <3>3 DEF Chases
      <4> QED BY <4>1
    <3>5. PICK g : g = [i \in k .. n |-> IF i = k THEN IF next[k] = 0 THEN base[k] ELSE f[next[k]] ELSE f[i]]
      OBVIOUS
    <3>6. ASSUME NEW i \in k .. n PROVE g[i] = IF next[i] = 0 THEN base[i] ELSE g[next[i]]
      <4>1. i \in 1 .. n
        BY <2>3, <2>4
      <4>2. next[i] = 0 \/ next[i] \in i + 1 .. n
        BY <4>1
      <4>3. next[i] # 0 => next[i] \in k .. n /\ next[i] # k
        BY <4>2
      <4>4. next[i] # 0 => g[next[i]] = f[next[i]]
        BY <3>5, <4>3
      <4>5. CASE i = k
        BY <3>5, <4>4, <4>5
      <4>6. CASE i # k
        <5>1. i \in k + 1 .. n
          BY <4>6
        <5> QED BY <3>4, <3>5, <4>4, <4>6, <5>1
      <4> QED BY <4>5, <4>6
    <3>7. g = [i \in k .. n |-> g[i]]
      BY <3>5
    <3>8. g = [i \in k .. n |-> IF next[i] = 0 THEN base[i] ELSE g[next[i]]]
      BY <3>6, <3>7
    <3> QED BY <2>3, <2>4, <3>8 DEF Chases
  <2> QED BY <2>5, <2>6
<1>5. n \in 0 .. n /\ n + 1 - n = 1
  OBVIOUS
<1> QED BY <1>4, <1>5

(* What is found is what base says somewhere. *)
LEMMA ChaseEnds ==
  ASSUME NEW n \in Nat, NEW next, NEW base, NEW f, Chases(f, next, base, 1, n),
         \A i \in 1 .. n : next[i] = 0 \/ next[i] \in i + 1 .. n
  PROVE  \A i \in 1 .. n : \E j \in 1 .. n : next[j] = 0 /\ f[i] = base[j]
<1> DEFINE Good(i) == \E j \in 1 .. n : next[j] = 0 /\ f[i] = base[j]
           T == {m \in 0 .. n - 1 : ~Good(n - m)}
<1>1. \A i \in 1 .. n : f[i] = IF next[i] = 0 THEN base[i] ELSE f[next[i]]
  <2>1. f = [i \in 1 .. n |-> IF next[i] = 0 THEN base[i] ELSE f[next[i]]]
    BY DEF Chases
  <2> QED BY <2>1
<1>2. T = {}
  <2> SUFFICES ASSUME T # {} PROVE FALSE
    OBVIOUS
  <2>1. T \subseteq Nat
    OBVIOUS
  <2> HIDE DEF T, Good
  <2>2. PICK m \in T : \A y \in T : m <= y
    BY <2>1, LeastNumber
  <2>3. m \in 0 .. n - 1 /\ ~Good(n - m)
    BY <2>2 DEF T
  <2>4. PICK i \in 1 .. n : i = n - m
    BY <2>3
  <2>5. CASE next[i] = 0
    <3>1. f[i] = base[i]
      BY <1>1, <2>5
    <3> QED BY <2>3, <2>4, <2>5, <3>1 DEF Good
  <2>6. CASE next[i] # 0
    <3>1. PICK k \in 1 .. n : k = next[i] /\ k > i
      <4>1. next[i] \in i + 1 .. n
        BY <2>6
      <4> QED BY <4>1
    <3>2. n - k \in 0 .. n - 1 /\ ~(m <= n - k) /\ n - (n - k) = k
      BY <2>3, <2>4, <3>1
    <3>3. Good(k)
      <4>1. n - k \notin T
        BY <2>2, <3>2
      <4> QED BY <3>2, <4>1 DEF T
    <3>4. f[i] = f[k]
      BY <1>1, <2>6, <3>1
    <3> QED BY <2>3, <2>4, <3>3, <3>4 DEF Good
  <2> QED BY <2>5, <2>6
<1>3. ASSUME NEW i \in 1 .. n PROVE Good(i)
  <2>1. n - i \in 0 .. n - 1 /\ n - (n - i) = i
    OBVIOUS
  <2> HIDE DEF T, Good
  <2>2. n - i \notin T
    BY <1>2
  <2> QED BY <2>1, <2>2 DEF T
<1> QED BY <1>3

KeyAt(text, i) == api_parse_json_string(text, i, KeySize)
NoMember(text, i) ==
  i > Len(text) \/ ~KeyAt(text, i).ok \/ KeyAt(text, i).next > Len(text) \/ text[KeyAt(text, i).next] # Ch("colon")
IsQuery(text, i) == KeyAt(text, i).text = <<Ch("query")>>
AfterAt(text, i) == ValueEnd(text, KeyAt(text, i).next + 1)

(* Where the next member is looked for, or 0, and what is found here. *)
NextMember(text, i) ==
  IF NoMember(text, i) \/ IsQuery(text, i) \/ AfterAt(text, i) = 0 THEN 0
  ELSE IF AfterAt(text, i) <= Len(text) /\ text[AfterAt(text, i)] = Ch("comma") THEN AfterAt(text, i) + 1
  ELSE AfterAt(text, i)
FoundHere(text, i) ==
  IF ~NoMember(text, i) /\ IsQuery(text, i) THEN api_parse_json_string(text, KeyAt(text, i).next + 1, QuerySize)
                                            ELSE NotAString

LEMMA NextMemberIs ==
  ASSUME NEW text \in Seq(Units), NEW i \in 1 .. Len(text) + 1
  PROVE  /\ NextMember(text, i) = 0 \/ NextMember(text, i) \in i + 1 .. Len(text) + 1
         /\ FoundHere(text, i) \in Literals
<1>1. PICK key : key = KeyAt(text, i)
  OBVIOUS
<1>2. Literal(key, i, Len(text))
  BY <1>1, StringType DEF KeyAt
<1>3. key \in Literals /\ key.next \in Nat
  BY <1>2 DEF Literal, Literals
<1>4. CASE NoMember(text, i)
  <2>1. NextMember(text, i) = 0 /\ FoundHere(text, i) = NotAString
    BY <1>4 DEF NextMember, FoundHere
  <2>2. NotAString \in Literals
    BY EmptyLiteral DEF Literal
  <2> QED BY <2>1, <2>2
<1>5. CASE ~NoMember(text, i)
  <2>1. key.next + 1 \in i + 2 .. Len(text) + 1 /\ key.next + 1 \in 1 .. Len(text) + 1
    BY <1>1, <1>2, <1>3, <1>5 DEF NoMember, Literal
  <2>2. PICK j \in 1 .. Len(text) + 1 : j = key.next + 1 /\ j >= i + 2
    BY <2>1
  <2>3. FoundHere(text, i) \in Literals
    <3>1. api_parse_json_string(text, j, QuerySize) \in Literals
      BY StringType DEF Literal
    <3>2. NotAString \in Literals
      BY EmptyLiteral DEF Literal
    <3> QED BY <1>1, <2>2, <3>1, <3>2 DEF FoundHere
  <2>4. ValueEnd(text, j) = 0 \/ ValueEnd(text, j) \in j .. Len(text) + 1
    BY ValueEndIs
  <2>5. PICK v : v = ValueEnd(text, j) /\ v = AfterAt(text, i)
    BY <1>1, <2>2 DEF AfterAt
  <2>6. CASE v = 0
    BY <2>3, <2>5, <2>6 DEF NextMember
  <2>7. CASE v # 0
    <3>1. v \in j .. Len(text) + 1
      BY <2>4, <2>5, <2>7
    <3>2. NextMember(text, i) \in {0, v} \/ (NextMember(text, i) = v + 1 /\ v <= Len(text))
      BY <2>5 DEF NextMember
    <3> QED BY <2>2, <2>3, <3>1, <3>2
  <2> QED BY <2>6, <2>7
<1> QED BY <1>4, <1>5

(* The search for the query goes from member to member. *)
Follows(m, text) ==
  \A i \in 1 .. Len(text) + 1 :
    m[i] = IF NextMember(text, i) = 0 THEN FoundHere(text, i) ELSE m[NextMember(text, i)]

LEMMA ExtractIs ==
  ASSUME NEW text \in Seq(Units)
  PROVE  \E m : /\ \A i \in 1 .. Len(text) + 1 : m[i] \in Literals
                /\ Follows(m, text)
                /\ api_extract_query_string(text)
                     = IF text # <<>> /\ text[1] = Ch("open") THEN m[2] ELSE NotAString
<1>1. PICK n \in Nat : n = Len(text)
  OBVIOUS
<1>2. PICK next : next = [i \in 1 .. n + 1 |-> NextMember(text, i)]
  OBVIOUS
<1>3. PICK base : base = [i \in 1 .. n + 1 |-> FoundHere(text, i)]
  OBVIOUS
<1> DEFINE Body1(f, i) == IF next[i] = 0 THEN base[i] ELSE f[next[i]]
           Body2(f, i) ==
             LET key   == api_parse_json_string(text, i, KeySize)
                 after == ValueEnd(text, key.next + 1)
             IN  IF i > Len(text) \/ ~key.ok THEN NotAString
                 ELSE IF key.next > Len(text) \/ text[key.next] # Ch("colon") THEN NotAString
                 ELSE IF key.text = <<Ch("query")>>
                        THEN api_parse_json_string(text, key.next + 1, QuerySize)
                 ELSE IF after = 0 THEN NotAString
                 ELSE IF after <= Len(text) /\ text[after] = Ch("comma") THEN f[after + 1]
                 ELSE f[after]
           Good(f) == f = [i \in 1 .. Len(text) + 1 |-> Body2(f, i)]
<1>4. ASSUME NEW i \in 1 .. n + 1
      PROVE  /\ next[i] = 0 \/ next[i] \in i + 1 .. n + 1
             /\ base[i] \in Literals
  BY <1>1, <1>2, <1>3, NextMemberIs
<1>5. ASSUME NEW f, NEW i \in 1 .. n + 1 PROVE Body1(f, i) = Body2(f, i)
  <2>1. next[i] = NextMember(text, i) /\ base[i] = FoundHere(text, i)
    BY <1>2, <1>3
  <2>2. PICK key : key = KeyAt(text, i) /\ key = api_parse_json_string(text, i, KeySize)
    BY DEF KeyAt
  <2>3. PICK after : after = AfterAt(text, i) /\ after = ValueEnd(text, key.next + 1)
    BY <2>2 DEF AfterAt
  <2>4. NoMember(text, i) <=> i > n \/ ~key.ok \/ key.next > n \/ text[key.next] # Ch("colon")
    BY <1>1, <2>2 DEF NoMember
  <2>5. IsQuery(text, i) <=> key.text = <<Ch("query")>>
    BY <2>2 DEF IsQuery
  <2>6. FoundHere(text, i) = IF ~NoMember(text, i) /\ IsQuery(text, i)
                               THEN api_parse_json_string(text, key.next + 1, QuerySize) ELSE NotAString
    BY <2>2 DEF FoundHere
  <2>7. NextMember(text, i) = IF NoMember(text, i) \/ IsQuery(text, i) \/ after = 0 THEN 0
                              ELSE IF after <= n /\ text[after] = Ch("comma") THEN after + 1 ELSE after
    BY <1>1, <2>3 DEF NextMember
  <2>8. Body2(f, i) = IF NoMember(text, i) THEN NotAString
                      ELSE IF IsQuery(text, i) THEN api_parse_json_string(text, key.next + 1, QuerySize)
                      ELSE IF after = 0 THEN NotAString
                      ELSE IF after <= n /\ text[after] = Ch("comma") THEN f[after + 1] ELSE f[after]
    BY <1>1, <2>2, <2>3, <2>4, <2>5
  <2> HIDE DEF Body2
  <2>9. CASE NoMember(text, i)
    BY <2>1, <2>6, <2>7, <2>8, <2>9
  <2>10. CASE ~NoMember(text, i) /\ IsQuery(text, i)
    BY <2>1, <2>6, <2>7, <2>8, <2>10
  <2>11. CASE ~NoMember(text, i) /\ ~IsQuery(text, i) /\ after = 0
    BY <2>1, <2>6, <2>7, <2>8, <2>11
  <2>12. CASE ~NoMember(text, i) /\ ~IsQuery(text, i) /\ after # 0
    <3>1. next[i] = IF after <= n /\ text[after] = Ch("comma") THEN after + 1 ELSE after
      BY <2>1, <2>7, <2>12
    <3>2. Body2(f, i) = f[next[i]]
      BY <2>8, <2>12, <3>1
    <3>3. after \in Nat
      <4>1. Literal(key, i, Len(text))
        BY <1>1, <2>2, StringType
      <4>2. key.next + 1 \in 1 .. Len(text) + 1
        BY <1>1, <2>4, <2>12, <4>1 DEF Literal, Literals
      <4>3. PICK j \in 1 .. Len(text) + 1 : j = key.next + 1
        BY <4>2
      <4>4. ValueEnd(text, j) \in Nat
        BY ValueEndIs
      <4> QED BY <2>3, <4>3, <4>4
    <3>4. next[i] # 0
      BY <2>12, <3>1, <3>3
    <3> QED BY <3>2, <3>4
  <2> QED BY <2>9, <2>10, <2>11, <2>12
<1>6. PICK m : m = CHOOSE f : Good(f)
  OBVIOUS
<1>7. api_extract_query_string(text) = IF text # <<>> /\ text[1] = Ch("open") THEN m[2] ELSE NotAString
  <2>1. api_extract_query_string(text)
          = IF text # <<>> /\ text[1] = Ch("open") THEN (CHOOSE f : Good(f))[2] ELSE NotAString
    BY DEF api_extract_query_string
  <2> HIDE DEF Good
  <2> QED BY <1>6, <2>1
<1> HIDE DEF Body2
<1>8. \A f : Chases(f, next, base, 1, n + 1) <=> Good(f)
  <2>1. ASSUME NEW f PROVE Chases(f, next, base, 1, n + 1) <=> Good(f)
    <3>1. [i \in 1 .. n + 1 |-> Body1(f, i)] = [i \in 1 .. n + 1 |-> Body2(f, i)]
      BY <1>5
    <3> QED BY <1>1, <3>1 DEF Chases
  <2> QED BY <2>1
<1>9. \E f : Chases(f, next, base, 1, n + 1)
  <2>1. n + 1 \in Nat
    BY <1>1
  <2> QED BY <1>4, <2>1, ChaseExists
<1> HIDE DEF Good
<1>10. Chases(m, next, base, 1, n + 1)
  BY <1>6, <1>8, <1>9
<1>11. \A i \in 1 .. n + 1 : m[i] \in Literals
  <2>1. n + 1 \in Nat
    BY <1>1
  <2>2. \A i \in 1 .. n + 1 : \E j \in 1 .. n + 1 : next[j] = 0 /\ m[i] = base[j]
    BY <1>4, <1>10, <2>1, ChaseEnds
  <2> QED BY <1>4, <2>2
<1>12. Follows(m, text)
  <2>1. m = [i \in 1 .. n + 1 |-> IF next[i] = 0 THEN base[i] ELSE m[next[i]]]
    BY <1>10 DEF Chases
  <2>2. ASSUME NEW i \in 1 .. n + 1
        PROVE  m[i] = IF NextMember(text, i) = 0 THEN FoundHere(text, i) ELSE m[NextMember(text, i)]
    <3>1. m[i] = IF next[i] = 0 THEN base[i] ELSE m[next[i]]
      BY <2>1
    <3>2. next[i] = NextMember(text, i) /\ base[i] = FoundHere(text, i)
      BY <1>2, <1>3
    <3> QED BY <3>1, <3>2
  <2> QED BY <1>1, <2>2 DEF Follows
<1> QED BY <1>1, <1>7, <1>11, <1>12

(* The query of a JSON body is a text. *)
LEMMA ExtractType ==
  ASSUME NEW text \in Seq(Units)
  PROVE  api_extract_query_string(text) \in Literals
<1>1. PICK m : /\ \A i \in 1 .. Len(text) + 1 : m[i] \in Literals
               /\ api_extract_query_string(text)
                    = IF text # <<>> /\ text[1] = Ch("open") THEN m[2] ELSE NotAString
  BY ExtractIs
<1>2. text # <<>> => 2 \in 1 .. Len(text) + 1
  OBVIOUS
<1>3. NotAString \in Literals
  BY EmptyLiteral DEF Literal
<1> QED BY <1>1, <1>2, <1>3

-----------------------------------------------------------------------------
(* A string literal, wherever it stands.                                   *)

(* The units as are a way to write u between quotes. *)
Stands(as, u) ==
  \/ as = <<u>> /\ u # Ch("quote") /\ u # Ch("backslash")
  \/ \E v \in Units : /\ as = <<Ch("backslash"), v>>
                        /\ v.text \in DOMAIN Unescaped
                        /\ u = Ch(Unescaped[v.text])

StandsFor(texts, q, n) ==
  /\ Len(texts) = n
  /\ \A i \in 1 .. n : texts[i] \in Seq(Units) /\ Stands(texts[i], q[i])

LEMMA StandsLong ==
  ASSUME NEW as \in Seq(Units), NEW u, Stands(as, u)
  PROVE  Len(as) >= 1
<1>1. CASE as = <<u>>
  BY <1>1
<1>2. ASSUME NEW v \in Units, as = <<Ch("backslash"), v>> PROVE Len(as) >= 1
  BY <1>2
<1> QED BY <1>1, <1>2 DEF Stands

ReadsAs(d, p, next, u) == d[p + 1] = With(d[next + 1], u)

(* One character is read in front of what is read behind it. *)
LEMMA OneRead ==
  ASSUME NEW text \in Seq(Units), NEW p \in Nat, NEW as \in Seq(Units), NEW u \in Units,
         Stands(as, u), Holds(text, p, as)
  PROVE  ReadsAs(DecodeFrom(text), p, p + Len(as), u)
<1>1. PICK n \in Nat : n = Len(text)
  OBVIOUS
<1>2. PICK d : d = DecodeFrom(text)
  OBVIOUS
<1>3. PICK r : r = d[p + Len(as) + 1]
  OBVIOUS
<1>4. \A i \in 1 .. n + 2 : d[i] = Decoded(text, i, d[i + 1], d[i + 2])
  <2>1. \A i \in 1 .. Len(text) + 2 : d[i] = Decoded(text, i, d[i + 1], d[i + 2])
    BY <1>2, DecodeIs
  <2> QED BY <1>1, <2>1
<1>5. p + Len(as) <= n /\ \A k \in 1 .. Len(as) : text[p + k] = as[k]
  BY <1>1 DEF Holds
<1>6. ASSUME as = <<u>>, u # Ch("quote"), u # Ch("backslash")
      PROVE  d[p + 1] = With(r, u)
  <2>1. Len(as) = 1 /\ as[1] = u
    BY <1>6
  <2>2. p + 1 \in 1 .. n + 2 /\ ~(p + 1 > n)
    BY <1>5, <2>1
  <2>3. text[p + 1] = u
    <3>1. 1 \in 1 .. Len(as)
      BY <2>1
    <3>2. text[p + 1] = as[1]
      BY <1>5, <3>1
    <3> QED BY <2>1, <3>2
  <2>4. d[p + 1] = Decoded(text, p + 1, d[p + 1 + 1], d[p + 1 + 2])
    BY <1>4, <2>2
  <2>5. r = d[p + 1 + 1]
    BY <1>3, <2>1
  <2>6. Decoded(text, p + 1, d[p + 1 + 1], d[p + 1 + 2]) = With(d[p + 1 + 1], text[p + 1])
    BY <1>1, <1>6, <2>2, <2>3 DEF Decoded
  <2> QED BY <2>3, <2>4, <2>5, <2>6
<1>7. ASSUME NEW v \in Units, as = <<Ch("backslash"), v>>,
             v.text \in DOMAIN Unescaped, u = Ch(Unescaped[v.text])
      PROVE  d[p + 1] = With(r, u)
  <2>0. PICK b \in Units : b = Ch("backslash")
    BY NamedUnits
  <2>1. Len(as) = 2 /\ as[1] = b /\ as[2] = v
    BY <1>7, <2>0
  <2>2. p + 1 \in 1 .. n + 2 /\ ~(p + 1 > n) /\ p + 1 < n /\ p + 2 = p + 1 + 1 /\ p + 2 + 1 = p + 1 + 2
    BY <1>5, <2>1
  <2>3. text[p + 1] = b /\ text[p + 1 + 1] = v
    <3>1. 1 \in 1 .. Len(as) /\ 2 \in 1 .. Len(as)
      BY <2>1
    <3>2. text[p + 1] = as[1] /\ text[p + 2] = as[2]
      BY <1>5, <3>1
    <3> QED BY <2>1, <2>2, <3>2
  <2>4. d[p + 1] = Decoded(text, p + 1, d[p + 1 + 1], d[p + 1 + 2])
    BY <1>4, <2>2
  <2>5. r = d[p + 1 + 2]
    BY <1>3, <2>1, <2>2
  <2>6. Ch("backslash") # Ch("quote")
    BY DEF Ch, Unit
  <2> QED BY <1>1, <1>7, <2>0, <2>2, <2>3, <2>4, <2>5, <2>6 DEF Decoded
<1>8. d[p + 1] = With(r, u)
  BY <1>6, <1>7 DEF Stands
<1> QED BY <1>2, <1>3, <1>8 DEF ReadsAs

(* Between quotes a text is read as what it stands for. *)
LEMMA LiteralRead ==
  ASSUME NEW q \in Seq(Units), NEW n \in Nat, n = Len(q), NEW texts,
         StandsFor(texts, q, n),
         NEW lit, Quoted(lit, Joined(texts), Ch("quote")),
         NEW text \in Seq(Units), NEW o \in Nat, Holds(text, o, lit),
         NEW size \in Nat, n < size
  PROVE  /\ api_parse_json_string(text, o + 1, size)
              = [ok |-> TRUE, next |-> o + Len(lit) + 1, text |-> q]
         /\ text[o + 1] = Ch("quote") /\ o + Len(lit) <= Len(text)
<1>1. Len(texts) = n /\ \A i \in 1 .. n : texts[i] \in Seq(Units) /\ Stands(texts[i], q[i])
  BY DEF StandsFor
<1>2. PICK w \in Seq(Units) : w = Joined(texts)
  BY <1>1, JoinedType
<1>3. PICK a \in Nat : a = Len(w)
  OBVIOUS
<1>4. PICK c \in Units : c = Ch("quote")
  BY NamedUnits
<1>5. /\ lit \in Seq(Units) /\ Len(lit) = a + 2 /\ lit[1] = c /\ lit[a + 2] = c
      /\ \A j \in 1 .. a : lit[j + 1] = w[j]
  <2>1. Quoted(lit, w, c)
    BY <1>2, <1>4
  <2> QED BY <1>3, <2>1, QuotedIs
<1>6. PICK z \in Nat : z = Len(text)
  OBVIOUS
<1>7. o + a + 2 <= z /\ \A k \in 1 .. a + 2 : text[o + k] = lit[k]
  BY <1>5, <1>6 DEF Holds
<1>8. text[o + 1] = c /\ text[o + a + 2] = c
  <2>1. 1 \in 1 .. a + 2 /\ a + 2 \in 1 .. a + 2 /\ o + (a + 2) = o + a + 2
    OBVIOUS
  <2>2. text[o + (a + 2)] = lit[a + 2] /\ text[o + 1] = lit[1]
    BY <1>7, <2>1
  <2> QED BY <1>5, <2>1, <2>2
<1>9. Holds(text, o + 1, w)
  <2>1. ASSUME NEW k \in 1 .. a PROVE text[o + 1 + k] = w[k]
    <3>1. k + 1 \in 1 .. a + 2 /\ o + (k + 1) = o + 1 + k
      OBVIOUS
    <3>2. text[o + (k + 1)] = lit[k + 1]
      BY <1>7, <3>1
    <3> QED BY <1>5, <3>1, <3>2
  <2>2. o + 1 + a <= z
    BY <1>7
  <2> QED BY <1>3, <1>6, <2>1, <2>2 DEF Holds
<1>10. PICK at : at[0] = o + 1 /\ at[n] = o + 1 + a /\ Laid(at, text, texts, n)
  <2>1. o + 1 \in Nat /\ \A i \in 1 .. n : texts[i] \in Seq(Units)
    BY <1>1
  <2>2. \E at : at[0] = o + 1 /\ at[n] = o + 1 + Len(w) /\ Laid(at, text, texts, n)
    BY <1>1, <1>2, <1>9, <2>1, HoldsJoined
  <2> QED BY <1>3, <2>2
<1>11. PICK d : d = DecodeFrom(text)
  OBVIOUS
<1>12. PICK e \in Nat : e = o + a + 3
  OBVIOUS
<1> DEFINE Rest(i) == [ok |-> TRUE, next |-> e, text |-> SubSeq(q, i + 1, n)]
           G == {i \in 0 .. n : d[at[i] + 1] = Rest(i)}
<1>13. n \in G
  <2>1. d[o + a + 2] = Decoded(text, o + a + 2, d[o + a + 2 + 1], d[o + a + 2 + 2])
    <3>1. o + a + 2 \in 1 .. Len(text) + 2
      BY <1>6, <1>7
    <3>2. \A i \in 1 .. Len(text) + 2 : d[i] = Decoded(text, i, d[i + 1], d[i + 2])
      BY <1>11, DecodeIs
    <3> QED BY <3>1, <3>2
  <2>2. d[o + a + 2] = [ok |-> TRUE, next |-> o + a + 2 + 1, text |-> <<>>]
    <3>1. ~(o + a + 2 > Len(text))
      BY <1>6, <1>7
    <3> QED BY <1>4, <1>8, <2>1, <3>1 DEF Decoded
  <2>3. SubSeq(q, n + 1, n) = <<>> /\ o + a + 2 + 1 = o + a + 3 /\ o + 1 + a + 1 = o + a + 2
    OBVIOUS
  <2>4. n \in 0 .. n
    OBVIOUS
  <2> QED BY <1>10, <1>12, <2>2, <2>3, <2>4
<1>14. ASSUME NEW i \in 1 .. n, i \in G PROVE i - 1 \in G
  <2>0. PICK r : r = Rest(i) /\ r = d[at[i] + 1]
    BY <1>14
  <2> HIDE DEF G
  <2>1. PICK k \in 0 .. n : k = i - 1 /\ k + 1 = i
    <3>1. i - 1 \in 0 .. n /\ (i - 1) + 1 = i
      OBVIOUS
    <3> QED BY <3>1
  <2>2. r = [ok |-> TRUE, next |-> e, text |-> SubSeq(q, i + 1, n)] /\ r = d[at[i] + 1]
    BY <2>0
  <2> HIDE DEF Rest
  <2>3. PICK u \in Units : u = q[i]
    OBVIOUS
  <2>4. PICK as \in Seq(Units) : as = texts[i] /\ Stands(as, u)
    BY <1>1, <2>3
  <2>5. PICK p \in Nat : p = at[k] /\ at[i] = p + Len(as) /\ Holds(text, p, as)
    BY <1>10, <2>1, <2>4 DEF Laid
  <2>6. d[p + 1] = With(r, u)
    <3>1. r = d[p + Len(as) + 1]
      BY <2>2, <2>5
    <3>2. Stands(as, u) /\ Holds(text, p, as)
      BY <2>4, <2>5
    <3>3. ReadsAs(DecodeFrom(text), p, p + Len(as), u)
      BY <3>2, OneRead
    <3> QED BY <1>11, <3>1, <3>3 DEF ReadsAs
  <2>7. With(r, u) = Rest(k)
    <3>1. /\ SubSeq(q, i + 1, n) \in Seq(Units)
          /\ <<u>> \o SubSeq(q, i + 1, n) = SubSeq(q, i, n)
      BY <2>3, RestIs
    <3>2. r \in Literals /\ r.ok = TRUE /\ r.next = e /\ r.text = SubSeq(q, i + 1, n)
      BY <2>2, <3>1 DEF Literals
    <3>3. With(r, u) = [ok |-> r.ok, next |-> r.next, text |-> <<u>> \o r.text]
      BY <3>2, WithIs
    <3> QED BY <2>1, <3>1, <3>2, <3>3 DEF Rest
  <2> QED BY <2>1, <2>5, <2>6, <2>7 DEF G
<1>15. d[o + 1 + 1] = Rest(0)
  <2> HIDE DEF G
  <2>1. \A i \in 0 .. n : i \in G
    BY <1>13, <1>14, Downward
  <2>2. 0 \in 0 .. n
    OBVIOUS
  <2> QED BY <1>10, <2>1, <2>2 DEF G
<1> HIDE DEF G, Rest
<1>16. Rest(0) = [ok |-> TRUE, next |-> e, text |-> q]
  <2>1. SubSeq(q, 0 + 1, n) = q
    OBVIOUS
  <2> QED BY <2>1 DEF Rest
<1>17. o + 1 <= Len(text) /\ o + Len(lit) <= Len(text) /\ o + Len(lit) + 1 = e
  BY <1>5, <1>6, <1>7, <1>12
<1>18. PICK g : g = [ok |-> TRUE, next |-> e, text |-> q] /\ g = DecodeFrom(text)[o + 1 + 1]
  BY <1>11, <1>15, <1>16
<1>19. g.ok = TRUE /\ g.text = q /\ Len(g.text) < size
  <2>1. g.ok = TRUE /\ g.text = q
    BY <1>18
  <2> QED BY <2>1
<1>20. api_parse_json_string(text, o + 1, size) = g
  BY <1>4, <1>8, <1>17, <1>18, <1>19 DEF api_parse_json_string
<1> QED BY <1>4, <1>8, <1>17, <1>18, <1>20

-----------------------------------------------------------------------------
(* A text as it is written between quotes, and read back.                  *)

(* e[i] is what the first i characters of the text are written as. *)
Escapings(e, text, n) == e = [i \in 0 .. n |-> IF i = 0 THEN <<>> ELSE e[i - 1] \o Escaped(text[i])]

LEMMA EscapeIs ==
  ASSUME NEW text, NEW n \in Nat, n = Len(text), NEW texts, texts = [i \in 1 .. n |-> Escaped(text[i])]
  PROVE  api_escape_json_string_alloc(text) = Joined(texts)
<1>1. Len(texts) = n
  OBVIOUS
<1>2. ASSUME NEW e PROVE Escapings(e, text, n) <=> Joins(e, texts, n)
  <2>1. \A i \in 0 .. n : i # 0 => texts[i] = Escaped(text[i])
    OBVIOUS
  <2>2. [i \in 0 .. n |-> IF i = 0 THEN <<>> ELSE e[i - 1] \o Escaped(text[i])]
          = [i \in 0 .. n |-> IF i = 0 THEN <<>> ELSE e[i - 1] \o texts[i]]
    BY <2>1
  <2> QED BY <2>2 DEF Escapings, Joins
<1>3. PICK e : e = CHOOSE g : Escapings(g, text, n)
  OBVIOUS
<1>4. (CHOOSE g : Escapings(g, text, n)) = (CHOOSE g : Joins(g, texts, n))
  BY <1>2
<1>5. api_escape_json_string_alloc(text) = e[n]
  <2>1. PICK m : m = Len(text)
    OBVIOUS
  <2>2. api_escape_json_string_alloc(text) = (CHOOSE g : Escapings(g, text, m))[m]
    BY <2>1, Zenon DEF api_escape_json_string_alloc, Escapings
  <2>3. m = n
    BY <2>1
  <2> QED BY <1>3, <2>2, <2>3
<1>6. Joined(texts) = (CHOOSE g : Joins(g, texts, Len(texts)))[Len(texts)]
  BY Zenon DEF Joined, Joins
<1> QED BY <1>1, <1>3, <1>4, <1>5, <1>6

(* What one character is written as: itself, or a backslash and a letter   *)
(* that stands for it.                                                     *)

LEMMA EscapedIs ==
  ASSUME NEW u \in Units, u # Ch("control")
  PROVE  Stands(Escaped(u), u) /\ Escaped(u) \in Seq(Units)
<1> DEFINE Good == \/ Escaped(u) = <<u>> /\ u # Ch("quote") /\ u # Ch("backslash")
                  \/ \E v \in Units : /\ Escaped(u) = <<Ch("backslash"), v>>
                                        /\ v.text \in DOMAIN Unescaped
                                        /\ u = Ch(Unescaped[v.text])
<1>1. \A c : Ch(c).text = c
  BY DEF Ch, Unit
<1>2. \A c, d : Ch(c) = Ch(d) => c = d
  BY <1>1
<1>3. ASSUME u \in {Ch("quote"), Ch("backslash")} PROVE Good
  <2>1. Escaped(u) = <<Ch("backslash"), u>>
    <3>1. u # Ch("lf") /\ u # Ch("cr") /\ u # Ch("tab") /\ u # Ch("control")
      BY <1>3, <1>2
    <3> QED BY <1>3, <3>1 DEF Escaped
  <2>2. u.text \in DOMAIN Unescaped /\ u = Ch(Unescaped[u.text])
    BY <1>1, <1>3, UnescapedAre
  <2> QED BY <2>1, <2>2
<1>4. ASSUME u \notin {Ch("quote"), Ch("backslash")} /\ u = Ch("lf") PROVE Good
  <2>1. Escaped(u) = <<Ch("backslash"), Ch("n")>> /\ Ch("n") \in Units
    <3>1. u # Ch("cr") /\ u # Ch("tab") /\ u # Ch("control")
      BY <1>4, <1>2
    <3>2. Escaped(u) = <<Ch("backslash"), Ch("n")>>
      BY <1>4, <3>1 DEF Escaped
    <3> QED BY <3>2, NamedUnits
  <2>2. Ch("n").text \in DOMAIN Unescaped /\ u = Ch(Unescaped[Ch("n").text])
    BY <1>1, <1>4, UnescapedAre
  <2> QED BY <2>1, <2>2
<1>5. ASSUME u \notin {Ch("quote"), Ch("backslash")} /\ u # Ch("lf") /\ u = Ch("cr") PROVE Good
  <2>1. Escaped(u) = <<Ch("backslash"), Ch("r")>> /\ Ch("r") \in Units
    <3>1. u # Ch("tab") /\ u # Ch("control")
      BY <1>5, <1>2
    <3>2. Escaped(u) = <<Ch("backslash"), Ch("r")>>
      BY <1>5, <3>1 DEF Escaped
    <3> QED BY <3>2, NamedUnits
  <2>2. Ch("r").text \in DOMAIN Unescaped /\ u = Ch(Unescaped[Ch("r").text])
    BY <1>1, <1>5, UnescapedAre
  <2> QED BY <2>1, <2>2
<1>6. ASSUME u \notin {Ch("quote"), Ch("backslash")} /\ u # Ch("lf") /\ u # Ch("cr") /\ u = Ch("tab") PROVE Good
  <2>1. Escaped(u) = <<Ch("backslash"), Ch("t")>> /\ Ch("t") \in Units
    BY <1>6, NamedUnits DEF Escaped
  <2>2. Ch("t").text \in DOMAIN Unescaped /\ u = Ch(Unescaped[Ch("t").text])
    BY <1>1, <1>6, UnescapedAre
  <2> QED BY <2>1, <2>2
<1>7. ASSUME u \notin {Ch("quote"), Ch("backslash")} /\ u # Ch("lf") /\ u # Ch("cr") /\ u # Ch("tab") PROVE Good
  <2>1. Escaped(u) = <<u>>
    BY <1>7 DEF Escaped
  <2> QED BY <1>7, <2>1
<1>8. Good
  BY <1>3, <1>4, <1>5, <1>6, <1>7
<1>9. /\ Stands(Escaped(u), u)
      /\ Escaped(u) = <<u>> \/ \E v \in Units : Escaped(u) = <<Ch("backslash"), v>>
  BY <1>8, Zenon DEF Stands
<1>10. PICK b \in Units : b = Ch("backslash")
  BY NamedUnits
<1>11. \A x, y \in Units : <<x>> \in Seq(Units) /\ <<x, y>> \in Seq(Units)
  OBVIOUS
<1> QED BY <1>9, <1>10, <1>11

(* What api_escape_json_string_alloc writes is read as the same text. *)
LEMMA RoundTrip ==
  ASSUME NEW q \in Seq(Units), NEW n \in Nat, n = Len(q),
         \A i \in 1 .. n : q[i] # Ch("control"),
         NEW said, Quoted(said, api_escape_json_string_alloc(q), Ch("quote"))
  PROVE  api_parse_json_string(said, 1, Len(said)) = [ok |-> TRUE, next |-> Len(said) + 1, text |-> q]
<1>1. PICK texts : texts = [i \in 1 .. n |-> Escaped(q[i])]
  OBVIOUS
<1>2. ASSUME NEW i \in 1 .. n
      PROVE  texts[i] \in Seq(Units) /\ Stands(texts[i], q[i]) /\ Len(texts[i]) >= 1
  <2>1. PICK u \in Units : u = q[i] /\ u # Ch("control")
    OBVIOUS
  <2>2. PICK as \in Seq(Units) : as = texts[i] /\ Stands(as, u)
    BY <1>1, <2>1, EscapedIs
  <2> QED BY <2>1, <2>2, StandsLong
<1>3. Len(texts) = n
  BY <1>1
<1>4. StandsFor(texts, q, n)
  BY <1>2, <1>3 DEF StandsFor
<1>5. Joined(texts) \in Seq(Units) /\ Len(Joined(texts)) >= n
  BY <1>2, <1>3, JoinedType, JoinedLong
<1>6. PICK w \in Seq(Units) : w = Joined(texts) /\ w = api_escape_json_string_alloc(q) /\ Len(w) >= n
  BY <1>1, <1>5, EscapeIs
<1>7. PICK a \in Nat : a = Len(w)
  OBVIOUS
<1>8. said \in Seq(Units) /\ Len(said) = a + 2
  <2>1. PICK c \in Units : c = Ch("quote")
    BY NamedUnits
  <2>2. Quoted(said, w, c)
    BY <1>6, <2>1
  <2> QED BY <1>7, <2>2, QuotedIs
<1>9. PICK size \in Nat : size = Len(said) /\ n < size
  BY <1>6, <1>7, <1>8
<1>10. Holds(said, 0, said)
  BY <1>8 DEF Holds
<1>11. api_parse_json_string(said, 0 + 1, size) = [ok |-> TRUE, next |-> 0 + size + 1, text |-> q]
  <2>1. Quoted(said, Joined(texts), Ch("quote"))
    BY <1>6
  <2> QED BY <1>4, <1>8, <1>9, <1>10, <2>1, LiteralRead
<1> QED BY <1>9, <1>11

-----------------------------------------------------------------------------
(* What a client writes, and that api_parse_json_string reads it.          *)

(* A spelling that is allowed stands for its character. *)
LEMMA SpellsStands ==
  ASSUME NEW c \in Spelled, Spells(c)
  PROVE  Stands(c.as, c.says) /\ c.as \in Seq(Units) /\ c.says \in Units
<1>1. c.as \in Seq(Units) /\ c.says \in Units
  BY DEF Spelled
<1>2. ASSUME c.as = <<c.says>>, c.says \notin {Ch("quote"), Ch("backslash")}
      PROVE  Stands(c.as, c.says)
  BY <1>2 DEF Stands
<1>3. ASSUME NEW e \in DOMAIN Escapes, c.as = <<Ch("backslash"), Ch(e)>>, c.says = Ch(Escapes[e])
      PROVE  Stands(c.as, c.says)
  <2>1. Escapes = Unescaped
    BY DEF Escapes, Unescaped
  <2>2. e \in Names
    BY <1>3 DEF Escapes, Names
  <2>3. PICK v \in Units : v = Ch(e) /\ v.text = e
    <3>1. Ch(e) \in Units /\ Ch(e).text = e
      BY <2>2, CharacterTypes DEF Ch, Unit
    <3> QED BY <3>1
  <2>4. c.as = <<Ch("backslash"), v>> /\ v.text \in DOMAIN Unescaped /\ c.says = Ch(Unescaped[v.text])
    BY <1>3, <2>1, <2>3
  <2> QED BY <2>4 DEF Stands
<1>4. Stands(c.as, c.says)
  BY <1>2, <1>3 DEF Spells
<1> QED BY <1>1, <1>4

(* A literal that fits is read as what it says. *)
LEMMA QuoteRead ==
  ASSUME NEW s \in Seq(Spelled), NEW size \in Nat, StringLiteral(s, size),
         NEW text \in Seq(Units), NEW o \in Nat, Holds(text, o, Quote(s))
  PROVE  /\ api_parse_json_string(text, o + 1, size)
              = [ok |-> TRUE, next |-> o + Len(Quote(s)) + 1, text |-> Says(s)]
         /\ text[o + 1] = Ch("quote") /\ o + Len(Quote(s)) <= Len(text)
<1>1. PICK n \in Nat : n = Len(s)
  OBVIOUS
<1>2. PICK q \in Seq(Units) : q = Says(s) /\ Len(q) = n
  BY <1>1, SpelledIs
<1>3. PICK texts : texts = Spellings(s)
  OBVIOUS
<1>4. ASSUME NEW i \in 1 .. n PROVE texts[i] \in Seq(Units) /\ Stands(texts[i], q[i])
  <2>1. s[i] \in Spelled /\ q[i] = s[i].says /\ texts[i] = s[i].as
    BY <1>1, <1>2, <1>3, SpelledIs
  <2>2. Spells(s[i])
    BY <1>1 DEF StringLiteral
  <2> QED BY <2>1, <2>2, SpellsStands
<1>5. Len(texts) = n
  BY <1>1, <1>3, SpelledIs
<1>6. StandsFor(texts, q, n)
  BY <1>4, <1>5 DEF StandsFor
<1>7. PICK lit : lit = Quote(s) /\ Quoted(lit, Joined(texts), Ch("quote"))
  BY <1>3, QuoteIs
<1>8. n < size
  BY <1>1 DEF StringLiteral
<1>9. Holds(text, o, lit)
  BY <1>7
<1>10. /\ api_parse_json_string(text, o + 1, size) = [ok |-> TRUE, next |-> o + Len(lit) + 1, text |-> q]
       /\ text[o + 1] = Ch("quote") /\ o + Len(lit) <= Len(text)
  <2>1. n = Len(q)
    BY <1>2
  <2>2. Quoted(lit, Joined(texts), Ch("quote"))
    BY <1>7
  <2> QED BY <2>1, <1>6, <2>2, <1>8, <1>9, LiteralRead, Zenon
<1> QED BY <1>2, <1>7, <1>10

-----------------------------------------------------------------------------
(* The members of an object, as api_extract_query_string walks over them.  *)

LEMMA SkipToStops ==
  ASSUME NEW text, NEW n \in Nat, n = Len(text), NEW i \in 1 .. n, NEW cs, NEW k \in i .. n,
         \A j \in i .. k - 1 : text[j] \notin cs, text[k] \in cs
  PROVE  SkipTo(text, i, cs) = k
<1> DEFINE Stops(x) == /\ \A j \in i .. x - 1 : text[j] \notin cs
                       /\ x <= n => text[x] \in cs
<1>1. SkipTo(text, i, cs) = CHOOSE x \in i .. n + 1 : Stops(x)
  BY Zenon DEF SkipTo
<1>2. k \in i .. n + 1 /\ Stops(k)
  OBVIOUS
<1>3. ASSUME NEW x \in i .. n + 1, Stops(x) PROVE x = k
  <2>1. ~(x < k)
    <3>1. ASSUME x < k PROVE FALSE
      <4>1. x \in i .. k - 1 /\ x <= n
        BY <3>1
      <4> QED BY <1>3, <4>1
    <3> QED BY <3>1
  <2>2. ~(k < x)
    <3>1. ASSUME k < x PROVE FALSE
      <4>1. k \in i .. x - 1
        BY <3>1
      <4> QED BY <1>3, <4>1
    <3> QED BY <3>1
  <2> QED BY <2>1, <2>2
<1> HIDE DEF Stops
<1>4. PICK y : y = CHOOSE x \in i .. n + 1 : Stops(x)
  OBVIOUS
<1>5. y \in i .. n + 1 /\ Stops(y)
  BY <1>2, <1>4
<1> QED BY <1>1, <1>3, <1>4, <1>5

(* A value that is not a string ends at the comma behind it. *)
Bland(v, b) == \A i \in 1 .. b : v[i] \notin {Ch("quote"), Ch("comma"), Ch("close")}
CommaAt(text, e) == e <= Len(text) /\ text[e] = Ch("comma")

LEMMA BareEnd ==
  ASSUME NEW text \in Seq(Units), NEW p \in Nat, NEW v \in Seq(Units), NEW b \in Nat, b = Len(v),
         Holds(text, p, v), Bland(v, b), NEW e \in Nat, e = p + b + 1, CommaAt(text, e)
  PROVE  ValueEnd(text, p + 1) = e
<1>1. PICK n \in Nat : n = Len(text)
  OBVIOUS
<1>2. PICK i \in 1 .. n : i = p + 1 /\ e \in i .. n /\ e \in 1 .. n
  BY <1>1 DEF CommaAt
<1>3. \A j \in 1 .. b : text[p + j] = v[j]
  BY DEF Holds
<1>4. ASSUME NEW j \in i .. e - 1 PROVE text[j] \notin {Ch("quote"), Ch("comma"), Ch("close")}
  <2>1. PICK k \in 1 .. b : j = p + k
    <3>1. j - p \in 1 .. b /\ j = p + (j - p)
      BY <1>2
    <3> QED BY <3>1
  <2>2. text[j] = v[k]
    BY <1>3, <2>1
  <2> QED BY <2>2 DEF Bland
<1>5. text[e] = Ch("comma")
  BY DEF CommaAt
<1>6. text[i] # Ch("quote")
  <2>1. Ch("comma") # Ch("quote")
    BY CharacterTypes
  <2>2. i = e \/ i \in i .. e - 1
    BY <1>2
  <2> QED BY <1>4, <1>5, <2>1, <2>2
<1>7. PICK cs : cs = {Ch("comma"), Ch("close")}
  OBVIOUS
<1>8. SkipTo(text, i, cs) = e
  <2>1. \A j \in i .. e - 1 : text[j] \notin cs
    BY <1>4, <1>7
  <2>2. text[e] \in cs
    BY <1>5, <1>7
  <2> QED BY <1>1, <1>2, <2>1, <2>2, SkipToStops
<1>9. ValueEnd(text, i) = SkipTo(text, i, cs)
  BY <1>1, <1>6, <1>7 DEF ValueEnd
<1> QED BY <1>2, <1>8, <1>9

(* The key of a member, and where its value stands. *)
Value(m) == IF m.string THEN Quote(m.value) ELSE Says(m.value)
KeyRead(text, o, m, k) ==
  /\ k \in Nat
  /\ KeyAt(text, o + 1) = [ok |-> TRUE, next |-> o + k + 1, text |-> Says(m.key)]
  /\ ~NoMember(text, o + 1)
  /\ Holds(text, o + k + 1, Value(m))
  /\ Len(Written(m)) = k + 1 + Len(Value(m))

LEMMA KeyIsRead ==
  ASSUME NEW m \in Members, StringLiteral(m.key, KeySize),
         NEW text \in Seq(Units), NEW o \in Nat, Holds(text, o, Written(m))
  PROVE  \E k : KeyRead(text, o, m, k)
<1>1. PICK key \in Seq(Units) : key = Quote(m.key)
  BY WrittenType, QuoteIs
<1>2. PICK v \in Seq(Units) : v = Value(m)
  BY WrittenType, QuoteIs DEF Value
<1>3. PICK c \in Units : c = Ch("colon")
  BY CharacterTypes DEF Names
<1>4. PICK s \in Seq(Units) : s = key \o <<c>> /\ Len(s) = Len(key) + 1
  BY EndedType
<1>5. PICK w : w = Written(m)
  OBVIOUS
<1>6. w = s \o v
  BY <1>1, <1>2, <1>3, <1>4, <1>5 DEF Written, Value
<1>7. Holds(text, o, s) /\ Holds(text, o + Len(s), v)
  <2>1. Holds(text, o, w)
    BY <1>5
  <2> QED BY <1>6, <2>1, HoldsBoth
<1>8. PICK k \in Nat, a \in Nat, n \in Nat : k = Len(key) /\ a = Len(v) /\ n = Len(text)
  OBVIOUS
<1>9. Holds(text, o, key) /\ Holds(text, o + k, <<c>>)
  <2>1. <<c>> \in Seq(Units)
    OBVIOUS
  <2>2. PICK d \in Seq(Units) : d = <<c>> /\ s = key \o d
    BY <1>4, <2>1
  <2>3. Holds(text, o, key) /\ Holds(text, o + Len(key), d)
    BY <1>7, <2>2, HoldsBoth
  <2> QED BY <1>8, <2>2, <2>3
<1>10. o + k + 1 <= n /\ text[o + k + 1] = c
  <2>1. Len(<<c>>) = 1 /\ <<c>>[1] = c /\ 1 \in 1 .. 1
    OBVIOUS
  <2> QED BY <1>8, <1>9, <2>1 DEF Holds
<1>11. KeyAt(text, o + 1) = [ok |-> TRUE, next |-> o + k + 1, text |-> Says(m.key)]
  <2>1. m.key \in Seq(Spelled) /\ KeySize \in Nat
    BY WrittenType, SizesAssumption
  <2>2. PICK q \in Seq(Spelled) : q = m.key /\ StringLiteral(q, KeySize) /\ Holds(text, o, Quote(q))
    BY <1>1, <1>9, <2>1
  <2>3. api_parse_json_string(text, o + 1, KeySize) = [ok |-> TRUE, next |-> o + Len(Quote(q)) + 1, text |-> Says(q)]
    BY <2>1, <2>2, QuoteRead
  <2> QED BY <1>1, <1>8, <2>2, <2>3 DEF KeyAt
<1>12. ~NoMember(text, o + 1)
  <2>1. ~(o + 1 > n)
    BY <1>10
  <2>2. PICK e : e = o + k + 1
    OBVIOUS
  <2>3. KeyAt(text, o + 1).ok = TRUE /\ KeyAt(text, o + 1).next = e
    BY <1>11, <2>2
  <2>4. ~(e > n) /\ text[e] = Ch("colon")
    BY <1>3, <1>10, <2>2
  <2> QED BY <1>8, <2>1, <2>3, <2>4 DEF NoMember
<1>13. Holds(text, o + k + 1, v) /\ Len(w) = k + 1 + a
  <2>1. Len(s) = k + 1 /\ o + (k + 1) = o + k + 1
    BY <1>4, <1>8
  <2>2. Len(w) = Len(s) + Len(v)
    BY <1>6
  <2> QED BY <1>7, <1>8, <2>1, <2>2
<1>14. KeyRead(text, o, m, k)
  BY <1>2, <1>5, <1>8, <1>11, <1>12, <1>13 DEF KeyRead
<1> QED BY <1>14

(* Another member is passed over. *)
LEMMA OtherPassed ==
  ASSUME NEW m \in Members, Other(m), NEW text \in Seq(Units), NEW o \in Nat,
         NEW l \in Nat, l = Len(Written(m)), Holds(text, o, Written(m)),
         o + l + 1 <= Len(text), text[o + l + 1] = Ch("comma")
  PROVE  NextMember(text, o + 1) = o + l + 2
<1>1. PICK k \in Nat : KeyRead(text, o, m, k)
  BY KeyIsRead DEF Other, KeyRead
<1>2. PICK v \in Seq(Units) : v = Value(m)
  BY WrittenType, QuoteIs DEF Value
<1>3. PICK b \in Nat : b = Len(v)
  OBVIOUS
<1>4. PICK n \in Nat : n = Len(text)
  OBVIOUS
<1>5. PICK p \in Nat : p = o + k + 1
  OBVIOUS
<1>6. PICK e \in Nat : e = o + l + 1
  OBVIOUS
<1>7. p = o + k + 1 /\ e = o + l + 1
  BY <1>5, <1>6
<1>8. l = k + 1 + b /\ e = p + b + 1 /\ e <= n /\ text[e] = Ch("comma") /\ Holds(text, p, v)
  <2>1. Len(Written(m)) = k + 1 + Len(Value(m)) /\ Holds(text, p, v)
    BY <1>1, <1>2, <1>5 DEF KeyRead
  <2>2. l = k + 1 + b
    BY <1>2, <1>3, <2>1
  <2>3. e <= n /\ text[e] = Ch("comma")
    BY <1>4, <1>6
  <2>4. e = p + b + 1
    BY <1>7, <2>2
  <2> QED BY <2>1, <2>2, <2>3, <2>4
<1>9. ValueEnd(text, p + 1) = e
  <2>1. ASSUME m.string PROVE ValueEnd(text, p + 1) = e
    <3>1. m.value \in Seq(Spelled) /\ StringLiteral(m.value, IgnoredSize) /\ v = Quote(m.value)
      BY <1>2, <2>1, WrittenType DEF Other, Value
    <3>2. PICK q \in Seq(Spelled) : q = m.value /\ StringLiteral(q, IgnoredSize) /\ Holds(text, p, Quote(q))
                                    /\ Len(Quote(q)) = b
      BY <1>3, <1>8, <3>1
    <3>3. IgnoredSize \in Nat
      BY SizesAssumption
    <3>4. /\ api_parse_json_string(text, p + 1, IgnoredSize)
               = [ok |-> TRUE, next |-> p + Len(Quote(q)) + 1, text |-> Says(q)]
          /\ text[p + 1] = Ch("quote") /\ p + Len(Quote(q)) <= Len(text)
      BY <3>2, <3>3, QuoteRead
    <3>5. b >= 2
      BY <3>2, QuoteIs
    <3>6. api_parse_json_string(text, p + 1, IgnoredSize).next = e
      BY <1>8, <3>2, <3>4
    <3>7. p + 1 <= Len(text)
      BY <1>4, <1>8
    <3> QED BY <3>4, <3>6, <3>7 DEF ValueEnd
  <2>2. ASSUME ~m.string PROVE ValueEnd(text, p + 1) = e
    <3>1. v = Says(m.value) /\ Bare(m.value) /\ m.value \in Seq(Spelled)
      BY <1>2, <2>2, WrittenType DEF Other, Value
    <3>2. PICK q \in Seq(Spelled) : q = m.value /\ v = Says(q) /\ Bare(q)
      BY <3>1
    <3>3. Len(q) = b
      BY <1>3, <3>2, SpelledIs
    <3>4. Bland(v, b)
      <4>1. \A i \in 1 .. b : v[i] = q[i].says
        BY <3>2, <3>3, SpelledIs
      <4> QED BY <3>2, <3>3, <4>1 DEF Bare, Bland
    <3>5. CommaAt(text, e)
      BY <1>4, <1>8 DEF CommaAt
    <3>6. Holds(text, p, v) /\ e = p + b + 1
      BY <1>8
    <3> QED BY <1>3, <3>4, <3>5, <3>6, BareEnd
  <2> QED BY <2>1, <2>2
<1>10. AfterAt(text, o + 1) = e
  <2>1. KeyAt(text, o + 1).next = p
    BY <1>1, <1>7 DEF KeyRead
  <2> QED BY <1>9, <2>1 DEF AfterAt
<1>11. ~IsQuery(text, o + 1)
  <2>1. KeyAt(text, o + 1).text = Says(m.key)
    BY <1>1 DEF KeyRead
  <2> QED BY <2>1 DEF IsQuery, Other
<1>12. ~NoMember(text, o + 1)
  BY <1>1 DEF KeyRead
<1>13. NextMember(text, o + 1) = e + 1
  BY <1>4, <1>7, <1>8, <1>10, <1>11, <1>12 DEF NextMember
<1> QED BY <1>7, <1>13

(* The statement is found. *)
LEMMA StatementFound ==
  ASSUME NEW m \in Members, Statement(m), NEW text \in Seq(Units), NEW o \in Nat,
         Holds(text, o, Written(m))
  PROVE  /\ NextMember(text, o + 1) = 0
         /\ FoundHere(text, o + 1).ok = TRUE /\ FoundHere(text, o + 1).text = Says(m.value)
<1>1. PICK k \in Nat : KeyRead(text, o, m, k)
  BY KeyIsRead DEF Statement, KeyRead
<1>2. PICK p \in Nat : p = o + k + 1
  OBVIOUS
<1>3. KeyAt(text, o + 1).next = p /\ KeyAt(text, o + 1).text = Says(m.key) /\ ~NoMember(text, o + 1)
      /\ Holds(text, p, Value(m))
  BY <1>1, <1>2 DEF KeyRead
<1>4. IsQuery(text, o + 1)
  BY <1>3 DEF IsQuery, Statement
<1>5. PICK q \in Seq(Spelled) : q = m.value /\ StringLiteral(q, QuerySize) /\ Holds(text, p, Quote(q))
  BY <1>3, WrittenType DEF Value, Statement
<1>6. QuerySize \in Nat
  BY SizesAssumption
<1>7. api_parse_json_string(text, p + 1, QuerySize) = [ok |-> TRUE, next |-> p + Len(Quote(q)) + 1, text |-> Says(q)]
  BY <1>5, <1>6, QuoteRead
<1>8. FoundHere(text, o + 1) = api_parse_json_string(text, p + 1, QuerySize)
  BY <1>3, <1>4 DEF FoundHere
<1>9. NextMember(text, o + 1) = 0
  BY <1>3, <1>4 DEF NextMember
<1> QED BY <1>5, <1>7, <1>8, <1>9

-----------------------------------------------------------------------------
(* A member in its object: what is written, and a comma if it is not the   *)
(* last one.                                                               *)
LEMMA PieceHeld ==
  ASSUME NEW ms \in Seq(Members), NEW n, NEW i \in 1 .. Len(ms), NEW l \in Nat, l = Len(Written(ms[i])),
         NEW text \in Seq(Units), NEW o \in Nat, Holds(text, o, Piece(ms, i, n))
  PROVE  /\ Holds(text, o, Written(ms[i])) /\ Len(Piece(ms, i, n)) = l + 1
         /\ i # n => CommaAt(text, o + l + 1)
<1>1. PICK w \in Seq(Units) : w = Written(ms[i])
  BY WrittenType
<1>2. PICK c \in Units : c = Ch(IF i = n THEN "close" ELSE "comma")
  BY CharacterTypes DEF Names
<1>3. PICK d \in Seq(Units) : d = <<c>>
  <2>1. <<c>> \in Seq(Units)
    OBVIOUS
  <2> QED BY <2>1
<1>4. PICK s \in Seq(Units) : s = w \o d
  <2>1. w \o d \in Seq(Units)
    BY <1>1, <1>3
  <2> QED BY <2>1
<1>5. s = Piece(ms, i, n)
  BY <1>1, <1>2, <1>3, <1>4 DEF Piece
<1>6. Holds(text, o, w) /\ Holds(text, o + Len(w), d)
  <2>1. Holds(text, o, s)
    BY <1>5
  <2> QED BY <1>4, <2>1, HoldsBoth
<1>7. Len(d) = 1 /\ d[1] = c /\ 1 \in 1 .. 1
  BY <1>3
<1>8. Len(w) = l /\ Len(s) = l + 1
  <2>1. Len(w) = l
    BY <1>1
  <2>2. \A x, y \in Seq(Units) : Len(x \o y) = Len(x) + Len(y)
    OBVIOUS
  <2>3. Len(s) = Len(w) + Len(d)
    BY <1>4, <2>2
  <2> QED BY <1>7, <2>1, <2>3
<1>9. o + l + 1 <= Len(text) /\ text[o + l + 1] = c
  <2>1. PICK p \in Nat : p = o + l
    OBVIOUS
  <2>2. Holds(text, p, d)
    BY <1>6, <1>8, <2>1
  <2>3. p + 1 <= Len(text) /\ text[p + 1] = d[1]
    BY <1>7, <2>2 DEF Holds
  <2> QED BY <1>7, <2>1, <2>3
<1>10. i # n => CommaAt(text, o + l + 1)
  BY <1>2, <1>9 DEF CommaAt
<1> QED BY <1>1, <1>5, <1>6, <1>8, <1>10

LEMMA ObjectLaid ==
  ASSUME NEW ms \in Seq(Members), NEW n \in Nat, n = Len(ms)
  PROVE  \E text \in Seq(Units) : \E at, texts :
           /\ text = Object(ms) /\ text # <<>> /\ text[1] = Ch("open")
           /\ at[0] = 1 /\ Laid(at, text, texts, n)
           /\ \A i \in 1 .. n : texts[i] = Piece(ms, i, n)
<1>1. PICK texts : /\ Object(ms) = <<Ch("open")>> \o Joined(texts)
                   /\ Len(texts) = n
                   /\ \A i \in 1 .. n : texts[i] = Piece(ms, i, n) /\ texts[i] \in Seq(Units)
  BY ObjectIs
<1>2. PICK w \in Seq(Units) : w = Joined(texts)
  BY <1>1, JoinedType
<1>3. PICK c \in Units : c = Ch("open")
  BY CharacterTypes DEF Names
<1>4. PICK d \in Seq(Units) : d = <<c>> /\ Len(d) = 1 /\ d[1] = c
  <2>1. <<c>> \in Seq(Units)
    OBVIOUS
  <2>2. Len(<<c>>) = 1 /\ <<c>>[1] = c
    OBVIOUS
  <2> QED BY <2>1, <2>2
<1>5. PICK text \in Seq(Units) : text = d \o w
  <2>1. d \o w \in Seq(Units)
    OBVIOUS
  <2> QED BY <2>1
<1>6. text = Object(ms)
  BY <1>1, <1>2, <1>3, <1>4, <1>5
<1>7. Len(text) = 1 + Len(w) /\ text[1] = c /\ \A k \in 1 .. Len(w) : text[1 + k] = w[k]
  BY <1>4, <1>5
<1>8. Holds(text, 1, w)
  BY <1>7 DEF Holds
<1>9. text # <<>>
  BY <1>7
<1>10. PICK at : at[0] = 1 /\ Laid(at, text, texts, n)
  <2>1. \A i \in 1 .. n : texts[i] \in Seq(Units)
    BY <1>1
  <2>2. Holds(text, 1, Joined(texts)) /\ n = Len(texts) /\ 1 \in Nat
    BY <1>1, <1>2, <1>8
  <2> QED BY <2>1, <2>2, HoldsJoined
<1>11. /\ text = Object(ms) /\ text # <<>> /\ text[1] = Ch("open")
       /\ at[0] = 1 /\ Laid(at, text, texts, n)
       /\ \A i \in 1 .. n : texts[i] = Piece(ms, i, n)
  BY <1>1, <1>3, <1>6, <1>7, <1>9, <1>10
<1> QED BY <1>11

(* What api_extract_query_string finds in the object of a request. *)
LEMMA ObjectRead ==
  ASSUME NEW ms \in Seq(Members), NEW a \in 1 .. Len(ms), Statement(ms[a]),
         \A i \in 1 .. a - 1 : Other(ms[i])
  PROVE  /\ api_extract_query_string(Object(ms)).ok = TRUE
         /\ api_extract_query_string(Object(ms)).text = Says(ms[a].value)
<1>1. PICK n \in Nat : n = Len(ms)
  OBVIOUS
<1>2. PICK text \in Seq(Units) : \E at, texts :
        /\ text = Object(ms) /\ text # <<>> /\ text[1] = Ch("open")
        /\ at[0] = 1 /\ Laid(at, text, texts, n)
        /\ \A i \in 1 .. n : texts[i] = Piece(ms, i, n)
  BY <1>1, ObjectLaid
<1>3. PICK at, texts :
        /\ text = Object(ms) /\ text # <<>> /\ text[1] = Ch("open")
        /\ at[0] = 1 /\ Laid(at, text, texts, n)
        /\ \A i \in 1 .. n : texts[i] = Piece(ms, i, n)
  BY <1>2
<1>4. PICK m : Follows(m, text) /\ api_extract_query_string(text) = m[2]
  <2>1. \E m : /\ Follows(m, text)
               /\ api_extract_query_string(text)
                    = IF text # <<>> /\ text[1] = Ch("open") THEN m[2] ELSE NotAString
    BY ExtractIs
  <2> QED BY <1>3, <2>1
<1>5. /\ \A i \in 0 .. n : at[i] \in Nat /\ at[i] <= Len(text)
      /\ \A i \in 1 .. n : at[i] = at[i - 1] + Len(texts[i]) /\ Holds(text, at[i - 1], texts[i])
  BY <1>3 DEF Laid
<1>6. ASSUME NEW i \in 1 .. n
      PROVE  \E o \in Nat, l \in Nat :
               /\ o = at[i - 1] /\ l = Len(Written(ms[i])) /\ o + 1 \in 1 .. Len(text) + 1
               /\ Holds(text, o, Written(ms[i])) /\ at[i] = o + l + 1
               /\ i # n => CommaAt(text, o + l + 1)
  <2>1. i - 1 \in 0 .. n
    OBVIOUS
  <2>2. PICK o \in Nat : o = at[i - 1] /\ o <= Len(text)
    BY <1>5, <2>1
  <2>3. PICK x \in Members : x = ms[i]
    BY <1>1
  <2>4. PICK l \in Nat : l = Len(Written(ms[i]))
    <3>1. Written(x) \in Seq(Units)
      BY WrittenType
    <3> QED BY <2>3, <3>1
  <2>5. Holds(text, o, Piece(ms, i, n)) /\ at[i] = o + Len(Piece(ms, i, n))
    BY <1>3, <1>5, <2>2
  <2>6. /\ Holds(text, o, Written(ms[i])) /\ Len(Piece(ms, i, n)) = l + 1
        /\ i # n => CommaAt(text, o + l + 1)
    <3>1. i \in 1 .. Len(ms)
      BY <1>1
    <3>2. text \in Seq(Units) /\ Holds(text, o, Piece(ms, i, n))
      BY <1>3, <2>5
    <3> QED BY <2>2, <2>4, <3>1, <3>2, PieceHeld
  <2>7. at[i] = o + l + 1
    BY <2>5, <2>6
  <2>8. o + 1 \in 1 .. Len(text) + 1
    BY <2>2
  <2> QED BY <2>2, <2>4, <2>6, <2>7, <2>8
<1>7. PICK f : f = m[at[a - 1] + 1]
  OBVIOUS
<1>8. f = FoundHere(text, at[a - 1] + 1) /\ f.ok = TRUE /\ f.text = Says(ms[a].value)
  <2>1. PICK o \in Nat : o = at[a - 1] /\ o + 1 \in 1 .. Len(text) + 1 /\ Holds(text, o, Written(ms[a]))
    BY <1>1, <1>6
  <2>2. PICK x \in Members : x = ms[a] /\ Statement(x) /\ Holds(text, o, Written(x))
    BY <2>1
  <2>3. NextMember(text, o + 1) = 0 /\ FoundHere(text, o + 1).ok = TRUE
        /\ FoundHere(text, o + 1).text = Says(x.value)
    BY <2>2, StatementFound
  <2>4. m[o + 1] = FoundHere(text, o + 1)
    BY <1>4, <2>1, <2>3 DEF Follows
  <2> QED BY <1>7, <2>1, <2>2, <2>3, <2>4
<1> DEFINE G == {i \in 0 .. a - 1 : m[at[i] + 1] = f}
<1>9. a - 1 \in G
  BY <1>7
<1>10. ASSUME NEW i \in 1 .. a - 1, i \in G PROVE i - 1 \in G
  <2>1. i \in 1 .. n /\ i # n /\ i - 1 \in 0 .. a - 1
    BY <1>1
  <2>2. PICK o \in Nat, l \in Nat :
          /\ o = at[i - 1] /\ l = Len(Written(ms[i])) /\ o + 1 \in 1 .. Len(text) + 1
          /\ Holds(text, o, Written(ms[i])) /\ at[i] = o + l + 1
          /\ CommaAt(text, o + l + 1)
    BY <1>6, <2>1
  <2>3. PICK x \in Members : x = ms[i] /\ Other(x)
    BY <1>1, <2>1
  <2>4. Holds(text, o, Written(x)) /\ l = Len(Written(x)) /\ o + l + 1 <= Len(text)
        /\ text[o + l + 1] = Ch("comma")
    BY <2>2, <2>3 DEF CommaAt
  <2>5. NextMember(text, o + 1) = o + l + 2
    BY <2>3, <2>4, OtherPassed
  <2>6. o + l + 2 = at[i] + 1 /\ o + l + 2 # 0
    <3> HIDE DEF G
    <3>1. at[i] = o + l + 1
      BY <2>2, Zenon
    <3>2. o + l + 2 = o + l + 1 + 1 /\ o + l + 2 # 0
      OBVIOUS
    <3> QED BY <3>1, <3>2
  <2>7. m[o + 1] = m[at[i] + 1]
    BY <1>4, <2>2, <2>5, <2>6 DEF Follows
  <2>8. m[at[i] + 1] = f
    BY <1>10
  <2> QED BY <2>1, <2>2, <2>7, <2>8
<1>11. m[2] = f
  <2> HIDE DEF G
  <2>1. a - 1 \in Nat
    OBVIOUS
  <2>2. \A i \in 0 .. a - 1 : i \in G
    BY <1>9, <1>10, <2>1, Downward
  <2>3. 0 \in 0 .. a - 1 /\ 1 + 1 = 2
    OBVIOUS
  <2> QED BY <1>3, <2>2, <2>3 DEF G
<1> QED BY <1>3, <1>4, <1>8, <1>11

-----------------------------------------------------------------------------
(* The head of a request, and that both parsers find its end, the length   *)
(* of the body and the words of the request line.                          *)

Headed(t, method, path, hs, H) ==
  /\ t[1] = WordUnit(method) /\ t[2] = WordUnit(path) /\ t[3] = WordUnit("HTTP/1.1")
  /\ \A k \in 0 .. H : t[3 * k + 4] = Ch("cr") /\ t[3 * k + 5] = Ch("lf")
  /\ \A k \in 1 .. H : t[3 * k + 3] = hs[k]
  /\ t[3 * H + 6] = Ch("cr") /\ t[3 * H + 7] = Ch("lf")

LEMMA BothAre ==
  ASSUME NEW s \in Seq(Units), NEW e \in Seq(Units), NEW x \in Nat, NEW y \in Nat, Len(s) = x, Len(e) = y
  PROVE  /\ s \o e \in Seq(Units) /\ Len(s \o e) = x + y
         /\ \A i \in 1 .. x : (s \o e)[i] = s[i]
         /\ \A i \in 1 .. y : (s \o e)[x + i] = e[i]
OBVIOUS

LEMMA LineIs ==
  ASSUME NEW m \in Words, NEW p \in Words, NEW a, a = Line(m, p)
  PROVE  /\ a \in Seq(Units) /\ Len(a) = 5
         /\ a[1] = WordUnit(m) /\ a[2] = WordUnit(p) /\ a[3] = WordUnit("HTTP/1.1")
         /\ a[4] = Ch("cr") /\ a[5] = Ch("lf")
<1>1. PICK x \in Units, y \in Units, z \in Units : x = WordUnit(m) /\ y = WordUnit(p) /\ z = WordUnit("HTTP/1.1")
  BY WordType
<1>2. PICK s \in Seq(Units) : s = <<x, y, z>>
  <2>1. <<x, y, z>> \in Seq(Units)
    OBVIOUS
  <2> QED BY <2>1
<1>3. Len(s) = 3 /\ s[1] = x /\ s[2] = y /\ s[3] = z
  BY <1>2
<1>4. PICK e \in Seq(Units) : e = CRLF /\ Len(e) = 2 /\ e[1] = Ch("cr") /\ e[2] = Ch("lf")
  BY LineEndIs
<1>5. a = s \o e
  BY <1>1, <1>2, <1>4 DEF Line
<1>6. PICK k \in Nat : k = 3
  OBVIOUS
<1>7. PICK l \in Nat : l = 2
  OBVIOUS
<1>8. Len(s) = k /\ Len(e) = l
  BY <1>3, <1>4, <1>6, <1>7
<1>9. /\ s \o e \in Seq(Units) /\ Len(s \o e) = k + l
      /\ \A i \in 1 .. k : (s \o e)[i] = s[i]
      /\ \A i \in 1 .. l : (s \o e)[k + i] = e[i]
  BY <1>8, BothAre
<1>10. /\ 1 \in 1 .. k /\ 2 \in 1 .. k /\ 3 \in 1 .. k /\ 1 \in 1 .. l /\ 2 \in 1 .. l
      /\ k + 1 = 4 /\ k + 2 = 5 /\ k + l = 5
  BY <1>6, <1>7
<1>11. a[1] = s[1] /\ a[2] = s[2] /\ a[3] = s[3] /\ a[4] = e[1] /\ a[5] = e[2]
  <2>1. a[1] = s[1] /\ a[2] = s[2] /\ a[3] = s[3]
    BY <1>5, <1>9, <1>10
  <2>2. a[k + 1] = e[1] /\ a[k + 2] = e[2]
    BY <1>5, <1>9, <1>10
  <2> QED BY <1>10, <2>1, <2>2
<1> QED BY <1>1, <1>3, <1>4, <1>5, <1>9, <1>10, <1>11

(* The end of a line. *)
LEMMA LineEndHeld ==
  ASSUME NEW t \in Seq(Units), NEW o \in Nat, Holds(t, o, CRLF)
  PROVE  t[o + 1] = Ch("cr") /\ t[o + 2] = Ch("lf")
<1>1. Len(CRLF) = 2 /\ CRLF[1] = Ch("cr") /\ CRLF[2] = Ch("lf") /\ 1 \in 1 .. 2 /\ 2 \in 1 .. 2
  BY LineEndIs
<1> QED BY <1>1 DEF Holds

LEMMA HeaderHeld ==
  ASSUME NEW t \in Seq(Units), NEW o \in Nat, NEW h \in Units, NEW x, x = <<h>> \o CRLF, Holds(t, o, x)
  PROVE  t[o + 1] = h /\ t[o + 2] = Ch("cr") /\ t[o + 3] = Ch("lf")
<1>1. PICK d \in Seq(Units) : d = <<h>>
  <2>1. <<h>> \in Seq(Units)
    OBVIOUS
  <2> QED BY <2>1
<1>2. Len(d) = 1 /\ d[1] = h /\ 1 \in 1 .. 1
  BY <1>1
<1>3. PICK e \in Seq(Units) : e = CRLF
  BY LineEndIs
<1>4. Holds(t, o, d) /\ Holds(t, o + Len(d), e)
  <2>1. x = d \o e
    BY <1>1, <1>3
  <2> QED BY <2>1, HoldsBoth
<1>5. t[o + 1] = h
  BY <1>2, <1>4 DEF Holds
<1>6. PICK q \in Nat : q = o + 1
  OBVIOUS
<1>7. t[q + 1] = Ch("cr") /\ t[q + 2] = Ch("lf")
  <2>1. Holds(t, q, CRLF)
    BY <1>2, <1>3, <1>4, <1>6
  <2> QED BY <2>1, LineEndHeld
<1> QED BY <1>5, <1>6, <1>7

LEMMA HeadIs ==
  ASSUME NEW m \in Words, NEW p \in Words, NEW hs \in Seq(Units), NEW H \in Nat, H = Len(hs),
         NEW body \in Seq(Units), NEW b \in Nat, b = Len(body),
         NEW msg, msg = Text(Line(m, p), hs, body), NEW t \in Seq(Units), Holds(t, 0, msg)
  PROVE  /\ Headed(t, m, p, hs, H) /\ Holds(t, 3 * H + 7, body)
         /\ Len(msg) = 3 * H + 7 + b /\ 3 * H + 7 + b <= Len(t)
<1>1. PICK a \in Seq(Units) : a = Line(m, p)
  BY TextType
<1>2. PICK texts : texts = Headers(hs)
  OBVIOUS
<1>3. /\ Len(texts) = H
      /\ \A i \in 1 .. H : texts[i] = <<hs[i]>> \o CRLF /\ texts[i] \in Seq(Units) /\ Len(texts[i]) = 3
  BY <1>2, HeadersAre
<1>4. PICK j \in Seq(Units) : j = Joined(texts)
  BY <1>2, TextType
<1>5. PICK e \in Seq(Units) : e = CRLF
  BY LineEndIs
<1>6. PICK x \in Seq(Units) : x = a \o j
  <2>1. a \o j \in Seq(Units)
    BY <1>1, <1>4
  <2> QED BY <2>1
<1>7. PICK y \in Seq(Units) : y = x \o e
  <2>1. x \o e \in Seq(Units)
    BY <1>5, <1>6
  <2> QED BY <2>1
<1>8. msg = y \o body
  <2>1. Text(Line(m, p), hs, body) = ((Line(m, p) \o Joined(Headers(hs))) \o CRLF) \o body
    BY Zenon DEF Text, Headers
  <2>2. msg = ((a \o j) \o e) \o body
    BY <1>1, <1>2, <1>4, <1>5, <2>1, Zenon
  <2> QED BY <1>6, <1>7, <2>2
<1>9. Holds(t, 0, y) /\ Holds(t, 0 + Len(y), body)
  BY <1>8, HoldsBoth
<1>10. Holds(t, 0, x) /\ Holds(t, 0 + Len(x), e)
  BY <1>7, <1>9, HoldsBoth
<1>11. Holds(t, 0, a) /\ Holds(t, 0 + Len(a), j)
  BY <1>6, <1>10, HoldsBoth
<1>12. /\ Len(a) = 5 /\ a[1] = WordUnit(m) /\ a[2] = WordUnit(p) /\ a[3] = WordUnit("HTTP/1.1")
       /\ a[4] = Ch("cr") /\ a[5] = Ch("lf")
  BY <1>1, LineIs
<1>13. /\ t[1] = WordUnit(m) /\ t[2] = WordUnit(p) /\ t[3] = WordUnit("HTTP/1.1")
       /\ t[4] = Ch("cr") /\ t[5] = Ch("lf")
  <2>1. \A k \in 1 .. 5 : t[0 + k] = a[k]
    BY <1>11, <1>12 DEF Holds
  <2>2. t[0 + 1] = a[1] /\ t[0 + 2] = a[2] /\ t[0 + 3] = a[3] /\ t[0 + 4] = a[4] /\ t[0 + 5] = a[5]
    BY <2>1
  <2> QED BY <1>12, <2>2
<1>14. PICK at : at[0] = 5 /\ at[H] = 5 + Len(j) /\ Laid(at, t, texts, H)
  <2>1. Holds(t, 5, Joined(texts)) /\ 5 \in Nat
    BY <1>4, <1>11, <1>12
  <2>3. H = Len(texts) /\ \A i \in 1 .. H : texts[i] \in Seq(Units)
    BY <1>3
  <2>2. \E at : at[0] = 5 /\ at[H] = 5 + Len(Joined(texts)) /\ Laid(at, t, texts, H)
    BY <2>1, <2>3, HoldsJoined, Zenon
  <2> QED BY <1>4, <2>2
<1>15. /\ \A i \in 0 .. H : at[i] \in Nat
       /\ \A i \in 1 .. H : at[i] = at[i - 1] + 3 /\ Holds(t, at[i - 1], texts[i])
  BY <1>3, <1>14 DEF Laid
<1> DEFINE G == {i \in 0 .. H : at[i] = 3 * i + 5}
<1>16. \A i \in 0 .. H : at[i] = 3 * i + 5
  <2>1. 0 \in G
    BY <1>14
  <2>2. ASSUME NEW i \in 1 .. H, i - 1 \in G PROVE i \in G
    <3>1. at[i] = (3 * (i - 1) + 5) + 3
      BY <1>15, <2>2
    <3> QED BY <3>1
  <2> HIDE DEF G
  <2>3. \A i \in 0 .. H : i \in G
    BY <2>1, <2>2, Upward
  <2> QED BY <2>3 DEF G
<1> HIDE DEF G
<1>17. ASSUME NEW k \in 1 .. H
       PROVE  t[3 * k + 3] = hs[k] /\ t[3 * k + 4] = Ch("cr") /\ t[3 * k + 5] = Ch("lf")
  <2>1. PICK o \in Nat : o = 3 * k + 2
    OBVIOUS
  <2>2. at[k - 1] = o
    <3>1. k - 1 \in 0 .. H /\ 3 * (k - 1) + 5 = 3 * k + 2
      OBVIOUS
    <3> QED BY <1>16, <2>1, <3>1
  <2>3. PICK h \in Units : h = hs[k]
    OBVIOUS
  <2>4. PICK z : z = <<h>> \o CRLF /\ Holds(t, o, z)
    BY <1>3, <1>15, <2>2, <2>3
  <2>5. t[o + 1] = h /\ t[o + 2] = Ch("cr") /\ t[o + 3] = Ch("lf")
    BY <2>4, HeaderHeld
  <2> QED BY <2>1, <2>3, <2>5
<1>18. PICK n \in Nat : n = 3 * H + 5
  OBVIOUS
<1>19. Len(x) = n
  <2>1. at[H] = n
    BY <1>16, <1>18
  <2>2. Len(x) = Len(a) + Len(j)
    BY <1>6
  <2> QED BY <1>12, <1>14, <2>1, <2>2
<1>20. t[n + 1] = Ch("cr") /\ t[n + 2] = Ch("lf")
  <2>1. Holds(t, n, CRLF)
    BY <1>5, <1>10, <1>18, <1>19
  <2> QED BY <2>1, LineEndHeld
<1>21. Len(y) = n + 2
  <2>1. Len(e) = 2
    BY <1>5, LineEndIs
  <2>2. \A u, v \in Seq(Units) : Len(u \o v) = Len(u) + Len(v)
    OBVIOUS
  <2>3. Len(y) = Len(x) + Len(e)
    BY <1>7, <2>2
  <2> QED BY <1>19, <2>1, <2>3
<1>22. Holds(t, n + 2, body) /\ Len(msg) = n + 2 + b /\ n + 2 + b <= Len(t)
  <2>1. Holds(t, n + 2, body)
    BY <1>9, <1>18, <1>21
  <2>2. Len(msg) = n + 2 + b
    <3>1. \A u, v \in Seq(Units) : Len(u \o v) = Len(u) + Len(v)
      OBVIOUS
    <3>2. Len(msg) = Len(y) + Len(body)
      BY <1>8, <3>1
    <3> QED BY <1>21, <3>2
  <2> QED BY <2>1, <2>2 DEF Holds
<1>23. ASSUME NEW k \in 0 .. H PROVE t[3 * k + 4] = Ch("cr") /\ t[3 * k + 5] = Ch("lf")
  <2>1. CASE k = 0
    BY <1>13, <2>1
  <2>2. CASE k # 0
    BY <1>17, <2>2
  <2> QED BY <2>1, <2>2
<1>24. t[3 * H + 6] = Ch("cr") /\ t[3 * H + 7] = Ch("lf") /\ n + 2 = 3 * H + 7
  BY <1>18, <1>20
<1> QED BY <1>13, <1>17, <1>22, <1>23, <1>24 DEF Headed

LEMMA Kinds ==
  /\ \A w : WordUnit(w).kind = "word" /\ WordUnit(w).text = w
  /\ \A c : Ch(c).kind = "char"
  /\ \A n : LengthHeader(n).kind = "header" /\ LengthHeader(n).text = "Content-Length"
            /\ LengthHeader(n).value = n
  /\ OtherHeader.kind = "header" /\ OtherHeader.text = "other"
BY DEF WordUnit, Ch, LengthHeader, OtherHeader, Unit

LEMMA Threes == \A x \in Nat : \E k \in Nat : x = 3 * k \/ x = 3 * k + 1 \/ x = 3 * k + 2
<1> DEFINE G(n) == {x \in 0 .. n : \E k \in Nat : x = 3 * k \/ x = 3 * k + 1 \/ x = 3 * k + 2}
<1>1. ASSUME NEW n \in Nat PROVE n \in G(n)
  <2>1. 0 \in G(n)
    <3>1. 0 = 3 * 0
      OBVIOUS
    <3> QED BY <3>1
  <2>2. ASSUME NEW i \in 1 .. n, i - 1 \in G(n) PROVE i \in G(n)
    <3>1. PICK k \in Nat : i - 1 = 3 * k \/ i - 1 = 3 * k + 1 \/ i - 1 = 3 * k + 2
      BY <2>2
    <3>2. i = 3 * k + 1 \/ i = 3 * k + 2 \/ i = 3 * (k + 1)
      BY <3>1
    <3>3. k + 1 \in Nat /\ i \in 0 .. n
      OBVIOUS
    <3> QED BY <3>2, <3>3
  <2> HIDE DEF G
  <2>3. \A i \in 0 .. n : i \in G(n)
    BY <2>1, <2>2, Upward
  <2>4. n \in 0 .. n
    OBVIOUS
  <2> QED BY <2>3, <2>4
<1> QED BY <1>1

(* What the units of the head are. *)
Plain(hs, H, b) == \A k \in 1 .. H : hs[k] \in {OtherHeader, LengthHeader(b)}

LEMMA HeadUnits ==
  ASSUME NEW t, NEW m, NEW p, NEW hs, NEW H \in Nat, Headed(t, m, p, hs, H), NEW b, Plain(hs, H, b),
         NEW i \in 1 .. 3 * H + 3
  PROVE  \/ t[i].kind = "word"
         \/ t[i].kind = "char" /\ (t[i] # Ch("cr") \/ t[i + 2] # Ch("cr"))
         \/ t[i].kind = "header" /\ t[i] \in {OtherHeader, LengthHeader(b)}
<1>1. /\ t[1] = WordUnit(m) /\ t[2] = WordUnit(p) /\ t[3] = WordUnit("HTTP/1.1")
      /\ \A k \in 0 .. H : t[3 * k + 4] = Ch("cr") /\ t[3 * k + 5] = Ch("lf")
      /\ \A k \in 1 .. H : t[3 * k + 3] = hs[k]
  BY DEF Headed
<1>2. \A k \in 1 .. H : t[3 * k + 3].kind = "header" /\ t[3 * k + 3] \in {OtherHeader, LengthHeader(b)}
  BY <1>1, Kinds DEF Plain
<1>3. ASSUME i <= 3 PROVE t[i].kind = "word"
  <2>1. i = 1 \/ i = 2 \/ i = 3
    BY <1>3
  <2>2. t[1].kind = "word" /\ t[2].kind = "word" /\ t[3].kind = "word"
    BY <1>1, Kinds
  <2> QED BY <2>1, <2>2
<1>4. ASSUME i > 3
      PROVE  \/ t[i].kind = "char" /\ (t[i] # Ch("cr") \/ t[i + 2] # Ch("cr"))
             \/ t[i].kind = "header" /\ t[i] \in {OtherHeader, LengthHeader(b)}
  <2>1. PICK k \in Nat : i - 3 = 3 * k \/ i - 3 = 3 * k + 1 \/ i - 3 = 3 * k + 2
    <3>1. i - 3 \in Nat
      BY <1>4
    <3> QED BY <3>1, Threes
  <2>2. CASE i - 3 = 3 * k
    <3>1. k \in 1 .. H /\ i = 3 * k + 3
      BY <1>4, <2>2
    <3> QED BY <1>2, <3>1
  <2>3. CASE i - 3 = 3 * k + 1
    <3>1. k \in 0 .. H /\ k + 1 \in 1 .. H /\ i = 3 * k + 4 /\ i + 2 = 3 * (k + 1) + 3
      BY <2>3
    <3>2. t[i] = Ch("cr") /\ t[i + 2].kind = "header"
      BY <1>1, <1>2, <3>1
    <3>3. Ch("cr").kind = "char"
      BY Kinds
    <3> QED BY <3>2, <3>3
  <2>4. CASE i - 3 = 3 * k + 2
    <3>1. k \in 0 .. H /\ i = 3 * k + 5
      BY <2>4
    <3>2. t[i] = Ch("lf")
      BY <1>1, <3>1
    <3>3. Ch("lf").kind = "char" /\ Ch("lf") # Ch("cr")
      BY Kinds, LineEndIs
    <3> QED BY <3>2, <3>3
  <2> QED BY <2>1, <2>2, <2>3, <2>4
<1> QED BY <1>3, <1>4

(* An empty line, unit by unit. *)
LEMMA FourUnits ==
  ASSUME NEW u \in Seq(Units), NEW s \in Seq(Units), Len(u) = 4, Len(s) = 4
  PROVE  u = s <=> u[1] = s[1] /\ u[2] = s[2] /\ u[3] = s[3] /\ u[4] = s[4]
<1>1. ASSUME u[1] = s[1], u[2] = s[2], u[3] = s[3], u[4] = s[4] PROVE u = s
  <2>1. \A j \in 1 .. 4 : j = 1 \/ j = 2 \/ j = 3 \/ j = 4
    OBVIOUS
  <2>2. \A j \in 1 .. 4 : u[j] = s[j]
    BY <1>1, <2>1
  <2>3. \A x, y \in Seq(Units) : Len(x) = Len(y) /\ (\A j \in 1 .. Len(x) : x[j] = y[j]) => x = y
    OBVIOUS
  <2> QED BY <2>2, <2>3
<1> QED BY <1>1

LEMMA TwiceIs ==
  ASSUME NEW s \in Seq(Units), NEW x \in Nat, Len(s) = x
  PROVE  /\ s \o s \in Seq(Units) /\ Len(s \o s) = x + x
         /\ \A i \in 1 .. x : (s \o s)[i] = s[i]
         /\ \A i \in 1 .. x : (s \o s)[x + i] = s[i]
OBVIOUS

LEMMA EmptyLineAt ==
  ASSUME NEW t \in Seq(Units), NEW i \in Nat, i + 4 <= Len(t)
  PROVE  SubSeq(t, i + 1, i + 4) = CRLF \o CRLF
           <=> t[i + 1] = Ch("cr") /\ t[i + 2] = Ch("lf") /\ t[i + 3] = Ch("cr") /\ t[i + 4] = Ch("lf")
<1>1. PICK c \in Units, d \in Units : c = Ch("cr") /\ d = Ch("lf")
  BY LineEndIs
<1>2. PICK e \in Seq(Units) : e = CRLF /\ e[1] = c /\ e[2] = d
  BY <1>1, LineEndIs
<1>3. PICK l \in Nat : l = 2 /\ Len(e) = l
  BY <1>2, LineEndIs
<1>4. /\ e \o e \in Seq(Units) /\ Len(e \o e) = l + l
      /\ \A j \in 1 .. l : (e \o e)[j] = e[j]
      /\ \A j \in 1 .. l : (e \o e)[l + j] = e[j]
  <2>1. Len(e) = l
    BY <1>3
  <2> QED BY <2>1, TwiceIs
<1>5. PICK s \in Seq(Units) : s = e \o e
  BY <1>4
<1>6. Len(s) = 4 /\ s[1] = c /\ s[2] = d /\ s[3] = c /\ s[4] = d
  <2>1. 1 \in 1 .. l /\ 2 \in 1 .. l /\ l + 1 = 3 /\ l + 2 = 4 /\ l + l = 4
    BY <1>3
  <2>2. s[1] = e[1] /\ s[2] = e[2] /\ s[l + 1] = e[1] /\ s[l + 2] = e[2]
    BY <1>4, <1>5, <2>1
  <2> QED BY <1>2, <1>4, <1>5, <2>1, <2>2
<1>7. PICK u \in Seq(Units) : u = SubSeq(t, i + 1, i + 4)
  <2>1. SubSeq(t, i + 1, i + 4) \in Seq(Units)
    OBVIOUS
  <2> QED BY <2>1
<1>8. Len(u) = 4 /\ u[1] = t[i + 1] /\ u[2] = t[i + 2] /\ u[3] = t[i + 3] /\ u[4] = t[i + 4]
  <2>1. i + 1 \in Int /\ i + 4 \in Int /\ \A j \in i + 1 .. i + 4 : t[j] \in Units
    OBVIOUS
  <2>2. /\ Len(u) = IF i + 1 <= i + 4 THEN i + 4 - (i + 1) + 1 ELSE 0
        /\ \A j \in 1 .. i + 4 - (i + 1) + 1 : u[j] = t[i + 1 + j - 1]
    BY <1>7, <2>1, SubSeqProperties
  <2>3. i + 4 - (i + 1) + 1 = 4 /\ i + 1 <= i + 4
    OBVIOUS
  <2>4. Len(u) = 4 /\ \A j \in 1 .. 4 : u[j] = t[i + 1 + j - 1]
    BY <2>2, <2>3
  <2>5. u[1] = t[i + 1 + 1 - 1] /\ u[2] = t[i + 1 + 2 - 1] /\ u[3] = t[i + 1 + 3 - 1] /\ u[4] = t[i + 1 + 4 - 1]
    BY <2>4
  <2> QED BY <2>4, <2>5
<1>9. u = s <=> u[1] = s[1] /\ u[2] = s[2] /\ u[3] = s[3] /\ u[4] = s[4]
  BY <1>6, <1>8, FourUnits
<1> QED BY <1>1, <1>2, <1>5, <1>6, <1>7, <1>8, <1>9

LEMMA HeadEnds ==
  ASSUME NEW t \in Seq(Units), NEW m, NEW p, NEW hs, NEW H \in Nat, Headed(t, m, p, hs, H),
         NEW b, Plain(hs, H, b), 3 * H + 7 <= Len(t)
  PROVE  HeaderEnd(t) = 3 * H + 3
<1>1. PICK e \in Nat : e = 3 * H + 3
  OBVIOUS
<1>2. e \in Found(t)
  <2>1. H \in 0 .. H /\ 3 * H + 4 = e + 1 /\ 3 * H + 5 = e + 2 /\ 3 * H + 6 = e + 3 /\ 3 * H + 7 = e + 4
    BY <1>1
  <2>2. t[e + 1] = Ch("cr") /\ t[e + 2] = Ch("lf") /\ t[e + 3] = Ch("cr") /\ t[e + 4] = Ch("lf")
    BY <2>1 DEF Headed
  <2>3. e + 4 <= Len(t) /\ e \in 0 .. Len(t) - 4
    BY <1>1
  <2>4. SubSeq(t, e + 1, e + 4) = CRLF \o CRLF
    BY <2>2, <2>3, EmptyLineAt
  <2> QED BY <2>3, <2>4 DEF Found
<1>3. ASSUME NEW j \in Found(t) PROVE j >= e
  <2>1. j \in Nat /\ j + 4 <= Len(t) /\ SubSeq(t, j + 1, j + 4) = CRLF \o CRLF
    BY DEF Found
  <2>2. t[j + 1] = Ch("cr") /\ t[j + 3] = Ch("cr")
    BY <2>1, EmptyLineAt
  <2>3. ASSUME j < e PROVE FALSE
    <3>1. PICK i \in 1 .. 3 * H + 3 : i = j + 1
      BY <1>1, <2>1, <2>3
    <3>2. t[i] = Ch("cr") /\ t[i + 2] = Ch("cr")
      <4>1. i + 2 = j + 3
        BY <2>1, <3>1
      <4> QED BY <2>2, <3>1, <4>1
    <3>3. t[i].kind = "char"
      BY <3>2, Kinds
    <3> QED BY <3>2, <3>3, HeadUnits
  <2> QED BY <1>1, <2>1, <2>3
<1>4. HeaderEnd(t) \in Found(t) /\ HeaderEnd(t) <= e /\ HeaderEnd(t) \in Int
  <2>1. \/ Found(t) = {} /\ HeaderEnd(t) = -1
        \/ /\ HeaderEnd(t) \in Found(t) /\ \A j \in Found(t) : HeaderEnd(t) <= j
           /\ HeaderEnd(t) \in 0 .. Len(t) - 4
    BY HeaderEndIs
  <2> QED BY <1>2, <2>1
<1>5. HeaderEnd(t) = e
  BY <1>3, <1>4
<1> QED BY <1>1, <1>5

-----------------------------------------------------------------------------
(* The length of the body.                                                 *)

(* The last Content-Length. *)
LEMMA LastLength ==
  ASSUME NEW t \in Seq(Units), LengthPositions(t) # {}
  PROVE  \E k \in LengthPositions(t) : k \in 1 .. Len(t) /\ ContentLength(t) = strtoul(t[k].value)
<1>1. PICK h \in Int : h = HeaderEnd(t) /\ h <= Len(t)
  BY HeaderEndIs
<1>2. PICK P : P = LengthPositions(t) /\ P # {}
  OBVIOUS
<1>3. P \subseteq 1 .. h
  BY <1>1, <1>2 DEF LengthPositions
<1> DEFINE T == {h - i : i \in P}
<1>4. T \subseteq Nat /\ T # {}
  <2>1. \A i \in 1 .. h : h - i \in Nat
    BY <1>1
  <2> QED BY <1>2, <1>3, <2>1
<1> HIDE DEF T
<1>5. PICK x \in T : \A y \in T : x <= y
  BY <1>4, LeastNumber
<1>6. PICK i \in P : x = h - i
  BY DEF T
<1>7. \A j \in P : i >= j
  <2>1. \A j \in P : h - i <= h - j
    BY <1>5, <1>6 DEF T
  <2>2. \A j \in P : j \in Int
    BY <1>3
  <2> QED BY <2>1, <2>2
<1>8. PICK k : k = CHOOSE z \in P : \A j \in P : z >= j
  OBVIOUS
<1>9. k \in P
  BY <1>7, <1>8
<1>10. ContentLength(t) = strtoul(t[k].value)
  BY <1>2, <1>8 DEF ContentLength
<1>11. k \in 1 .. Len(t)
  BY <1>1, <1>3, <1>9
<1> QED BY <1>2, <1>9, <1>10, <1>11

LEMMA LastLengthType ==
  ASSUME NEW t \in Seq(Units)
  PROVE  ContentLength(t) \in Int
<1>1. CASE LengthPositions(t) = {}
  BY <1>1 DEF ContentLength
<1>2. CASE LengthPositions(t) # {}
  <2>1. PICK k \in 1 .. Len(t) : ContentLength(t) = strtoul(t[k].value)
    BY <1>2, LastLength
  <2>2. t[k].value \in Int
    <3>1. t[k] \in Units
      BY <2>1
    <3> QED BY <3>1 DEF Units
  <2>3. strtoul(t[k].value) \in 0 .. SizeMax
    BY <2>2, StrtoulType
  <2> QED BY <2>1, <2>3, SizesAssumption
<1> QED BY <1>1, <1>2

(* Both readings of Content-Length give what a proper request announces. *)
Announced(hs, H, b) == Plain(hs, H, b) /\ (b # 0 => \E k \in 1 .. H : hs[k] = LengthHeader(b))

LEMMA HeadLength ==
  ASSUME NEW t \in Seq(Units), NEW m, NEW p, NEW hs, NEW H \in Nat, Headed(t, m, p, hs, H),
         NEW b \in Nat, Announced(hs, H, b), 3 * H + 7 <= Len(t), b <= SizeMax
  PROVE  http_server_parse_content_length(t) = b /\ ContentLength(t) = b
<1>1. Plain(hs, H, b)
  BY DEF Announced
<1>2. HeaderEnd(t) = 3 * H + 3
  BY <1>1, HeadEnds
<1>3. strtoul(b) = b
  BY SizesAssumption DEF strtoul
<1>4. ASSUME NEW i \in LengthPositions(t) PROVE t[i].value = b
  <2>1. i \in 1 .. 3 * H + 3 /\ t[i].kind = "header" /\ t[i].text = "Content-Length"
    BY <1>2 DEF LengthPositions
  <2>2. t[i] \in {OtherHeader, LengthHeader(b)}
    BY <1>1, <2>1, HeadUnits
  <2> QED BY <2>1, <2>2, Kinds
<1>5. CASE LengthPositions(t) = {}
  <2>1. ASSUME b # 0 PROVE FALSE
    <3>1. PICK k \in 1 .. H : hs[k] = LengthHeader(b)
      BY <2>1 DEF Announced
    <3>2. PICK i \in 1 .. 3 * H + 3 : i = 3 * k + 3
      OBVIOUS
    <3>3. t[i] = LengthHeader(b)
      BY <3>1, <3>2 DEF Headed
    <3>4. t[i - 2] = Ch("cr") /\ t[i - 1] = Ch("lf")
      <4>1. PICK j \in 0 .. H : j = k - 1
        OBVIOUS
      <4>2. 3 * j + 4 = i - 2 /\ 3 * j + 5 = i - 1
        BY <3>2, <4>1
      <4>3. t[3 * j + 4] = Ch("cr") /\ t[3 * j + 5] = Ch("lf")
        BY DEF Headed
      <4> QED BY <4>2, <4>3
    <3>5. i \in 3 .. HeaderEnd(t)
      BY <1>2, <3>2
    <3>6. i \in LengthPositions(t)
      BY <3>3, <3>4, <3>5, Kinds DEF LengthPositions
    <3> QED BY <1>5, <3>6
  <2>2. http_server_parse_content_length(t) = 0 /\ ContentLength(t) = 0
    BY <1>5 DEF http_server_parse_content_length, ContentLength
  <2> QED BY <2>1, <2>2
<1>6. CASE LengthPositions(t) # {}
  <2>1. http_server_parse_content_length(t) = b
    <3>1. PICK i \in LengthPositions(t) : http_server_parse_content_length(t) = strtoul(t[i].value)
      BY <1>6, FirstLength
    <3> QED BY <1>3, <1>4, <3>1
  <2>2. ContentLength(t) = b
    <3>1. PICK i \in LengthPositions(t) : ContentLength(t) = strtoul(t[i].value)
      BY <1>6, LastLength
    <3> QED BY <1>3, <1>4, <3>1
  <2> QED BY <2>1, <2>2
<1> QED BY <1>5, <1>6

(* If the first k units begin words, so many words begin up to there. *)
LEMMA WordsAtLeast ==
  ASSUME NEW t \in Seq(Units), NEW k \in 1 .. 3, NEW n \in Nat, k <= n,
         \A i \in 1 .. k : i \in WordPositions(t)
  PROVE  WordsUpTo(t, n) \in Nat /\ WordsUpTo(t, n) >= k
<1>1. PICK A : A = WordPositions(t) \cap 1 .. n
  OBVIOUS
<1>2. PICK B : B = {i \in 1 .. n : t[i].kind = "header"}
  OBVIOUS
<1>3. IsFiniteSet(1 .. n) /\ IsFiniteSet(1 .. k) /\ Cardinality(1 .. k) = k
  <2>1. 1 \in Int /\ n \in Int /\ k \in Int
    OBVIOUS
  <2>2. Cardinality(1 .. k) = IF 1 > k THEN 0 ELSE k - 1 + 1
    BY <2>1, FS_Interval
  <2> QED BY <2>1, <2>2, FS_Interval
<1>4. IsFiniteSet(A) /\ IsFiniteSet(B)
  <2>1. A \subseteq 1 .. n /\ B \subseteq 1 .. n
    BY <1>1, <1>2
  <2> QED BY <1>3, <2>1, FS_Subset
<1>5. Cardinality(A) \in Nat /\ Cardinality(B) \in Nat
  BY <1>4, FS_CardinalityType
<1>6. 1 .. k \subseteq A
  BY <1>1
<1>7. Cardinality(1 .. k) <= Cardinality(A)
  BY <1>4, <1>6, FS_Subset
<1>8. WordsUpTo(t, n) = Cardinality(A) + Cardinality(B)
  BY <1>1, <1>2 DEF WordsUpTo
<1> QED BY <1>3, <1>5, <1>7, <1>8

(* If the first k units are words, no more than k begin up to there. *)
LEMMA WordsAtMost ==
  ASSUME NEW t \in Seq(Units), NEW k \in 0 .. 2, \A i \in 1 .. k : t[i].kind = "word"
  PROVE  WordsUpTo(t, k) \in Nat /\ WordsUpTo(t, k) <= k
<1>1. PICK A : A = WordPositions(t) \cap 1 .. k
  OBVIOUS
<1>2. PICK B : B = {i \in 1 .. k : t[i].kind = "header"}
  OBVIOUS
<1>3. IsFiniteSet(1 .. k) /\ Cardinality(1 .. k) = k
  <2>1. 1 \in Int /\ k \in Int
    OBVIOUS
  <2>2. IsFiniteSet(1 .. k) /\ Cardinality(1 .. k) = IF 1 > k THEN 0 ELSE k - 1 + 1
    BY <2>1, FS_Interval
  <2> QED BY <2>2
<1>4. B = {}
  BY <1>2
<1>5. Cardinality(B) = 0
  BY <1>4, FS_EmptySet
<1>6. A \subseteq 1 .. k
  BY <1>1
<1>7. Cardinality(A) <= Cardinality(1 .. k) /\ IsFiniteSet(A)
  BY <1>3, <1>6, FS_Subset
<1>8. Cardinality(A) \in Nat
  BY <1>7, FS_CardinalityType
<1>9. WordsUpTo(t, k) = Cardinality(A) + Cardinality(B)
  BY <1>1, <1>2 DEF WordsUpTo
<1> QED BY <1>3, <1>5, <1>7, <1>8, <1>9

(* The words of the request line. *)
LEMMA HeadWords ==
  ASSUME NEW t \in Seq(Units), NEW m, NEW p, NEW hs, NEW H \in Nat, Headed(t, m, p, hs, H),
         3 * H + 7 <= Len(t)
  PROVE  HasThreeWords(t) /\ NthWord(t, 1) = m /\ NthWord(t, 2) = p
<1>1. PICK l \in Nat : l = Len(t) /\ l >= 7
  OBVIOUS
<1>2. t[1] = WordUnit(m) /\ t[2] = WordUnit(p) /\ t[3] = WordUnit("HTTP/1.1")
  BY DEF Headed
<1>3. \A i \in 1 .. 3 : t[i].kind = "word"
  <2>1. \A i \in 1 .. 3 : i = 1 \/ i = 2 \/ i = 3
    OBVIOUS
  <2> QED BY <1>2, <2>1, Kinds
<1>4. \A i \in 1 .. 3 : i \in WordPositions(t)
  <2>1. \A i \in 1 .. 3 : i \in DOMAIN t
    BY <1>1
  <2>2. \A i \in 1 .. 3 : t[i] \notin White
    BY <1>3, Kinds DEF White
  <2>3. \A i \in 1 .. 3 : t[i].kind # "char"
    BY <1>3
  <2> QED BY <2>1, <2>2, <2>3 DEF WordPositions
<1>5. WordPositions(t) \subseteq Nat \ {0}
  BY DEF WordPositions
<1>6. \A n \in Nat : n >= 1 => WordsUpTo(t, n) \in Nat /\ WordsUpTo(t, n) >= 1
  <2>1. 1 \in 1 .. 3 /\ \A i \in 1 .. 1 : i \in WordPositions(t)
    BY <1>4
  <2> QED BY <2>1, WordsAtLeast
<1>7. \A n \in Nat : n >= 2 => WordsUpTo(t, n) \in Nat /\ WordsUpTo(t, n) >= 2
  <2>1. 2 \in 1 .. 3 /\ \A i \in 1 .. 2 : i \in WordPositions(t)
    BY <1>4
  <2> QED BY <2>1, WordsAtLeast
<1>8. WordsUpTo(t, l) >= 3
  <2>1. 3 \in 1 .. 3 /\ 3 <= l
    BY <1>1
  <2> QED BY <1>4, <2>1, WordsAtLeast
<1>9. /\ WordsUpTo(t, 0) \in Nat /\ WordsUpTo(t, 0) <= 0
      /\ WordsUpTo(t, 1) \in Nat /\ WordsUpTo(t, 1) <= 1
  <2>1. /\ 0 \in 0 .. 2 /\ \A i \in 1 .. 0 : t[i].kind = "word"
        /\ 1 \in 0 .. 2 /\ \A i \in 1 .. 1 : t[i].kind = "word"
    BY <1>3
  <2> QED BY <2>1, WordsAtMost
<1>10. NthWord(t, 1) = m
  <2> DEFINE First(i) == WordsUpTo(t, i - 1) < 1 /\ 1 <= WordsUpTo(t, i)
  <2>1. First(1)
    BY <1>6, <1>9
  <2>2. ASSUME NEW i \in WordPositions(t), First(i) PROVE i = 1
    <3>1. i \in Nat /\ i >= 1
      BY <1>5
    <3>2. i # 1 => i - 1 \in Nat /\ i - 1 >= 1
      BY <3>1
    <3>3. i # 1 => WordsUpTo(t, i - 1) \in Nat /\ WordsUpTo(t, i - 1) >= 1
      BY <1>6, <3>2
    <3> QED BY <2>2, <3>3
  <2>3. 1 \in WordPositions(t)
    BY <1>4
  <2> HIDE DEF First
  <2>4. (CHOOSE i \in WordPositions(t) : First(i)) = 1
    BY <2>1, <2>2, <2>3
  <2>5. t[1].kind = "word" /\ t[1].text = m
    BY <1>2, Kinds
  <2> QED BY <2>4, <2>5 DEF NthWord, First
<1>11. NthWord(t, 2) = p
  <2> DEFINE Second(i) == WordsUpTo(t, i - 1) < 2 /\ 2 <= WordsUpTo(t, i)
  <2>1. Second(2)
    BY <1>7, <1>9
  <2>2. ASSUME NEW i \in WordPositions(t), Second(i) PROVE i = 2
    <3>1. i \in Nat /\ i >= 1
      BY <1>5
    <3>2. i # 1
      BY <1>9, <2>2
    <3>3. i # 2 => i - 1 \in Nat /\ i - 1 >= 2
      BY <3>1, <3>2
    <3>4. i # 2 => WordsUpTo(t, i - 1) \in Nat /\ WordsUpTo(t, i - 1) >= 2
      BY <1>7, <3>3
    <3> QED BY <2>2, <3>4
  <2>3. 2 \in WordPositions(t)
    BY <1>4
  <2> HIDE DEF Second
  <2>4. (CHOOSE i \in WordPositions(t) : Second(i)) = 2
    BY <2>1, <2>2, <2>3
  <2>5. t[2].kind = "word" /\ t[2].text = p
    BY <1>2, Kinds
  <2> QED BY <2>4, <2>5 DEF NthWord, Second
<1> QED BY <1>1, <1>8, <1>10, <1>11 DEF HasThreeWords

-----------------------------------------------------------------------------
(* What is read from a request can be said in a response.                  *)

(* What has been found in a request is a text. *)
QueryInv == request.query \in Seq(Units)

LEMMA NoRequestQuery == \A m, p, q : Request(m, p, q).query = q /\ <<>> \in Seq(Units)
BY DEF Request

LEMMA ParseQuery ==
  ASSUME ReadInv, QueryInv, Parse
  PROVE  QueryInv'
<1>1. CASE request' = request
  BY <1>1 DEF QueryInv
<1>2. CASE request' = Request(Method(buffer), Path(buffer), <<>>)
  BY <1>2, NoRequestQuery DEF QueryInv
<1>3. CASE request' = Request("POST", "/query", <<Ch("unknown")>>)
  <2>1. PICK c \in Units : c = Ch("unknown")
    BY NamedUnits
  <2>2. <<c>> \in Seq(Units)
    OBVIOUS
  <2>3. request'.query = <<c>>
    BY <1>3, <2>1, NoRequestQuery
  <2> QED BY <2>2, <2>3 DEF QueryInv
<1>4. CASE /\ pc = "parsing"
           /\ ~(HeaderEnd(buffer) + 4 + ContentLength(buffer) > total)
           /\ request' = Request("POST", "/query", api_extract_query_string(Body(buffer)).text)
  <2>1. wire \in Seq(Units) /\ total \in 0 .. Len(wire) /\ buffer = Prefix(total)
    BY SizesAssumption DEF ReadInv, TypeOK, buffer, Prefix
  <2>2. PICK b \in Seq(Units) : b = buffer /\ Len(b) = total
    BY <2>1, PrefixIs
  <2>3. PICK h \in Int : h = HeaderEnd(b) /\ h >= -1
    BY HeaderEndIs
  <2>4. PICK c \in Int : c = ContentLength(b)
    BY LastLengthType
  <2>5. ~(h + 4 + c > total)
    BY <1>4, <2>2, <2>3, <2>4
  <2>6. total \in Nat
    BY <2>1
  <2>7. \A i \in h + 5 .. h + 4 + c : i \in 1 .. total
    BY <2>3, <2>5, <2>6
  <2>8. \A i \in h + 5 .. h + 4 + c : b[i] \in Units
    <3>1. \A i \in 1 .. total : b[i] \in Units
      BY <2>2
    <3> QED BY <2>7, <3>1
  <2>9. SubSeq(b, h + 5, h + 4 + c) \in Seq(Units)
    <3>1. h + 5 \in Int /\ h + 4 + c \in Int
      OBVIOUS
    <3> QED BY <2>8, <3>1, SubSeqProperties
  <2>10. Body(buffer) \in Seq(Units)
    BY <2>2, <2>3, <2>4, <2>9 DEF Body
  <2>11. api_extract_query_string(Body(buffer)).text \in Seq(Units)
    BY <2>10, ExtractType DEF Literals
  <2> QED BY <1>4, <2>11, NoRequestQuery DEF QueryInv
<1> QED BY <1>1, <1>2, <1>3, <1>4 DEF Parse, Refuse

LEMMA NextQuery ==
  ASSUME ReadInv, QueryInv, [Next]_vars
  PROVE  QueryInv'
<1>1. CASE Parse
  BY <1>1, ParseQuery
<1>2. CASE UNCHANGED request
  BY <1>2 DEF QueryInv
<1>3. ASSUME NEW n \in 1 .. Len(wire), Recv(n) PROVE UNCHANGED request
  BY <1>3 DEF Recv, Refuse
<1>4. EndOfInput \/ RecvError \/ UNCHANGED vars => UNCHANGED request
  BY DEF EndOfInput, RecvError, Refuse, vars
<1> QED BY <1>1, <1>2, <1>3, <1>4 DEF Next

(* Whatever a client sends, what is read from it as a statement survives   *)
(* api_escape_json_string_alloc: a JSON reader of the response gets the    *)
(* same text, and knows where it ends.                                     *)
THEOREM TextsComeBack == Spec => []EscapesDecode
<1>1. Init => QueryInv
  <2> SUFFICES ASSUME Init PROVE QueryInv
    OBVIOUS
  <2>1. request = NoRequest
    BY DEF Init
  <2>2. NoRequest.query = <<>>
    BY DEF NoRequest, Request
  <2> QED BY <2>1, <2>2, NoRequestQuery, Zenon DEF QueryInv
<1>2. ReadInv /\ ReadInv' /\ QueryInv /\ [Next]_vars => QueryInv'
  BY NextQuery
<1>3. QueryInv => EscapesDecode
  <2> SUFFICES ASSUME QueryInv, \A i \in DOMAIN request.query : request.query[i] # Ch("control"),
                      NEW said,
                      said = <<Ch("quote")>> \o api_escape_json_string_alloc(request.query) \o <<Ch("quote")>>
               PROVE  LET back == api_parse_json_string(said, 1, Len(said))
                      IN  back.ok /\ back.text = request.query /\ back.next = Len(said) + 1
    BY DEF EscapesDecode
  <2>1. PICK q \in Seq(Units) : q = request.query
    BY DEF QueryInv
  <2>2. PICK n \in Nat : n = Len(q) /\ \A i \in 1 .. n : q[i] # Ch("control")
    BY <2>1
  <2>3. Quoted(said, api_escape_json_string_alloc(q), Ch("quote"))
    BY <2>1 DEF Quoted
  <2>4. api_parse_json_string(said, 1, Len(said)) = [ok |-> TRUE, next |-> Len(said) + 1, text |-> q]
    BY <2>2, <2>3, RoundTrip
  <2> QED BY <2>1, <2>4
<1> QED BY <1>1, <1>2, <1>3, ReadInvariance, PTL DEF Spec

-----------------------------------------------------------------------------
(* A request that is sent as a client should is understood.                *)

(* What the two parsers find in a text that begins with the request r. *)
Recognised(t, r, L) ==
  /\ HeaderEnd(t) >= 0 /\ ExpectedTotal(t) = L /\ ~TooLong(L) /\ L <= Len(t)
  /\ HasThreeWords(t) /\ Method(t) = r.method /\ Path(t) = r.path
  /\ ContentLength(t) = Len(Content(r)) /\ HeaderEnd(t) + 4 + ContentLength(t) <= Len(t)
  /\ Body(t) = Content(r)

LEMMA SmallRemainder == \A n \in Nat : n <= SizeMax => n % (SizeMax + 1) = n
  BY SizesAssumption

LEMMA RequestRecognised ==
  ASSUME NEW r, Proper(r), NEW t \in Seq(Units), Holds(t, 0, Message(r)),
         NEW L \in Nat, L = Len(Message(r))
  PROVE  Recognised(t, r, L)
<1>1. PICK m \in Words, p \in Words, hs \in Seq(Units), body \in Seq(Units) :
        m = r.method /\ p = r.path /\ hs = r.headers /\ body = Content(r)
  BY MessageType
<1>2. PICK b \in Nat : b = Len(body)
  OBVIOUS
<1>3. PICK H \in Nat : H = Len(hs)
  OBVIOUS
<1>4. PICK msg : msg = Text(Line(m, p), hs, body) /\ msg = Message(r)
  BY <1>1 DEF Message
<1>5. /\ Headed(t, m, p, hs, H) /\ Holds(t, 3 * H + 7, body)
      /\ Len(msg) = 3 * H + 7 + b /\ 3 * H + 7 + b <= Len(t)
  <2>1. Holds(t, 0, msg)
    BY <1>4
  <2>2. H = Len(hs) /\ b = Len(body) /\ msg = Text(Line(m, p), hs, body)
    BY <1>2, <1>3, <1>4
  <2>3. Headed(t, m, p, hs, H)
    BY <2>1, <2>2, HeadIs
  <2>4. Holds(t, 3 * H + 7, body)
    BY <2>1, <2>2, HeadIs
  <2>5. Len(msg) = 3 * H + 7 + b
    BY <2>1, <2>2, HeadIs
  <2>6. 3 * H + 7 + b <= Len(t)
    BY <2>1, <2>2, HeadIs
  <2> QED BY <2>3, <2>4, <2>5, <2>6
<1>6. L = 3 * H + 7 + b
  BY <1>4, <1>5
<1>7. L < BufferSize /\ L < SizeMax /\ r.method \in {"GET", "POST"}
  BY DEF Proper
<1>8. Announced(hs, H, b)
  <2>1. r.headers \in Seq({OtherHeader, LengthHeader(b)})
    BY <1>1, <1>2 DEF Proper
  <2>2. Plain(hs, H, b)
    BY <1>1, <1>3, <2>1 DEF Plain
  <2>3. ASSUME b # 0 PROVE \E k \in 1 .. H : hs[k] = LengthHeader(b)
    <3>1. Asks(r)
      <4>1. ~Asks(r) => body = <<>>
        BY <1>1 DEF Content
      <4> QED BY <1>2, <2>3, <4>1
    <3>2. \E k \in DOMAIN r.headers : r.headers[k] = LengthHeader(b)
      BY <1>1, <1>2, <3>1 DEF Proper
    <3> QED BY <1>1, <1>3, <3>2
  <2> QED BY <2>2, <2>3 DEF Announced
<1>9. 3 * H + 7 <= Len(t) /\ b <= SizeMax
  BY <1>5, <1>6, <1>7, SizesAssumption
<1>10. HeaderEnd(t) = 3 * H + 3
  BY <1>5, <1>8, <1>9, HeadEnds DEF Announced
<1>11. http_server_parse_content_length(t) = b /\ ContentLength(t) = b
  BY <1>5, <1>8, <1>9, HeadLength
<1>12. HasThreeWords(t) /\ NthWord(t, 1) = m /\ NthWord(t, 2) = p
  BY <1>5, <1>9, HeadWords
<1>13. Method(t) = r.method /\ Path(t) = r.path
  BY <1>1, <1>7, <1>12 DEF Method, Path
<1>14. ExpectedTotal(t) = L
  <2>1. 3 * H + 3 + 4 + b = L
    BY <1>6
  <2>4. L <= SizeMax
    BY <1>6, <1>7, <1>4, <1>5, SizesAssumption
  <2>2. ExpectedTotal(t) = L % (SizeMax + 1)
    BY <1>10, <1>11, <2>1 DEF ExpectedTotal
  <2>3. L % (SizeMax + 1) = L
    BY <2>4, SmallRemainder
  <2> QED BY <2>2, <2>3
<1>15. ~TooLong(L)
  <2>1. L + 1 \in Nat /\ L + 1 <= SizeMax /\ ~(L + 1 > BufferSize)
    BY <1>7, SizesAssumption
  <2>2. (L + 1) % (SizeMax + 1) = L + 1
    BY <2>1, SmallRemainder
  <2> QED BY <2>1, <2>2 DEF TooLong
<1>16. Body(t) = body
  <2>1. PICK o \in Nat : o = 3 * H + 7
    OBVIOUS
  <2>2. HeaderEnd(t) + 5 = o + 1 /\ HeaderEnd(t) + 4 + ContentLength(t) = o + b
    BY <1>10, <1>11, <2>1
  <2>3. Body(t) = SubSeq(t, o + 1, o + b)
    BY <2>2 DEF Body
  <2>4. o + b <= Len(t) /\ \A k \in 1 .. b : t[o + k] = body[k]
    BY <1>2, <1>5, <2>1 DEF Holds
  <2>5. PICK s : s = SubSeq(t, o + 1, o + b)
    OBVIOUS
  <2>6. s \in Seq(Units) /\ Len(s) = b /\ \A k \in 1 .. b : s[k] = t[o + k]
    <3>1. o + 1 \in Int /\ o + b \in Int /\ \A i \in o + 1 .. o + b : t[i] \in Units
      BY <2>4
    <3>2. /\ s \in Seq(Units)
          /\ Len(s) = IF o + 1 <= o + b THEN o + b - (o + 1) + 1 ELSE 0
          /\ \A k \in 1 .. o + b - (o + 1) + 1 : s[k] = t[o + 1 + k - 1]
      BY <2>5, <3>1, SubSeqProperties
    <3>3. (IF o + 1 <= o + b THEN o + b - (o + 1) + 1 ELSE 0) = b /\ o + b - (o + 1) + 1 = b
      OBVIOUS
    <3>4. \A k \in 1 .. b : o + 1 + k - 1 = o + k
      OBVIOUS
    <3> QED BY <3>2, <3>3, <3>4
  <2>7. Len(s) = Len(body) /\ \A k \in 1 .. Len(s) : s[k] = body[k]
    BY <1>2, <2>4, <2>6
  <2>8. s = body
    BY <2>6, <2>7, SeqEqual
  <2> QED BY <2>3, <2>5, <2>8
<1>17. HeaderEnd(t) + 4 + ContentLength(t) <= Len(t) /\ L <= Len(t) /\ HeaderEnd(t) >= 0
  BY <1>5, <1>6, <1>10, <1>11
<1> QED BY <1>1, <1>2, <1>11, <1>12, <1>13, <1>14, <1>15, <1>16, <1>17 DEF Recognised

(* Where the wire begins with the request, so does what is received of it  *)
(* when enough has been received.                                          *)
LEMMA PrefixHolds ==
  ASSUME NEW msg \in Seq(Units), NEW more \in Seq(Units), wire = msg \o more,
         NEW k \in 0 .. Len(wire), Len(msg) <= k
  PROVE  Prefix(k) \in Seq(Units) /\ Len(Prefix(k)) = k /\ Holds(Prefix(k), 0, msg)
<1>1. PICK w \in Seq(Units) : w = msg \o more
  <2>1. msg \o more \in Seq(Units)
    OBVIOUS
  <2> QED BY <2>1
<1>2. wire \in Seq(Units) /\ wire = w
  BY <1>1
<1>3. Prefix(k) \in Seq(Units) /\ Len(Prefix(k)) = k /\ \A i \in 1 .. k : Prefix(k)[i] = wire[i]
  BY <1>2, PrefixIs
<1>4. \A i \in 1 .. Len(msg) : w[i] = msg[i]
  BY <1>1
<1>5. ASSUME NEW i \in 1 .. Len(msg) PROVE Prefix(k)[0 + i] = msg[i]
  <2>1. i \in 1 .. k /\ 0 + i = i
    OBVIOUS
  <2> QED BY <1>2, <1>3, <1>4, <2>1
<1> QED BY <1>3, <1>5 DEF Holds

Sent(r) == Proper(r) /\ wire = Message(r) \o r.more

LEMMA SentIs ==
  ASSUME NEW r, Sent(r)
  PROVE  \E L \in Nat : /\ L = Len(Message(r)) /\ L < BufferSize /\ L <= Len(wire)
                        /\ \A k \in L .. Len(wire) :
                             Len(Prefix(k)) = k /\ Recognised(Prefix(k), r, L)
<1>1. Proper(r) /\ wire = Message(r) \o r.more
  BY DEF Sent
<1>2. PICK msg \in Seq(Units), more \in Seq(Units) : msg = Message(r) /\ more = r.more
  BY <1>1, MessageType DEF Proper
<1>3. PICK L \in Nat : L = Len(msg)
  OBVIOUS
<1>4. wire = msg \o more /\ L <= Len(wire)
  BY <1>1, <1>2, <1>3
<1>5. L < BufferSize
  BY <1>1, <1>2, <1>3 DEF Proper
<1>6. ASSUME NEW k \in L .. Len(wire) PROVE Len(Prefix(k)) = k /\ Recognised(Prefix(k), r, L)
  <2>1. k \in 0 .. Len(wire) /\ Len(msg) <= k
    BY <1>3
  <2>2. Prefix(k) \in Seq(Units) /\ Len(Prefix(k)) = k /\ Holds(Prefix(k), 0, msg)
    BY <1>4, <2>1, PrefixHolds
  <2>3. PICK t \in Seq(Units) : t = Prefix(k) /\ Holds(t, 0, Message(r))
    BY <1>2, <2>2
  <2>4. L = Len(Message(r))
    BY <1>2, <1>3
  <2>5. Recognised(t, r, L)
    BY <1>1, <2>3, <2>4, RequestRecognised
  <2> QED BY <2>2, <2>3, <2>5
<1> QED BY <1>2, <1>3, <1>4, <1>5, <1>6

(* The loop comes to the end of the request. *)
LEMMA SentComplete ==
  ASSUME NEW r, Sent(r), wire \in Seq(Units)
  PROVE  ReadVerdict = "complete"
<1>1. PICK L \in Nat : /\ L < BufferSize /\ L <= Len(wire)
                       /\ \A k \in L .. Len(wire) : Len(Prefix(k)) = k /\ Recognised(Prefix(k), r, L)
  BY SentIs
<1>2. Visible \in L .. Len(wire)
  BY <1>1, SizesAssumption DEF Visible
<1>3. PICK t : t = Prefix(Visible)
  OBVIOUS
<1>4. Recognised(t, r, L)
  BY <1>1, <1>2, <1>3
<1>5. HeaderEnd(t) \in Int /\ HeaderEnd(t) >= 0 /\ ~TooLong(ExpectedTotal(t)) /\ ~(Len(t) < ExpectedTotal(t))
  <2>1. HeaderEnd(t) >= 0 /\ ExpectedTotal(t) = L /\ ~TooLong(L) /\ L <= Len(t)
    BY <1>4 DEF Recognised
  <2>2. t \in Seq(Units)
    BY <1>2, <1>3, PrefixIs
  <2>3. HeaderEnd(t) \in Int /\ Len(t) \in Nat
    BY <2>2, HeaderEndIs
  <2> QED BY <2>1, <2>3
<1>6. ~(HeaderEnd(t) < 0)
  BY <1>5
<1> QED BY <1>3, <1>5, <1>6, VerdictForm

(* The parser finds what the client means. *)
LEMMA SentParsed ==
  ASSUME NEW r, Sent(r), ReadInv, Parse
  PROVE  pc' = "routing" /\ request' = Meaning(r)
<1>1. PICK L \in Nat : /\ L = Len(Message(r)) /\ L <= Len(wire)
                       /\ \A k \in L .. Len(wire) : Len(Prefix(k)) = k /\ Recognised(Prefix(k), r, L)
  BY SentIs
<1>2. pc = "parsing"
  BY DEF Parse
<1>3. /\ wire \in Seq(Units) /\ total \in 0 .. Len(wire) /\ buffer = Prefix(total)
      /\ HeaderEnd(buffer) >= 0 /\ expected_total = ExpectedTotal(buffer) /\ total >= expected_total
  BY <1>2, SizesAssumption DEF ReadInv, TypeOK, buffer, Prefix
<1>4. expected_total = L
  <2>1. Len(wire) \in total .. Len(wire) /\ Len(wire) \in L .. Len(wire)
    BY <1>1, <1>3
  <2>2. ExpectedTotal(Prefix(Len(wire))) = ExpectedTotal(Prefix(total))
    BY <1>3, <2>1, ExpectedTotalStays
  <2>3. ExpectedTotal(Prefix(Len(wire))) = L
    BY <1>1, <2>1 DEF Recognised
  <2> QED BY <1>3, <2>2, <2>3
<1>5. total \in L .. Len(wire)
  BY <1>1, <1>3, <1>4
<1>6. PICK t : t = buffer /\ Len(t) = total /\ Recognised(t, r, L)
  BY <1>1, <1>3, <1>5
<1>7. /\ HasThreeWords(t) /\ Method(t) = r.method /\ Path(t) = r.path
      /\ ContentLength(t) = Len(Content(r)) /\ HeaderEnd(t) + 4 + ContentLength(t) <= total
      /\ Body(t) = Content(r)
  BY <1>6 DEF Recognised
<1>8. Proper(r)
  BY DEF Sent
<1>9. ASSUME ~Asks(r) PROVE pc' = "routing" /\ request' = Meaning(r)
  <2>1. ~(Method(t) = "POST" /\ Path(t) = "/query")
    BY <1>7, <1>9 DEF Asks
  <2>2. pc' = "routing" /\ request' = Request(Method(t), Path(t), <<>>)
    BY <1>6, <1>7, <2>1 DEF Parse
  <2> QED BY <1>7, <1>9, <2>2 DEF Meaning
<1>10. ASSUME Asks(r) PROVE pc' = "routing" /\ request' = Meaning(r)
  <2>1. Method(t) = "POST" /\ Path(t) = "/query" /\ r.method = "POST" /\ r.path = "/query"
    BY <1>7, <1>10 DEF Asks
  <2>9. PICK ms \in Seq(Members) : ms = r.members
    BY <1>8, <1>10 DEF Proper
  <2>2. PICK a \in 1 .. Len(ms) : a = r.asked /\ Statement(ms[a]) /\ \A i \in 1 .. a - 1 : Other(ms[i])
    BY <1>8, <1>10, <2>9 DEF Proper
  <2>3. Body(t) = Object(ms) /\ ContentLength(t) = Len(Object(ms))
    BY <1>7, <1>10, <2>9 DEF Content
  <2>4. /\ api_extract_query_string(Body(t)).ok = TRUE
        /\ api_extract_query_string(Body(t)).text = Says(ms[a].value)
    BY <2>2, <2>3, ObjectRead
  <2>5. ContentLength(t) # 0
    <3>1. PICK x \in Seq(Units) : x = Object(ms) /\ x # <<>>
      <4>1. PICK n \in Nat : n = Len(ms)
        OBVIOUS
      <4> QED BY <4>1, ObjectLaid
    <3>2. Len(x) # 0
      BY <3>1
    <3> QED BY <2>3, <3>1, <3>2
  <2>6. ~(HeaderEnd(t) + 4 + ContentLength(t) > total)
    <3>1. t \in Seq(Units)
      BY <1>3, <1>6, PrefixIs
    <3>2. HeaderEnd(t) \in Int /\ ContentLength(t) \in Int /\ total \in Int
      BY <1>3, <3>1, HeaderEndIs, LastLengthType
    <3> QED BY <1>7, <3>2
  <2>7. /\ pc' = "routing"
        /\ request' = Request("POST", "/query", api_extract_query_string(Body(t)).text)
    BY <1>6, <1>7, <2>1, <2>4, <2>5, <2>6 DEF Parse
  <2> QED BY <1>10, <2>1, <2>2, <2>4, <2>7, <2>9 DEF Meaning
<1> QED BY <1>9, <1>10

(* What is known of the client, and the reasons to refuse. *)
MeantInv == meant # Unclear => \E r : Sent(r) /\ meant = Meaning(r)

LEMMA NextUnderstood ==
  ASSUME ReadInv, WhyInv, WhyInv', MeantInv, Understood, [Next]_vars
  PROVE  MeantInv' /\ Understood'
<1>1. wire' = wire /\ meant' = meant
  BY DEF Next, Recv, EndOfInput, RecvError, Parse, vars
<1>2. MeantInv'
  BY <1>1 DEF MeantInv, Sent
<1>3. ASSUME meant # Unclear
      PROVE  (pc' = "routing" => request' = meant) /\ (pc' = "refused" => why' = "socket error")
  <2>1. PICK r : Sent(r) /\ meant = Meaning(r)
    BY <1>3 DEF MeantInv
  <2>2. ReadVerdict' = "complete"
    <3>1. ReadVerdict = "complete"
      BY <2>1, SentComplete DEF ReadInv
    <3> QED BY <1>1, <3>1 DEF ReadVerdict
  <2>3. why' \notin {"incomplete headers", "incomplete body", "too long"}
    BY <2>2 DEF WhyInv
  <2>4. CASE Parse
    <3>1. pc' = "routing" /\ request' = Meaning(r)
      BY <2>1, <2>4, SentParsed
    <3> QED BY <2>1, <3>1
  <2>5. CASE RecvError
    BY <2>5 DEF RecvError, Refuse
  <2>6. CASE EndOfInput
    BY <2>3, <2>6 DEF EndOfInput, Refuse
  <2>7. ASSUME NEW n \in 1 .. Len(wire), Recv(n)
        PROVE  (pc' = "routing" => request' = meant) /\ (pc' = "refused" => why' = "socket error")
    BY <2>3, <2>7 DEF Recv, Refuse
  <2>8. CASE UNCHANGED vars
    BY <1>3, <2>8 DEF vars, Understood
  <2> QED BY <2>4, <2>5, <2>6, <2>7, <2>8 DEF Next
<1> QED BY <1>1, <1>2, <1>3 DEF Understood

(* A proper request, with whatever headers and members, and the statement  *)
(* spelled with or without the escapes the JSON reader knows, is read from *)
(* the pieces it comes in as the client means it, and refused only if the  *)
(* connection fails.                                                       *)
THEOREM RequestsUnderstood == Spec => []Understood
<1>1. Init => MeantInv /\ Understood
  <2> SUFFICES ASSUME Init PROVE MeantInv /\ Understood
    OBVIOUS
  <2>1. MeantInv
    <3>1. ASSUME NEW r \in Requests, wire = Message(r) \o r.more, meant = Meaning(r)
          PROVE  \E x : Sent(x) /\ meant = Meaning(x)
      BY <3>1, ClientsAssumption DEF Sent
    <3>2. meant = Unclear \/ \E r \in Requests : wire = Message(r) \o r.more /\ meant = Meaning(r)
      BY Zenon DEF Init
    <3> QED BY <3>1, <3>2, Zenon DEF MeantInv
  <2>2. pc = "reading"
    BY DEF Init
  <2> QED BY <2>1, <2>2 DEF Understood
<1>2. Init => WhyInv
  BY DEF Init, WhyInv
<1>3. ReadInv /\ WhyInv /\ [Next]_vars => WhyInv'
  BY NextWhyInv
<1>4. ReadInv /\ WhyInv /\ WhyInv' /\ MeantInv /\ Understood /\ [Next]_vars => MeantInv' /\ Understood'
  BY NextUnderstood
<1> QED BY <1>1, <1>2, <1>3, <1>4, ReadInvariance, PTL DEF Spec

=============================================================================
