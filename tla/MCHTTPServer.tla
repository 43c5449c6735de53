---------------------------- MODULE MCHTTPServer ----------------------------
(* Instances of HTTPServer for TLC. *)
EXTENDS HTTPServer, TLC

Request(m, p) == [method |-> m, path |-> p]

QueryOnly == {Request("POST", "/query")}
HealthOnly == {Request("GET", "/health")}

(* The same path with two methods, and an unknown path. *)
MixedRequests == {Request("POST", "/query"), Request("GET", "/query"), Request("GET", "/other")}

Symmetry == Permutations(Conns) \union Permutations(Workers)

=============================================================================
