------------------------- MODULE MCHTTPRequestQueue -------------------------
(* Instances of HTTPRequestQueue for TLC.                                 *)
EXTENDS HTTPRequestQueue, TLC

Symmetry == Permutations(Workers) \union Permutations(Sockets)

=============================================================================
