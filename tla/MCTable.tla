------------------------------ MODULE MCTable ------------------------------
(* The users TLC inserts: three names, one of them too long to be stored   *)
(* whole and then like another one, and four ages.                         *)
EXTENDS Table

NameOf(id) == CASE id % 3 = 0 -> <<"k", "i", "m">>
                [] id % 3 = 1 -> <<"k", "i", "m", "s">>
                [] OTHER -> <<"l", "e">>
MixedUsers == [id \in 1 .. MaxId |-> [name |-> NameOf(id), age |-> id % 4]]
=============================================================================
