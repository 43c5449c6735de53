---------------------------- MODULE UniqueIndex ----------------------------
(***************************************************************************)
(* What the primary key index (src/core/bptree.h) promises table.c: a set  *)
(* of key/value pairs with no key twice.  An insert adds its pair and says *)
(* 1, or leaves everything as it was and says 0.  No pair ever disappears, *)
(* changes its value or is added by a call that says 0.                    *)
(***************************************************************************)
EXTENDS Naturals

CONSTANTS Keys, Values

VARIABLES entries,  \* the pairs <<key, value>>
          answer    \* what the last insert said; 2 while it is under way

vars == <<entries, answer>>

Init == entries = {} /\ answer = 0

Insert(k, v) ==
  /\ answer # 2
  /\ \A e \in entries : e[1] # k
  /\ entries' = entries \union {<<k, v>>}
  /\ answer' \in {1, 2}

Complete ==
  /\ answer = 2
  /\ answer' = 1
  /\ UNCHANGED entries

Refuse ==
  /\ answer # 2
  /\ answer' = 0
  /\ UNCHANGED entries

Next == (\E k \in Keys, v \in Values : Insert(k, v)) \/ Complete \/ Refuse

Spec == Init /\ [][Next]_vars

=============================================================================
