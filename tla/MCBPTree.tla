------------------------------ MODULE MCBPTree ------------------------------
(* Instances of BPTree for TLC. *)
EXTENDS BPTree

Six == 1 .. 6

=============================================================================
