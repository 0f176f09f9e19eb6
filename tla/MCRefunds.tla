------------------------------ MODULE MCRefunds ------------------------------
(* Small instances of Refunds for TLC. *)
EXTENDS Refunds, TLC

TaskSymmetry == Permutations(Tasks)
=============================================================================
