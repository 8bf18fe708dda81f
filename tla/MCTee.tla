------------------------------- MODULE MCTee -------------------------------
(***************************************************************************)
(* A small instance of Tee for TLC: two records, a wall clock of three     *)
(* readings in three windows of two seconds, a valve at two.               *)
(***************************************************************************)
EXTENDS Tee

CONSTANTS r1, r2

MCRecords == {r1, r2}
MCTurns == {0, 2, 4}
=============================================================================
