------------------------------ MODULE MCStack ------------------------------
(***************************************************************************)
(* Small instances of Stack for TLC: outer windows of one second inside    *)
(* inner windows of two.                                                   *)
(***************************************************************************)
EXTENDS Stack, TLC

CONSTANTS r1, r2

MCRecords == {r1, r2}
MCTimes == 0..2
MCWindows == 0..2
MCInnerTimes == 0..3
MCInnerWindows == {0, 2}
MCSymmetry == Permutations(Records)
=============================================================================
