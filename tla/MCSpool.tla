------------------------------ MODULE MCSpool ------------------------------
(***************************************************************************)
(* Small instances of Spool for TLC: wall clock 0..3 or 0..5 in windows of *)
(* two seconds, three records, a valve at two.                             *)
(***************************************************************************)
EXTENDS Spool, TLC

CONSTANTS r1, r2, r3

MCRecords == {r1, r2, r3}
MCPair == {r1, r2}
MCTimes == 0..3
MCWindows == {0, 2}
MCLongTimes == 0..5
MCLongWindows == {0, 2, 4}
MCNoPoison == {}

(* Records are interchangeable unless one of them is poison.               *)
MCSymmetry == Permutations(Records)
=============================================================================
