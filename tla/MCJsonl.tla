------------------------------ MODULE MCJsonl ------------------------------
(***************************************************************************)
(* Small instances of JsonlStore: three records in batches of one or two.  *)
(***************************************************************************)
EXTENDS JsonlStore

CONSTANTS r1, r2, r3

MCRecords == {r1, r2, r3}
MCBatches ==
    {<<r>> : r \in MCRecords}
    \cup {b \in [1..2 -> MCRecords] : b[1] # b[2]}
MCSymmetry == Permutations(MCRecords)
=============================================================================
