------------------------------ MODULE MCBucket ------------------------------
(***************************************************************************)
(* A small instance of Bucket for TLC: windows of two pipelines with the   *)
(* same content, which the content store keeps once.                       *)
(***************************************************************************)
EXTENDS Bucket, TLC

CONSTANTS s1, s2, p, q, few

MCSinks == {s1, s2}
MCWindow(name, content) ==
    [pipeline |-> name, start |-> 0, end |-> 60, content |-> content]
MCWindows == {MCWindow(p, few), MCWindow(q, few)}
=============================================================================
