------------------------------ MODULE MCHfSink ------------------------------
(***************************************************************************)
(* Small instances of HfSink for TLC.                                      *)
(***************************************************************************)
EXTENDS HfSink

CONSTANTS s1, s2, o1, o2

MCPair == {s1, s2}
MCObjects == {o1, o2}
=============================================================================
