------------------------------- MODULE MCPoll -------------------------------
(***************************************************************************)
(* A small instance of Poll for TLC: two readings of one key, the second   *)
(* of them a corrected value; a wall clock of three readings in three      *)
(* windows.                                                                *)
(***************************************************************************)
EXTENDS Poll

CONSTANTS a1, a2, ka, here

MCReadings == {a1, a2}
MCRecords == {<<a1, 1>>, <<a2, 1>>}
MCKeyOf == [x \in MCReadings |-> ka]
MCStations == {here}
MCStationOf == [x \in MCReadings |-> here]
MCTurns == {0, 2, 4}
MCNoPoison == {}
=============================================================================
