--------------------------- MODULE MCMissionTrace --------------------------
(* The missions of MCMission, flown with a history.                        *)
EXTENDS MissionTrace, MCMission

=============================================================================
