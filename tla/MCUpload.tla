------------------------------ MODULE MCUpload ------------------------------
(* A station that uploads missions, among them one that is too long, and   *)
(* parts of them, and one on a second link that clears the mission.        *)
EXTENDS Upload

MCPlans == <<{"A", "B", "L"}, {}>>
MCLength == [A |-> 2, B |-> 1, L |-> 3]
MCBroken == {<<"L", 2>>}
MCPartial == [A |-> {0, 1}, B |-> {}, L |-> {}]
MCSends == <<{"list", "guided"}, {"clear"}>>
=============================================================================
