----------------------------- MODULE MCMission -----------------------------
(* Missions for TLC: home and up to four commands. *)
EXTENDS Mission

Wp         == Home
DoCmd      == [kind |-> "do", target |-> 0, times |-> 0]
Jump(t, n) == [kind |-> "jump", target |-> t, times |-> n]

\* every mission of n commands drawn from cs, uploaded completely
MissionsOf(n, cs) ==
    {[storage |-> [i \in 0 .. CAPACITY - 1 |-> IF i \in 1 .. n THEN f[i] ELSE Home], total |-> n + 1] :
        f \in [1 .. n -> cs]}

LoopMissions ==
    MissionsOf(3, {Wp, DoCmd, Jump(1, 2), Jump(2, 1), Jump(1, FOREVER), Jump(2, FOREVER), Jump(3, 1),
                   Jump(0, 1), Jump(5, 1)})
    \cup MissionsOf(4, {Wp, DoCmd, Jump(1, 2), Jump(2, FOREVER), Jump(3, 1), Jump(0, 1)})

PlannedMissions == 
    MissionsOf(3, {Wp, DoCmd, Jump(1, 1), Jump(2, 2), Jump(3, 1), Jump(5, 1), Jump(1, FOREVER)})
EmptyMission == MissionsOf(0, {Wp})
EditCommands == {Wp, DoCmd, Jump(1, 1), Jump(2, FOREVER)}

=============================================================================
