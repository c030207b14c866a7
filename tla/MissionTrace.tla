---------------------------- MODULE MissionTrace ---------------------------
(* Mission with a history: the way the current leg took through the list.  *)
EXTENDS Mission

VARIABLES
    origin,     \* where the search for the next navigation command begins
    path,       \* the commands the last such search passed, and the one it found
    started     \* the do commands started since it began

history == <<origin, path, started>>

TraceInit ==
    /\ Init
    /\ origin = FIRST /\ path = {} /\ started = {}

\* a search for a navigation command begins with this step, or goes on
Begins   == ~Counting /\ Counting'
Continues == Counting /\ Counting'

\* a do command of the leg is started, or is a parachute, whose release disarms and resets
Starts   == state' = "RUNNING" /\ do_cmd_loaded' /\ pc' # "restart_do" /\ after_look' # "restart_do"
Releases == Continues /\ armed # armed'

Record ==
    /\ origin' = IF Begins THEN cursor' ELSE IF Continues THEN origin ELSE After(nav_cmd'.index)
    /\ path' = IF Begins THEN {cursor'} ELSE IF Continues THEN path \cup {cursor'} ELSE path
    /\ started' = IF Begins THEN {}
                  ELSE started \cup (IF Starts THEN {do_index'} ELSE {})
                               \cup (IF Releases THEN {cursor} ELSE {})

TraceNext == Flight /\ Record

TraceSpec == TraceInit /\ [][TraceNext]_<<vars, history>>

-----------------------------------------------------------------------------
Plan == INSTANCE MissionPlan WITH at <- nav_cmd.index, from <- origin, selecting <- (pc = "set")

\* The mission as the code flies it is one the plan allows: no interleaving of
\* updates, selections, stops and restarts flies to a command that the list does
\* not lead to, or completes a mission that leads to no end.
FollowsThePlan == Plan!Spec

Dos(indices) == {k \in indices : ReadCmd(k).kind = "do"}

\* No command of the mission is a jump.
Straight == \A i \in 1 .. cmd_total - 1 : storage[i].kind # "jump"

\* When all do commands are said to be done, each do command on the way to the
\* current navigation command has been started (AP_Mission.cpp:1206, "no more do commands").
EveryDoStarted == do_cmd_all_done /\ nav_cmd_loaded => Dos(path) \subseteq started

\* The do command that runs is on the way to the current navigation command.
DoOnTheWay == do_cmd_loaded => do_index \in path

\* Each leg of a mission without jumps starts its own do commands, all of them, and leaves none of
\* another leg running (AP_Mission.cpp:1182-1220).
DosOfTheLeg == Straight => EveryDoStarted /\ DoOnTheWay

=============================================================================
