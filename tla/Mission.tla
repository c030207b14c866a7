------------------------------ MODULE Mission -------------------------------
(***************************************************************************)
(* libraries/AP_Mission: the list of commands a vehicle flies in AUTO, and *)
(* the state machine that walks through it.                                *)
(*                                                                         *)
(* The vehicle calls update() at 10 Hz; the pilot and the ground station   *)
(* start, stop, resume, reset and edit the mission between two updates.    *)
(* All of it runs on one thread, so a public method is one action, except  *)
(* for the searches for the next command: each iteration of their loops is *)
(* a step of its own, while pc names the method that searches.  This keeps *)
(* recursion out of the module and makes a loop that does not end visible. *)
(***************************************************************************)
EXTENDS Integers, FiniteSets

CONSTANTS
    CAPACITY,       \* num_commands_max(): commands that fit in storage, home included
    MAX_JUMPS,      \* AP_MISSION_MAX_NUM_DO_JUMP_COMMANDS: jump commands that can be counted
    MAX_LOOPS,      \* jumps get_next_cmd() follows in one call (64)
    MAX_DO_LOOPS,   \* do commands advance_current_nav_cmd() passes over (255)
    MIS_RESTART,    \* the parameter _restart: start_or_resume() always starts
    LooksAhead,     \* starting a navigation command may call get_next_nav_cmd() (a spline)
    Parachute,      \* starting a do command may release a parachute, which disarms
    Missions,       \* stored missions to begin with, each with its number of commands
    NewCommands     \* commands an edit may write

NONE    == 65535    \* AP_MISSION_CMD_INDEX_NONE
FOREVER == -1       \* AP_MISSION_JUMP_REPEAT_FOREVER
FIRST   == 1        \* AP_MISSION_FIRST_REAL_COMMAND

\* "wp": a navigation command with a location, "nav": one without, such as a
\* takeoff on the spot; "do": a do or condition command; "jump": DO_JUMP.
Kinds == {"wp", "nav", "do", "jump"}

Command == [kind : Kinds, target : Nat, times : {FOREVER} \cup Nat]

\* what read_cmd_from_storage() makes up for command #0
Home == [kind |-> "wp", target |-> 0, times |-> 0]

ASSUME MissionAssumption ==
    /\ CAPACITY \in Nat \ {0} /\ CAPACITY < NONE
    /\ MAX_JUMPS \in Nat /\ MAX_LOOPS \in Nat /\ MAX_DO_LOOPS \in Nat
    /\ MIS_RESTART \in BOOLEAN /\ LooksAhead \in BOOLEAN /\ Parachute \in BOOLEAN
    /\ Missions \subseteq [storage : [0 .. CAPACITY - 1 -> Command], total : 0 .. CAPACITY]
    /\ NewCommands \subseteq Command

VARIABLES
    storage,          \* the commands in EEPROM, also those beyond _cmd_total
    cmd_total,        \* _cmd_total
    state,            \* _flags.state
    nav_cmd_loaded,   \* _flags.nav_cmd_loaded
    do_cmd_loaded,    \* _flags.do_cmd_loaded
    do_cmd_all_done,  \* _flags.do_cmd_all_done
    nav_cmd,          \* _nav_cmd: its index and the command cached from storage
    do_index,         \* _do_cmd.index
    prev_nav_index,   \* _prev_nav_cmd_index
    prev_wp_index,    \* _prev_nav_cmd_wp_index
    jumps,            \* _jump_tracking: the number of runs of each jump that has a slot
    pc,               \* the method whose search is under way
    cursor,           \* cmd_index of the search
    loops,            \* max_loops of get_next_cmd()
    do_loops,         \* max_loops of advance_current_nav_cmd()
    first_jump,       \* jump_index of get_next_cmd()
    look,             \* cmd_index of get_next_nav_cmd()
    after_look,       \* where its caller goes on
    armed             \* motors.armed(), while it may be the mission that disarms them

mission == <<storage, cmd_total>>
nav     == <<nav_cmd_loaded, nav_cmd, prev_nav_index, prev_wp_index>>
do      == <<do_cmd_loaded, do_cmd_all_done, do_index>>
search  == <<pc, cursor, loops, do_loops, first_jump, look, after_look>>
vars    == <<mission, state, nav, do, jumps, search, armed>>

\* "start" and "update": advance_current_nav_cmd() called by that method, "set":
\* set_current_cmd(), "look": get_next_nav_cmd(), "do_phase": the second half of
\* update(), "do": advance_current_do_cmd(), "restart_do": the end of resume()
Locations == {"idle", "start", "update", "set", "look", "do_phase", "do", "restart_do"}

Indices == 0 .. CAPACITY - 1

TypeOK ==
    /\ storage \in [Indices -> Command]
    /\ cmd_total \in 0 .. CAPACITY
    /\ state \in {"STOPPED", "RUNNING", "COMPLETE"}
    /\ nav_cmd_loaded \in BOOLEAN /\ do_cmd_loaded \in BOOLEAN /\ do_cmd_all_done \in BOOLEAN
    /\ nav_cmd \in [index : Indices \cup {NONE}, cmd : Command]
    /\ do_index \in Indices \cup {NONE}
    /\ prev_nav_index \in Indices \cup {NONE}
    /\ prev_wp_index \in Indices \cup {NONE}
    /\ DOMAIN jumps \subseteq Indices /\ jumps \in [DOMAIN jumps -> Nat]
    /\ pc \in Locations
    /\ cursor \in Nat
    /\ loops \in 0 .. MAX_LOOPS
    /\ do_loops \in 0 .. MAX_DO_LOOPS
    /\ first_jump \in Indices \cup {NONE}
    /\ look \in Nat
    /\ after_look \in {"idle", "do_phase", "restart_do"}
    /\ armed \in BOOLEAN

NoJumps == [j \in {} |-> 0]

\* The constructor, and init() with a mission that is already in storage.
Init ==
    /\ \E m \in Missions : storage = m.storage /\ cmd_total = m.total
    /\ state = "STOPPED"
    /\ nav_cmd_loaded = FALSE /\ do_cmd_loaded = FALSE /\ do_cmd_all_done = FALSE
    /\ nav_cmd = [index |-> NONE, cmd |-> Home]
    /\ do_index = NONE
    /\ prev_nav_index = NONE /\ prev_wp_index = NONE
    /\ jumps = NoJumps
    /\ pc = "idle" /\ cursor = 0 /\ loops = 0 /\ do_loops = 0 /\ first_jump = NONE
    /\ look = 0 /\ after_look = "idle"
    /\ armed = FALSE

-----------------------------------------------------------------------------
(* Commands and their storage. *)

is_nav_cmd(c)   == c.kind \in {"wp", "nav"}
HasLocation(c)  == c.kind = "wp"

\* read_cmd_from_storage(): its range check lets index = _cmd_total through
CanRead(index)  == index = 0 \/ index <= cmd_total
ReadCmd(index)  == IF index = 0 THEN Home ELSE storage[index]

-----------------------------------------------------------------------------
(* Counting jumps. *)

\* A slot of _jump_tracking is allocated when a jump is first looked up; with
\* every slot in use the jump counts as run JUMP_TIMES_MAX times.
HasSlot(j)  == j \in DOMAIN jumps \/ Cardinality(DOMAIN jumps) < MAX_JUMPS
Tracked(j)  == IF j \in DOMAIN jumps THEN jumps[j] ELSE 0
\* defect: the count is lost
CountJumpLost(j, n) == jumps
CountJump(j, n) == [k \in DOMAIN jumps \cup {j} |-> IF k = j THEN n ELSE jumps[k]]

-----------------------------------------------------------------------------
(* get_next_cmd(): one iteration of its search for a command at cursor. *)

Searching == pc \in {"start", "update", "set", "look", "do"}
InMission == cursor < cmd_total

AtJump == InMission /\ ReadCmd(cursor).kind = "jump"
AtNav  == InMission /\ is_nav_cmd(ReadCmd(cursor))
AtDo   == InMission /\ ReadCmd(cursor).kind = "do"

\* the searches that move the current navigation command count the jumps they follow
Counting == pc \in {"start", "update", "set"}

\* defect: home is a target
BadTargetButHome == storage[cursor].target >= cmd_total
BadTarget == storage[cursor].target >= cmd_total \/ storage[cursor].target = 0

\* the end of the list, or a jump that cannot be followed
NotFound ==
    \/ ~InMission
    \/ AtJump /\ (loops = 0 \/ BadTarget \/ (~Counting /\ first_jump = cursor))

Forever   == storage[cursor].times = FOREVER
\* defect: one time too many
RunsAgainOnceMore == HasSlot(cursor) /\ Tracked(cursor) <= storage[cursor].times
RunsAgain == HasSlot(cursor) /\ Tracked(cursor) < storage[cursor].times

\* defect: the jumps followed are not counted down
SpendNoLoop == loops' = loops
SpendLoop == loops' = loops - 1

\* pass a jump command: to its target while it has runs left, else beyond it
PassJump ==
    /\ Searching
    /\ AtJump
    /\ ~NotFound
    /\ SpendLoop
    /\ first_jump' = IF first_jump = NONE THEN cursor ELSE first_jump
    /\ cursor' = IF Forever \/ RunsAgain THEN storage[cursor].target ELSE cursor + 1
    /\ jumps' = IF Forever \/ ~HasSlot(cursor) THEN jumps
                ELSE CountJump(cursor, Tracked(cursor) + (IF Counting /\ RunsAgain THEN 1 ELSE 0))
    /\ UNCHANGED <<mission, state, nav, do, pc, do_loops, look, after_look, armed>>

-----------------------------------------------------------------------------
(* Effects shared by several methods. *)

\* a new call of get_next_cmd() from index i
SearchFrom(i) == cursor' = i /\ loops' = MAX_LOOPS /\ first_jump' = NONE

\* the searches are over and their local variables gone; go on at p
GoOn(p) ==
    /\ pc' = p
    /\ cursor' = 0 /\ loops' = 0 /\ do_loops' = 0 /\ first_jump' = NONE
    /\ look' = 0 /\ after_look' = "idle"

Return == GoOn("idle")

\* stop the current do command
\* defect: the flag of the last leg stays
StopDoKeepsAllDone == do_index' = NONE /\ do_cmd_loaded' = FALSE /\ UNCHANGED do_cmd_all_done
\* defect: the do command of the last leg keeps running
StopDoKeepsRunning == do_cmd_all_done' = FALSE /\ UNCHANGED <<do_index, do_cmd_loaded>>
StopDo == do_index' = NONE /\ do_cmd_loaded' = FALSE /\ do_cmd_all_done' = FALSE

\* reset()
ClearProgress ==
    /\ nav_cmd_loaded' = FALSE
    /\ StopDo
    /\ nav_cmd' = [nav_cmd EXCEPT !.index = NONE]
    /\ prev_nav_index' = NONE
    /\ prev_wp_index' = NONE
    /\ jumps' = NoJumps

\* defect: the current navigation command is found again
AfterItself(index) == IF index = NONE THEN FIRST ELSE index
After(index) == IF index = NONE THEN FIRST ELSE index + 1

\* the first half of advance_current_nav_cmd(), called by p
BeginAdvance(p) ==
    /\ pc' = p
    /\ do_loops' = MAX_DO_LOOPS
    /\ SearchFrom(After(nav_cmd'.index))
    /\ UNCHANGED <<look, after_look>>

\* The navigation command at index has been started and its method goes on at p,
\* possibly after the start callback has looked ahead for the next one.
StartedNav(index, p) ==
    \/ GoOn(p)
    \/ /\ LooksAhead
       /\ pc' = "look"
       /\ look' = index + 1
       /\ after_look' = p
       /\ do_loops' = 0
       /\ SearchFrom(index + 1)

\* The do command at index becomes the current one and is started. A parachute
\* that it releases disarms armed motors, and init_disarm_motors() calls reset().
StartDo(index) ==
    \/ /\ do_index' = index
       /\ do_cmd_loaded' = TRUE
       /\ UNCHANGED <<do_cmd_all_done, nav, jumps, armed>>
    \/ armed /\ armed' = FALSE /\ ClearProgress

-----------------------------------------------------------------------------
(* What the methods do with the command their search has found. *)

\* a selection in a mission that is not running leaves it ready to be resumed
SelectToResume == state' = "STOPPED"

\* advance_current_nav_cmd() and set_current_cmd() make it the current command;
\* a mission that is not running starts nothing, and can be resumed from there
FoundNav ==
    /\ Counting
    /\ AtNav
    /\ nav_cmd' = [index |-> cursor, cmd |-> ReadCmd(cursor)]
    /\ nav_cmd_loaded' = TRUE
    /\ do_cmd_all_done' = (do_cmd_all_done \/ ~do_cmd_loaded)
    /\ \/ /\ state = "RUNNING"
          /\ prev_nav_index' = nav_cmd.index
          /\ prev_wp_index' = IF HasLocation(ReadCmd(cursor)) THEN nav_cmd.index ELSE prev_wp_index
          /\ StartedNav(cursor, IF pc = "update" THEN "do_phase" ELSE "idle")
          /\ UNCHANGED state
       \/ /\ state # "RUNNING"
          /\ SelectToResume
          /\ Return
          /\ UNCHANGED <<prev_nav_index, prev_wp_index>>
    /\ UNCHANGED <<mission, do_cmd_loaded, do_index, jumps, armed>>

\* only the first do command on the way becomes the current one
FoundDo ==
    /\ Counting
    /\ AtDo
    /\ \/ /\ ~do_cmd_loaded
          /\ \/ state = "RUNNING" /\ StartDo(cursor)
             \/ /\ state # "RUNNING"
                /\ do_index' = cursor
                /\ do_cmd_loaded' = TRUE
                /\ UNCHANGED <<do_cmd_all_done, nav, jumps, armed>>
          /\ UNCHANGED do_loops
       \/ /\ do_cmd_loaded
          /\ pc = "set" \/ do_loops > 0
          /\ do_loops' = IF pc = "set" THEN do_loops ELSE do_loops - 1
          /\ UNCHANGED <<nav, do, jumps, armed>>
    /\ SearchFrom(cursor + 1)
    /\ UNCHANGED <<mission, state, pc, look, after_look>>

TooManyDos == AtDo /\ do_cmd_loaded /\ do_loops = 0 /\ pc # "set"

\* there is no navigation command: a running mission is complete()
NoNav ==
    /\ Counting
    /\ NotFound \/ TooManyDos
    /\ \/ state = "RUNNING" /\ state' = "COMPLETE" /\ UNCHANGED nav_cmd
       \/ state # "RUNNING" /\ nav_cmd' = [nav_cmd EXCEPT !.index = NONE] /\ UNCHANGED state
    /\ Return
    /\ UNCHANGED <<mission, nav_cmd_loaded, prev_nav_index, prev_wp_index, do, jumps, armed>>

\* get_next_nav_cmd() moves on from where it last started to look
LookPastDo ==
    /\ pc = "look"
    /\ AtDo
    /\ look' = look + 1
    /\ SearchFrom(look + 1)
    /\ UNCHANGED <<mission, state, nav, do, jumps, pc, do_loops, after_look, armed>>

LookDone ==
    /\ pc = "look"
    /\ AtNav \/ NotFound
    /\ GoOn(after_look)
    /\ UNCHANGED <<mission, state, nav, do, jumps, armed>>

\* advance_current_do_cmd() starts the next do command, or there is none before
\* the next navigation command
NextDo ==
    /\ pc = "do"
    /\ AtDo
    /\ StartDo(cursor)
    /\ Return
    /\ UNCHANGED <<mission, state>>

NoNextDo ==
    /\ pc = "do"
    /\ AtNav \/ NotFound
    /\ do_cmd_all_done' = TRUE
    /\ Return
    /\ UNCHANGED <<mission, state, nav, do_cmd_loaded, do_index, jumps, armed>>

-----------------------------------------------------------------------------
(* update() *)

\* Its first half: verify the navigation command, and advance when it is done.
\* (A command that is loaded without an index would complete the mission at
\* once; LoadedHasIndex excludes it.)
UpdateNav(verified) ==
    /\ pc = "idle"
    /\ state = "RUNNING"
    /\ cmd_total > 0
    /\ UNCHANGED <<nav_cmd, prev_nav_index, prev_wp_index>>
    /\ \/ /\ nav_cmd_loaded /\ nav_cmd.index # NONE
          /\ ~verified
          /\ GoOn("do_phase")
          /\ UNCHANGED <<nav_cmd_loaded, do>>
       \/ /\ ~nav_cmd_loaded \/ (nav_cmd.index # NONE /\ verified)
          /\ nav_cmd_loaded' = FALSE
          /\ StopDo
          /\ BeginAdvance("update")
    /\ UNCHANGED <<mission, state, jumps, armed>>

\* its second half: verify the do command, or look for the next one
UpdateDo(verified) ==
    /\ pc = "do_phase"
    /\ \/ do_cmd_loaded /\ do_cmd_loaded' = ~verified /\ Return
       \/ ~do_cmd_loaded /\ do_cmd_all_done /\ Return /\ UNCHANGED do_cmd_loaded
       \/ /\ ~do_cmd_loaded /\ ~do_cmd_all_done
          /\ pc' = "do"
          /\ SearchFrom(After(do_index))
          /\ UNCHANGED <<do_cmd_loaded, do_loops, look, after_look>>
    /\ UNCHANGED <<mission, state, nav, do_cmd_all_done, do_index, jumps, armed>>

-----------------------------------------------------------------------------
(* The other methods the vehicle calls between two updates. *)

start ==
    /\ state' = "RUNNING"
    /\ ClearProgress
    /\ BeginAdvance("start")
    /\ UNCHANGED <<mission, armed>>

stop ==
    /\ state' = "STOPPED"
    /\ UNCHANGED <<mission, nav, do, jumps, search, armed>>

\* start the current navigation command again, as it now is in storage
resume ==
    \/ (state = "COMPLETE" \/ (state = "STOPPED" /\ nav_cmd.index = NONE)) /\ start
    \/ /\ state = "RUNNING" \/ (state = "STOPPED" /\ nav_cmd.index # NONE)
       /\ state' = "RUNNING"
       /\ nav_cmd' = IF CanRead(nav_cmd.index)
                     THEN [nav_cmd EXCEPT !.cmd = ReadCmd(nav_cmd.index)] ELSE nav_cmd
       /\ \/ nav_cmd_loaded /\ StartedNav(nav_cmd.index, "restart_do")
          \/ ~nav_cmd_loaded /\ GoOn("restart_do")
       /\ UNCHANGED <<mission, nav_cmd_loaded, prev_nav_index, prev_wp_index, do, jumps, armed>>

\* the end of resume(): restart the do command
RestartDo ==
    /\ pc = "restart_do"
    /\ \/ do_cmd_loaded /\ do_index # NONE /\ StartDo(do_index)
       \/ ~(do_cmd_loaded /\ do_index # NONE) /\ UNCHANGED <<nav, do, jumps, armed>>
    /\ Return
    /\ UNCHANGED <<mission, state>>

start_or_resume == IF MIS_RESTART THEN start ELSE resume

\* on its own, or as the end of init_disarm_motors()
reset ==
    /\ ClearProgress
    /\ armed' \in {armed, FALSE}
    /\ UNCHANGED <<mission, state, search>>

-----------------------------------------------------------------------------
(* Selecting and editing. *)

\* the first part of set_current_cmd(); a call that is refused changes nothing
set_current_cmd(index) ==
    /\ index < cmd_total /\ cmd_total # 1
    /\ StopDo
    /\ nav_cmd_loaded' = FALSE
    /\ IF index = 0 \/ state = "COMPLETE"
       THEN prev_nav_index' = NONE /\ prev_wp_index' = NONE /\ jumps' = NoJumps
       ELSE UNCHANGED <<prev_nav_index, prev_wp_index, jumps>>
    /\ pc' = "set"
    /\ SearchFrom(IF index = 0 THEN FIRST ELSE index)
    /\ UNCHANGED <<mission, state, nav_cmd, do_loops, look, after_look, armed>>

clear ==
    /\ state # "RUNNING"
    /\ cmd_total' = 0
    /\ nav_cmd' = [nav_cmd EXCEPT !.index = NONE]
    /\ do_index' = NONE
    /\ nav_cmd_loaded' = FALSE /\ do_cmd_loaded' = FALSE
    /\ UNCHANGED <<storage, state, prev_nav_index, prev_wp_index, do_cmd_all_done, jumps, search, armed>>

truncate(index) ==
    /\ cmd_total > index
    /\ cmd_total' = index
    /\ UNCHANGED <<storage, state, nav, do, jumps, search, armed>>

\* write_cmd_to_storage(): the range check
\* defect: one command beyond storage
CanWriteBeyond(index) == index <= CAPACITY
CanWrite(index) == index < CAPACITY

add_cmd(cmd) ==
    /\ CanWrite(cmd_total)
    /\ storage' = [storage EXCEPT ![cmd_total] = cmd]
    /\ cmd_total' = cmd_total + 1
    /\ UNCHANGED <<state, nav, do, jumps, search, armed>>

\* init_arm_motors()
Arm ==
    /\ Parachute /\ ~armed
    /\ armed' = TRUE
    /\ UNCHANGED <<mission, state, nav, do, jumps, search>>

replace_cmd(index, cmd) ==
    /\ index < cmd_total /\ CanWrite(index)
    /\ storage' = [storage EXCEPT ![index] = cmd]
    /\ UNCHANGED <<cmd_total, state, nav, do, jumps, search, armed>>

-----------------------------------------------------------------------------
(* The specifications. *)

\* the steps of a method that is under way
Search == PassJump \/ FoundNav \/ FoundDo \/ NoNav \/ LookPastDo \/ LookDone
              \/ NextDo \/ NoNextDo \/ RestartDo

update == \E verified \in BOOLEAN : UpdateNav(verified) \/ UpdateDo(verified)

\* calls of the pilot, the ground station and the failsafes
Control  == pc = "idle" /\ (start \/ stop \/ resume \/ start_or_resume \/ reset \/ Arm)
Select   == pc = "idle" /\ \E index \in Indices : set_current_cmd(index)
Edit     == /\ pc = "idle"
            /\ \/ clear
               \/ \E index \in Indices : truncate(index)
               \/ \E cmd \in NewCommands : add_cmd(cmd)
               \/ \E index \in Indices, cmd \in NewCommands : replace_cmd(index, cmd)

\* the mission flies as it was uploaded, or is edited as well
Flight == Search \/ update \/ Control \/ Select
Next   == Flight \/ Edit

FlightSpec == Init /\ [][Flight]_vars
Spec       == Init /\ [][Next]_vars

\* A method that has been called returns to the scheduler unless its loop does
\* not end: nothing else runs on its thread meanwhile.
Working      == Search \/ \E verified \in BOOLEAN : UpdateDo(verified)
WorkingSpec  == FlightSpec /\ WF_vars(Working)

\* Every navigation command that is flown again and again is verified in the end.
CruiseSpec   == WorkingSpec /\ SF_vars(UpdateNav(TRUE))

\* From some time on nobody touches the mission: the scheduler calls update().
LeftAlone    == <>[][Search \/ update]_vars

-----------------------------------------------------------------------------
(* Properties that edits cannot break. *)

\* What is loaded has an index, and a search for the next navigation command is
\* under way only while none is loaded: update() relies on it to tell a command
\* to verify from one to look for.
LoadedHasIndex ==
    /\ nav_cmd_loaded => nav_cmd.index # NONE
    /\ do_cmd_loaded => do_index # NONE
    /\ Counting => ~nav_cmd_loaded

\* The flag that stops the look-ups of do commands is never set while one runs:
\* update() would otherwise verify it, and then start none of those after it. The
\* searches that may load one begin with the flag cleared.
AllDoneMeansNone ==
    /\ do_cmd_all_done => ~do_cmd_loaded
    /\ Counting => ~do_cmd_all_done
    /\ pc = "do" => ~do_cmd_all_done /\ ~do_cmd_loaded

\* A completed mission flies nothing: the vehicle has been told to loiter, land
\* or disarm, and a command left loaded would be verified and flown on resume.
CompleteFliesNothing == state = "COMPLETE" => ~nav_cmd_loaded

\* All of these, whatever is flown, selected, stopped, released and edited, and in which order:
\* the flags are set and cleared one by one in a dozen places (AP_Mission.cpp:52-211, 296-395, 1103-1218).
FlagsAgree == LoadedHasIndex /\ AllDoneMeansNone /\ CompleteFliesNothing

-----------------------------------------------------------------------------
(* Properties of the flight of a mission that is not edited. *)

\* The current navigation command is a navigation command of the mission, as it
\* is stored, and never home, whatever jumps, resets and selections led to it.
FliesTheMission ==
    nav_cmd_loaded =>
        /\ nav_cmd.index \in 1 .. cmd_total - 1
        /\ nav_cmd.cmd = storage[nav_cmd.index]
        /\ is_nav_cmd(nav_cmd.cmd)

\* Only jump commands are counted, none beyond the times it asks for, and the
\* table that counts them does not overflow.
JumpsBounded ==
    /\ Cardinality(DOMAIN jumps) <= MAX_JUMPS
    /\ \A j \in DOMAIN jumps :
          /\ j < cmd_total /\ storage[j].kind = "jump"
          /\ storage[j].times # FOREVER
          /\ jumps[j] <= storage[j].times

\* Every method other than set_current_cmd() returns, whatever the jumps of the
\* mission: the main loop is never held by a search.
SearchReturns == (pc \notin {"idle", "set"}) ~> (pc = "idle")

\* A mission without endless jumps that is left alone does not run for ever,
\* whatever was selected, stopped, reset or released before.  (Of the steps of
\* a mission left alone only complete() ends the run.)
MissionCompletes ==
    LeftAlone =>
        (state = "RUNNING" /\ \A j \in 0 .. cmd_total - 1 : storage[j].times # FOREVER)
            ~> (state # "RUNNING")

=============================================================================
