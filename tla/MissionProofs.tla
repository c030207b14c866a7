--------------------------- MODULE MissionProofs ---------------------------
(***************************************************************************)
(* Proofs about Mission: types; that its searches get on; the invariants   *)
(* of edited and of unedited missions; that it implements MissionPlan; and *)
(* that a leg without jumps starts its own do commands.                    *)
(***************************************************************************)
EXTENDS MissionTrace, FiniteSetTheorems, TLAPS

USE MissionAssumption

-----------------------------------------------------------------------------
(* Facts about the operators. *)

\* What read_cmd_from_storage() returns is a command.
LEMMA ReadIsCommand ==
    ASSUME TypeOK, NEW i \in Indices
    PROVE  ReadCmd(i) \in Command
  BY DEF TypeOK, ReadCmd, Home, Command, Indices, FOREVER, Kinds

\* The empty table of jumps.
LEMMA NoJumpsIsTable == DOMAIN NoJumps = {} /\ NoJumps \in [DOMAIN NoJumps -> Nat]
  BY DEF NoJumps

\* Counting a jump leaves a table, with at most that jump added.
LEMMA CountJumpIsTable ==
    ASSUME TypeOK, NEW j \in Indices, NEW n \in Nat
    PROVE  /\ DOMAIN CountJump(j, n) = DOMAIN jumps \cup {j}
           /\ DOMAIN CountJump(j, n) \subseteq Indices
           /\ CountJump(j, n) \in [DOMAIN CountJump(j, n) -> Nat]
  BY DEF TypeOK, CountJump

LEMMA TrackedIsNat ==
    ASSUME TypeOK, NEW j
    PROVE  Tracked(j) \in Nat
  BY DEF TypeOK, Tracked

\* A search that is not at the end of the list is at a command of the mission.
LEMMA InMissionIsIndex ==
    ASSUME TypeOK, InMission
    PROVE  cursor \in Indices
  BY DEF TypeOK, InMission, Indices

\* The search for a command after any index starts at a natural number.
LEMMA AfterIsNat ==
    ASSUME NEW i \in Indices \cup {NONE}
    PROVE  After(i) \in Nat /\ i + 1 \in Nat
  BY DEF After, Indices, NONE, FIRST

-----------------------------------------------------------------------------
(* Types. *)

LEMMA InitTypeOK == Init => TypeOK
<1> SUFFICES ASSUME Init PROVE TypeOK
  OBVIOUS
<1>1. PICK m \in Missions : storage = m.storage /\ cmd_total = m.total
  BY DEF Init
<1>2. storage \in [Indices -> Command] /\ cmd_total \in 0 .. CAPACITY
  BY <1>1 DEF Indices
<1>3. Home \in Command
  BY DEF Home, Command, Kinds, FOREVER
<1>4. 0 \in 0 .. MAX_LOOPS /\ 0 \in 0 .. MAX_DO_LOOPS
  OBVIOUS
<1> QED
  BY <1>2, <1>3, <1>4, NoJumpsIsTable DEF Init, TypeOK, Locations

\* the variables that the start of a do command changes
DoTypes ==
    /\ nav_cmd_loaded \in BOOLEAN /\ do_cmd_loaded \in BOOLEAN
    /\ do_cmd_all_done \in BOOLEAN /\ armed \in BOOLEAN
    /\ nav_cmd \in [index : Indices \cup {NONE}, cmd : Command]
    /\ prev_nav_index \in Indices \cup {NONE} /\ prev_wp_index \in Indices \cup {NONE}
    /\ do_index \in Indices \cup {NONE}
    /\ DOMAIN jumps \subseteq Indices /\ jumps \in [DOMAIN jumps -> Nat]

LEMMA StartDoTypeOK ==
    ASSUME TypeOK, NEW i \in Indices \cup {NONE}, StartDo(i)
    PROVE  DoTypes'
<1>1. CASE jumps' = jumps
  BY <1>1 DEF StartDo, ClearProgress, StopDo, TypeOK, DoTypes, nav
<1>2. CASE jumps' # jumps
  BY <1>2, NoJumpsIsTable DEF StartDo, ClearProgress, StopDo, TypeOK, DoTypes
<1> QED
  BY <1>1, <1>2

LEMMA SearchTypeOK ==
    ASSUME TypeOK, Search PROVE TypeOK'
<1>1. ASSUME PassJump PROVE TypeOK'
  <2>1. cursor \in Indices /\ loops # 0 /\ storage[cursor] \in Command
    BY <1>1, InMissionIsIndex DEF PassJump, SpendLoop, NotFound, AtJump, TypeOK
  <2>2. cursor' \in Nat
    BY <1>1, <2>1 DEF PassJump, SpendLoop, Indices, Command
  <2>3. loops' \in 0 .. MAX_LOOPS
    BY <1>1, <2>1 DEF PassJump, SpendLoop, TypeOK
  <2>4. first_jump' \in Indices \cup {NONE}
    BY <1>1, <2>1 DEF PassJump, SpendLoop, TypeOK
  <2>5. DOMAIN jumps' \subseteq Indices /\ jumps' \in [DOMAIN jumps' -> Nat]
    <3>1. CASE jumps' = jumps
      BY <3>1 DEF TypeOK
    <3>2. CASE jumps' # jumps
      <4>1. PICK n \in Nat : jumps' = CountJump(cursor, n)
        BY <1>1, <3>2, TrackedIsNat DEF PassJump, SpendLoop
      <4> QED
        BY <4>1, <2>1, CountJumpIsTable
    <3> QED
      BY <3>1, <3>2
  <2> QED
    BY <1>1, <2>2, <2>3, <2>4, <2>5 DEF PassJump, SpendLoop, TypeOK, mission, nav, do
<1>2. ASSUME FoundNav PROVE TypeOK'
  <2>1. cursor \in Indices /\ ReadCmd(cursor) \in Command
    BY <1>2, InMissionIsIndex, ReadIsCommand DEF FoundNav, SelectToResume, AtNav
  <2>2. nav_cmd' \in [index : Indices \cup {NONE}, cmd : Command]
    BY <1>2, <2>1 DEF FoundNav, SelectToResume
  <2>3. prev_nav_index' \in Indices \cup {NONE} /\ prev_wp_index' \in Indices \cup {NONE}
    BY <1>2 DEF FoundNav, SelectToResume, TypeOK
  <2>4. state' \in {"STOPPED", "RUNNING", "COMPLETE"}
    BY <1>2 DEF FoundNav, SelectToResume, TypeOK
  <2>5. /\ pc' \in Locations /\ cursor' \in Nat /\ loops' \in 0 .. MAX_LOOPS
        /\ do_loops' \in 0 .. MAX_DO_LOOPS /\ first_jump' \in Indices \cup {NONE}
        /\ look' \in Nat /\ after_look' \in {"idle", "do_phase", "restart_do"}
    BY <1>2, <2>1 DEF FoundNav, SelectToResume, StartedNav, Return, GoOn, SearchFrom, Locations, Indices
  <2>6. do_cmd_all_done' \in BOOLEAN
    BY <1>2 DEF FoundNav, SelectToResume, TypeOK
  <2> QED
    BY <1>2, <2>2, <2>3, <2>4, <2>5, <2>6 DEF FoundNav, SelectToResume, TypeOK, mission
<1>3. ASSUME FoundDo PROVE TypeOK'
  <2>1. cursor \in Indices
    BY <1>3, InMissionIsIndex DEF FoundDo, AtDo
  <2>2. DoTypes'
    <3>1. CASE StartDo(cursor)
      BY <3>1, <2>1, StartDoTypeOK
    <3>2. CASE ~StartDo(cursor)
      BY <1>3, <2>1, <3>2 DEF FoundDo, TypeOK, DoTypes, nav, do
    <3> QED
      BY <3>1, <3>2
  <2>5. do_loops' \in 0 .. MAX_DO_LOOPS
    BY <1>3 DEF FoundDo, TypeOK
  <2>6. /\ cursor' \in Nat /\ loops' \in 0 .. MAX_LOOPS
        /\ first_jump' \in Indices \cup {NONE}
    BY <1>3, <2>1 DEF FoundDo, SearchFrom, Indices
  <2> QED
    BY <1>3, <2>2, <2>5, <2>6 DEF FoundDo, TypeOK, DoTypes, mission
<1>4. ASSUME NoNav PROVE TypeOK'
  <2>1. nav_cmd' \in [index : Indices \cup {NONE}, cmd : Command]
    BY <1>4 DEF NoNav, TypeOK
  <2>2. state' \in {"STOPPED", "RUNNING", "COMPLETE"}
    BY <1>4 DEF NoNav, TypeOK
  <2> QED
    BY <1>4, <2>1, <2>2 DEF NoNav, TypeOK, Return, GoOn, mission, do, Locations
<1>5. ASSUME LookPastDo PROVE TypeOK'
  BY <1>5 DEF LookPastDo, TypeOK, SearchFrom, mission, nav, do
<1>6. ASSUME LookDone PROVE TypeOK'
  BY <1>6 DEF LookDone, TypeOK, GoOn, mission, nav, do, Locations
<1>7. ASSUME NextDo PROVE TypeOK'
  <2>1. cursor \in Indices
    BY <1>7, InMissionIsIndex DEF NextDo, AtDo
  <2> QED
    BY <1>7, <2>1, StartDoTypeOK DEF NextDo, TypeOK, DoTypes, Return, GoOn, mission, Locations
<1>8. ASSUME NoNextDo PROVE TypeOK'
  BY <1>8 DEF NoNextDo, TypeOK, Return, GoOn, mission, nav, Locations
<1>9. ASSUME RestartDo PROVE TypeOK'
  <2>1. DoTypes'
    <3>1. CASE do_cmd_loaded /\ do_index # NONE
      BY <1>9, <3>1, StartDoTypeOK DEF RestartDo, TypeOK
    <3>2. CASE ~(do_cmd_loaded /\ do_index # NONE)
      BY <1>9, <3>2 DEF RestartDo, TypeOK, DoTypes, nav, do
    <3> QED
      BY <3>1, <3>2
  <2> QED
    BY <1>9, <2>1 DEF RestartDo, TypeOK, DoTypes, Return, GoOn, mission, Locations
<1> QED
  BY <1>1, <1>2, <1>3, <1>4, <1>5, <1>6, <1>7, <1>8, <1>9 DEF Search

LEMMA UpdateTypeOK ==
    ASSUME TypeOK, update PROVE TypeOK'
<1>1. PICK v \in BOOLEAN : UpdateNav(v) \/ UpdateDo(v)
  BY DEF update
<1>2. After(nav_cmd.index) \in Nat /\ After(do_index) \in Nat
  BY AfterIsNat DEF TypeOK
<1>3. CASE UpdateNav(v)
  <2>1. After(nav_cmd'.index) \in Nat
    BY <1>2, <1>3 DEF UpdateNav, StopDo
  <2>2. /\ pc' \in Locations /\ cursor' \in Nat /\ loops' \in 0 .. MAX_LOOPS
        /\ do_loops' \in 0 .. MAX_DO_LOOPS /\ first_jump' \in Indices \cup {NONE}
        /\ look' \in Nat /\ after_look' \in {"idle", "do_phase", "restart_do"}
    BY <1>3, <2>1 DEF UpdateNav, StopDo, TypeOK, GoOn, BeginAdvance, SearchFrom, Locations
  <2>3. /\ nav_cmd_loaded' \in BOOLEAN /\ do_cmd_loaded' \in BOOLEAN
        /\ do_cmd_all_done' \in BOOLEAN
    BY <1>3 DEF UpdateNav, StopDo, TypeOK, do
  <2>4. do_index' \in Indices \cup {NONE}
    BY <1>3 DEF UpdateNav, StopDo, TypeOK, do
  <2> QED
    BY <1>3, <2>2, <2>3, <2>4 DEF UpdateNav, StopDo, TypeOK, mission
<1>4. CASE UpdateDo(v)
  <2>1. do_cmd_loaded' \in BOOLEAN
    BY <1>1, <1>4 DEF UpdateDo, TypeOK
  <2>2. /\ pc' \in Locations /\ cursor' \in Nat /\ loops' \in 0 .. MAX_LOOPS
        /\ do_loops' \in 0 .. MAX_DO_LOOPS /\ first_jump' \in Indices \cup {NONE}
        /\ look' \in Nat /\ after_look' \in {"idle", "do_phase", "restart_do"}
    BY <1>2, <1>4 DEF UpdateDo, TypeOK, Return, GoOn, SearchFrom, Locations
  <2> QED
    BY <1>4, <2>1, <2>2 DEF UpdateDo, TypeOK, mission, nav
<1> QED
  BY <1>1, <1>3, <1>4

LEMMA StartTypeOK ==
    ASSUME TypeOK, start PROVE TypeOK'
<1>1. nav_cmd' = [nav_cmd EXCEPT !.index = NONE] /\ nav_cmd'.index = NONE
  BY DEF start, ClearProgress, StopDo, TypeOK
<1>2. After(nav_cmd'.index) \in Nat
  BY <1>1, AfterIsNat
<1>3. nav_cmd' \in [index : Indices \cup {NONE}, cmd : Command]
  BY <1>1 DEF TypeOK
<1>4. DOMAIN jumps' \subseteq Indices /\ jumps' \in [DOMAIN jumps' -> Nat]
  BY NoJumpsIsTable DEF start, ClearProgress, StopDo
<1>5. cursor' \in Nat /\ loops' \in 0 .. MAX_LOOPS /\ do_loops' \in 0 .. MAX_DO_LOOPS
  BY <1>2 DEF start, BeginAdvance, SearchFrom
<1> QED
  BY <1>3, <1>4, <1>5
     DEF start, ClearProgress, StopDo, BeginAdvance, SearchFrom, TypeOK, mission, Locations

LEMMA ResumeTypeOK ==
    ASSUME TypeOK, resume PROVE TypeOK'
<1>1. CASE start
  BY <1>1, StartTypeOK
<1>2. CASE ~start
  <2>1. nav_cmd' \in [index : Indices \cup {NONE}, cmd : Command]
    <3>1. ASSUME CanRead(nav_cmd.index) PROVE ReadCmd(nav_cmd.index) \in Command
      <4>1. nav_cmd.index # NONE
        BY <3>1 DEF CanRead, TypeOK, NONE
      <4> QED
        BY <4>1, ReadIsCommand DEF TypeOK
    <3> QED
      BY <1>2, <3>1 DEF resume, TypeOK
  <2>2. nav_cmd.index + 1 \in Nat
    BY AfterIsNat DEF TypeOK
  <2> QED
    BY <1>2, <2>1, <2>2
       DEF resume, TypeOK, StartedNav, GoOn, SearchFrom, mission, do, Locations
<1> QED
  BY <1>1, <1>2

LEMMA ControlTypeOK ==
    ASSUME TypeOK, Control PROVE TypeOK'
<1>1. ASSUME stop PROVE TypeOK'
  BY <1>1 DEF stop, TypeOK, mission, nav, do, search
<1>2. ASSUME reset PROVE TypeOK'
  BY <1>2, NoJumpsIsTable DEF reset, ClearProgress, StopDo, TypeOK, mission, search
<1>3. ASSUME Arm PROVE TypeOK'
  BY <1>3 DEF Arm, TypeOK, mission, nav, do, search
<1> QED
  BY <1>1, <1>2, <1>3, StartTypeOK, ResumeTypeOK DEF Control, start_or_resume

LEMMA SelectTypeOK ==
    ASSUME TypeOK, Select PROVE TypeOK'
<1>1. PICK i \in Indices : set_current_cmd(i)
  BY DEF Select
<1>2. DOMAIN jumps' \subseteq Indices /\ jumps' \in [DOMAIN jumps' -> Nat]
  BY <1>1, NoJumpsIsTable DEF set_current_cmd, StopDo, TypeOK
<1>3. prev_nav_index' \in Indices \cup {NONE} /\ prev_wp_index' \in Indices \cup {NONE}
  BY <1>1 DEF set_current_cmd, StopDo, TypeOK
<1>4. cursor' \in Nat /\ loops' \in 0 .. MAX_LOOPS /\ first_jump' \in Indices \cup {NONE}
  BY <1>1 DEF set_current_cmd, StopDo, SearchFrom, FIRST, Indices
<1> QED
  BY <1>1, <1>2, <1>3, <1>4 DEF set_current_cmd, StopDo, TypeOK, mission, Locations

LEMMA EditTypeOK ==
    ASSUME TypeOK, Edit PROVE TypeOK'
<1>1. ASSUME clear PROVE TypeOK'
  <2>1. cmd_total' \in 0 .. CAPACITY
    BY <1>1 DEF clear
  <2>2. nav_cmd' \in [index : Indices \cup {NONE}, cmd : Command]
    BY <1>1 DEF clear, TypeOK
  <2> QED
    BY <1>1, <2>1, <2>2 DEF clear, TypeOK, search
<1>2. ASSUME NEW i \in Indices, truncate(i) PROVE TypeOK'
  BY <1>2 DEF truncate, TypeOK, nav, do, search, Indices
<1>3. ASSUME NEW c \in NewCommands, add_cmd(c) PROVE TypeOK'
  BY <1>3 DEF add_cmd, CanWrite, TypeOK, nav, do, search, Indices
<1>4. ASSUME NEW i \in Indices, NEW c \in NewCommands, replace_cmd(i, c) PROVE TypeOK'
  BY <1>4 DEF replace_cmd, TypeOK, nav, do, search, Indices
<1> QED
  BY <1>1, <1>2, <1>3, <1>4 DEF Edit

LEMMA NextTypeOK ==
    ASSUME TypeOK, [Next]_vars PROVE TypeOK'
<1>1. CASE UNCHANGED vars
  BY <1>1 DEF TypeOK, vars, mission, nav, do, search
<1> QED
  BY <1>1, SearchTypeOK, UpdateTypeOK, ControlTypeOK, SelectTypeOK, EditTypeOK
     DEF Next, Flight

\* Every variable of the mission keeps its type, whatever is flown, selected and
\* edited: the indices stay within storage and the loop counters within bounds.
THEOREM TypeCorrect == Spec => []TypeOK
<1>1. Init => TypeOK
  BY InitTypeOK
<1>2. TypeOK /\ [Next]_vars => TypeOK'
  BY NextTypeOK
<1> QED
  BY <1>1, <1>2, PTL DEF Spec


-----------------------------------------------------------------------------
(* Invariants that hold however the mission is edited.                     *)


LEMMA InitFlags == Init => FlagsAgree
  BY DEF Init, FlagsAgree, LoadedHasIndex, AllDoneMeansNone, CompleteFliesNothing, Counting

LEMMA NoneIsNoIndex == NONE \notin Indices
  BY DEF NONE, Indices

LEMMA SearchFlags ==
    ASSUME TypeOK, FlagsAgree, Search PROVE FlagsAgree'
<1> USE DEF FlagsAgree, LoadedHasIndex, AllDoneMeansNone, CompleteFliesNothing, Counting
<1>1. ASSUME PassJump PROVE FlagsAgree'
  BY <1>1 DEF PassJump, SpendLoop, nav, do
<1>2. ASSUME FoundNav PROVE FlagsAgree'
  <2>1. cursor # NONE
    BY <1>2, InMissionIsIndex, NoneIsNoIndex DEF FoundNav, SelectToResume, AtNav
  <2>2. nav_cmd'.index # NONE /\ nav_cmd_loaded' /\ state' # "COMPLETE"
    BY <1>2, <2>1 DEF FoundNav, SelectToResume
  <2>3. pc' \in {"idle", "do_phase", "look"}
    BY <1>2 DEF FoundNav, SelectToResume, StartedNav, Return, GoOn
  <2>4. UNCHANGED <<do_cmd_loaded, do_index>> /\ (do_cmd_all_done' => ~do_cmd_loaded)
    BY <1>2 DEF FoundNav, SelectToResume
  <2> QED
    BY <2>2, <2>3, <2>4
<1>3. ASSUME FoundDo PROVE FlagsAgree'
  <2>1. cursor # NONE
    BY <1>3, InMissionIsIndex, NoneIsNoIndex DEF FoundDo, AtDo
  <2> QED
    BY <1>3, <2>1 DEF FoundDo, StartDo, ClearProgress, StopDo, nav, do
<1>4. ASSUME NoNav PROVE FlagsAgree'
  BY <1>4 DEF NoNav, Return, GoOn, do
<1>5. ASSUME LookPastDo PROVE FlagsAgree'
  BY <1>5 DEF LookPastDo, nav, do
<1>6. ASSUME LookDone PROVE FlagsAgree'
  BY <1>6 DEF LookDone, GoOn, TypeOK, nav, do
<1>7. ASSUME NextDo PROVE FlagsAgree'
  <2>1. cursor # NONE
    BY <1>7, InMissionIsIndex, NoneIsNoIndex DEF NextDo, AtDo
  <2> QED
    BY <1>7, <2>1 DEF NextDo, StartDo, ClearProgress, StopDo, Return, GoOn, nav
<1>8. ASSUME NoNextDo PROVE FlagsAgree'
  BY <1>8 DEF NoNextDo, Return, GoOn, nav
<1>9. ASSUME RestartDo PROVE FlagsAgree'
  BY <1>9 DEF RestartDo, StartDo, ClearProgress, StopDo, Return, GoOn, nav, do
<1> QED
  BY <1>1, <1>2, <1>3, <1>4, <1>5, <1>6, <1>7, <1>8, <1>9 DEF Search

LEMMA FlightFlags ==
    ASSUME TypeOK, FlagsAgree, Flight PROVE FlagsAgree'
<1> USE DEF FlagsAgree, LoadedHasIndex, AllDoneMeansNone, CompleteFliesNothing, Counting
<1>1. ASSUME update PROVE FlagsAgree'
  <2>1. PICK v \in BOOLEAN : UpdateNav(v) \/ UpdateDo(v)
    BY <1>1 DEF update
  <2>2. CASE UpdateNav(v)
    BY <2>2 DEF UpdateNav, StopDo, GoOn, BeginAdvance, do
  <2>3. CASE UpdateDo(v)
    BY <2>1, <2>3 DEF UpdateDo, Return, GoOn, nav
  <2> QED
    BY <2>1, <2>2, <2>3
<1>2. ASSUME start PROVE FlagsAgree'
  BY <1>2 DEF start, ClearProgress, StopDo, BeginAdvance
<1>3. ASSUME resume PROVE FlagsAgree'
  <2>1. CASE start
    BY <1>2, <2>1
  <2>2. CASE ~start
    <3>1. nav_cmd'.index = nav_cmd.index
      BY <1>3, <2>2 DEF resume, TypeOK
    <3>2. pc' \in {"restart_do", "look"}
      BY <1>3, <2>2 DEF resume, StartedNav, GoOn
    <3> QED
      BY <1>3, <2>2, <3>1, <3>2 DEF resume, do
  <2> QED
    BY <2>1, <2>2
<1>4. ASSUME Control PROVE FlagsAgree'
  <2>1. CASE stop
    BY <2>1 DEF stop, nav, do, search
  <2>2. CASE reset
    BY <1>4, <2>2 DEF Control, reset, ClearProgress, StopDo, search
  <2>3. CASE Arm
    BY <2>3 DEF Arm, nav, do, search
  <2> QED
    BY <1>2, <1>3, <1>4, <2>1, <2>2, <2>3 DEF Control, start_or_resume
<1>5. ASSUME Select PROVE FlagsAgree'
  <2>1. PICK i \in Indices : set_current_cmd(i)
    BY <1>5 DEF Select
  <2> QED
    BY <2>1 DEF set_current_cmd, StopDo
<1> QED
  BY <1>1, <1>4, <1>5, SearchFlags DEF Flight

LEMMA NextFlags ==
    ASSUME TypeOK, FlagsAgree, [Next]_vars PROVE FlagsAgree'
<1>1. ASSUME Edit PROVE FlagsAgree'
  BY <1>1 DEF Edit, clear, truncate, add_cmd, replace_cmd, nav, do, search,
              FlagsAgree, LoadedHasIndex, AllDoneMeansNone, CompleteFliesNothing, Counting
<1>2. CASE UNCHANGED vars
  BY <1>2 DEF FlagsAgree, LoadedHasIndex, AllDoneMeansNone, CompleteFliesNothing, Counting,
              vars, nav, do, search
<1> QED
  BY <1>1, <1>2, FlightFlags DEF Next

LEMMA FlagsInvariance == Spec => [](TypeOK /\ FlagsAgree)
<1>1. Init => TypeOK /\ FlagsAgree
  BY InitTypeOK, InitFlags
<1>2. TypeOK /\ FlagsAgree /\ [Next]_vars => (TypeOK /\ FlagsAgree)'
  BY NextTypeOK, NextFlags
<1> QED
  BY <1>1, <1>2, PTL DEF Spec

\* The flags of a mission agree with its state and with each other, whatever is edited.
THEOREM FlagsAgreeHold == Spec => []FlagsAgree
  BY FlagsInvariance, PTL

-----------------------------------------------------------------------------
(* The searches get on: the finite part of SearchReturns.                  *)

\* the methods whose loops are bounded; set_current_cmd() may search for ever
Bounded == pc \notin {"idle", "set"}

\* how many calls of get_next_cmd() a method under way has left at most, with a
\* count for each method that may yet follow it in the same update() or resume()
CallsLeft ==
    CASE pc = "do" -> 1
      [] pc \in {"do_phase", "restart_do"} -> 2
      [] pc = "look" -> 3 + (IF look < cmd_total THEN cmd_total - look ELSE 0)
      [] pc \in {"start", "update"} ->
            4 + CAPACITY + do_loops + (IF do_cmd_loaded THEN 0 ELSE 1) + (IF armed THEN 1 ELSE 0)
      [] OTHER -> 0

\* a step begins one of the calls left, or spends one of the jumps of the call under way
GetsOn == CallsLeft' < CallsLeft \/ (CallsLeft' = CallsLeft /\ loops' < loops)

\* get_next_nav_cmd() looks on from within the list while it finds commands there,
\* also when jumps have taken it back or forth
LooksWithin == pc = "look" /\ InMission => look < cmd_total

LEMMA CallsLeftIsBounded ==
    ASSUME TypeOK PROVE CallsLeft \in 0 .. MAX_DO_LOOPS + CAPACITY + 6
<1>1. /\ cmd_total \in 0 .. CAPACITY /\ do_loops \in 0 .. MAX_DO_LOOPS /\ look \in Nat
      /\ CAPACITY \in Nat /\ MAX_DO_LOOPS \in Nat
  BY DEF TypeOK
<1>2. CASE pc = "look"
  <2>1. CallsLeft = 3 + (IF look < cmd_total THEN cmd_total - look ELSE 0)
    BY <1>2 DEF CallsLeft
  <2> QED
    BY <1>1, <2>1
<1>3. CASE pc \in {"start", "update"}
  <2>1. CallsLeft = 4 + CAPACITY + do_loops + (IF do_cmd_loaded THEN 0 ELSE 1) + (IF armed THEN 1 ELSE 0)
    BY <1>3 DEF CallsLeft
  <2> QED
    BY <1>1, <2>1
<1>4. CASE pc \notin {"look", "start", "update"}
  BY <1>1, <1>4 DEF CallsLeft
<1> QED
  BY <1>2, <1>3, <1>4

LEMMA LooksWithinStep ==
    ASSUME TypeOK, LooksWithin, [Next]_vars PROVE LooksWithin'
<1> USE DEF LooksWithin, InMission
<1>1. ASSUME PassJump PROVE LooksWithin'
  BY <1>1 DEF PassJump, AtJump, mission
<1>2. ASSUME FoundNav PROVE LooksWithin'
  BY <1>2 DEF FoundNav, StartedNav, Return, GoOn, SearchFrom, mission
<1>3. ASSUME LookPastDo PROVE LooksWithin'
  BY <1>3 DEF LookPastDo, SearchFrom, mission
<1>4. ASSUME FoundDo \/ NoNav \/ LookDone \/ NextDo \/ NoNextDo \/ RestartDo PROVE LooksWithin'
  BY <1>4 DEF FoundDo, Counting, NoNav, LookDone, NextDo, NoNextDo, RestartDo, Return, GoOn, TypeOK
<1>5. ASSUME NEW v \in BOOLEAN, UpdateNav(v) \/ UpdateDo(v) PROVE LooksWithin'
  BY <1>5 DEF UpdateNav, UpdateDo, BeginAdvance, GoOn, Return
<1>6. ASSUME start PROVE LooksWithin'
  BY <1>6 DEF start, BeginAdvance
<1>7. ASSUME resume PROVE LooksWithin'
  BY <1>6, <1>7 DEF resume, StartedNav, GoOn, SearchFrom, mission
<1>8. ASSUME pc = "idle", stop \/ reset \/ Arm \/ Edit PROVE LooksWithin'
  BY <1>8 DEF stop, reset, Arm, Edit, clear, truncate, add_cmd, replace_cmd, search
<1>9. ASSUME Select PROVE LooksWithin'
  BY <1>9 DEF Select, set_current_cmd
<1>10. CASE UNCHANGED vars
  BY <1>10 DEF vars, mission, search
<1> QED
  BY <1>1, <1>2, <1>3, <1>4, <1>5, <1>6, <1>7, <1>8, <1>9, <1>10
     DEF Next, Flight, Search, update, Control, Select, Edit, start_or_resume

LEMMA SearchGetsOn ==
    ASSUME TypeOK, LooksWithin, Bounded, Search PROVE GetsOn
<1>0. /\ cmd_total \in 0 .. CAPACITY /\ do_loops \in 0 .. MAX_DO_LOOPS /\ look \in Nat
      /\ loops \in 0 .. MAX_LOOPS /\ CAPACITY \in Nat /\ MAX_DO_LOOPS \in Nat /\ MAX_LOOPS \in Nat
      /\ cursor \in Nat /\ do_cmd_loaded \in BOOLEAN /\ armed \in BOOLEAN
  BY DEF TypeOK
<1>1. ASSUME PassJump PROVE GetsOn
  <2>1. CallsLeft' = CallsLeft
    BY <1>1 DEF PassJump, CallsLeft, mission, do
  <2>2. loops' < loops
    BY <1>0, <1>1 DEF PassJump, SpendLoop
  <2> QED
    BY <2>1, <2>2 DEF GetsOn
<1>2. ASSUME FoundNav PROVE GetsOn
  <2>1. pc \in {"start", "update"} /\ CallsLeft >= 4 + CAPACITY
    BY <1>0, <1>2 DEF FoundNav, Counting, Bounded, CallsLeft
  <2>2. CASE pc' = "look"
    <3>1. look' = cursor + 1 /\ cmd_total' = cmd_total
      BY <1>2, <2>2 DEF FoundNav, StartedNav, Return, GoOn, mission
    <3>2. CallsLeft' = 3 + (IF look' < cmd_total' THEN cmd_total' - look' ELSE 0)
      BY <2>2 DEF CallsLeft
    <3>3. CallsLeft' < 4 + CAPACITY
      BY <1>0, <3>1, <3>2
    <3>4. CallsLeft \in Nat /\ CallsLeft' \in Nat
      BY <1>0, <3>1, <3>2, CallsLeftIsBounded
    <3> QED
      BY <1>0, <2>1, <3>3, <3>4 DEF GetsOn
  <2>3. CASE pc' \in {"idle", "do_phase"}
    BY <1>0, <2>1, <2>3 DEF CallsLeft, GetsOn
  <2> QED
    BY <1>2, <2>2, <2>3 DEF FoundNav, StartedNav, Return, GoOn
<1>3. ASSUME FoundDo PROVE GetsOn
  <2>1. pc \in {"start", "update"} /\ pc' = pc
    BY <1>3 DEF FoundDo, Counting, Bounded
  <2>2. CASE ~do_cmd_loaded
    <3>1. do_loops' = do_loops
      BY <1>3, <2>2 DEF FoundDo
    <3>2. \/ do_cmd_loaded' = TRUE /\ armed' = armed
          \/ do_cmd_loaded' = FALSE /\ armed = TRUE /\ armed' = FALSE
      BY <1>0, <1>3, <2>2 DEF FoundDo, StartDo, ClearProgress, StopDo
    <3> QED
      BY <1>0, <2>1, <2>2, <3>1, <3>2 DEF CallsLeft, GetsOn
  <2>3. CASE do_cmd_loaded
    <3>1. do_loops > 0 /\ do_loops' = do_loops - 1 /\ UNCHANGED <<do_cmd_loaded, armed>>
      BY <1>3, <2>1, <2>3 DEF FoundDo, do
    <3> QED
      BY <1>0, <2>1, <2>3, <3>1 DEF CallsLeft, GetsOn
  <2> QED
    BY <2>2, <2>3
<1>4. ASSUME LookPastDo PROVE GetsOn
  <2>1. pc = "look" /\ pc' = "look" /\ look' = look + 1 /\ cmd_total' = cmd_total
    BY <1>4 DEF LookPastDo, mission
  <2>2. look < cmd_total
    BY <1>4, <2>1 DEF LookPastDo, AtDo, LooksWithin
  <2> QED
    BY <1>0, <2>1, <2>2 DEF CallsLeft, GetsOn
<1>5. ASSUME LookDone PROVE GetsOn
  <2>1. pc = "look" /\ pc' \in {"idle", "do_phase", "restart_do"}
    BY <1>5 DEF LookDone, GoOn, TypeOK
  <2> QED
    BY <1>0, <2>1 DEF CallsLeft, GetsOn
<1>6. ASSUME NoNav \/ NextDo \/ NoNextDo \/ RestartDo PROVE GetsOn
  <2>1. pc' = "idle"
    BY <1>6 DEF NoNav, NextDo, NoNextDo, RestartDo, Return, GoOn
  <2>2. CallsLeft' = 0
    BY <2>1 DEF CallsLeft
  <2>3. pc \in {"start", "update", "do", "restart_do"}
    BY <1>6 DEF NoNav, Counting, NextDo, NoNextDo, RestartDo, Bounded
  <2>4. 0 < CallsLeft
    BY <1>0, <2>3 DEF CallsLeft
  <2> QED
    BY <2>2, <2>4 DEF GetsOn
<1> QED
  BY <1>1, <1>2, <1>3, <1>4, <1>5, <1>6 DEF Search

LEMMA NextGetsOn ==
    ASSUME TypeOK, LooksWithin, Bounded, Next PROVE GetsOn
<1>1. pc # "idle"
  BY DEF Bounded
<1>2. ASSUME NEW v \in BOOLEAN, UpdateDo(v) PROVE GetsOn
  <2>1. pc = "do_phase" /\ pc' \in {"idle", "do"}
    BY <1>2 DEF UpdateDo, Return, GoOn
  <2> QED
    BY <2>1 DEF CallsLeft, GetsOn
<1> QED
  BY <1>1, <1>2, SearchGetsOn DEF Next, Flight, update, UpdateNav, Control, Select, Edit

\* No method but set_current_cmd() can hold the main loop: the calls of get_next_cmd() it has left
\* are never more than MAX_DO_LOOPS + CAPACITY + 6, and each of its steps begins one of them or
\* spends one of the at most MAX_LOOPS jumps of the call under way, in whatever lists edits
\* produce (AP_Mission.cpp:1113-1167, 1231-1262, 258-281).
THEOREM SearchesGetOn ==
    Spec => /\ [](CallsLeft \in 0 .. MAX_DO_LOOPS + CAPACITY + 6)
            /\ [][Bounded => GetsOn]_vars
<1>1. Init => LooksWithin
  BY DEF Init, LooksWithin
<1>2. TypeOK /\ LooksWithin /\ [Next]_vars => LooksWithin'
  BY LooksWithinStep
<1>3. TypeOK => CallsLeft \in 0 .. MAX_DO_LOOPS + CAPACITY + 6
  BY CallsLeftIsBounded
<1>4. TypeOK /\ LooksWithin /\ [Next]_vars => [Bounded => GetsOn]_vars
  BY NextGetsOn
<1> QED
  BY <1>1, <1>2, <1>3, <1>4, TypeCorrect, PTL DEF Spec

-----------------------------------------------------------------------------
(* Invariants of a mission that is flown as it was uploaded.               *)

\* a search for a navigation command never looks at home
PastHome == Counting => cursor >= 1

FlightInv == FliesTheMission /\ JumpsBounded /\ PastHome

\* The part of the mission's flight that jumps play no role in.
LEMMA NoJumpsBounded == ASSUME jumps' = NoJumps PROVE JumpsBounded'
<1>1. DOMAIN jumps' = {}
  BY NoJumpsIsTable
<1>2. Cardinality({}) <= MAX_JUMPS
  BY FS_EmptySet
<1> QED
  BY <1>1, <1>2 DEF JumpsBounded

LEMMA SameJumpsBounded ==
    ASSUME JumpsBounded, UNCHANGED <<jumps, mission>> PROVE JumpsBounded'
  BY DEF JumpsBounded, mission

LEMMA InitFlightInv == Init => FlightInv
<1> SUFFICES ASSUME Init PROVE FlightInv
  OBVIOUS
<1>1. DOMAIN jumps = {} /\ Cardinality({}) <= MAX_JUMPS
  BY NoJumpsIsTable, FS_EmptySet DEF Init
<1> QED
  BY <1>1 DEF Init, FlightInv, FliesTheMission, JumpsBounded, PastHome, Counting

\* A jump is counted at most as often as it asks for, in a slot of its own.
LEMMA PassJumpBounded ==
    ASSUME TypeOK, FlightInv, PassJump PROVE JumpsBounded'
<1>1. cursor \in Indices /\ cursor < cmd_total /\ ReadCmd(cursor).kind = "jump"
  BY InMissionIsIndex DEF PassJump, SpendLoop, AtJump, InMission
<1>2. cursor # 0 /\ storage[cursor].kind = "jump" /\ storage[cursor] \in Command
  BY <1>1 DEF ReadCmd, Home, TypeOK
<1>3. CASE Forever \/ ~HasSlot(cursor)
  BY <1>3, SameJumpsBounded DEF PassJump, SpendLoop, FlightInv
<1>4. CASE ~Forever /\ HasSlot(cursor)
  <2> DEFINE n == Tracked(cursor) + (IF Counting /\ RunsAgain THEN 1 ELSE 0)
  <2>1. jumps' = CountJump(cursor, n)
    BY <1>4 DEF PassJump, SpendLoop
  <2>2. Tracked(cursor) \in Nat /\ n \in Nat
    BY TrackedIsNat
  <2>3. storage[cursor].times \in Nat /\ storage[cursor].times # FOREVER
    BY <1>2, <1>4 DEF Forever, Command
  <2>4. Tracked(cursor) <= storage[cursor].times
    BY <2>3 DEF Tracked, FlightInv, JumpsBounded
  <2>5. n <= storage[cursor].times
    BY <2>2, <2>3, <2>4 DEF RunsAgain
  <2>6. DOMAIN jumps' = DOMAIN jumps \cup {cursor}
    BY <2>1, <2>2, <1>1, CountJumpIsTable
  <2>7. Cardinality(DOMAIN jumps') <= MAX_JUMPS
    <3>1. IsFiniteSet(DOMAIN jumps)
      <4>1. IsFiniteSet(Indices)
        BY FS_Interval DEF Indices
      <4> QED
        BY <4>1, FS_Subset DEF TypeOK
    <3>2. CASE cursor \in DOMAIN jumps
      <4>1. DOMAIN jumps' = DOMAIN jumps
        BY <2>6, <3>2
      <4> QED
        BY <4>1 DEF FlightInv, JumpsBounded
    <3>3. CASE cursor \notin DOMAIN jumps
      <4>1. Cardinality(DOMAIN jumps) < MAX_JUMPS
        BY <1>4, <3>3 DEF HasSlot
      <4>2. Cardinality(DOMAIN jumps') = Cardinality(DOMAIN jumps) + 1
        BY <2>6, <3>1, <3>3, FS_AddElement
      <4>3. Cardinality(DOMAIN jumps) \in Nat
        BY <3>1, FS_CardinalityType
      <4> QED
        BY <4>1, <4>2, <4>3
    <3> QED
      BY <3>2, <3>3
  <2>8. ASSUME NEW j \in DOMAIN jumps'
        PROVE  /\ j < cmd_total' /\ storage'[j].kind = "jump"
               /\ storage'[j].times # FOREVER
               /\ jumps'[j] <= storage'[j].times
    <3>1. storage' = storage /\ cmd_total' = cmd_total
      BY DEF PassJump, SpendLoop, mission
    <3>2. CASE j = cursor
      <4>1. jumps'[j] = n
        BY <2>1, <2>6, <3>2 DEF CountJump
      <4> QED
        BY <1>1, <1>2, <2>3, <2>5, <3>1, <3>2, <4>1
    <3>3. CASE j # cursor
      <4>1. j \in DOMAIN jumps /\ jumps'[j] = jumps[j]
        BY <2>1, <2>6, <3>3 DEF CountJump
      <4> QED
        BY <3>1, <4>1 DEF FlightInv, JumpsBounded
    <3> QED
      BY <3>2, <3>3
  <2> QED
    BY <2>7, <2>8 DEF JumpsBounded
<1> QED
  BY <1>3, <1>4

LEMMA SearchFlightInv ==
    ASSUME TypeOK, FlagsAgree, FlightInv, Search PROVE FlightInv'
<1> USE DEF FlightInv, PastHome, Counting
<1>1. ASSUME PassJump PROVE FlightInv'
  <2>1. PastHome'
    <3>1. storage[cursor].target # 0 /\ storage[cursor] \in Command
      BY <1>1, InMissionIsIndex DEF PassJump, SpendLoop, NotFound, BadTarget, AtJump, TypeOK
    <3>2. storage[cursor].target \in Nat
      BY <3>1 DEF Command
    <3>3. cursor' >= 1
      BY <1>1, <3>1, <3>2, InMissionIsIndex DEF PassJump, SpendLoop, AtJump, Indices
    <3> QED
      BY <3>3
  <2>2. FliesTheMission'
    BY <1>1 DEF PassJump, SpendLoop, FliesTheMission, nav, mission
  <2> QED
    BY <1>1, <2>1, <2>2, PassJumpBounded
<1>2. ASSUME FoundNav PROVE FlightInv'
  <2>1. cursor \in Indices /\ cursor >= 1 /\ cursor < cmd_total /\ is_nav_cmd(ReadCmd(cursor))
    BY <1>2, InMissionIsIndex DEF FoundNav, SelectToResume, AtNav, InMission
  <2>2. ReadCmd(cursor) = storage[cursor]
    BY <2>1 DEF ReadCmd
  <2>3. FliesTheMission'
    BY <1>2, <2>1, <2>2 DEF FoundNav, SelectToResume, FliesTheMission, mission, TypeOK, Indices, is_nav_cmd
  <2>4. pc' \in {"idle", "do_phase", "look"}
    BY <1>2 DEF FoundNav, SelectToResume, StartedNav, Return, GoOn
  <2> QED
    BY <1>2, <2>3, <2>4, SameJumpsBounded DEF FoundNav, SelectToResume
<1>3. ASSUME FoundDo PROVE FlightInv'
  <2>1. cursor' >= 1
    BY <1>3, InMissionIsIndex DEF FoundDo, AtDo, SearchFrom, Indices
  <2>2. UNCHANGED mission
    BY <1>3 DEF FoundDo
  <2>3. ~nav_cmd_loaded' \/ UNCHANGED nav
    BY <1>3 DEF FoundDo, StartDo, ClearProgress, StopDo
  <2>4. jumps' = jumps \/ jumps' = NoJumps
    BY <1>3 DEF FoundDo, StartDo, ClearProgress, StopDo
  <2> QED
    BY <2>1, <2>2, <2>3, <2>4, NoJumpsBounded, SameJumpsBounded DEF FliesTheMission, nav, mission
<1>4. ASSUME NoNav PROVE FlightInv'
  <2>1. ~nav_cmd_loaded' /\ UNCHANGED <<mission, jumps>> /\ pc' = "idle"
    BY <1>4 DEF NoNav, Return, GoOn, FlagsAgree, LoadedHasIndex
  <2> QED
    BY <2>1, SameJumpsBounded DEF FliesTheMission
<1>5. ASSUME LookPastDo \/ LookDone \/ NoNextDo PROVE FlightInv'
  <2>1. UNCHANGED <<mission, nav, jumps>>
    BY <1>5 DEF LookPastDo, LookDone, NoNextDo
  <2>2. pc' \in {"look", "idle", "do_phase", "restart_do"}
    BY <1>5 DEF LookPastDo, LookDone, NoNextDo, Return, GoOn, TypeOK
  <2> QED
    BY <2>1, <2>2, SameJumpsBounded DEF FliesTheMission, nav, mission
<1>6. ASSUME NextDo \/ RestartDo PROVE FlightInv'
  <2>1. UNCHANGED mission /\ pc' = "idle"
    BY <1>6 DEF NextDo, RestartDo, Return, GoOn
  <2>2. ~nav_cmd_loaded' \/ UNCHANGED nav
    BY <1>6 DEF NextDo, RestartDo, StartDo, ClearProgress, StopDo
  <2>3. jumps' = jumps \/ jumps' = NoJumps
    BY <1>6 DEF NextDo, RestartDo, StartDo, ClearProgress, StopDo
  <2> QED
    BY <2>1, <2>2, <2>3, NoJumpsBounded, SameJumpsBounded DEF FliesTheMission, nav, mission
<1> QED
  BY <1>1, <1>2, <1>3, <1>4, <1>5, <1>6 DEF Search

LEMMA StepFlightInv ==
    ASSUME TypeOK, FlagsAgree, FlightInv, [Flight]_vars PROVE FlightInv'
<1> USE DEF FlightInv, PastHome, Counting
<1>1. ASSUME update PROVE FlightInv'
  <2>1. PICK v \in BOOLEAN : UpdateNav(v) \/ UpdateDo(v)
    BY <1>1 DEF update
  <2>2. CASE UpdateNav(v)
    <3>1. After(nav_cmd.index) \in Nat /\ After(nav_cmd.index) >= 1
      BY DEF TypeOK, After, FIRST, NONE, Indices
    <3>2. PastHome'
      BY <2>2, <3>1 DEF UpdateNav, StopDo, GoOn, BeginAdvance, SearchFrom
    <3>3. FliesTheMission'
      BY <2>2 DEF UpdateNav, StopDo, FliesTheMission, mission
    <3> QED
      BY <2>2, <3>2, <3>3, SameJumpsBounded DEF UpdateNav, StopDo
  <2>3. CASE UpdateDo(v)
    <3>1. UNCHANGED <<mission, nav, jumps>> /\ pc' \in {"idle", "do"}
      BY <2>3 DEF UpdateDo, Return, GoOn
    <3> QED
      BY <3>1, SameJumpsBounded DEF FliesTheMission, nav, mission
  <2> QED
    BY <2>1, <2>2, <2>3
<1>2. ASSUME start PROVE FlightInv'
  <2>1. nav_cmd'.index = NONE
    BY <1>2 DEF start, ClearProgress, StopDo, TypeOK
  <2>2. cursor' = 1
    BY <1>2, <2>1 DEF start, BeginAdvance, SearchFrom, After, FIRST
  <2> QED
    BY <1>2, <2>2, NoJumpsBounded DEF start, ClearProgress, StopDo, FliesTheMission
<1>3. ASSUME resume PROVE FlightInv'
  <2>1. CASE start
    BY <1>2, <2>1
  <2>2. CASE ~start
    <3>1. pc' \in {"restart_do", "look"} /\ UNCHANGED <<mission, jumps, nav_cmd_loaded>>
      BY <1>3, <2>2 DEF resume, StartedNav, GoOn
    <3>2. nav_cmd_loaded => nav_cmd' = nav_cmd
      <4> SUFFICES ASSUME nav_cmd_loaded PROVE nav_cmd' = nav_cmd
        OBVIOUS
      <4>1. nav_cmd.index \in 1 .. cmd_total - 1 /\ nav_cmd.cmd = storage[nav_cmd.index]
        BY DEF FliesTheMission
      <4>2. ReadCmd(nav_cmd.index) = nav_cmd.cmd
        BY <4>1 DEF ReadCmd, TypeOK
      <4>3. nav_cmd = [nav_cmd EXCEPT !.cmd = nav_cmd.cmd]
        BY DEF TypeOK
      <4>4. nav_cmd' = [nav_cmd EXCEPT !.cmd = ReadCmd(nav_cmd.index)] \/ nav_cmd' = nav_cmd
        BY <1>3, <2>2 DEF resume
      <4> QED
        BY <4>2, <4>3, <4>4
    <3> QED
      BY <3>1, <3>2, SameJumpsBounded DEF FliesTheMission, mission
  <2> QED
    BY <2>1, <2>2
<1>4. ASSUME Control PROVE FlightInv'
  <2>1. CASE stop \/ Arm
    BY <2>1, SameJumpsBounded DEF stop, Arm, FliesTheMission, mission, nav, search
  <2>2. CASE reset
    BY <2>2, NoJumpsBounded DEF reset, ClearProgress, StopDo, FliesTheMission, search
  <2> QED
    BY <1>2, <1>3, <1>4, <2>1, <2>2 DEF Control, start_or_resume
<1>5. ASSUME Select PROVE FlightInv'
  <2>1. PICK i \in Indices : set_current_cmd(i)
    BY <1>5 DEF Select
  <2>2. cursor' >= 1 /\ ~nav_cmd_loaded' /\ UNCHANGED mission
    BY <2>1 DEF set_current_cmd, StopDo, SearchFrom, FIRST, Indices
  <2>3. jumps' = jumps \/ jumps' = NoJumps
    BY <2>1 DEF set_current_cmd, StopDo
  <2> QED
    BY <2>2, <2>3, NoJumpsBounded, SameJumpsBounded DEF FliesTheMission
<1>6. CASE UNCHANGED vars
  BY <1>6, SameJumpsBounded DEF FliesTheMission, vars, nav, mission, search
<1> QED
  BY <1>1, <1>4, <1>5, <1>6, SearchFlightInv DEF Flight

LEMMA FlightInvariance == FlightSpec => [](TypeOK /\ FlagsAgree /\ FlightInv)
<1>1. Init => TypeOK /\ FlagsAgree /\ FlightInv
  BY InitTypeOK, InitFlags, InitFlightInv
<1>2. TypeOK /\ FlagsAgree /\ FlightInv /\ [Flight]_vars => (TypeOK /\ FlagsAgree /\ FlightInv)'
  BY NextTypeOK, NextFlags, StepFlightInv DEF Next
<1> QED
  BY <1>1, <1>2, PTL DEF FlightSpec

\* The vehicle only ever flies to navigation commands of the mission it stores,
\* whatever jumps the mission holds and however it is stopped and resumed.
THEOREM FliesTheMissionHolds == FlightSpec => []FliesTheMission
<1>1. FlightInv => FliesTheMission
  BY DEF FlightInv
<1> QED
  BY <1>1, FlightInvariance, PTL

\* No jump is followed more often than it asks for, for any number of jumps.
THEOREM JumpsBoundedHolds == FlightSpec => []JumpsBounded
<1>1. FlightInv => JumpsBounded
  BY DEF FlightInv
<1> QED
  BY <1>1, FlightInvariance, PTL

-----------------------------------------------------------------------------
(* What the commands of a mission lead to.                                 *)

Places == 0 .. CAPACITY

LEMMA EdgesArePlaces ==
    ASSUME TypeOK, NEW i \in Places
    PROVE  Plan!Edges(i) \subseteq Places /\ (Plan!Edges(i) # {} => i < cmd_total)
BY DEF TypeOK, Places, Plan!Edges, Plan!IsJump, Plan!CanFollow

LEMMA ReachSelf ==
    ASSUME NEW i \in Places
    PROVE  i \in Plan!Reach(i) /\ Plan!Reach(i) \subseteq Places
BY DEF Plan!Reach, Places

LEMMA ReachStep ==
    ASSUME TypeOK, NEW i, NEW k \in Plan!Reach(i), NEW e \in Plan!Edges(k)
    PROVE  e \in Plan!Reach(i)
<1>1. k \in Places
  BY DEF Plan!Reach, Places
<1>2. e \in Places
  BY <1>1, EdgesArePlaces
<1>. QED
  BY <1>2 DEF Plan!Reach, Plan!Closed, Places

LEMMA ReachTrans ==
    ASSUME NEW i, NEW j \in Plan!Reach(i), NEW k \in Plan!Reach(j)
    PROVE  k \in Plan!Reach(i)
BY DEF Plan!Reach

\* Nothing but what is in a closed set is reached from inside of it.
LEMMA ReachInClosed ==
    ASSUME NEW S \in SUBSET Places, Plan!Closed(S), NEW i \in S, NEW k \in Plan!Reach(i)
    PROVE  k \in S
BY DEF Plan!Reach, Places

\* A do command can be passed twice only by way of a jump that leads back to itself.
LEMMA DoCycle ==
    ASSUME TypeOK, NEW d \in Places, Plan!IsDo(d), d \in Plan!Reach(d + 1)
    PROVE  \E k \in Plan!Reach(d) : Plan!EndsAt(k)
<1>. SUFFICES ASSUME \A k \in Plan!Reach(d) : ~Plan!EndsAt(k) PROVE FALSE
  OBVIOUS
<1>. DEFINE S == {j \in Plan!Reach(d + 1) : j > d \/ d \notin Plan!Reach(j)}
<1>1. Plan!Edges(d) = {d + 1} /\ d + 1 \in Places
  BY DEF TypeOK, Places, Plan!IsDo, Plan!Edges, Plan!IsNav, Plan!IsJump
<1>2. S \subseteq Places /\ d + 1 \in S
  BY <1>1, ReachSelf DEF Places
<1>3. Plan!Closed(S)
  <2>. SUFFICES ASSUME NEW j \in S, NEW e \in Plan!Edges(j) PROVE e \in S
    BY DEF Plan!Closed
  <2>1. j \in Places /\ e \in Plan!Reach(d + 1) /\ e \in Places
    BY <1>1, ReachSelf, ReachStep
  <2>2. CASE d \notin Plan!Reach(j)
    <3>1. e \in Plan!Reach(j)
      BY <2>1, ReachSelf, ReachStep
    <3>2. d \notin Plan!Reach(e)
      BY <2>2, <3>1, ReachTrans
    <3>. QED
      BY <2>1, <3>2
  <2>3. CASE j > d /\ d \in Plan!Reach(j)
    <3>1. CASE e = j + 1
      BY <2>1, <2>3, <3>1 DEF Places
    <3>2. CASE e # j + 1
      <4>1. Plan!IsJump(j)
        BY <3>2 DEF Plan!Edges
      <4>2. d \notin Plan!Reach(e)
        <5>. SUFFICES ASSUME d \in Plan!Reach(e) PROVE FALSE
          OBVIOUS
        <5>1. d + 1 \in Plan!Reach(e)
          BY <1>1, ReachStep
        <5>2. j \in Plan!Reach(e)
          BY <5>1, ReachTrans
        <5>3. j \in Plan!Reach(d)
          <6>1. d + 1 \in Plan!Reach(d)
            BY <1>1, ReachSelf, ReachStep
          <6>. QED
            BY <6>1, ReachTrans
        <5>4. Plan!EndsAt(j)
          BY <4>1, <5>2 DEF Plan!EndsAt
        <5>. QED
          BY <5>3, <5>4
      <4>. QED
        BY <2>1, <4>2
    <3>. QED
      BY <3>1, <3>2
  <2>. QED
    BY <2>2, <2>3
<1>4. d \in S
  <2>. HIDE DEF S
  <2>. QED
    BY <1>2, <1>3, ReachInClosed
<1>. QED
  BY <1>4, ReachSelf DEF Places

\* Where the commands lead changes only with the mission.
LEMMA SamePlan ==
    ASSUME UNCHANGED mission, NEW i
    PROVE  /\ Plan!Edges(i)' = Plan!Edges(i)
           /\ Plan!Reach(i)' = Plan!Reach(i)
           /\ Plan!IsJump(i)' = Plan!IsJump(i)
           /\ Plan!IsDo(i)' = Plan!IsDo(i)
           /\ Plan!EndsAt(i)' = Plan!EndsAt(i)
<1>1. \A j : Plan!Edges(j)' = Plan!Edges(j)
  BY DEF mission, Plan!Edges, Plan!IsJump, Plan!CanFollow, Plan!IsNav
<1>2. \A j : Plan!Reach(j)' = Plan!Reach(j)
  BY <1>1 DEF Plan!Reach, Plan!Closed
<1>. QED
  BY <1>1, <1>2 DEF mission, Plan!IsJump, Plan!IsDo, Plan!EndsAt, Plan!CanFollow

-----------------------------------------------------------------------------
(* The search for a navigation command, as far as it has come.  It gives   *)
(* up after MAX_LOOPS jumps or MAX_DO_LOOPS do commands: unless some       *)
(* command is passed twice, it has passed as many different ones.          *)

JumpsOn(i) == {k \in Plan!Reach(i) : Plan!IsJump(k)}
DosOn(i)   == {k \in Plan!Reach(i) : Plan!IsDo(k)}
Ends(i)    == \E k \in Plan!Reach(i) : Plan!EndsAt(k)
Comes(k, c) == \E e \in Plan!Edges(k) : c \in Plan!Reach(e)

\* n commands of S have been passed on the way to c.
Passed(S, c, n) == \E V \in SUBSET S : Cardinality(V) = n /\ \A k \in V : Comes(k, c)

\* The search that began at o has come to c.
OnTheWay(o, c, jumpsLeft, dosLeft, p) ==
    /\ c \in Plan!Reach(o)
    /\ Ends(o) \/ Passed(JumpsOn(o), c, MAX_LOOPS - jumpsLeft)
    /\ p = "set" \/ Ends(o) \/ Passed(DosOn(o), c, MAX_DO_LOOPS - dosLeft)

PathInv ==
    \A o, c, n, m, p :
        Counting /\ o = origin /\ c = cursor /\ n = loops /\ m = do_loops /\ p = pc =>
            OnTheWay(o, c, n, m, p)

\* Where the search began, or will begin
OriginInv ==
    /\ origin \in Places
    /\ ~Counting => origin = After(nav_cmd.index)
    /\ pc \in {"start", "update"} => state = "RUNNING"

LEMMA PlacesFinite == \A S \in SUBSET Places : IsFiniteSet(S)
<1>1. 0 \in Int /\ CAPACITY \in Int
  OBVIOUS
<1>2. IsFiniteSet(Places)
  BY <1>1, FS_Interval DEF Places
<1>. QED
  BY <1>2, FS_Subset

LEMMA PassedNone == \A S, c : Passed(S, c, 0)
<1>1. Cardinality({}) = 0
  BY FS_EmptySet
<1>. QED
  BY <1>1 DEF Passed

\* The search moves on from c.
LEMMA ComesOn ==
    ASSUME TypeOK, NEW k, NEW c, Comes(k, c), NEW c2 \in Plan!Edges(c)
    PROVE  Comes(k, c2)
BY ReachStep DEF Comes

LEMMA PassedOn ==
    ASSUME TypeOK, NEW S, NEW c, NEW n, Passed(S, c, n), NEW c2 \in Plan!Edges(c)
    PROVE  Passed(S, c2, n)
BY ComesOn DEF Passed

\* The commands passed and c, which is not one of them
LEMMA PassedAnd ==
    ASSUME NEW S \in SUBSET Places, NEW c \in S, NEW n \in Nat, Passed(S, c, n), ~Comes(c, c)
    PROVE  \E V \in SUBSET S : /\ c \notin V /\ \A k \in V : Comes(k, c)
                              /\ Cardinality(V \cup {c}) = n + 1
<1>1. IsFiniteSet(S)
  BY PlacesFinite
<1>2. PICK V \in SUBSET S : Cardinality(V) = n /\ \A k \in V : Comes(k, c)
  BY DEF Passed
<1>3. c \notin V /\ IsFiniteSet(V)
  BY <1>1, <1>2, FS_Subset
<1>. QED
  BY <1>2, <1>3, FS_AddElement

LEMMA PassedMore ==
    ASSUME TypeOK, NEW S \in SUBSET Places, NEW c \in S, NEW n \in Nat, Passed(S, c, n),
           ~Comes(c, c), NEW c2 \in Plan!Edges(c)
    PROVE  Passed(S, c2, n + 1)
<1>1. PICK V \in SUBSET S : /\ c \notin V /\ \A k \in V : Comes(k, c)
                           /\ Cardinality(V \cup {c}) = n + 1
  BY PassedAnd
<1>2. Comes(c, c2)
  <2>1. c2 \in Places
    BY EdgesArePlaces
  <2>. QED
    BY <2>1, ReachSelf DEF Comes
<1>3. \A k \in V \cup {c} : Comes(k, c2)
  BY <1>1, <1>2, ComesOn
<1>. QED
  BY <1>1, <1>3 DEF Passed

LEMMA PassedAll ==
    ASSUME NEW S \in SUBSET Places, NEW c \in S, NEW n \in Nat, Passed(S, c, n), ~Comes(c, c)
    PROVE  Cardinality(S) > n
<1>1. PICK V \in SUBSET S : Cardinality(V \cup {c}) = n + 1
  BY PassedAnd
<1>2. IsFiniteSet(S)
  BY PlacesFinite
<1>3. V \cup {c} \subseteq S
  BY <1>1
<1>4. Cardinality(V \cup {c}) <= Cardinality(S) /\ Cardinality(S) \in Nat
  BY <1>2, <1>3, FS_Subset, FS_CardinalityType
<1>. QED
  BY <1>1, <1>4

\* A command on the way that is passed twice shows that the way can end there.
LEMMA CycleEnds ==
    ASSUME TypeOK, NEW o, NEW c \in Plan!Reach(o), Plan!IsJump(c) \/ Plan!IsDo(c), Comes(c, c)
    PROVE  Ends(o)
<1>1. c \in Places
  BY DEF Plan!Reach, Places
<1>2. CASE Plan!IsJump(c)
  BY <1>2 DEF Ends, Comes, Plan!EndsAt
<1>3. CASE Plan!IsDo(c)
  <2>1. Plan!Edges(c) = {c + 1}
    BY <1>3 DEF Plan!IsDo, Plan!Edges, Plan!IsNav, Plan!IsJump, TypeOK
  <2>2. c \in Plan!Reach(c + 1)
    BY <2>1 DEF Comes
  <2>3. PICK k \in Plan!Reach(c) : Plan!EndsAt(k)
    BY <1>1, <1>3, <2>2, DoCycle
  <2>4. k \in Plan!Reach(o)
    BY <2>3, ReachTrans
  <2>. QED
    BY <2>3, <2>4 DEF Ends
<1>. QED
  BY <1>2, <1>3

\* The command that the search looks at
LEMMA AtCursor ==
    ASSUME TypeOK, InMission
    PROVE  /\ cursor \in Places
           /\ AtJump <=> Plan!IsJump(cursor)
           /\ AtDo <=> Plan!IsDo(cursor)
           /\ AtNav <=> Plan!IsNav(cursor)
           /\ AtDo => Plan!Edges(cursor) = {cursor + 1}
           /\ AtJump => cursor + 1 \in Plan!Edges(cursor)
           /\ AtJump => (BadTarget <=> ~Plan!CanFollow(cursor))
           /\ AtJump /\ ~BadTarget => storage[cursor].target \in Plan!Edges(cursor)
<1>1. cursor \in Nat /\ cursor < cmd_total /\ cmd_total \in Places /\ cursor \in Indices
  BY InMissionIsIndex DEF TypeOK, Places, InMission
<1>2. storage[cursor].kind \in Kinds /\ storage[cursor].target \in Nat
  BY <1>1 DEF TypeOK, Command
<1>3. /\ AtJump <=> Plan!IsJump(cursor)
      /\ AtDo <=> Plan!IsDo(cursor)
      /\ AtNav <=> Plan!IsNav(cursor)
  BY <1>1, <1>2 DEF AtJump, AtDo, AtNav, InMission, ReadCmd, Home, is_nav_cmd, Kinds, Places,
                    Plan!IsJump, Plan!IsDo, Plan!IsNav
<1>4. /\ AtJump => ~Plan!IsNav(cursor)
      /\ AtDo => ~Plan!IsNav(cursor) /\ ~Plan!IsJump(cursor)
  BY <1>1, <1>2, <1>3 DEF Plan!IsJump, Plan!IsDo, Plan!IsNav, Places
<1>5. BadTarget <=> ~Plan!CanFollow(cursor)
  BY <1>1, <1>2 DEF BadTarget, Plan!CanFollow, Places
<1>. QED
  BY <1>1, <1>3, <1>4, <1>5 DEF Plan!Edges, Places

LEMMA WayBegins ==
    ASSUME NEW o \in Places, NEW m, NEW p, p = "set" \/ m = MAX_DO_LOOPS
    PROVE  OnTheWay(o, o, MAX_LOOPS, m, p)
<1>1. MAX_LOOPS - MAX_LOOPS = 0 /\ MAX_DO_LOOPS - MAX_DO_LOOPS = 0
  OBVIOUS
<1>. QED
  BY <1>1, ReachSelf, PassedNone DEF OnTheWay

\* A jump is passed.
LEMMA WayPassesJump ==
    ASSUME TypeOK, PassJump, OnTheWay(origin, cursor, loops, do_loops, pc)
    PROVE  OnTheWay(origin, cursor', loops', do_loops', pc')
<1>1. /\ InMission /\ AtJump /\ loops # 0 /\ ~BadTarget
      /\ cursor' \in {cursor + 1, storage[cursor].target}
      /\ loops' = loops - 1 /\ do_loops' = do_loops /\ pc' = pc
  BY DEF PassJump, NotFound, SpendLoop, AtJump
<1>2. cursor' \in Plan!Edges(cursor) /\ Plan!IsJump(cursor)
  BY <1>1, AtCursor
<1>3. cursor' \in Plan!Reach(origin)
  BY <1>2, ReachStep DEF OnTheWay
<1>4. Ends(origin) \/ Passed(DosOn(origin), cursor', MAX_DO_LOOPS - do_loops) \/ pc = "set"
  BY <1>2, PassedOn DEF OnTheWay
<1>5. Ends(origin) \/ Passed(JumpsOn(origin), cursor', MAX_LOOPS - (loops - 1))
  <2>. SUFFICES ASSUME ~Ends(origin)
                PROVE  Passed(JumpsOn(origin), cursor', MAX_LOOPS - (loops - 1))
    OBVIOUS
  <2>1. ~Comes(cursor, cursor)
    BY <1>2, CycleEnds DEF OnTheWay
  <2>2. JumpsOn(origin) \in SUBSET Places /\ cursor \in JumpsOn(origin)
    BY <1>2 DEF JumpsOn, OnTheWay, Plan!Reach, Places
  <2>3. MAX_LOOPS - loops \in Nat /\ MAX_LOOPS - (loops - 1) = (MAX_LOOPS - loops) + 1
    BY DEF TypeOK
  <2>4. Passed(JumpsOn(origin), cursor, MAX_LOOPS - loops)
    BY DEF OnTheWay
  <2>. QED
    BY <1>2, <2>1, <2>2, <2>3, <2>4, PassedMore
<1>. QED
  BY <1>1, <1>3, <1>4, <1>5 DEF OnTheWay

\* A do command is passed.
LEMMA WayPassesDo ==
    ASSUME TypeOK, FoundDo, OnTheWay(origin, cursor, loops, do_loops, pc)
    PROVE  OnTheWay(origin, cursor', loops', do_loops', pc')
<1>1. /\ InMission /\ AtDo /\ cursor' = cursor + 1 /\ loops' = MAX_LOOPS /\ pc' = pc
      /\ pc = "set" \/ do_loops' = do_loops \/ (do_loops > 0 /\ do_loops' = do_loops - 1)
  BY DEF FoundDo, AtDo, SearchFrom
<1>2. cursor' \in Plan!Edges(cursor) /\ Plan!IsDo(cursor)
  BY <1>1, AtCursor
<1>3. cursor' \in Plan!Reach(origin)
  BY <1>2, ReachStep DEF OnTheWay
<1>4. Passed(JumpsOn(origin), cursor', MAX_LOOPS - MAX_LOOPS)
  BY PassedNone
<1>5. pc = "set" \/ Ends(origin) \/ Passed(DosOn(origin), cursor', MAX_DO_LOOPS - do_loops')
  <2>. SUFFICES ASSUME pc # "set", ~Ends(origin)
                PROVE  Passed(DosOn(origin), cursor', MAX_DO_LOOPS - do_loops')
    OBVIOUS
  <2>1. ~Comes(cursor, cursor)
    BY <1>2, CycleEnds DEF OnTheWay
  <2>2. DosOn(origin) \in SUBSET Places /\ cursor \in DosOn(origin)
    BY <1>2 DEF DosOn, OnTheWay, Plan!Reach, Places
  <2>3. Passed(DosOn(origin), cursor, MAX_DO_LOOPS - do_loops)
    BY DEF OnTheWay
  <2>4. CASE do_loops' = do_loops
    BY <1>2, <2>3, <2>4, PassedOn
  <2>5. CASE do_loops > 0 /\ do_loops' = do_loops - 1
    <3>1. /\ MAX_DO_LOOPS - do_loops \in Nat
          /\ MAX_DO_LOOPS - do_loops' = (MAX_DO_LOOPS - do_loops) + 1
      BY <2>5 DEF TypeOK
    <3>. QED
      BY <1>2, <2>1, <2>2, <2>3, <3>1, PassedMore
  <2>. QED
    BY <1>1, <2>4, <2>5
<1>. QED
  BY <1>1, <1>3, <1>4, <1>5 DEF OnTheWay

LEMMA SameCardinality == \A S : Plan!Cardinality(S) = Cardinality(S)
BY Zenon DEF Plan!Cardinality, Cardinality

\* A search that finds nothing, or gives up, began where the mission can end.
LEMMA WayEnds ==
    ASSUME TypeOK, Counting, NotFound \/ TooManyDos,
           OnTheWay(origin, cursor, loops, do_loops, pc)
    PROVE  Plan!CanEnd(origin)
<1>1. CASE Ends(origin)
  BY <1>1 DEF Ends, Plan!CanEnd
<1>2. CASE ~InMission
  BY <1>2 DEF InMission, OnTheWay, Plan!CanEnd, Plan!EndsAt, TypeOK
<1>3. CASE InMission /\ AtJump /\ BadTarget
  <2>1. Plan!EndsAt(cursor)
    BY <1>3, AtCursor DEF Plan!EndsAt
  <2>. QED
    BY <2>1 DEF OnTheWay, Plan!CanEnd
<1>4. CASE InMission /\ AtJump /\ loops = 0 /\ ~Ends(origin)
  <2>1. Plan!IsJump(cursor) /\ ~Comes(cursor, cursor)
    BY <1>4, AtCursor, CycleEnds DEF OnTheWay
  <2>2. JumpsOn(origin) \in SUBSET Places /\ cursor \in JumpsOn(origin)
    BY <2>1 DEF JumpsOn, OnTheWay, Plan!Reach, Places
  <2>3. Passed(JumpsOn(origin), cursor, MAX_LOOPS)
    <3>1. MAX_LOOPS - loops = MAX_LOOPS
      BY <1>4
    <3>. QED
      BY <1>4, <3>1 DEF OnTheWay
  <2>4. Cardinality(JumpsOn(origin)) > MAX_LOOPS
    BY <2>1, <2>2, <2>3, PassedAll
  <2>. QED
    BY <2>4, SameCardinality DEF JumpsOn, Plan!CanEnd
<1>5. CASE TooManyDos /\ ~Ends(origin)
  <2>1. InMission /\ AtDo /\ do_loops = 0 /\ pc # "set"
    BY <1>5 DEF TooManyDos, AtDo
  <2>2. Plan!IsDo(cursor) /\ ~Comes(cursor, cursor)
    BY <1>5, <2>1, AtCursor, CycleEnds DEF OnTheWay
  <2>3. DosOn(origin) \in SUBSET Places /\ cursor \in DosOn(origin)
    BY <2>2 DEF DosOn, OnTheWay, Plan!Reach, Places
  <2>4. Passed(DosOn(origin), cursor, MAX_DO_LOOPS)
    <3>1. MAX_DO_LOOPS - do_loops = MAX_DO_LOOPS
      BY <2>1
    <3>. QED
      BY <1>5, <2>1, <3>1 DEF OnTheWay
  <2>5. Cardinality(DosOn(origin)) > MAX_DO_LOOPS
    BY <2>2, <2>3, <2>4, PassedAll
  <2>. QED
    BY <2>5, SameCardinality DEF DosOn, Plan!CanEnd
<1>. QED
  BY <1>1, <1>2, <1>3, <1>4, <1>5 DEF NotFound, AtJump

LEMMA SameWay ==
    ASSUME UNCHANGED mission, NEW o, NEW c, NEW n, NEW m, NEW p
    PROVE  OnTheWay(o, c, n, m, p)' <=> OnTheWay(o, c, n, m, p)
<1>1. \A i : /\ Plan!Edges(i)' = Plan!Edges(i)
             /\ Plan!Reach(i)' = Plan!Reach(i)
             /\ Plan!IsJump(i)' = Plan!IsJump(i)
             /\ Plan!IsDo(i)' = Plan!IsDo(i)
             /\ Plan!EndsAt(i)' = Plan!EndsAt(i)
  BY SamePlan
<1>2. JumpsOn(o)' = JumpsOn(o) /\ DosOn(o)' = DosOn(o) /\ Ends(o)' = Ends(o)
  BY <1>1 DEF JumpsOn, DosOn, Ends
<1>3. \A k : Comes(k, c)' = Comes(k, c)
  BY <1>1 DEF Comes
<1>4. /\ Passed(JumpsOn(o), c, MAX_LOOPS - n)' = Passed(JumpsOn(o), c, MAX_LOOPS - n)
      /\ Passed(DosOn(o), c, MAX_DO_LOOPS - m)' = Passed(DosOn(o), c, MAX_DO_LOOPS - m)
  BY <1>2, <1>3 DEF Passed
<1>. QED
  BY <1>1, <1>2, <1>4 DEF OnTheWay

-----------------------------------------------------------------------------
(* The steps of the flight.                                                *)

LEMMA FlightKeepsMission == Flight => UNCHANGED mission
<1>1. Search => UNCHANGED mission
  BY DEF Search, PassJump, SpendLoop, FoundNav, SelectToResume, FoundDo, NoNav, LookPastDo, LookDone,
         NextDo, NoNextDo, RestartDo
<1>2. update => UNCHANGED mission
  BY DEF update, UpdateNav, UpdateDo, StopDo
<1>3. Control \/ Select => UNCHANGED mission
  BY DEF Control, Select, start, stop, resume, start_or_resume, reset, Arm, set_current_cmd, StopDo
<1>. QED
  BY <1>1, <1>2, <1>3 DEF Flight

\* A search for a navigation command is made of these steps.
LEMMA CountingStep ==
    ASSUME Flight, Counting
    PROVE  PassJump \/ FoundDo \/ FoundNav \/ NoNav
<1>1. pc \in {"start", "update", "set"}
  BY DEF Counting
<1>2. ~update /\ ~Control /\ ~Select
  BY <1>1 DEF update, UpdateNav, UpdateDo, Control, Select
<1>. QED
  BY <1>1, <1>2 DEF Flight, Search, LookPastDo, LookDone, NextDo, NoNextDo, RestartDo

LEMMA GoesOn ==
    ASSUME Flight, Counting, Counting'
    PROVE  /\ PassJump \/ FoundDo
           /\ pc' = pc /\ state' = state
<1>1. ~FoundNav /\ ~NoNav
  BY DEF FoundNav, SelectToResume, NoNav, StartedNav, GoOn, Return, Counting
<1>. QED
  BY <1>1, CountingStep DEF PassJump, SpendLoop, FoundDo

\* It begins with one of these.
LEMMA SearchBegins ==
    ASSUME Flight, TypeOK, ~Counting, Counting'
    PROVE  /\ start \/ UpdateNav(TRUE) \/ UpdateNav(FALSE) \/ \E i \in Indices : set_current_cmd(i)
           /\ pc = "idle"
<1>1. ~Search
  BY DEF Search, PassJump, SpendLoop, FoundNav, SelectToResume, FoundDo, NoNav, LookPastDo, LookDone,
         NextDo, NoNextDo, RestartDo, GoOn, Return, Counting, TypeOK
<1>2. ASSUME Control PROVE start /\ pc = "idle"
  <2>1. pc = "idle" /\ (start \/ stop \/ resume \/ reset \/ Arm)
    BY <1>2 DEF Control, start_or_resume
  <2>2. ~stop /\ ~reset /\ ~Arm
    BY DEF stop, reset, Arm, search, Counting
  <2>3. resume => start
    BY DEF resume, StartedNav, GoOn, Counting
  <2>. QED
    BY <2>1, <2>2, <2>3
<1>3. ASSUME update PROVE (UpdateNav(TRUE) \/ UpdateNav(FALSE)) /\ pc = "idle"
  <2>1. \A v \in BOOLEAN : ~UpdateDo(v)
    BY DEF UpdateDo, Return, GoOn, Counting
  <2>. QED
    BY <1>3, <2>1 DEF update, UpdateNav
<1>. QED
  BY <1>1, <1>2, <1>3 DEF Flight, Select

\* Where it begins
LEMMA SearchBeginsAt ==
    ASSUME Flight, TypeOK, ~Counting, Counting'
    PROVE  /\ cursor' \in Places /\ loops' = MAX_LOOPS
           /\ \/ /\ pc' \in {"start", "update"} /\ do_loops' = MAX_DO_LOOPS
                 /\ state' = "RUNNING" /\ cursor' = After(nav_cmd'.index)
              \/ pc' = "set" /\ cursor' \in 1 .. cmd_total - 1
<1>1. CASE start
  <2>1. nav_cmd' = [nav_cmd EXCEPT !.index = NONE]
    BY <1>1 DEF start, ClearProgress, StopDo
  <2>2. nav_cmd'.index = NONE
    BY <2>1 DEF TypeOK
  <2>3. FIRST \in Places
    BY DEF FIRST, Places
  <2>. QED
    BY <1>1, <2>2, <2>3 DEF start, BeginAdvance, SearchFrom, After
<1>2. ASSUME NEW v \in BOOLEAN, UpdateNav(v)
      PROVE  /\ pc' = "update" /\ do_loops' = MAX_DO_LOOPS /\ loops' = MAX_LOOPS
             /\ state' = "RUNNING" /\ cursor' = After(nav_cmd'.index) /\ cursor' \in Places
  <2>1. BeginAdvance("update") /\ nav_cmd' = nav_cmd /\ state' = "RUNNING"
    BY <1>2 DEF UpdateNav, StopDo, GoOn, Counting
  <2>2. After(nav_cmd.index) \in Places
    BY DEF TypeOK, After, Places, Indices, FIRST
  <2>. QED
    BY <2>1, <2>2 DEF BeginAdvance, SearchFrom
<1>3. ASSUME NEW i \in Indices, set_current_cmd(i)
      PROVE  pc' = "set" /\ loops' = MAX_LOOPS /\ cursor' \in 1 .. cmd_total - 1
  BY <1>3 DEF set_current_cmd, StopDo, SearchFrom, FIRST, Indices, TypeOK
<1>4. 1 .. cmd_total - 1 \subseteq Places
  BY DEF TypeOK, Places
<1>. QED
  BY <1>1, <1>2, <1>3, <1>4, SearchBegins

LEMMA SearchInvHolds == TraceInit => OriginInv /\ PathInv
<1>1. After(NONE) = FIRST /\ FIRST \in Places
  BY DEF After, FIRST, Places
<1>. QED
  BY <1>1 DEF TraceInit, Init, OriginInv, PathInv, Counting

LEMMA SearchInvStep ==
    ASSUME TypeOK, TypeOK', OriginInv, PathInv, TraceNext
    PROVE  OriginInv' /\ PathInv'
<1>1. UNCHANGED mission /\ Flight /\ Record
  BY FlightKeepsMission DEF TraceNext
<1>2. CASE ~Counting'
  <2>1. origin' = After(nav_cmd'.index) /\ pc' \notin {"start", "update"}
    BY <1>1, <1>2 DEF Record, Begins, Continues, Counting
  <2>2. After(nav_cmd'.index) \in Places
    <3>1. nav_cmd'.index \in Indices \cup {NONE}
      BY DEF TypeOK
    <3>. QED
      BY <3>1, MissionAssumption DEF After, Places, Indices, FIRST
  <2>3. After(nav_cmd'.index) = After(nav_cmd.index)'
    BY DEF After
  <2>4. PathInv'
    BY <1>2 DEF PathInv
  <2>. QED
    BY <1>2, <2>1, <2>2, <2>3, <2>4 DEF OriginInv
<1>3. CASE Counting'
  <2>1. CASE ~Counting
    <3>1. origin' = cursor' /\ cursor' \in Places /\ loops' = MAX_LOOPS
          /\ (pc' = "set" \/ (do_loops' = MAX_DO_LOOPS /\ state' = "RUNNING"))
      BY <1>1, <1>3, <2>1, SearchBeginsAt DEF Record, Begins
    <3>2. OnTheWay(origin', cursor', loops', do_loops', pc')
      BY <3>1, WayBegins
    <3>3. PathInv'
      <4>. SUFFICES ASSUME NEW o, NEW c, NEW n, NEW m, NEW p, o = origin', c = cursor',
                           n = loops', m = do_loops', p = pc'
                    PROVE  OnTheWay(o, c, n, m, p)'
        BY DEF PathInv
      <4>. QED
        BY <1>1, <3>2, SameWay
    <3>4. OriginInv'
      BY <1>3, <3>1 DEF OriginInv
    <3>. QED
      BY <3>3, <3>4
  <2>2. CASE Counting
    <3>1. origin' = origin /\ pc' = pc /\ state' = state /\ (PassJump \/ FoundDo)
      BY <1>1, <1>3, <2>2, GoesOn DEF Record, Begins, Continues
    <3>2. OnTheWay(origin, cursor, loops, do_loops, pc)
      BY <2>2 DEF PathInv
    <3>3. OnTheWay(origin, cursor', loops', do_loops', pc')
      BY <3>1, <3>2, WayPassesJump, WayPassesDo
    <3>4. PathInv'
      <4>. SUFFICES ASSUME NEW o, NEW c, NEW n, NEW m, NEW p, o = origin', c = cursor',
                           n = loops', m = do_loops', p = pc'
                    PROVE  OnTheWay(o, c, n, m, p)'
        BY DEF PathInv
      <4>. QED
        BY <1>1, <3>1, <3>3, SameWay
    <3>5. OriginInv'
      BY <1>3, <3>1 DEF OriginInv
    <3>. QED
      BY <3>4, <3>5
  <2>. QED
    BY <2>1, <2>2
<1>. QED
  BY <1>2, <1>3

-----------------------------------------------------------------------------
(* Mission implements MissionPlan.                                         *)

LEMMA PlanInit == TraceInit => Plan!Init
BY DEF TraceInit, Init, Plan!Init

\* What is a step of the plan
PlanStep == Plan!Next \/ UNCHANGED Plan!vars

\* A search for a navigation command that is under way: it moves on, flies or ends.
LEMMA SearchIsPlanned ==
    ASSUME TypeOK, TypeOK', OriginInv, PathInv, TraceNext, Counting
    PROVE  PlanStep
<1>1. UNCHANGED mission /\ Flight /\ Record
  BY FlightKeepsMission DEF TraceNext
<1>2. OnTheWay(origin, cursor, loops, do_loops, pc)
  BY DEF PathInv
<1>3. state # "RUNNING" => pc = "set"
  BY DEF OriginInv, Counting
<1>4. CASE PassJump
  <2>1. Counting' /\ pc' = pc /\ state' = state /\ nav_cmd' = nav_cmd
    BY <1>4 DEF PassJump, SpendLoop, nav, Counting
  <2>2. origin' = origin
    BY <1>1, <2>1 DEF Record, Begins, Continues
  <2>. QED
    BY <1>1, <2>1, <2>2 DEF PlanStep, Plan!vars, mission
<1>5. CASE FoundDo
  <2>1. Counting' /\ pc' = pc /\ state' = state
    BY <1>5 DEF FoundDo, Counting
  <2>2. origin' = origin
    BY <1>1, <2>1 DEF Record, Begins, Continues
  <2>3. CASE nav_cmd' = nav_cmd
    BY <1>1, <2>1, <2>2, <2>3 DEF PlanStep, Plan!vars, mission
  <2>4. CASE nav_cmd' # nav_cmd
    <3>1. state = "RUNNING" /\ nav_cmd' = [nav_cmd EXCEPT !.index = NONE]
      BY <1>5, <2>4 DEF FoundDo, StartDo, ClearProgress, StopDo, nav
    <3>2. nav_cmd'.index = NONE
      BY <3>1 DEF TypeOK
    <3>. QED
      BY <1>1, <2>1, <2>2, <3>1, <3>2 DEF PlanStep, Plan!Next, Plan!Release, mission
  <2>. QED
    BY <2>3, <2>4
<1>6. CASE FoundNav
  <2>1. /\ AtNav /\ nav_cmd'.index = cursor /\ pc' \notin {"start", "update", "set"}
        /\ state' = IF state = "RUNNING" THEN "RUNNING" ELSE "STOPPED"
    BY <1>6 DEF FoundNav, SelectToResume, StartedNav, GoOn, Return
  <2>2. origin' = After(cursor)
    BY <1>1, <2>1 DEF Record, Begins, Continues, Counting
  <2>3. cursor \in Plan!NavFrom(origin)
    <3>1. Plan!IsNav(cursor)
      BY <2>1, AtCursor DEF AtNav
    <3>. QED
      BY <1>2, <3>1 DEF OnTheWay, Plan!NavFrom
  <2>4. Plan!After(cursor) = After(cursor)
    BY DEF Plan!After, After
  <2>5. Plan!Fly
    BY <1>3, <2>1, <2>2, <2>3, <2>4 DEF Plan!Fly
  <2>. QED
    BY <1>1, <2>5 DEF PlanStep, Plan!Next, mission
<1>7. CASE NoNav
  <2>1. Plan!CanEnd(origin)
    BY <1>2, <1>7, WayEnds DEF NoNav
  <2>2. /\ pc' = "idle"
        /\ \/ state = "RUNNING" /\ state' = "COMPLETE" /\ nav_cmd' = nav_cmd
           \/ state # "RUNNING" /\ nav_cmd' = [nav_cmd EXCEPT !.index = NONE] /\ state' = state
    BY <1>7 DEF NoNav, Return, GoOn
  <2>3. origin' = After(nav_cmd'.index)
    BY <1>1, <2>2 DEF Record, Begins, Continues, Counting
  <2>4. CASE state = "RUNNING"
    <3>1. Plan!After(nav_cmd.index) = After(nav_cmd.index)
      BY DEF Plan!After, After
    <3>2. Plan!Finish
      BY <2>1, <2>2, <2>3, <2>4, <3>1 DEF Plan!Finish
    <3>. QED
      BY <1>1, <3>2 DEF PlanStep, Plan!Next, mission
  <2>5. CASE state # "RUNNING"
    <3>1. nav_cmd'.index = NONE /\ origin' = FIRST
      BY <2>2, <2>3, <2>5 DEF TypeOK, After
    <3>2. Plan!SelectNone
      BY <1>3, <2>1, <2>2, <2>5, <3>1 DEF Plan!SelectNone
    <3>. QED
      BY <1>1, <3>2 DEF PlanStep, Plan!Next, mission
  <2>. QED
    BY <2>4, <2>5
<1>. QED
  BY <1>1, <1>4, <1>5, <1>6, <1>7, CountingStep

\* A parachute resets the mission; nothing else changes the index without a search.
LEMMA StartDoIndex ==
    ASSUME TypeOK, NEW i, StartDo(i)
    PROVE  nav_cmd'.index \in {nav_cmd.index, NONE}
BY DEF StartDo, ClearProgress, nav, TypeOK

\* Everything else
LEMMA OthersArePlanned ==
    ASSUME TypeOK, TypeOK', OriginInv, TraceNext, ~Counting
    PROVE  PlanStep
<1>1. UNCHANGED mission /\ Flight /\ Record
  BY FlightKeepsMission DEF TraceNext
<1>2. origin = After(nav_cmd.index)
  BY DEF OriginInv
<1>3. pc # "set"
  BY DEF Counting
<1>4. ASSUME ~Counting', state' = state, nav_cmd'.index = nav_cmd.index
      PROVE  PlanStep
  <2>1. origin' = origin
    BY <1>1, <1>2, <1>4 DEF Record, Begins, Continues, After
  <2>. QED
    BY <1>1, <1>3, <1>4, <2>1 DEF PlanStep, Plan!vars, mission, Counting
<1>5. ASSUME ~Counting', state' = state, nav_cmd'.index = NONE
      PROVE  PlanStep
  <2>1. origin' = FIRST /\ pc' # "set"
    BY <1>1, <1>5 DEF Record, Begins, Continues, After, Counting
  <2>2. Plan!Forget
    BY <1>5, <2>1 DEF Plan!Forget
  <2>. QED
    BY <1>1, <1>3, <2>1, <2>2 DEF PlanStep, Plan!Next, mission
<1>6. CASE Search
  <2>1. ~Counting' /\ state' = state /\ nav_cmd'.index \in {nav_cmd.index, NONE}
    <3>1. CASE PassJump \/ LookPastDo \/ LookDone \/ NoNextDo
      BY <3>1 DEF PassJump, SpendLoop, LookPastDo, LookDone, NoNextDo, GoOn, Return, Counting, nav,
                  TypeOK
    <3>2. CASE NextDo \/ RestartDo
      <4>1. state' = state /\ pc' = "idle"
        BY <3>2 DEF NextDo, RestartDo, Return, GoOn
      <4>2. nav_cmd'.index \in {nav_cmd.index, NONE}
        BY <3>2, StartDoIndex DEF NextDo, RestartDo, nav
      <4>. QED
        BY <4>1, <4>2 DEF Counting
    <3>. QED
      BY <1>6, <3>1, <3>2 DEF Search, FoundNav, FoundDo, NoNav
  <2>. QED
    BY <1>4, <1>5, <2>1
<1>7. ASSUME NEW v \in BOOLEAN, UpdateNav(v) \/ UpdateDo(v)
      PROVE  PlanStep
  <2>1. state' = state /\ nav_cmd' = nav_cmd /\ pc' # "set"
    BY <1>7 DEF UpdateNav, UpdateDo, StopDo, BeginAdvance, GoOn, Return, nav
  <2>2. CASE ~Counting'
    BY <1>4, <2>1, <2>2
  <2>3. CASE Counting'
    <3>1. cursor' = After(nav_cmd'.index)
      BY <1>1, <2>1, <2>3, SearchBeginsAt
    <3>2. origin' = origin
      BY <1>1, <1>2, <2>1, <2>3, <3>1 DEF Record, Begins
    <3>. QED
      BY <1>1, <1>3, <2>1, <3>2 DEF PlanStep, Plan!vars, mission
  <2>. QED
    BY <2>2, <2>3
<1>8. CASE start
  <2>1. /\ state' = "RUNNING" /\ pc' = "start"
        /\ nav_cmd' = [nav_cmd EXCEPT !.index = NONE] /\ cursor' = After(nav_cmd'.index)
    BY <1>8 DEF start, ClearProgress, StopDo, BeginAdvance, SearchFrom
  <2>2. nav_cmd'.index = NONE /\ cursor' = FIRST
    BY <2>1 DEF TypeOK, After
  <2>3. origin' = FIRST
    BY <1>1, <2>1, <2>2 DEF Record, Begins, Counting
  <2>4. Plan!Begin
    BY <2>1, <2>2, <2>3 DEF Plan!Begin
  <2>. QED
    BY <1>1, <1>3, <2>1, <2>4 DEF PlanStep, Plan!Next, mission
<1>9. CASE stop
  <2>1. state' = "STOPPED" /\ nav_cmd' = nav_cmd /\ pc' = pc
    BY <1>9 DEF stop, nav, search
  <2>2. origin' = origin
    BY <1>1, <1>2, <2>1 DEF Record, Begins, Continues, Counting
  <2>3. Plan!Halt
    BY <2>1, <2>2 DEF Plan!Halt
  <2>. QED
    BY <1>1, <1>3, <2>1, <2>3 DEF PlanStep, Plan!Next, mission
<1>10. CASE resume /\ ~start
  <2>1. /\ state' = "RUNNING" /\ pc' \in {"restart_do", "look"}
        /\ state = "RUNNING" \/ (state = "STOPPED" /\ nav_cmd.index # NONE)
        /\ nav_cmd' = [nav_cmd EXCEPT !.cmd = ReadCmd(nav_cmd.index)] \/ nav_cmd' = nav_cmd
    BY <1>10 DEF resume, StartedNav, GoOn
  <2>2. nav_cmd'.index = nav_cmd.index
    BY <2>1 DEF TypeOK
  <2>3. CASE state = "RUNNING"
    BY <1>4, <2>1, <2>2, <2>3 DEF Counting
  <2>4. CASE state = "STOPPED" /\ nav_cmd.index # NONE
    <3>1. origin' = origin
      BY <1>1, <1>2, <2>1, <2>2 DEF Record, Begins, Continues, Counting, After
    <3>2. Plan!Continue
      BY <2>1, <2>2, <2>4, <3>1 DEF Plan!Continue
    <3>. QED
      BY <1>1, <1>3, <2>1, <3>2 DEF PlanStep, Plan!Next, mission
  <2>. QED
    BY <2>1, <2>3, <2>4
<1>11. CASE reset
  <2>1. state' = state /\ pc' = pc /\ nav_cmd' = [nav_cmd EXCEPT !.index = NONE]
    BY <1>11 DEF reset, ClearProgress, StopDo, search
  <2>2. nav_cmd'.index = NONE
    BY <2>1 DEF TypeOK
  <2>. QED
    BY <1>5, <2>1, <2>2 DEF Counting
<1>12. CASE Arm
  BY <1>4, <1>12 DEF Arm, nav, search, Counting
<1>13. ASSUME NEW i \in Indices, set_current_cmd(i)
       PROVE  PlanStep
  <2>1. state' = state /\ nav_cmd' = nav_cmd /\ pc' = "set"
    BY <1>13 DEF set_current_cmd, StopDo
  <2>2. cursor' \in 1 .. cmd_total - 1
    BY <1>1, <2>1, SearchBeginsAt DEF Counting
  <2>3. origin' = cursor'
    BY <1>1, <2>1 DEF Record, Begins, Counting
  <2>4. Plan!Select
    BY <2>1, <2>2, <2>3 DEF Plan!Select
  <2>. QED
    BY <1>1, <1>3, <2>4 DEF PlanStep, Plan!Next, mission
<1>. QED
  BY <1>1, <1>6, <1>7, <1>8, <1>9, <1>10, <1>11, <1>12, <1>13
     DEF Flight, update, Control, start_or_resume, Select

LEMMA TraceIsFlight == TraceSpec => FlightSpec
<1>1. TraceInit => Init
  BY DEF TraceInit
<1>2. [TraceNext]_<<vars, history>> => [Flight]_vars
  BY DEF TraceNext
<1>. QED
  BY <1>1, <1>2, PTL DEF TraceSpec, FlightSpec

LEMMA SearchInvariance == TraceSpec => [](TypeOK /\ OriginInv /\ PathInv)
<1>1. TypeOK /\ OriginInv /\ PathInv /\ TypeOK' /\ [TraceNext]_<<vars, history>>
        => (OriginInv /\ PathInv)'
  <2>1. ASSUME TypeOK, OriginInv, PathInv, UNCHANGED <<vars, history>>
        PROVE  OriginInv' /\ PathInv'
    <3>1. UNCHANGED <<mission, state, nav_cmd, pc, cursor, loops, do_loops, origin>>
      BY <2>1 DEF vars, history, nav, search
    <3>2. OriginInv'
      BY <2>1, <3>1 DEF OriginInv, Counting, After
    <3>3. PathInv'
      <4>. SUFFICES ASSUME NEW o, NEW c, NEW n, NEW m, NEW p, Counting, o = origin, c = cursor,
                           n = loops, m = do_loops, p = pc
                    PROVE  OnTheWay(o, c, n, m, p)'
        BY <3>1 DEF PathInv, Counting
      <4>. QED
        BY <2>1, <3>1, SameWay DEF PathInv
    <3>. QED
      BY <3>2, <3>3
  <2>. QED
    BY <2>1, SearchInvStep
<1>2. TraceInit => OriginInv /\ PathInv
  BY SearchInvHolds
<1>. QED
  BY <1>1, <1>2, FlightInvariance, TraceIsFlight, PTL DEF TraceSpec

\* The search through the list, its loops and jump counts, selections, stops and restarts, and a
\* parachute released in the middle of it implement the plan, for every mission: the vehicle goes
\* from one navigation command only to one that the list leads to, and the mission completes only
\* where the list leads to an end or beyond what the search follows (AP_Mission.cpp:1101-1293).
THEOREM FollowsThePlanHolds == TraceSpec => FollowsThePlan
<1>1. TypeOK /\ TypeOK' /\ OriginInv /\ PathInv /\ [TraceNext]_<<vars, history>>
        => [Plan!Next]_Plan!vars
  <2>1. ASSUME UNCHANGED <<vars, history>> PROVE UNCHANGED Plan!vars
    BY <2>1 DEF vars, history, mission, nav, search, Plan!vars
  <2>. QED
    BY <2>1, SearchIsPlanned, OthersArePlanned DEF PlanStep
<1>. QED
  BY <1>1, PlanInit, SearchInvariance, PTL DEF TraceSpec, FollowsThePlan, Plan!Spec

-----------------------------------------------------------------------------
(* The do commands of a leg, in a mission without jumps.                   *)

\* What a method that is under way can rely on
CallsInv ==
    /\ pc # "look" => after_look = "idle"
    /\ pc \in {"look", "do_phase", "do"} => nav_cmd_loaded /\ state = "RUNNING"
    /\ pc = "restart_do" => state = "RUNNING"
    /\ pc = "do" /\ Straight => cursor = After(do_index)

\* The do command that is loaded was chosen while the mission was stopped, or resume() is about
\* to start it anew.
ToBeStarted ==
    do_cmd_loaded /\ (state # "RUNNING" \/ pc = "restart_do" \/ after_look = "restart_do")

\* The commands between the beginning of the search and the cursor are do commands; the first is
\* loaded, unless it was a parachute.
SearchedLeg ==
    /\ origin <= cursor /\ path = origin .. cursor
    /\ \A k \in origin .. cursor - 1 : Plan!IsDo(k)
    /\ do_cmd_loaded => /\ do_index \in origin .. cursor - 1
                        /\ origin .. do_index - 1 \subseteq started
                        /\ state = "RUNNING" => do_index \in started
    /\ ~do_cmd_loaded => origin .. cursor - 1 \subseteq started

\* The commands from p to the current navigation command are do commands, and those up to the
\* current do command have been started.
FlownLeg(p) ==
    /\ path = p .. nav_cmd.index
    /\ \A k \in p .. nav_cmd.index - 1 : Plan!IsDo(k)
    /\ do_cmd_all_done => p .. nav_cmd.index - 1 \subseteq started
    /\ ~do_cmd_all_done => /\ do_index \in p .. nav_cmd.index - 1
                           /\ p .. do_index - 1 \subseteq started
                           /\ do_index \in started \/ ToBeStarted

\* What there is of a leg when no search is under way
CurrentLeg ==
    /\ nav_cmd_loaded => \E p \in Nat : FlownLeg(p)
    /\ ~nav_cmd_loaded /\ do_cmd_loaded => do_index \in path

LegInv == Straight => IF Counting THEN SearchedLeg ELSE CurrentLeg

LEMMA StraightHasNoJump ==
    ASSUME TypeOK, Straight
    PROVE  ~AtJump
BY DEF AtJump, InMission, Straight, ReadCmd, Home, TypeOK

LEMMA SameStraight ==
    ASSUME UNCHANGED mission
    PROVE  Straight' = Straight
BY DEF Straight, mission

\* The history of the do commands
LEMMA StartedGrows ==
    ASSUME Record, ~Begins
    PROVE  /\ started \subseteq started'
           /\ Starts => do_index' \in started'
           /\ Releases => cursor \in started'
           /\ ~Counting' => path' = path
BY DEF Record, Continues

LEMMA CallsInit == TraceInit => CallsInv
BY DEF TraceInit, Init, CallsInv

LEMMA CallsStep ==
    ASSUME TypeOK, TypeOK', FlagsAgree, CallsInv, Flight
    PROVE  CallsInv'
<1>1. Straight' => Straight
  BY FlightKeepsMission, SameStraight
<1>. USE DEF CallsInv
<1>2. CASE Search
  <2>1. CASE PassJump
    <3>1. pc = "do" => ~Straight
      BY <2>1, StraightHasNoJump DEF PassJump
    <3>. QED
      BY <1>1, <2>1, <3>1 DEF PassJump, SpendLoop, nav
  <2>2. CASE FoundNav
    BY <2>2 DEF FoundNav, SelectToResume, StartedNav, GoOn, Return
  <2>3. CASE FoundDo
    BY <2>3 DEF FoundDo, Counting
  <2>4. CASE NoNav \/ NextDo \/ NoNextDo \/ RestartDo
    BY <2>4 DEF NoNav, NextDo, NoNextDo, RestartDo, GoOn, Return
  <2>5. CASE LookPastDo
    BY <2>5 DEF LookPastDo, nav
  <2>6. CASE LookDone
    BY <2>6 DEF LookDone, GoOn, nav, TypeOK
  <2>. QED
    BY <1>2, <2>1, <2>2, <2>3, <2>4, <2>5, <2>6 DEF Search
<1>3. ASSUME NEW v \in BOOLEAN, UpdateNav(v) \/ UpdateDo(v)
      PROVE  CallsInv'
  <2>1. CASE UpdateNav(v)
    BY <2>1 DEF UpdateNav, StopDo, GoOn, BeginAdvance
  <2>2. CASE UpdateDo(v)
    <3>1. After(do_index)' = After(do_index')
      BY DEF After
    <3>. QED
      BY <2>2, <3>1 DEF UpdateDo, GoOn, Return, SearchFrom, nav
  <2>. QED
    BY <1>3, <2>1, <2>2
<1>4. ASSUME pc = "idle", start \/ stop \/ resume \/ reset \/ Arm PROVE CallsInv'
  <2>1. CASE start
    BY <1>4, <2>1 DEF start, BeginAdvance
  <2>2. CASE stop \/ reset \/ Arm
    BY <1>4, <2>2 DEF stop, reset, Arm, search
  <2>3. CASE resume /\ ~start
    BY <1>4, <2>3 DEF resume, StartedNav, GoOn
  <2>. QED
    BY <1>4, <2>1, <2>2, <2>3
<1>5. ASSUME pc = "idle", NEW i \in Indices, set_current_cmd(i) PROVE CallsInv'
  BY <1>5 DEF set_current_cmd, StopDo
<1>. QED
  BY <1>2, <1>3, <1>4, <1>5 DEF Flight, update, Control, start_or_resume, Select

\* A search begins, moves on, and is over.
LEMMA LegBegins ==
    ASSUME TypeOK, TypeOK', TraceNext, ~Counting, Counting'
    PROVE  SearchedLeg'
<1>1. Flight /\ Record /\ cursor' \in Nat
  BY DEF TraceNext, TypeOK
<1>2. origin' = cursor' /\ path' = {cursor'}
  BY <1>1 DEF Record, Begins
<1>3. ~do_cmd_loaded'
  BY <1>1, SearchBegins DEF start, ClearProgress, UpdateNav, GoOn, set_current_cmd, StopDo, Counting
<1>4. ASSUME NEW n \in Nat PROVE n .. n = {n} /\ n .. n - 1 = {}
  OBVIOUS
<1>5. cursor' .. cursor' = {cursor'} /\ cursor' .. cursor' - 1 = {} /\ cursor' <= cursor'
  <2>1. cursor' .. cursor' = {cursor'} /\ cursor' .. cursor' - 1 = {}
    BY <1>1, <1>4, Zenon
  <2>2. cursor' <= cursor'
    BY <1>1
  <2>. QED
    BY <2>1, <2>2, Zenon
<1>. QED
  BY <1>2, <1>3, <1>5, Zenon DEF SearchedLeg

LEMMA LegPassesDo ==
    ASSUME TypeOK, TypeOK', CallsInv, OriginInv, TraceNext, Straight, Counting, Counting',
           SearchedLeg
    PROVE  SearchedLeg'
<1>1. Flight /\ Record /\ UNCHANGED mission
  BY FlightKeepsMission DEF TraceNext
<1>2. FoundDo /\ pc' = pc /\ state' = state
  BY <1>1, GoesOn, StraightHasNoJump DEF PassJump
<1>3. origin' = origin /\ path' = path \cup {cursor'} /\ cursor' = cursor + 1
  BY <1>1, <1>2 DEF Record, Begins, Continues, FoundDo, SearchFrom
<1>4. cursor \in Nat /\ origin \in Nat /\ origin <= cursor /\ origin \in Places
  BY DEF TypeOK, OriginInv, SearchedLeg, Places
<1>5. started \subseteq started'
  BY <1>1, StartedGrows DEF Begins
<1>6. path' = origin' .. cursor'
  BY <1>3, <1>4 DEF SearchedLeg
<1>7. \A k \in origin' .. cursor' - 1 : Plan!IsDo(k)'
  <2>1. Plan!IsDo(cursor)
    BY <1>2, AtCursor DEF FoundDo, AtDo
  <2>2. \A k \in origin .. cursor : Plan!IsDo(k)
    BY <1>4, <2>1 DEF SearchedLeg
  <2>3. \A k : Plan!IsDo(k)' = Plan!IsDo(k)
    BY <1>1, SamePlan
  <2>. QED
    BY <1>3, <1>4, <2>2, <2>3
<1>8. CASE do_cmd_loaded
  <2>1. do_cmd_loaded' /\ do_index' = do_index
    BY <1>2, <1>8 DEF FoundDo, do
  <2>2. do_index \in origin' .. cursor' - 1
    BY <1>3, <1>4, <1>8 DEF SearchedLeg
  <2>. QED
    BY <1>2, <1>3, <1>4, <1>5, <1>6, <1>7, <1>8, <2>1, <2>2 DEF SearchedLeg
<1>9. CASE ~do_cmd_loaded
  <2>1. origin .. cursor - 1 \subseteq started
    BY <1>9 DEF SearchedLeg
  <2>2. after_look' = "idle" /\ pc' # "restart_do"
    BY <1>2 DEF CallsInv, FoundDo, Counting
  <2>3. CASE do_cmd_loaded' /\ do_index' = cursor
    <3>1. state' = "RUNNING" => cursor \in started'
      BY <1>1, <2>2, <2>3, StartedGrows DEF Starts, Begins
    <3>2. do_index' \in origin' .. cursor' - 1 /\ do_index' - 1 = cursor - 1
      BY <1>3, <1>4, <2>3
    <3>. QED
      BY <1>3, <1>4, <1>5, <1>6, <1>7, <2>1, <2>3, <3>1, <3>2 DEF SearchedLeg
  <2>4. CASE ~do_cmd_loaded' /\ armed # armed'
    <3>1. cursor \in started'
      BY <1>1, <2>4, StartedGrows DEF Releases, Continues, Begins
    <3>2. origin .. cursor \subseteq started'
      BY <1>4, <1>5, <2>1, <3>1
    <3>3. cursor' - 1 = cursor
      BY <1>3, <1>4
    <3>. QED
      BY <1>3, <1>4, <1>6, <1>7, <2>4, <3>2, <3>3 DEF SearchedLeg
  <2>. QED
    BY <1>2, <1>9, <2>3, <2>4 DEF FoundDo, StartDo, ClearProgress, StopDo
<1>. QED
  BY <1>8, <1>9

LEMMA LegFlown ==
    ASSUME TypeOK, TypeOK', FlagsAgree, OriginInv, TraceNext, Straight, Counting, ~Counting',
           SearchedLeg
    PROVE  CurrentLeg'
<1>. USE DEF CurrentLeg
<1>1. Flight /\ Record /\ UNCHANGED mission
  BY FlightKeepsMission DEF TraceNext
<1>2. FoundNav \/ NoNav
  BY <1>1, CountingStep DEF PassJump, SpendLoop, FoundDo, Counting
<1>3. cursor \in Nat /\ origin \in Nat /\ path' = path /\ started \subseteq started'
  BY <1>1, StartedGrows DEF TypeOK, OriginInv, Places, Begins
<1>4. ~nav_cmd_loaded /\ ~do_cmd_all_done
  BY DEF FlagsAgree, LoadedHasIndex, AllDoneMeansNone
<1>5. CASE FoundNav
  <2>1. /\ nav_cmd_loaded' /\ nav_cmd'.index = cursor
        /\ do_cmd_all_done' <=> ~do_cmd_loaded
        /\ do_cmd_loaded' = do_cmd_loaded /\ do_index' = do_index
        /\ state = "RUNNING" \/ state' = "STOPPED"
    BY <1>4, <1>5 DEF FoundNav, SelectToResume
  <2>2. \A k : Plan!IsDo(k)' = Plan!IsDo(k)
    BY <1>1, SamePlan
  <2>3. ASSUME NEW p, p = origin PROVE FlownLeg(p)'
    BY <1>3, <2>1, <2>2, <2>3 DEF FlownLeg, SearchedLeg, ToBeStarted
  <2>. QED
    BY <1>3, <2>1, <2>3
<1>6. CASE NoNav
  <2>1. UNCHANGED <<nav_cmd_loaded, do_cmd_loaded, do_index>>
    BY <1>6 DEF NoNav, do
  <2>. QED
    BY <1>3, <1>4, <2>1 DEF SearchedLeg
<1>. QED
  BY <1>2, <1>5, <1>6

\* The mission is flown on, stopped and resumed.
LEMMA LegKept ==
    ASSUME TypeOK, TypeOK', UNCHANGED mission, NEW p \in Nat, FlownLeg(p),
           nav_cmd'.index = nav_cmd.index, do_index' = do_index,
           do_cmd_all_done' = do_cmd_all_done, path' = path, started \subseteq started',
           ToBeStarted => ToBeStarted' \/ do_index \in started'
    PROVE  FlownLeg(p)'
<1>1. \A k : Plan!IsDo(k)' = Plan!IsDo(k)
  BY SamePlan
<1>. QED
  BY <1>1 DEF FlownLeg

LEMMA LegFliesOn ==
    ASSUME TypeOK, TypeOK', FlagsAgree, FliesTheMission, CallsInv, TraceNext, Straight,
           ~Counting, ~Counting', CurrentLeg
    PROVE  CurrentLeg'
<1>1. Flight /\ Record /\ UNCHANGED mission
  BY FlightKeepsMission DEF TraceNext
<1>2. path' = path /\ started \subseteq started' /\ (Starts => do_index' \in started')
  BY <1>1, StartedGrows DEF Begins
<1>3. ASSUME nav_cmd_loaded' = nav_cmd_loaded, nav_cmd'.index = nav_cmd.index,
             do_index' = do_index, do_cmd_all_done' = do_cmd_all_done,
             do_cmd_loaded' => do_cmd_loaded,
             ToBeStarted => ToBeStarted' \/ do_index \in started'
      PROVE  CurrentLeg'
  BY <1>1, <1>2, <1>3, LegKept DEF CurrentLeg
<1>4. ASSUME ~nav_cmd_loaded', ~do_cmd_loaded' PROVE CurrentLeg'
  BY <1>4 DEF CurrentLeg
<1>5. ASSUME NEW i, StartDo(i)
      PROVE  \/ do_index' = i /\ do_cmd_loaded' /\ UNCHANGED <<do_cmd_all_done, nav>>
             \/ ~nav_cmd_loaded' /\ ~do_cmd_loaded'
  BY <1>5 DEF StartDo, ClearProgress, StopDo
<1>6. CASE LookPastDo \/ LookDone
  BY <1>3, <1>6 DEF LookPastDo, LookDone, GoOn, nav, do, ToBeStarted
<1>7. ASSUME NEW v \in BOOLEAN, UpdateNav(v) \/ UpdateDo(v)
      PROVE  CurrentLeg'
  <2>1. state = "RUNNING" /\ ~ToBeStarted
    BY <1>7 DEF UpdateNav, UpdateDo, CallsInv, ToBeStarted
  <2>2. CASE UpdateNav(v)
    BY <1>3, <2>1, <2>2 DEF UpdateNav, BeginAdvance, Counting, do
  <2>3. CASE UpdateDo(v)
    BY <1>3, <2>1, <2>3 DEF UpdateDo, nav
  <2>. QED
    BY <1>7, <2>2, <2>3
<1>8. CASE pc = "do" /\ (NextDo \/ NoNextDo)
  <2>1. nav_cmd_loaded /\ state = "RUNNING" /\ ~do_cmd_all_done /\ ~do_cmd_loaded
    BY <1>8 DEF CallsInv, FlagsAgree, AllDoneMeansNone
  <2>2. PICK p \in Nat : FlownLeg(p)
    BY <2>1 DEF CurrentLeg
  <2>3. /\ do_index \in p .. nav_cmd.index - 1
        /\ p .. do_index - 1 \subseteq started /\ do_index \in started
        /\ path = p .. nav_cmd.index
        /\ \A k \in p .. nav_cmd.index - 1 : Plan!IsDo(k)
    BY <2>1, <2>2 DEF FlownLeg, ToBeStarted
  <2>4. /\ nav_cmd.index \in 1 .. cmd_total - 1 /\ nav_cmd.index \in Nat
        /\ is_nav_cmd(storage[nav_cmd.index]) /\ nav_cmd.index < NONE
    <3>1. cmd_total \in 0 .. CAPACITY
      BY DEF TypeOK
    <3>2. /\ nav_cmd.index \in 1 .. cmd_total - 1
          /\ is_nav_cmd(storage[nav_cmd.index])
      BY <2>1 DEF FliesTheMission
    <3>. QED
      BY <3>1, <3>2, MissionAssumption DEF NONE
  <2>5. cursor = do_index + 1 /\ do_index \in Nat /\ cursor <= nav_cmd.index /\ InMission
    <3>1. cursor = After(do_index) /\ cmd_total \in 0 .. CAPACITY
      BY <1>8 DEF CallsInv, TypeOK
    <3>2. do_index \in Nat /\ do_index < nav_cmd.index
      BY <2>3, <2>4
    <3>. QED
      BY <2>4, <3>1, <3>2 DEF After, InMission
  <2>6. p .. cursor - 1 \subseteq started
    BY <2>3, <2>5
  <2>7. \A k : Plan!IsDo(k)' = Plan!IsDo(k)
    BY <1>1, SamePlan
  <2>8. CASE NextDo
    <3>1. cursor # nav_cmd.index
      BY <2>4, <2>8 DEF NextDo, AtDo, ReadCmd, is_nav_cmd
    <3>2. cursor \in p .. nav_cmd.index - 1
      BY <2>3, <2>4, <2>5, <3>1
    <3>3. CASE do_index' = cursor /\ do_cmd_loaded' /\ UNCHANGED <<do_cmd_all_done, nav>>
      <4>1. cursor \in started'
        BY <1>2, <2>1, <2>8, <3>3 DEF Starts, NextDo, Return, GoOn
      <4>2. FlownLeg(p)'
        BY <1>2, <2>1, <2>3, <2>6, <2>7, <3>2, <3>3, <4>1 DEF FlownLeg, nav
      <4>. QED
        BY <2>1, <2>2, <3>3, <4>2 DEF CurrentLeg, nav
    <3>. QED
      BY <1>4, <1>5, <2>8, <3>3 DEF NextDo
  <2>9. CASE NoNextDo
    <3>1. AtNav
      BY <2>5, <2>9, StraightHasNoJump DEF NoNextDo, NotFound
    <3>2. cursor = nav_cmd.index
      <4>1. ASSUME cursor # nav_cmd.index PROVE FALSE
        <5>1. Plan!IsDo(cursor)
          BY <2>3, <2>4, <2>5, <4>1
        <5>. QED
          BY <2>5, <3>1, <5>1, AtCursor DEF AtNav, AtDo, is_nav_cmd
      <4>. QED
        BY <4>1
    <3>3. FlownLeg(p)'
      BY <1>2, <2>3, <2>6, <2>7, <2>9, <3>2 DEF FlownLeg, NoNextDo, nav
    <3>. QED
      BY <2>1, <2>2, <2>9, <3>3 DEF CurrentLeg, NoNextDo, nav
  <2>. QED
    BY <1>8, <2>8, <2>9
<1>9. CASE RestartDo
  <2>1. state' = "RUNNING" /\ pc' = "idle" /\ after_look' = "idle"
    BY <1>9 DEF RestartDo, CallsInv, Return, GoOn
  <2>2. CASE do_cmd_loaded /\ StartDo(do_index)
    BY <1>2, <1>3, <1>4, <1>5, <2>1, <2>2 DEF Starts, nav
  <2>3. CASE ~do_cmd_loaded /\ UNCHANGED <<nav, do>>
    BY <1>3, <2>3 DEF nav, do, ToBeStarted
  <2>. QED
    BY <1>9, <2>2, <2>3 DEF RestartDo, FlagsAgree, LoadedHasIndex
<1>10. CASE stop \/ Arm
  BY <1>3, <1>10 DEF stop, Arm, nav, do, search, ToBeStarted
<1>11. CASE resume /\ ~start
  <2>1. /\ nav_cmd'.index = nav_cmd.index
        /\ UNCHANGED <<nav_cmd_loaded, do>>
        /\ pc' = "restart_do" \/ after_look' = "restart_do"
    BY <1>11 DEF resume, StartedNav, GoOn, TypeOK
  <2>. QED
    BY <1>3, <2>1 DEF do, ToBeStarted
<1>12. CASE reset
  BY <1>4, <1>12 DEF reset, ClearProgress, StopDo
<1>13. CASE Search
  <2>1. ~PassJump
    BY StraightHasNoJump DEF PassJump
  <2>2. ~FoundNav /\ ~FoundDo /\ ~NoNav
    BY DEF FoundNav, FoundDo, NoNav
  <2>. QED
    BY <1>6, <1>8, <1>9, <1>13, <2>1, <2>2 DEF Search, NextDo, NoNextDo
<1>14. ~start /\ \A i \in Indices : ~set_current_cmd(i)
  BY DEF start, BeginAdvance, set_current_cmd, Counting
<1>. QED
  BY <1>1, <1>7, <1>10, <1>11, <1>12, <1>13, <1>14
     DEF Flight, update, Control, start_or_resume, Select

LEMMA LegStep ==
    ASSUME TypeOK, TypeOK', FlagsAgree, FliesTheMission, CallsInv, OriginInv, TraceNext, LegInv
    PROVE  LegInv'
<1>1. Straight' => Straight
  BY FlightKeepsMission, SameStraight DEF TraceNext
<1>2. CASE Straight
  <2>1. CASE Counting
    BY <1>2, <2>1, LegPassesDo, LegFlown DEF LegInv
  <2>2. CASE ~Counting
    BY <1>2, <2>2, LegBegins, LegFliesOn DEF LegInv
  <2>. QED
    BY <2>1, <2>2
<1>. QED
  BY <1>1, <1>2 DEF LegInv

LEMMA LegUnchanged ==
    ASSUME TypeOK, TypeOK', UNCHANGED <<vars, history>>, CallsInv, LegInv
    PROVE  CallsInv' /\ LegInv'
<1>1. UNCHANGED <<mission, storage, cmd_total, state, nav_cmd_loaded, do_cmd_loaded, do_cmd_all_done,
                  nav_cmd, do_index, pc, cursor, after_look, origin, path, started>>
  BY DEF vars, history, mission, nav, do, search
<1>2. Straight' = Straight /\ Counting' = Counting /\ ToBeStarted' = ToBeStarted
  BY <1>1, SameStraight DEF Counting, ToBeStarted
<1>3. CallsInv'
  BY <1>1, <1>2 DEF CallsInv, After
<1>4. \A k : Plan!IsDo(k)' = Plan!IsDo(k)
  BY <1>1, SamePlan
<1>5. SearchedLeg => SearchedLeg'
  BY <1>1, <1>4 DEF SearchedLeg
<1>6. CurrentLeg => CurrentLeg'
  BY <1>1, <1>2, LegKept DEF CurrentLeg
<1>. QED
  BY <1>2, <1>3, <1>5, <1>6 DEF LegInv

LEMMA LegIsRight ==
    ASSUME TypeOK, FlagsAgree, FliesTheMission, LegInv
    PROVE  DosOfTheLeg
<1>. SUFFICES ASSUME Straight PROVE EveryDoStarted /\ DoOnTheWay
  BY DEF DosOfTheLeg
<1>1. CASE Counting
  BY <1>1 DEF LegInv, SearchedLeg, EveryDoStarted, DoOnTheWay, FlagsAgree, LoadedHasIndex,
              AllDoneMeansNone, TypeOK
<1>2. CASE ~Counting /\ ~nav_cmd_loaded
  BY <1>2 DEF LegInv, CurrentLeg, EveryDoStarted, DoOnTheWay
<1>3. CASE ~Counting /\ nav_cmd_loaded
  <2>1. PICK p \in Nat : FlownLeg(p)
    BY <1>3 DEF LegInv, CurrentLeg
  <2>2. /\ nav_cmd.index \in 1 .. cmd_total - 1
        /\ is_nav_cmd(storage[nav_cmd.index])
    BY <1>3 DEF FliesTheMission
  <2>3. nav_cmd.index \notin Dos(path)
    BY <2>2 DEF Dos, ReadCmd, is_nav_cmd
  <2>4. path = p .. nav_cmd.index
    BY <2>1 DEF FlownLeg
  <2>5. ASSUME NEW k \in Dos(path) PROVE k \in p .. nav_cmd.index - 1
    BY <2>2, <2>3, <2>4, <2>5 DEF Dos
  <2>6. EveryDoStarted
    BY <2>1, <2>5 DEF FlownLeg, EveryDoStarted
  <2>7. DoOnTheWay
    <3>1. ASSUME do_cmd_loaded PROVE do_index \in p .. nav_cmd.index - 1
      BY <2>1, <3>1 DEF FlownLeg, FlagsAgree, AllDoneMeansNone
    <3>. QED
      BY <2>2, <2>4, <3>1 DEF DoOnTheWay
  <2>. QED
    BY <2>6, <2>7
<1>. QED
  BY <1>1, <1>2, <1>3

\* In a mission without jumps, whatever is flown, stopped, resumed, selected and reset, each leg
\* starts its own do commands, all of them before they are said to be done, and leaves none of
\* another leg running (AP_Mission.cpp:1182-1220).
THEOREM DosOfTheLegHolds == TraceSpec => []DosOfTheLeg
<1>1. TraceInit => CallsInv /\ LegInv
  BY CallsInit DEF TraceInit, Init, LegInv, CurrentLeg, Counting
<1>2. /\ TypeOK /\ TypeOK' /\ FlagsAgree /\ FliesTheMission /\ OriginInv /\ CallsInv /\ LegInv
      /\ [TraceNext]_<<vars, history>>
      => CallsInv' /\ LegInv'
  BY CallsStep, LegStep, LegUnchanged DEF TraceNext
<1>3. TypeOK /\ FlagsAgree /\ FliesTheMission /\ LegInv => DosOfTheLeg
  BY LegIsRight
<1>. QED
  BY <1>1, <1>2, <1>3, SearchInvariance, TraceIsFlight, FlightInvariance, FliesTheMissionHolds,
     PTL DEF TraceSpec

=============================================================================
