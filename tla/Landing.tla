------------------------------- MODULE Landing -------------------------------
(***************************************************************************)
(* What takes the motors' power away: the land detector and those who act  *)
(* on it, the crash check, the parachute, the sticks, the automatic        *)
(* disarming, a ground station, and the end of a motor test.               *)
(*                                                                         *)
(* Each is a task of the main loop with a counter of its own that no other *)
(* task resets, and they meet in armed and land_complete.  The scheduler   *)
(* runs them at different rates, here in any order; within a task nothing  *)
(* else of them runs.                                                      *)
(***************************************************************************)
EXTENDS Integers

CONSTANTS
    LAND_TRIGGER, MAYBE_TRIGGER, \* passes of the main loop until the vehicle has landed, or maybe
    CRASH_TRIGGER,               \* passes until it has crashed
    CHUTE_TRIGGER,               \* passes until the parachute is released
    RELEASE_DELAY,               \* passes from the release to the servo's move
    RELEASE_DURATION,            \* passes until the servo moves back
    STICK_DELAY,                 \* ARM_DELAY and DISARM_DELAY, at 10 Hz
    AUTO_TRIM_DELAY,             \* the same for the automatic trim
    DISARM_DELAY,                \* g.disarm_delay, in checks
    TEST_TIMEOUT,                \* duration of a motor test, in passes
    Fittings                     \* what a vehicle may be fitted with

ASSUME LandingAssumption ==
    /\ LAND_TRIGGER \in Nat \ {0} /\ MAYBE_TRIGGER \in 1 .. LAND_TRIGGER
    /\ CRASH_TRIGGER \in Nat \ {0} /\ CHUTE_TRIGGER \in Nat /\ CHUTE_TRIGGER > 1
    /\ RELEASE_DELAY \in Nat \ {0} /\ RELEASE_DURATION \in Nat \ {0}
    /\ STICK_DELAY \in Nat \ {0} /\ AUTO_TRIM_DELAY \in Nat /\ AUTO_TRIM_DELAY > STICK_DELAY
    /\ DISARM_DELAY \in Nat \ {0} /\ TEST_TIMEOUT \in Nat
    /\ Fittings \subseteq SUBSET {"parachute", "emergency_stop", "motor_test", "sticks"}

VARIABLES
    fitted,                 \* of these, what there is
    armed,                  \* motors.armed()
    control_mode,           \* the flight mode, one representative per class
    throttle_zero,          \* ap.throttle_zero
    motor_emergency_stop,   \* ap.motor_emergency_stop
    land_complete,          \* ap.land_complete
    land_complete_maybe,    \* ap.land_complete_maybe
    land_detector_count,
    crash_counter,
    control_loss_count,
    enabled,                \* parachute: _enabled
    release,                \* passes since _release_time, NoRelease when that is 0
    released,               \* parachute: _released, the servo holds the parachute open
    arming_counter,
    auto_disarming_counter,
    motor_test,             \* ap.motor_test
    test_left,              \* passes until the motor test times out
    failsafes,              \* the failsafe parameters are those of the storage
    thrust,                 \* motors.get_throttle(): low is the lower limit, high takes the vehicle off
    settled,                \* the vehicle stays on the ground and nobody touches anything
    checked,                \* history: the arming checks were passed when the motors were armed
    stood,                  \* history: passes in a row without thrust or acceleration
    tilted,                 \* history: passes in a row in flight and far off the wanted angle, gentle
                            \* when not accelerating, high since one above the minimum altitude
    stale                   \* history: a loss was counted, and control regained with nobody counting

pilot    == <<control_mode, throttle_zero, motor_emergency_stop>>
landed   == <<land_complete, land_complete_maybe, land_detector_count>>
chute    == <<enabled, release, released>>
counters == <<crash_counter, control_loss_count>>
test     == <<motor_test, test_left, failsafes>>
history  == <<stood, tilted, stale>>
vars     == <<fitted, armed, pilot, landed, counters, chute, arming_counter, auto_disarming_counter, test,
              thrust, settled, checked, history>>

\* ACRO stands for FLIP as well, LOITER for the modes that hold an altitude, LAND for the last leg
\* of RTL and of a mission.
Modes == {"STABILIZE", "ACRO", "LOITER", "LAND", "AUTO"}
mode_has_manual_throttle == control_mode \in {"STABILIZE", "ACRO"}
mode_allows_arming == mode_has_manual_throttle \/ control_mode = "LOITER"

NoRelease == -1

TypeOK ==
    /\ fitted \in Fittings
    /\ armed \in BOOLEAN
    /\ control_mode \in Modes /\ throttle_zero \in BOOLEAN /\ motor_emergency_stop \in BOOLEAN
    /\ land_complete \in BOOLEAN /\ land_complete_maybe \in BOOLEAN
    /\ land_detector_count \in 0 .. LAND_TRIGGER
    /\ crash_counter \in 0 .. CRASH_TRIGGER /\ control_loss_count \in 0 .. CHUTE_TRIGGER - 1
    /\ enabled \in BOOLEAN /\ released \in BOOLEAN
    /\ release \in NoRelease .. RELEASE_DELAY + RELEASE_DURATION
    /\ arming_counter \in 0 .. AUTO_TRIM_DELAY + 1
    /\ auto_disarming_counter \in 0 .. DISARM_DELAY - 1
    /\ motor_test \in BOOLEAN /\ test_left \in 0 .. TEST_TIMEOUT /\ failsafes \in BOOLEAN
    /\ thrust \in {"low", "mid", "high"}
    /\ settled \in BOOLEAN /\ checked \in BOOLEAN
    /\ stood \in 0 .. LAND_TRIGGER + 1
    /\ tilted \in [gentle : 0 .. CRASH_TRIGGER, high : 0 .. CHUTE_TRIGGER]
    /\ stale \in BOOLEAN

\* The end of init_ardupilot()
Init ==
    /\ fitted \in Fittings
    /\ armed = FALSE
    /\ control_mode \in Modes /\ throttle_zero = TRUE
    /\ motor_emergency_stop \in BOOLEAN /\ (motor_emergency_stop => "emergency_stop" \in fitted)
    /\ land_complete = TRUE /\ land_complete_maybe = TRUE /\ land_detector_count = 0
    /\ crash_counter = 0 /\ control_loss_count = 0
    /\ enabled \in BOOLEAN /\ (enabled => "parachute" \in fitted)
    /\ release = NoRelease /\ released = FALSE
    /\ arming_counter = 0 /\ auto_disarming_counter = 0
    /\ motor_test = FALSE /\ test_left = 0 /\ failsafes = TRUE
    /\ thrust = "low" /\ settled = FALSE /\ checked = FALSE
    /\ stood = 0 /\ tilted = [gentle |-> 0, high |-> 0] /\ stale = FALSE

-----------------------------------------------------------------------------
(* Operators marked "defect" are not part of the specification: each is a   *)
(* wrong version of the operator that follows it.                           *)

\* defect: the count goes on where it stood before the take-off
SetLandCompleteOnly(b) == land_complete' = b /\ UNCHANGED land_detector_count

set_land_complete(b) ==
    /\ land_complete' = b
    /\ land_detector_count' = IF b # land_complete THEN 0 ELSE land_detector_count

init_disarm_motors ==
    /\ armed' = FALSE
    /\ IF armed THEN set_land_complete(TRUE) /\ land_complete_maybe' = TRUE ELSE UNCHANGED landed
    /\ UNCHANGED checked

\* init_arm_motors() when it arms; pre_arm_checks() lets an armed vehicle pass
init_arm_motors ==
    /\ armed' = TRUE
    /\ checked' = (armed => checked)

-----------------------------------------------------------------------------
(* The detectors, at the rate of the main loop.                             *)

\* What a pass finds: the filtered acceleration, and where they are asked for the angle error, then
\* whether the vehicle is above the minimum altitude and has come down since the first pass off.
Asked(when) == IF when THEN BOOLEAN ELSE {FALSE}

World == UNION {[accel : {"still", "gentle", "hard"}, off_angle : {off},
                 high : Asked(off /\ "parachute" \in fitted /\ (control_loss_count = 0 \/ tilted.high = 0)),
                 falling : Asked(off /\ enabled /\ control_loss_count > 0)]
                : off \in Asked(armed /\ control_mode # "ACRO")}

\* update_land_detector()
Criteria(w) == thrust = "low" /\ w.accel = "still"

Landed(w) ==
    \/ ~armed
    \/ armed /\ land_complete /\ thrust # "high"
    \/ armed /\ ~land_complete /\ Criteria(w) /\ land_detector_count >= LAND_TRIGGER

\* defect: a landed vehicle is counted on
LandCountOn(w) == IF Criteria(w) THEN land_detector_count + 1 ELSE 0

LandCount(w) ==
    IF Landed(w) # land_complete THEN 0
    ELSE IF land_complete THEN land_detector_count
    ELSE IF Criteria(w) THEN land_detector_count + 1
    ELSE 0

\* The vehicle flies in a mode that holds an angle.
Watched(w) == armed /\ ~Landed(w) /\ control_mode # "ACRO"

\* parachute_check(): the count, and whether it is up
LossCount(w) ==
    IF ~enabled THEN control_loss_count
    ELSE IF /\ Watched(w) /\ w.off_angle
            /\ control_loss_count = 0 => w.high
            /\ control_loss_count > 0 => w.falling
    THEN control_loss_count + 1
    ELSE 0

Releases(w) == enabled /\ LossCount(w) >= CHUTE_TRIGGER

Up(n, most) == IF n < most THEN n + 1 ELSE n

\* crash_check(); beyond the trigger all counts are alike
CrashCount(w) ==
    IF Watched(w) /\ ~Releases(w) /\ w.off_angle /\ w.accel # "hard"
    THEN Up(crash_counter, CRASH_TRIGGER)
    ELSE 0

Crashes(w) == CrashCount(w) >= CRASH_TRIGGER

\* AP_Parachute::update(), which runs only while the parachute is enabled
Age == IF release < RELEASE_DELAY + RELEASE_DURATION THEN release + 1 ELSE release
Opens  == release # NoRelease /\ ~released /\ Age >= RELEASE_DELAY
Closes == release = NoRelease \/ (released /\ Age >= RELEASE_DELAY + RELEASE_DURATION)

UpdateParachute(w) ==
    /\ release' = IF Releases(w) THEN 0
                  ELSE IF ~enabled THEN release
                  ELSE IF Closes THEN NoRelease
                  ELSE Age
    /\ released' = IF ~enabled THEN released ELSE Opens \/ (released /\ ~Closes)
    /\ UNCHANGED enabled

\* update_land_and_crash_detectors()
Detect(w) ==
    LET disarms == Releases(w) \/ Crashes(w)
        flies   == Watched(w) /\ w.off_angle
    IN  /\ settled => w.accel = "still"
        /\ armed' = (armed /\ ~disarms)
        /\ land_complete' = (Landed(w) \/ disarms)
        /\ land_detector_count' = IF disarms THEN 0 ELSE LandCount(w)
        /\ land_complete_maybe' = (Landed(w) \/ disarms \/ LandCount(w) >= MAYBE_TRIGGER)
        /\ crash_counter' = CrashCount(w)
        /\ control_loss_count' = IF Releases(w) THEN 0 ELSE LossCount(w)
        /\ UpdateParachute(w)
        /\ stood' = IF Criteria(w) THEN Up(stood, LAND_TRIGGER + 1) ELSE 0
        /\ tilted' = [gentle |-> IF flies /\ w.accel # "hard" THEN Up(tilted.gentle, CRASH_TRIGGER)
                                 ELSE 0,
                      high   |-> IF flies /\ (w.high \/ tilted.high > 0)
                                 THEN Up(tilted.high, CHUTE_TRIGGER)
                                 ELSE 0]
        /\ stale' = (control_loss_count' > 0 /\ (stale \/ (~enabled /\ ~flies)))
        /\ UNCHANGED <<pilot, arming_counter, auto_disarming_counter, test, thrust, settled, checked>>

-----------------------------------------------------------------------------
(* Motors and motor test, at the rate of the main loop.                     *)

\* defect: the test that found the motors armed leaves them so
MotorTestStopKeeps ==
    /\ motor_test' = FALSE
    /\ armed' = armed
    /\ test_left' = 0
    /\ failsafes' = TRUE

motor_test_stop ==
    /\ motor_test' = FALSE
    /\ armed' = FALSE
    /\ test_left' = 0
    /\ failsafes' = TRUE

\* motors_output(): the throttle follows what the flight mode wants while armed.
motors_output(ok) ==
    /\ IF ~motor_test
       THEN /\ thrust' \in IF armed /\ ~settled THEN {"low", "mid", "high"} ELSE {"low"}
            /\ UNCHANGED <<armed, test>>
       ELSE IF test_left = 0 \/ ~ok
       THEN motor_test_stop /\ UNCHANGED thrust
       ELSE test_left' = test_left - 1 /\ UNCHANGED <<armed, motor_test, failsafes, thrust>>
    /\ UNCHANGED <<pilot, landed, counters, chute, arming_counter, auto_disarming_counter, settled,
                   checked, history>>

\* mavlink_motor_test_start(): the parameters of the failsafes are changed but not saved.
mavlink_motor_test_start ==
    /\ "motor_test" \in fitted
    /\ motor_test \/ land_complete
    /\ motor_test' = TRUE /\ armed' = (motor_test => armed) /\ test_left' = TEST_TIMEOUT
    /\ failsafes' = FALSE
    /\ checked' = (armed /\ checked)
    /\ UNCHANGED <<pilot, landed, counters, chute, arming_counter, auto_disarming_counter, thrust,
                   settled, history>>

-----------------------------------------------------------------------------
(* Who disarms and arms besides the detectors.                              *)

Others == <<pilot, counters, chute, test, thrust, settled, history>>

\* land_run() on the ground, and the end of a mission there, unless the radio says otherwise
LandRun(radio_lost) ==
    /\ control_mode \in {"LAND", "AUTO"} /\ land_complete /\ (throttle_zero \/ radio_lost)
    /\ armed
    /\ init_disarm_motors
    /\ UNCHANGED <<arming_counter, auto_disarming_counter, Others>>

\* auto_disarm_check(), at 1 Hz: motors switched off need half the time and no landing.  A sprung
\* throttle stick, which counts as low around its middle, is left out.
AutoDisarmDelay == IF motor_emergency_stop THEN DISARM_DELAY \div 2 ELSE DISARM_DELAY

\* defect: counted in the manual modes only, as the function's comment has it
AutoDisarmCountManual ==
    IF armed /\ mode_has_manual_throttle /\ (motor_emergency_stop \/ (throttle_zero /\ land_complete))
    THEN auto_disarming_counter + 1
    ELSE 0

AutoDisarmCount ==
    IF armed /\ (motor_emergency_stop \/ (throttle_zero /\ land_complete))
    THEN auto_disarming_counter + 1
    ELSE 0

AutoDisarmCheck ==
    /\ IF armed /\ AutoDisarmCount >= AutoDisarmDelay
       THEN auto_disarming_counter' = 0 /\ init_disarm_motors
       ELSE auto_disarming_counter' = AutoDisarmCount /\ UNCHANGED <<armed, landed, checked>>
    /\ UNCHANGED <<arming_counter, Others>>

Unmoved == UNCHANGED <<armed, landed, checked, auto_disarming_counter>>

\* arm_motors_check(), at 10 Hz: yaw to the right arms, if the checks let it, and at last trims.
StickRight(ok) ==
    LET n    == Up(arming_counter, AUTO_TRIM_DELAY + 1)
        arms == n = STICK_DELAY /\ ~armed
        may  == ok /\ mode_allows_arming
    IN  /\ arming_counter' = IF arms /\ ~may THEN 0 ELSE n
        /\ IF arms /\ may THEN init_arm_motors ELSE UNCHANGED <<armed, checked>>
        /\ auto_disarming_counter' = IF n = AUTO_TRIM_DELAY /\ armed /\ control_mode = "STABILIZE"
                                     THEN 0 ELSE auto_disarming_counter
        /\ UNCHANGED landed

\* Yaw to the left disarms, where the mode or the ground lets it, with the same counter.
StickLeft ==
    LET n == Up(arming_counter, STICK_DELAY + 1)
    IN  IF ~mode_has_manual_throttle /\ ~land_complete
        THEN arming_counter' = 0 /\ Unmoved
        ELSE /\ arming_counter' = IF arming_counter > STICK_DELAY THEN arming_counter ELSE n
             /\ IF n = STICK_DELAY /\ armed
                THEN init_disarm_motors /\ UNCHANGED auto_disarming_counter
                ELSE Unmoved

StickReleased == arming_counter' = 0 /\ Unmoved

arm_motors_check(ok) ==
    /\ "sticks" \in fitted
    /\ IF settled THEN StickReleased ELSE StickRight(ok) \/ StickLeft \/ StickReleased
    /\ UNCHANGED Others

\* MAV_CMD_COMPONENT_ARM_DISARM; both arm_checks() and a forced disarm may go either way.
StationArms ==
    /\ mode_allows_arming
    /\ init_arm_motors
    /\ UNCHANGED <<landed, arming_counter, auto_disarming_counter, Others>>

StationDisarms ==
    /\ init_disarm_motors
    /\ UNCHANGED <<arming_counter, auto_disarming_counter, Others>>

\* failsafe_check(), the failsafe of module Arming, in the timer thread
CpuFailsafe ==
    /\ armed' = FALSE
    /\ UNCHANGED <<landed, checked, arming_counter, auto_disarming_counter, Others>>

\* loiter_run(): the pilot takes off.
TakeOff ==
    /\ control_mode = "LOITER" /\ land_complete
    /\ set_land_complete(FALSE)
    /\ UNCHANGED <<armed, checked, land_complete_maybe, arming_counter, auto_disarming_counter, Others>>

-----------------------------------------------------------------------------
(* The parachute's switches.                                                *)

\* AP_Parachute::enabled(): the time of a release is forgotten.
SetEnabled(b) == enabled' = b /\ release' = NoRelease /\ UNCHANGED released

\* parachute_release() with the parachute enabled or not; on a switch it was enabled just now.
parachute_release(on) ==
    /\ init_disarm_motors
    /\ release' = IF on THEN 0 ELSE release
    /\ enabled' = (enabled \/ on)
    /\ UNCHANGED released

ParachuteSwitch ==
    /\ "parachute" \in fitted
    /\ \/ (\E b \in BOOLEAN : SetEnabled(b)) /\ UNCHANGED <<armed, landed, checked>>
       \/ enabled /\ ~land_complete /\ parachute_release(TRUE)   \* parachute_manual_release()
       \/ ~land_complete /\ parachute_release(TRUE)              \* AUXSW_PARACHUTE_3POS
       \/ control_mode = "AUTO" /\ parachute_release(enabled)    \* MAV_CMD_DO_PARACHUTE
    /\ UNCHANGED <<pilot, counters, arming_counter, auto_disarming_counter, test, thrust, settled,
                   history>>

-----------------------------------------------------------------------------
\* set_mode(), the throttle stick and the emergency stop
Pilot ==
    /\ \/ control_mode' \in Modes /\ UNCHANGED <<throttle_zero, motor_emergency_stop>>
       \/ throttle_zero' = ~throttle_zero /\ UNCHANGED <<control_mode, motor_emergency_stop>>
       \/ /\ "emergency_stop" \in fitted /\ motor_emergency_stop' = ~motor_emergency_stop
          /\ UNCHANGED <<control_mode, throttle_zero>>
    /\ UNCHANGED <<armed, landed, counters, chute, arming_counter, auto_disarming_counter, test,
                   thrust, settled, checked, history>>

\* From now on the vehicle stands, the stick is down and nobody touches anything.
Settle ==
    /\ throttle_zero /\ settled' = TRUE
    /\ UNCHANGED <<armed, pilot, landed, counters, chute, arming_counter, auto_disarming_counter,
                   test, thrust, checked, history>>

Tasks ==
    \/ \E w \in World : Detect(w)
    \/ \E ok \in BOOLEAN : motors_output(ok) \/ arm_motors_check(ok)
    \/ \E radio_lost \in BOOLEAN : LandRun(radio_lost)
    \/ AutoDisarmCheck

Commands ==
    \/ mavlink_motor_test_start \/ StationArms \/ StationDisarms \/ CpuFailsafe \/ TakeOff
    \/ ParachuteSwitch \/ Pilot \/ Settle

Next == (Tasks \/ (~settled /\ Commands)) /\ UNCHANGED fitted

\* The scheduler comes back to every task.
Fairness ==
    /\ WF_vars((\E w \in World : Detect(w)) /\ UNCHANGED fitted)
    /\ WF_vars((\E ok \in BOOLEAN : motors_output(ok)) /\ UNCHANGED fitted)
    /\ WF_vars(AutoDisarmCheck /\ UNCHANGED fitted)

Spec == Init /\ [][Next]_vars /\ Fairness

-----------------------------------------------------------------------------
(* Properties.                                                              *)

\* The detectors act on what lasted, whatever landings, take-offs, arming and switches came between:
\* with motors on a vehicle is taken for landed when it stood for more than LAND_TRIGGER passes
\* (land_detector.cpp:66-76); crash check and parachute disarm when it was off its angle in flight
\* for as long as they say (crash_check.cpp:42-55, 104-131), with the parachute enabled or not.  One
\* case is excepted, and against crash_check.cpp:63 ("continuously for 1 second"): parachute_check()
\* keeps its count while the parachute is disabled (71-73), so that after control was regained
\* meanwhile (stale) it releases a second that did not last.
OnEvidence ==
    /\ armed /\ armed' /\ ~land_complete /\ land_complete' => stood' > LAND_TRIGGER
    /\ armed /\ ~armed' /\ crash_counter' = CRASH_TRIGGER => tilted'.gentle = CRASH_TRIGGER
    /\ release' = 0 /\ control_loss_count' < control_loss_count =>
           tilted'.high = CHUTE_TRIGGER \/ stale

ActsOnEvidence == [][OnEvidence]_vars

\* Motors that run outside a motor test passed the arming checks, and the failsafes guard them
\* (motor_test.cpp:117-137, 148-168): what a test armed unchecked it disarms.
FlightIsGuarded == armed /\ ~motor_test => checked /\ failsafes

\* A vehicle that stands with the stick down is disarmed in the end, whatever mode it is in and
\* whatever was counted before (motors.cpp:74-117, control_land.cpp:70-73), where g.disarm_delay is
\* not 0, which switches the timer off (motors.cpp:80).
LandingEnds == settled ~> ~armed

=============================================================================
