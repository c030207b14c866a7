------------------------------- MODULE Arming -------------------------------
(***************************************************************************)
(* The CPU failsafe of ArduCopter and the arming procedure that switches   *)
(* it off and on again.                                                    *)
(*                                                                         *)
(* Two threads share the failsafe's four static variables.  The main loop  *)
(* arms and disarms the motors; the timer thread calls failsafe_check()    *)
(* between any two of its steps and disarms the motors itself when         *)
(* mainLoop_count has stood still for too long.  During the delay(30) in   *)
(* init_arm_motors() the main thread also runs the MAVLink delay callback, *)
(* so commands of the ground station are handled in the middle of arming,  *)
(* the motor test among them, which arms the motors by itself.             *)
(*                                                                         *)
(* compassmot and the ESC calibration, which also arm for the bench        *)
(* (compassmot.cpp 134, esc_calibration.cpp 92 and 121), are left out.     *)
(*                                                                         *)
(* One FailsafeCheck stands for the passage of one unit of time.           *)
(***************************************************************************)
EXTENDS Naturals

CONSTANTS
    LOCKUP,        \* units of time without a main loop pass before the failsafe trips (2 s)
    RETRY,         \* units of time between two disarms while it is tripped (1 s)
    CLOCKMOD,      \* the timer's microsecond clock wraps at this value (2^32)
    COUNTMOD,      \* mainLoop_count wraps at this value (2^16)
    MAXPASSES      \* passes of the main loop between two failsafe checks

\* The loop runs slower than the timer, so its counter cannot lap between two
\* checks; the clock cannot lap within one lockup period.
ASSUME ConstantsAssumption ==
    /\ LOCKUP \in Nat /\ RETRY \in Nat /\ RETRY <= LOCKUP
    /\ CLOCKMOD \in Nat /\ CLOCKMOD > LOCKUP + 1
    /\ COUNTMOD \in Nat /\ MAXPASSES \in Nat /\ MAXPASSES < COUNTMOD

VARIABLES
    using_interlock,              \* an aux switch is set to AUXSW_MOTOR_INTERLOCK
    using_estop,                  \* an aux switch is set to AUXSW_MOTOR_ESTOP
    failsafe_enabled,             \* failsafe.cpp: failsafe_enabled
    failsafe_last_mainLoop_count, \* failsafe.cpp: the count the last check saw
    failsafe_age,                 \* micros() - failsafe_last_timestamp, an unsigned difference
    in_failsafe,                  \* failsafe.cpp: in_failsafe
    mainLoop_count,               \* Copter.h: incremented by each pass of the main loop
    armed,                        \* motors.armed()
    soft_armed,                   \* hal.util->get_soft_armed()
    motor_test,                   \* ap.motor_test
    interlock,                    \* motors.get_interlock(), as the aux switch sets it
    motor_emergency_stop,         \* ap.motor_emergency_stop, as the aux switch sets it
    control_mode,                 \* the flight mode, one representative per class
    arming_from_gcs,              \* argument of the init_arm_motors() call in progress
    pc,                           \* where the main thread is
    passes,                       \* bound: main loop passes since the last failsafe check
    stall,                        \* history: checks since the last main loop pass
    watch                         \* history: checks since the last pass, enable, stamp or start of a motor test

fitted  == <<using_interlock, using_estop>>
fsvars  == <<failsafe_enabled, failsafe_last_mainLoop_count, failsafe_age, in_failsafe>>
pilot   == <<interlock, motor_emergency_stop, control_mode>>
history == <<passes, stall, watch>>
vars    == <<fitted, fsvars, mainLoop_count, armed, soft_armed, motor_test, pilot, arming_from_gcs, pc, history>>

\* "boot": init_ardupilot() has not finished.  "loop": inside a pass of the main
\* loop, outside init_arm_motors().  "checked": init_arm_motors() has passed its
\* checks and switched the failsafe off.  "delay": in its delay(30).
\* "stamp": between the two assignments of failsafe_enable().
Locations == {"boot", "loop", "checked", "delay", "stamp"}

\* STABILIZE stands for the modes that always allow arming, AUTO for those that never do.
Modes == {"STABILIZE", "GUIDED", "AUTO"}

\* The history counters stop here: no property tells larger values apart.
SATURATED == LOCKUP + 2

TypeOK ==
    /\ using_interlock \in BOOLEAN
    /\ using_estop \in BOOLEAN
    /\ failsafe_enabled \in BOOLEAN
    /\ failsafe_last_mainLoop_count \in 0 .. COUNTMOD - 1
    /\ failsafe_age \in 0 .. CLOCKMOD - 1
    /\ in_failsafe \in BOOLEAN
    /\ mainLoop_count \in 0 .. COUNTMOD - 1
    /\ armed \in BOOLEAN
    /\ soft_armed \in BOOLEAN
    /\ motor_test \in BOOLEAN
    /\ interlock \in BOOLEAN
    /\ motor_emergency_stop \in BOOLEAN
    /\ control_mode \in Modes
    /\ arming_from_gcs \in BOOLEAN
    /\ pc \in Locations
    /\ passes \in 0 .. MAXPASSES
    /\ stall \in 0 .. SATURATED
    /\ watch \in 0 .. SATURATED

\* failsafe_check() is registered before the end of init_ardupilot(); nothing is
\* armed, the pilot has set up any of the aux switches, and they are where he
\* left them.  An unconfigured switch never writes its flag.
Init ==
    /\ using_interlock \in BOOLEAN
    /\ using_estop \in BOOLEAN
    /\ failsafe_enabled = FALSE
    /\ failsafe_last_mainLoop_count = 0
    /\ failsafe_age = 0
    /\ in_failsafe = FALSE
    /\ mainLoop_count = 0
    /\ armed = FALSE
    /\ soft_armed = FALSE
    /\ motor_test = FALSE
    /\ interlock \in {FALSE, using_interlock}
    /\ motor_emergency_stop \in {FALSE, using_estop}
    /\ control_mode \in Modes
    /\ arming_from_gcs = FALSE
    /\ pc = "boot"
    /\ passes = 0
    /\ stall = 0
    /\ watch = 0

-----------------------------------------------------------------------------
(* The timer thread.  Operators marked "defect" are not part of the          *)
(* specification: each is a wrong version of the operator that follows it.  *)

\* defect: the counter is taken for unbounded
WrapNever(n, m) == n + 1

\* n + 1 in a counter that wraps at m
Wrap(n, m) == IF n + 1 = m THEN 0 ELSE n + 1

\* n + 1 in a history counter
Saturate(n) == IF n < SATURATED THEN n + 1 ELSE n

\* defect: a running main loop does not refresh the timestamp
LoopAliveKeepsStamp ==
    /\ mainLoop_count # failsafe_last_mainLoop_count
    /\ failsafe_last_mainLoop_count' = mainLoop_count
    /\ failsafe_age' = Wrap(failsafe_age, CLOCKMOD)
    /\ in_failsafe' = FALSE
    /\ UNCHANGED armed

\* failsafe_check() finds the main loop running
LoopAlive ==
    /\ mainLoop_count # failsafe_last_mainLoop_count
    /\ failsafe_last_mainLoop_count' = mainLoop_count
    /\ failsafe_age' = 0
    /\ in_failsafe' = FALSE
    /\ UNCHANGED armed

\* the 2 second test
Trips(age) == failsafe_enabled /\ age > LOCKUP

\* defect: the failsafe trips but disarms only at a check that starts tripped and late
DisarmsLate(age) == failsafe_enabled /\ in_failsafe /\ age > LOCKUP + 1

\* the 1 second test, reached in the check that trips as well
Disarms(age) == failsafe_enabled /\ (in_failsafe \/ Trips(age)) /\ age > RETRY

\* failsafe_check() finds the count unchanged: trip, and disarm again every RETRY
LoopStalled ==
    LET age == Wrap(failsafe_age, CLOCKMOD) IN
    /\ mainLoop_count = failsafe_last_mainLoop_count
    /\ in_failsafe' = (in_failsafe \/ Trips(age))
    /\ failsafe_age' = IF Disarms(age) THEN 0 ELSE age
    /\ armed' = (armed /\ ~Disarms(age))
    /\ UNCHANGED failsafe_last_mainLoop_count

FailsafeCheck ==
    /\ LoopAlive \/ LoopStalled
    /\ passes' = 0
    /\ stall' = Saturate(stall)
    /\ watch' = Saturate(watch)
    /\ UNCHANGED <<failsafe_enabled, mainLoop_count, soft_armed, motor_test, pilot, arming_from_gcs, pc>>

-----------------------------------------------------------------------------
(* failsafe_enable() and failsafe_disable(), called by the main thread. *)

\* first assignment of failsafe_enable(): the failsafe is on, its timestamp is stale
EnableFlag ==
    /\ failsafe_enabled' = TRUE
    /\ watch' = 0
    /\ pc' = "stamp"

\* second assignment: failsafe_last_timestamp = micros(); the caller then returns
EnableStamp ==
    /\ pc = "stamp"
    /\ failsafe_age' = 0
    /\ watch' = 0
    /\ pc' = "loop"
    /\ UNCHANGED <<failsafe_enabled, failsafe_last_mainLoop_count, in_failsafe, mainLoop_count,
                   armed, soft_armed, motor_test, pilot, arming_from_gcs, passes, stall>>

failsafe_disable == failsafe_enabled' = FALSE

\* the end of init_ardupilot()
BootDone ==
    /\ pc = "boot"
    /\ EnableFlag
    /\ UNCHANGED <<failsafe_last_mainLoop_count, failsafe_age, in_failsafe, mainLoop_count,
                   armed, soft_armed, motor_test, pilot, arming_from_gcs, passes, stall>>

-----------------------------------------------------------------------------
(* The main loop. *)

\* one pass ends and the next begins
MainLoop ==
    /\ pc = "loop"
    /\ passes < MAXPASSES
    /\ mainLoop_count' = Wrap(mainLoop_count, COUNTMOD)
    /\ passes' = passes + 1
    /\ stall' = 0
    /\ watch' = 0
    /\ UNCHANGED <<fsvars, armed, soft_armed, motor_test, pilot, arming_from_gcs, pc>>

\* read_aux_switches(): the pilot moves the configured switch
ReadAuxSwitches ==
    /\ pc = "loop"
    /\ \/ using_interlock /\ interlock' = ~interlock /\ UNCHANGED motor_emergency_stop
       \/ using_estop /\ motor_emergency_stop' = ~motor_emergency_stop /\ UNCHANGED interlock
    /\ UNCHANGED <<fsvars, mainLoop_count, armed, soft_armed, motor_test, control_mode, arming_from_gcs, pc, history>>

\* set_mode(), from the mode switch, a failsafe, or a message of the ground
\* station, which the delay callback also handles in the middle of arming
SetMode(mode) ==
    /\ pc \in {"loop", "delay"}
    /\ control_mode' = mode
    /\ UNCHANGED <<fsvars, mainLoop_count, armed, soft_armed, motor_test, interlock, motor_emergency_stop,
                   arming_from_gcs, pc, history>>

\* init_disarm_motors(), whoever calls it; in "delay" it is the delay callback
Disarm ==
    /\ pc \in {"loop", "delay"}
    /\ armed
    /\ armed' = FALSE
    /\ soft_armed' = FALSE
    /\ UNCHANGED <<fsvars, mainLoop_count, motor_test, pilot, arming_from_gcs, pc, history>>

\* mavlink_motor_test_start() on the ground, from the main loop or the delay
\* callback.  It arms without soft_armed and leaves the CPU failsafe on.  What
\* the callback handles in the delays of its init_rc_out() comes before it here.
\* A command during a test only changes its motor and its end.
MotorTestStart ==
    /\ pc \in {"loop", "delay"}
    /\ ~motor_test
    /\ motor_test' = TRUE
    /\ armed' = TRUE
    /\ watch' = IF armed THEN watch ELSE 0
    /\ UNCHANGED <<fsvars, mainLoop_count, soft_armed, pilot, arming_from_gcs, pc, passes, stall>>

\* motor_test_stop(), from motors_output() at the timeout or for a bad output
MotorTestStop ==
    /\ pc = "loop"
    /\ motor_test
    /\ motor_test' = FALSE
    /\ armed' = FALSE
    /\ UNCHANGED <<fsvars, mainLoop_count, soft_armed, pilot, arming_from_gcs, pc, history>>

-----------------------------------------------------------------------------
(* init_arm_motors() *)

InterlockOn == using_interlock /\ interlock
EstopOn     == using_estop /\ motor_emergency_stop

mode_allows_arming(mode, from_gcs) == mode = "STABILIZE" \/ (from_gcs /\ mode = "GUIDED")

\* pre_arm_checks() accepts at once when the motors are armed already
pre_arm_checks == armed \/ (~(using_interlock /\ using_estop) /\ ~InterlockOn /\ ~EstopOn)

\* defect: the sticks arm an armed vehicle too
ArmBeginAgain(from_gcs) ==
    /\ pc = "loop"
    /\ pre_arm_checks
    /\ mode_allows_arming(control_mode, from_gcs)
    /\ failsafe_disable
    /\ arming_from_gcs' = from_gcs
    /\ pc' = "checked"
    /\ UNCHANGED <<failsafe_last_mainLoop_count, failsafe_age, in_failsafe, mainLoop_count,
                   armed, soft_armed, motor_test, pilot, history>>

\* The checks of sensors, sticks and battery may pass or fail; a refusal changes
\* nothing here.  The sticks ask only when disarmed, the ground station always may.
ArmBegin(from_gcs) ==
    /\ pc = "loop"
    /\ from_gcs \/ ~armed
    /\ pre_arm_checks
    /\ mode_allows_arming(control_mode, from_gcs)
    /\ failsafe_disable
    /\ arming_from_gcs' = from_gcs
    /\ pc' = "checked"
    /\ UNCHANGED <<failsafe_last_mainLoop_count, failsafe_age, in_failsafe, mainLoop_count,
                   armed, soft_armed, motor_test, pilot, history>>

\* the two refusals after failsafe_disable(): the failsafe is left as it is
ArmRefused ==
    /\ pc = "checked"
    /\ InterlockOn \/ EstopOn
    /\ pc' = "loop"
    /\ UNCHANGED <<fsvars, mainLoop_count, armed, soft_armed, motor_test, pilot, arming_from_gcs, history>>

ArmDelay ==
    /\ pc = "checked"
    /\ ~InterlockOn /\ ~EstopOn
    /\ soft_armed' = TRUE
    /\ pc' = "delay"
    /\ UNCHANGED <<fsvars, mainLoop_count, armed, motor_test, pilot, arming_from_gcs, history>>

\* defect: the failsafe stays off after arming
ArmFinishUnguarded ==
    /\ pc = "delay"
    /\ armed' = TRUE
    /\ watch' = 0
    /\ pc' = "stamp"
    /\ UNCHANGED <<fsvars, mainLoop_count, soft_armed, motor_test, pilot, arming_from_gcs, passes, stall>>

\* motors.armed(true), then failsafe_enable()
ArmFinish ==
    /\ pc = "delay"
    /\ armed' = TRUE
    /\ EnableFlag
    /\ UNCHANGED <<failsafe_last_mainLoop_count, failsafe_age, in_failsafe, mainLoop_count,
                   soft_armed, motor_test, pilot, arming_from_gcs, passes, stall>>

-----------------------------------------------------------------------------
Step ==
    \/ FailsafeCheck
    \/ BootDone
    \/ EnableStamp
    \/ MainLoop
    \/ ReadAuxSwitches
    \/ \E mode \in Modes : SetMode(mode)
    \/ Disarm
    \/ MotorTestStart
    \/ MotorTestStop
    \/ \E from_gcs \in BOOLEAN : ArmBegin(from_gcs)
    \/ ArmRefused
    \/ ArmDelay
    \/ ArmFinish

\* The parameters that assign the switches are set up on the ground.
Next == Step /\ UNCHANGED fitted

Spec == Init /\ [][Next]_vars

-----------------------------------------------------------------------------
(* Properties. *)

\* The motors never stay armed through a lockup: while the failsafe is enabled
\* (failsafe.cpp 52-72), LOCKUP units and the one the check needs to notice the
\* last pass are the longest the main loop can stand still with motors armed,
\* wherever the main thread is stuck and however the clock and the counter wrap.
LockupDisarms == armed /\ failsafe_enabled => watch <= LOCKUP + 1

\* A main loop that still makes a pass every LOCKUP units is never taken for
\* dead (failsafe.cpp 41-52), however arming and the checks interleave.
TripsOnlyWhenStalled == [][~in_failsafe /\ in_failsafe' => stall' > LOCKUP]_vars

\* Whenever the motors are armed and the main thread is back in its loop, the
\* CPU failsafe guards them: every failsafe_disable() of init_arm_motors() has
\* been followed by a failsafe_enable() (motors.cpp 138-224).
ArmedIsGuarded == armed /\ pc = "loop" => failsafe_enabled

\* The same for the vehicles that have neither switch (motors.cpp 171-198): no
\* refusal can follow their failsafe_disable().
SwitchlessIsGuarded == ~using_interlock /\ ~using_estop => ArmedIsGuarded

\* The estimators take soft_armed for the motors' arm status (motors.cpp 200-215
\* and 901-913).  A disarm that the delay callback handles is lost to the rest
\* of init_arm_motors(), and the motors then run while the estimators are told
\* they do not.  Only two ways lead there: a motor test, which arms without
\* soft_armed (motor_test.cpp 114-118) and disarms when it ends, also the
\* vehicle that the sticks were arming when it came; and the ground station,
\* which may arm an armed vehicle.  (compassmot and the ESC calibration, which
\* arm for the bench too, are outside the module.)
EstimatorSeesSticks == armed /\ ~soft_armed => arming_from_gcs \/ motor_test

=============================================================================
