------------------------------ MODULE Failsafes ------------------------------
(***************************************************************************)
(* The failsafes of ArduCopter that take the vehicle out of the pilot's    *)
(* hands: lost radio, low battery, lost ground station, bad estimate,      *)
(* breached fence.  Each is a task of the scheduler with flags of its own, *)
(* each ends in set_mode(), and they meet in the flight mode: what one has *)
(* decided is the state the next one finds, in whatever order they come.   *)
(*                                                                         *)
(* One behaviour is one flight, from the end of init_arm_motors() to the   *)
(* next disarm.  What a handler reads of the world and no property is      *)
(* about (on the ground? far from home? position known?) is its input.     *)
(***************************************************************************)
EXTENDS Integers

CONSTANTS
    FS_COUNTER,      \* throttle values below the threshold until the radio failsafe (3)
    TIMEOUT,         \* reads without a radio frame until the radio failsafe (500 ms)
    OVERRIDE_TIMEOUT,\* the same while the ground station overrides the radio (1000 ms)
    ITERATIONS_MAX,  \* EKF_CHECK_ITERATIONS_MAX: bad checks until the estimate is bad (10)
    Parameters       \* settings of the failsafe parameters, chosen before the flight

Settings == [throttle : {"DISABLED", "ALWAYS_RTL", "CONTINUE_MISSION", "ALWAYS_LAND"},
             battery  : {"DISABLED", "LAND", "RTL"},
             gcs      : {"DISABLED", "ALWAYS_RTL", "CONTINUE_MISSION"},
             ekf      : {"LAND", "ALTHOLD", "LAND_EVEN_STABILIZE"}]

ASSUME FailsafesAssumption ==
    /\ FS_COUNTER \in Nat \ {0} /\ ITERATIONS_MAX \in Nat \ {0}
    /\ TIMEOUT \in Nat \ {0} /\ OVERRIDE_TIMEOUT \in Nat /\ TIMEOUT <= OVERRIDE_TIMEOUT
    /\ Parameters \subseteq Settings

VARIABLES
    g,                  \* the parameters
    armed,              \* motors.armed()
    control_mode,       \* the flight mode, one representative per class
    land_with_gps,      \* control_land.cpp: the landing holds its position with the GPS
    failsafe_radio,     \* failsafe.radio
    radio_counter,      \* failsafe.radio_counter
    silent,             \* reads since the last radio frame; past the timeouts it goes back
                        \* and forth, so that a read is never a stuttering step
    failsafe_battery,   \* failsafe.battery
    failsafe_gcs,       \* failsafe.gcs
    rc_override_active, \* failsafe.rc_override_active
    failsafe_ekf,       \* failsafe.ekf
    fail_count,         \* ekf_check_state.fail_count
    bad_variance,       \* ekf_check_state.bad_variance
    commanded           \* history: a ground station has chosen the mode since radio was lost

mode  == <<control_mode, land_with_gps>>
radio == <<failsafe_radio, radio_counter, silent, commanded>>
gcs   == <<failsafe_gcs, rc_override_active>>
ekf   == <<failsafe_ekf, fail_count, bad_variance>>
vars  == <<g, armed, mode, radio, failsafe_battery, gcs, ekf>>

\* STABILIZE stands for ACRO as well, LOITER for CIRCLE, DRIFT, POSHOLD and BRAKE,
\* ALT_HOLD for SPORT, AUTOTUNE and FLIP.
Modes == {"STABILIZE", "ALT_HOLD", "AUTO", "GUIDED", "LOITER", "RTL", "LAND"}
mode_requires_GPS(m) == m \in {"AUTO", "GUIDED", "LOITER", "RTL"}

landing_with_GPS == control_mode = "LAND" /\ land_with_gps

TypeOK ==
    /\ g \in Parameters
    /\ armed \in BOOLEAN
    /\ control_mode \in Modes /\ land_with_gps \in BOOLEAN
    /\ failsafe_radio \in BOOLEAN /\ radio_counter \in 0 .. FS_COUNTER
    /\ silent \in 0 .. OVERRIDE_TIMEOUT + 1
    /\ failsafe_battery \in BOOLEAN /\ failsafe_gcs \in BOOLEAN /\ rc_override_active \in BOOLEAN
    /\ failsafe_ekf \in BOOLEAN /\ fail_count \in 0 .. ITERATIONS_MAX /\ bad_variance \in BOOLEAN
    /\ commanded \in BOOLEAN

\* init_arm_motors() has just armed the motors.  It clears the battery failsafe,
\* and ekf_check() its own while disarmed; the radio may already be lost.
Init ==
    /\ g \in Parameters
    /\ armed = TRUE
    /\ control_mode \in Modes /\ land_with_gps \in BOOLEAN
    /\ failsafe_radio \in {FALSE, g.throttle # "DISABLED"} /\ commanded = failsafe_radio
    /\ radio_counter \in 0 .. FS_COUNTER /\ (radio_counter = FS_COUNTER => failsafe_radio)
    /\ silent = 0
    /\ failsafe_battery = FALSE
    /\ failsafe_gcs = FALSE /\ rc_override_active \in BOOLEAN
    /\ failsafe_ekf = FALSE /\ fail_count = 0 /\ bad_variance = FALSE

\* what a handler finds: the vehicle may be disarmed where it is, it is far from
\* home, the estimator claims to know the position
World == [grounded : BOOLEAN, far : BOOLEAN, position : BOOLEAN]

-----------------------------------------------------------------------------
(* set_mode(), in flight.  Operators marked "defect" are not part of the      *)
(* specification: each is a wrong version of the operator that follows it.   *)

\* defect: the failsafe's verdict on the estimate is not asked for
PositionClaimed(w) == w.position
position_ok(w) == w.position /\ ~failsafe_ekf

CanEnter(m, w) == m = control_mode \/ ~mode_requires_GPS(m) \/ position_ok(w)

Enter(m, w) ==
    /\ control_mode' = m
    /\ land_with_gps' = IF m = "LAND" /\ control_mode # "LAND" THEN position_ok(w) ELSE land_with_gps
    /\ UNCHANGED armed

\* set_mode_RTL_or_land_with_pause()
RTLOrLand(w) == IF CanEnter("RTL", w) THEN Enter("RTL", w) ELSE Enter("LAND", w)

KeepFlying == UNCHANGED <<mode, armed>>

init_disarm_motors == armed' = FALSE /\ UNCHANGED mode

-----------------------------------------------------------------------------
(* The radio. *)

\* failsafe_radio_on_event()
radio_on_event(w) ==
    \/ /\ control_mode = "LAND" /\ g.battery = "LAND" /\ failsafe_battery
       /\ KeepFlying
    \/ /\ ~(control_mode = "LAND" /\ g.battery = "LAND" /\ failsafe_battery)
       /\ \/ w.grounded /\ init_disarm_motors
          \/ /\ ~w.grounded
             /\ IF control_mode = "AUTO" /\ g.throttle = "CONTINUE_MISSION" THEN KeepFlying
                ELSE IF w.far /\ g.throttle # "ALWAYS_LAND" THEN RTLOrLand(w)
                ELSE Enter("LAND", w)

set_failsafe_radio_on(w) ==
    /\ failsafe_radio' = TRUE
    /\ commanded' = FALSE
    /\ radio_on_event(w)

NoRadioEvent == UNCHANGED <<failsafe_radio, commanded, mode, armed>>

\* read_radio() without a new frame
\* defect: a frame of any age is good while the ground station overrides the radio
LateOrNeverOverridden(age) == ~rc_override_active /\ age >= TIMEOUT
Late(age) == age >= IF rc_override_active THEN OVERRIDE_TIMEOUT ELSE TIMEOUT

NoFrame(w) ==
    LET age == IF silent <= OVERRIDE_TIMEOUT THEN silent + 1 ELSE OVERRIDE_TIMEOUT IN
    /\ silent' = age
    /\ UNCHANGED radio_counter
    /\ \/ Late(age) /\ g.throttle # "DISABLED" /\ ~failsafe_radio /\ set_failsafe_radio_on(w)
       \/ ~(Late(age) /\ g.throttle # "DISABLED" /\ ~failsafe_radio) /\ NoRadioEvent

\* set_throttle_and_failsafe() with a throttle below the threshold
LowFrame(w) ==
    /\ silent' = 0
    /\ \/ (g.throttle = "DISABLED" \/ failsafe_radio) /\ NoRadioEvent /\ UNCHANGED radio_counter
       \/ /\ g.throttle # "DISABLED" /\ ~failsafe_radio
          /\ radio_counter' = IF radio_counter < FS_COUNTER THEN radio_counter + 1 ELSE FS_COUNTER
          /\ \/ radio_counter' = FS_COUNTER /\ set_failsafe_radio_on(w)
             \/ radio_counter' < FS_COUNTER /\ NoRadioEvent

\* defect: the counter runs below zero
GoodFrameUnderflows ==
    /\ silent' = 0
    /\ radio_counter' = IF g.throttle # "DISABLED" THEN radio_counter - 1 ELSE radio_counter
    /\ failsafe_radio' = (failsafe_radio /\ (g.throttle = "DISABLED" \/ radio_counter' > 0))
    /\ UNCHANGED <<commanded, mode, armed>>

\* and with a good one: a single one ends a failsafe that silence began
GoodFrame ==
    /\ silent' = 0
    /\ radio_counter' = IF g.throttle # "DISABLED" /\ radio_counter > 0
                        THEN radio_counter - 1 ELSE radio_counter
    /\ failsafe_radio' = (failsafe_radio /\ (g.throttle = "DISABLED" \/ radio_counter' > 0))
    /\ UNCHANGED <<commanded, mode, armed>>

ReadRadio ==
    /\ armed
    /\ GoodFrame \/ \E w \in World : NoFrame(w) \/ LowFrame(w)
    /\ UNCHANGED <<g, failsafe_battery, gcs, ekf>>

-----------------------------------------------------------------------------
(* The battery, the ground station, the fence. *)

\* failsafe_battery_event()
ReadBattery(w) ==
    /\ armed /\ ~failsafe_battery
    /\ failsafe_battery' = TRUE
    /\ UNCHANGED <<g, radio, gcs, ekf>>
    /\ \/ g.battery = "DISABLED" /\ KeepFlying
       \/ g.battery # "DISABLED" /\ w.grounded /\ init_disarm_motors
       \/ /\ g.battery # "DISABLED" /\ ~w.grounded
          /\ IF w.far /\ (control_mode = "AUTO" \/ g.battery = "RTL")
             THEN RTLOrLand(w) ELSE Enter("LAND", w)

\* failsafe_gcs_check() finds the last heartbeat too old
GcsLost(w) ==
    /\ armed /\ ~failsafe_gcs /\ g.gcs # "DISABLED"
    /\ rc_override_active \/ control_mode = "GUIDED"
    /\ failsafe_gcs' = TRUE
    /\ rc_override_active' = FALSE
    /\ UNCHANGED <<g, radio, failsafe_battery, ekf>>
    /\ \/ w.grounded /\ init_disarm_motors
       \/ /\ ~w.grounded
          /\ IF control_mode = "AUTO" /\ g.gcs # "ALWAYS_RTL" THEN KeepFlying
             ELSE IF w.far THEN RTLOrLand(w) ELSE Enter("LAND", w)

\* failsafe_gcs_check() finds a recent one
GcsBack ==
    /\ armed /\ failsafe_gcs
    /\ failsafe_gcs' = FALSE
    /\ UNCHANGED <<g, armed, mode, radio, failsafe_battery, rc_override_active, ekf>>

\* fence_check(): w.far stands for a breach beyond the give-up distance
FenceCheck(w) ==
    /\ armed
    /\ \/ w.grounded /\ init_disarm_motors
       \/ ~w.grounded /\ IF w.far THEN Enter("LAND", w) ELSE RTLOrLand(w)
    /\ UNCHANGED <<g, radio, failsafe_battery, gcs, ekf>>

-----------------------------------------------------------------------------
(* ekf_check() *)

\* called when the estimate becomes bad
\* defect: the lost radio is not asked for
failsafe_ekf_event_deaf ==
    IF failsafe_ekf \/ (~mode_requires_GPS(control_mode) /\ g.ekf # "LAND_EVEN_STABILIZE")
    THEN KeepFlying /\ UNCHANGED failsafe_ekf
    ELSE /\ failsafe_ekf' = TRUE
         /\ control_mode' = IF g.ekf = "ALTHOLD" THEN "ALT_HOLD" ELSE "LAND"
         /\ land_with_gps' = (land_with_gps /\ control_mode' # "LAND")
         /\ UNCHANGED armed
failsafe_ekf_event ==
    IF failsafe_ekf \/ (~mode_requires_GPS(control_mode) /\ g.ekf # "LAND_EVEN_STABILIZE")
    THEN KeepFlying /\ UNCHANGED failsafe_ekf
    ELSE /\ failsafe_ekf' = TRUE
         /\ control_mode' = IF g.ekf = "ALTHOLD" /\ ~failsafe_radio THEN "ALT_HOLD" ELSE "LAND"
         /\ land_with_gps' = (land_with_gps /\ control_mode' # "LAND")
         /\ UNCHANGED armed

\* the variance is over the threshold, or no position is known
EkfOver ==
    \/ bad_variance /\ KeepFlying /\ UNCHANGED ekf
    \/ /\ ~bad_variance
       /\ fail_count' = fail_count + 1
       /\ bad_variance' = (fail_count' >= ITERATIONS_MAX)
       /\ IF bad_variance' THEN failsafe_ekf_event ELSE KeepFlying /\ UNCHANGED failsafe_ekf

\* defect: the first good check clears the flag, and the counter goes on
EkfGoodAtOnce ==
    /\ fail_count' = IF fail_count > 0 THEN fail_count - 1 ELSE 0
    /\ bad_variance' = FALSE
    /\ failsafe_ekf' = (failsafe_ekf /\ fail_count > 1)
    /\ KeepFlying
\* it is not: the flag and the failsafe last until the counter is back at zero
EkfGood ==
    /\ fail_count' = IF fail_count > 0 THEN fail_count - 1 ELSE 0
    /\ bad_variance' = (bad_variance /\ fail_count # 1)
    /\ failsafe_ekf' = (failsafe_ekf /\ ~(bad_variance /\ fail_count = 1))
    /\ KeepFlying

\* USB is plugged in: the check starts afresh
EkfOff ==
    /\ fail_count' = 0 /\ bad_variance' = FALSE /\ failsafe_ekf' = FALSE
    /\ KeepFlying

\* ekf_check(); without an origin it does nothing
EkfCheck(w) ==
    /\ armed
    /\ EkfOver \/ (w.position /\ EkfGood) \/ EkfOff
    /\ UNCHANGED <<g, radio, failsafe_battery, gcs>>

-----------------------------------------------------------------------------
(* The pilot, the ground station and the autopilot. *)

\* read_control_switch() and read_aux_switches(), closed during a radio failsafe
SwitchOpen == ~failsafe_radio /\ radio_counter = 0

PilotSetsMode(m, w) ==
    /\ armed
    /\ SwitchOpen
    /\ CanEnter(m, w)
    /\ Enter(m, w)
    /\ UNCHANGED <<g, radio, failsafe_battery, gcs, ekf>>

\* a SET_MODE or COMMAND_LONG message
GcsSetsMode(m, w) ==
    /\ armed
    /\ CanEnter(m, w)
    /\ Enter(m, w)
    /\ commanded' = failsafe_radio
    /\ UNCHANGED <<g, failsafe_radio, radio_counter, silent, failsafe_battery, gcs, ekf>>

\* an RC_CHANNELS_OVERRIDE message
RcOverride ==
    /\ armed
    /\ rc_override_active' \in BOOLEAN
    /\ UNCHANGED <<g, armed, mode, radio, failsafe_battery, failsafe_gcs, ekf>>

\* exit_mission() lands when it cannot loiter
ExitMission(w) ==
    /\ armed /\ control_mode = "AUTO"
    /\ ~position_ok(w)
    /\ Enter("LAND", w)
    /\ UNCHANGED <<g, radio, failsafe_battery, gcs, ekf>>

\* the pilot, the ground station, the end of a landing, or a crash
Disarm ==
    /\ armed
    /\ init_disarm_motors
    /\ UNCHANGED <<g, radio, failsafe_battery, gcs, ekf>>

-----------------------------------------------------------------------------
Next ==
    \/ ReadRadio
    \/ GcsBack
    \/ RcOverride
    \/ Disarm
    \/ \E w \in World :
          \/ ReadBattery(w) \/ GcsLost(w) \/ FenceCheck(w) \/ EkfCheck(w) \/ ExitMission(w)
          \/ \E m \in Modes : PilotSetsMode(m, w) \/ GcsSetsMode(m, w)

Spec == Init /\ [][Next]_vars

\* The scheduler runs the radio task in every pass of its loop.
FairSpec == Spec /\ WF_vars(ReadRadio)

-----------------------------------------------------------------------------
(* Properties. *)

\* While the EKF failsafe lasts (system.cpp:326) nothing steers by the position
\* it has declared bad: no mode that needs the GPS, and no landing that uses it,
\* whatever other failsafe, pilot or ground station asks for.
EkfFailsafeUsesNoGps ==
    armed /\ failsafe_ekf => ~mode_requires_GPS(control_mode) /\ ~landing_with_GPS

\* A vehicle that has lost its radio goes home, lands, or flies the mission it was
\* told to continue, until the radio or a ground station says otherwise: no later
\* failsafe hands it back to sticks nobody holds (events.cpp 9-91).
LostRadioIsFlown ==
    armed /\ failsafe_radio /\ ~commanded =>
        \/ control_mode \in {"RTL", "LAND"}
        \/ control_mode = "AUTO" /\ g.throttle = "CONTINUE_MISSION"

\* The EKF failsafe can end: its flag is cleared only when bad_variance is, and
\* that only when a counter above zero returns to zero (ekf_check.cpp 69-83).
EkfFailsafeCanEnd ==
    /\ failsafe_ekf => bad_variance
    /\ bad_variance => fail_count > 0

\* A radio that is lost for good, whether it falls silent, reports a low throttle
\* or mixes the two, is noticed in flight (radio.cpp 98-168).
LostRadioIsNoticed ==
    <>[][~GoodFrame]_vars =>
        (armed /\ g.throttle # "DISABLED") ~> (~armed \/ failsafe_radio)

=============================================================================
