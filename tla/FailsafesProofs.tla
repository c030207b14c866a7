-------------------------- MODULE FailsafesProofs ---------------------------
(***************************************************************************)
(* The safety properties of Failsafes for every setting of the parameters  *)
(* and every counter limit and timeout.                                    *)
(*                                                                         *)
(* The three properties are inductive together with the types and the      *)
(* limit of a counter; the proofs go through what the failsafes have in    *)
(* common, a change of the mode.                                           *)
(***************************************************************************)
EXTENDS Failsafes, TLAPS

\* The counter of bad checks is at its limit only with the flag set, so that it
\* never passes it.
CountInv == ~bad_variance => fail_count < ITERATIONS_MAX

IInv == TypeOK /\ CountInv /\ EkfFailsafeUsesNoGps /\ LostRadioIsFlown /\ EkfFailsafeCanEnd

\* The types of what a reaction of a failsafe may change.
ModeType == armed \in BOOLEAN /\ control_mode \in Modes /\ land_with_gps \in BOOLEAN

\* What a failsafe may do with the vehicle.
React(w) == KeepFlying \/ init_disarm_motors \/ RTLOrLand(w) \/ Enter("LAND", w)

-----------------------------------------------------------------------------
(* Changes of the mode. *)

\* While the EKF failsafe lasts set_mode() reaches nothing that uses the GPS.
LEMMA EnterUsesNoGps ==
    ASSUME ModeType, EkfFailsafeUsesNoGps, NEW m \in Modes, NEW w \in World,
           CanEnter(m, w), Enter(m, w), UNCHANGED failsafe_ekf
    PROVE  ModeType' /\ EkfFailsafeUsesNoGps'
<1>1. ModeType'
  BY DEF ModeType, Enter, position_ok, World
<1>2. CASE failsafe_ekf /\ armed
  <2>1. ~position_ok(w)
    BY <1>2 DEF position_ok
  <2>2. ~mode_requires_GPS(control_mode')
    BY <1>2, <2>1 DEF CanEnter, Enter, EkfFailsafeUsesNoGps
  <2>3. ~landing_with_GPS'
    BY <1>2, <2>1 DEF Enter, EkfFailsafeUsesNoGps, landing_with_GPS
  <2>. QED
    BY <1>1, <2>2, <2>3 DEF EkfFailsafeUsesNoGps, mode_requires_GPS
<1>3. CASE ~(failsafe_ekf /\ armed)
  BY <1>1, <1>3 DEF EkfFailsafeUsesNoGps, Enter
<1>. QED
  BY <1>2, <1>3

\* Neither does any reaction of another failsafe.
LEMMA ReactUsesNoGps ==
    ASSUME ModeType, EkfFailsafeUsesNoGps, NEW w \in World, React(w), UNCHANGED failsafe_ekf
    PROVE  ModeType' /\ EkfFailsafeUsesNoGps'
<1>1. CASE KeepFlying
  BY <1>1 DEF KeepFlying, mode, ModeType, EkfFailsafeUsesNoGps, mode_requires_GPS, landing_with_GPS
<1>2. CASE init_disarm_motors
  BY <1>2 DEF init_disarm_motors, mode, ModeType, EkfFailsafeUsesNoGps
<1>3. CanEnter("LAND", w) /\ "LAND" \in Modes /\ "RTL" \in Modes
  BY DEF CanEnter, mode_requires_GPS, Modes
<1>4. CASE Enter("LAND", w)
  BY <1>3, <1>4, EnterUsesNoGps
<1>5. CASE RTLOrLand(w)
  BY <1>3, <1>4, <1>5, EnterUsesNoGps DEF RTLOrLand
<1>. QED
  BY <1>1, <1>2, <1>4, <1>5 DEF React

\* A reaction leaves a vehicle without radio where it may be.
LEMMA ReactIsFlown ==
    ASSUME LostRadioIsFlown, NEW w \in World, React(w), UNCHANGED <<g, failsafe_radio, commanded>>
    PROVE  LostRadioIsFlown'
BY DEF React, KeepFlying, init_disarm_motors, RTLOrLand, Enter, mode, LostRadioIsFlown

\* Losing the radio brings it there.
LEMMA RadioEventIsFlown ==
    ASSUME NEW w \in World, radio_on_event(w), UNCHANGED g
    PROVE  React(w) /\ LostRadioIsFlown'
<1>1. CASE control_mode = "LAND" /\ g.battery = "LAND" /\ failsafe_battery
  BY <1>1 DEF radio_on_event, React, KeepFlying, mode, LostRadioIsFlown
<1>2. CASE w.grounded /\ init_disarm_motors
  BY <1>2 DEF React, init_disarm_motors, LostRadioIsFlown
<1>3. CASE control_mode = "AUTO" /\ g.throttle = "CONTINUE_MISSION" /\ KeepFlying
  BY <1>3 DEF React, KeepFlying, mode, LostRadioIsFlown
<1>4. CASE RTLOrLand(w) \/ Enter("LAND", w)
  BY <1>4 DEF React, RTLOrLand, Enter, LostRadioIsFlown
<1>. QED
  BY <1>1, <1>2, <1>3, <1>4 DEF radio_on_event

-----------------------------------------------------------------------------
(* The steps. *)

\* The radio task.
LEMMA RadioStep == IInv /\ ReadRadio => IInv'
<1> SUFFICES ASSUME IInv, ReadRadio PROVE IInv'
  OBVIOUS
<1>0. ModeType /\ UNCHANGED <<g, failsafe_battery, failsafe_gcs, rc_override_active,
                              failsafe_ekf, fail_count, bad_variance>>
  BY DEF IInv, TypeOK, ModeType, ReadRadio, gcs, ekf
<1>1. EkfFailsafeCanEnd' /\ CountInv'
  BY <1>0 DEF IInv, EkfFailsafeCanEnd, CountInv
<1>2. silent' \in 0 .. OVERRIDE_TIMEOUT + 1 /\ radio_counter' \in 0 .. FS_COUNTER
  <2>1. CASE GoodFrame
    BY <2>1, FailsafesAssumption DEF GoodFrame, IInv, TypeOK
  <2>2. ASSUME NEW w \in World, NoFrame(w) PROVE silent' \in 0 .. OVERRIDE_TIMEOUT + 1 /\ radio_counter' \in 0 .. FS_COUNTER
    BY <2>2, FailsafesAssumption DEF NoFrame, IInv, TypeOK
  <2>3. ASSUME NEW w \in World, LowFrame(w) PROVE silent' \in 0 .. OVERRIDE_TIMEOUT + 1 /\ radio_counter' \in 0 .. FS_COUNTER
    BY <2>3, FailsafesAssumption DEF LowFrame, IInv, TypeOK
  <2>. QED
    BY <2>1, <2>2, <2>3 DEF ReadRadio
<1>3. /\ ModeType' /\ EkfFailsafeUsesNoGps' /\ LostRadioIsFlown'
      /\ failsafe_radio' \in BOOLEAN /\ commanded' \in BOOLEAN
  <2>1. CASE GoodFrame
    BY <1>0, <2>1 DEF GoodFrame, mode, IInv, TypeOK, ModeType, EkfFailsafeUsesNoGps, LostRadioIsFlown,
                      mode_requires_GPS, landing_with_GPS
  <2>2. ASSUME NEW w \in World, NoFrame(w) \/ LowFrame(w) 
                PROVE  /\ ModeType' /\ EkfFailsafeUsesNoGps' /\ LostRadioIsFlown'
                       /\ failsafe_radio' \in BOOLEAN /\ commanded' \in BOOLEAN
    <3>1. CASE set_failsafe_radio_on(w)
      <4>1. React(w) /\ LostRadioIsFlown'
        BY <1>0, <3>1, RadioEventIsFlown DEF set_failsafe_radio_on
      <4>2. ModeType' /\ EkfFailsafeUsesNoGps'
        BY <1>0, <4>1, ReactUsesNoGps DEF IInv
      <4>. QED
        BY <3>1, <4>1, <4>2 DEF set_failsafe_radio_on
    <3>2. CASE NoRadioEvent
      BY <1>0, <3>2 DEF NoRadioEvent, mode, IInv, TypeOK, ModeType, EkfFailsafeUsesNoGps, LostRadioIsFlown,
                        mode_requires_GPS, landing_with_GPS
    <3>. QED
      BY <2>2, <3>1, <3>2 DEF NoFrame, LowFrame
  <2>. QED
    BY <2>1, <2>2 DEF ReadRadio
<1>. QED
  BY <1>0, <1>1, <1>2, <1>3 DEF IInv, TypeOK, ModeType

\* A step that reacts and leaves the radio and the estimate alone.
LEMMA ReactStep ==
    ASSUME IInv, NEW w \in World, React(w), UNCHANGED <<g, radio, ekf>>,
           failsafe_battery' \in BOOLEAN, failsafe_gcs' \in BOOLEAN, rc_override_active' \in BOOLEAN
    PROVE  IInv'
<1>1. ModeType' /\ EkfFailsafeUsesNoGps'
  BY ReactUsesNoGps DEF IInv, TypeOK, ModeType, ekf
<1>2. LostRadioIsFlown'
  BY ReactIsFlown DEF IInv, radio
<1>3. EkfFailsafeCanEnd' /\ CountInv'
  BY DEF IInv, EkfFailsafeCanEnd, CountInv, ekf
<1>. QED
  BY <1>1, <1>2, <1>3 DEF IInv, TypeOK, ModeType, radio, ekf

\* A step of the pilot or the ground station.
LEMMA CommandStep ==
    ASSUME IInv, NEW w \in World, NEW m \in Modes, PilotSetsMode(m, w) \/ GcsSetsMode(m, w)
    PROVE  IInv'
<1>1. /\ CanEnter(m, w) /\ Enter(m, w) /\ commanded' \in BOOLEAN
      /\ UNCHANGED <<g, failsafe_radio, radio_counter, silent, failsafe_battery, failsafe_gcs,
                     rc_override_active, failsafe_ekf, fail_count, bad_variance>>
  BY DEF PilotSetsMode, GcsSetsMode, radio, gcs, ekf, IInv, TypeOK
<1>2. ModeType' /\ EkfFailsafeUsesNoGps'
  BY <1>1, EnterUsesNoGps DEF IInv, TypeOK, ModeType
<1>3. LostRadioIsFlown'
  BY <1>1 DEF PilotSetsMode, GcsSetsMode, SwitchOpen, LostRadioIsFlown
<1>4. EkfFailsafeCanEnd' /\ CountInv'
  BY <1>1 DEF IInv, EkfFailsafeCanEnd, CountInv
<1>. QED
  BY <1>1, <1>2, <1>3, <1>4 DEF IInv, TypeOK, ModeType

\* The counters of a failing and of a recovering estimate.
LEMMA CountUp ==
    \A n \in 0 .. ITERATIONS_MAX :
        n < ITERATIONS_MAX =>
            /\ n + 1 \in 0 .. ITERATIONS_MAX /\ n + 1 > 0
            /\ ~(n + 1 >= ITERATIONS_MAX) => n + 1 < ITERATIONS_MAX
BY FailsafesAssumption

LEMMA CountDown ==
    \A n \in 0 .. ITERATIONS_MAX :
        n > 0 =>
            /\ n - 1 \in 0 .. ITERATIONS_MAX /\ n - 1 < ITERATIONS_MAX
            /\ n # 1 => n - 1 > 0
BY FailsafesAssumption

\* What the check does to its own state.
LEMMA EkfState ==
    ASSUME IInv, NEW w \in World, EkfCheck(w)
    PROVE  /\ fail_count' \in 0 .. ITERATIONS_MAX
           /\ bad_variance' \in BOOLEAN /\ failsafe_ekf' \in BOOLEAN
           /\ CountInv' /\ EkfFailsafeCanEnd'
<1>0. /\ fail_count \in 0 .. ITERATIONS_MAX
      /\ bad_variance \in BOOLEAN /\ failsafe_ekf \in BOOLEAN
      /\ ~bad_variance => fail_count < ITERATIONS_MAX
      /\ failsafe_ekf => bad_variance
      /\ bad_variance => fail_count > 0
  BY DEF IInv, TypeOK, CountInv, EkfFailsafeCanEnd
<1>1. CASE EkfOver
  <2>1. CASE bad_variance
    <3>1. UNCHANGED <<failsafe_ekf, fail_count, bad_variance>>
      BY <1>1, <2>1 DEF EkfOver, ekf
    <3>. QED
      BY <1>0, <3>1 DEF CountInv, EkfFailsafeCanEnd
  <2>2. CASE ~bad_variance
    <3>1. /\ fail_count' = fail_count + 1
          /\ bad_variance' = (fail_count + 1 >= ITERATIONS_MAX)
          /\ (failsafe_ekf' = failsafe_ekf) \/ (failsafe_ekf' = TRUE /\ bad_variance' = TRUE)
      BY <1>1, <2>2 DEF EkfOver, failsafe_ekf_event
    <3>2. /\ fail_count' \in 0 .. ITERATIONS_MAX /\ fail_count' > 0
          /\ ~bad_variance' => fail_count' < ITERATIONS_MAX
      BY <1>0, <2>2, <3>1, CountUp
    <3>3. bad_variance' \in BOOLEAN
      BY <3>1
    <3>4. failsafe_ekf' \in BOOLEAN /\ (failsafe_ekf' => bad_variance')
      <4>1. CASE failsafe_ekf' = failsafe_ekf
        BY <1>0, <2>2, <4>1, Zenon
      <4>2. CASE failsafe_ekf' = TRUE /\ bad_variance' = TRUE
        BY <4>2
      <4>. QED
        BY <3>1, <4>1, <4>2, Zenon
    <3>. QED
      BY <3>2, <3>3, <3>4 DEF CountInv, EkfFailsafeCanEnd
  <2>. QED
    BY <2>1, <2>2
<1>2. CASE EkfGood
  <2>1. CASE fail_count > 0
    <3>1. /\ fail_count' = fail_count - 1
          /\ bad_variance' = (bad_variance /\ fail_count # 1)
          /\ failsafe_ekf' = (failsafe_ekf /\ ~(bad_variance /\ fail_count = 1))
      BY <1>2, <2>1 DEF EkfGood
    <3>2. /\ fail_count' \in 0 .. ITERATIONS_MAX /\ fail_count' < ITERATIONS_MAX
          /\ fail_count # 1 => fail_count' > 0
      BY <1>0, <2>1, <3>1, CountDown
    <3>. QED
      BY <1>0, <3>1, <3>2 DEF CountInv, EkfFailsafeCanEnd
  <2>2. CASE ~(fail_count > 0)
    <3>1. /\ fail_count' = 0 /\ ~bad_variance /\ ~failsafe_ekf
          /\ bad_variance' = FALSE /\ failsafe_ekf' = FALSE
      BY <1>0, <1>2, <2>2 DEF EkfGood
    <3>2. 0 \in 0 .. ITERATIONS_MAX /\ 0 < ITERATIONS_MAX
      BY FailsafesAssumption
    <3>. QED
      BY <3>1, <3>2 DEF CountInv, EkfFailsafeCanEnd
  <2>. QED
    BY <2>1, <2>2
<1>3. CASE EkfOff
  <2>1. fail_count' = 0 /\ bad_variance' = FALSE /\ failsafe_ekf' = FALSE
    BY <1>3 DEF EkfOff
  <2>2. 0 \in 0 .. ITERATIONS_MAX /\ 0 < ITERATIONS_MAX
    BY FailsafesAssumption
  <2>. QED
    BY <2>1, <2>2 DEF CountInv, EkfFailsafeCanEnd
<1>. QED
  BY <1>1, <1>2, <1>3 DEF EkfCheck

\* What it does to the vehicle.
LEMMA EkfMode ==
    ASSUME IInv, NEW w \in World, EkfCheck(w)
    PROVE  ModeType' /\ EkfFailsafeUsesNoGps' /\ LostRadioIsFlown'
<1>0. UNCHANGED <<g, failsafe_radio, commanded>> /\ ModeType
  BY DEF EkfCheck, radio, IInv, TypeOK, ModeType
<1>1. CASE KeepFlying /\ (failsafe_ekf' => failsafe_ekf)
  BY <1>0, <1>1 DEF KeepFlying, mode, IInv, ModeType, EkfFailsafeUsesNoGps, LostRadioIsFlown,
                    mode_requires_GPS, landing_with_GPS
<1>2. CASE ~KeepFlying \/ ~(failsafe_ekf' => failsafe_ekf)
  <2>0. failsafe_ekf_event
    <3>1. CASE EkfOver
      BY <1>2, <3>1 DEF EkfOver, ekf
    <3>2. CASE EkfGood
      BY <1>2, <3>2, Zenon DEF EkfGood
    <3>3. CASE EkfOff
      BY <1>2, <3>3, Zenon DEF EkfOff
    <3>. QED
      BY <3>1, <3>2, <3>3 DEF EkfCheck
  <2>1. /\ control_mode' = IF g.ekf = "ALTHOLD" /\ ~failsafe_radio THEN "ALT_HOLD" ELSE "LAND"
        /\ land_with_gps' = (land_with_gps /\ control_mode' # "LAND")
        /\ UNCHANGED armed
    <3>1. ~(KeepFlying /\ UNCHANGED failsafe_ekf)
      BY <1>2
    <3>. QED
      BY <2>0, <3>1, Zenon DEF failsafe_ekf_event
  <2>2. ModeType'
    <3>1. control_mode' \in Modes
      BY <2>1 DEF Modes
    <3>2. land_with_gps' \in BOOLEAN /\ armed' \in BOOLEAN
      BY <1>0, <2>1, Zenon DEF ModeType
    <3>. QED
      BY <3>1, <3>2 DEF ModeType
  <2>3. EkfFailsafeUsesNoGps'
    BY <2>1 DEF EkfFailsafeUsesNoGps, mode_requires_GPS, landing_with_GPS
  <2>4. LostRadioIsFlown'
    BY <1>0, <2>1 DEF LostRadioIsFlown
  <2>. QED
    BY <2>2, <2>3, <2>4
<1>. QED
  BY <1>1, <1>2

\* The EKF check as a whole.
LEMMA EkfStep == ASSUME IInv, NEW w \in World, EkfCheck(w) PROVE IInv'
<1>1. UNCHANGED <<g, failsafe_radio, radio_counter, silent, commanded, failsafe_battery, failsafe_gcs,
                  rc_override_active>>
  BY DEF EkfCheck, radio, gcs
<1>. QED
  BY <1>1, EkfState, EkfMode DEF IInv, TypeOK, ModeType

\* Every step preserves the inductive invariant.
LEMMA IInvStep == IInv /\ [Next]_vars => IInv'
<1> SUFFICES ASSUME IInv, [Next]_vars PROVE IInv'
  OBVIOUS
<1>1. CASE ReadRadio
  BY <1>1, RadioStep
<1>2. \E w \in World : TRUE
  <2>1. [grounded |-> TRUE, far |-> TRUE, position |-> TRUE] \in World
    BY DEF World
  <2>. QED
    BY <2>1
<1>3. ASSUME GcsBack \/ RcOverride \/ UNCHANGED vars PROVE IInv'
  <2>1. /\ KeepFlying /\ UNCHANGED <<g, radio, ekf>>
        /\ failsafe_battery' \in BOOLEAN /\ failsafe_gcs' \in BOOLEAN /\ rc_override_active' \in BOOLEAN
    BY <1>3 DEF GcsBack, RcOverride, vars, KeepFlying, gcs, IInv, TypeOK
  <2>. QED
    BY <1>2, <2>1, ReactStep DEF React
<1>4. CASE Disarm
  <2>1. init_disarm_motors /\ UNCHANGED <<g, radio, ekf, failsafe_battery, failsafe_gcs, rc_override_active>>
    BY <1>4 DEF Disarm, gcs
  <2>. QED
    BY <1>2, <2>1, ReactStep DEF React, IInv, TypeOK
<1>5. ASSUME NEW w \in World, ReadBattery(w) \/ GcsLost(w) \/ FenceCheck(w) \/ ExitMission(w) PROVE IInv'
  <2>1. React(w)
    BY <1>5 DEF React, ReadBattery, GcsLost, FenceCheck, ExitMission
  <2>2. /\ UNCHANGED <<g, radio, ekf>>
        /\ failsafe_battery' \in BOOLEAN /\ failsafe_gcs' \in BOOLEAN /\ rc_override_active' \in BOOLEAN
    BY <1>5 DEF ReadBattery, GcsLost, FenceCheck, ExitMission, gcs, IInv, TypeOK
  <2>. QED
    BY <2>1, <2>2, ReactStep
<1>6. ASSUME NEW w \in World, EkfCheck(w) PROVE IInv'
  BY <1>6, EkfStep
<1>7. ASSUME NEW w \in World, NEW m \in Modes, PilotSetsMode(m, w) \/ GcsSetsMode(m, w) PROVE IInv'
  BY <1>7, CommandStep
<1>. QED
  BY <1>1, <1>3, <1>4, <1>5, <1>6, <1>7 DEF Next

\* It holds when the motors have just been armed.
LEMMA IInvInit == Init => IInv
<1> SUFFICES ASSUME Init PROVE IInv
  OBVIOUS
<1>1. 0 \in 0 .. ITERATIONS_MAX /\ 0 \in 0 .. OVERRIDE_TIMEOUT + 1 /\ 0 < ITERATIONS_MAX
  BY FailsafesAssumption
<1>2. failsafe_radio \in BOOLEAN /\ commanded \in BOOLEAN
  BY DEF Init
<1>3. TypeOK
  BY <1>1, <1>2 DEF Init, TypeOK
<1>4. CountInv /\ EkfFailsafeUsesNoGps /\ LostRadioIsFlown /\ EkfFailsafeCanEnd
  BY <1>1 DEF Init, CountInv, EkfFailsafeUsesNoGps, LostRadioIsFlown, EkfFailsafeCanEnd
<1>. QED
  BY <1>3, <1>4 DEF IInv

\* The inductive invariant holds throughout a flight.
THEOREM Invariance == Spec => []IInv
BY IInvInit, IInvStep, PTL DEF Spec

-----------------------------------------------------------------------------
(* The properties. *)

\* Every variable keeps its type: the two counters, which the code limits by hand,
\* stay within their limits, whatever these are.
THEOREM TypeCorrect == Spec => []TypeOK
<1>1. IInv => TypeOK
  BY DEF IInv
<1>. QED
  BY <1>1, Invariance, PTL

\* For every setting of the parameters nothing steers by a position the EKF
\* failsafe has declared bad.
THEOREM EkfFailsafeUsesNoGpsHolds == Spec => []EkfFailsafeUsesNoGps
<1>1. IInv => EkfFailsafeUsesNoGps
  BY DEF IInv
<1>. QED
  BY <1>1, Invariance, PTL

\* For every setting of the parameters a vehicle without radio goes home, lands or
\* continues its mission, in whatever order the failsafes come.
THEOREM LostRadioIsFlownHolds == Spec => []LostRadioIsFlown
<1>1. IInv => LostRadioIsFlown
  BY DEF IInv
<1>. QED
  BY <1>1, Invariance, PTL

\* The flags and the counter of the EKF check are never out of step.
THEOREM EkfFailsafeCanEndHolds == Spec => []EkfFailsafeCanEnd
<1>1. IInv => EkfFailsafeCanEnd
  BY DEF IInv
<1>. QED
  BY <1>1, Invariance, PTL

=============================================================================
