---------------------------- MODULE ArmingProofs ----------------------------
(***************************************************************************)
(* The safety properties of Arming for every value of its constants.       *)
(*                                                                         *)
(* LockupDisarms and TripsOnlyWhenStalled are not inductive: both speak of *)
(* counters of elapsed time that the code does not have.  IInv ties those  *)
(* counters to the timestamp and the loop count the code compares.         *)
(***************************************************************************)
EXTENDS Arming, TLAPS

-----------------------------------------------------------------------------
(* The inductive invariant. *)

\* The two loop counts differ by the passes since the last check, modulo
\* COUNTMOD; as MAXPASSES < COUNTMOD, they are equal only when there was none.
CountInv ==
    \/ mainLoop_count = failsafe_last_mainLoop_count + passes
    \/ mainLoop_count + COUNTMOD = failsafe_last_mainLoop_count + passes

\* A pass of the main loop starts both history counters again.
PassInv == passes # 0 => watch = 0 /\ stall = 0

\* The timestamp is never older than the last pass of the main loop.
StallInv == passes = 0 => failsafe_age <= stall \/ stall = SATURATED

\* While armed motors are guarded the timestamp is at most LOCKUP old, except
\* between the two assignments of failsafe_enable(), before the first check.
AgeInv ==
    armed /\ failsafe_enabled =>
        \/ failsafe_age <= LOCKUP
        \/ watch = 0

\* The timestamp may be refreshed one check after the event that refreshes it.
WatchInv == armed /\ failsafe_enabled => watch <= failsafe_age + 1

TimeInv == CountInv /\ PassInv /\ StallInv /\ AgeInv /\ WatchInv

IInv == TypeOK /\ TimeInv

-----------------------------------------------------------------------------
(* Type correctness. *)

\* A counter that wraps stays below its modulus.
LEMMA WrapType ==
    ASSUME NEW m \in Nat, NEW n \in 0 .. m - 1
    PROVE  Wrap(n, m) \in 0 .. m - 1
BY DEF Wrap

\* A history counter stays within its range and never falls.
LEMMA SaturateType ==
    ASSUME NEW n \in 0 .. SATURATED
    PROVE  Saturate(n) \in 0 .. SATURATED
BY ConstantsAssumption DEF Saturate, SATURATED

\* Every step of every thread keeps the variables in their types.
LEMMA TypeStep == TypeOK /\ [Next]_vars => TypeOK'
<1> SUFFICES ASSUME TypeOK, [Next]_vars PROVE TypeOK'
  OBVIOUS
<1> USE ConstantsAssumption
<1>0. using_interlock' \in BOOLEAN /\ using_estop' \in BOOLEAN
  BY DEF TypeOK, Next, vars, fitted
<1> USE <1>0
<1>1. CASE FailsafeCheck
  <2>1. stall' \in 0 .. SATURATED /\ watch' \in 0 .. SATURATED
    BY <1>1, SaturateType DEF TypeOK, FailsafeCheck
  <2>2. CASE LoopAlive
    <3>1. /\ failsafe_age' \in 0 .. CLOCKMOD - 1
          /\ failsafe_last_mainLoop_count' \in 0 .. COUNTMOD - 1
      BY <2>2 DEF LoopAlive, TypeOK
    <3>2. in_failsafe' \in BOOLEAN /\ armed' \in BOOLEAN
      BY <2>2 DEF LoopAlive, TypeOK
    <3>. QED
      BY <1>1, <2>1, <3>1, <3>2 DEF FailsafeCheck, TypeOK, pilot
  <2>3. CASE LoopStalled
    <3>1. Wrap(failsafe_age, CLOCKMOD) \in 0 .. CLOCKMOD - 1
      BY WrapType DEF TypeOK
    <3>2. failsafe_age' \in 0 .. CLOCKMOD - 1 /\ in_failsafe' \in BOOLEAN /\ armed' \in BOOLEAN
      BY <2>3, <3>1 DEF TypeOK, LoopStalled
    <3>. QED
      BY <1>1, <2>1, <2>3, <3>2 DEF TypeOK, FailsafeCheck, LoopStalled, pilot
  <2>. QED
    BY <1>1, <2>2, <2>3 DEF FailsafeCheck
<1>2. CASE BootDone
  BY <1>2 DEF TypeOK, BootDone, EnableFlag, pilot, Locations, SATURATED
<1>3. CASE EnableStamp
  BY <1>3 DEF TypeOK, EnableStamp, pilot, Locations, SATURATED
<1>4. CASE MainLoop
  <2>1. mainLoop_count' \in 0 .. COUNTMOD - 1
    BY <1>4, WrapType DEF TypeOK, MainLoop
  <2>. QED
    BY <1>4, <2>1 DEF TypeOK, MainLoop, fsvars, pilot, SATURATED
<1>5. CASE ReadAuxSwitches
  BY <1>5 DEF TypeOK, ReadAuxSwitches, fsvars, history
<1>6. ASSUME NEW mode \in Modes, SetMode(mode) PROVE TypeOK'
  BY <1>6 DEF TypeOK, SetMode, fsvars, history
<1>7. CASE Disarm
  BY <1>7 DEF TypeOK, Disarm, fsvars, pilot, history
<1>8. ASSUME NEW from_gcs \in BOOLEAN, ArmBegin(from_gcs) PROVE TypeOK'
  BY <1>8 DEF TypeOK, ArmBegin, failsafe_disable, pilot, history, Locations
<1>9. CASE ArmRefused
  BY <1>9 DEF TypeOK, ArmRefused, fsvars, pilot, history, Locations
<1>10. CASE ArmDelay
  BY <1>10 DEF TypeOK, ArmDelay, fsvars, pilot, history, Locations
<1>11. CASE ArmFinish
  BY <1>11 DEF TypeOK, ArmFinish, EnableFlag, pilot, Locations, SATURATED
<1>12. CASE MotorTestStart
  BY <1>12 DEF TypeOK, MotorTestStart, fsvars, pilot, SATURATED
<1>13. CASE MotorTestStop
  BY <1>13 DEF TypeOK, MotorTestStop, fsvars, pilot, history
<1>14. CASE UNCHANGED vars
  BY <1>14 DEF TypeOK, vars, fsvars, pilot, history
<1>. QED
  BY <1>1, <1>2, <1>3, <1>4, <1>5, <1>6, <1>7, <1>8, <1>9, <1>10, <1>11, <1>12, <1>13, <1>14
     DEF Next, Step

\* The initial state has the declared types.
LEMMA TypeInit == Init => TypeOK
<1> SUFFICES ASSUME Init PROVE TypeOK
  OBVIOUS
<1>1. /\ 0 \in 0 .. COUNTMOD - 1 /\ 0 \in 0 .. CLOCKMOD - 1
      /\ 0 \in 0 .. MAXPASSES /\ 0 \in 0 .. SATURATED
  BY ConstantsAssumption DEF SATURATED
<1>2. interlock \in BOOLEAN /\ motor_emergency_stop \in BOOLEAN
  BY ConstantsAssumption DEF Init
<1>. QED
  BY <1>1, <1>2 DEF Init, TypeOK, Locations

\* Every variable keeps its type in every behaviour: no clock, count or history
\* counter leaves its range, whatever its modulus.
THEOREM TypeCorrect == Spec => []TypeOK
BY TypeInit, TypeStep, PTL DEF Spec

-----------------------------------------------------------------------------
(* The counters of elapsed time. *)

\* A check that finds the counts equal follows a period without a single pass:
\* a full lap of the loop count is excluded.
LEMMA StalledHasNoPasses ==
    ASSUME TypeOK, CountInv, mainLoop_count = failsafe_last_mainLoop_count
    PROVE  passes = 0
BY ConstantsAssumption DEF TypeOK, CountInv

\* A check that does not disarm leaves a timestamp of at most LOCKUP, if the
\* failsafe is on.
LEMMA NoDisarmIsYoung ==
    ASSUME NEW age \in 0 .. CLOCKMOD - 1, failsafe_enabled, ~Disarms(age)
    PROVE  age <= LOCKUP
BY ConstantsAssumption DEF Disarms, Trips

\* A check that finds the loop running preserves the relation of the counters.
LEMMA TimeAlive ==
    ASSUME IInv, FailsafeCheck, LoopAlive
    PROVE  TimeInv'
<1> USE ConstantsAssumption
<1>1. /\ passes' = 0 /\ mainLoop_count' = mainLoop_count /\ failsafe_age' = 0
      /\ failsafe_last_mainLoop_count' = mainLoop_count
  BY DEF FailsafeCheck, LoopAlive
<1>2. watch' \in 0 .. 1 /\ stall' \in 0 .. SATURATED
  <2>1. passes # 0
    BY DEF IInv, TypeOK, TimeInv, CountInv, LoopAlive
  <2>2. watch = 0 /\ stall = 0
    BY <2>1 DEF IInv, TimeInv, PassInv
  <2>. QED
    BY <2>2 DEF FailsafeCheck, Saturate, SATURATED
<1>3. CountInv' /\ PassInv' /\ StallInv'
  BY <1>1, <1>2 DEF IInv, TypeOK, CountInv, PassInv, StallInv
<1>4. AgeInv' /\ WatchInv'
  BY <1>1, <1>2 DEF AgeInv, WatchInv
<1>. QED
  BY <1>3, <1>4 DEF TimeInv

\* A check that finds the loop stalled preserves it too: either it disarms, or
\* the timestamp it leaves is young.
LEMMA TimeStalled ==
    ASSUME IInv, FailsafeCheck, LoopStalled
    PROVE  TimeInv'
<1> DEFINE age == Wrap(failsafe_age, CLOCKMOD)
<1> USE ConstantsAssumption
<1>1. /\ passes' = 0 /\ mainLoop_count' = mainLoop_count
      /\ failsafe_last_mainLoop_count' = failsafe_last_mainLoop_count
      /\ failsafe_enabled' = failsafe_enabled
      /\ stall' = Saturate(stall) /\ watch' = Saturate(watch)
  BY DEF FailsafeCheck, LoopStalled
<1>2. failsafe_age' = (IF Disarms(age) THEN 0 ELSE age) /\ armed' = (armed /\ ~Disarms(age))
  BY DEF LoopStalled
<1>3. passes = 0 /\ mainLoop_count = failsafe_last_mainLoop_count
  BY StalledHasNoPasses DEF IInv, TimeInv, LoopStalled
<1>4. age \in 0 .. CLOCKMOD - 1 /\ (age = 0 \/ age = failsafe_age + 1)
  BY WrapType DEF IInv, TypeOK, Wrap
<1>5. CountInv' /\ PassInv'
  BY <1>1, <1>3 DEF IInv, TypeOK, CountInv, PassInv
<1>6. StallInv'
  <2>1. failsafe_age <= stall \/ stall = SATURATED
    BY <1>3 DEF IInv, TimeInv, StallInv
  <2>2. failsafe_age' = 0 \/ failsafe_age' = failsafe_age + 1
    BY <1>2, <1>4
  <2>3. failsafe_age' <= stall' \/ stall' = SATURATED
    BY <1>1, <2>1, <2>2 DEF IInv, TypeOK, Saturate, SATURATED
  <2>. QED
    BY <2>3 DEF StallInv
<1>7. ASSUME armed', failsafe_enabled'
      PROVE  failsafe_age' <= LOCKUP /\ watch' <= failsafe_age' + 1
  <2>1. armed /\ failsafe_enabled /\ ~Disarms(age) /\ failsafe_age' = age
    BY <1>1, <1>2, <1>7
  <2>2. age <= LOCKUP
    BY <1>4, <2>1, NoDisarmIsYoung
  <2>3. failsafe_age <= LOCKUP \/ watch = 0
    BY <2>1 DEF IInv, TimeInv, AgeInv
  <2>4. watch <= failsafe_age + 1
    BY <2>1 DEF IInv, TimeInv, WatchInv
  <2>5. age = failsafe_age + 1 \/ watch = 0
    BY <2>3 DEF IInv, TypeOK, Wrap
  <2>6. watch' <= watch + 1 /\ watch \in Nat /\ failsafe_age \in Nat
    BY <1>1 DEF IInv, TypeOK, Saturate, SATURATED
  <2>. QED
    BY <1>1, <1>4, <2>1, <2>2, <2>4, <2>5, <2>6 DEF IInv, TypeOK, Saturate, SATURATED
<1>8. AgeInv' /\ WatchInv'
  BY <1>7 DEF AgeInv, WatchInv
<1>. QED
  BY <1>5, <1>6, <1>8 DEF TimeInv

\* The steps of the main thread that restart the watch preserve it.
LEMMA TimeRestart ==
    ASSUME IInv, BootDone \/ EnableStamp \/ ArmFinish \/ (MotorTestStart /\ ~armed)
    PROVE  TimeInv'
<1> USE ConstantsAssumption
<1>1. /\ mainLoop_count' = mainLoop_count /\ passes' = passes /\ stall' = stall /\ watch' = 0
      /\ failsafe_last_mainLoop_count' = failsafe_last_mainLoop_count
      /\ failsafe_age' \in {0, failsafe_age}
  BY DEF BootDone, EnableStamp, ArmFinish, EnableFlag, MotorTestStart, fsvars
<1>2. CountInv' /\ PassInv'
  BY <1>1 DEF IInv, TimeInv, CountInv, PassInv
<1>3. StallInv'
  BY <1>1 DEF IInv, TypeOK, TimeInv, StallInv
<1>4. AgeInv' /\ WatchInv'
  <2>1. failsafe_age' \in Nat /\ watch' = 0
    BY <1>1 DEF IInv, TypeOK
  <2>2. \A n \in Nat : 0 <= n + 1
    OBVIOUS
  <2>. QED
    BY <2>1, <2>2 DEF AgeInv, WatchInv
<1>. QED
  BY <1>2, <1>3, <1>4 DEF TimeInv

\* A count that wraps at m and lags k behind another lags k + 1 behind it when
\* the other advances.
LEMMA LapAgain ==
    \A n, n2, last \in 0 .. COUNTMOD - 1, k \in 0 .. MAXPASSES :
        /\ n = last + k \/ n + COUNTMOD = last + k
        /\ n2 = n + 1 \/ n2 + COUNTMOD = n + 1
        => n2 = last + (k + 1) \/ n2 + COUNTMOD = last + (k + 1)
BY ConstantsAssumption

\* A pass of the main loop preserves it.
LEMMA TimeLoop ==
    ASSUME IInv, MainLoop
    PROVE  TimeInv'
<1> USE ConstantsAssumption
<1>1. /\ passes' = passes + 1 /\ passes' \in 1 .. MAXPASSES /\ stall' = 0 /\ watch' = 0
      /\ failsafe_last_mainLoop_count' = failsafe_last_mainLoop_count
      /\ failsafe_age' = failsafe_age
  BY DEF IInv, TypeOK, MainLoop, fsvars
<1>2. \/ mainLoop_count' = mainLoop_count + 1
      \/ mainLoop_count' + COUNTMOD = mainLoop_count + 1
  BY DEF IInv, TypeOK, MainLoop, Wrap
<1>3. mainLoop_count' \in 0 .. COUNTMOD - 1
  BY WrapType DEF IInv, TypeOK, MainLoop
<1>4. CountInv'
  <2>1. /\ mainLoop_count \in 0 .. COUNTMOD - 1 /\ mainLoop_count' \in 0 .. COUNTMOD - 1
        /\ failsafe_last_mainLoop_count \in 0 .. COUNTMOD - 1 /\ passes \in 0 .. MAXPASSES
    BY <1>3 DEF IInv, TypeOK
  <2>2. \/ mainLoop_count = failsafe_last_mainLoop_count + passes
        \/ mainLoop_count + COUNTMOD = failsafe_last_mainLoop_count + passes
    BY DEF IInv, TimeInv, CountInv
  <2>3. \/ mainLoop_count' = failsafe_last_mainLoop_count + (passes + 1)
        \/ mainLoop_count' + COUNTMOD = failsafe_last_mainLoop_count + (passes + 1)
    BY <1>2, <2>1, <2>2, LapAgain
  <2>. QED
    BY <1>1, <2>3 DEF CountInv
<1>5. PassInv' /\ StallInv' /\ AgeInv' /\ WatchInv'
  BY <1>1 DEF IInv, TypeOK, PassInv, StallInv, AgeInv, WatchInv
<1>. QED
  BY <1>4, <1>5 DEF TimeInv

\* The other steps leave the counters alone and do not start to guard armed motors.
LEMMA TimeQuiet ==
    ASSUME IInv, UNCHANGED <<failsafe_last_mainLoop_count, failsafe_age, mainLoop_count, passes, stall, watch>>,
           armed' /\ failsafe_enabled' => armed /\ failsafe_enabled
    PROVE  TimeInv'
BY DEF IInv, TimeInv, CountInv, PassInv, StallInv, AgeInv, WatchInv

\* Every step preserves the inductive invariant.
LEMMA IInvStep == IInv /\ [Next]_vars => IInv'
<1> SUFFICES ASSUME IInv, [Next]_vars PROVE IInv'
  OBVIOUS
<1>0. TypeOK'
  BY TypeStep DEF IInv
<1>1. CASE FailsafeCheck
  BY <1>0, <1>1, TimeAlive, TimeStalled DEF IInv, FailsafeCheck
<1>2. CASE BootDone \/ EnableStamp \/ ArmFinish
  BY <1>0, <1>2, TimeRestart DEF IInv
<1>3. CASE MainLoop
  BY <1>0, <1>3, TimeLoop DEF IInv
<1>4. CASE ReadAuxSwitches
  BY <1>0, <1>4, TimeQuiet DEF IInv, ReadAuxSwitches, fsvars, history
<1>5. ASSUME NEW mode \in Modes, SetMode(mode) PROVE IInv'
  BY <1>0, <1>5, TimeQuiet DEF IInv, SetMode, fsvars, history
<1>6. CASE Disarm
  BY <1>0, <1>6, TimeQuiet DEF IInv, Disarm, fsvars, history
<1>7. ASSUME NEW from_gcs \in BOOLEAN, ArmBegin(from_gcs) PROVE IInv'
  BY <1>0, <1>7, TimeQuiet DEF IInv, ArmBegin, failsafe_disable, history
<1>8. CASE ArmRefused
  BY <1>0, <1>8, TimeQuiet DEF IInv, ArmRefused, fsvars, history
<1>9. CASE ArmDelay
  BY <1>0, <1>9, TimeQuiet DEF IInv, ArmDelay, fsvars, history
<1>10. CASE MotorTestStart
  <2>1. CASE ~armed
    BY <1>0, <1>10, <2>1, TimeRestart DEF IInv
  <2>2. CASE armed
    BY <1>0, <1>10, <2>2, TimeQuiet DEF IInv, MotorTestStart, fsvars
  <2>. QED
    BY <2>1, <2>2
<1>11. CASE MotorTestStop
  BY <1>0, <1>11, TimeQuiet DEF IInv, MotorTestStop, fsvars, history
<1>12. CASE UNCHANGED vars
  BY <1>0, <1>12, TimeQuiet DEF IInv, vars, fsvars, history
<1>. QED
  BY <1>1, <1>2, <1>3, <1>4, <1>5, <1>6, <1>7, <1>8, <1>9, <1>10, <1>11, <1>12 DEF Next, Step

\* The inductive invariant holds initially.
LEMMA IInvInit == Init => IInv
<1> SUFFICES ASSUME Init PROVE IInv
  OBVIOUS
<1>1. TypeOK
  BY TypeInit
<1>2. TimeInv
  BY ConstantsAssumption DEF Init, TimeInv, CountInv, PassInv, StallInv, AgeInv, WatchInv, SATURATED
<1>. QED
  BY <1>1, <1>2 DEF IInv

\* The counters of elapsed time stay tied to the code's timestamp and count.
THEOREM Invariance == Spec => []IInv
BY IInvInit, IInvStep, PTL DEF Spec

-----------------------------------------------------------------------------
(* The properties. *)

\* For every lockup and retry time, clock width and count width, and with any
\* aux switches: no armed motor outlives LOCKUP + 1 checks without a main loop
\* pass while the failsafe is on.
THEOREM LockupDisarmsHolds == Spec => []LockupDisarms
<1>1. IInv => LockupDisarms
  BY ConstantsAssumption DEF IInv, TypeOK, TimeInv, AgeInv, WatchInv, LockupDisarms
<1>. QED
  BY <1>1, Invariance, PTL

\* A trip is preceded by more than LOCKUP checks without a main loop pass.
THEOREM TripsOnlyWhenStalledHolds == Spec => TripsOnlyWhenStalled
<1>1. IInv /\ [Next]_vars => [~in_failsafe /\ in_failsafe' => stall' > LOCKUP]_vars
  <2> SUFFICES ASSUME IInv, Next, ~in_failsafe, in_failsafe'
              PROVE  stall' > LOCKUP
    OBVIOUS
  <2> USE ConstantsAssumption
  <2>1. FailsafeCheck /\ LoopStalled
    BY DEF Next, Step, FailsafeCheck, LoopAlive, BootDone, EnableStamp, MainLoop, ReadAuxSwitches, SetMode,
           Disarm, MotorTestStart, MotorTestStop, ArmBegin, ArmRefused, ArmDelay, ArmFinish, fsvars
  <2>2. Trips(Wrap(failsafe_age, CLOCKMOD))
    BY <2>1 DEF LoopStalled
  <2>3. failsafe_age >= LOCKUP
    BY <2>2 DEF Trips, Wrap, IInv, TypeOK
  <2>4. failsafe_age <= stall \/ stall = SATURATED
    BY <2>1, StalledHasNoPasses DEF IInv, TimeInv, StallInv, LoopStalled
  <2>. QED
    BY <2>1, <2>3, <2>4 DEF FailsafeCheck, Saturate, SATURATED, IInv, TypeOK
<1>. QED
  BY <1>1, Invariance, PTL DEF Spec, TripsOnlyWhenStalled

\* Without an interlock or emergency stop switch, init_arm_motors() has no way
\* out between failsafe_disable() and failsafe_enable(): outside it the CPU
\* failsafe is always on.  (With such a switch a run shows the way out.)
THEOREM SwitchlessIsGuardedHolds == Spec => []SwitchlessIsGuarded
<1> DEFINE GuardInv == ~using_interlock /\ ~using_estop /\ pc \in {"loop", "stamp"} => failsafe_enabled
<1>1. Init => GuardInv
  BY DEF Init
<1>2. GuardInv /\ [Next]_vars => GuardInv'
  <2> SUFFICES ASSUME GuardInv, [Next]_vars, ~using_interlock', ~using_estop', pc' \in {"loop", "stamp"}
              PROVE  failsafe_enabled'
    OBVIOUS
  <2>0. ~using_interlock /\ ~using_estop
    BY DEF Next, fitted, vars
  <2>1. CASE FailsafeCheck
    BY <2>0, <2>1 DEF FailsafeCheck
  <2>2. CASE BootDone \/ ArmFinish
    BY <2>2 DEF BootDone, ArmFinish, EnableFlag
  <2>3. CASE EnableStamp
    BY <2>0, <2>3 DEF EnableStamp
  <2>4. CASE MainLoop \/ ReadAuxSwitches \/ Disarm \/ MotorTestStart \/ MotorTestStop \/ ArmDelay
    BY <2>0, <2>4 DEF MainLoop, ReadAuxSwitches, Disarm, MotorTestStart, MotorTestStop, ArmDelay, fsvars
  <2>5. ASSUME NEW mode \in Modes, SetMode(mode) PROVE failsafe_enabled'
    BY <2>0, <2>5 DEF SetMode, fsvars
  <2>6. ASSUME NEW from_gcs \in BOOLEAN, ArmBegin(from_gcs) PROVE failsafe_enabled'
    BY <2>6 DEF ArmBegin
  <2>7. ~ArmRefused
    BY <2>0 DEF ArmRefused, InterlockOn, EstopOn
  <2>8. CASE UNCHANGED vars
    BY <2>0, <2>8 DEF vars, fsvars
  <2>. QED
    BY <2>1, <2>2, <2>3, <2>4, <2>5, <2>6, <2>7, <2>8 DEF Next, Step
<1>3. GuardInv => SwitchlessIsGuarded
  BY DEF SwitchlessIsGuarded, ArmedIsGuarded
<1>. QED
  BY <1>1, <1>2, <1>3, PTL DEF Spec

\* Armed motors are hidden from the estimators only by a motor test, for as
\* long as it lasts, or by a disarm in the middle of arming an armed vehicle,
\* which the sticks never do.  SticksInv is why: vehicles that the sticks arm
\* are armed during the delay by a motor test only, so that only then can the
\* disarm of the delay callback take soft_armed away again.
THEOREM EstimatorSeesSticksHolds == Spec => []EstimatorSeesSticks
<1> DEFINE SticksInv ==
             /\ armed /\ ~soft_armed => arming_from_gcs \/ motor_test
             /\ pc \in {"checked", "delay"} /\ ~arming_from_gcs => ~armed \/ motor_test
             /\ pc = "delay" /\ ~arming_from_gcs => soft_armed \/ motor_test
<1>1. Init => SticksInv
  BY DEF Init
<1>2. TypeOK /\ SticksInv /\ [Next]_vars => SticksInv'
  <2> SUFFICES ASSUME TypeOK, SticksInv, [Next]_vars PROVE SticksInv'
    OBVIOUS
  <2> USE DEF TypeOK
  <2>1. CASE FailsafeCheck
    BY <2>1 DEF FailsafeCheck, LoopAlive, LoopStalled
  <2>2. CASE BootDone \/ EnableStamp
    BY <2>2 DEF BootDone, EnableStamp, EnableFlag
  <2>3. CASE MainLoop \/ ReadAuxSwitches \/ Disarm
    BY <2>3 DEF MainLoop, ReadAuxSwitches, Disarm
  <2>4. ASSUME NEW mode \in Modes, SetMode(mode) PROVE SticksInv'
    BY <2>4 DEF SetMode
  <2>5. ASSUME NEW from_gcs \in BOOLEAN, ArmBegin(from_gcs) PROVE SticksInv'
    BY <2>5 DEF ArmBegin
  <2>6. CASE ArmRefused \/ ArmDelay
    BY <2>6 DEF ArmRefused, ArmDelay
  <2>7. CASE ArmFinish
    BY <2>7 DEF ArmFinish, EnableFlag
  <2>8. CASE MotorTestStart \/ MotorTestStop
    BY <2>8 DEF MotorTestStart, MotorTestStop
  <2>9. CASE UNCHANGED vars
    BY <2>9 DEF vars
  <2>. QED
    BY <2>1, <2>2, <2>3, <2>4, <2>5, <2>6, <2>7, <2>8, <2>9 DEF Next, Step
<1>3. SticksInv => EstimatorSeesSticks
  BY DEF EstimatorSeesSticks
<1>. QED
  BY <1>1, <1>2, <1>3, TypeCorrect, PTL DEF Spec

=============================================================================
