---------------------------- MODULE LandingProofs ----------------------------
(***************************************************************************)
(* The safety properties of Landing for every setting of the triggers and  *)
(* with any fittings together, where the run has one at a time.            *)
(***************************************************************************)
EXTENDS Landing, TLAPS

\* No count is ahead of what it counts, and the one of the land detector starts from nothing; the
\* loss count may be ahead once it was kept over a pass that nobody counted.
CountsInv ==
    /\ land_complete => land_detector_count = 0
    /\ land_detector_count <= stood
    /\ crash_counter <= tilted.gentle
    /\ control_loss_count <= tilted.high \/ stale

\* Only a motor test has the motors armed without the checks, or the failsafes off.
TestInv == motor_test \/ (failsafes /\ (armed => checked))

IInv == TypeOK /\ CountsInv /\ TestInv

Tilted == [gentle : 0 .. CRASH_TRIGGER, high : 0 .. CHUTE_TRIGGER]

LEMMA UpBounds ==
    ASSUME NEW n \in Int, NEW most \in Int, n <= most
    PROVE  Up(n, most) \in Int /\ n <= Up(n, most) /\ Up(n, most) <= most /\ Up(n, most) <= n + 1
           /\ (n < most => Up(n, most) = n + 1)
  BY DEF Up

-----------------------------------------------------------------------------
\* Disarming and arming, whoever does it
LEMMA DisarmKeeps ==
    ASSUME IInv, init_disarm_motors
    PROVE  /\ armed' = FALSE /\ checked' = checked
           /\ land_complete' \in BOOLEAN /\ land_complete_maybe' \in BOOLEAN
           /\ land_detector_count' \in 0 .. LAND_TRIGGER
           /\ land_detector_count' <= land_detector_count
           /\ land_complete' => land_detector_count' = 0
<1>1. /\ armed \in BOOLEAN /\ land_complete \in BOOLEAN /\ land_complete_maybe \in BOOLEAN
      /\ LAND_TRIGGER \in Nat /\ land_detector_count \in 0 .. LAND_TRIGGER
      /\ land_complete => land_detector_count = 0
  BY LandingAssumption DEF IInv, TypeOK, CountsInv
<1>2. armed' = FALSE /\ checked' = checked
  BY DEF init_disarm_motors
<1>3. CASE armed
  <2>1. /\ land_complete' = TRUE /\ land_complete_maybe' = TRUE
        /\ land_detector_count' = IF land_complete THEN land_detector_count ELSE 0
    BY <1>1, <1>3 DEF init_disarm_motors, set_land_complete
  <2>. QED
    BY <1>1, <1>2, <2>1
<1>4. CASE ~armed
  BY <1>1, <1>2, <1>4 DEF init_disarm_motors, landed
<1>. QED
  BY <1>1, <1>3, <1>4

LEMMA ArmKeeps ==
    ASSUME IInv, init_arm_motors
    PROVE  armed' = TRUE /\ checked' \in BOOLEAN /\ (checked => checked') /\ (~armed => checked')
  BY DEF IInv, TypeOK, init_arm_motors

-----------------------------------------------------------------------------
(* A pass of the detectors.                                                 *)

LEMMA DetectLand ==
    ASSUME IInv, NEW w \in World, Detect(w)
    PROVE  /\ armed' \in BOOLEAN /\ land_complete' \in BOOLEAN /\ land_complete_maybe' \in BOOLEAN
           /\ armed' => armed
           /\ land_detector_count' \in 0 .. LAND_TRIGGER
           /\ stood' \in 0 .. LAND_TRIGGER + 1
           /\ land_detector_count' <= stood'
           /\ land_complete' => land_detector_count' = 0
           /\ armed /\ armed' /\ ~land_complete /\ land_complete' => stood' > LAND_TRIGGER
<1>1. /\ armed \in BOOLEAN /\ land_complete \in BOOLEAN /\ LAND_TRIGGER \in Nat
      /\ land_detector_count \in 0 .. LAND_TRIGGER /\ stood \in 0 .. LAND_TRIGGER + 1
      /\ land_complete => land_detector_count = 0
      /\ land_detector_count <= stood
  BY LandingAssumption DEF IInv, TypeOK, CountsInv
<1>2. /\ stood' = IF Criteria(w) THEN Up(stood, LAND_TRIGGER + 1) ELSE 0
      /\ armed' = (armed /\ ~(Releases(w) \/ Crashes(w)))
      /\ land_complete' = (Landed(w) \/ (Releases(w) \/ Crashes(w)))
      /\ land_detector_count' = IF Releases(w) \/ Crashes(w) THEN 0 ELSE LandCount(w)
      /\ land_complete_maybe' = (Landed(w) \/ (Releases(w) \/ Crashes(w))
                                 \/ LandCount(w) >= MAYBE_TRIGGER)
  BY DEF Detect
<1>3. stood' \in 0 .. LAND_TRIGGER + 1 /\ (Criteria(w) => stood' > stood \/ stood' = LAND_TRIGGER + 1)
  BY <1>1, <1>2 DEF Up
<1>4. /\ LandCount(w) \in 0 .. LAND_TRIGGER /\ LandCount(w) <= stood'
      /\ Landed(w) => LandCount(w) = 0
  <2>1. CASE Landed(w)
    <3>1. Landed(w) = TRUE
      BY <2>1 DEF Landed
    <3>2. LandCount(w) = 0
      BY <1>1, <3>1, Zenon DEF LandCount
    <3>. QED
      BY <1>1, <1>3, <3>2
  <2>2. CASE ~Landed(w) /\ land_complete
    BY <1>1, <1>3, <2>2 DEF LandCount
  <2>3. CASE ~Landed(w) /\ ~land_complete
    <3>1. armed /\ ~(Criteria(w) /\ land_detector_count >= LAND_TRIGGER)
      BY <1>1, <2>3 DEF Landed
    <3>2. LandCount(w) = IF Criteria(w) THEN land_detector_count + 1 ELSE 0
      BY <1>1, <2>3 DEF LandCount, Landed
    <3>3. CASE Criteria(w)
      BY <1>1, <1>3, <2>3, <3>1, <3>2, <3>3
    <3>4. CASE ~Criteria(w)
      BY <1>1, <1>3, <2>3, <3>2, <3>4
    <3>. QED
      BY <3>3, <3>4
  <2>. QED
    BY <2>1, <2>2, <2>3
<1>5. armed /\ ~land_complete /\ Landed(w) => stood' > LAND_TRIGGER
  <2>1. SUFFICES ASSUME armed, ~land_complete, Landed(w) PROVE stood' > LAND_TRIGGER
    OBVIOUS
  <2>2. Criteria(w) /\ land_detector_count >= LAND_TRIGGER
    BY <2>1 DEF Landed
  <2>. QED
    BY <1>1, <1>3, <2>2
<1>6. /\ armed' \in BOOLEAN /\ land_complete' \in BOOLEAN /\ land_complete_maybe' \in BOOLEAN
      /\ armed' => armed /\ ~(Releases(w) \/ Crashes(w))
      /\ land_complete' => Landed(w) \/ (Releases(w) \/ Crashes(w))
  BY <1>2, Zenon
<1>7. land_detector_count' \in 0 .. LAND_TRIGGER /\ land_detector_count' <= stood'
  <2>1. CASE Releases(w) \/ Crashes(w)
    BY <1>1, <1>2, <1>3, <2>1
  <2>2. CASE ~(Releases(w) \/ Crashes(w))
    BY <1>2, <1>4, <2>2
  <2>. QED
    BY <2>1, <2>2
<1>8. land_complete' => land_detector_count' = 0
  BY <1>2, <1>4, <1>6
<1>9. armed /\ armed' /\ ~land_complete /\ land_complete' => stood' > LAND_TRIGGER
  BY <1>5, <1>6
<1>. QED
  BY <1>3, <1>6, <1>7, <1>8, <1>9

LEMMA DetectCrash ==
    ASSUME IInv, NEW w \in World, Detect(w)
    PROVE  /\ crash_counter' \in 0 .. CRASH_TRIGGER
           /\ tilted' \in Tilted
           /\ crash_counter' <= tilted'.gentle
<1>1. /\ CRASH_TRIGGER \in Nat /\ CHUTE_TRIGGER \in Nat
      /\ crash_counter \in 0 .. CRASH_TRIGGER
      /\ tilted.gentle \in 0 .. CRASH_TRIGGER /\ tilted.high \in 0 .. CHUTE_TRIGGER
      /\ crash_counter <= tilted.gentle
  BY LandingAssumption DEF IInv, TypeOK, CountsInv
<1>. DEFINE flies == Watched(w) /\ w.off_angle
            g == IF flies /\ w.accel # "hard" THEN Up(tilted.gentle, CRASH_TRIGGER) ELSE 0
            h == IF flies /\ (w.high \/ tilted.high > 0) THEN Up(tilted.high, CHUTE_TRIGGER) ELSE 0
<1>2. tilted' = [gentle |-> g, high |-> h] /\ crash_counter' = CrashCount(w)
  BY DEF Detect
<1>3. g \in 0 .. CRASH_TRIGGER /\ h \in 0 .. CHUTE_TRIGGER
  BY <1>1 DEF Up
<1>4. CrashCount(w) \in 0 .. CRASH_TRIGGER /\ CrashCount(w) <= g
  BY <1>1 DEF Up, CrashCount
<1>. HIDE DEF g, h
<1>. QED
  BY <1>2, <1>3, <1>4 DEF Tilted

LEMMA DetectLoss ==
    ASSUME IInv, NEW w \in World, Detect(w)
    PROVE  /\ control_loss_count' \in 0 .. CHUTE_TRIGGER - 1
           /\ control_loss_count' <= tilted'.high \/ stale'
           /\ stale' \in BOOLEAN
           /\ release' \in NoRelease .. RELEASE_DELAY + RELEASE_DURATION
           /\ released' \in BOOLEAN /\ enabled' \in BOOLEAN
           /\ release' = 0 /\ control_loss_count' < control_loss_count =>
                  tilted'.high = CHUTE_TRIGGER \/ stale
<1>1. /\ CHUTE_TRIGGER \in Nat /\ CHUTE_TRIGGER > 1
      /\ control_loss_count \in 0 .. CHUTE_TRIGGER - 1 /\ tilted.high \in 0 .. CHUTE_TRIGGER
      /\ control_loss_count <= tilted.high \/ stale
      /\ RELEASE_DELAY \in Nat /\ RELEASE_DURATION \in Nat
      /\ release \in -1 .. RELEASE_DELAY + RELEASE_DURATION
      /\ enabled \in BOOLEAN /\ released \in BOOLEAN
  BY LandingAssumption DEF IInv, TypeOK, CountsInv, NoRelease
<1>. DEFINE flies == Watched(w) /\ w.off_angle
<1>2. /\ tilted'.high = IF flies /\ (w.high \/ tilted.high > 0)
                        THEN Up(tilted.high, CHUTE_TRIGGER) ELSE 0
      /\ stale' = (control_loss_count' > 0 /\ (stale \/ (~enabled /\ ~flies)))
      /\ control_loss_count' = IF Releases(w) THEN 0 ELSE LossCount(w)
      /\ UpdateParachute(w)
  BY DEF Detect
<1>3. /\ LossCount(w) \in 0 .. CHUTE_TRIGGER
      /\ \/ LossCount(w) <= tilted'.high
         \/ LossCount(w) > 0 /\ (stale \/ (~enabled /\ ~flies))
      /\ ~enabled => LossCount(w) < CHUTE_TRIGGER
      /\ tilted'.high \in 0 .. CHUTE_TRIGGER
  BY <1>1, <1>2 DEF LossCount, Up
<1>4. /\ release' \in -1 .. RELEASE_DELAY + RELEASE_DURATION
      /\ released' \in BOOLEAN /\ enabled' \in BOOLEAN
      /\ release' = 0 => Releases(w) \/ ~enabled
  <2>1. release # -1 => Age \in 1 .. RELEASE_DELAY + RELEASE_DURATION
    BY <1>1, LandingAssumption DEF Age
  <2>2. release = -1 => Closes
    BY DEF Closes, NoRelease
  <2>. HIDE DEF flies
  <2>3. /\ release' = IF Releases(w) THEN 0
                      ELSE IF ~enabled THEN release ELSE IF Closes THEN NoRelease ELSE Age
        /\ released' = (IF ~enabled THEN released ELSE Opens \/ (released /\ ~Closes))
        /\ enabled' = enabled
    BY <1>2 DEF UpdateParachute
  <2>4. released' \in BOOLEAN /\ enabled' \in BOOLEAN
    BY <1>1, <2>3
  <2>5. release' \in -1 .. RELEASE_DELAY + RELEASE_DURATION /\ (release' = 0 => Releases(w) \/ ~enabled)
    <3>1. CASE Releases(w)
      BY <1>1, <2>3, <3>1
    <3>2. CASE ~Releases(w) /\ ~enabled
      BY <1>1, <2>3, <3>2
    <3>3. CASE ~Releases(w) /\ enabled /\ Closes
      BY <1>1, <2>3, <3>3 DEF NoRelease
    <3>4. CASE ~Releases(w) /\ enabled /\ ~Closes
      BY <1>1, <2>1, <2>2, <2>3, <3>4
    <3>. QED
      BY <3>1, <3>2, <3>3, <3>4
  <2>. QED
    BY <2>4, <2>5
<1>5. Releases(w) => LossCount(w) >= CHUTE_TRIGGER
  BY DEF Releases
<1>6. ~Releases(w) => LossCount(w) < CHUTE_TRIGGER
  BY <1>3, <1>1 DEF Releases
<1>7. /\ control_loss_count' \in 0 .. CHUTE_TRIGGER - 1
      /\ control_loss_count' <= tilted'.high \/ stale'
  <2>. HIDE DEF flies
  <2>1. CASE Releases(w)
    BY <1>1, <1>2, <1>3, <2>1
  <2>2. CASE ~Releases(w)
    <3>1. control_loss_count' = LossCount(w) /\ LossCount(w) < CHUTE_TRIGGER
      BY <1>2, <1>6, <2>2
    <3>2. control_loss_count' > 0 /\ (stale \/ (~enabled /\ ~flies)) => stale'
      BY <1>2, Zenon
    <3>. QED
      BY <1>1, <1>3, <3>1, <3>2
  <2>. QED
    BY <2>1, <2>2
<1>8. release' = 0 => tilted'.high = CHUTE_TRIGGER \/ stale \/ ~enabled
  <2>1. SUFFICES ASSUME release' = 0, ~stale, enabled PROVE tilted'.high = CHUTE_TRIGGER
    OBVIOUS
  <2>. HIDE DEF flies
  <2>2. LossCount(w) <= tilted'.high /\ LossCount(w) >= CHUTE_TRIGGER
    BY <1>3, <1>4, <1>5, <2>1
  <2>. QED
    BY <1>1, <1>3, <2>2
<1>9. ~enabled => control_loss_count' = control_loss_count
  BY <1>2 DEF LossCount, Releases
<1>10. stale' \in BOOLEAN
  <2>. HIDE DEF flies
  <2>. QED
    BY <1>2
<1>. QED
  BY <1>1, <1>4, <1>7, <1>8, <1>9, <1>10 DEF NoRelease

\* A pass of the detectors keeps the invariant and acts on evidence.
LEMMA DetectStep ==
    ASSUME IInv, NEW w \in World, Detect(w), fitted' = fitted
    PROVE  IInv' /\ OnEvidence
<1>1. /\ UNCHANGED <<control_mode, throttle_zero, motor_emergency_stop>>
      /\ UNCHANGED <<arming_counter, auto_disarming_counter, motor_test, test_left, failsafes>>
      /\ UNCHANGED <<thrust, settled, checked>>
  BY DEF Detect, pilot, test
<1>2. TypeOK'
  BY <1>1, DetectLand, DetectCrash, DetectLoss DEF IInv, TypeOK, Tilted
<1>3. CountsInv'
  BY DetectLand, DetectCrash, DetectLoss DEF CountsInv
<1>4. TestInv'
  <2>1. armed' => armed
    BY DetectLand
  <2>. QED
    BY <1>1, <2>1 DEF IInv, TestInv
<1>5. OnEvidence
  <2>1. armed /\ armed' /\ ~land_complete /\ land_complete' => stood' > LAND_TRIGGER
    BY DetectLand
  <2>2. crash_counter' = CRASH_TRIGGER => tilted'.gentle = CRASH_TRIGGER
    BY DetectCrash, LandingAssumption DEF Tilted
  <2>. QED
    BY <2>1, <2>2, DetectLoss DEF OnEvidence
<1>. QED
  BY <1>2, <1>3, <1>4, <1>5 DEF IInv

-----------------------------------------------------------------------------
(* The other tasks and the commands leave the counts of the detectors alone.*)

\* What no step but a pass of the detectors changes, and what follows when the land flags change
\* by disarming or a take-off only
LEMMA CountsKept ==
    ASSUME IInv, UNCHANGED <<crash_counter, control_loss_count, stood, tilted, stale>>,
           land_detector_count' \in Int, land_detector_count' <= land_detector_count,
           land_complete' => land_detector_count' = 0,
           armed' => (land_complete' => land_complete)
    PROVE  CountsInv' /\ OnEvidence
<1>1. /\ land_detector_count \in Int /\ stood \in Int /\ land_detector_count <= stood
      /\ crash_counter <= tilted.gentle /\ (control_loss_count <= tilted.high \/ stale)
      /\ crash_counter \in 0 .. CRASH_TRIGGER /\ tilted.gentle \in 0 .. CRASH_TRIGGER
      /\ control_loss_count \in 0 .. CHUTE_TRIGGER - 1
      /\ CRASH_TRIGGER \in Nat /\ CHUTE_TRIGGER \in Nat
  BY LandingAssumption DEF IInv, TypeOK, CountsInv
<1>2. CountsInv'
  BY <1>1 DEF CountsInv
<1>3. OnEvidence
  <2>1. ~(armed /\ armed' /\ ~land_complete /\ land_complete')
    OBVIOUS
  <2>2. crash_counter' = CRASH_TRIGGER => tilted'.gentle = CRASH_TRIGGER
    BY <1>1
  <2>3. ~(control_loss_count' < control_loss_count)
    BY <1>1
  <2>. QED
    BY <2>1, <2>2, <2>3 DEF OnEvidence
<1>. QED
  BY <1>2, <1>3

-----------------------------------------------------------------------------
LEMMA OutputStep ==
    ASSUME IInv, NEW ok \in BOOLEAN, motors_output(ok), fitted' = fitted
    PROVE  IInv' /\ OnEvidence
<1>1. /\ UNCHANGED <<control_mode, throttle_zero, motor_emergency_stop>>
      /\ UNCHANGED <<land_complete, land_complete_maybe, land_detector_count>>
      /\ UNCHANGED <<crash_counter, control_loss_count, enabled, release, released>>
      /\ UNCHANGED <<arming_counter, auto_disarming_counter, settled, checked, stood, tilted, stale>>
  BY DEF motors_output, pilot, landed, counters, chute, history
<1>2. /\ armed' \in BOOLEAN /\ motor_test' \in BOOLEAN /\ test_left' \in 0 .. TEST_TIMEOUT
      /\ failsafes' \in BOOLEAN /\ thrust' \in {"low", "mid", "high"}
      /\ TestInv'
  <2>1. CASE ~motor_test
    <3>1. /\ thrust' \in IF armed /\ ~settled THEN {"low", "mid", "high"} ELSE {"low"}
          /\ UNCHANGED <<armed, motor_test, test_left, failsafes>>
      BY <2>1 DEF motors_output, test
    <3>2. thrust' \in {"low", "mid", "high"}
      BY <3>1
    <3>. QED
      BY <1>1, <3>1, <3>2 DEF IInv, TypeOK, TestInv
  <2>2. CASE motor_test /\ (test_left = 0 \/ ~ok)
    <3>1. /\ motor_test' = FALSE /\ armed' = FALSE /\ test_left' = 0 /\ failsafes' = TRUE
          /\ thrust' = thrust
      BY <2>2 DEF motors_output, motor_test_stop
    <3>2. armed' \in BOOLEAN /\ motor_test' \in BOOLEAN /\ failsafes' \in BOOLEAN
      BY <3>1, Zenon
    <3>3. test_left' \in 0 .. TEST_TIMEOUT
      BY <3>1, LandingAssumption
    <3>4. thrust' \in {"low", "mid", "high"}
      BY <3>1 DEF IInv, TypeOK
    <3>5. TestInv'
      BY <3>1, Zenon DEF TestInv
    <3>. QED
      BY <3>2, <3>3, <3>4, <3>5
  <2>3. CASE motor_test /\ ~(test_left = 0 \/ ~ok)
    <3>1. test_left' = test_left - 1 /\ UNCHANGED <<armed, motor_test, failsafes, thrust>>
      BY <2>3 DEF motors_output
    <3>. QED
      BY <1>1, <2>3, <3>1, LandingAssumption DEF IInv, TypeOK, TestInv
  <2>. QED
    BY <2>1, <2>2, <2>3
<1>3. TypeOK'
  BY <1>1, <1>2 DEF IInv, TypeOK
<1>4. CountsInv' /\ OnEvidence
  BY <1>1, CountsKept DEF IInv, TypeOK, CountsInv
<1>. QED
  BY <1>2, <1>3, <1>4 DEF IInv

LEMMA TestStep ==
    ASSUME IInv, mavlink_motor_test_start, fitted' = fitted
    PROVE  IInv' /\ OnEvidence
<1>1. /\ UNCHANGED <<control_mode, throttle_zero, motor_emergency_stop>>
      /\ UNCHANGED <<land_complete, land_complete_maybe, land_detector_count>>
      /\ UNCHANGED <<crash_counter, control_loss_count, enabled, release, released>>
      /\ UNCHANGED <<arming_counter, auto_disarming_counter, thrust, settled, stood, tilted, stale>>
      /\ motor_test' = TRUE /\ armed' = (motor_test => armed) /\ test_left' = TEST_TIMEOUT
      /\ failsafes' = FALSE /\ checked' = (armed /\ checked)
  BY DEF mavlink_motor_test_start, pilot, landed, counters, chute, history
<1>2. TypeOK'
  <2>1. /\ armed' \in BOOLEAN /\ motor_test' \in BOOLEAN /\ failsafes' \in BOOLEAN
        /\ checked' \in BOOLEAN
    BY <1>1, Zenon
  <2>2. test_left' \in 0 .. TEST_TIMEOUT
    BY <1>1, LandingAssumption
  <2>. QED
    BY <1>1, <2>1, <2>2 DEF IInv, TypeOK
<1>3. CountsInv' /\ OnEvidence
  BY <1>1, CountsKept DEF IInv, TypeOK, CountsInv
<1>. QED
  BY <1>1, <1>2, <1>3 DEF IInv, TestInv

\* What disarms, arms, or lands and takes off, and touches nothing but the two stick and time counts
LEMMA OthersStep ==
    ASSUME IInv, UNCHANGED Others, fitted' = fitted,
           armed' \in BOOLEAN, checked' \in BOOLEAN,
           armed' => checked' \/ (armed /\ checked' = checked),
           land_complete' \in BOOLEAN, land_complete_maybe' \in BOOLEAN,
           land_detector_count' \in 0 .. LAND_TRIGGER,
           land_detector_count' <= land_detector_count,
           land_complete' => land_detector_count' = 0,
           armed' => (land_complete' => land_complete),
           arming_counter' \in 0 .. AUTO_TRIM_DELAY + 1,
           auto_disarming_counter' \in 0 .. DISARM_DELAY - 1
    PROVE  IInv' /\ OnEvidence
<1>1. /\ UNCHANGED <<control_mode, throttle_zero, motor_emergency_stop>>
      /\ UNCHANGED <<crash_counter, control_loss_count, enabled, release, released>>
      /\ UNCHANGED <<motor_test, test_left, failsafes, thrust, settled, stood, tilted, stale>>
  BY DEF Others, pilot, counters, chute, test, history
<1>2. TypeOK'
  BY <1>1 DEF IInv, TypeOK
<1>3. CountsInv' /\ OnEvidence
  BY <1>1, CountsKept, LandingAssumption
<1>4. TestInv'
  BY <1>1 DEF IInv, TestInv
<1>. QED
  BY <1>2, <1>3, <1>4 DEF IInv

\* The invariant says of the flags and counts above what OthersStep asks for.
LEMMA Now ==
    ASSUME IInv
    PROVE  /\ armed \in BOOLEAN /\ checked \in BOOLEAN
           /\ land_complete \in BOOLEAN /\ land_complete_maybe \in BOOLEAN
           /\ land_detector_count \in 0 .. LAND_TRIGGER /\ land_detector_count <= land_detector_count
           /\ land_complete => land_detector_count = 0
           /\ arming_counter \in 0 .. AUTO_TRIM_DELAY + 1
           /\ auto_disarming_counter \in 0 .. DISARM_DELAY - 1
  BY LandingAssumption DEF IInv, TypeOK, CountsInv

LEMMA AutoDisarmStep ==
    ASSUME IInv, AutoDisarmCheck, fitted' = fitted
    PROVE  IInv' /\ OnEvidence
<1>1. UNCHANGED Others /\ arming_counter' = arming_counter
  BY DEF AutoDisarmCheck
<1>2. /\ DISARM_DELAY \in Nat \ {0} /\ AutoDisarmDelay \in Nat /\ AutoDisarmDelay <= DISARM_DELAY
      /\ AutoDisarmCount \in Nat /\ (AutoDisarmCount = 0 \/ armed)
  BY Now, LandingAssumption DEF AutoDisarmDelay, AutoDisarmCount
<1>3. CASE armed /\ AutoDisarmCount >= AutoDisarmDelay
  <2>1. auto_disarming_counter' = 0 /\ init_disarm_motors
    BY <1>3 DEF AutoDisarmCheck
  <2>2. auto_disarming_counter' \in 0 .. DISARM_DELAY - 1
    BY <1>2, <2>1
  <2>. QED
    BY <1>1, <2>1, <2>2, DisarmKeeps, Now, OthersStep
<1>4. CASE ~(armed /\ AutoDisarmCount >= AutoDisarmDelay)
  <2>1. auto_disarming_counter' = AutoDisarmCount /\ UNCHANGED <<armed, landed, checked>>
    BY <1>4 DEF AutoDisarmCheck
  <2>2. auto_disarming_counter' \in 0 .. DISARM_DELAY - 1
    BY <1>2, <1>4, <2>1
  <2>3. UNCHANGED <<land_complete, land_complete_maybe, land_detector_count>>
    BY <2>1 DEF landed
  <2>4. TestInv
    BY DEF IInv
  <2>. QED
    BY <1>1, <2>1, <2>2, <2>3, Now, OthersStep
<1>. QED
  BY <1>3, <1>4
LEMMA SticksStep ==
    ASSUME IInv, NEW ok \in BOOLEAN, arm_motors_check(ok), fitted' = fitted
    PROVE  IInv' /\ OnEvidence
<1>1. UNCHANGED Others /\ (StickRight(ok) \/ StickLeft \/ StickReleased)
  BY DEF arm_motors_check
<1>2. STICK_DELAY \in Nat \ {0} /\ AUTO_TRIM_DELAY \in Nat /\ AUTO_TRIM_DELAY > STICK_DELAY
      /\ DISARM_DELAY \in Nat \ {0}
  BY LandingAssumption
<1>3. ASSUME Unmoved, arming_counter' \in 0 .. AUTO_TRIM_DELAY + 1
      PROVE  IInv' /\ OnEvidence
  <2>1. /\ UNCHANGED <<armed, checked, land_complete, land_complete_maybe, land_detector_count>>
        /\ UNCHANGED auto_disarming_counter
    BY <1>3 DEF Unmoved, landed
  <2>. QED
    BY <1>1, <1>3, <2>1, Now, OthersStep
<1>4. CASE StickRight(ok)
  <2>. DEFINE n    == Up(arming_counter, AUTO_TRIM_DELAY + 1)
              arms == n = STICK_DELAY /\ ~armed
              may  == ok /\ mode_allows_arming
  <2>1. n \in 0 .. AUTO_TRIM_DELAY + 1
    BY <1>2, Now DEF Up
  <2>2. /\ arming_counter' = IF arms /\ ~may THEN 0 ELSE n
        /\ IF arms /\ may THEN init_arm_motors ELSE UNCHANGED <<armed, checked>>
        /\ auto_disarming_counter' \in {0, auto_disarming_counter}
        /\ UNCHANGED <<land_complete, land_complete_maybe, land_detector_count>>
    BY <1>4 DEF StickRight, landed
  <2>3. arming_counter' \in 0 .. AUTO_TRIM_DELAY + 1
    BY <1>2, <2>1, <2>2
  <2>4. auto_disarming_counter' \in 0 .. DISARM_DELAY - 1
    BY <1>2, <2>2, Now
  <2>5. CASE arms /\ may
    BY <1>1, <2>2, <2>3, <2>4, <2>5, ArmKeeps, Now, OthersStep
  <2>6. CASE ~(arms /\ may)
    BY <1>1, <2>2, <2>3, <2>4, <2>6, Now, OthersStep
  <2>. QED
    BY <2>5, <2>6
<1>5. CASE StickLeft
  <2>. DEFINE n == Up(arming_counter, STICK_DELAY + 1)
  <2>1. n \in 0 .. AUTO_TRIM_DELAY + 1
    BY <1>2, Now DEF Up
  <2>2. arming_counter' \in 0 .. AUTO_TRIM_DELAY + 1
    <3>1. CASE ~mode_has_manual_throttle /\ ~land_complete
      BY <1>2, <1>5, <3>1 DEF StickLeft
    <3>2. CASE ~(~mode_has_manual_throttle /\ ~land_complete)
      <4>1. arming_counter' = IF arming_counter > STICK_DELAY THEN arming_counter ELSE n
        BY <1>5, <3>2, Zenon DEF StickLeft
      <4>. HIDE DEF n
      <4>. QED
        BY <2>1, <4>1, Now
    <3>. QED
      BY <3>1, <3>2
  <2>3. Unmoved \/ (init_disarm_motors /\ auto_disarming_counter' = auto_disarming_counter)
    BY <1>5 DEF StickLeft
  <2>4. CASE Unmoved
    BY <1>3, <2>2, <2>4
  <2>5. CASE init_disarm_motors /\ auto_disarming_counter' = auto_disarming_counter
    BY <1>1, <2>2, <2>5, DisarmKeeps, Now, OthersStep
  <2>. QED
    BY <2>3, <2>4, <2>5
<1>6. CASE StickReleased
  BY <1>2, <1>3, <1>6 DEF StickReleased
<1>. QED
  BY <1>1, <1>4, <1>5, <1>6

\* Landing, the ground station, the failsafe and the take-off
LEMMA SmallSteps ==
    ASSUME IInv, fitted' = fitted,
           \/ \E radio_lost \in BOOLEAN : LandRun(radio_lost)
           \/ StationArms \/ StationDisarms \/ CpuFailsafe \/ TakeOff
    PROVE  IInv' /\ OnEvidence
<1>1. CASE \E radio_lost \in BOOLEAN : LandRun(radio_lost)
  <2>1. /\ init_disarm_motors /\ UNCHANGED Others
        /\ UNCHANGED <<arming_counter, auto_disarming_counter>>
    BY <1>1 DEF LandRun, Others
  <2>. QED
    BY <2>1, DisarmKeeps, Now, OthersStep
<1>2. CASE StationDisarms
  <2>1. /\ init_disarm_motors /\ UNCHANGED Others
        /\ UNCHANGED <<arming_counter, auto_disarming_counter>>
    BY <1>2 DEF StationDisarms, Others
  <2>. QED
    BY <2>1, DisarmKeeps, Now, OthersStep
<1>3. CASE StationArms
  <2>1. /\ init_arm_motors /\ UNCHANGED Others
        /\ UNCHANGED <<arming_counter, auto_disarming_counter>>
        /\ UNCHANGED <<land_complete, land_complete_maybe, land_detector_count>>
    BY <1>3 DEF StationArms, Others, landed
  <2>2. armed' => checked' \/ (armed /\ checked' = checked)
    BY <2>1, Now DEF init_arm_motors
  <2>. QED
    BY <2>1, <2>2, ArmKeeps, Now, OthersStep
<1>4. CASE CpuFailsafe
  <2>1. /\ armed' = FALSE /\ UNCHANGED Others /\ UNCHANGED <<arming_counter, auto_disarming_counter>>
        /\ UNCHANGED <<checked, land_complete, land_complete_maybe, land_detector_count>>
    BY <1>4 DEF CpuFailsafe, Others, landed
  <2>. QED
    BY <2>1, Now, OthersStep
<1>5. CASE TakeOff
  <2>1. /\ UNCHANGED Others
        /\ UNCHANGED <<armed, checked, land_complete_maybe, arming_counter, auto_disarming_counter>>
        /\ land_complete /\ land_complete' = FALSE
    BY <1>5 DEF TakeOff, set_land_complete, Others
  <2>2. land_detector_count' = 0
    BY <1>5, Now DEF TakeOff, set_land_complete
  <2>3. 0 \in 0 .. LAND_TRIGGER /\ 0 <= land_detector_count
    BY Now, LandingAssumption
  <2>. QED
    BY <2>1, <2>2, <2>3, Now, OthersStep
<1>. QED
  BY <1>1, <1>2, <1>3, <1>4, <1>5

LEMMA ChuteStep ==
    ASSUME IInv, ParachuteSwitch, fitted' = fitted
    PROVE  IInv' /\ OnEvidence
<1>1. /\ UNCHANGED <<control_mode, throttle_zero, motor_emergency_stop>>
      /\ UNCHANGED <<crash_counter, control_loss_count, arming_counter, auto_disarming_counter>>
      /\ UNCHANGED <<motor_test, test_left, failsafes, thrust, settled, stood, tilted, stale>>
  BY DEF ParachuteSwitch, pilot, counters, test, history
<1>2. /\ RELEASE_DELAY \in Nat /\ RELEASE_DURATION \in Nat /\ enabled \in BOOLEAN
      /\ release \in NoRelease .. RELEASE_DELAY + RELEASE_DURATION
      /\ released \in BOOLEAN
  BY LandingAssumption DEF IInv, TypeOK
<1>3. \/ \E b \in BOOLEAN : SetEnabled(b) /\ UNCHANGED <<armed, landed, checked>>
      \/ \E on \in BOOLEAN : parachute_release(on)
  BY <1>2 DEF ParachuteSwitch
<1>4. /\ enabled' \in BOOLEAN /\ released' \in BOOLEAN
      /\ release' \in NoRelease .. RELEASE_DELAY + RELEASE_DURATION
  <2>1. CASE \E b \in BOOLEAN : SetEnabled(b)
    BY <1>2, <2>1 DEF SetEnabled, NoRelease
  <2>2. CASE \E on \in BOOLEAN : parachute_release(on)
    <3>1. PICK on \in BOOLEAN : /\ release' = IF on THEN 0 ELSE release
                                /\ enabled' = (enabled \/ on) /\ released' = released
      BY <2>2 DEF parachute_release
    <3>2. enabled' \in BOOLEAN
      BY <3>1, Zenon
    <3>. QED
      BY <1>2, <3>1, <3>2 DEF NoRelease
  <2>. QED
    BY <1>3, <2>1, <2>2
<1>5. /\ armed' \in BOOLEAN /\ (armed' => armed) /\ checked' = checked
      /\ land_complete' \in BOOLEAN /\ land_complete_maybe' \in BOOLEAN
      /\ land_detector_count' \in 0 .. LAND_TRIGGER /\ land_detector_count' <= land_detector_count
      /\ land_complete' => land_detector_count' = 0
      /\ armed' => (land_complete' => land_complete)
  <2>1. CASE UNCHANGED <<armed, landed, checked>>
    BY <2>1, Now DEF landed
  <2>2. CASE \E on \in BOOLEAN : parachute_release(on)
    <3>1. init_disarm_motors
      BY <2>2 DEF parachute_release
    <3>. QED
      BY <3>1, DisarmKeeps
  <2>. QED
    BY <1>3, <2>1, <2>2
<1>6. TypeOK'
  BY <1>1, <1>4, <1>5 DEF IInv, TypeOK
<1>7. CountsInv' /\ OnEvidence
  BY <1>1, <1>5, CountsKept, LandingAssumption
<1>8. TestInv'
  BY <1>1, <1>5 DEF IInv, TestInv
<1>. QED
  BY <1>6, <1>7, <1>8 DEF IInv

LEMMA PilotStep ==
    ASSUME IInv, Pilot \/ Settle, fitted' = fitted
    PROVE  IInv' /\ OnEvidence
<1>1. /\ UNCHANGED <<armed, land_complete, land_complete_maybe, land_detector_count, crash_counter>>
      /\ UNCHANGED <<control_loss_count, enabled, release, released, arming_counter>>
      /\ UNCHANGED <<auto_disarming_counter, motor_test, test_left, failsafes, thrust, checked>>
      /\ UNCHANGED <<stood, tilted, stale>>
  BY DEF Pilot, Settle, landed, counters, chute, test, history
<1>2. /\ control_mode' \in Modes /\ throttle_zero' \in BOOLEAN /\ motor_emergency_stop' \in BOOLEAN
      /\ settled' \in BOOLEAN
  BY DEF IInv, TypeOK, Pilot, Settle, pilot
<1>3. TypeOK'
  BY <1>1, <1>2 DEF IInv, TypeOK
<1>4. CountsInv' /\ OnEvidence
  BY <1>1, Now, CountsKept, LandingAssumption
<1>5. TestInv'
  BY <1>1 DEF IInv, TestInv
<1>. QED
  BY <1>3, <1>4, <1>5 DEF IInv

-----------------------------------------------------------------------------
LEMMA InitHolds == Init => IInv
<1> SUFFICES ASSUME Init PROVE IInv
  OBVIOUS
<1>1. TypeOK
  <2>1. /\ armed \in BOOLEAN /\ throttle_zero \in BOOLEAN /\ motor_emergency_stop \in BOOLEAN
        /\ land_complete \in BOOLEAN /\ land_complete_maybe \in BOOLEAN
        /\ enabled \in BOOLEAN /\ released \in BOOLEAN
        /\ motor_test \in BOOLEAN /\ failsafes \in BOOLEAN
        /\ settled \in BOOLEAN /\ checked \in BOOLEAN
    BY DEF Init
  <2>2. /\ land_detector_count \in 0 .. LAND_TRIGGER
        /\ crash_counter \in 0 .. CRASH_TRIGGER /\ control_loss_count \in 0 .. CHUTE_TRIGGER - 1
        /\ arming_counter \in 0 .. AUTO_TRIM_DELAY + 1
        /\ auto_disarming_counter \in 0 .. DISARM_DELAY - 1
        /\ test_left \in 0 .. TEST_TIMEOUT /\ stood \in 0 .. LAND_TRIGGER + 1
    <3>1. /\ land_detector_count = 0 /\ crash_counter = 0 /\ control_loss_count = 0
          /\ arming_counter = 0 /\ auto_disarming_counter = 0 /\ test_left = 0 /\ stood = 0
      BY DEF Init
    <3>. QED
      BY <3>1, LandingAssumption
  <2>3. release \in NoRelease .. RELEASE_DELAY + RELEASE_DURATION
    BY LandingAssumption DEF Init, NoRelease
  <2>4. tilted \in [gentle : 0 .. CRASH_TRIGGER, high : 0 .. CHUTE_TRIGGER]
    <3>1. 0 \in 0 .. CRASH_TRIGGER /\ 0 \in 0 .. CHUTE_TRIGGER
      BY LandingAssumption
    <3>. QED
      BY <3>1 DEF Init
  <2>. QED
    BY <2>1, <2>2, <2>3, <2>4 DEF Init, TypeOK
<1>2. CountsInv /\ TestInv
  BY DEF Init, CountsInv, TestInv
<1>. QED
  BY <1>1, <1>2 DEF IInv

LEMMA Invariance == IInv /\ Next => IInv' /\ OnEvidence
<1> SUFFICES ASSUME IInv, Next PROVE IInv' /\ OnEvidence
  OBVIOUS
<1>1. fitted' = fitted
  BY DEF Next
<1>2. CASE Tasks
  BY <1>1, <1>2, DetectStep, OutputStep, SticksStep, SmallSteps, AutoDisarmStep DEF Tasks
<1>3. CASE Commands
  BY <1>1, <1>3, TestStep, SmallSteps, ChuteStep, PilotStep DEF Commands
<1>. QED
  BY <1>2, <1>3 DEF Next

LEMMA Stuttering == IInv /\ UNCHANGED vars => IInv' /\ OnEvidence
<1> SUFFICES ASSUME IInv, UNCHANGED vars PROVE IInv' /\ OnEvidence
  OBVIOUS
<1>1. /\ UNCHANGED <<fitted, armed, land_complete, land_complete_maybe, land_detector_count>>
      /\ UNCHANGED <<crash_counter, control_loss_count, enabled, release, released>>
      /\ UNCHANGED <<arming_counter, auto_disarming_counter, motor_test, test_left, failsafes>>
      /\ UNCHANGED <<thrust, checked, stood, tilted, stale, control_mode, throttle_zero>>
      /\ UNCHANGED <<motor_emergency_stop, settled>>
  BY DEF vars, pilot, landed, counters, chute, test, history
<1>2. TypeOK' /\ TestInv'
  BY <1>1 DEF IInv, TypeOK, TestInv
<1>3. CountsInv' /\ OnEvidence
  BY <1>1, Now, CountsKept, LandingAssumption
<1>. QED
  BY <1>2, <1>3 DEF IInv

\* All variables keep their types: no count exceeds its trigger.
THEOREM LandingTypesHold == Spec => []TypeOK
<1>1. IInv => TypeOK
  BY DEF IInv
<1>. QED
  BY <1>1, InitHolds, Invariance, Stuttering, PTL DEF Spec

\* Whatever is fitted together, motors run outside a motor test only with the checks passed and the
\* failsafes on (motor_test.cpp:117-137, 148-168).
THEOREM FlightsAreGuarded == Spec => []FlightIsGuarded
<1>1. IInv => FlightIsGuarded
  BY DEF IInv, TestInv, FlightIsGuarded
<1>. QED
  BY <1>1, InitHolds, Invariance, Stuttering, PTL DEF Spec

\* Whatever is fitted together and however long the delays, no detector acts on a stale count
\* (land_detector.cpp:41-93, crash_check.cpp:13-132), but the parachute on one that was kept over a
\* time in which it was disabled and control was regained.
THEOREM DetectorsActOnEvidence == Spec => ActsOnEvidence
<1>1. IInv /\ [Next]_vars => [OnEvidence]_vars
  BY Invariance
<1>. QED
  BY <1>1, InitHolds, Invariance, Stuttering, PTL DEF Spec, ActsOnEvidence

=============================================================================
