--------------------------- MODULE AutoTuneProofs ---------------------------
(***************************************************************************)
(* The safety properties of AutoTune for every set of enabled axes, every  *)
(* limit and gain to begin with, and any number of tunes on one another.   *)
(***************************************************************************)
EXTENDS AutoTune, TLAPS

\* The originals are those in storage, and the axes that are not tuned never depart from it.
OriginalsInv ==
    /\ orig = saved
    /\ \A a \in Axes \ Enabled : gains[a] = saved[a]
    /\ mode = "TUNING" => axis \in Enabled

\* A tune that came to its end is remembered until it is saved.
EndInv == mode = "SUCCESS" => finished = OnEnabled(saved, Finals)

IInv == TypeOK /\ OriginalsInv /\ EndInv /\ NoTestedGainsInHand

-----------------------------------------------------------------------------
(* Sets of gains.                                                           *)

LEMMA OnEnabledIs ==
    ASSUME NEW old \in [Axes -> GainSet], NEW new \in [Axes -> GainSet]
    PROVE  /\ OnEnabled(old, new) \in [Axes -> GainSet]
           /\ \A a \in Axes : OnEnabled(old, new)[a] = IF a \in Enabled THEN new[a] ELSE old[a]
  BY DEF OnEnabled

LEMMA WithIType ==
    ASSUME NEW t \in Tunes, NEW ratio \in Ratios
    PROVE  WithI(t, ratio) \in GainSet
  BY DEF WithI, Tunes, GainSet

LEMMA FinalsType ==
    ASSUME tune \in [Axes -> Tunes]
    PROVE  Finals \in [Axes -> GainSet]
<1>1. \A a \in Axes : WithI(tune[a], "final") \in GainSet
  BY WithIType DEF Ratios
<1>. QED
  BY <1>1 DEF Finals

\* What may be on the card is made of the gains saved and of those on the card before.
LEMMA OnCardIs ==
    ASSUME saved \in [Axes -> GainSet], card \in [Axes -> GainSet], NEW c \in OnCard
    PROVE  /\ c \in [Axes -> GainSet]
           /\ \A a \in Axes : \A n \in GainNames : c[a][n] \in {saved[a][n], card[a][n]}
           /\ card = saved => c = saved
<1>1. PICK done \in SUBSET Unwritten : c = Written(done)
  BY DEF OnCard
<1>. DEFINE gain(a, n) == IF <<a, n>> \in done THEN saved[a][n] ELSE card[a][n]
            all(a) == [p |-> gain(a, "p"), i |-> gain(a, "i"), d |-> gain(a, "d"), sp |-> gain(a, "sp")]
<1>2. c = [a \in Axes |-> all(a)]
  BY <1>1, Zenon DEF Written
<1>3. ASSUME NEW a \in Axes
      PROVE  /\ c[a] \in GainSet
             /\ \A n \in GainNames : c[a][n] \in {saved[a][n], card[a][n]}
             /\ card = saved => c[a] = saved[a]
  <2>1. saved[a] \in GainSet /\ card[a] \in GainSet
    OBVIOUS
  <2>2. c[a] = all(a)
    BY <1>2
  <2>3. /\ gain(a, "p") \in {saved[a].p, card[a].p} /\ gain(a, "i") \in {saved[a].i, card[a].i}
        /\ gain(a, "d") \in {saved[a].d, card[a].d} /\ gain(a, "sp") \in {saved[a].sp, card[a].sp}
    OBVIOUS
  <2>. HIDE DEF gain
  <2>4. c[a] \in GainSet
    BY <2>1, <2>2, <2>3 DEF GainSet
  <2>5. \A n \in GainNames : c[a][n] \in {saved[a][n], card[a][n]}
    BY <2>2, <2>3 DEF GainNames
  <2>6. card = saved => c[a] = saved[a]
    BY <2>1, <2>2, <2>3 DEF GainSet
  <2>. QED
    BY <2>4, <2>5, <2>6
<1>4. c \in [Axes -> GainSet]
  BY <1>2, <1>3
<1>5. card = saved => c = saved
  BY <1>3, <1>4
<1>. QED
  BY <1>3, <1>4, <1>5

\* The originals with the I of between twitches
LowI == [a \in Axes |-> [orig[a] EXCEPT !.i = "tenth"]]

LEMMA LowIType ==
    ASSUME orig \in [Axes -> GainSet]
    PROVE  LowI \in [Axes -> GainSet]
<1>1. \A a \in Axes : [orig[a] EXCEPT !.i = "tenth"] \in GainSet
  BY DEF GainSet, Ratios
<1>. QED
  BY <1>1 DEF LowI

LEMMA TuneOfType ==
    ASSUME NEW g \in [Axes -> GainSet]
    PROVE  [a \in Axes |-> TuneOf(g[a])] \in [Axes -> Tunes]
<1>1. \A a \in Axes : TuneOf(g[a]) \in Tunes
  BY DEF TuneOf, GainSet, Tunes
<1>. QED
  BY <1>1

LEMMA FirstIsIn ==
    ASSUME NEW S \in SUBSET Axes, S # {}
    PROVE  First(S) \in S
<1>1. \E a \in S : \A b \in S : a <= b
  <2>1. CASE 0 \in S
    BY <2>1 DEF Axes
  <2>2. CASE 0 \notin S /\ 1 \in S
    BY <2>2 DEF Axes
  <2>3. CASE 0 \notin S /\ 1 \notin S
    <3>1. PICK a \in S : TRUE
      OBVIOUS
    <3>2. a = 2 /\ \A b \in S : b = 2
      BY <2>3 DEF Axes
    <3>. QED
      BY <3>2
  <2>. QED
    BY <2>1, <2>2, <2>3
<1>. QED
  BY <1>1 DEF First

-----------------------------------------------------------------------------
(* What a judgement may return.                                             *)

Verdicts == [tune : Tunes, counter : 0 .. SUCCESS_COUNT, ignore : BOOLEAN]

LEMMA VerdictType ==
    ASSUME NEW t \in Tunes, NEW n \in 0 .. SUCCESS_COUNT, NEW b \in BOOLEAN
    PROVE  Verdict(t, n, b) \in Verdicts
  BY DEF Verdict, Verdicts

LEMMA Counts ==
    ASSUME TypeOK
    PROVE  /\ counter \in 0 .. SUCCESS_COUNT /\ counter + 1 \in 0 .. SUCCESS_COUNT
           /\ Fewer \in 0 .. SUCCESS_COUNT
           /\ ignore_next \in BOOLEAN
  BY AutoTuneAssumption DEF TypeOK, Fewer, Down

LEMMA AtLimitType ==
    ASSUME NEW b, NEW n \in 0 .. SUCCESS_COUNT
    PROVE  AtLimit(b, n) \in 0 .. SUCCESS_COUNT
<1>1. SUCCESS_COUNT \in 0 .. SUCCESS_COUNT
  BY AutoTuneAssumption
<1>. QED
  BY <1>1, Zenon DEF AtLimit

LEMMA Gains ==
    ASSUME NEW t \in Tunes
    PROVE  /\ LessP(t) \in Tunes /\ MoreP(t) \in Tunes
           /\ [t EXCEPT !.d = AtMost(t.d + 2, RD_MAX)] \in Tunes
           /\ [t EXCEPT !.d = AtLeast(Down(t.d))] \in Tunes
           /\ [t EXCEPT !.d = AtLeast(Down(t.d)), !.p = AtLeast(Down(t.p))] \in Tunes
           /\ [t EXCEPT !.d = AtLeast(t.d), !.p = AtLeast(t.p)] \in Tunes
           /\ [t EXCEPT !.p = AtLeast(t.p)] \in Tunes
           /\ [t EXCEPT !.sp = AtLeast(Down(t.sp))] \in Tunes
           /\ [t EXCEPT !.sp = AtMost(t.sp + 1, SP_MAX)] \in Tunes
           /\ [t EXCEPT !.sp = AtLeast(Down(Down(t.sp)))] \in Tunes
<1>1. /\ RP_MAX \in Nat \ {0} /\ RD_MAX \in Nat \ {0} /\ SP_MAX \in Nat \ {0}
      /\ t.p \in 0 .. RP_MAX + 1 /\ t.d \in 0 .. RD_MAX + 1 /\ t.sp \in 0 .. SP_MAX + 1
  BY AutoTuneAssumption DEF Tunes
<1>2. \A n \in Nat : Down(n) \in 0 .. n
  BY DEF Down
<1>3. \A most \in Nat \ {0} : \A n \in 0 .. most + 1 : AtLeast(n) \in 0 .. most + 1
  BY DEF AtLeast, MIN
<1>5. /\ Down(t.p) \in 0 .. RP_MAX + 1 /\ Down(t.d) \in 0 .. RD_MAX + 1 /\ Down(t.sp) \in 0 .. SP_MAX + 1
      /\ Down(Down(t.sp)) \in 0 .. SP_MAX + 1
  BY <1>1, <1>2
<1>6. LessP(t) \in Tunes
  <2>1. MIN \in 0 .. RP_MAX + 1 /\ AtLeast(Down(t.d)) \in 0 .. RD_MAX + 1
    BY <1>1, <1>3, <1>5 DEF MIN
  <2>. QED
    BY <1>5, <2>1 DEF LessP, Tunes
<1>7. MoreP(t) \in Tunes
  <2>1. AtMost(t.p + 1, RP_MAX) \in 0 .. RP_MAX + 1
    BY <1>1 DEF AtMost
  <2>. QED
    BY <2>1 DEF MoreP, Tunes
<1>8. /\ AtMost(t.d + 2, RD_MAX) \in 0 .. RD_MAX + 1 /\ AtMost(t.sp + 1, SP_MAX) \in 0 .. SP_MAX + 1
  BY <1>1 DEF AtMost
<1>9. /\ AtLeast(Down(t.d)) \in 0 .. RD_MAX + 1 /\ AtLeast(Down(t.p)) \in 0 .. RP_MAX + 1
      /\ AtLeast(t.d) \in 0 .. RD_MAX + 1 /\ AtLeast(t.p) \in 0 .. RP_MAX + 1
      /\ AtLeast(Down(t.sp)) \in 0 .. SP_MAX + 1 /\ AtLeast(Down(Down(t.sp))) \in 0 .. SP_MAX + 1
  BY <1>1, <1>3, <1>5
<1>. QED
  BY <1>6, <1>7, <1>8, <1>9 DEF Tunes

LEMMA RateVerdicts ==
    ASSUME TypeOK, NEW t \in Tunes, NEW r \in Results
    PROVE  autotune_updating_d_up(t, r) \in Verdicts /\ autotune_updating_d_down(t, r) \in Verdicts
<1>. USE Counts, Gains, VerdictType, AtLimitType
<1>1. TRUE \in BOOLEAN /\ FALSE \in BOOLEAN
  OBVIOUS
<1>2. autotune_updating_d_up(t, r) \in Verdicts
  <2>1. CASE r.reach \in {"over", "far"}
    <3>1. Verdict(LessP(t), AtLimit(NoLessP(t), counter), ignore_next) \in Verdicts
      BY <1>1
    <3>. QED
      BY <2>1, <3>1 DEF autotune_updating_d_up
  <2>2. CASE r.reach \notin {"over", "far"} /\ r.reach = "low" /\ t.p <= RP_MAX
    BY <2>2 DEF autotune_updating_d_up
  <2>3. CASE r.reach \notin {"over", "far"} /\ ~(r.reach = "low" /\ t.p <= RP_MAX)
    <3>1. /\ Verdict(t, counter + 1, TRUE) \in Verdicts /\ Verdict(t, counter, FALSE) \in Verdicts
          /\ Verdict([t EXCEPT !.d = AtMost(t.d + 2, RD_MAX)], AtLimit(t.d + 2 >= RD_MAX, Fewer), FALSE)
                 \in Verdicts
      BY <1>1
    <3>. QED
      BY <2>3, <3>1 DEF autotune_updating_d_up
  <2>. QED
    BY <2>1, <2>2, <2>3
<1>3. autotune_updating_d_down(t, r) \in Verdicts
  <2>1. CASE r.reach \in {"over", "far"}
    <3>1. Verdict(LessP(t), AtLimit(NoLessP(t), counter), ignore_next) \in Verdicts
      BY <1>1
    <3>. QED
      BY <2>1, <3>1 DEF autotune_updating_d_down
  <2>2. CASE r.reach \notin {"over", "far"} /\ r.reach = "low" /\ t.p <= RP_MAX
    BY <2>2 DEF autotune_updating_d_down
  <2>3. CASE r.reach \notin {"over", "far"} /\ ~(r.reach = "low" /\ t.p <= RP_MAX)
    <3>1. /\ Verdict([t EXCEPT !.d = AtLeast(Down(t.d))], AtLimit(Down(t.d) <= MIN, Fewer), TRUE)
                 \in Verdicts
          /\ Verdict(t, IF ignore_next THEN counter ELSE counter + 1, FALSE) \in Verdicts
      BY <1>1
    <3>. QED
      BY <2>3, <3>1 DEF autotune_updating_d_down
  <2>. QED
    BY <2>1, <2>2, <2>3
<1>. QED
  BY <1>2, <1>3

LEMMA PVerdicts ==
    ASSUME TypeOK, NEW t \in Tunes, NEW r \in Results
    PROVE  /\ autotune_updating_p_up_d_down(t, r) \in Verdicts
           /\ autotune_updating_p_down(t, r) \in Verdicts /\ autotune_updating_p_up(t, r) \in Verdicts
<1>. USE Counts, Gains, VerdictType, AtLimitType
<1>1. TRUE \in BOOLEAN /\ FALSE \in BOOLEAN
  OBVIOUS
<1>2. Verdict(t, counter + 1, TRUE) \in Verdicts /\ Verdict(t, counter, FALSE) \in Verdicts
  BY <1>1
<1>3. autotune_updating_p_up_d_down(t, r) \in Verdicts
  <2>1. /\ Verdict([t EXCEPT !.d = AtLeast(Down(t.d)), !.p = AtLeast(Down(t.p))], Fewer, ignore_next)
               \in Verdicts
        /\ Verdict(MoreP(t), AtLimit(t.p + 1 >= RP_MAX, Fewer), FALSE) \in Verdicts
    BY <1>1
  <2>. QED
    BY <1>2, <2>1 DEF autotune_updating_p_up_d_down
<1>4. autotune_updating_p_down(t, r) \in Verdicts
  <2>1. /\ Verdict(t, IF ignore_next THEN counter ELSE counter + 1, FALSE) \in Verdicts
        /\ Verdict([t EXCEPT !.sp = AtLeast(Down(t.sp))], AtLimit(Down(t.sp) <= MIN, Fewer), TRUE)
               \in Verdicts
    BY <1>1
  <2>. QED
    BY <2>1 DEF autotune_updating_p_down
<1>5. autotune_updating_p_up(t, r) \in Verdicts
  <2>1. Verdict([t EXCEPT !.sp = AtMost(t.sp + 1, SP_MAX)], AtLimit(t.sp + 1 >= SP_MAX, Fewer), FALSE)
            \in Verdicts
    BY <1>1
  <2>. QED
    BY <1>2, <2>1 DEF autotune_updating_p_up
<1>. QED
  BY <1>3, <1>4, <1>5

LEMMA JudgeType ==
    ASSUME TypeOK, NEW t \in Tunes, NEW r \in Results
    PROVE  Judge(t, r) \in Verdicts /\ Settled(t) \in Tunes
<1>1. tune_type \in {"RD_UP", "RD_DOWN", "RP_UP", "SP_DOWN", "SP_UP"}
  BY DEF TypeOK
<1>2. Judge(t, r) \in Verdicts
  BY <1>1, RateVerdicts, PVerdicts DEF Judge
<1>3. Settled(t) \in Tunes
  BY <1>1, Gains DEF Settled
<1>. QED
  BY <1>2, <1>3

LEMMA MeasuredType ==
    ASSUME TypeOK
    PROVE  Measured \subseteq Results
<1>1. /\ tune[axis] \in Tunes
      /\ plant \in Plant
  BY AutoTuneAssumption DEF TypeOK, Unsteady, Plant
<1>2. Answer(plant, tune[axis]) \in Results
  <2>1. tune[axis].d \in Nat /\ plant.bounce \in Nat
    BY <1>1, AutoTuneAssumption DEF Tunes, Plant
  <2>2. (tune[axis].d >= plant.bounce) \in BOOLEAN
    BY <2>1
  <2>. QED
    BY <2>2 DEF Answer, Results, Reaches
<1>. QED
  BY <1>2 DEF Measured

-----------------------------------------------------------------------------
LEMMA InitIInv == Init => IInv
<1>. SUFFICES ASSUME Init PROVE IInv
  OBVIOUS
<1>1. saved \in [Axes -> GainSet]
  BY AutoTuneAssumption DEF Init
<1>2. tune \in [Axes -> Tunes]
  BY <1>1, TuneOfType DEF Init
<1>3. TypeOK
  <2>1. 0 \in Axes /\ 0 \in 0 .. SUCCESS_COUNT - 1
    BY AutoTuneAssumption DEF Axes
  <2>2. /\ card = saved /\ gains = saved /\ orig = saved /\ finished = saved /\ axis = 0 /\ counter = 0
        /\ control_mode \in {"HOLD", "OTHER"} /\ armed = FALSE /\ land_complete = TRUE
        /\ mode = "UNINITIALISED" /\ pilot_override = FALSE /\ step = "WAITING_FOR_LEVEL"
        /\ tune_type = "RD_UP" /\ ignore_next = FALSE /\ limited = TRUE /\ plant = Unsteady
    BY DEF Init
  <2>. QED
    BY <1>1, <1>2, <2>1, <2>2 DEF TypeOK
<1>4. OriginalsInv /\ EndInv /\ NoTestedGainsInHand
  BY DEF Init, OriginalsInv, EndInv, NoTestedGainsInHand
<1>. QED
  BY <1>3, <1>4 DEF IInv

-----------------------------------------------------------------------------
(* Loading a set of gains leaves the axes alone that are not tuned.         *)

LEMMA LoadOriginals ==
    ASSUME IInv, autotune_load_orig_gains
    PROVE  gains' = saved
<1>1. gains \in [Axes -> GainSet] /\ orig \in [Axes -> GainSet] /\ saved \in [Axes -> GainSet]
  BY DEF IInv, TypeOK
<1>2. gains' \in [Axes -> GainSet] /\ \A a \in Axes : gains'[a] = IF a \in Enabled THEN orig[a] ELSE gains[a]
  BY <1>1, OnEnabledIs DEF autotune_load_orig_gains
<1>3. \A a \in Axes : gains'[a] = saved[a]
  BY <1>2 DEF IInv, OriginalsInv
<1>. QED
  BY <1>1, <1>2, <1>3

LEMMA LoadBetween ==
    ASSUME IInv, autotune_load_intra_test_gains
    PROVE  /\ gains' \in [Axes -> GainSet]
           /\ \A a \in Axes : gains'[a] = IF a \in Enabled THEN [saved[a] EXCEPT !.i = "tenth"] ELSE gains[a]
<1>1. gains \in [Axes -> GainSet] /\ orig \in [Axes -> GainSet] /\ orig = saved
  BY DEF IInv, TypeOK, OriginalsInv
<1>2. gains' = OnEnabled(gains, LowI) /\ LowI \in [Axes -> GainSet]
  BY <1>1, LowIType DEF autotune_load_intra_test_gains, LowI
<1>3. \A a \in Axes : LowI[a] = [saved[a] EXCEPT !.i = "tenth"]
  BY <1>1 DEF LowI
<1>. QED
  BY <1>1, <1>2, <1>3, OnEnabledIs

LEMMA LoadTuned ==
    ASSUME IInv, autotune_load_tuned_gains
    PROVE  /\ gains' \in [Axes -> GainSet]
           /\ \A a \in Axes \ Enabled : gains'[a] = gains[a]
<1>1. gains \in [Axes -> GainSet] /\ Finals \in [Axes -> GainSet]
  BY FinalsType DEF IInv, TypeOK
<1>. QED
  BY <1>1, OnEnabledIs DEF autotune_load_tuned_gains

LEMMA LoadTwitch ==
    ASSUME IInv, mode = "TUNING", autotune_load_twitch_gains
    PROVE  /\ gains' \in [Axes -> GainSet]
           /\ \A a \in Axes \ Enabled : gains'[a] = gains[a]
<1>1. gains \in [Axes -> GainSet] /\ tune[axis] \in Tunes /\ axis \in Enabled
  BY DEF IInv, TypeOK, OriginalsInv
<1>2. WithI(tune[axis], "hundredth") \in GainSet
  BY <1>1, WithIType DEF Ratios
<1>. QED
  BY <1>1, <1>2 DEF autotune_load_twitch_gains

-----------------------------------------------------------------------------
(* One lemma for each action.                                               *)

LEMMA DisarmKeeps ==
    ASSUME IInv, init_disarm_motors
    PROVE  IInv' /\ saved' \in {saved, finished}
<1>1. /\ TypeOK /\ OriginalsInv /\ EndInv /\ NoTestedGainsInHand
      /\ gains \in [Axes -> GainSet] /\ saved \in [Axes -> GainSet] /\ orig = saved
      /\ card \in [Axes -> GainSet] /\ Finals \in [Axes -> GainSet]
  BY FinalsType DEF IInv, TypeOK, OriginalsInv
<1>2. /\ UNCHANGED <<control_mode, pilot_override, progress, step, tune, limited, plant, finished>>
      /\ armed' = FALSE /\ land_complete' = TRUE
      /\ saved' = saved => card' = card
  BY DEF init_disarm_motors
<1>5. card' \in [Axes -> GainSet]
  <2>1. card' = card \/ card' \in OnCard
    BY DEF init_disarm_motors
  <2>. QED
    BY <1>1, <2>1, OnCardIs
<1>3. CASE mode = "SUCCESS"
  <2>1. /\ gains' = OnEnabled(gains, Finals) /\ saved' = OnEnabled(saved, gains')
        /\ orig' = OnEnabled(orig, gains') /\ mode' = "UNINITIALISED"
    BY <1>3 DEF init_disarm_motors, autotune_save_tuning_gains
  <2>2. /\ gains' \in [Axes -> GainSet]
        /\ \A a \in Axes : gains'[a] = IF a \in Enabled THEN Finals[a] ELSE gains[a]
    BY <1>1, <2>1, OnEnabledIs
  <2>3. /\ saved' \in [Axes -> GainSet] /\ orig' = saved'
        /\ \A a \in Axes : saved'[a] = IF a \in Enabled THEN gains'[a] ELSE saved[a]
    BY <1>1, <2>1, <2>2, OnEnabledIs
  <2>4. saved' = finished
    <3>1. finished = OnEnabled(saved, Finals)
      BY <1>1, <1>3 DEF EndInv
    <3>2. /\ finished \in [Axes -> GainSet]
          /\ \A a \in Axes : finished[a] = IF a \in Enabled THEN Finals[a] ELSE saved[a]
      BY <1>1, <3>1, OnEnabledIs
    <3>3. \A a \in Axes : saved'[a] = finished[a]
      BY <2>2, <2>3, <3>2
    <3>. QED
      BY <2>3, <3>2, <3>3
  <2>5. TypeOK'
    BY <1>1, <1>2, <1>5, <2>1, <2>2, <2>3 DEF TypeOK, progress
  <2>6. OriginalsInv'
    BY <1>1, <2>1, <2>2, <2>3 DEF OriginalsInv
  <2>7. NoTestedGainsInHand'
    <3>1. control_mode # "AUTOTUNE" => gains' = saved'
      <4>1. SUFFICES ASSUME control_mode # "AUTOTUNE" PROVE gains' = saved'
        OBVIOUS
      <4>2. gains = saved
        BY <1>1, <4>1 DEF NoTestedGainsInHand
      <4>3. \A a \in Axes : gains'[a] = saved'[a]
        BY <2>2, <2>3, <4>2
      <4>. QED
        BY <2>2, <2>3, <4>3
    <3>. QED
      BY <1>1, <1>2, <2>1, <3>1 DEF NoTestedGainsInHand
  <2>. QED
    BY <2>1, <2>4, <2>5, <2>6, <2>7 DEF IInv, EndInv
<1>4. CASE mode # "SUCCESS"
  <2>1. UNCHANGED <<gains, saved, orig, mode>>
    BY <1>4 DEF init_disarm_motors, autotune_save_tuning_gains
  <2>2. TypeOK'
    BY <1>1, <1>2, <2>1, ZenonT(60) DEF TypeOK, progress
  <2>3. OriginalsInv' /\ EndInv' /\ NoTestedGainsInHand'
    BY <1>1, <1>2, <1>4, <2>1 DEF OriginalsInv, EndInv, NoTestedGainsInHand, progress
  <2>. QED
    BY <2>1, <2>2, <2>3 DEF IInv
<1>. QED
  BY <1>3, <1>4

LEMMA SetModeKeeps ==
    ASSUME IInv, NEW m \in {"HOLD", "OTHER"}, SetMode(m)
    PROVE  IInv' /\ saved' = saved
<1>1. /\ UNCHANGED <<mode, progress, step, orig, tune, finished, armed, land_complete, pilot_override,
                     saved, card, plant>>
      /\ control_mode' = m
  BY DEF SetMode, Unmoved
<1>2. gains' = saved /\ limited' = TRUE
  <2>1. CASE control_mode = "AUTOTUNE"
    BY <2>1, LoadOriginals DEF SetMode
  <2>2. CASE control_mode # "AUTOTUNE"
    BY <2>2 DEF SetMode, IInv, TypeOK, NoTestedGainsInHand
  <2>. QED
    BY <2>1, <2>2
<1>3. TypeOK'
  BY <1>1, <1>2 DEF IInv, TypeOK, progress
<1>4. EndInv'
  BY <1>1 DEF IInv, EndInv, Finals
<1>5. OriginalsInv' /\ NoTestedGainsInHand'
  BY <1>1, <1>2 DEF IInv, OriginalsInv, NoTestedGainsInHand, progress
<1>. QED
  BY <1>1, <1>3, <1>4, <1>5 DEF IInv

LEMMA InitModeKeeps ==
    ASSUME IInv, autotune_init
    PROVE  IInv' /\ saved' = saved
<1>1. /\ UNCHANGED <<limited, armed, land_complete, pilot_override, saved, card, plant>>
      /\ control_mode' = "AUTOTUNE" /\ gains = saved /\ limited
  BY DEF autotune_init, Unmoved, IInv, NoTestedGainsInHand
<1>2. CASE mode = "SUCCESS" /\ autotune_load_tuned_gains
             /\ UNCHANGED <<mode, progress, step, orig, tune, finished>>
  <2>1. /\ gains' \in [Axes -> GainSet]
        /\ \A a \in Axes \ Enabled : gains'[a] = gains[a]
    BY <1>2, LoadTuned
  <2>2. TypeOK'
    BY <1>1, <1>2, <2>1 DEF IInv, TypeOK, progress
  <2>3. OriginalsInv' /\ EndInv' /\ NoTestedGainsInHand'
    BY <1>1, <1>2, <2>1 DEF IInv, OriginalsInv, EndInv, NoTestedGainsInHand, Finals, progress
  <2>. QED
    BY <1>1, <2>2, <2>3 DEF IInv
<1>3. CASE mode = "UNINITIALISED" /\ mode' = "TUNING" /\ autotune_backup_gains_and_initialise
             /\ finished' = saved /\ UNCHANGED gains
  <2>1. orig' = saved /\ axis' \in Enabled
    BY <1>1, <1>3, FirstIsIn, AutoTuneAssumption DEF autotune_backup_gains_and_initialise
  <2>2. tune' \in [Axes -> Tunes]
    BY <1>3, TuneOfType DEF IInv, TypeOK, autotune_backup_gains_and_initialise
  <2>3. TypeOK'
    BY <1>1, <1>3, <2>1, <2>2, AutoTuneAssumption
       DEF IInv, TypeOK, autotune_backup_gains_and_initialise
  <2>4. OriginalsInv' /\ EndInv' /\ NoTestedGainsInHand'
    BY <1>1, <1>3, <2>1 DEF IInv, OriginalsInv, EndInv, NoTestedGainsInHand
  <2>. QED
    BY <1>1, <2>3, <2>4 DEF IInv
<1>4. CASE mode = "TUNING" /\ autotune_load_intra_test_gains
             /\ UNCHANGED <<mode, progress, step, orig, tune, finished>>
  <2>1. /\ gains' \in [Axes -> GainSet]
        /\ \A a \in Axes : gains'[a] = IF a \in Enabled THEN [saved[a] EXCEPT !.i = "tenth"] ELSE gains[a]
    BY <1>4, LoadBetween
  <2>2. TypeOK'
    BY <1>1, <1>4, <2>1 DEF IInv, TypeOK, progress
  <2>3. OriginalsInv' /\ EndInv' /\ NoTestedGainsInHand'
    BY <1>1, <1>4, <2>1 DEF IInv, OriginalsInv, EndInv, NoTestedGainsInHand, progress
  <2>. QED
    BY <1>1, <2>2, <2>3 DEF IInv
<1>. QED
  BY <1>2, <1>3, <1>4 DEF autotune_init

LEMMA UpdateKeeps ==
    ASSUME IInv, mode = "TUNING", NEW r \in Results, UpdateGains(r)
    PROVE  /\ counter' \in 0 .. SUCCESS_COUNT - 1 /\ ignore_next' \in BOOLEAN
           /\ tune' \in [Axes -> Tunes] /\ axis' \in Enabled
           /\ tune_type' \in {"RD_UP", "RD_DOWN", "RP_UP", "SP_DOWN", "SP_UP"}
           /\ step' = "WAITING_FOR_LEVEL" /\ limited' = TRUE
           /\ gains' \in [Axes -> GainSet] /\ \A a \in Axes \ Enabled : gains'[a] = gains[a]
           /\ finished' \in [Axes -> GainSet]
           /\ mode' \in {"TUNING", "SUCCESS"}
           /\ mode' = "SUCCESS" => finished' = OnEnabled(saved, Finals')
<1>. DEFINE v == Judge(tune[axis], r)
            later == {a \in Enabled : a > axis}
<1>1. /\ TypeOK /\ tune \in [Axes -> Tunes] /\ tune[axis] \in Tunes /\ axis \in Axes /\ axis \in Enabled
      /\ tune_type \in {"RD_UP", "RD_DOWN", "RP_UP", "SP_DOWN", "SP_UP"}
      /\ saved \in [Axes -> GainSet] /\ finished \in [Axes -> GainSet]
      /\ gains \in [Axes -> GainSet] /\ SUCCESS_COUNT \in Nat \ {0}
  BY AutoTuneAssumption DEF IInv, TypeOK, OriginalsInv
<1>2. v \in Verdicts /\ v.tune \in Tunes /\ v.counter \in 0 .. SUCCESS_COUNT /\ v.ignore \in BOOLEAN
  BY <1>1, JudgeType DEF Verdicts
<1>3. Settled(v.tune) \in Tunes
  BY <1>1, <1>2, JudgeType
<1>4. counter' \in 0 .. SUCCESS_COUNT - 1 /\ ignore_next' \in BOOLEAN
  BY <1>1, <1>2 DEF UpdateGains
<1>5. tune' \in [Axes -> Tunes]
  BY <1>1, <1>2, <1>3 DEF UpdateGains
<1>6. tune_type' \in {"RD_UP", "RD_DOWN", "RP_UP", "SP_DOWN", "SP_UP"}
  BY <1>1 DEF UpdateGains, NextType
<1>7. axis' \in Enabled
  <2>1. later # {} => First(later) \in later
    BY FirstIsIn, AutoTuneAssumption
  <2>. QED
    BY <1>1, <2>1 DEF UpdateGains
<1>8. /\ gains' \in [Axes -> GainSet] /\ \A a \in Axes \ Enabled : gains'[a] = gains[a]
      /\ step' = "WAITING_FOR_LEVEL" /\ limited' = TRUE
  BY LoadBetween DEF UpdateGains
<1>9. /\ finished' \in [Axes -> GainSet]
      /\ mode' \in {"TUNING", "SUCCESS"}
      /\ mode' = "SUCCESS" => finished' = OnEnabled(saved, Finals')
  <2>1. \/ mode' = "SUCCESS" /\ finished' = OnEnabled(saved, Finals')
        \/ mode' = mode /\ finished' = finished
    BY DEF UpdateGains, Finals
  <2>2. Finals' \in [Axes -> GainSet]
    <3>1. \A a \in Axes : WithI(tune'[a], "final") \in GainSet
      BY <1>5, WithIType DEF Ratios
    <3>. QED
      BY <3>1 DEF Finals
  <2>3. OnEnabled(saved, Finals') \in [Axes -> GainSet]
    BY <1>1, <2>2, OnEnabledIs
  <2>. QED
    BY <1>1, <2>1, <2>3
<1>. QED
  BY <1>4, <1>5, <1>6, <1>7, <1>8, <1>9

LEMMA RunKeeps ==
    ASSUME IInv, NEW moved \in BOOLEAN, autotune_run(moved)
    PROVE  IInv' /\ saved' = saved
<1>1. /\ UNCHANGED <<control_mode, armed, orig, saved, card, plant>> /\ control_mode = "AUTOTUNE"
      /\ TypeOK /\ OriginalsInv /\ EndInv /\ NoTestedGainsInHand
  BY DEF autotune_run, IInv
<1>2. CASE moved
  <2>1. /\ land_complete' = FALSE /\ pilot_override' = TRUE
        /\ UNCHANGED <<progress, mode, step, tune, finished>>
        /\ IF ~pilot_override THEN TakeOver ELSE UNCHANGED <<gains, limited>>
    BY <1>2 DEF autotune_run
  <2>2. \/ gains' = saved /\ limited' = TRUE
        \/ pilot_override /\ gains' = gains /\ limited' = limited
    BY <2>1, LoadOriginals DEF TakeOver
  <2>3. TypeOK'
    <3>1. gains' \in [Axes -> GainSet] /\ limited' \in BOOLEAN
      BY <1>1, <2>2 DEF TypeOK
    <3>. QED
      BY <1>1, <2>1, <3>1, ZenonT(60) DEF TypeOK, progress
  <2>4. OriginalsInv' /\ EndInv' /\ NoTestedGainsInHand'
    BY <1>1, <2>1, <2>2 DEF OriginalsInv, EndInv, NoTestedGainsInHand, Finals, progress
  <2>. QED
    BY <1>1, <2>3, <2>4 DEF IInv
<1>3. CASE ~moved
  <2>. DEFINE s == IF pilot_override THEN "WAITING_FOR_LEVEL" ELSE step
  <2>1. /\ pilot_override' = FALSE /\ land_complete' = land_complete
        /\ IF mode = "TUNING" THEN autotune_attitude_control(s)
           ELSE step' = s /\ UNCHANGED <<progress, mode, gains, tune, limited, finished>>
    BY <1>3 DEF autotune_run
  <2>2. NoTestedGainsInHand'
    BY <1>1, <2>1 DEF NoTestedGainsInHand
  <2>3. CASE mode # "TUNING"
    <3>1. TypeOK'
      BY <1>1, <2>1, <2>3, ZenonT(60) DEF TypeOK, progress
    <3>2. OriginalsInv' /\ EndInv'
      BY <1>1, <2>1, <2>3 DEF OriginalsInv, EndInv, Finals, progress
    <3>. QED
      BY <1>1, <2>2, <3>1, <3>2 DEF IInv
  <2>4. CASE mode = "TUNING" /\ UNCHANGED <<progress, mode, tune, finished>>
             /\ step' \in {"WAITING_FOR_LEVEL", "TWITCHING", "UPDATE_GAINS"} /\ limited' \in BOOLEAN
             /\ (autotune_load_twitch_gains \/ UNCHANGED gains)
    <3>1. gains' \in [Axes -> GainSet] /\ \A a \in Axes \ Enabled : gains'[a] = gains[a]
      BY <1>1, <2>4, LoadTwitch DEF TypeOK
    <3>2. TypeOK'
      BY <1>1, <2>1, <2>4, <3>1 DEF TypeOK, progress
    <3>3. OriginalsInv' /\ EndInv'
      BY <1>1, <2>4, <3>1 DEF OriginalsInv, EndInv, progress
    <3>. QED
      BY <1>1, <2>2, <3>2, <3>3 DEF IInv
  <2>5. CASE mode = "TUNING" /\ \E r \in Measured : UpdateGains(r)
    <3>1. PICK r \in Results : UpdateGains(r)
      BY <1>1, <2>5, MeasuredType
    <3>2. /\ counter' \in 0 .. SUCCESS_COUNT - 1 /\ ignore_next' \in BOOLEAN
          /\ tune' \in [Axes -> Tunes] /\ axis' \in Enabled
          /\ tune_type' \in {"RD_UP", "RD_DOWN", "RP_UP", "SP_DOWN", "SP_UP"}
          /\ step' = "WAITING_FOR_LEVEL" /\ limited' = TRUE
          /\ gains' \in [Axes -> GainSet] /\ \A a \in Axes \ Enabled : gains'[a] = gains[a]
          /\ finished' \in [Axes -> GainSet]
          /\ mode' \in {"TUNING", "SUCCESS"}
          /\ mode' = "SUCCESS" => finished' = OnEnabled(saved, Finals')
      BY <2>5, <3>1, UpdateKeeps
    <3>3. TypeOK'
      BY <1>1, <2>1, <3>2, AutoTuneAssumption DEF TypeOK
    <3>4. OriginalsInv' /\ EndInv'
      BY <1>1, <3>2 DEF OriginalsInv, EndInv
    <3>. QED
      BY <1>1, <2>2, <3>3, <3>4 DEF IInv
  <2>6. mode = "TUNING" => \/ /\ UNCHANGED <<progress, mode, tune, finished>>
                              /\ step' \in {"WAITING_FOR_LEVEL", "TWITCHING", "UPDATE_GAINS"}
                              /\ limited' \in BOOLEAN
                              /\ (autotune_load_twitch_gains \/ UNCHANGED gains)
                           \/ \E r \in Measured : UpdateGains(r)
    <3>1. SUFFICES ASSUME mode = "TUNING", autotune_attitude_control(s)
                   PROVE  \/ /\ UNCHANGED <<progress, mode, tune, finished>>
                             /\ step' \in {"WAITING_FOR_LEVEL", "TWITCHING", "UPDATE_GAINS"}
                             /\ limited' \in BOOLEAN
                             /\ (autotune_load_twitch_gains \/ UNCHANGED gains)
                          \/ \E r \in Measured : UpdateGains(r)
      BY <2>1
    <3>. QED
      BY <3>1, Zenon DEF autotune_attitude_control
  <2>. QED
    BY <2>3, <2>4, <2>5, <2>6
<1>. QED
  BY <1>2, <1>3

LEMMA FlyKeeps ==
    ASSUME IInv, Fly
    PROVE  IInv' /\ saved' = saved
<1>1. /\ armed' \in BOOLEAN /\ land_complete' \in BOOLEAN
      /\ UNCHANGED <<control_mode, mode, pilot_override, progress, step, gains, orig, tune, saved, card,
                     limited, plant, finished>>
  BY DEF Fly, IInv, TypeOK
<1>2. TypeOK'
  BY <1>1 DEF IInv, TypeOK, progress
<1>3. OriginalsInv' /\ EndInv' /\ NoTestedGainsInHand'
  BY <1>1 DEF IInv, OriginalsInv, EndInv, NoTestedGainsInHand, Finals, progress
<1>. QED
  BY <1>1, <1>2, <1>3 DEF IInv

LEMMA CalmDownKeeps ==
    ASSUME IInv, CalmDown
    PROVE  IInv' /\ saved' = saved
<1>1. /\ plant' \in Plants
      /\ UNCHANGED <<control_mode, armed, land_complete, mode, pilot_override, progress, step, gains, orig,
                     tune, saved, card, limited, finished>>
  BY DEF CalmDown, flight
<1>2. TypeOK'
  BY <1>1 DEF IInv, TypeOK, progress
<1>3. OriginalsInv' /\ EndInv' /\ NoTestedGainsInHand'
  BY <1>1 DEF IInv, OriginalsInv, EndInv, NoTestedGainsInHand, Finals, progress
<1>. QED
  BY <1>1, <1>2, <1>3 DEF IInv

LEMMA WriteBackKeeps ==
    ASSUME IInv, WriteBack
    PROVE  IInv' /\ saved' = saved
<1>1. /\ card' = saved
      /\ UNCHANGED <<control_mode, armed, land_complete, mode, pilot_override, progress, step, gains, orig,
                     tune, saved, limited, plant, finished>>
  BY DEF WriteBack, flight
<1>2. TypeOK'
  BY <1>1 DEF IInv, TypeOK, progress
<1>3. OriginalsInv' /\ EndInv' /\ NoTestedGainsInHand'
  BY <1>1 DEF IInv, OriginalsInv, EndInv, NoTestedGainsInHand, Finals, progress
<1>. QED
  BY <1>1, <1>2, <1>3 DEF IInv

LEMMA RebootKeeps ==
    ASSUME IInv, Reboot
    PROVE  IInv' /\ (saved' = saved \/ CutOff)
<1>1. saved' \in [Axes -> GainSet] /\ (saved' = saved \/ CutOff)
  <2>1. saved' \in OnCard /\ card' = saved' /\ saved \in [Axes -> GainSet] /\ card \in [Axes -> GainSet]
    BY DEF Reboot, IInv, TypeOK
  <2>. QED
    BY <2>1, OnCardIs DEF CutOff
<1>2. tune' \in [Axes -> Tunes]
  BY <1>1, TuneOfType DEF Reboot
<1>3. TypeOK'
  <2>1. 0 \in Axes /\ 0 \in 0 .. SUCCESS_COUNT - 1
    BY AutoTuneAssumption DEF Axes
  <2>2. /\ gains' = saved' /\ orig' = saved' /\ finished' = saved' /\ card' = saved' /\ axis' = 0
        /\ counter' = 0
        /\ control_mode' \in {"HOLD", "OTHER"} /\ armed' = FALSE /\ land_complete' = TRUE
        /\ mode' = "UNINITIALISED" /\ pilot_override' = FALSE /\ step' = "WAITING_FOR_LEVEL"
        /\ tune_type' = "RD_UP" /\ ignore_next' = FALSE /\ limited' = TRUE /\ plant' = plant
    BY DEF Reboot
  <2>3. plant \in Plants \cup {Unsteady}
    BY DEF IInv, TypeOK
  <2>. QED
    BY <1>1, <1>2, <2>1, <2>2, <2>3 DEF TypeOK
<1>4. OriginalsInv' /\ EndInv' /\ NoTestedGainsInHand'
  BY DEF Reboot, OriginalsInv, EndInv, NoTestedGainsInHand
<1>. QED
  BY <1>1, <1>3, <1>4 DEF IInv

LEMMA NextKeeps == IInv /\ [Next]_vars => IInv' /\ (saved' \in {saved, finished} \/ CutOff)
<1>. SUFFICES ASSUME IInv, [Next]_vars
              PROVE  IInv' /\ (saved' \in {saved, finished} \/ CutOff)
  OBVIOUS
<1>1. CASE UNCHANGED vars
  <2>1. TypeOK'
    BY <1>1 DEF IInv, TypeOK, vars, flight, progress
  <2>2. OriginalsInv' /\ EndInv' /\ NoTestedGainsInHand'
    BY <1>1 DEF IInv, OriginalsInv, EndInv, NoTestedGainsInHand, Finals, vars, flight, progress
  <2>3. saved' = saved
    BY <1>1 DEF vars
  <2>. QED
    BY <2>1, <2>2, <2>3 DEF IInv
<1>2. CASE \E moved \in BOOLEAN : autotune_run(moved)
  BY <1>2, RunKeeps
<1>3. CASE autotune_init
  BY <1>3, InitModeKeeps
<1>4. CASE \E m \in {"HOLD", "OTHER"} : SetMode(m)
  BY <1>4, SetModeKeeps
<1>5. CASE init_disarm_motors
  BY <1>5, DisarmKeeps
<1>6. CASE Fly
  BY <1>6, FlyKeeps
<1>7. CASE Reboot
  BY <1>7, RebootKeeps
<1>8. CASE CalmDown
  BY <1>8, CalmDownKeeps
<1>9. CASE WriteBack
  BY <1>9, WriteBackKeeps
<1>. QED
  BY <1>1, <1>2, <1>3, <1>4, <1>5, <1>6, <1>7, <1>8, <1>9 DEF Next, Disturb

-----------------------------------------------------------------------------
\* The variables keep their types whatever is switched, moved or unplugged.
THEOREM AutoTuneTypesHold == Spec => []TypeOK
<1>1. IInv => TypeOK
  BY DEF IInv
<1>. QED
  BY InitIInv, NextKeeps, <1>1, PTL DEF Spec

\* Nobody is handed gains that are being tried out: control_autotune.cpp:212-225 and 290-305.
THEOREM NobodyFliesTestedGains == Spec => []NoTestedGainsInHand
<1>1. IInv => NoTestedGainsInHand
  BY DEF IInv
<1>. QED
  BY InitIInv, NextKeeps, <1>1, PTL DEF Spec

\* The gains in storage are of one tune, unless the power is lost before it is on the card, and then
\* each is of that tune or of what was on the card: control_autotune.cpp:920-1002.
THEOREM TunesAreSavedWhole == Spec => SavesWholeTunes
<1>1. IInv /\ [Next]_vars => [saved' \in {saved, finished} \/ CutOff]_vars
  BY NextKeeps
<1>. QED
  BY InitIInv, NextKeeps, <1>1, PTL DEF Spec, SavesWholeTunes

=============================================================================
