------------------------------ MODULE AutoTune ------------------------------
(***************************************************************************)
(* ArduCopter/control_autotune.cpp: a flight mode that twitches the        *)
(* vehicle, one axis after the other, judges each twitch, and changes the  *)
(* gains of the attitude controllers until they suit it.                   *)
(*                                                                         *)
(* Four sets of gains lie side by side: those in force, the originals,     *)
(* those being tuned and those in storage.  Switches, sticks, failsafes,   *)
(* disarming and a loss of power come at any time between two passes of    *)
(* autotune_run() and copy one set over another.                           *)
(*                                                                         *)
(* Gains are saved one by one into the buffer of the storage, and a thread *)
(* writes them to the card later, in no order that is known: after a loss  *)
(* of power the vehicle has what had got there (module Params looks into   *)
(* this).                                                                  *)
(*                                                                         *)
(* A gain is a level: one step up or down is AUTOTUNE_RP_STEP or one of    *)
(* its like, level MIN the lower limit.  The gain d of the yaw axis is its *)
(* filter.  The maximum accelerations, body frame feed forward, and gains  *)
(* of zero, which the code does not load, are left out.                    *)
(***************************************************************************)
EXTENDS Integers

CONSTANTS
    RP_MAX, RD_MAX, SP_MAX, \* the upper limits
    SUCCESS_COUNT,          \* results that must agree before a gain is settled
    Enabled,                \* g.autotune_axis_bitmask
    Starts,                 \* gains a vehicle may be delivered with
    Origins,                \* gains, and gains on the card, that a tune may begin with: bounds the tunes
                            \* one after the other
    Plants                  \* vehicles: how they answer to a twitch

MIN  == 1
Axes == 0 .. 2              \* roll, pitch, yaw

Tunes   == [p : 0 .. RP_MAX + 1, d : 0 .. RD_MAX + 1, sp : 0 .. SP_MAX + 1]

\* The gain I is the pilot's own, or a fraction of P: between twitches, in a twitch, at the end.
Ratios  == {"own", "tenth", "hundredth", "final"}
GainSet == [p : 0 .. RP_MAX + 1, i : Ratios, d : 0 .. RD_MAX + 1, sp : 0 .. SP_MAX + 1]

\* With P from these levels on the rate comes near its target, passes it, and passes it by far; with
\* D from this level on it bounces back; with the angle's P from this level on it overshoots.
Plant   == [near : Nat, over : Nat, far : Nat, bounce : Nat, angle : Nat]

ASSUME AutoTuneAssumption ==
    /\ RP_MAX \in Nat \ {0} /\ RD_MAX \in Nat \ {0} /\ SP_MAX \in Nat \ {0}
    /\ SUCCESS_COUNT \in Nat \ {0}
    /\ Enabled \subseteq Axes /\ Enabled # {}
    /\ Starts \subseteq [Axes -> GainSet]
    /\ Plants \subseteq Plant /\ \A v \in Plants : v.near < v.over

VARIABLES
    control_mode,     \* HOLD stands for STABILIZE and ALT_HOLD, OTHER for all but these and AUTOTUNE
    armed,
    land_complete,
    mode,             \* autotune_state.mode; no code sets AUTOTUNE_MODE_FAILED
    pilot_override,
    axis,
    step,
    tune_type,
    ignore_next,
    counter,          \* autotune_counter
    gains,            \* those in force
    orig,             \* orig_roll_rp and its like
    tune,             \* tune_roll_rp and its like
    saved,            \* those in the buffer of the storage
    card,             \* those on the card when all of the buffer was last there
    limited,          \* attitude_control's limit_angle_to_rate_request
    plant,            \* Unsteady, or how the vehicle answers from now on, with nobody disturbing it
    finished          \* history: the gains of a tune that came to its end, until the next one begins

flight  == <<control_mode, armed, land_complete>>
progress == <<axis, tune_type, ignore_next, counter>>
vars    == <<flight, mode, pilot_override, progress, step, gains, orig, tune, saved, card, limited,
             plant, finished>>

Unsteady == [near |-> 0, over |-> 0, far |-> 0, bounce |-> 0, angle |-> 0]
Calm == plant # Unsteady

TypeOK ==
    /\ control_mode \in {"HOLD", "OTHER", "AUTOTUNE"} /\ armed \in BOOLEAN /\ land_complete \in BOOLEAN
    /\ mode \in {"UNINITIALISED", "TUNING", "SUCCESS"}
    /\ pilot_override \in BOOLEAN
    /\ axis \in Axes
    /\ step \in {"WAITING_FOR_LEVEL", "TWITCHING", "UPDATE_GAINS"}
    /\ tune_type \in {"RD_UP", "RD_DOWN", "RP_UP", "SP_DOWN", "SP_UP"}
    /\ ignore_next \in BOOLEAN /\ counter \in 0 .. SUCCESS_COUNT - 1
    /\ gains \in [Axes -> GainSet] /\ orig \in [Axes -> GainSet] /\ saved \in [Axes -> GainSet]
    /\ card \in [Axes -> GainSet]
    /\ tune \in [Axes -> Tunes]
    /\ limited \in BOOLEAN
    /\ plant \in Plants \cup {Unsteady}
    /\ finished \in [Axes -> GainSet]

TuneOf(g) == [p |-> g.p, d |-> g.d, sp |-> g.sp]
WithI(t, ratio) == [p |-> t.p, i |-> ratio, d |-> t.d, sp |-> t.sp]

Init ==
    /\ control_mode \in {"HOLD", "OTHER"} /\ armed = FALSE /\ land_complete = TRUE
    /\ mode = "UNINITIALISED" /\ pilot_override = FALSE
    /\ axis = 0 /\ step = "WAITING_FOR_LEVEL" /\ tune_type = "RD_UP" /\ ignore_next = FALSE /\ counter = 0
    /\ saved \in Starts
    /\ card = saved /\ gains = saved /\ orig = saved /\ tune = [a \in Axes |-> TuneOf(saved[a])]
    /\ limited = TRUE
    /\ plant = Unsteady
    /\ finished = saved

-----------------------------------------------------------------------------
(* Operators marked "defect" are not part of the specification: each is a   *)
(* wrong version of the operator that follows it.                           *)

(* Copying gains.                                                           *)

\* gains, or some other set, with those of the enabled axes replaced
OnEnabled(old, new) == [a \in Axes |-> IF a \in Enabled THEN new[a] ELSE old[a]]

Finals == [a \in Axes |-> WithI(tune[a], "final")]

autotune_load_orig_gains  == gains' = OnEnabled(gains, orig)
autotune_load_tuned_gains == gains' = OnEnabled(gains, Finals)
autotune_load_intra_test_gains ==
    gains' = OnEnabled(gains, [a \in Axes |-> [orig[a] EXCEPT !.i = "tenth"]])
autotune_load_twitch_gains == gains' = [gains EXCEPT ![axis] = WithI(tune[axis], "hundredth")]

First(axes) == CHOOSE a \in axes : \A b \in axes : a <= b

autotune_backup_gains_and_initialise ==
    /\ axis' = First(Enabled)
    /\ step' = "WAITING_FOR_LEVEL" /\ tune_type' = "RD_UP"
    /\ orig' = gains
    /\ tune' = [a \in Axes |-> TuneOf(gains[a])]
    /\ UNCHANGED <<ignore_next, counter>>

\* defect: gains are saved in the middle of a tune
SaveUnfinished ==
    IF mode # "UNINITIALISED"
    THEN /\ gains' = OnEnabled(gains, Finals)
         /\ saved' = OnEnabled(saved, gains')
         /\ orig' = OnEnabled(orig, gains')
         /\ mode' = "UNINITIALISED"
    ELSE UNCHANGED <<gains, saved, orig, mode>>

\* defect: the originals stay those from before the tune
SaveKeepsOrig ==
    IF mode = "SUCCESS"
    THEN /\ gains' = OnEnabled(gains, Finals)
         /\ saved' = OnEnabled(saved, gains')
         /\ mode' = "UNINITIALISED"
         /\ UNCHANGED orig
    ELSE UNCHANGED <<gains, saved, orig, mode>>

autotune_save_tuning_gains ==
    IF mode = "SUCCESS"
    THEN /\ gains' = OnEnabled(gains, Finals)
         /\ saved' = OnEnabled(saved, gains')
         /\ orig' = OnEnabled(orig, gains')
         /\ mode' = "UNINITIALISED"
    ELSE UNCHANGED <<gains, saved, orig, mode>>

\* The gains that are saved and not yet on the card, and the card when some of these have got there
GainNames == {"p", "i", "d", "sp"}
Unwritten == {x \in Axes \X GainNames : saved[x[1]][x[2]] # card[x[1]][x[2]]}
Written(done) ==
    LET gain(a, n) == IF <<a, n>> \in done THEN saved[a][n] ELSE card[a][n]
    IN  [a \in Axes |-> [p |-> gain(a, "p"), i |-> gain(a, "i"), d |-> gain(a, "d"), sp |-> gain(a, "sp")]]
OnCard    == {Written(done) : done \in SUBSET Unwritten}

-----------------------------------------------------------------------------
(* Judging a twitch.  A result says how far the measurement went and if it  *)
(* bounced back by more than the aggressiveness allows.                     *)

Reaches == {"low", "near", "over", "far"}
Results == [reach : Reaches, bounce : BOOLEAN]

Verdict(t, n, ignore) == [tune |-> t, counter |-> n, ignore |-> ignore]

Down(n)       == IF n > 0 THEN n - 1 ELSE 0
AtLeast(n)    == IF n <= MIN THEN MIN ELSE n
\* defect: a gain may pass its limit
AtMostBeyond(n, most) == n
AtMost(n, most) == IF n >= most THEN most ELSE n
Fewer         == Down(counter)
AtLimit(b, n) == IF b THEN SUCCESS_COUNT ELSE n

\* P goes down, and once it is at its minimum D does.
LessP(t)   == IF Down(t.p) >= MIN THEN [t EXCEPT !.p = Down(t.p)]
              ELSE [t EXCEPT !.p = MIN, !.d = AtLeast(Down(t.d))]
NoLessP(t) == Down(t.p) < MIN /\ Down(t.d) <= MIN
MoreP(t)   == [t EXCEPT !.p = AtMost(t.p + 1, RP_MAX)]

autotune_updating_d_up(t, r) ==
    IF r.reach \in {"over", "far"}
    THEN Verdict(LessP(t), AtLimit(NoLessP(t), counter), ignore_next)
    ELSE IF r.reach = "low" /\ t.p <= RP_MAX THEN Verdict(MoreP(t), counter, ignore_next)
    ELSE IF r.bounce THEN Verdict(t, counter + 1, TRUE)
    ELSE IF ignore_next THEN Verdict(t, counter, FALSE)
    ELSE Verdict([t EXCEPT !.d = AtMost(t.d + 2, RD_MAX)], AtLimit(t.d + 2 >= RD_MAX, Fewer), FALSE)

\* defect: once a result was ignored all are
DDownIgnores(t, r) ==
    IF r.reach \in {"over", "far"}
    THEN Verdict(LessP(t), AtLimit(NoLessP(t), counter), ignore_next)
    ELSE IF r.reach = "low" /\ t.p <= RP_MAX THEN Verdict(MoreP(t), counter, ignore_next)
    ELSE IF r.bounce
    THEN Verdict([t EXCEPT !.d = AtLeast(Down(t.d))], AtLimit(Down(t.d) <= MIN, Fewer), TRUE)
    ELSE Verdict(t, IF ignore_next THEN counter ELSE counter + 1, ignore_next)

autotune_updating_d_down(t, r) ==
    IF r.reach \in {"over", "far"}
    THEN Verdict(LessP(t), AtLimit(NoLessP(t), counter), ignore_next)
    ELSE IF r.reach = "low" /\ t.p <= RP_MAX THEN Verdict(MoreP(t), counter, ignore_next)
    ELSE IF r.bounce
    THEN Verdict([t EXCEPT !.d = AtLeast(Down(t.d))], AtLimit(Down(t.d) <= MIN, Fewer), TRUE)
    ELSE Verdict(t, IF ignore_next THEN counter ELSE counter + 1, FALSE)

autotune_updating_p_up_d_down(t, r) ==
    IF r.reach = "far" THEN Verdict(t, counter + 1, TRUE)
    ELSE IF r.reach \in {"low", "near"} /\ r.bounce /\ t.d > MIN
    THEN Verdict([t EXCEPT !.d = AtLeast(Down(t.d)), !.p = AtLeast(Down(t.p))], Fewer, ignore_next)
    ELSE IF ignore_next THEN Verdict(t, counter, FALSE)
    ELSE Verdict(MoreP(t), AtLimit(t.p + 1 >= RP_MAX, Fewer), FALSE)

autotune_updating_p_down(t, r) ==
    IF r.reach # "far" THEN Verdict(t, IF ignore_next THEN counter ELSE counter + 1, FALSE)
    ELSE Verdict([t EXCEPT !.sp = AtLeast(Down(t.sp))], AtLimit(Down(t.sp) <= MIN, Fewer), TRUE)

autotune_updating_p_up(t, r) ==
    IF r.reach = "far" THEN Verdict(t, counter + 1, TRUE)
    ELSE IF ignore_next THEN Verdict(t, counter, FALSE)
    ELSE Verdict([t EXCEPT !.sp = AtMost(t.sp + 1, SP_MAX)], AtLimit(t.sp + 1 >= SP_MAX, Fewer), FALSE)

Judge(t, r) ==
    CASE tune_type = "RD_UP"   -> autotune_updating_d_up(t, r)
      [] tune_type = "RD_DOWN" -> autotune_updating_d_down(t, r)
      [] tune_type = "RP_UP"   -> autotune_updating_p_up_d_down(t, r)
      [] tune_type = "SP_DOWN" -> autotune_updating_p_down(t, r)
      [] tune_type = "SP_UP"   -> autotune_updating_p_up(t, r)

NextType == [RD_UP |-> "RD_DOWN", RD_DOWN |-> "RP_UP", RP_UP |-> "SP_DOWN", SP_DOWN |-> "SP_UP",
             SP_UP |-> "RD_UP"]

\* What is done to the gains when a type is settled: the limits hold for the originals as well, and
\* the angle's P is taken back by a tenth, two steps.
Settled(t) ==
    CASE tune_type = "RD_DOWN" -> [t EXCEPT !.d = AtLeast(t.d), !.p = AtLeast(t.p)]
      [] tune_type = "RP_UP"   -> [t EXCEPT !.p = AtLeast(t.p)]
      [] tune_type = "SP_UP"   -> [t EXCEPT !.sp = AtLeast(Down(Down(t.sp)))]
      [] OTHER                 -> t

\* How a vehicle answers to its gains in the test of the present type
Answer(v, t) ==
    [reach  |-> IF tune_type \in {"SP_DOWN", "SP_UP"} THEN (IF t.sp >= v.angle THEN "far" ELSE "near")
                ELSE IF t.p >= v.far THEN "far" ELSE IF t.p >= v.over THEN "over"
                ELSE IF t.p >= v.near THEN "near" ELSE "low",
     bounce |-> t.d >= v.bounce]

\* A twitch that was not flown on the gains under test can give any result.
Measured ==
    IF Calm /\ gains[axis] = WithI(tune[axis], "hundredth") THEN {Answer(plant, tune[axis])} ELSE Results

-----------------------------------------------------------------------------
(* autotune_run()                                                           *)

\* AUTOTUNE_STEP_UPDATE_GAINS
UpdateGains(r) ==
    LET v     == Judge(tune[axis], r)
        ends  == v.counter >= SUCCESS_COUNT
        later == {a \in Enabled : a > axis}
        axis_ends == ends /\ tune_type = "SP_UP"
    IN  /\ counter' = IF ends THEN 0 ELSE v.counter
        /\ ignore_next' = v.ignore
        /\ tune' = [tune EXCEPT ![axis] = IF ends THEN Settled(v.tune) ELSE v.tune]
        /\ tune_type' = IF ends THEN NextType[tune_type] ELSE tune_type
        /\ axis' = IF axis_ends /\ later # {} THEN First(later) ELSE axis
        /\ IF axis_ends /\ later = {}
           THEN mode' = "SUCCESS" /\ finished' = OnEnabled(saved, [a \in Axes |-> WithI(tune'[a], "final")])
           ELSE UNCHANGED <<mode, finished>>
        /\ autotune_load_intra_test_gains
        /\ step' = "WAITING_FOR_LEVEL"
        /\ limited' = TRUE

\* with step s; a twitch ends by its target or its time, whatever the vehicle does
autotune_attitude_control(s) ==
    \/ /\ s = "WAITING_FOR_LEVEL"
       /\ limited' = TRUE
       /\ \/ step' = "TWITCHING" /\ autotune_load_twitch_gains
          \/ step' = s /\ UNCHANGED gains
       /\ UNCHANGED <<progress, mode, tune, finished>>
    \/ /\ s = "TWITCHING"
       /\ limited' = FALSE
       /\ step' \in {s, "UPDATE_GAINS"}
       /\ UNCHANGED <<progress, mode, gains, tune, finished>>
    \/ s = "UPDATE_GAINS" /\ \E r \in Measured : UpdateGains(r)

\* the pilot takes over
TakeOver == autotune_load_orig_gains /\ limited' = TRUE

autotune_run(moved) ==
    /\ control_mode = "AUTOTUNE" /\ armed
    /\ \/ /\ moved
          /\ land_complete' = FALSE
          /\ pilot_override' = TRUE
          /\ IF ~pilot_override THEN TakeOver ELSE UNCHANGED <<gains, limited>>
          /\ UNCHANGED <<progress, mode, step, tune, finished>>
       \/ /\ ~moved /\ ~land_complete
          /\ pilot_override' = FALSE
          /\ IF mode = "TUNING"
             THEN autotune_attitude_control(IF pilot_override THEN "WAITING_FOR_LEVEL" ELSE step)
             ELSE /\ step' = IF pilot_override THEN "WAITING_FOR_LEVEL" ELSE step
                  /\ UNCHANGED <<progress, mode, gains, tune, limited, finished>>
          /\ UNCHANGED land_complete
    /\ UNCHANGED <<control_mode, armed, orig, saved, card, plant>>

-----------------------------------------------------------------------------
(* Flight modes, arming and power.                                          *)

Unmoved == UNCHANGED <<armed, land_complete, pilot_override, saved, card, plant>>

\* set_mode(AUTOTUNE): a finished tune is loaded anywhere, another one begins or goes on in flight.
autotune_init ==
    /\ control_mode # "AUTOTUNE" /\ control_mode' = "AUTOTUNE"
    /\ \/ /\ mode = "SUCCESS"
          /\ autotune_load_tuned_gains
          /\ UNCHANGED <<mode, progress, step, orig, tune, finished>>
       \/ /\ control_mode = "HOLD" /\ armed /\ ~land_complete     \* autotune_start()
          /\ \/ /\ mode = "UNINITIALISED" /\ mode' = "TUNING"
                /\ [gains |-> gains, card |-> card] \in Origins
                /\ autotune_backup_gains_and_initialise
                /\ finished' = saved
                /\ UNCHANGED gains
             \/ /\ mode = "TUNING"
                /\ autotune_load_intra_test_gains
                /\ UNCHANGED <<mode, progress, step, orig, tune, finished>>
    /\ UNCHANGED limited /\ Unmoved

\* set_mode() of another mode, with autotune_stop() on leaving AUTOTUNE
SetMode(m) ==
    /\ m # control_mode /\ control_mode' = m
    /\ IF control_mode = "AUTOTUNE" THEN autotune_load_orig_gains /\ limited' = TRUE
       ELSE UNCHANGED <<gains, limited>>
    /\ UNCHANGED <<mode, progress, step, orig, tune, finished>> /\ Unmoved

init_disarm_motors ==
    /\ armed /\ armed' = FALSE /\ land_complete' = TRUE
    /\ autotune_save_tuning_gains
    /\ IF saved' = saved THEN UNCHANGED card ELSE card' \in OnCard
    /\ UNCHANGED <<control_mode, pilot_override, progress, step, tune, limited, plant, finished>>

\* arming, taking off in another mode, and the land detector
Fly ==
    /\ \/ control_mode # "AUTOTUNE" /\ armed' = TRUE /\ UNCHANGED land_complete
       \/ control_mode # "AUTOTUNE" /\ armed /\ land_complete' = FALSE /\ UNCHANGED armed
       \/ land_complete' = TRUE /\ UNCHANGED armed
    /\ UNCHANGED <<control_mode, mode, pilot_override, progress, step, gains, orig, tune, saved, card,
                   limited, plant, finished>>

\* The storage thread has written all there is.  How far it has got matters before that to the next
\* save and to a loss of power only, and is chosen there.
WriteBack ==
    /\ card # saved /\ card' = saved
    /\ UNCHANGED <<flight, mode, pilot_override, progress, step, gains, orig, tune, saved, limited, plant,
                   finished>>

\* The battery is taken out and put in again, at any time: the vehicle has what is on the card.
Reboot ==
    /\ saved' \in OnCard
    /\ card' = saved'
    /\ control_mode' \in {"HOLD", "OTHER"} /\ armed' = FALSE /\ land_complete' = TRUE
    /\ mode' = "UNINITIALISED" /\ pilot_override' = FALSE
    /\ axis' = 0 /\ step' = "WAITING_FOR_LEVEL" /\ tune_type' = "RD_UP" /\ ignore_next' = FALSE
    /\ counter' = 0
    /\ gains' = saved' /\ orig' = saved' /\ tune' = [a \in Axes |-> TuneOf(saved'[a])]
    /\ limited' = TRUE /\ finished' = saved'
    /\ UNCHANGED plant

\* From now on the pilot watches, and the vehicle answers to the same gains in the same way.
CalmDown ==
    /\ control_mode = "AUTOTUNE" /\ mode = "TUNING" /\ armed /\ ~land_complete
    /\ plant' \in Plants
    /\ UNCHANGED <<flight, mode, pilot_override, progress, step, gains, orig, tune, saved, card, limited,
                   finished>>

Disturb ==
    \/ autotune_run(TRUE) \/ autotune_init \/ (\E m \in {"HOLD", "OTHER"} : SetMode(m))
    \/ init_disarm_motors \/ Fly \/ Reboot \/ CalmDown

Next == autotune_run(FALSE) \/ WriteBack \/ (~Calm /\ Disturb)

\* Half a second after the sticks were let go tuning resumes, the vehicle comes level and stays so for
\* half a second, and a twitch ends after three quarters of a second at the latest.
Fairness == WF_vars(autotune_run(FALSE) /\ <<step, pilot_override>>' # <<step, pilot_override>>)

Spec == Init /\ [][Next]_vars /\ Fairness

-----------------------------------------------------------------------------
(* Properties.                                                              *)

\* Whatever mode or hand takes over from AutoTune, and at whatever moment, finds the gains in force
\* that are in storage, and the rate limit on (control_autotune.cpp:212-225, flight_mode.cpp:216); the
\* pilot who moves the sticks in the middle of a tune finds these or the ones used between twitches
\* (control_autotune.cpp:290-297).
NoTestedGainsInHand ==
    /\ control_mode # "AUTOTUNE" => gains = saved /\ limited
    /\ mode = "TUNING" /\ pilot_override =>
           limited /\ \A a \in Axes : gains[a] \in {saved[a], [saved[a] EXCEPT !.i = "tenth"]}

\* A loss of power before all is on the card: the vehicle has what is there, and of each gain that is
\* what was saved or what it was to replace.
CutOff ==
    /\ card # saved /\ card' = saved'
    /\ \A a \in Axes : \A n \in GainNames : saved'[a][n] \in {saved[a][n], card[a][n]}

\* The vehicle's gains in storage are those of one tune that came to its end, for all axes together,
\* whatever was disarmed, switched or unplugged meanwhile (control_autotune.cpp:920-1002); only when
\* the power is lost before such a tune is on the card they are of this tune and of what was there.
SavesWholeTunes == [][saved' \in {saved, finished} \/ CutOff]_vars

\* A vehicle whose rate comes near the target with some P within the limits is tuned in the end, if
\* nobody disturbs it, from whatever gains and after whatever interruptions (control_autotune.cpp:578-724).
TuningEnds == Calm ~> mode = "SUCCESS"

=============================================================================
