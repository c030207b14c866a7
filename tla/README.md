# A formal model of PQ-Software

PQ-Software is the flight software of a quadcopter: ArduCopter with its libraries (`src/Ardupilot`), flown by a pilot over a
radio and by a ground station over MAVLink, and an XBee message link (`src/Communications`).  This directory holds TLA+
modules of the parts that decide *whether the motors run, what the vehicle flies to, who is in control, and what survives a
loss of power*; the TLC configurations that check them on small instances; and TLAPS proofs of their safety properties for every
value of the constants.

    tlc -config Mission_Lives.cfg MCMission.tla       check a run (the table under "Runs" has them all)
    tlapm MissionProofs.tla                           check the proofs of a component

## 1. Inventory

Each entry: the state the component keeps, its operations, whom it talks to, what is hard about it, and what makes it correct.

**CPU failsafe and arming** (`ArduCopter/failsafe.cpp`, `motors.cpp`; module `Arming`).  Four static variables
(`failsafe_enabled`, the last loop count and timestamp, `in_failsafe`), `motors.armed()`, `soft_armed`.  The timer thread calls
`failsafe_check()` at 1 kHz; the main loop calls `init_arm_motors()`, which switches the failsafe off around slow checks and a
`delay(30)`, and `init_disarm_motors()`.  *Hard:* timer and main loop share variables without a lock; the delay runs the MAVLink
callback, so a ground station is served in the middle of arming, its motor test included, which arms by itself; clock and counter
wrap.  *Correct:* a locked-up loop is disarmed in time, a running one never; the failsafe is on whenever the motors are; the
estimators know when motors run.

**Mission** (`libraries/AP_Mission`; modules `Mission`, `MissionPlan`, `MissionTrace`).  The command list in storage, the cached
navigation and do commands with their "loaded" flags, the jump table.  `update()` at 10 Hz; start, stop, resume, reset, select,
clear, truncate, add and replace from the pilot and the ground station between two updates.  It calls back into the vehicle to
start commands, and a started command may release a parachute, which disarms and resets the mission from inside its own search.
*Hard:* re-entrancy, stale caches, jump counts that one search changes and the next reads, loops without a bound.  *Correct:* it
flies only to its own commands, in an order the list allows, each jump as often as it says, and comes to its end.

**Failsafes and flight modes** (`events.cpp`, `radio.cpp`, `ekf_check.cpp`, `fence.cpp`, `flight_mode.cpp`, `switches.cpp`;
module `Failsafes`).  One flag per failsafe, the counters behind them, the flight mode, and in `control_land.cpp` whether a landing
uses the GPS.  Each failsafe is a scheduler task that ends in `set_mode()`; pilot and ground station call it as well.  *Hard:* none
of the tasks knows the others; the order in which things fail decides.  *Correct:* nothing steers by a position declared bad, a
vehicle without a radio is not handed back to its sticks, a lost radio is noticed, a failsafe can end.

**Storage** (`AP_HAL_PX4/Storage.cpp`; module `Storage`).  A RAM image, a mask of dirty lines, a file on the FRAM.  The main thread
writes the image, the storage thread writes dirty lines to the file.  *Hard:* the mask is updated by both threads without a lock;
writes fail, and power with them, in the middle of a line.  *Correct:* what was written gets to the file.

**Parameters** (`AP_Param`; module `Params`, over `Storage`).  A list of records ended by a sentinel.  `setup()` and
`load_parameters()` at start, `save()` in flight.  *Hard:* a record is added in three writes that may be apart by a power loss.
*Correct:* what was stored survives.

**Terrain database** (`AP_Terrain`; module `Terrain`).  A cache of grids with a state each, one `disk_block` handed back and forth
between main loop and I/O thread, a file per degree with a place for each grid, requests to the ground station.  *Hard:* reads and
writes complete after their slot was reused or filled; the cache is smaller than the region; grids share places on the card; a
write may be cut short; answers come late and twice.  *Correct:* heights stay in their grid, what is valid is on the card, a write
takes nothing from elsewhere on the card, a vehicle that stays gets its heights.

**Mission upload** (`GCS_MAVLink/GCS_Common.cpp`; module `Upload`).  Per link: which item is expected, until when, when it was last
asked for, what is deferred.  *Hard:* items are lost, repeated and late; the mission is truncated before the first item arrives; all
links edit one mission.  *Correct:* items are put in their place, an accepted upload is what the station sent, an upload ends.

**Land detector, crash check, parachute, motor test** (`land_detector.cpp`, `crash_check.cpp`, `AP_Parachute`, `motors.cpp`,
`motor_test.cpp`, `control_land.cpp`; module `Landing`).  A counter in each, over the shared flags `armed` and `land_complete`.
*Hard:* tasks of different rates change the flags under each other's counters; the motor test arms on its own.  *Correct:* each acts
on evidence that lasted; motors fly only checked and guarded; a vehicle that stands is disarmed.

**AutoTune** (`control_autotune.cpp`; module `AutoTune`).  Four sets of gains - in force, original, under test, stored - and the
progress of the tune.  *Hard:* sticks, switches, failsafes, disarming and power losses copy one set over another between any two
passes; the gains are stored one by one, through the buffer of the storage.  *Correct:* nobody is handed the gains under test, only
whole tunes are stored, a tune ends.

**XBee link** (`Communications/XBee_Class`).  One serial line for frames in both directions, used by a test sketch only.
**Bench procedures** (`compassmot.cpp`, `esc_calibration.cpp`) hold the main loop until they are done.  **Scheduler**
(`AP_Scheduler`) runs the tasks that fit into the time left.  **Fence library** (`AC_Fence`) turns distances into breaches.
**Flight mode controllers, estimation, attitude control** are numeric.  **Logging, MAVLink transport** are I/O and layout.
**Main loop**: `ArduCopter.cpp`, which holds it, is not in the repository.  **Other vehicles and tools** are vendored.

How they meet: pilot and ground station -> arming -> CPU failsafe; AUTO -> mission -> started commands -> parachute -> disarm ->
mission; failsafes -> flight mode -> (leaving AUTO) mission stop, (leaving AUTOTUNE) original gains; detectors, sticks and timers ->
disarm -> AutoTune saves its gains; upload -> mission edits -> storage; parameters -> storage -> storage thread.

## 2. Modules and the code

| module | models | state | actions |
|---|---|---|---|
| `Arming` | failsafe.cpp, `init_arm_motors()`, `init_disarm_motors()`, what the motor test arms | the variables above, `motor_test`, `pc` of the main thread, the history `stall`, `watch` | `FailsafeCheck` is one call of the timer and one unit of time; the arming procedure is cut where the timer or the delay callback can see it: `ArmBegin`, `ArmRefused`, `ArmDelay`, `ArmFinish`, `EnableStamp`; `MotorTestStart` and `MotorTestStop` |
| `Mission` | every method of `AP_Mission` that changes its state | the class's members, and `pc`, `cursor`, `loops`... for the search in progress | a public method is an action; **each iteration of a search loop is an action** (`PassJump`, `FoundNav`, `FoundDo`, `NoNav`, `LookPastDo`...) |
| `MissionPlan` | what a mission promises (abstract) | list, state, where it flies, where it looks next | `Fly`, `Finish`, `Select`, `SelectNone`, `Begin`, `Halt`, `Continue`, `Forget`, `Release` |
| `MissionTrace` | `Mission` with the history of the leg | `origin`, `path`, `started` | `TraceNext` |
| `Failsafes` | five failsafes, mode switch, ground station, `set_mode()` | flags and counters, `control_mode`, `land_with_gps` | a handler is an action: `ReadRadio`, `ReadBattery`, `GcsLost`, `GcsBack`, `FenceCheck`, `EkfCheck`, `PilotSetsMode`, `GcsSetsMode`, `RcOverride`, `ExitMission`, `Disarm` |
| `Storage` | the write-back cache | image, mask, file, registers of the storage thread | a call of the main thread is an action (it has the higher priority); of the storage thread each access to the mask and each copied cell: `Tick`, `ScanClean`, `ScanDirty`, `LoadMask`, `ClearLine`, `WriteCell`, `WriteFails`, `ReloadMask`, `RestoreLine`; `PowerLoss` |
| `Params` | the record list, `EXTENDS Storage` | the history `stored` | `Boot`, `SetAndSave`, the storage thread, `PowerFails` |
| `Terrain` | cache, `disk_block`, requests and answers | slots with state, order of access and heights, the block and its owner, the block at each place of the card | handlers of the main loop: `Update`, `SendRequest`, `TerrainCheck`, `TerrainData`; the I/O thread: `ReadBlock`, `CheckBlock`, `WriteBlock`, `ReadFails`, `WriteFails`; `PowerLoss` |
| `Upload` | the handshake on each link, and the list of `AP_Mission` | per link: `waypoint_receiving` and its like, queues both ways, the station | a handler is an action: `handle_mission_count`, `TakeItem`, `RefuseItem`...; `Update`, `RetryDeferred`, `Tick`; the stations and the lossy link |
| `Landing` | land detector, crash check, parachute, sticks, automatic disarming, motor test | their flags and counters | `Detect` is one pass of the detectors in the order of the code; `motors_output`, `arm_motors_check`, `AutoDisarmCheck`, `LandRun`; commands |
| `AutoTune` | control_autotune.cpp | four sets of gains, those on the card, progress | `autotune_run` is one pass of the controller; `autotune_init`, `SetMode`, `init_disarm_motors`, `WriteBack`, `Reboot` |
| `MC...` | instances for TLC | | |
| `...Proofs` | theorems; those about `Params` are in `StorageProofs`, those about `MissionPlan` and `MissionTrace` in `MissionProofs` | | |

Reading hints.  An operator marked `defect:` is a wrong version of the operator that follows it; it is not part of the
specification and shows what each property rules out.  Names follow the source.

* `Arming` counts time in calls of `failsafe_check()`; as `micros()` and the loop count are used only in unsigned differences, the
  module keeps the difference (`failsafe_age`) and lets it wrap.  `MotorTestStart` is possible wherever MAVLink is served: in a pass of
  the loop and in the delay of an arming, also one by the sticks.
* In `Mission` a command is its kind (`wp`, `nav`, `do`, `jump`), its jump target and its number of runs; `get_next_cmd()` is bounded
  by `loops` as in the code.
* In `Failsafes` each flight mode stands for a class (the comment at `Modes`), and what a handler reads of the world and no property
  is about (on the ground, far from home, position claimed) is its input `w`.  `silent` alternates between two values past the
  timeouts, so that a read of the radio is never a stuttering step and fairness speaks about it.
* In `Storage` a cell is the unit that `write()` copies; `overtaken` remembers the lines whose mark the race on the mask threw away.
  `Params` lays its records out over the cells, so that one record begins in one line and ends in the next.
* In `Terrain` the heights of a grid are a set of squares, marked with the grid they belong to.  What the I/O thread reads may be junk
  until it is checked, as the buffer is shared.  `Place` is the offset in the file; a block there belongs to the grid that was written
  last, to none when that write was cut short (`CutShort`), and `Held` is what a read of a grid makes of it.
* `settled` in `Terrain`, `Upload` and `Landing`, and `plant` in `AutoTune`, mark the moment from which nothing more goes wrong; the
  liveness properties start there, in whatever state everything before has left.
* In `Landing` `stood` and `tilted` count the evidence in every pass of the detectors, whether the code counts in it or not: while the
  parachute is disabled `parachute_check()` does not, and `tilted` does.  `stale` remembers that control was regained in such a time
  while a loss was counted.
* In `AutoTune` a gain is a level; a twitch gives any result until the vehicle is calm, and then what its `plant` says.  `saved` is
  the buffer of the storage.  Gains are saved one by one and written to the card in no order that is known, so the card has any of
  those waiting (`OnCard`) when the next save comes or the power goes; between these nobody reads it, and the module leaves open how
  far it has got.  `WriteBack` is the moment that all are there.

External, modelled from its use: `MainLoop` in `Arming` (failsafe.cpp reads the count that the loop increments), ground stations and
links in `Upload`, `Awaited` and the movements in `Terrain`, the vehicle in `AutoTune`.

## 3. Runs

| run | cfg | distinct states | shows |
|---|---|---|---|
| `arming` | Arming_All | 125,640 | a lockup disarms in time (`LockupDisarms`), only a stalled loop trips (`TripsOnlyWhenStalled`), the failsafe is on around armed motors when no stop switch is fitted (`SwitchlessIsGuarded`), running motors are hidden from the estimators only for as long as a motor test lasts, or after a ground station armed an armed vehicle (`EstimatorSeesSticks`) |
| `mission_edit` | Mission_Edit | 1,713,032 | the flags agree (`FlagsAgree`) in every mission that edits can produce, also while the list is edited in flight |
| `mission_lives` | Mission_Lives | 686,090 | every mission of three commands of nine kinds and of four commands of six, under every order of calls and with a parachute: flies only to its own navigation commands (`FliesTheMission`), counts its jumps (`JumpsBounded`); each search ends (`SearchReturns`); a mission without endless jumps that is left alone completes (`MissionCompletes`) |
| `mission_plan` | Mission_Plan | 86,428 | `Mission` implements `MissionPlan` (`FollowsThePlan`); in missions without jumps a leg starts all its do commands and no others (`DosOfTheLeg`); both also with a parachute that resets the mission from inside its search, and when the start of a leg looks ahead |
| `failsafes` | Failsafes_All | 234,144 | `EkfFailsafeUsesNoGps`, `LostRadioIsFlown`, `EkfFailsafeCanEnd`, `LostRadioIsNoticed` |
| `storage` | Params_All | 245,691 | content that is not in the file is marked, being written, or lost to the race on the mask (`UnwrittenIsKnown`); a scan finds a line (`ScanFindsALine`); stored parameters survive saves, additions, write errors, the race and power losses with a value they may have (`StoredParametersSurvive`); all else is written in the end (`AllIsWrittenInTheEnd`) |
| `terrain` | Terrain_All | 350,307 | heights stay in their grid, on the card too (`HeightsBelong`); what is valid is saved until another grid is written to its place (`ValidIsSaved`); a write takes heights only from the place it goes to (`DiskKeepsHeights`); a vehicle that stays gets its heights (`HeightsArrive`) |
| `upload` | Upload_All | 765,464 | items are in their place and the list has the length announced (`UploadIsWhole`); what a patient station holds for accepted is stored (`AcceptedIsStored`); uploads end (`UploadEnds`) |
| `landing` | Landing_All | 319,860 | the detectors act on what lasted (`ActsOnEvidence`), with the exception below; motors fly only checked and guarded (`FlightIsGuarded`); a vehicle that stands is disarmed (`LandingEnds`), where `DISARM_DELAY` is not 0 |
| `autotune` | AutoTune_All | 512,746 | `NoTestedGainsInHand`; the gains in storage are of one whole tune, or a power loss left some of a new one among the old (`SavesWholeTunes`); a tune left in peace ends (`TuningEnds`), of vehicles that come near the target with some P within the limits |

Two runs end in a counterexample: the program does not do what a comment beside it says.

| run | the program | the comment |
|---|---|---|
| `arming_guard` | `init_arm_motors()` returns at motors.cpp:180-197 without switching the CPU failsafe on again; a ground station that arms an armed vehicle with the interlock on gets there in flight | failsafe.cpp:9 "detect main loop lockup and disarm the motors" |
| `storage_race` | `_dirty_mask &= ~write_mask` (Storage.cpp:256) is a load and a store in the storage thread; the main thread has the higher priority, and a mark it makes in between is overwritten: the line stays unwritten until something else marks it | Storage.cpp:171-176 "it won't result in a line not being written", 249-253 "we don't need a semaphore" |

Both are stated as properties of what does hold as well: `SwitchlessIsGuarded` names the one way around the guard, `UnwrittenIsKnown`
the one way to lose a line.

### Seen while modelling, without a run

Each was found as a counterexample or by reading; the properties above are stated around them, and say so.

* Arming: the delay before `failsafe_enable()` may count as a stall, as the flag is set before the timestamp (failsafe.cpp:22);
  the mode checked before the arming delay may change in it (motors.cpp:209); the CPU failsafe leaves `soft_armed` set
  (failsafe.cpp:69).  A motor test arms without `soft_armed` (motor_test.cpp:114-118), so its motors run unseen by the estimators;
  when it is started and a disarm follows, both in the delay of an arming by the sticks (motors.cpp:209), the rest of that arming
  (215) leaves the vehicle armed with `soft_armed` cleared, until the end of the test disarms it.
* Mission: `set_current_cmd()` on a do command that an endless jump returns to never returns (AP_Mission.cpp:363); `resume()` re-reads
  an entry that was edited and may fly a do command (97; AP_Mission.h:395 speaks of the index being reloaded); after the last run
  of a jump the look-up of the next do command passes beyond it and starts what lies behind (1210, where 1182 says it "accounts for
  do-jump commands"); the first command added to an empty mission falls on index 0 and reads back as home (223); jump counts survive
  an upload (149); the look-ahead of splines walks jumps differently from the advance (274).
* Failsafes: a GPS landing under way when the estimate turns bad goes on, as the failsafe returns before ekf_check.cpp:153-155 in
  LAND (132); one good frame ends a radio failsafe begun by silence, where radio.cpp:161 speaks of three; the ground station and
  fence failsafes may turn a landing begun by the battery failsafe into RTL, where the radio failsafe leaves it alone
  (events.cpp:62); a battery failsafe set to LAND flies RTL from AUTO (events.cpp 103-165, defines.h:402).
* Parameters: with the records of an older firmware behind the new sentinel, a parameter that is being added when the power fails
  may come up with an old value of another one (AP_Param.cpp:482-483, 908-909): the sentinel is one field of two, and either is
  enough.  The run starts from a blank file, but additions that a power loss cuts short leave records behind the end as well, and a
  later addition, cut short in its turn, makes the list run into them: with three parameters a saved value is then shadowed by an
  old one, as `load_all()` lets the last record win; with two it takes the race on the mask as well.  `LeftBehind` names the
  parameters whose key stands behind the end, and `StoredParametersSurvive` expects nothing of them.  A value whose bytes look like a
  key behind the end would do the same; the model keeps values and keys apart (`ParamAssumption`).
* Terrain: heights that arrive while their slot waits for the card mark it dirty before the card's content was merged
  (TerrainGCS.cpp:285-307), so the write may take heights from the card, and the read that completes later marks the slot valid
  (TerrainIO.cpp:104) though they are not saved; AP_Terrain.h:218 has dirty for that.  `blind` names these grids.
  `seek_offset()` allows a row of the file as many blocks as fit into a degree in steps of `TERRAIN_GRID_BLOCK_SIZE_Y`, 32, and two
  more "to ensure room is available" (TerrainIO.cpp:217-220), but columns are numbered in steps of `TERRAIN_GRID_BLOCK_SPACING_Y`, 28
  (TerrainUtil.cpp:91): at the equator, with a spacing of 100 m, 40 columns and 36 blocks.  The last grids of a row share their places
  with the first of the next, and each write takes the block of the other; the slot of the other stays valid and is not written
  again, so its heights are fetched anew after a restart.  They are never taken for the wrong grid's, as a block carries its
  position.  A write that is cut short (247-254) tears the block that was there; the CRC tells.
* Upload: a partial list is acknowledged with its last item still to come (GCS_Common.cpp:386-405 takes `end_index` for the count, 762;
  the protocol's `end_index` is inclusive, common.xml:1789); a count of zero is never acknowledged, item 0 is asked for until the
  timeout (914); a repeated item is refused with an error acknowledgement while the upload goes on; a station that begins anew at once may
  take the acknowledgement of its former upload for that of the new one.
* Landing: the mission's `DO_PARACHUTE` releases also while the parachute is disabled, which disarms and opens nothing
  (commands_logic.cpp:506, crash_check.cpp:137-148, AP_Parachute.cpp:70); the count of a loss of control is kept while the parachute is
  disabled (crash_check.cpp:71-73), so that after disabling, regaining control and enabling again a shorter loss than "continuously for
  1 second" (63) releases, the case that `ActsOnEvidence` excepts as `stale`; a switch that sets `enabled()` in the second after a release forgets the release
  (AP_Parachute.cpp:58-65); arming and disarming sticks share one counter; the comment of the crash check has 20 degrees and one
  second, the code 30 and two; a motor test reads three parameters back from storage and drops unsaved changes (motor_test.cpp:160-162).
* AutoTune: gains are saved on a disarm with the switch low too (control_autotune.cpp:25-26 "the gains will not be saved when you
  disarm", 919 "i.e. switch is in the high position"); the save is some twenty saves of single values (923-995) into the buffer of
  the storage, and power lost before all are on the card leaves gains of two tunes, also within an axis (`CutOff`); restarting in the middle of a twitch judges a
  twitch flown with other gains; moving the sticks after success loads the originals; with P at its maximum and a weak answer
  twitching has no end (1098, 1153); when the axes to tune are changed in flight, the gains of an axis left out stay as they are;
  accelerations and feed forward are saved but not part of the originals; `AUTOTUNE_MODE_FAILED` is never set; a crash's disarm saves.

### Bounds, and why they are enough

* `Arming`: lockup after 2 units and retry after 1 instead of 2000 and 1000 calls.  The ratio and order are the code's; the clock
  wraps at 5 and the loop count at 3, so both wrap several times in a run, and two passes of the loop fit between two checks.
  The assumption `ConstantsAssumption` says what is needed (the count cannot lap between two checks, the clock not within a
  lockup); the proofs cover the real values.
* `Mission`: three and four commands, jumps to home, to themselves, forwards, backwards and beyond the list, one or two runs or
  endless, a table with two slots so that it overflows, three followed jumps instead of 64, one skipped do command instead of 255.
  Every limit is reached.  The endless-loop guards are what is bounded, so small values make them act more often, not less.  In `mission_plan`
  the limits are above the mission's length, so that no leg is cut short; that a search may end at them too is part of `MissionPlan`
  (`CanEnd`), and the proof covers every limit.  Edits start from
  the empty list and fill three entries.
* `Failsafes`: twelve parameter settings that contain every pair of values of two parameters (no handler reads three), two low
  frames, two and three silent reads, two bad checks; alternating silence and low frames is possible.  The proofs cover all settings
  and bounds.
* `storage`: three lines of five cells, two parameters and the format version, so that a record crosses the end of a line and a
  write of several lines occurs.  The proofs of `Storage` cover any size, those of `Params` any size, number of parameters, values
  and first content of the file.
* `Terrain`: three grids, one of them with nothing to fetch, over two slots: a vehicle that stays has its two grids in the cache, one
  that moves evicts a slot in any state.  A row has three columns and two blocks, and the two grids that have heights, the last of
  one row and the first of the next, share a place; without their exceptions `ValidIsSaved`, `DiskKeepsHeights` and `HeightsArrive`
  each fail in the run.  The proofs cover any number of grids, slots and squares, and any rows, columns and length of a row.
* `Upload`: two links, one of which uploads missions of two items, of one, and of one too many with an item that is refused, parts
  of the first, and other requests; the other clears the list.  Room for one message in each direction, so that sending is deferred;
  two times the patience.  The proof covers any number of links and items.
* `Landing`: triggers of two passes, one for the land detector, which acts when its count is beyond it, and delays of one to three: a
  count that is one too high shows at once.  One fitting at a time in the run, any together in the proofs.  `DISARM_DELAY` is not
  0, the value that switches the timer off (motors.cpp:80): then nobody has to disarm, and `LandingEnds` says nothing.
* `AutoTune`: two of three axes, so that one is left out; levels 0 to 3 with limits 1 and 2; two results in a row; gains within
  and beyond the limits at the start, or of a former tune, which has got to the card or has not (`Origins`); twelve vehicles.  A
  weak answer with P at its maximum, which is measured for ever (1098, 1153), is outside `TuningEnds`.
* Histories (`stall`, `watch`, `origin`, `path`, `started`, `commanded`, `overtaken`, `stored`, `blind`, `begun`, `checked`,
  `stood`, `tilted`, `stale`, `finished`) feed properties only; no action is guarded by one.

### Fairness

* `mission_lives`: `WF(Working)` - the single thread that entered a search goes on with it; `SF(UpdateNav(TRUE))` - a vehicle in AUTO
  verifies its navigation command infinitely often, which is what "it gets there" means.  Stops, resets and selections are not
  fair, and `MissionCompletes` is about missions left alone.
* `failsafes`: `WF(ReadRadio)` - the scheduler calls the radio task in every pass.  Nothing is assumed of the radio: good frames may
  never come, and the property is about the case that they stop.
* `storage`: `WF` of the storage thread's successful steps; the property is about behaviours that are left to them in the end.
* `terrain`: the main loop calls `send_request()` again and again, the I/O thread runs, and the ground station answers what it was asked
  for.  The first and last are weak fairness with ENABLED written out.
* `upload`: on the link that is left, messages are worked off before time passes: a message takes less time than `wp_recv_time`, a
  second.  Before that moment nothing is assumed.
* `landing`: the scheduler comes back to the detectors, `motors_output()` and `auto_disarm_check()`; sticks and mission are not needed.
* `autotune`: a pass of `autotune_run()` that changes the step comes in the end: a twitch ends by its
  timeout, and with nobody at the sticks the vehicle comes level for the half second that is asked for.

Deadlock is checked except in `Failsafes`, whose behaviour is one flight that ends with the disarm, and in `Landing`, where a
settled vehicle may come to rest.

## 4. Proofs

All from the named assumptions on the constants (`ConstantsAssumption`, `MissionAssumption`, ...), which TLC evaluates in every run.

* **ArmingProofs.**  `LockupDisarms` is not inductive: it compares a history with a clock that wraps.  The invariant `TimeInv` adds
  five facts: the two loop counts differ by the passes since the last check, modulo `COUNTMOD` (`CountInv`); a pass restarts both
  history counters (`PassInv`); the timestamp is never older than the last pass (`StallInv`); while armed motors are guarded it is
  at most `LOCKUP` old, except between the two assignments of `failsafe_enable()` (`AgeInv`), and `watch` is at most one ahead of
  its age (`WatchInv`).  One step per action; the arithmetic of the wrapping counters is in the lemmas at the top.
  `TripsOnlyWhenStalled`, an action property, follows from the same invariant in the step of the timer.  `SwitchlessIsGuarded` and
  `EstimatorSeesSticks` have invariants over `pc`, the switches and the motor test of their own.
* **MissionProofs.**  Type correctness (with the jump table, a function whose domain grows, and cursors beyond the list);
  `FlagsAgree`, with edits; `FliesTheMission` and `JumpsBounded` for unedited missions, where the cached command equals the stored one
  and the cursor of a search for a navigation command never returns to home.  That no slot beyond `MAX_JUMPS` is used needs
  cardinalities of finite sets.
  `SearchesGetOn` is the part of `SearchReturns` that has no fairness in it: `CallsLeft` bounds the calls of `get_next_cmd()` that a
  method under way may still make, and every step lowers it, or keeps it and lowers the jumps left.  It needs `LooksWithin`, as a
  look-ahead that jumps have moved counts on from where it last started.
  *Refinement.*  `FollowsThePlanHolds` maps every step to one of `MissionPlan` or to a stutter.  `Reach` is the least set closed under
  the edges of the list; the lemmas `ReachSelf`, `ReachStep`, `ReachTrans` are all that is used of it.  A search is where the plan
  looks next (`OriginInv`), and what it is at can be reached from there (`PathInv`).  The hard case is a mission that completes because
  a limit is reached: `PathInv` therefore also says that as many different jumps, or do commands, have been passed as were counted -
  or else the way can end, as one that passes a command twice always can (`CycleEnds`) - and when the count is used up there are more of them than the limit (`WayEnds`).
  *Legs.*  `DosOfTheLegHolds` is about lists without jumps, where a leg is an interval.  `SearchedLeg` describes it while it is searched
  for, `CurrentLeg` while it is flown: the do commands up to the current one have been started, the current one too unless it was
  selected in a stopped mission or `resume()` is about to start it anew (`ToBeStarted`).
* **FailsafesProofs.**  `IInv` is the conjunction of the types, the four properties and one fact about the counter (below its maximum
  while the estimate is not yet bad).  The lemmas `EnterUsesNoGps` and `ReactStep` say once what any failsafe may do to the mode
  (`React`); each handler then only has to be shown to be such a reaction.
* **StorageProofs**, for the specification of the cache with any calls of the main thread, of which `Params` makes some.
  `UnwrittenIsKnown` and `ScanFindsALine` are inductive with the types and `MaskInv`: while the mask is in a register of the storage
  thread it has a line in hand and the file was read.  Lemmas on lines and cells carry the division.  A call that leaves the image
  `Marked` - what it changed is dirty - keeps them; writes compose such images, so `CacheServesParameters` gives the same invariants
  for the calls that `AP_Param` makes.
  `ParametersStay` is `StoredParametersSurvive`.  Image and file differ while lines wait, and a power loss leaves any mixture, so the
  invariant `Kept` compares the two lists: they are the same up to an offset behind the parameter's last record, and its key stands
  nowhere behind that offset, in the image or in the file.  Whatever cell is copied next, or dropped by the race, this
  stays.  `Visits`, the walk over the records, is recursive; `Chain` describes it without recursion, by the least record at which two
  walks part (`SameWalk`), and only `Chain` is used further on.  `SaveLeaves` says what a save leaves of the list.
* **TerrainProofs.**  `HeightsBelong`, `ValidIsSaved` and `DiskKeepsHeights` hold together: `SlotInv` says what a slot holds and how it
  compares with the card, `BlockInv` the same of the block in each stage of a read or a write, as slot and block may have parted since.
  Both compare with what the card holds of the grid (`Held`).  Only a valid slot may have lost its place to another grid (`Displaced`),
  as nothing else is written while a block is under way; nothing is assumed of the places.
  Every handler is a chain of functions on the record of what it changes, and every function has a lemma that it keeps `MainInv`.
  The loop over the surrounding grids is a recursive function; its lemma takes the least number of turns at which the invariant fails to a
  contradiction.
* **UploadProofs.**  `UploadIsWhole` needs `Agrees`: the item expected next is the one behind those taken, and the mission is no
  longer than announced while the upload lasts.  `InPlace` then survives truncations, which forget the history of the other
  links, and items, which extend it.  `AcceptedIsStored` is about what a station believes, so `StationInv` is an account of everything
  on the way: as long as nothing of its upload has begun there are only refusals for it; then every item on the way and every
  item taken is of its plan, and an acceptance on the way is one of this upload.
* **LandingProofs.**  `CountsInv`: no counter is ahead of the evidence, the count of a loss only when it is `stale`, and the land detector starts from nothing whenever the vehicle
  is landed; `TestInv`: only a motor test has motors armed unchecked or failsafes off.  `ActsOnEvidence`, an action property, follows.
* **AutoTuneProofs.**  `OriginalsInv`: the originals are what is stored, axes that are not tuned are as stored, and a tune in
  progress is one of an enabled axis; `EndInv`: a tune that has succeeded is the one remembered as finished.
  `NoTestedGainsInHand` is inductive with these, `SavesWholeTunes` follows from them, and from `OnCardIs`: each gain on the card
  is what was saved or what it was to replace.

Every type invariant, safety invariant and action property that the runs check, and the refinement, is proved.  Only model-checked are
the eight liveness properties (`SearchReturns`, `MissionCompletes`, `LostRadioIsNoticed`, `AllIsWrittenInTheEnd`, `HeightsArrive`,
`UploadEnds`, `LandingEnds`, `TuningEnds`): the prover has no rules for fairness and ENABLED.  Of the first, `SearchesGetOn` proves
that every step leads nearer to the end; that a step is always possible, which the run shows by the absence of deadlock,
is not proved.  Recursive functions are reasoned about by their least counterexample, as the library's induction takes an operator.

## 5. Not modelled

The repository holds some 300,000 lines, nearly all of them vendored: generated MAVLink code and its test suites, three other vehicles,
drivers, estimators, tools.  The modules are about the part of ArduCopter that decides; they do not try to cover the rest.

* Controllers and estimators: floating point; inputs of the models say what they report.
* The scheduler's time budget: tasks come in any order instead.
* MAVLink packing, logging, conversion of commands to and from MAVLink items, heading and logging queries of `AP_Mission`.
* The XBee link: one blocking caller on a line, with byte parsing; only a test sketch uses it.
* Compass and ESC calibration: procedures that hold the main loop, with nothing beside them; they arm the motors for the bench, which
  `Arming` leaves out.
* In the modelled parts: `Storage` begins after the upgrade from the old file; `Params` has one type and no groups or conversions;
  `Terrain` has no interpolation, and of the geometry only what row, column and place a grid has; `Landing` has no altitude but as an input; `AutoTune` has no accelerations;
  sub-states of RTL, AUTO and FLIP are left out of `Failsafes`.
* `Mission` takes storage as written at once, `Failsafes` takes a crash, a landing and the pilot as a disarm at any time,
  `Upload` takes `clear()` as refused or not (the mission's state is in `Mission`).

## 6. What is left

The plan of modules is done: core (`Arming`, `Mission`, `Failsafes`), then `Storage` with `Params`, `Terrain`, `Upload`, `Landing`,
`AutoTune`.  Worth adding, in this order:

1. Ranking arguments, as for the searches, for the other liveness properties: the storage thread writes a line less each time, a tune and
   a landing come nearer to their ends.
2. `Landing` with the reset of `Mission` on a release, in one instance.
3. A count of zero and the list of a second uploading station in `Upload`, at the price of a larger instance.
