---------------------------- MODULE FlightControl ----------------------------
(***************************************************************************)
(* The arming, gyro-calibration and PID-gating state machine of            *)
(* control/flight_control.c, with the startup interlock of                 *)
(* control/boot_arm_guard.h and the recording flag that                    *)
(* storage/flight_log.c keeps for it.  The module is open: MainLoop drives *)
(* its operations with receiver frames, gyro samples and commands.         *)
(*                                                                         *)
(* Data abstraction.  A gyro sample is stationary or not.  A receiver      *)
(* frame is valid or not, its ARM channel is inside the configured range   *)
(* or not, and its throttle is "low" (at most 5 %, arming allowed), "mid"  *)
(* or "high" (at least 10 %, airmode latches).  Motor values are "zero" or *)
(* what wrote them: "fly" (the mixer) or "test" (the bench test).          *)
(***************************************************************************)
EXTENDS Naturals

CONSTANTS
    CALIBRATION_SAMPLES,                  \* stationary samples per calibration
    CALIBRATION_MAX_CONSECUTIVE_OUTLIERS  \* moving samples that restart it

ASSUME CalibrationAssumption ==
    /\ CALIBRATION_SAMPLES \in Nat \ {0, 1}
    /\ CALIBRATION_MAX_CONSECUTIVE_OUTLIERS \in Nat \ {0}

VARIABLES
    calibrated, armed, arm_switch_was_low, arm_calibration_active,
    boot_arm_guard,          \* [checked, blocked]
    calibration_count,       \* samples counted so far
    calibration_sum,         \* samples really accumulated in sum_x, sum_y, sum_z
    calibration_outliers,
    airmode_active,
    integral,                \* some axis holds a non-zero I term
    motors,                  \* the motor array the caller passes in
    recording, inhibited     \* flight_log.c

fcVars == <<calibrated, armed, arm_switch_was_low, arm_calibration_active,
            boot_arm_guard, calibration_count, calibration_sum,
            calibration_outliers, airmode_active, integral, motors,
            recording, inhibited>>

calibrationVars == <<calibration_count, calibration_sum, calibration_outliers>>

-----------------------------------------------------------------------------
(* Receiver frames.  Channel values of an invalid frame are never used, so *)
(* one value stands for all of them.                                       *)

Throttle == {"low", "mid", "high"}

NoSignal == [valid |-> FALSE, in_range |-> FALSE, throttle |-> "low"]

Frame == {NoSignal} \cup
         [valid : {TRUE}, in_range : BOOLEAN, throttle : Throttle]

arm_switch(rx) == rx.valid /\ rx.in_range

low_throttle(rx) == rx.throttle = "low"

FcTypeOK ==
    /\ calibrated \in BOOLEAN /\ armed \in BOOLEAN
    /\ arm_switch_was_low \in BOOLEAN /\ arm_calibration_active \in BOOLEAN
    /\ boot_arm_guard \in [checked : BOOLEAN, blocked : BOOLEAN]
    /\ calibration_count \in 0 .. CALIBRATION_SAMPLES
    /\ calibration_sum \in 0 .. CALIBRATION_SAMPLES
    /\ calibration_outliers \in 0 .. CALIBRATION_MAX_CONSECUTIVE_OUTLIERS - 1
    /\ airmode_active \in BOOLEAN /\ integral \in BOOLEAN
    /\ motors \in {"zero", "fly", "test"}
    /\ recording \in BOOLEAN /\ inhibited \in BOOLEAN

FcInit ==
    /\ calibrated = FALSE /\ armed = FALSE
    /\ arm_switch_was_low = FALSE /\ arm_calibration_active = FALSE
    /\ boot_arm_guard = [checked |-> FALSE, blocked |-> FALSE]
    /\ calibration_count = 0 /\ calibration_sum = 0 /\ calibration_outliers = 0
    /\ airmode_active = FALSE /\ integral = FALSE
    /\ motors = "zero"
    /\ recording = FALSE /\ inhibited = FALSE

(* A processor reset: the static state is what flight_control_init leaves. *)
FcReset ==
    /\ calibrated' = FALSE /\ armed' = FALSE
    /\ arm_switch_was_low' = FALSE /\ arm_calibration_active' = FALSE
    /\ boot_arm_guard' = [checked |-> FALSE, blocked |-> FALSE]
    /\ calibration_count' = 0 /\ calibration_sum' = 0 /\ calibration_outliers' = 0
    /\ airmode_active' = FALSE /\ integral' = FALSE
    /\ motors' = "zero"
    /\ recording' = FALSE /\ inhibited' = FALSE

-----------------------------------------------------------------------------
(* Helpers shared by the operations.                                       *)

reset_controller == airmode_active' = FALSE /\ integral' = FALSE

begin_calibration(for_arm) ==
    /\ calibrated' = FALSE /\ armed' = FALSE
    /\ arm_calibration_active' = for_arm
    /\ calibration_count' = 0 /\ calibration_sum' = 0 /\ calibration_outliers' = 0
    /\ reset_controller

flight_log_start == recording' = (recording \/ ~inhibited)

flight_log_set_inhibited(value) ==
    /\ inhibited' = value
    /\ recording' = (recording /\ ~value)

ForgetfulGuard(rx) ==
    IF rx.valid THEN [checked |-> TRUE, blocked |-> arm_switch(rx)]
                ELSE boot_arm_guard

(* Only the first valid frame that reaches the guard decides.              *)
boot_arm_guard_update(rx) ==
    IF ~boot_arm_guard.checked /\ rx.valid
    THEN [checked |-> TRUE, blocked |-> arm_switch(rx)]
    ELSE boot_arm_guard

-----------------------------------------------------------------------------
(* flight_control_update, one action per branch it can return from.        *)

UpdateBlocked(rx) ==
    /\ boot_arm_guard_update(rx).blocked
    /\ armed' = FALSE
    /\ reset_controller
    /\ UNCHANGED <<calibrated, arm_switch_was_low, arm_calibration_active,
                   calibrationVars, recording>>

NeverAbandons(rx) == FALSE

(* An arm request dies as soon as the pilot stops holding it.              *)
abandons_arming(rx) ==
    arm_calibration_active /\ ~(arm_switch(rx) /\ low_throttle(rx))

may_calibrate(rx) ==
    IF arm_calibration_active /\ ~abandons_arming(rx) THEN TRUE
                                                      ELSE ~arm_switch(rx)

(* The counters after the abort of an arm request, before the new sample.  *)
KeptCount(rx) == IF abandons_arming(rx) THEN 0 ELSE calibration_count
KeptSum(rx) == IF abandons_arming(rx) THEN 0 ELSE calibration_sum
KeptOutliers(rx) == IF abandons_arming(rx) THEN 0 ELSE calibration_outliers

(* The first sample becomes the reference and is accepted unchecked; a     *)
(* later one is compared with it.                                          *)
accepts_sample(rx, stationary) == KeptCount(rx) = 0 \/ stationary

outliers_restart(rx, stationary) ==
    /\ ~accepts_sample(rx, stationary)
    /\ KeptOutliers(rx) + 1 >= CALIBRATION_MAX_CONSECUTIVE_OUTLIERS

OutliersAfter(rx, stationary) ==
    IF ~accepts_sample(rx, stationary)
    THEN IF outliers_restart(rx, stationary) THEN 0 ELSE KeptOutliers(rx) + 1
    ELSE IF KeptCount(rx) = 0 THEN KeptOutliers(rx) ELSE 0

CountAfter(rx, stationary) ==
    IF accepts_sample(rx, stationary) THEN KeptCount(rx) + 1
    ELSE IF outliers_restart(rx, stationary) THEN 0 ELSE KeptCount(rx)

SumSurvivesRestart(rx, stationary) ==
    IF accepts_sample(rx, stationary) /\ KeptSum(rx) < CALIBRATION_SAMPLES
    THEN KeptSum(rx) + 1 ELSE KeptSum(rx)

SumAfter(rx, stationary) ==
    IF accepts_sample(rx, stationary) THEN KeptSum(rx) + 1
    ELSE IF outliers_restart(rx, stationary) THEN 0 ELSE KeptSum(rx)

(* The update paused: no sample is taken.                                  *)
UpdateWaiting(rx) ==
    /\ ~boot_arm_guard_update(rx).blocked
    /\ ~calibrated /\ ~may_calibrate(rx)
    /\ arm_calibration_active' = (arm_calibration_active /\ ~abandons_arming(rx))
    /\ calibration_count' = KeptCount(rx)
    /\ calibration_sum' = KeptSum(rx)
    /\ calibration_outliers' = KeptOutliers(rx)
    /\ armed' = FALSE
    /\ recording' = (recording /\ ~armed)
    /\ UNCHANGED <<calibrated, arm_switch_was_low, airmode_active, integral>>

(* One more sample, not yet the last.                                      *)
UpdateSampling(rx, stationary) ==
    /\ ~boot_arm_guard_update(rx).blocked
    /\ ~calibrated /\ may_calibrate(rx)
    /\ CountAfter(rx, stationary) < CALIBRATION_SAMPLES
    /\ arm_calibration_active' = (arm_calibration_active /\ ~abandons_arming(rx))
    /\ calibration_count' = CountAfter(rx, stationary)
    /\ calibration_sum' = SumAfter(rx, stationary)
    /\ calibration_outliers' = OutliersAfter(rx, stationary)
    /\ armed' = FALSE
    /\ recording' = (recording /\ ~armed)
    /\ UNCHANGED <<calibrated, arm_switch_was_low, airmode_active, integral>>

(* The last sample: the bias is known, and an arm request arms.            *)
UpdateCalibrated(rx, stationary) ==
    /\ ~boot_arm_guard_update(rx).blocked
    /\ ~calibrated /\ may_calibrate(rx)
    /\ CountAfter(rx, stationary) >= CALIBRATION_SAMPLES
    /\ calibration_count' = CountAfter(rx, stationary)
    /\ calibration_sum' = SumAfter(rx, stationary)
    /\ calibration_outliers' = OutliersAfter(rx, stationary)
    /\ calibrated' = TRUE
    /\ arm_calibration_active' = FALSE
    /\ IF arm_calibration_active /\ ~abandons_arming(rx)
       THEN armed' = TRUE /\ reset_controller /\ flight_log_start
       ELSE /\ armed' = FALSE
            /\ recording' = (recording /\ ~armed)
            /\ UNCHANGED <<airmode_active, integral>>
    /\ UNCHANGED arm_switch_was_low

ForgetsLogStop(rx) ==
    /\ ~boot_arm_guard_update(rx).blocked
    /\ calibrated /\ ~arm_switch(rx)
    /\ arm_switch_was_low' = TRUE
    /\ armed' = FALSE
    /\ reset_controller
    /\ UNCHANGED <<calibrated, arm_calibration_active, calibrationVars, recording>>

(* Switch off or receiver lost.  arm_switch is false in both cases, so a   *)
(* lost receiver counts as having seen the switch low.                     *)
UpdateDisarmed(rx) ==
    /\ ~boot_arm_guard_update(rx).blocked
    /\ calibrated /\ ~arm_switch(rx)
    /\ arm_switch_was_low' = TRUE
    /\ recording' = (recording /\ ~armed)
    /\ armed' = FALSE
    /\ reset_controller
    /\ UNCHANGED <<calibrated, arm_calibration_active, calibrationVars>>

(* Switch on, disarmed: refused, or the calibration of an arm request.     *)
UpdateArmRequest(rx) ==
    /\ ~boot_arm_guard_update(rx).blocked
    /\ calibrated /\ arm_switch(rx) /\ ~armed
    /\ IF arm_switch_was_low /\ low_throttle(rx)
       THEN begin_calibration(TRUE)
       ELSE UNCHANGED <<calibrated, armed, arm_calibration_active,
                        calibrationVars, airmode_active, integral>>
    /\ UNCHANGED <<arm_switch_was_low, recording>>

IntegratesOnGround(rx) ==
    /\ ~boot_arm_guard_update(rx).blocked
    /\ calibrated /\ arm_switch(rx) /\ armed
    /\ airmode_active' = (airmode_active \/ rx.throttle = "high")
    /\ integral' \in BOOLEAN
    /\ UNCHANGED <<calibrated, armed, arm_switch_was_low, arm_calibration_active,
                   calibrationVars, recording>>

(* Armed: airmode latches before the PID runs; the I term stays empty      *)
(* until it has; the mixer writes the motors; a log record is taken.       *)
UpdateFlying(rx) ==
    /\ ~boot_arm_guard_update(rx).blocked
    /\ calibrated /\ arm_switch(rx) /\ armed
    /\ airmode_active' = (airmode_active \/ rx.throttle = "high")
    /\ integral' \in IF airmode_active' THEN BOOLEAN ELSE {FALSE}
    /\ UNCHANGED <<calibrated, armed, arm_switch_was_low, arm_calibration_active,
                   calibrationVars, recording>>

(* The motor array is cleared on entry and written again only in flight.   *)
MotorsAfterUpdate(rx) ==
    IF /\ ~boot_arm_guard_update(rx).blocked
       /\ calibrated /\ arm_switch(rx) /\ armed
    THEN "fly" ELSE "zero"

flight_control_update(rx, stationary) ==
    /\ boot_arm_guard' = boot_arm_guard_update(rx)
    /\ motors' = MotorsAfterUpdate(rx)
    /\ UNCHANGED inhibited
    /\ \/ UpdateBlocked(rx)
       \/ UpdateWaiting(rx)
       \/ UpdateSampling(rx, stationary)
       \/ UpdateCalibrated(rx, stationary)
       \/ UpdateDisarmed(rx)
       \/ UpdateArmRequest(rx)
       \/ UpdateFlying(rx)

-----------------------------------------------------------------------------
(* The other entry points.                                                 *)

flight_control_start_calibration ==
    /\ recording' = (recording /\ ~armed)
    /\ arm_switch_was_low' = FALSE
    /\ begin_calibration(FALSE)
    /\ UNCHANGED <<boot_arm_guard, motors, inhibited>>

KeepsArmed ==
    /\ arm_switch_was_low' = FALSE
    /\ reset_controller
    /\ UNCHANGED <<armed, recording, calibrated, arm_calibration_active,
                   boot_arm_guard, calibrationVars, inhibited>>

(* The arm request survives: arm_calibration_active is left alone.         *)
flight_control_emergency_stop ==
    /\ recording' = (recording /\ ~armed)
    /\ armed' = FALSE
    /\ arm_switch_was_low' = FALSE
    /\ reset_controller
    /\ UNCHANGED <<calibrated, arm_calibration_active, boot_arm_guard,
                   calibrationVars, inhibited>>

flight_control_reset_pid_state ==
    /\ airmode_active' = (armed /\ airmode_active)
    /\ integral' = FALSE
    /\ UNCHANGED <<calibrated, armed, arm_switch_was_low, arm_calibration_active,
                   boot_arm_guard, calibrationVars, motors, recording, inhibited>>

(* The tuning setters: each returns at once while armed.                   *)
flight_control_setters ==
    /\ airmode_active' = (armed /\ airmode_active)
    /\ integral' = (armed /\ integral)
    /\ UNCHANGED <<calibrated, armed, arm_switch_was_low, arm_calibration_active,
                   boot_arm_guard, calibrationVars, motors, recording, inhibited>>
-----------------------------------------------------------------------------
(* Safety, of the flight controller whatever the loop around it does.      *)

(* The bias is the average of exactly the samples that were summed: no     *)
(* abort, restart or emergency stop leaves a count and a sum that disagree *)
(* (flight_control.c:334-389).                                             *)
BiasIsAverage == calibration_sum = calibration_count

(* The mixer's values never outlive the armed state in the motor array     *)
(* that later iterations write again, and bench-test values never survive  *)
(* into an armed iteration.                                                *)
NoStaleMotors ==
    /\ motors = "fly" => armed
    /\ motors = "test" => ~armed

(* I-term accumulation starts only once airmode has latched, and airmode   *)
(* only in flight (comment at flight_control.c:449).                       *)
IntegralNeedsAirmode == (integral => airmode_active) /\ (airmode_active => armed)

(* The invariant of the operations, on the conditions their callers keep:  *)
(* the three properties, and what the arming stages imply.                 *)
FcInv ==
    /\ BiasIsAverage /\ NoStaleMotors /\ IntegralNeedsAirmode
    /\ calibrated => ~arm_calibration_active
    /\ ~calibrated => calibration_count < CALIBRATION_SAMPLES
    /\ armed => calibrated
    /\ boot_arm_guard.blocked => boot_arm_guard.checked
    /\ armed \/ arm_calibration_active =>
           boot_arm_guard.checked /\ ~boot_arm_guard.blocked
    /\ recording => armed /\ ~inhibited
=============================================================================
