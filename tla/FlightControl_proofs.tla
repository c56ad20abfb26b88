------------------------- MODULE FlightControl_proofs -------------------------
(***************************************************************************)
(* Each operation of FlightControl preserves FcTypeOK and FcInv, for every *)
(* number of calibration samples and of tolerated outliers.  The lemmas    *)
(* are about one call; MainLoop_proofs cites them for the steps of the     *)
(* loop that make it, under the guards of those steps.                     *)
(***************************************************************************)
EXTENDS FlightControl, TLAPS

(* Power-up leaves the state of FcInit, and FcInit satisfies the invariant. *)
LEMMA FcInitInv == FcInit => FcTypeOK /\ FcInv
<1>1. FcInit => FcTypeOK
  <2> SUFFICES ASSUME FcInit PROVE FcTypeOK
    OBVIOUS
  <2>1. /\ calibration_count \in 0 .. CALIBRATION_SAMPLES
        /\ calibration_sum \in 0 .. CALIBRATION_SAMPLES
        /\ calibration_outliers \in 0 .. CALIBRATION_MAX_CONSECUTIVE_OUTLIERS - 1
    BY CalibrationAssumption DEF FcInit
  <2> QED BY <2>1 DEF FcInit, FcTypeOK
<1>2. FcInit => FcInv
  BY CalibrationAssumption
     DEF FcInit, FcInv, BiasIsAverage, NoStaleMotors, IntegralNeedsAirmode
<1> QED BY <1>1, <1>2

(* A processor reset restores it.                                          *)
LEMMA FcResetInv == FcReset => FcTypeOK' /\ FcInv'
<1>1. FcReset => FcTypeOK'
  <2> SUFFICES ASSUME FcReset PROVE FcTypeOK'
    OBVIOUS
  <2>1. /\ calibration_count' \in 0 .. CALIBRATION_SAMPLES
        /\ calibration_sum' \in 0 .. CALIBRATION_SAMPLES
        /\ calibration_outliers' \in 0 .. CALIBRATION_MAX_CONSECUTIVE_OUTLIERS - 1
    BY CalibrationAssumption DEF FcReset
  <2> QED BY <2>1 DEF FcReset, FcTypeOK
<1>2. FcReset => FcInv'
  BY CalibrationAssumption
     DEF FcReset, FcInv, BiasIsAverage, NoStaleMotors, IntegralNeedsAirmode
<1> QED BY <1>1, <1>2

(* The startup interlock, once it has let the craft through, stays open.   *)
LEMMA GuardStaysOpen ==
    ASSUME FcTypeOK, NEW frame \in Frame,
           boot_arm_guard.checked, ~boot_arm_guard.blocked
    PROVE  boot_arm_guard_update(frame) = boot_arm_guard
BY DEF boot_arm_guard_update

(* It blocks only after it has checked a frame.                            *)
LEMMA GuardType ==
    ASSUME FcTypeOK, FcInv, NEW frame \in Frame
    PROVE  /\ boot_arm_guard_update(frame) \in [checked : BOOLEAN, blocked : BOOLEAN]
           /\ boot_arm_guard_update(frame).blocked => boot_arm_guard_update(frame).checked
BY DEF boot_arm_guard_update, FcTypeOK, FcInv, Frame, NoSignal, arm_switch, Throttle

(* One sample, or none, keeps the counters of a running calibration in     *)
(* their ranges and the sum equal to the count.                            *)
LEMMA CountersAfterSample ==
    ASSUME FcTypeOK, FcInv, ~calibrated, NEW frame \in Frame, NEW stationary \in BOOLEAN
    PROVE  /\ KeptCount(frame) \in 0 .. CALIBRATION_SAMPLES - 1
           /\ KeptSum(frame) = KeptCount(frame)
           /\ KeptOutliers(frame) \in 0 .. CALIBRATION_MAX_CONSECUTIVE_OUTLIERS - 1
           /\ CountAfter(frame, stationary) \in 0 .. CALIBRATION_SAMPLES
           /\ SumAfter(frame, stationary) = CountAfter(frame, stationary)
           /\ OutliersAfter(frame, stationary)
                  \in 0 .. CALIBRATION_MAX_CONSECUTIVE_OUTLIERS - 1
<1>1. /\ KeptCount(frame) \in 0 .. CALIBRATION_SAMPLES - 1
      /\ KeptSum(frame) = KeptCount(frame)
      /\ KeptOutliers(frame) \in 0 .. CALIBRATION_MAX_CONSECUTIVE_OUTLIERS - 1
  BY CalibrationAssumption
     DEF FcTypeOK, FcInv, BiasIsAverage, KeptCount, KeptSum, KeptOutliers
<1>2. /\ CountAfter(frame, stationary) \in 0 .. CALIBRATION_SAMPLES
      /\ SumAfter(frame, stationary) = CountAfter(frame, stationary)
  BY <1>1, CalibrationAssumption DEF CountAfter, SumAfter
<1>3. OutliersAfter(frame, stationary) \in 0 .. CALIBRATION_MAX_CONSECUTIVE_OUTLIERS - 1
  BY <1>1, CalibrationAssumption DEF OutliersAfter, outliers_restart
<1> QED BY <1>1, <1>2, <1>3

(* flight_control_update preserves the invariant on every return path.     *)
LEMMA UpdateInv ==
    ASSUME FcTypeOK, FcInv, NEW frame \in Frame, NEW stationary \in BOOLEAN,
           flight_control_update(frame, stationary)
    PROVE  FcTypeOK' /\ FcInv'
<1> USE DEF FcTypeOK, FcInv, BiasIsAverage, NoStaleMotors, IntegralNeedsAirmode
<1>1. /\ boot_arm_guard' = boot_arm_guard_update(frame)
      /\ boot_arm_guard' \in [checked : BOOLEAN, blocked : BOOLEAN]
      /\ boot_arm_guard'.blocked => boot_arm_guard'.checked
      /\ motors' = MotorsAfterUpdate(frame)
      /\ inhibited' = inhibited
  BY GuardType DEF flight_control_update
<1>2. motors' \in {"zero", "fly"}
  BY <1>1 DEF MotorsAfterUpdate
<1>3. armed \/ arm_calibration_active => boot_arm_guard' = boot_arm_guard
  BY <1>1, GuardStaysOpen
<1>4. CASE UpdateBlocked(frame)
  <2>1. motors' = "zero"
    BY <1>1, <1>4 DEF UpdateBlocked, MotorsAfterUpdate
  <2>2. ~armed /\ ~arm_calibration_active
    BY <1>1, <1>3, <1>4 DEF UpdateBlocked
  <2> QED BY <1>1, <1>4, <2>1, <2>2 DEF UpdateBlocked, reset_controller, calibrationVars
<1>5. CASE UpdateWaiting(frame)
  <2>1. motors' = "zero" /\ ~calibrated
    BY <1>1, <1>5 DEF UpdateWaiting, MotorsAfterUpdate
  <2>2. /\ calibration_count' \in 0 .. CALIBRATION_SAMPLES - 1
        /\ calibration_sum' = calibration_count'
        /\ calibration_outliers' \in 0 .. CALIBRATION_MAX_CONSECUTIVE_OUTLIERS - 1
    BY <1>5, <2>1, CountersAfterSample DEF UpdateWaiting
  <2>3. /\ calibration_count' \in 0 .. CALIBRATION_SAMPLES
        /\ calibration_sum' \in 0 .. CALIBRATION_SAMPLES
        /\ calibration_count' < CALIBRATION_SAMPLES
    BY <2>2, CalibrationAssumption
  <2>4. FcTypeOK'
    BY <1>1, <1>5, <2>1, <2>2, <2>3 DEF UpdateWaiting
  <2>5. FcInv'
    BY <1>1, <1>3, <1>5, <2>1, <2>2, <2>3 DEF UpdateWaiting
  <2> QED BY <2>4, <2>5
<1>6. CASE UpdateSampling(frame, stationary)
  <2>1. motors' = "zero" /\ ~calibrated
    BY <1>1, <1>6 DEF UpdateSampling, MotorsAfterUpdate
  <2>2. /\ calibration_count' \in 0 .. CALIBRATION_SAMPLES
        /\ calibration_sum' = calibration_count'
        /\ calibration_outliers' \in 0 .. CALIBRATION_MAX_CONSECUTIVE_OUTLIERS - 1
        /\ calibration_count' < CALIBRATION_SAMPLES
    BY <1>6, <2>1, CountersAfterSample DEF UpdateSampling
  <2>3. FcTypeOK'
    BY <1>1, <1>6, <2>1, <2>2 DEF UpdateSampling
  <2>4. FcInv'
    BY <1>1, <1>3, <1>6, <2>1, <2>2 DEF UpdateSampling
  <2> QED BY <2>3, <2>4
<1>7. CASE UpdateCalibrated(frame, stationary)
  <2>1. motors' = "zero" /\ ~calibrated
    BY <1>1, <1>7 DEF UpdateCalibrated, MotorsAfterUpdate
  <2>2. /\ calibration_count' \in 0 .. CALIBRATION_SAMPLES
        /\ calibration_sum' = calibration_count'
        /\ calibration_outliers' \in 0 .. CALIBRATION_MAX_CONSECUTIVE_OUTLIERS - 1
    BY <1>7, <2>1, CountersAfterSample DEF UpdateCalibrated
  <2>3. calibrated' /\ ~arm_calibration_active'
    BY <1>7 DEF UpdateCalibrated
  <2>4. calibration_sum' \in 0 .. CALIBRATION_SAMPLES
        /\ (calibration_count' = CALIBRATION_SAMPLES => calibration_sum' = CALIBRATION_SAMPLES)
    BY <2>2
  <2>5. FcTypeOK'
    BY <1>1, <1>7, <2>1, <2>2, <2>4 DEF UpdateCalibrated, reset_controller, flight_log_start
  <2>6. FcInv'
    BY <1>1, <1>3, <1>7, <2>1, <2>2, <2>3 DEF UpdateCalibrated, reset_controller, flight_log_start
  <2> QED BY <2>5, <2>6
<1>8. CASE UpdateDisarmed(frame)
  <2>1. motors' = "zero"
    BY <1>1, <1>8 DEF UpdateDisarmed, MotorsAfterUpdate
  <2> QED BY <1>1, <1>3, <1>8, <2>1 DEF UpdateDisarmed, reset_controller, calibrationVars
<1>9. CASE UpdateArmRequest(frame)
  <2>1. motors' = "zero"
    BY <1>1, <1>9 DEF UpdateArmRequest, MotorsAfterUpdate
  <2>2. boot_arm_guard'.checked /\ ~boot_arm_guard'.blocked
    BY <1>1, <1>9
       DEF UpdateArmRequest, boot_arm_guard_update, arm_switch
  <2>3. CASE arm_switch_was_low /\ low_throttle(frame)
    <3>1. begin_calibration(TRUE) /\ ~recording /\ recording' = recording
      BY <1>9, <2>3 DEF UpdateArmRequest
    <3>2. FcTypeOK'
      <4>1. /\ calibration_count' \in 0 .. CALIBRATION_SAMPLES
            /\ calibration_sum' \in 0 .. CALIBRATION_SAMPLES
            /\ calibration_outliers' \in 0 .. CALIBRATION_MAX_CONSECUTIVE_OUTLIERS - 1
        BY <3>1, CalibrationAssumption DEF begin_calibration
      <4> QED BY <1>1, <1>9, <2>1, <3>1, <4>1
                 DEF UpdateArmRequest, begin_calibration, reset_controller
    <3>3. FcInv'
      BY <1>1, <2>1, <2>2, <3>1, CalibrationAssumption DEF begin_calibration, reset_controller
    <3> QED BY <3>2, <3>3
  <2>4. CASE ~(arm_switch_was_low /\ low_throttle(frame))
    BY <1>1, <1>3, <1>9, <2>1, <2>4 DEF UpdateArmRequest, calibrationVars
  <2> QED BY <2>3, <2>4
<1>10. CASE UpdateFlying(frame)
  <2> QED BY <1>1, <1>2, <1>3, <1>10 DEF UpdateFlying, calibrationVars
<1> QED BY <1>4, <1>5, <1>6, <1>7, <1>8, <1>9, <1>10 DEF flight_control_update

(* It arms and begins an arm request only under the conditions of the      *)
(* pilot's side: the frame it is called with has the switch on and the     *)
(* throttle down.                                                          *)
LEMMA UpdateArms ==
    ASSUME FcTypeOK, FcInv, NEW frame \in Frame, NEW stationary \in BOOLEAN,
           flight_control_update(frame, stationary)
    PROVE  /\ armed' => arm_switch(frame)
           /\ ~armed /\ armed' =>
                  arm_calibration_active /\ low_throttle(frame) /\ calibrated'
           /\ ~arm_calibration_active /\ arm_calibration_active' =>
                  arm_switch_was_low /\ arm_switch(frame) /\ low_throttle(frame)
<1> USE DEF FcTypeOK
<1>1. CASE UpdateBlocked(frame)
  BY <1>1 DEF UpdateBlocked
<1>2. CASE UpdateWaiting(frame)
  BY <1>2 DEF UpdateWaiting
<1>3. CASE UpdateSampling(frame, stationary)
  BY <1>3 DEF UpdateSampling
<1>4. CASE UpdateCalibrated(frame, stationary)
  BY <1>4 DEF UpdateCalibrated, abandons_arming
<1>5. CASE UpdateDisarmed(frame)
  BY <1>5 DEF UpdateDisarmed
<1>6. CASE UpdateArmRequest(frame)
  BY <1>6 DEF UpdateArmRequest, begin_calibration
<1>7. CASE UpdateFlying(frame)
  BY <1>7 DEF UpdateFlying
<1> QED BY <1>1, <1>2, <1>3, <1>4, <1>5, <1>6, <1>7 DEF flight_control_update

(* Its effect on the arming stage and the interlock: the interlock trips   *)
(* or stays as it is, and trips only over a craft that is neither armed    *)
(* nor arming; a stage is entered from the one before it, or left for the  *)
(* first one.                                                              *)
LEMMA UpdateStages ==
    ASSUME FcTypeOK, FcInv, NEW frame \in Frame, NEW stationary \in BOOLEAN,
           flight_control_update(frame, stationary)
    PROVE  /\ boot_arm_guard.blocked => boot_arm_guard'.blocked
           /\ boot_arm_guard'.blocked =>
                  ~armed /\ ~arm_calibration_active /\ ~armed' /\ ~arm_calibration_active'
           /\ armed' => armed \/ arm_calibration_active
           /\ armed /\ armed' => ~arm_calibration_active'
           /\ arm_calibration_active' => ~armed
<1> USE DEF FcTypeOK, FcInv
<1>1. boot_arm_guard' = boot_arm_guard_update(frame)
  BY DEF flight_control_update
<1>2. boot_arm_guard.blocked => boot_arm_guard'.blocked
  BY <1>1 DEF boot_arm_guard_update
<1>3. armed \/ arm_calibration_active => ~boot_arm_guard'.blocked
  BY <1>1, GuardStaysOpen
<1>4. FcInv'
  BY UpdateInv
<1>5. armed' => armed \/ arm_calibration_active
  BY UpdateArms
<1>6. arm_calibration_active' => ~armed
  <2>1. armed => calibrated /\ ~arm_calibration_active
    OBVIOUS
  <2>2. ~armed \/ UpdateBlocked(frame) \/ UpdateDisarmed(frame) \/ UpdateFlying(frame)
    BY <2>1 DEF flight_control_update, UpdateWaiting, UpdateSampling, UpdateCalibrated,
                UpdateArmRequest
  <2> QED BY <2>1, <2>2 DEF UpdateBlocked, UpdateDisarmed, UpdateFlying
<1> QED BY <1>2, <1>3, <1>4, <1>5, <1>6

(* A gyro calibration on the host's demand, of a craft that is not armed.  *)
LEMMA StartCalibrationInv ==
    ASSUME FcTypeOK, FcInv, ~armed, flight_control_start_calibration
    PROVE  FcTypeOK' /\ FcInv'
<1>1. FcTypeOK'
  <2>1. /\ calibration_count' \in 0 .. CALIBRATION_SAMPLES
        /\ calibration_sum' \in 0 .. CALIBRATION_SAMPLES
        /\ calibration_outliers' \in 0 .. CALIBRATION_MAX_CONSECUTIVE_OUTLIERS - 1
    BY CalibrationAssumption DEF flight_control_start_calibration, begin_calibration
  <2> QED BY <2>1
             DEF FcTypeOK, flight_control_start_calibration, begin_calibration,
                 reset_controller
<1>2. FcInv'
  BY CalibrationAssumption
     DEF FcTypeOK, FcInv, BiasIsAverage, NoStaleMotors, IntegralNeedsAirmode,
         flight_control_start_calibration, begin_calibration, reset_controller
<1> QED BY <1>1, <1>2

(* The emergency stop, with the motor array its caller has cleared.        *)
LEMMA EmergencyStopInv ==
    ASSUME FcTypeOK, FcInv, flight_control_emergency_stop, motors' = "zero"
    PROVE  FcTypeOK' /\ FcInv'
BY DEF FcTypeOK, FcInv, BiasIsAverage, NoStaleMotors, IntegralNeedsAirmode,
       flight_control_emergency_stop, reset_controller, calibrationVars

(* New tuning or new filters.                                              *)
LEMMA TuningInv ==
    ASSUME FcTypeOK, FcInv, flight_control_setters \/ flight_control_reset_pid_state
    PROVE  FcTypeOK' /\ FcInv'
<1> USE DEF FcTypeOK, FcInv, BiasIsAverage, NoStaleMotors, IntegralNeedsAirmode,
            calibrationVars
<1>1. CASE flight_control_setters
  BY <1>1 DEF flight_control_setters
<1>2. CASE flight_control_reset_pid_state
  BY <1>2 DEF flight_control_reset_pid_state
<1> QED BY <1>1, <1>2

(* A step that writes the motor array only, with a value the armed state   *)
(* allows.                                                                 *)
LEMMA MotorsInv ==
    ASSUME FcTypeOK, FcInv,
           motors' \in {"zero", "fly", "test"},
           motors' = "fly" => armed, motors' = "test" => ~armed,
           UNCHANGED <<calibrated, armed, arm_switch_was_low, arm_calibration_active,
                       boot_arm_guard, calibrationVars, airmode_active, integral,
                       recording, inhibited>>
    PROVE  FcTypeOK' /\ FcInv'
BY DEF FcTypeOK, FcInv, BiasIsAverage, NoStaleMotors, IntegralNeedsAirmode, calibrationVars

(* A step that leaves the flight controller alone.                         *)
LEMMA FcUnchangedInv ==
    ASSUME FcTypeOK, FcInv, UNCHANGED fcVars
    PROVE  FcTypeOK' /\ FcInv'
BY DEF FcTypeOK, FcInv, BiasIsAverage, NoStaleMotors, IntegralNeedsAirmode, fcVars,
       calibrationVars
=============================================================================
