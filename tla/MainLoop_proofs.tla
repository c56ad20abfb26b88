---------------------------- MODULE MainLoop_proofs ----------------------------
(***************************************************************************)
(* IInv is an inductive invariant of MainLoop for every number of samples, *)
(* outliers, IMU failures, loops per sample and test iterations, and the   *)
(* safety and action properties that TLC checks on a small instance, the   *)
(* refinement of MotorInterlock among them, follow from it.                *)
(***************************************************************************)
EXTENDS MainLoop, FlightControl_proofs

-----------------------------------------------------------------------------
(* The invariant holds after power-up.                                     *)
LEMMA InitInv == Init => IInv
<1> SUFFICES ASSUME Init PROVE IInv
  OBVIOUS
<1>1. FcTypeOK /\ FcInv
  BY FcInitInv DEF Init
<1>2. TypeOK
  <2>1. rx \in Frame
    BY DEF Init, Frame
  <2>2. /\ consecutive_imu_failures \in 0 .. IMU_FAILURE_LIMIT
        /\ imu_phase \in 0 .. LOOPS_PER_SAMPLE - 1
        /\ motor_test_age \in 0 .. MOTOR_TEST_TIMEOUT
    BY LoopAssumption DEF Init
  <2> QED BY <1>1, <2>1, <2>2 DEF Init, TypeOK
<1>3. ArmedIsReady /\ LogInv /\ TestInv
  BY DEF Init, FcInit, ArmedIsReady, LogInv, TestInv
<1>4. ImuInv
  BY LoopAssumption DEF Init, ImuInv
<1> QED BY <1>1, <1>2, <1>3, <1>4 DEF IInv

(* The receiver part of an iteration.                                      *)
LEMMA ReceiveInv == IInv /\ Receive => IInv'
<1> SUFFICES ASSUME IInv, Receive PROVE IInv'
  OBVIOUS
<1>1. FcTypeOK' /\ FcInv'
  BY FcUnchangedInv DEF IInv, TypeOK, Receive
<1>2. motor_test_age' \in 0 .. MOTOR_TEST_TIMEOUT
  BY LoopAssumption DEF IInv, TypeOK, Receive
<1>3. TypeOK'
  BY <1>1, <1>2 DEF IInv, TypeOK, Receive, imuVars, menuVars
<1>4. ArmedIsReady' /\ LogInv' /\ ImuInv'
  BY DEF IInv, ArmedIsReady, LogInv, ImuInv, Receive, fcVars, imuVars, menuVars
<1>5. TestInv'
  BY DEF IInv, TestInv, Receive, fcVars
<1> QED BY <1>1, <1>3, <1>4, <1>5 DEF IInv

(* The tuning menu: it opens only over a craft that is not armed.          *)
LEMMA MenuInv == IInv /\ Menu => IInv'
<1> SUFFICES ASSUME IInv, Menu PROVE IInv'
  OBVIOUS
<1>1. UNCHANGED fcVars \/ flight_control_setters
  BY DEF Menu, MenuForcedClosed, MenuIdle, MenuOpens, MenuShown
<1>2. FcTypeOK' /\ FcInv'
  BY <1>1, FcUnchangedInv, TuningInv DEF IInv, TypeOK
<1>3. /\ armed' = armed /\ inhibited' = inhibited
      /\ UNCHANGED <<calibrated, arm_calibration_active, boot_arm_guard>>
  BY <1>1 DEF fcVars, flight_control_setters
<1>4. menu_active' \in BOOLEAN /\ entry_started' \in BOOLEAN
  BY DEF IInv, TypeOK, Menu, MenuForcedClosed, MenuIdle, MenuOpens, MenuShown, menuVars
<1>5. menu_active' => menu_active \/ ~armed
  BY DEF Menu, MenuForcedClosed, MenuIdle, MenuOpens, MenuShown, menuVars, entry_possible
<1>6. TypeOK'
  BY <1>2, <1>4 DEF IInv, TypeOK, Menu, imuVars, hostVars, testVars
<1>7. ArmedIsReady' /\ LogInv' /\ TestInv' /\ ImuInv'
  BY <1>3, <1>5
     DEF IInv, ArmedIsReady, LogInv, TestInv, ImuInv, Menu, imuVars, hostVars, testVars
<1> QED BY <1>2, <1>6, <1>7 DEF IInv

(* What the parts of the iteration leave alone, for the state around the   *)
(* flight controller: a step that keeps the IMU, the menu and the          *)
(* passthrough, that arms nobody, and under which the bench test goes on   *)
(* or starts only over a craft that is not armed.                          *)
LEMMA HostKeepsInv ==
    ASSUME IInv, FcTypeOK', FcInv',
           UNCHANGED <<pc, imuVars, menuVars, esc_frame>>,
           rx' \in Frame, armed' => armed,
           passthrough' = passthrough \/ ~armed,
           passthrough' \in BOOLEAN, motor_test_enabled' \in BOOLEAN,
           motor_test_spin' \in BOOLEAN, motor_test_age' \in 0 .. MOTOR_TEST_TIMEOUT,
           pid_simulation_enabled' \in BOOLEAN, reset_pending' \in BOOLEAN,
           inhibited' = pid_simulation_enabled',
           armed /\ motor_test_enabled' => motor_test_enabled /\ rx' = rx
    PROVE  IInv'
<1>1. TypeOK'
  BY DEF IInv, TypeOK, imuVars, menuVars
<1>2. ArmedIsReady'
  BY DEF IInv, FcInv, ArmedIsReady, imuVars, menuVars
<1>3. LogInv' /\ TestInv' /\ ImuInv'
  BY DEF IInv, TestInv, LogInv, ImuInv, imuVars
<1> QED BY <1>1, <1>2, <1>3 DEF IInv

(* The commands that call the flight controller.                           *)
LEMMA ControllerCommandInv ==
    IInv /\ (CalibrateGyro \/ PidSimReset \/ SetSettings) => IInv'
<1> SUFFICES ASSUME IInv, CalibrateGyro \/ PidSimReset \/ SetSettings PROVE IInv'
  OBVIOUS
<1>1. FcTypeOK' /\ FcInv'
  BY StartCalibrationInv, TuningInv
     DEF IInv, TypeOK, CalibrateGyro, PidSimReset, SetSettings, config_allowed
<1>2. (armed' => armed) /\ inhibited' = inhibited
  BY DEF CalibrateGyro, PidSimReset, SetSettings, flight_control_start_calibration,
         begin_calibration, flight_control_reset_pid_state, flight_control_setters
<1>3. rx' \in Frame /\ (rx' = rx \/ ~armed)
  BY DEF IInv, TypeOK, CalibrateGyro, PidSimReset, SetSettings, config_allowed, Frame
<1>4. /\ UNCHANGED <<pc, imuVars, menuVars, passthrough, esc_frame>>
      /\ UNCHANGED <<motor_test_enabled, motor_test_spin, motor_test_age>>
      /\ UNCHANGED <<pid_simulation_enabled, reset_pending>>
  BY DEF CalibrateGyro, PidSimReset, SetSettings, Command, testVars
<1> QED BY <1>1, <1>2, <1>3, <1>4, HostKeepsInv DEF IInv, TypeOK, LogInv

(* The commands that start or end a PID simulation, and the log with it.   *)
LEMMA SimulationCommandInv == IInv /\ (PidSimEnable \/ PidSimDisable) => IInv'
<1> SUFFICES ASSUME IInv, PidSimEnable \/ PidSimDisable PROVE IInv'
  OBVIOUS
<1>1. /\ ~armed /\ armed' = armed /\ inhibited' \in BOOLEAN
      /\ inhibited' = pid_simulation_enabled' /\ ~recording /\ recording' = FALSE
      /\ UNCHANGED <<calibrated, arm_switch_was_low, arm_calibration_active,
                     boot_arm_guard, calibrationVars, airmode_active, integral, motors>>
  BY DEF IInv, FcInv, PidSimEnable, PidSimDisable, config_allowed, flight_log_set_inhibited
<1>2. FcTypeOK' /\ FcInv'
  <2>1. FcTypeOK'
    BY <1>1 DEF IInv, TypeOK, FcTypeOK, calibrationVars
  <2>2. FcInv'
    BY <1>1 DEF IInv, FcInv, BiasIsAverage, NoStaleMotors, IntegralNeedsAirmode,
                calibrationVars
  <2> QED BY <2>1, <2>2
<1>3. UNCHANGED <<pc, rx, imuVars, menuVars, passthrough, esc_frame, reset_pending>>
  BY DEF PidSimEnable, PidSimDisable, Command
<1>4. /\ motor_test_enabled' \in BOOLEAN /\ motor_test_spin' \in BOOLEAN
      /\ motor_test_age' \in 0 .. MOTOR_TEST_TIMEOUT
  <2>1. 0 \in 0 .. MOTOR_TEST_TIMEOUT
    BY LoopAssumption
  <2> QED BY <2>1 DEF IInv, TypeOK, PidSimEnable, PidSimDisable, motor_test_cancel, testVars
<1> QED BY <1>1, <1>2, <1>3, <1>4, HostKeepsInv DEF IInv, TypeOK

(* The commands of the bench test, the restarts and the ESC passthrough,   *)
(* none of which touches the flight controller.                            *)
LEMMA OtherCommandInv ==
    IInv /\ (\/ Bye \/ EnterDfu \/ Reboot \/ MotorTestEnable \/ MotorTestDisable
             \/ MotorTest \/ PassthroughBegin \/ PassthroughExit) => IInv'
<1> SUFFICES ASSUME IInv,
                    \/ Bye \/ EnterDfu \/ Reboot \/ MotorTestEnable \/ MotorTestDisable
                    \/ MotorTest \/ PassthroughBegin \/ PassthroughExit
             PROVE  IInv'
  OBVIOUS
<1> USE DEF Command, config_allowed, testVars, motor_test_cancel
<1>1. FcTypeOK' /\ FcInv' /\ armed' = armed /\ inhibited' = inhibited
  <2>1. UNCHANGED fcVars
    BY DEF Bye, EnterDfu, Reboot, MotorTestEnable, MotorTestDisable, MotorTest,
           PassthroughBegin, PassthroughExit
  <2> QED BY <2>1, FcUnchangedInv DEF IInv, TypeOK, fcVars
<1>2. /\ UNCHANGED <<pc, rx, imuVars, menuVars, esc_frame, pid_simulation_enabled>>
      /\ passthrough' \in BOOLEAN /\ reset_pending' \in BOOLEAN
  BY DEF IInv, TypeOK, Bye, EnterDfu, Reboot, MotorTestEnable, MotorTestDisable, MotorTest,
         PassthroughBegin, PassthroughExit
<1>3. passthrough' = passthrough \/ ~armed
  BY DEF IInv, ArmedIsReady, Bye, EnterDfu, Reboot, MotorTestEnable, MotorTestDisable,
         MotorTest, PassthroughBegin, PassthroughExit
<1>4. /\ motor_test_enabled' \in BOOLEAN /\ motor_test_spin' \in BOOLEAN
      /\ motor_test_age' \in 0 .. MOTOR_TEST_TIMEOUT
      /\ armed /\ motor_test_enabled' => motor_test_enabled
  <2>1. 0 \in 0 .. MOTOR_TEST_TIMEOUT
    BY LoopAssumption
  <2>2. /\ motor_test_enabled' \in BOOLEAN /\ motor_test_spin' \in BOOLEAN
        /\ motor_test_age' \in 0 .. MOTOR_TEST_TIMEOUT
    BY <2>1 DEF IInv, TypeOK, Bye, EnterDfu, Reboot, MotorTestEnable, MotorTestDisable,
                MotorTest, PassthroughBegin, PassthroughExit
  <2>3. armed /\ motor_test_enabled' => motor_test_enabled
    BY DEF IInv, TypeOK, Bye, EnterDfu, Reboot, MotorTestEnable, MotorTestDisable,
           MotorTest, PassthroughBegin, PassthroughExit
  <2> QED BY <2>2, <2>3
<1> QED BY <1>1, <1>2, <1>3, <1>4, HostKeepsInv DEF IInv, TypeOK, LogInv

(* A processor restart begins again from a state like the initial one.     *)
LEMMA ResetInv == IInv /\ ProcessorReset => IInv'
<1> SUFFICES ASSUME IInv, ProcessorReset PROVE IInv'
  OBVIOUS
<1>1. FcTypeOK' /\ FcInv'
  BY FcResetInv DEF ProcessorReset
<1>2. /\ rx' \in Frame
      /\ consecutive_imu_failures' \in 0 .. IMU_FAILURE_LIMIT
      /\ consecutive_imu_failures' < IMU_FAILURE_LIMIT
      /\ imu_phase' \in 0 .. LOOPS_PER_SAMPLE - 1
      /\ motor_test_age' \in 0 .. MOTOR_TEST_TIMEOUT
  BY LoopAssumption DEF ProcessorReset, motor_test_cancel, Frame
<1>3. TypeOK'
  BY <1>1, <1>2 DEF ProcessorReset, motor_test_cancel, TypeOK
<1>4. ArmedIsReady' /\ LogInv' /\ TestInv' /\ ImuInv'
  BY <1>2 DEF ProcessorReset, FcReset, ArmedIsReady, LogInv, TestInv, ImuInv
<1> QED BY <1>1, <1>3, <1>4 DEF IInv
(* The host's lines are done.                                              *)
LEMMA ConfigDoneInv == IInv /\ ConfigDone => IInv'
<1> SUFFICES ASSUME IInv, ConfigDone PROVE IInv'
  OBVIOUS
<1>1. FcTypeOK' /\ FcInv'
  BY FcUnchangedInv DEF IInv, TypeOK, ConfigDone
<1>2. TypeOK'
  BY <1>1 DEF IInv, TypeOK, ConfigDone, imuVars, menuVars, hostVars, testVars
<1>3. ArmedIsReady' /\ LogInv' /\ TestInv' /\ ImuInv'
  BY DEF IInv, ArmedIsReady, LogInv, TestInv, ImuInv, ConfigDone, fcVars, imuVars, menuVars,
         hostVars, testVars
<1> QED BY <1>1, <1>2, <1>3 DEF IInv

(* What the control part leaves in place: a step that moves to the output  *)
(* part and changes the controller and the IMU only.                       *)
LEMMA ControlKeepsInv ==
    ASSUME IInv, Control, FcTypeOK', FcInv',
           imu_ready' \in BOOLEAN, consecutive_imu_failures' \in 0 .. IMU_FAILURE_LIMIT,
           ImuInv', inhibited' = inhibited,
           armed' => imu_ready' /\ ~menu_active /\ (motor_test_enabled => arm_switch(rx))
    PROVE  IInv'
<1>1. imu_phase' \in 0 .. LOOPS_PER_SAMPLE - 1
  BY LoopAssumption DEF IInv, TypeOK, Control, NextImuPhase
<1>2. TypeOK'
  BY <1>1 DEF IInv, TypeOK, Control, menuVars, hostVars, testVars
<1>3. ArmedIsReady'
  BY DEF IInv, FcInv, ArmedIsReady, ImuInv, Control, menuVars, hostVars
<1>4. LogInv' /\ TestInv'
  BY DEF IInv, LogInv, TestInv, Control, hostVars, testVars
<1> QED BY <1>2, <1>3, <1>4 DEF IInv

(* The loop iterations between two samples.                                *)
LEMMA NoSampleInv == IInv /\ NoSampleDue => IInv'
<1> SUFFICES ASSUME IInv, NoSampleDue PROVE IInv'
  OBVIOUS
<1>1. Control /\ FcTypeOK' /\ FcInv'
  BY FcUnchangedInv DEF IInv, TypeOK, NoSampleDue
<1>2. ImuInv' /\ inhibited' = inhibited /\ armed' = armed
  BY DEF IInv, ImuInv, NoSampleDue, fcVars
<1>3. armed => imu_ready /\ ~menu_active /\ ~motor_test_enabled
  BY DEF IInv, ArmedIsReady, TestInv, NoSampleDue, Control
<1> QED BY <1>1, <1>2, <1>3, ControlKeepsInv DEF IInv, TypeOK, NoSampleDue

(* A good sample reaches the flight controller.                            *)
LEMMA SampleReadInv ==
    ASSUME IInv, NEW stationary \in BOOLEAN, SampleRead(stationary)
    PROVE  IInv'
<1>1. Control /\ FcTypeOK' /\ FcInv' /\ (armed' => arm_switch(rx))
  BY UpdateInv, UpdateArms DEF IInv, TypeOK, SampleRead
<1>2. /\ imu_ready' = imu_ready /\ imu_ready /\ ~menu_active
      /\ consecutive_imu_failures' \in 0 .. IMU_FAILURE_LIMIT
      /\ ImuInv' /\ inhibited' = inhibited
  BY LoopAssumption DEF SampleRead, ImuInv, flight_control_update
<1> QED BY <1>1, <1>2, ControlKeepsInv DEF IInv, TypeOK

(* A good sample while the tuning menu is shown: the controller does not   *)
(* run.                                                                    *)
LEMMA SampleInMenuInv == IInv /\ SampleReadInMenu => IInv'
<1> SUFFICES ASSUME IInv, SampleReadInMenu PROVE IInv'
  OBVIOUS
<1>1. Control /\ FcTypeOK' /\ FcInv'
  BY MotorsInv DEF IInv, TypeOK, SampleReadInMenu
<1>2. /\ imu_ready' = imu_ready /\ inhibited' = inhibited /\ ~armed'
      /\ consecutive_imu_failures' \in 0 .. IMU_FAILURE_LIMIT /\ ImuInv'
  BY LoopAssumption DEF IInv, ArmedIsReady, SampleReadInMenu, ImuInv
<1> QED BY <1>1, <1>2, ControlKeepsInv DEF IInv, TypeOK

(* A failed read with failures to spare, and the one that uses them up.    *)
LEMMA SampleMissedInv == IInv /\ (SampleMissed \/ ImuLost) => IInv'
<1> SUFFICES ASSUME IInv, SampleMissed \/ ImuLost PROVE IInv'
  OBVIOUS
<1>1. FailuresAfterMiss \in 0 .. IMU_FAILURE_LIMIT
  BY LoopAssumption DEF IInv, TypeOK, FailuresAfterMiss
<1>2. CASE SampleMissed
  <2>1. Control /\ FcTypeOK' /\ FcInv'
    BY <1>2, FcUnchangedInv DEF IInv, TypeOK, SampleMissed
  <2>2. /\ imu_ready' = imu_ready /\ inhibited' = inhibited /\ armed' = armed
        /\ consecutive_imu_failures' = FailuresAfterMiss
    BY <1>2 DEF SampleMissed, fcVars
  <2>3. ImuInv'
    BY <1>1, <1>2, <2>2, LoopAssumption DEF SampleMissed, imu_lost, ImuInv
  <2>4. armed => imu_ready /\ ~menu_active /\ ~motor_test_enabled
    BY <1>2 DEF IInv, ArmedIsReady, TestInv, SampleMissed, Control
  <2> QED BY <1>1, <2>1, <2>2, <2>3, <2>4, ControlKeepsInv DEF IInv, TypeOK
<1>3. CASE ImuLost
  <2>1. Control /\ FcTypeOK' /\ FcInv'
    BY <1>3, EmergencyStopInv DEF IInv, TypeOK, ImuLost
  <2>2. /\ imu_ready' = FALSE /\ inhibited' = inhibited /\ ~armed' /\ ImuInv'
        /\ consecutive_imu_failures' = FailuresAfterMiss
    BY <1>3 DEF ImuLost, ImuInv, flight_control_emergency_stop
  <2> QED BY <1>1, <2>1, <2>2, ControlKeepsInv
<1> QED BY <1>2, <1>3

(* An iteration that belongs to the ESC passthrough.                       *)
LEMMA PassthroughInv == IInv /\ PassthroughIteration => IInv'
<1> SUFFICES ASSUME IInv, PassthroughIteration PROVE IInv'
  OBVIOUS
<1>1. FcTypeOK' /\ FcInv'
  BY MotorsInv DEF IInv, TypeOK, PassthroughIteration
<1>2. TypeOK'
  BY <1>1 DEF IInv, TypeOK, PassthroughIteration, imuVars, menuVars, hostVars, testVars
<1>3. ArmedIsReady' /\ LogInv' /\ TestInv' /\ ImuInv'
  BY DEF IInv, ArmedIsReady, LogInv, TestInv, ImuInv, PassthroughIteration, imuVars,
         menuVars, hostVars, testVars
<1> QED BY <1>1, <1>2, <1>3 DEF IInv

(* The motor test, the write to the ESCs and the IMU retry.  The motor     *)
(* array takes the mixer's values from an armed craft only, and bench-test *)
(* values never over one.                                                  *)
LEMMA OutputInv == IInv /\ Output => IInv'
<1> SUFFICES ASSUME IInv, Output PROVE IInv'
  OBVIOUS
<1>1. motor_test_running => motor_test_enabled /\ ~armed
  BY DEF IInv, TestInv, motor_test_running
<1>2. /\ MotorsToWrite \in {"zero", "fly", "test"}
      /\ MotorsToWrite = "fly" => armed
      /\ MotorsToWrite = "test" => ~armed
  BY <1>1 DEF IInv, TypeOK, FcTypeOK, FcInv, NoStaleMotors, MotorsToWrite
<1>3. FcTypeOK' /\ FcInv'
  <2>1. /\ motors' = MotorsToWrite
        /\ UNCHANGED <<calibrated, armed, arm_switch_was_low, arm_calibration_active,
                       boot_arm_guard, calibrationVars, airmode_active, integral,
                       recording, inhibited>>
    BY DEF Output
  <2> QED BY <1>2, <2>1, MotorsInv DEF IInv, TypeOK
<1>4. /\ imu_ready' \in BOOLEAN
      /\ consecutive_imu_failures' \in 0 .. IMU_FAILURE_LIMIT /\ ImuInv'
      /\ imu_ready => imu_ready'
  BY LoopAssumption DEF IInv, TypeOK, ImuInv, Output, ImuRetry
<1>5. /\ motor_test_enabled' \in BOOLEAN /\ motor_test_spin' \in BOOLEAN
      /\ motor_test_enabled' => ~armed
  BY <1>1 DEF Output, motor_test_running
<1>6. motor_test_age' \in 0 .. MOTOR_TEST_TIMEOUT
  BY LoopAssumption DEF IInv, TypeOK, Output
<1>7. esc_frame' \in {"zero", "fly", "test"}
  BY <1>2 DEF IInv, TypeOK, Output, EscWrite
<1>8. TypeOK'
  BY <1>3, <1>4, <1>5, <1>6, <1>7 DEF IInv, TypeOK, Output, menuVars
<1>9. ArmedIsReady' /\ LogInv' /\ TestInv'
  BY <1>4, <1>5 DEF IInv, ArmedIsReady, LogInv, TestInv, ImuInv, Output, menuVars
<1> QED BY <1>3, <1>4, <1>8, <1>9 DEF IInv
(* A stuttering step.                                                      *)
LEMMA StutterInv == IInv /\ UNCHANGED vars => IInv'
<1> SUFFICES ASSUME IInv, UNCHANGED vars PROVE IInv'
  OBVIOUS
<1> USE DEF vars, imuVars, menuVars, hostVars, testVars
<1>1. FcTypeOK' /\ FcInv'
  BY FcUnchangedInv DEF IInv, TypeOK
<1>2. TypeOK'
  BY <1>1 DEF IInv, TypeOK
<1>3. ArmedIsReady' /\ LogInv' /\ TestInv' /\ ImuInv'
  BY DEF IInv, ArmedIsReady, LogInv, TestInv, ImuInv, fcVars
<1> QED BY <1>1, <1>2, <1>3 DEF IInv

(* Every part of the iteration preserves the invariant.                    *)
LEMMA StepInv == IInv /\ [Next]_vars => IInv'
<1> SUFFICES ASSUME IInv, [Next]_vars PROVE IInv'
  OBVIOUS
<1>1. CASE Receive
  BY <1>1, ReceiveInv
<1>2. CASE Menu
  BY <1>2, MenuInv
<1>3. CASE HostCommand
  BY <1>3, ControllerCommandInv, SimulationCommandInv, OtherCommandInv DEF HostCommand
<1>4. CASE ProcessorReset
  BY <1>4, ResetInv
<1>5. CASE ConfigDone
  BY <1>5, ConfigDoneInv
<1>6. CASE ControlPart
  BY <1>6, PassthroughInv, NoSampleInv, SampleReadInv, SampleInMenuInv, SampleMissedInv
     DEF ControlPart, GoodSample
<1>7. CASE Output
  BY <1>7, OutputInv
<1>8. CASE UNCHANGED vars
  BY <1>8, StutterInv
<1> QED BY <1>1, <1>2, <1>3, <1>4, <1>5, <1>6, <1>7, <1>8 DEF Next

(* The inductive invariant holds in every state of every behaviour.        *)
THEOREM Invariance == Spec => []IInv
<1>1. Init => IInv
  BY InitInv
<1>2. IInv /\ [Next]_vars => IInv'
  BY StepInv
<1> QED BY <1>1, <1>2, PTL DEF Spec

-----------------------------------------------------------------------------
(* Type correctness: no counter of the loop leaves its range.              *)
THEOREM TypeCorrect == Spec => []TypeOK
<1>1. IInv => TypeOK
  BY DEF IInv
<1> QED BY <1>1, Invariance, PTL

(* An armed craft is calibrated, past the startup interlock, has a working *)
(* IMU, and neither the tuning menu nor the ESC passthrough holds its      *)
(* control update back.                                                    *)
THEOREM ArmedSafety == Spec => []ArmedIsReady
<1>1. IInv => ArmedIsReady
  BY DEF IInv
<1> QED BY <1>1, Invariance, PTL

(* The flight log records only in flight and never during a simulation.    *)
THEOREM LogSafety == Spec => []LogFollowsFlight
<1>1. IInv => LogFollowsFlight
  BY DEF IInv, FcInv, LogInv, LogFollowsFlight
<1> QED BY <1>1, Invariance, PTL

(* The gyro bias is the average of the very samples that were summed: no   *)
(* sample is counted without its value, or left in from another attempt.   *)
THEOREM BiasSafety == Spec => []BiasIsAverage
<1>1. IInv => BiasIsAverage
  BY DEF IInv, FcInv
<1> QED BY <1>1, Invariance, PTL

(* The motor array holds no value of a flight or a bench test that is over.*)
THEOREM MotorSafety == Spec => []NoStaleMotors
<1>1. IInv => NoStaleMotors
  BY DEF IInv, FcInv
<1> QED BY <1>1, Invariance, PTL

(* The I term is empty outside airmode, and airmode is off on the ground.  *)
THEOREM IntegralSafety == Spec => []IntegralNeedsAirmode
<1>1. IInv => IntegralNeedsAirmode
  BY DEF IInv, FcInv
<1> QED BY <1>1, Invariance, PTL

-----------------------------------------------------------------------------
(* Steps.  The lemmas sort the steps by what they do to the arming stage,  *)
(* the simulation and the ESC frame; the action properties and the         *)
(* refinement are read off them.                                           *)

(* The host's commands never arm and never begin an arm request; the ones  *)
(* that touch the simulation find the craft not armed.                     *)
LEMMA HostStep ==
    ASSUME IInv, HostCommand
    PROVE  /\ armed' => armed
           /\ arm_calibration_active' => arm_calibration_active
           /\ armed => arm_calibration_active' = arm_calibration_active /\ armed' = armed
           /\ boot_arm_guard' = boot_arm_guard /\ esc_frame' = esc_frame
           /\ armed => UNCHANGED <<pid_simulation_enabled, inhibited>>
           /\ \/ pid_simulation_enabled' = pid_simulation_enabled
              \/ UNCHANGED <<armed, arm_calibration_active>>
<1> USE DEF Command, config_allowed
<1>1. CASE CalibrateGyro
  BY <1>1 DEF CalibrateGyro, flight_control_start_calibration, begin_calibration
<1>2. CASE PidSimReset
  BY <1>2 DEF PidSimReset, flight_control_reset_pid_state
<1>3. CASE SetSettings
  BY <1>3 DEF SetSettings, flight_control_setters, flight_control_reset_pid_state,
              flight_control_start_calibration, begin_calibration
<1>4. CASE PidSimEnable \/ PidSimDisable
  <2>1. ~armed /\ UNCHANGED <<armed, arm_calibration_active, boot_arm_guard, esc_frame>>
    BY <1>4 DEF PidSimEnable, PidSimDisable
  <2> QED BY <2>1
<1>5. CASE Bye \/ EnterDfu \/ Reboot
  BY <1>5 DEF Bye, EnterDfu, Reboot, fcVars
<1>6. CASE MotorTestEnable \/ MotorTestDisable \/ MotorTest
  BY <1>6 DEF MotorTestEnable, MotorTestDisable, MotorTest, fcVars
<1>7. CASE PassthroughBegin \/ PassthroughExit
  BY <1>7 DEF PassthroughBegin, PassthroughExit, fcVars
<1> QED BY <1>1, <1>2, <1>3, <1>4, <1>5, <1>6, <1>7 DEF HostCommand
(* The steps that change none of it.                                       *)
QuietStep ==
    \/ Receive \/ Menu \/ ConfigDone \/ PassthroughIteration
    \/ NoSampleDue \/ SampleMissed \/ SampleReadInMenu

interlockVars == <<armed, arm_calibration_active, boot_arm_guard,
                   pid_simulation_enabled, inhibited>>

(* They leave the arming stage, the simulation and the ESC frame alone.    *)
LEMMA QuietStepKeeps == QuietStep => UNCHANGED <<interlockVars, esc_frame>>
<1> USE DEF interlockVars, hostVars
<1>1. CASE Receive \/ ConfigDone
  BY <1>1 DEF Receive, ConfigDone, fcVars
<1>2. CASE Menu
  BY <1>2 DEF Menu, MenuForcedClosed, MenuIdle, MenuOpens, MenuShown,
              flight_control_setters, fcVars
<1>3. CASE PassthroughIteration \/ SampleReadInMenu
  BY <1>3 DEF PassthroughIteration, SampleReadInMenu, Control
<1>4. CASE NoSampleDue \/ SampleMissed
  BY <1>4 DEF NoSampleDue, SampleMissed, Control, fcVars
<1> QED BY <1>1, <1>2, <1>3, <1>4 DEF QuietStep

(* The step that writes to the ESCs changes the ESC frame only, and what   *)
(* it writes agrees with the arming stage and with the simulation.         *)
LEMMA OutputStep ==
    ASSUME IInv, Output
    PROVE  /\ UNCHANGED interlockVars
           /\ \/ esc_frame' = esc_frame
              \/ esc_frame' = "zero"
              \/ esc_frame' = "fly" /\ armed /\ ~pid_simulation_enabled
              \/ esc_frame' = "test" /\ ~armed /\ ~pid_simulation_enabled
<1>1. UNCHANGED interlockVars
  BY DEF Output, interlockVars
<1>2. motor_test_running => ~armed
  BY DEF IInv, TestInv, motor_test_running
<1>3. /\ MotorsToWrite \in {"zero", "fly", "test"}
      /\ MotorsToWrite = "fly" => armed
      /\ MotorsToWrite = "test" => ~armed
  BY <1>2 DEF IInv, TypeOK, FcTypeOK, FcInv, NoStaleMotors, MotorsToWrite
<1>4. \/ esc_frame' = esc_frame \/ esc_frame' = "zero"
      \/ esc_frame' = MotorsToWrite /\ ~pid_simulation_enabled
  BY DEF Output, EscWrite, motor_output_suppressed
<1> QED BY <1>1, <1>3, <1>4

(* A lost IMU disarms and changes nothing else of it.                      *)
LEMMA ImuLostStep ==
    ASSUME ImuLost
    PROVE  /\ armed' = FALSE
           /\ UNCHANGED <<arm_calibration_active, boot_arm_guard,
                          pid_simulation_enabled, inhibited, esc_frame>>
BY DEF ImuLost, Control, flight_control_emergency_stop, hostVars

(* A good sample leaves the simulation and the ESC frame alone.            *)
LEMMA SampleStep ==
    ASSUME NEW stationary \in BOOLEAN, SampleRead(stationary)
    PROVE  /\ UNCHANGED <<pid_simulation_enabled, inhibited, esc_frame>>
           /\ flight_control_update(rx, stationary)
BY DEF SampleRead, Control, flight_control_update, hostVars

(* A simulation can not begin or end, and the log inhibition can not       *)
(* change, while the craft stays armed.                                    *)
THEOREM SuppressionStable == Spec => SuppressionIsStable
<1> DEFINE Stable == armed /\ armed' =>
                        /\ pid_simulation_enabled' = pid_simulation_enabled
                        /\ inhibited' = inhibited
<1>1. IInv /\ [Next]_vars => [Stable]_vars
  <2> SUFFICES ASSUME IInv, Next PROVE Stable
    OBVIOUS
  <2>1. CASE QuietStep
    BY <2>1, QuietStepKeeps DEF interlockVars
  <2>2. CASE HostCommand
    BY <2>2, HostStep
  <2>3. CASE ProcessorReset
    BY <2>3 DEF ProcessorReset, FcReset
  <2>4. CASE Output
    BY <2>4, OutputStep DEF interlockVars
  <2>5. CASE ImuLost
    BY <2>5, ImuLostStep
  <2>6. CASE \E stationary \in BOOLEAN : SampleRead(stationary)
    BY <2>6, SampleStep
  <2> QED BY <2>1, <2>2, <2>3, <2>4, <2>5, <2>6 DEF Next, QuietStep, ControlPart, GoodSample
<1> QED BY <1>1, Invariance, PTL DEF Spec, SuppressionIsStable

(* The craft arms only by a finished calibration of an arm request, on a   *)
(* good frame with the switch on and the throttle down, and a request      *)
(* begins only after the switch was seen off.                              *)
THEOREM Discipline == Spec => ArmingDiscipline
<1> DEFINE Disciplined ==
        /\ ~armed /\ armed' => /\ arm_calibration_active /\ arm_switch(rx)
                               /\ low_throttle(rx) /\ calibrated'
        /\ ~arm_calibration_active /\ arm_calibration_active' =>
               arm_switch_was_low /\ arm_switch(rx) /\ low_throttle(rx)
<1>1. IInv /\ [Next]_vars => [Disciplined]_vars
  <2> SUFFICES ASSUME IInv, Next PROVE Disciplined
    OBVIOUS
  <2>1. CASE QuietStep
    BY <2>1, QuietStepKeeps DEF interlockVars
  <2>2. CASE HostCommand
    BY <2>2, HostStep
  <2>3. CASE ProcessorReset
    BY <2>3 DEF ProcessorReset, FcReset
  <2>4. CASE Output
    BY <2>4, OutputStep DEF interlockVars
  <2>5. CASE ImuLost
    BY <2>5, ImuLostStep
  <2>6. CASE \E stationary \in BOOLEAN : SampleRead(stationary)
    BY <2>6, SampleStep, UpdateArms DEF IInv, TypeOK
  <2> QED BY <2>1, <2>2, <2>3, <2>4, <2>5, <2>6 DEF Next, QuietStep, ControlPart, GoodSample
<1> QED BY <1>1, Invariance, PTL DEF Spec, ArmingDiscipline
-----------------------------------------------------------------------------
(* The refinement.                                                         *)

(* The flight loop implements MotorInterlock: whatever the receiver, the   *)
(* IMU and the host do, the motors see the behaviour of the interlock.     *)
THEOREM Refinement == Spec => InterlockSpec
<1> USE DEF Interlock!Lock, Interlock!Request, Interlock!Arm, Interlock!Disarm,
            Interlock!Simulate, Interlock!Fly, Interlock!Bench, Interlock!Stop,
            Interlock!PowerUp
<1>1. Init => Interlock!Init
  BY DEF Init, FcInit, Interlock!Init
<1>2. IInv /\ [Next]_vars => [Interlock!Next]_Interlock!vars
  <2> SUFFICES ASSUME IInv, [Next]_vars PROVE [Interlock!Next]_Interlock!vars
    OBVIOUS
  <2> USE DEF Interlock!Next, Interlock!vars, interlockVars
  <2>1. (armed => calibrated /\ ~arm_calibration_active) /\ TypeOK
    BY DEF IInv, ArmedIsReady
  <2>2. CASE QuietStep
    BY <2>2, QuietStepKeeps
  <2>3. CASE HostCommand
    <3>1. boot_arm_guard' = boot_arm_guard /\ esc_frame' = esc_frame
      BY <2>3, HostStep
    <3>2. CASE pid_simulation_enabled' = pid_simulation_enabled
      BY <2>1, <2>3, <3>1, <3>2, HostStep
    <3>3. CASE pid_simulation_enabled' # pid_simulation_enabled
      <4>1. ~armed /\ UNCHANGED <<armed, arm_calibration_active>>
        BY <2>3, <3>3, HostStep
      <4>2. pid_simulation_enabled' = ~pid_simulation_enabled
        BY <2>3, <3>3, StepInv DEF IInv, TypeOK
      <4> QED BY <3>1, <4>1, <4>2
    <3> QED BY <3>2, <3>3
  <2>4. CASE ProcessorReset
    BY <2>4 DEF ProcessorReset, FcReset
  <2>5. CASE Output
    BY <2>5, OutputStep
  <2>6. CASE ImuLost
    BY <2>1, <2>6, ImuLostStep
  <2>7. ASSUME NEW stationary \in BOOLEAN, SampleRead(stationary)
        PROVE  Interlock!Next \/ UNCHANGED Interlock!vars
    <3>1. UNCHANGED <<pid_simulation_enabled, esc_frame>>
      BY <2>7, SampleStep
    <3>2. /\ boot_arm_guard.blocked => boot_arm_guard'.blocked
          /\ boot_arm_guard'.blocked =>
                 ~armed /\ ~arm_calibration_active /\ ~armed' /\ ~arm_calibration_active'
          /\ armed' => armed \/ arm_calibration_active
          /\ arm_calibration_active' => ~armed
      BY <2>7, SampleStep, UpdateStages DEF IInv, TypeOK
    <3>3. CASE boot_arm_guard'.blocked
      BY <3>1, <3>2, <3>3
    <3>4. CASE ~boot_arm_guard'.blocked
      <4>1. UNCHANGED boot_arm_guard.blocked
        BY <2>1, <2>7, <3>2, <3>4, StepInv
           DEF IInv, TypeOK, FcTypeOK, Next, ControlPart, GoodSample
      <4>2. CASE armed
        BY <2>1, <3>1, <3>2, <4>1, <4>2
      <4>3. CASE ~armed /\ arm_calibration_active
        BY <3>1, <3>2, <3>4, <4>1, <4>3
      <4>4. CASE ~armed /\ ~arm_calibration_active
        BY <3>1, <3>2, <3>4, <4>1, <4>4
      <4> QED BY <4>2, <4>3, <4>4
    <3> QED BY <3>3, <3>4
  <2>8. CASE UNCHANGED vars
    BY <2>8 DEF vars, fcVars, hostVars
  <2> QED BY <2>2, <2>3, <2>4, <2>5, <2>6, <2>7, <2>8
          DEF Next, QuietStep, ControlPart, GoodSample
<1> QED BY <1>1, <1>2, Invariance, PTL DEF Spec, InterlockSpec, Interlock!Spec
=============================================================================
