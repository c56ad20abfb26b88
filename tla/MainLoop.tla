------------------------------ MODULE MainLoop ------------------------------
(***************************************************************************)
(* main_loop_step of app/main.c and everything it calls that decides what  *)
(* the motors do: the receiver frame of the iteration, the tuning menu,    *)
(* the configuration commands, the IMU, the flight controller, the motor   *)
(* test, the ESC passthrough and the write to the ESCs.                    *)
(*                                                                         *)
(* The firmware is one loop without an operating system.  pc names the     *)
(* part of the iteration that runs next, and the state carried from one    *)
(* part to a later one (the frame, the motor array, the flags) is what the *)
(* properties are about.  The environment chooses the frame, whether the   *)
(* 1 kHz service part runs, the host's commands and the outcome of the IMU *)
(* accesses.                                                               *)
(***************************************************************************)
EXTENDS FlightControl

CONSTANTS
    IMU_FAILURE_LIMIT,    \* failed reads in a row that stop the motors
    LOOPS_PER_SAMPLE,     \* loop rate over gyro rate
    MOTOR_TEST_TIMEOUT    \* iterations a motor-test value stays fresh

ASSUME LoopAssumption ==
    /\ IMU_FAILURE_LIMIT \in Nat \ {0}
    /\ LOOPS_PER_SAMPLE \in Nat \ {0}
    /\ MOTOR_TEST_TIMEOUT \in Nat \ {0}

VARIABLES
    pc,                         \* the part of the iteration that runs next
    rx,                         \* sbus_get() in this iteration
    imu_ready, consecutive_imu_failures, imu_phase,
    menu_active, entry_started, \* osd_tuning_menu.c
    motor_test_enabled,
    motor_test_spin,            \* some motor_test_percent is not zero
    motor_test_age,             \* iterations since last_motor_test_us, in a test
    pid_simulation_enabled,
    passthrough,                \* esc_passthrough.c: fourway_active
    reset_pending,              \* reboot_pending or dfu_pending
    esc_frame                   \* what the last dshot_write sent

imuVars == <<imu_ready, consecutive_imu_failures, imu_phase>>
menuVars == <<menu_active, entry_started>>
testVars == <<motor_test_enabled, motor_test_spin, motor_test_age>>
hostVars == <<testVars, pid_simulation_enabled, passthrough, reset_pending>>

vars == <<fcVars, pc, rx, imuVars, menuVars, hostVars, esc_frame>>

TypeOK ==
    /\ FcTypeOK
    /\ pc \in {"receive", "menu", "config", "control", "output"}
    /\ rx \in Frame
    /\ imu_ready \in BOOLEAN
    /\ consecutive_imu_failures \in 0 .. IMU_FAILURE_LIMIT
    /\ imu_phase \in 0 .. LOOPS_PER_SAMPLE - 1
    /\ menu_active \in BOOLEAN /\ entry_started \in BOOLEAN
    /\ motor_test_enabled \in BOOLEAN /\ motor_test_spin \in BOOLEAN
    /\ motor_test_age \in 0 .. MOTOR_TEST_TIMEOUT
    /\ pid_simulation_enabled \in BOOLEAN /\ passthrough \in BOOLEAN
    /\ reset_pending \in BOOLEAN
    /\ esc_frame \in {"zero", "fly", "test"}

Init ==
    /\ FcInit
    /\ pc = "receive" /\ rx = NoSignal
    /\ imu_ready \in BOOLEAN /\ consecutive_imu_failures = 0 /\ imu_phase = 0
    /\ menu_active = FALSE /\ entry_started = FALSE
    /\ motor_test_enabled = FALSE /\ motor_test_spin = FALSE /\ motor_test_age = 0
    /\ pid_simulation_enabled = FALSE /\ passthrough = FALSE /\ reset_pending = FALSE
    /\ esc_frame = "zero"

-----------------------------------------------------------------------------
(* The iteration starts: a frame, and whether the service part runs.       *)

Receive ==
    /\ pc = "receive"
    /\ rx' \in Frame
    /\ pc' \in {"menu", "control"}
    /\ motor_test_age' = IF motor_test_enabled /\ motor_test_age < MOTOR_TEST_TIMEOUT
                         THEN motor_test_age + 1 ELSE motor_test_age
    /\ UNCHANGED <<fcVars, imuVars, menuVars, motor_test_enabled, motor_test_spin,
                   pid_simulation_enabled, passthrough, reset_pending, esc_frame>>

-----------------------------------------------------------------------------
(* osd_tuning_menu_update.                                                 *)

(* Blocked at boot or without a receiver: the menu closes, nothing opens.  *)
MenuForcedClosed ==
    /\ boot_arm_guard.blocked \/ ~rx.valid
    /\ menu_active' = FALSE
    /\ entry_started' = IF menu_active \/ ~boot_arm_guard.blocked
                        THEN FALSE ELSE entry_started
    /\ UNCHANGED fcVars

(* The stick combination that opens the menu needs a centred throttle.     *)
entry_possible == ~armed /\ ~arm_switch(rx) /\ rx.throttle = "high"

MenuIdle ==
    /\ ~boot_arm_guard.blocked /\ rx.valid /\ ~menu_active
    /\ entry_started' \in {FALSE} \cup (IF entry_possible THEN {TRUE} ELSE {})
    /\ UNCHANGED <<menu_active, fcVars>>

MenuOpens ==
    /\ ~boot_arm_guard.blocked /\ rx.valid /\ ~menu_active
    /\ entry_started /\ entry_possible
    /\ menu_active' = TRUE
    /\ UNCHANGED <<entry_started, fcVars>>

(* The menu is left alone, left without saving, or saved: the new tuning   *)
(* goes through the setters.                                               *)
MenuShown ==
    /\ ~boot_arm_guard.blocked /\ rx.valid /\ menu_active
    /\ \/ UNCHANGED <<menuVars, fcVars>>
       \/ menu_active' = FALSE /\ entry_started' = FALSE /\ UNCHANGED fcVars
       \/ menu_active' = FALSE /\ entry_started' = FALSE /\ flight_control_setters

Menu ==
    /\ pc = "menu"
    /\ pc' = "config"
    /\ MenuForcedClosed \/ MenuIdle \/ MenuOpens \/ MenuShown
    /\ UNCHANGED <<rx, imuVars, hostVars, esc_frame>>

-----------------------------------------------------------------------------
(* config_protocol_update: any number of host lines, then the deadlines.   *)

(* What a command may leave alone, beside its own effect.                  *)
Command ==
    /\ pc = "config" /\ ~passthrough
    /\ UNCHANGED <<pc, imuVars, menuVars, passthrough, esc_frame>>

motor_test_cancel ==
    motor_test_enabled' = FALSE /\ motor_test_spin' = FALSE /\ motor_test_age' = 0

CalibrateGyro ==
    /\ Command /\ ~armed
    /\ flight_control_start_calibration
    /\ UNCHANGED <<rx, testVars, pid_simulation_enabled, reset_pending>>

PidSimReset ==
    /\ Command /\ pid_simulation_enabled
    /\ flight_control_reset_pid_state
    /\ UNCHANGED <<rx, testVars, pid_simulation_enabled, reset_pending>>

(* Leaving switches the motor test off but leaves its percentages.         *)
Bye ==
    /\ Command
    /\ motor_test_enabled' = FALSE /\ motor_test_age' = 0
    /\ UNCHANGED <<fcVars, rx, motor_test_spin,
                   pid_simulation_enabled, reset_pending>>

ConfigAlwaysAllowed == TRUE

(* Every command below comes after the gate that refuses an armed craft.   *)
config_allowed == ~armed

EnterDfu ==
    /\ Command /\ config_allowed
    /\ motor_test_cancel
    /\ reset_pending' = TRUE
    /\ UNCHANGED <<fcVars, rx, pid_simulation_enabled>>

Reboot ==
    /\ Command /\ config_allowed
    /\ reset_pending' = TRUE
    /\ UNCHANGED <<fcVars, rx, testVars, pid_simulation_enabled>>

PidSimEnable ==
    /\ Command /\ config_allowed
    /\ motor_test_cancel
    /\ pid_simulation_enabled' = TRUE
    /\ flight_log_set_inhibited(TRUE)
    /\ UNCHANGED <<calibrated, armed, arm_switch_was_low, arm_calibration_active,
                   boot_arm_guard, calibrationVars, airmode_active, integral,
                   motors, rx, reset_pending>>

PidSimDisable ==
    /\ Command /\ config_allowed
    /\ pid_simulation_enabled' = FALSE
    /\ flight_log_set_inhibited(FALSE)
    /\ UNCHANGED <<calibrated, armed, arm_switch_was_low, arm_calibration_active,
                   boot_arm_guard, calibrationVars, airmode_active, integral,
                   motors, rx, testVars, reset_pending>>

MotorTestEnable ==
    /\ Command /\ config_allowed /\ ~arm_switch(rx)
    /\ motor_test_enabled' = TRUE /\ motor_test_age' = 0
    /\ UNCHANGED <<fcVars, rx, motor_test_spin, pid_simulation_enabled, reset_pending>>

MotorTestDisable ==
    /\ Command /\ config_allowed
    /\ motor_test_cancel
    /\ UNCHANGED <<fcVars, rx, pid_simulation_enabled, reset_pending>>

MotorTest ==
    /\ Command /\ config_allowed /\ motor_test_enabled
    /\ motor_test_spin' \in BOOLEAN /\ motor_test_age' = 0
    /\ UNCHANGED <<fcVars, rx, motor_test_enabled, pid_simulation_enabled, reset_pending>>

(* A SET_ command or a committed backup.  apply() runs the setters; new    *)
(* filters reset the PID state, a new alignment restarts the calibration.  *)
(* A new channel order, ARM channel or ARM range reads the same frame in   *)
(* another way, and a new receiver port or protocol drops it (sbus_init).  *)
SetSettings ==
    /\ Command /\ config_allowed
    /\ \/ flight_control_setters
       \/ flight_control_reset_pid_state
       \/ flight_control_start_calibration
    /\ rx' \in IF rx.valid THEN Frame ELSE {NoSignal}
    /\ UNCHANGED <<testVars, pid_simulation_enabled, reset_pending>>

(* The 4-way interface takes over the host link and the motor wires.       *)
PassthroughBegin ==
    /\ pc = "config" /\ ~passthrough /\ config_allowed
    /\ passthrough' = TRUE
    /\ UNCHANGED <<fcVars, pc, rx, imuVars, menuVars, testVars,
                   pid_simulation_enabled, reset_pending, esc_frame>>

PassthroughExit ==
    /\ pc = "config" /\ passthrough
    /\ passthrough' = FALSE
    /\ UNCHANGED <<fcVars, pc, rx, imuVars, menuVars, testVars,
                   pid_simulation_enabled, reset_pending, esc_frame>>

(* The 200 ms of an accepted REBOOT or ENTER_DFU are over: the processor   *)
(* restarts, whatever the craft is doing by then.                          *)
ProcessorReset ==
    /\ pc = "config" /\ reset_pending
    /\ FcReset
    /\ pc' = "receive" /\ rx' = NoSignal
    /\ imu_ready' \in BOOLEAN /\ consecutive_imu_failures' = 0 /\ imu_phase' = 0
    /\ menu_active' = FALSE /\ entry_started' = FALSE
    /\ motor_test_cancel
    /\ pid_simulation_enabled' = FALSE /\ passthrough' = FALSE /\ reset_pending' = FALSE
    /\ esc_frame' = "zero"

ConfigDone ==
    /\ pc = "config"
    /\ pc' = "control"
    /\ UNCHANGED <<fcVars, rx, imuVars, menuVars, hostVars, esc_frame>>

-----------------------------------------------------------------------------
(* From the passthrough test to the end of the IMU branch.                 *)

(* The iteration ends here: no control update, no ESC frame.               *)
PassthroughIteration ==
    /\ pc = "control" /\ passthrough
    /\ motors' = "zero"
    /\ pc' = "receive"
    /\ UNCHANGED <<calibrated, armed, arm_switch_was_low, arm_calibration_active,
                   boot_arm_guard, calibrationVars, airmode_active, integral,
                   recording, inhibited, rx, imuVars, menuVars, hostVars, esc_frame>>

(* task_due(&imu_task): the phase accumulator, one read per LOOPS_PER_SAMPLE. *)
NextImuPhase == (imu_phase + 1) % LOOPS_PER_SAMPLE
imu_read_due == NextImuPhase = 0

Control ==
    /\ pc = "control" /\ ~passthrough
    /\ imu_phase' = NextImuPhase
    /\ pc' = "output"
    /\ UNCHANGED <<rx, menuVars, hostVars, esc_frame>>

NoSampleDue ==
    /\ Control /\ ~imu_read_due
    /\ UNCHANGED <<fcVars, imu_ready, consecutive_imu_failures>>

SampleRead(stationary) ==
    /\ Control /\ imu_read_due /\ imu_ready /\ ~menu_active
    /\ consecutive_imu_failures' = 0
    /\ flight_control_update(rx, stationary)
    /\ UNCHANGED imu_ready

SampleReadInMenu ==
    /\ Control /\ imu_read_due /\ imu_ready /\ menu_active
    /\ consecutive_imu_failures' = 0
    /\ motors' = "zero"
    /\ UNCHANGED <<calibrated, armed, arm_switch_was_low, arm_calibration_active,
                   boot_arm_guard, calibrationVars, airmode_active, integral,
                   recording, inhibited, imu_ready>>

NeverGivesUp == 0

CountsForEver == consecutive_imu_failures + 1

FailuresAfterMiss ==
    IF imu_ready /\ consecutive_imu_failures < IMU_FAILURE_LIMIT
    THEN consecutive_imu_failures + 1 ELSE consecutive_imu_failures

imu_lost == ~imu_ready \/ FailuresAfterMiss >= IMU_FAILURE_LIMIT

SampleMissed ==
    /\ Control /\ imu_read_due /\ ~imu_lost
    /\ consecutive_imu_failures' = FailuresAfterMiss
    /\ UNCHANGED <<fcVars, imu_ready>>

ImuLost ==
    /\ Control /\ imu_read_due /\ imu_lost
    /\ consecutive_imu_failures' = FailuresAfterMiss
    /\ motors' = "zero"
    /\ flight_control_emergency_stop
    /\ imu_ready' = FALSE

-----------------------------------------------------------------------------
(* Motor test, ESC write, IMU retry: the rest of the iteration.            *)

TestIgnoresSwitch == motor_test_enabled /\ motor_test_age < MOTOR_TEST_TIMEOUT

TestNeverExpires == motor_test_enabled /\ ~arm_switch(rx)

motor_test_running ==
    motor_test_enabled /\ ~arm_switch(rx) /\ motor_test_age < MOTOR_TEST_TIMEOUT

MotorsToWrite ==
    IF menu_active THEN "zero"
    ELSE IF motor_test_running THEN IF motor_test_spin THEN "test" ELSE "zero"
    ELSE motors

motor_output_suppressed == pid_simulation_enabled \/ passthrough

(* An iteration the ESC task skips, and a write that finds the previous     *)
(* frame still in the DMA engine, leave the last frame in force.           *)
EscWrite ==
    esc_frame' \in {esc_frame, IF motor_output_suppressed THEN "zero" ELSE MotorsToWrite}

ImuRetry ==
    \/ UNCHANGED <<imu_ready, consecutive_imu_failures>>
    \/ /\ ~imu_ready
       /\ imu_ready' \in BOOLEAN /\ consecutive_imu_failures' = 0

Output ==
    /\ pc = "output"
    /\ motor_test_enabled' = motor_test_running
    /\ motor_test_spin' = (motor_test_spin /\ motor_test_running)
    /\ motor_test_age' = IF motor_test_running THEN motor_test_age ELSE 0
    /\ motors' = MotorsToWrite
    /\ EscWrite
    /\ ImuRetry
    /\ pc' = "receive"
    /\ UNCHANGED <<calibrated, armed, arm_switch_was_low, arm_calibration_active,
                   boot_arm_guard, calibrationVars, airmode_active, integral,
                   recording, inhibited, rx, imu_phase, menuVars,
                   pid_simulation_enabled, passthrough, reset_pending>>

-----------------------------------------------------------------------------
HostCommand ==
    \/ CalibrateGyro \/ PidSimReset \/ Bye \/ EnterDfu \/ Reboot
    \/ PidSimEnable \/ PidSimDisable
    \/ MotorTestEnable \/ MotorTestDisable \/ MotorTest
    \/ SetSettings \/ PassthroughBegin \/ PassthroughExit

GoodSample == SampleReadInMenu \/ \E stationary \in BOOLEAN : SampleRead(stationary)

ControlPart ==
    \/ PassthroughIteration
    \/ NoSampleDue
    \/ GoodSample
    \/ SampleMissed
    \/ ImuLost

Next ==
    \/ Receive \/ Menu
    \/ HostCommand \/ ProcessorReset \/ ConfigDone
    \/ ControlPart \/ Output

Spec == Init /\ [][Next]_vars

(* The loop never blocks, and the host's lines of one pass are bounded by  *)
(* the receive ring: each part of the iteration is eventually done.        *)
Fairness ==
    /\ WF_vars(Receive) /\ WF_vars(Menu) /\ WF_vars(ConfigDone)
    /\ WF_vars(ControlPart) /\ WF_vars(Output)

FairSpec == Spec /\ Fairness

-----------------------------------------------------------------------------
(* Safety.                                                                 *)

(* A craft that is armed has a finished gyro calibration and no arm        *)
(* request left over, passed the startup interlock, has a working IMU with *)
(* failures to spare, and neither the tuning menu nor the ESC passthrough  *)
(* keeps the control update from running (main.c:127-170).                 *)
ArmedIsReady ==
    armed =>
        /\ calibrated /\ ~arm_calibration_active
        /\ boot_arm_guard.checked /\ ~boot_arm_guard.blocked
        /\ imu_ready /\ consecutive_imu_failures < IMU_FAILURE_LIMIT
        /\ ~menu_active /\ ~passthrough

(* The flight log records only while the craft is armed, whichever of the  *)
(* five ways the flight ends, and never during a PID simulation.           *)
LogFollowsFlight == recording => armed /\ ~inhibited /\ ~pid_simulation_enabled

(* Output suppression and log inhibition never change under an armed       *)
(* craft: a simulated arming can not turn into real thrust.                *)
SuppressionIsStable ==
    [][armed /\ armed' => /\ pid_simulation_enabled' = pid_simulation_enabled
                          /\ inhibited' = inhibited]_vars

(* Thrust is commanded only on a good frame with the switch on, after an   *)
(* arm request that was begun with the switch seen off.                    *)
ArmingDiscipline ==
    [][/\ ~armed /\ armed' => /\ arm_calibration_active /\ arm_switch(rx)
                              /\ low_throttle(rx) /\ calibrated'
       /\ ~arm_calibration_active /\ arm_calibration_active' =>
              arm_switch_was_low /\ arm_switch(rx) /\ low_throttle(rx)]_vars

(* The loop implements the interlock it is meant to be: every step, a      *)
(* processor reset included, is a step of MotorInterlock or a stutter.     *)
Interlock == INSTANCE MotorInterlock WITH
    mode <- IF armed THEN "armed"
            ELSE IF arm_calibration_active THEN "arming" ELSE "safe",
    locked <- boot_arm_guard.blocked,
    simulated <- pid_simulation_enabled,
    drive <- esc_frame

InterlockSpec == Interlock!Spec

(* The parts of the inductive invariant that no property above states.     *)

(* The log is inhibited exactly while a simulation is enabled.             *)
LogInv == inhibited = pid_simulation_enabled

(* A bench test still enabled when the craft arms is found by the same     *)
(* iteration, which sees the switch on and ends it.                        *)
TestInv == armed /\ motor_test_enabled => pc = "output" /\ arm_switch(rx)

(* An IMU in use has failures to spare: the last one takes it out of use.  *)
ImuInv == imu_ready => consecutive_imu_failures < IMU_FAILURE_LIMIT

(* What every step preserves: FcInv is about the flight controller alone,  *)
(* the rest relates it to the loop around it.                              *)
IInv == TypeOK /\ FcInv /\ ArmedIsReady /\ LogInv /\ TestInv /\ ImuInv

-----------------------------------------------------------------------------
(* Liveness, under FairSpec.                                               *)

(* A receiver that stays lost disarms the craft for good, whatever the IMU *)
(* and the host do meanwhile (flight_control.c:404-419, main.c:155-170).   *)
RxLossDisarms == <>[](~rx.valid) => <>[](~armed)

(* An IMU that answers no read any more disarms the craft for good and     *)
(* takes the mixer's values out of the motor array, although the retry     *)
(* keeps clearing the failure counter (main.c:191-198).                    *)
ImuLossStops ==
    <>[][~GoodSample]_vars => <>[](~armed /\ motors # "fly")

(* A host that goes silent ends its motor test, also when the pilot, the   *)
(* menu and the passthrough leave it alone (config_protocol.c:1450-1465).  *)
SilentHostStopsTest ==
    <>[][~HostCommand]_vars => <>[](motors # "test")
=============================================================================
