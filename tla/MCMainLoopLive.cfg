SPECIFICATION LiveSpec
CONSTANTS
    CALIBRATION_SAMPLES = 2
    CALIBRATION_MAX_CONSECUTIVE_OUTLIERS = 1
    IMU_FAILURE_LIMIT = 2
    LOOPS_PER_SAMPLE = 1
    MOTOR_TEST_TIMEOUT = 1
PROPERTIES
    RxLossDisarms
    ImuLossStops
    SilentHostStopsTest
