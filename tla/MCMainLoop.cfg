SPECIFICATION Spec
CONSTANTS
    CALIBRATION_SAMPLES = 2
    CALIBRATION_MAX_CONSECUTIVE_OUTLIERS = 2
    IMU_FAILURE_LIMIT = 2
    LOOPS_PER_SAMPLE = 2
    MOTOR_TEST_TIMEOUT = 2
INVARIANTS
    TypeOK
    ArmedIsReady
    BiasIsAverage
    LogFollowsFlight
    NoStaleMotors
    IntegralNeedsAirmode
PROPERTIES
    SuppressionIsStable
    ArmingDiscipline
    InterlockSpec
