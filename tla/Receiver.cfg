SPECIFICATION FairSpec
CONSTANTS
    FRAME_SIZE = 3
    RX_RING_SIZE = 2
    SIGNAL_TIMEOUT = 2
    FAILSAFE_CONFIRM = 2
    RECOVERY_RETRY = 1
    INVERTER_PROBE = 1
    HAS_INVERTER_CONTROL = TRUE
INVARIANTS
    TypeOK
    TornFramesAreCaught
    FailsafeIsConfirmed
PROPERTIES
    ReceptionRestarts
