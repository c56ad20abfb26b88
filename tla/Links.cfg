SPECIFICATION Spec
CONSTANTS
    MAX_ATTEMPTS = 3
    TX_PACKETS = 2
    RX_SIZE = 2
    TX_SIZE = 2
    LINE_LENGTH = 3
    AFTER_DAMAGE = 1
    ESCS = {1, 2}
INVARIANTS TypeOK AppliedIsTrue SentMeansQueued LinesAreWhole ErasesMatchDevice
PROPERTIES SmartAudioSettles HostIsAnswered
