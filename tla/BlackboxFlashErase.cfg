SPECIFICATION Spec
CONSTANTS
    RECORD_SLOTS = 2
    PAGE_SLOTS = 3
    BLOCK_SLOTS = 3
    BANK_SLOTS = 6
    QUEUE_RECORDS = 2
    MAX_FLIGHTS = 3
    BLANK_ERASE_CAN_TEAR = FALSE
INVARIANT EraseEndsInRecording
