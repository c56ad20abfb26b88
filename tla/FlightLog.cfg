SPECIFICATION Spec
CONSTANTS
    SECTORS = 6
    SD_QUEUE_BLOCKS = 2
    SD_RECORDS_PER_BLOCK = 2
    SD_CATALOG_FLIGHTS = 2
    MAX_TAKES = 2
    FLIGHT_LOG_CAPACITY = 2
    MAX_SAMPLES = 3
INVARIANTS TypeOK  RamLogIsWhole
PROPERTY RecorderSettles
