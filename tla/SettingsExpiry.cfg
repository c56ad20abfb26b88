SPECIFICATION Spec
CONSTANTS
    SIZE = 2
    GOOD = {g1, g2}
    INVALID = bad
    DEFAULT = g1
    TIMEOUT = 0
    CLOCK = 2
PROPERTY ExpiredNeverApplied
