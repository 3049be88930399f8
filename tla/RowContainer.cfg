SPECIFICATION CaseSpec
CONSTANTS
    MIN_CHUNK_SIZE = 256
    GROWTH_FACTOR = 2
    LINEAR_GROWTH_THRESHOLD = 65536
    BLOCK_ROWS = 2
    VARCHAR_SLOT_SIZE = 8
    NULL_BITS = 2
    Layouts <- MCLayouts
    AggStateSize = 8
    Strings <- MCStrings
    MaxRows = 3
    Cases <- MCCases
    CaseLayout <- MCCaseLayout
    CaseStrings <- MCCaseStrings
    NUM_ROWS = 3
    NUM_KEYS = 2
    Values <- MCValues
INVARIANTS
    RegionsApart
    KeysReadBack
    ResultsRight
CHECK_DEADLOCK FALSE
