SPECIFICATION ChunkSpec
CONSTANTS
    LANES = 4
    LANE_BITS = 4
    TAG_DIV = 4
    Hashes = {0, 1, 4, 5, 9, 33}
INVARIANTS
    IteratorRight
PROPERTIES
    TryEmplaceRight
CHECK_DEADLOCK FALSE
