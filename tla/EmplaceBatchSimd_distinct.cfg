SPECIFICATION SimdFairSpec
CONSTANTS
    SLOTS_PER_CHUNK = 2
    TAG_DIV = 4
    TAG_MOD = 4
    LOAD_NUM = 3
    LOAD_DEN = 4
    LOAD_SLACK = 0
    one = one
    two = two
    three = three
    four = four
    five = five
    other = other
    twin = twin
    Keys <- MCKeys
    HashOf <- MCHashOf
    Batches <- DistinctBatches
    Requests = {1, 2}
    MaxCalls = 2
INVARIANTS
    SimdTypeOK
    ActiveOnPath
    EveryRowServed
    NoGroupTwice
PROPERTIES
    SimdReturns
CHECK_DEADLOCK FALSE
