SPECIFICATION WorkSpec
CONSTANTS
    SLOTS_PER_CHUNK = 2
    TAG_DIV = 4
    TAG_MOD = 4
    LOAD_NUM = 3
    LOAD_DEN = 4
    LOAD_SLACK = 0
    one = one
    two = two
    three = three
    four = four
    five = five
    other = other
    BatchLength = 4
    Keys <- MCKeys
    HashOf <- MCHashOf
    Batches <- MCBatches
    Requests = {1, 2, 4, 8}
    AnyRequests = {1, 2}
    MaxCalls = 2
    BATCH_SIZE = 4
    NUM_PROBE_ROWS = 3
    FILL_NUM = 3
    FILL_DEN = 5
    Builds <- MCBuilds
    Operations <- MCOperations
INVARIANTS
    BatchTypeOK
    OneGroupPerKey
    RowsAccounted
    WaitingOnPath
    ServedOwn
    RowsCounted
PROPERTIES
    BatchReturns
CHECK_DEADLOCK FALSE
