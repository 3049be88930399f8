SPECIFICATION WorkSpec
CONSTANTS
    SLOTS_PER_CHUNK = 8
    TAG_DIV = 65536
    TAG_MOD = 128
    LOAD_NUM = 9
    LOAD_DEN = 10
    LOAD_SLACK = 0
    Keys <- MCKeys
    HashOf <- MCHashOf
    Batches = {}
    Requests = {2}
    AnyRequests = {}
    MaxCalls = 1
    BATCH_SIZE = 410
    NUM_PROBE_ROWS = 1
    FILL_NUM = 17
    FILL_DEN = 20
    Builds = {}
    Operations <- MCOperations
INVARIANTS
    NoRowForgotten
CHECK_DEADLOCK FALSE
