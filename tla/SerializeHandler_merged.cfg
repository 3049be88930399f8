SPECIFICATION HandlerFairSpec
CONSTANTS
    SLOTS_PER_CHUNK = 2
    TAG_DIV = 1
    TAG_MOD = 4
    LOAD_NUM = 3
    LOAD_DEN = 4
    LOAD_SLACK = 0
    BatchLengths = {3}
    Keys <- MCKeys
    HashOf <- MCHashOf
    Batches <- MCBatches
    Requests = {2}
    MaxCalls = 2
    Columns <- TwoVarchars
    AggValues <- MCAggValues
    AGG_WRAP = 1024
INVARIANTS
    GroupsDistinct
CHECK_DEADLOCK FALSE
