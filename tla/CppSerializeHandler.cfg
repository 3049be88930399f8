SPECIFICATION CppWorkSpec
CONSTANTS
    SLOTS_PER_CHUNK = 2
    TAG_DIV = 1
    TAG_MOD = 4
    LOAD_NUM = 3
    LOAD_DEN = 4
    LOAD_SLACK = 3
    Keys <- MCKeys
    HashOf <- MCHashOf
    Batches <- MCBatches
    Requests = {1, 2, 4, 8}
    AnyRequests = {1}
    MaxCalls = 3
    AnyCalls = 2
    Columns <- IntAndVarchar
    AggValues <- MCAggValues
    AGG_WRAP = 1024
    BATCH_SIZE = 3
    NUM_PROBE_ROWS = 4
    FILL_NUM = 3
    FILL_DEN = 5
    DriverKeys <- MCDriverKeys
    Builds <- MCBuilds
INVARIANTS
    ValuesConserved
    CppRoomToProbe
    GroupsRight
    ChecksumRight
    ResultRight
PROPERTIES
    CppHandlerReturns
CHECK_DEADLOCK FALSE
