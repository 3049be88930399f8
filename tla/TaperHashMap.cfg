SPECIFICATION FairSpec
CONSTANTS
    SLOTS_PER_CHUNK = 2
    TAG_DIV = 4
    TAG_MOD = 4
    LOAD_NUM = 3
    LOAD_DEN = 4
    LOAD_SLACK = 0
    a = a
    b = b
    c = c
    d = d
    e = e
    f = f
    Keys <- MCKeys
    HashOf <- MCHashOf
    Requests = {0, 2}
INVARIANTS
    TypeOK
    Reachable
    OneGroupPerKey
    SizeExact
    TriesBounded
    OwnGroup
PROPERTIES
    UsedSlotsKept
    FindsOrCreates
    EmplaceReturns
