SPECIFICATION Spec
CONSTANTS
    m1 = m1
    m2 = m2
    m3 = m3
    m4 = m4
    Messages = {m1, m2}
    Route <- PairRoute
    Ref <- PairRef
    Total <- PairTotal
    Asking <- PairAsking
    Shards = {1}
    ShardOf <- PairShardOf
    MaxSegments = 2
    MaxAge = 1
    MaxId = 4
INVARIANTS
    NoMixing
