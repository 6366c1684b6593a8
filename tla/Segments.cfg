SPECIFICATION Spec
CONSTANTS
    m1 = m1
    m2 = m2
    m3 = m3
    m4 = m4
    Messages = {m1, m2, m3, m4}
    Route <- MCRoute
    Ref <- MCRef
    Total <- MCTotal
    Asking <- MCAsking
    Shards = {1, 2}
    ShardOf <- MCShardOf
    MaxSegments = 3
    MaxAge = 1
    MaxId = 3
INVARIANTS
    TypeOK
    GroupsCoherent
    OneIdPerBucket
    DeliveredUnderAnsweredId
    DeliveredOnce
    CompleteOnlyInWindow
    AnyPartRequests
    StopLeavesAtMostOne
PROPERTIES
    PartialsDrain
    ImplementsReassembly
