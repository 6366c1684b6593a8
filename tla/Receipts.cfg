SPECIFICATION Spec
CONSTANTS
    s1 = s1
    r1 = r1
    r2 = r2
    None = None
    Sessions = {s1}
    Reporters = {r1}
    SubmitKeys = {k1}
    k1 = k1
    Octets = {0, 2}
    MaxId = 2
INVARIANTS
    TypeOK
    ReceiptsObeyPolicy
    NoReceiptAfterReplace
    LastIsNewestAccepted
    AtMostOneReceipt
    StopLeavesAtMostOne
PROPERTIES
    RoutesOutliveEntries
    PendingDrains
