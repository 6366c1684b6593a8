SPECIFICATION Spec
CONSTANTS
    s1 = s1
    s2 = s2
    None = None
    Sessions = {s1, s2}
    Mute = {s2}
    Cap = 1
    CacheTtl = 3
    InactivityTimeout = 1
    QueueTimeout = 3
    MaxEnquireLinkRetry = 2
INVARIANTS
    TypeOK
PROPERTIES
    ExpiryTakesFullQueues
    DroppedOnlyIfSilent
    InactiveIsResolved
