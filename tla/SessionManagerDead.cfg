SPECIFICATION Spec
CONSTANTS
    s1 = s1
    s2 = s2
    None = None
    Sessions = {s1}
    Mute = {}
    Cap = 1
    CacheTtl = 15
    InactivityTimeout = 3
    QueueTimeout = 9
    MaxEnquireLinkRetry = 3
PROPERTIES
    StoppedLeavesCache
