SPECIFICATION Spec
CONSTANTS
    s1 = s1
    s2 = s2
    None = None
    Sessions = {s1, s2}
    Mute = {}
    Cap = 2
    CacheTtl = 5
    InactivityTimeout = 1
    QueueTimeout = 3
    MaxEnquireLinkRetry = 1
INVARIANTS
    ActiveStaysPresent
