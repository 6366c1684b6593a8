SPECIFICATION Spec
CONSTANTS
    s1 = s1
    r1 = r1
    r2 = r2
    None = None
    Sessions = {s1}
    Reporters = {r1, r2}
    SubmitKeys = {k1}
    k1 = k1
    Octets = {1}
    MaxId = 1
INVARIANTS
    AtMostOneReceipt
