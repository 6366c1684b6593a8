SPECIFICATION Spec
CONSTANTS
    a1 = a1
    a2 = a2
    Senders = {a1, a2}
    Requests = {"plain", "unbind"}
    MaxRequests = 1
    Window = 2
    BatchMax = 2
    MaxSequence = 2
INVARIANTS
    TypeOK
    ResponseFindsEntry
PROPERTIES
    ImplementsOutbox
SYMMETRY Symmetric
