SPECIFICATION Spec
CONSTANTS
    a1 = a1
    a2 = a2
    Senders = {}
    Requests = {"plain", "replace"}
    MaxRequests = 2
    Window = 1
    BatchMax = 1
    MaxSequence = 1
INVARIANTS
    WrittenOnce
