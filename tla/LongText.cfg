SPECIFICATION Spec
CONSTANTS
    j1 = j1
    j2 = j2
    Jobs = {j1, j2}
    Contents <- MCContents
    Refs <- MCRefs
    MaxRunes = 200
INVARIANTS
    TypeOK
    SentIsQueued
    TextArrives
    SubmitsRead
SYMMETRY Symmetric
