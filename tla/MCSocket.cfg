SPECIFICATION Spec
CONSTANTS
    NProcs = 2
    NSlots = 2
    MaxSock = 3
    NPending = 3
    DefaultMax = 2
    Actions <- MCActions
    Payload <- MCPayload
    Services <- MCServices
    Talks = {2}
INVARIANTS
    TypeOK
    BufferDirection
    EnqueuedOnce
    ServedEveryTurn
PROPERTIES
    DropsOnlyWhenFull
