SPECIFICATION DsFairSpec
CONSTANTS
    NProcs = 4
    NSlots = 2
    MaxSock = 3
    NPending = 3
    DefaultMax = 2
    Actions <- DsActions
    Payload <- DsPayload
    Services <- MCServices
    Talks = {}
    Backlogs = {1, 2}
    MaxTries = 2
    Kinds <- MCKinds
CHECK_DEADLOCK FALSE
INVARIANTS
    AnsweredToAsker
PROPERTIES
    ImplementsRpc
    Answered
