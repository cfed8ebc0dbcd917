SPECIFICATION Spec
CONSTANTS
    N = 3
    MaxPosts = 2
    Reads <- MCPoll
INVARIANTS
    FifoDelivery
