SPECIFICATION Spec
CONSTANTS
    N = 3
    MaxPosts = 6
    Reads <- MCMixed
INVARIANTS
    TypeOK
    ExactlyOnce
    DeliveredInOneTurn
