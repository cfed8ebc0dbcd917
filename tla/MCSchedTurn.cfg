SPECIFICATION Spec
CONSTANTS
    MaxTid = 2
    MaxPid = 2
    MaxSleep = 1
    MaxEvents = 0
    Q1 = 1
    Q3 = 2
    Q4 = 2
    QMax = 2
    QBoost = 1
    InitServices <- MCTurnInit
    UserServices <- MCTurnUser
    StrayReads <- MCAnyStray
INVARIANTS
    TypeOK
    RoundGoesForward
