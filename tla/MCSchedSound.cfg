SPECIFICATION TurnsSpec
CONSTANTS
    MaxTid = 2
    MaxPid = 3
    MaxSleep = 1
    MaxEvents = 1
    Q1 = 1
    Q3 = 2
    Q4 = 2
    QMax = 2
    QBoost = 1
    InitServices <- MCSoundInit
    UserServices <- MCSoundUser
    StrayReads <- MCAnyStray
INVARIANTS
    StopsOnlyWhenFull
PROPERTIES
    ImplementsRoundRobin
