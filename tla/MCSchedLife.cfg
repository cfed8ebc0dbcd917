SPECIFICATION Spec
CONSTANTS
    MaxTid = 3
    MaxPid = 2
    MaxSleep = 1
    MaxEvents = 0
    Q1 = 1
    Q3 = 2
    Q4 = 2
    QMax = 2
    QBoost = 1
    InitServices <- MCLifeInit
    UserServices <- MCLifeUser
    StrayReads <- MCAnyStray
INVARIANTS
    OneRunning
    CurrentIsValid
PROPERTIES
    DestroyedStaysDestroyed
