SPECIFICATION FairSpec
CONSTANTS
    MaxTid = 2
    MaxPid = 2
    MaxSleep = 1
    MaxEvents = 1
    Q1 = 1
    Q3 = 2
    Q4 = 2
    QMax = 2
    QBoost = 1
    InitServices <- MCLiveInit
    UserServices <- MCLiveUser
    StrayReads <- MCAnyStray
PROPERTIES
    SwitchEnds
    NoStarvation
    SleepersWake
