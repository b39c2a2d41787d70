SPECIFICATION HSpec
CONSTANTS
    Programs <- MCPrograms
    Configs <- MCConfigs
    Priorities = {0, 1}
    TickInterval = 1
    MaxPrograms = 2
    MaxProcs = 3
    MaxTick = 8
INVARIANTS
    TypeOK
    Placement
    WorkConserving
    NoOverdueSleeper
    CompletionIsFinal
    HighestPriorityRuns
    CpuAccounting
    FcfsNeverPreempts
    BoundedWaiting
    SliceIsHonoured
    CompletionAnnounced
PROPERTIES
    LifecycleSpec
    WakeupSpec
    
    ServedInOrder
