SPECIFICATION GSpec
CONSTANTS
    Programs <- MCPrograms
    Configs <- MCConfigs
    Priorities = {0}
    TickInterval = 1
    MaxPrograms = 2
    MaxProcs = 3
    MaxTick = 12
INVARIANTS
    HistoryIsGapless
    RunTimeIsCpuTime
    BlockedTimeIsCallTime
    OneRunsAtATime
    RowsAreTiled
    SwitchesAreInterruptions
