SPECIFICATION WSpec
CONSTANTS
    Programs <- MCPrograms
    Configs <- MCConfigs
    Priorities = {0}
    TickInterval = 1
    MaxPrograms = 2
    MaxProcs = 2
    MaxTick = 0
    MaxConnections = 4
INVARIANT OneTickPerClick
