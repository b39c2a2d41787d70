SPECIFICATION HSpec
CONSTANTS
    Programs <- MCPrograms
    Configs <- PriorityConfig
    Priorities = {0, 1}
    TickInterval = 1
    MaxPrograms = 1
    MaxProcs = 3
    MaxTick = 8
PROPERTY PriorityTiesAreFcfs
