SPECIFICATION CSpec
CONSTANTS
    Programs <- MCPrograms
    Configs <- MCConfigs
    Priorities = {0}
    TickInterval = 1
    MaxPrograms = 3
    MaxProcs = 3
    MaxTick = 0
    MaxTicksChoices = {3, 200}
    SafeMaxTicks = 30
    ArgLists <- MCArgLists
    Numerals <- MCNumerals
    LibraryProcs = 2
INVARIANT
    StopIsPrompt
PROPERTIES
    RunReturns
    RunFinishesWork
    RunStopsForAReason
    DemoFinishes
CHECK_DEADLOCK FALSE
