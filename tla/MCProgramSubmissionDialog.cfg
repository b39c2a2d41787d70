SPECIFICATION DSpec
CONSTANTS
    Names <- MCNames
    CpuTimes = {1}
    Ticks <- MCTicks
    Durations = {2}
    MaxRows = 3
INVARIANTS
    PresetIsDemoProgram
    LastRowIsCalled
