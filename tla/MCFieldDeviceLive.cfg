CONSTANTS
    BinaryTags <- MCBinaryTags
    AnalogTags <- MCAnalogTags
    BinaryModules <- MCBinaryModules
    AnalogModules <- MCAnalogModules
    InternalBinaryInit <- MCInternalBinaryInit
    InternalAnalogInit <- MCInternalAnalogInit
    BinaryDevices <- MCBinaryDevices
    AnalogDevices <- MCAnalogDevices
    OutputDevices <- MCOutputDevices
    AnalogValues <- MCAnalogValues
    Program <- MCLiveProgram
    Registers <- MCRegisters
    RegType <- MCRegTypeSunssf
    Requests <- MCLiveRequests
    NoValue = NoValue
    MaxCycles = 1
    MaxPublishes = 1
    MaxRequests = 1
    MaxPhysics = 0
    SimulatorRejects = TRUE
    RepliesMayBeLost = FALSE

SPECIFICATION LiveSpec
PROPERTY CycleCompletesOrDeadlocks RequestCompletesOrDeadlocks
CHECK_DEADLOCK FALSE
