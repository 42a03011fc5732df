CONSTANTS
    BinaryTags <- MCBinaryTags
    AnalogTags <- MCAnalogTags
    BinaryModules <- MCBinaryModules
    AnalogModules <- MCAnalogModules
    InternalBinaryInit <- MCInternalBinaryInit
    InternalAnalogInit <- MCInternalAnalogInit
    BinaryDevices <- MCBinaryDevices
    AnalogDevices <- MCAnalogDevices
    OutputDevices <- MCOutputDevices
    AnalogValues <- MCAnalogValues
    Program <- MCNoProgram
    Registers <- MCRegisters
    RegType <- MCRegType
    Requests <- MCRequests
    NoValue = NoValue
    MaxCycles = 2
    MaxPublishes = 1
    MaxRequests = 1
    MaxPhysics = 1
    SimulatorRejects = TRUE
    RepliesMayBeLost = TRUE

SPECIFICATION LiveSpec
PROPERTY CycleCompletes
CHECK_DEADLOCK FALSE
