CONSTANTS
    Decimals = 1
    Registers <- MCShortRegisters
    Types <- MCShortTypes
    Scalings <- MCShortScalings
    Memories <- MCShortMemories
    Requests <- MCShortRequests

SPECIFICATION Spec
INVARIANT WriteStaysInFrame
