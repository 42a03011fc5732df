CONSTANTS
    Decimals = 1
    Registers <- MCWideRegisters
    Types <- MCWideTypes
    Scalings <- MCWideScalings
    Memories <- MCWideMemories
    Requests <- MCWideRequests

SPECIFICATION Spec
INVARIANT ByteCountMatches
