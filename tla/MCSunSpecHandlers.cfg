CONSTANTS
    Decimals = 1
    Registers <- MCRegisters
    Types <- MCTypes
    Scalings <- MCScalings
    Memories <- MCMemories
    Requests <- MCRequests

SPECIFICATION Spec
INVARIANT ReadWriteRoundTrip
INVARIANT WriteBackRestoresStore
