CONSTANTS
    Epochs <- MCEpochs
    MaxEpochNumber = 3
    LightInit = 6
    LightGrowth = 3
    FullInit = 12
    FullGrowth = 9
    Rounds = 3
    IntMax = 39
    SizeLimit = 1024
SPECIFICATION Spec
INVARIANTS TypeOK AllocationCovers RoundsInOrder ChainUnbroken OnlyCompleteContexts
