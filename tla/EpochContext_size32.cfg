CONSTANTS
    Epochs <- MCEpochs
    MaxEpochNumber = 3
    LightInit = 6
    LightGrowth = 3
    FullInit = 12
    FullGrowth = 9
    Rounds = 3
    IntMax = 39
    SizeLimit = 64
SPECIFICATION Spec
INVARIANT AllocationCovers
