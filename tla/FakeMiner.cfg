CONSTANTS
    Threads = {t1, t2}
    Epochs <- ThreeEpochs
    MaxEpochNumber = 2
    Blocks = {b1, b2}
    MaxCalls = 4
    NULL = NULL
    Free = Free
    Raw = Raw
    EpochLength = 2
    StartBlock = 1
    NumBlocks = 3
    MaxBatches = 2
SPECIFICATION MinerSpec
INVARIANTS MinerTypeOK SearchesOwnEpoch HashesAccounted
PROPERTY MinerEnds
