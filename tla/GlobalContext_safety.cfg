CONSTANTS
    Threads = {t1, t2, t3}
    Epochs <- MixedEpochs
    MaxEpochNumber = 1
    Blocks = {b1, b2, b3, b4}
    MaxCalls = 2
    NULL = NULL
    Free = Free
    Raw = Raw
SYMMETRY Symmetry
SPECIFICATION Spec
INVARIANTS TypeOK PointerValid BlocksAccounted PeakBound
PROPERTY ImplementsContextCache
