CONSTANTS
    IntMax = 400
    Bounds <- MCBounds
SPECIFICATION FairSpec
INVARIANTS TypeOK FindsLargestPrime
PROPERTY Terminates
