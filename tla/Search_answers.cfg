CONSTANTS
    NonceLimit = 7
    MaxIterations = 4
    Accesses = 2
    MaxWord = 3
    Items <- MCItems
    FirstMix <- MCFirstMix
    Index <- MCIndex
    Item <- MCItem
    Fnv <- MCFnv
    Fold <- MCFold
    HashFinal <- MCHashFinal
SPECIFICATION FairSpec
INVARIANTS TypeOK SearchAnswer VerdictRight
PROPERTY Returns
