CONSTANTS
    Threads = {t1, t2}
    me = t1
    Items = {"plain", "hollow"}
    Words <- MCWords
    First = 0
    Values = {0, 1}
    Zero = 0
    Item <- MCItem
    Unread = Unread
    HoistLoads = TRUE
    Code <- MCCode
    NonceLimit = 3
    MaxIterations = 2
    Accesses = 2
    MaxWord = 1
    FirstMix <- MCFirstMix
    Index <- MCIndex
    Fnv <- MCFnv
    Fold <- MCFold
    HashFinal <- MCHashFinal
SPECIFICATION SearchSpec
INVARIANTS TypeOK SoundLookupsExact NoItemAbandoned CalculatedOnce
PROPERTIES WordsSettle ImplementsSearch
