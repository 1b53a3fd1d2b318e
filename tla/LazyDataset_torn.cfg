CONSTANTS
    Threads = {t1, t2}
    Items = {"plain"}
    Words <- MCWords
    First = 0
    Values = {0, 1}
    Zero = 0
    Item <- MCItem
    Unread = Unread
    HoistLoads = FALSE
SYMMETRY Symmetry
SPECIFICATION Spec
INVARIANT EveryLookupExact
