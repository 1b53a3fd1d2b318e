CONSTANTS
    NumWords = 3
    HalfBase = 4
    Hashes <- EdgeNumbers
    Difficulties <- EdgeNumbers
    Unset = Unset
SPECIFICATION Spec
INVARIANTS TypeOK PartialProduct AnswerIsProductBound AgreesWithBoundary
