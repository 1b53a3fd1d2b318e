CONSTANTS
    MaxEpochNumber = 2
    Horizon = 4
    Zero = 0
    Hashes <- MCHashes
    Keccak <- MCKeccak
    Part <- MCPart
    Seed <- MCSeed
    Fakes <- MCFakes
SPECIFICATION Spec
INVARIANT TooHighRejected
