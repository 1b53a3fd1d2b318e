CONSTANTS
    MaxEpochNumber = 4
    Horizon = 8
    Zero = 0
    Hashes <- MCHashes
    Keccak <- MCKeccak
    Part <- MCPart
    Seed <- MCSeed
    Fakes <- MCFakes
SPECIFICATION Spec
INVARIANTS TypeOK CacheConsistent InRangeRecovered NeverAnotherEpoch WorkBounded
