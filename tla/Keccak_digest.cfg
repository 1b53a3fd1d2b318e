CONSTANT Calls <- MCCalls
SPECIFICATION Spec
INVARIANTS TypeOK PointersInside DigestsAsTested
PROPERTY ImplementsKeccak
