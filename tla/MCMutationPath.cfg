CONSTANTS
    MaxWrites = 2
    MaxConns = 3
    MaxWork = 4
    MaxFaults = 1
SPECIFICATION PathSpec
INVARIANTS
    VerdictsTruthful
    NeverGappedOrForked
PROPERTIES
    UsesWriterStore
    EveryWriteAnswered
