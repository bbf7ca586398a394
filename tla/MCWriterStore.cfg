CONSTANTS
    Writers = {w1, w2}
    Writes = {a}
    MaxSeq = 2
    MaxCalls = 2
SPECIFICATION StoreSpec
SYMMETRY Sym
INVARIANTS
    AppliedAtMostOnce
    ChainIntact
CHECK_DEADLOCK FALSE
