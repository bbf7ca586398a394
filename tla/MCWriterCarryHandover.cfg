CONSTANTS
    Devices = {d1, d2}
    MaxWrites = 2
    MaxLosses = 2
    MaxDeaths = 0
SPECIFICATION CarrySpec
INVARIANTS
    WritesInOrder
PROPERTIES
    EveryCarriedWriteAnswered
CHECK_DEADLOCK FALSE
