CONSTANTS
    Devices = {d1, d2}
    MaxWrites = 2
    MaxLosses = 1
    MaxDeaths = 2
SPECIFICATION CarrySpec
INVARIANTS
    AppliedOncePerCarry
    TruthfulPerCarry
    GaplessPerCarry
CHECK_DEADLOCK FALSE
