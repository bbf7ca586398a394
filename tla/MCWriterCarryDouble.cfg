CONSTANTS
    Devices = {d1, d2}
    MaxWrites = 1
    MaxLosses = 1
    MaxDeaths = 2
SPECIFICATION CarrySpec
INVARIANTS
    WriteAppliedOnce
CHECK_DEADLOCK FALSE
