CONSTANTS
    p1 = p1
    p2 = p2
    m1 = m1
    m2 = m2
    l1 = l1
    Pages = {p1, p2}
    Main = {m1, m2}
    Local = {l1}
    Scenarios <- MCScenarios
SPECIFICATION RelaySpec
INVARIANTS
    LandsOnce
    ToldAsSettled
    RefusalsStand
    CreditsConserved
    MirrorsConverge
PROPERTIES
    WritesAnswered
CHECK_DEADLOCK FALSE
