SPECIFICATION ConnSpec
CONSTANTS
    Conns = {c1, c2}
    Handles = {h1, h2}
    Person = {h1, h2}
    Writers = {w1}
    None = None
    MaxHistories = 1
INVARIANTS OneLive JudgedOrClosed
PROPERTIES ToldLeaves ShutdownDrains
CHECK_DEADLOCK FALSE
