SPECIFICATION FeedSpec
CONSTANTS
    Clients = {c1}
    Rows = 2
    MaxEntries = 3
    MaxCommits = 3
    MaxFaults = 1
    MaxDrops = 2
    MaxEvents = 4
    Kinds = {"promote", "point_in_time", "same_cluster", "fresh_above", "fresh_below", "new_slot"}
INVARIANTS NothingMissed RestoredRowsLeave LoginsRevoked RestartsFindNoGap
PROPERTIES Delivered
CHECK_DEADLOCK FALSE
