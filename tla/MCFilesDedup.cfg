SPECIFICATION FilesSpec
CONSTANTS
    d1 = d1 d2 = d2 f1 = f1 f2 = f2 h1 = h1 h2 = h2 h3 = h3 k1 = k1 k2 = k2
    FileIds = {f1, f2}
    Keys = {k1, k2}
    Devices = {d1, d2}
    Hashes = {h1, h2, h3}
    Replicas = {r1}
    None = None
    Chunking <- MCChunking
    chunk_len <- MCLen
    Pinned <- MCPinned
    Scenarios <- MCScenarios
    Sees <- MCSees
INVARIANT BootFindsLosses
