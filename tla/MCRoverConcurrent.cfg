SPECIFICATION FairSpec
CONSTANTS
    Workers = {w1, w2}
    Serials = {s1}
    Programs <- ConcurrentPrograms
    DefaultSide = 1
    MaxSide = 1
    MaxMines = 1
    MaxRovers = 1
    Objects = {1, 2, 3}
INVARIANTS TypeOK StoredRoversTell
PROPERTY EveryRequestReturns
