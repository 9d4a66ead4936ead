SPECIFICATION Spec
CONSTANTS
    Workers = {w1, w2}
    Serials = {s1}
    Programs <- ConcurrentPrograms
    DefaultSide = 2
    MaxSide = 2
    MaxMines = 0
    MaxRovers = 1
    Objects = {1, 2, 3}
PROPERTY ExclusiveDispatch
