SPECIFICATION Spec
CONSTANTS
    Workers = {w1}
    Serials = {s1}
    Programs <- SerialPrograms
    DefaultSide = 2
    MaxSide = 2
    MaxMines = 2
    MaxRovers = 1
    Objects = {1, 2}
INVARIANTS FieldInMap MinesApart
PROPERTIES LeavesNoActiveMine ImplementsLifecycle
