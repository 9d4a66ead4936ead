SPECIFICATION FairSpec
CONSTANTS
    N = 3
    Workers = 2
    Width = 3
    Height = 2
    Mine <- MCMine
    Blocked <- MCBlocked
    Start <- MCStart
    Commands <- MCCommands
    ChunkSize = 3
    MaxStops = 2
INVARIANTS TypeOK ReportsTrue PinsLogged SummaryWhole
PROPERTIES RunEnds
CHECK_DEADLOCK FALSE
