SPECIFICATION FairSpec
CONSTANTS
    Clients = {c1, c2}
    Names <- MCNames
    Size <- MCSize
    Unreadable = {"bad"}
    MaxCommands = 3
    MaxFaults = 2
INVARIANTS TypeOK WholeFiles NothingButGaps NoRemnants NothingLeftOver
PROPERTIES DownloadsEnd
CHECK_DEADLOCK FALSE
