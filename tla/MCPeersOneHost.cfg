SPECIFICATION PFairSpec
CONSTANTS
    p = p
    q = q
    x = x
    y = y
    Procs = {p, q}
    Names = {"Ann", "Bob"}
    Ips = {"h1", "h2"}
    Ports = {1, 2}
    Contents = {x, y}
    MaxPeers = 2
    MaxContent = 2
    SentLimit = 2
    PageLines = 1
    Name <- OwnNames
    Host <- OneHost
    Port <- OwnPorts
    Dir <- OwnDirs
    Files <- FileEach
    Conditions <- NoFaults
    MaxCommands <- Five
    MaxQueue = 2
PROPERTIES EveryCommandReturns QuitLeavesNothing
CHECK_DEADLOCK FALSE
