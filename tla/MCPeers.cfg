SPECIFICATION PSpec
CONSTANTS
    p = p
    q = q
    x = x
    y = y
    Procs = {p, q}
    Names = {"Ann", "Bob"}
    Ips = {"h1", "h2"}
    Ports = {1, 2}
    Contents = {x, y}
    MaxPeers = 2
    MaxContent = 2
    SentLimit = 2
    PageLines = 1
    Name <- OwnNames
    Host <- OwnHosts
    Port <- OwnPorts
    Dir <- OwnDirs
    Files <- FileEach
    Conditions <- LossOrAll
    MaxCommands <- SevenOrTwo
    MaxQueue = 1
INVARIANTS PTypeOK AnswersMatch ListsAgree AddressesListen HostsFiles
CHECK_DEADLOCK FALSE
