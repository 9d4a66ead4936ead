SPECIFICATION Spec
CONSTANTS
    Names = {Ann, Bob, Cy}
    Ips = {h1, h2}
    Ports = {1}
    Contents = {x, y, z}
    MaxPeers = 2
    MaxContent = 2
    SentLimit = 2
    PageLines = 1
SYMMETRY MCSymmetry
INVARIANTS EntriesWhole NpeersCounts
PROPERTIES ImplementsCatalogue
