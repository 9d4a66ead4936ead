SPECIFICATION FairSpec
CONSTANTS
    Rovers = 2
    Answers <- MCAnswers
    Rows = 2
    Cols = 2
    Mined <- MCMined
    Workers = 2
    Sources <- MCSources
    SerialMode = "value"
    Words <- MCWords
INVARIANTS TypeOK EntriesKept PathsTell EachMineHasPin
PROPERTIES FetchedOnce RunEnds
