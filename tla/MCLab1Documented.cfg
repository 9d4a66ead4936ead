SPECIFICATION Spec
CONSTANTS
    Rovers = 1
    Answers <- MCAnswers
    Rows = 2
    Cols = 2
    Mined <- MCMined
    Workers = 2
    Sources <- MCMineThrice
    SerialMode = "value"
    Words <- MCWords
INVARIANT PinsAsDocumented
