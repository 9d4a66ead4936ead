SPECIFICATION FairSpec
CONSTANTS
    Rovers = {1, 2}
    Deminers = {d1, d2}
    Width = 2
    Height = 2
    Cell <- MCCell
    Commands <- MCCommands
    Start <- MCStart
    MaxFaults = 1
INVARIANTS TypeOK NoMineForgotten RepeatsTellFaults OneDeminerPerTask
PROPERTIES ReportsAreLogged
CHECK_DEADLOCK FALSE
