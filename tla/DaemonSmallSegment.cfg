SPECIFICATION FairSpec
CONSTANTS
    good = good
    other = other
    forged = forged
    foreign = foreign
    huge = huge
    NoCommand = NoCommand
    Commands = {good, huge}
    Signed = {good, other, foreign, huge}
    Mine = {good, other, forged, huge}
    MessageMaxSize = 3
    OtherSize = 2
    MaxPages = 2
    BasicFits = FALSE
    ExitAfter = 6
    Faults = {}
    MaxFaults = 0
    MaxResets = 0
    CanTerm = FALSE
    CmdSize <- Sizes
PROPERTIES
    PublishesInOrder
    LimitedRunEnds
CHECK_DEADLOCK FALSE
