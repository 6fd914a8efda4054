SPECIFICATION FairSpec
CONSTANTS
    good = good
    other = other
    forged = forged
    foreign = foreign
    huge = huge
    NoCommand = NoCommand
    Commands = {good, forged, foreign}
    Signed = {good, other, foreign, huge}
    Mine = {good, other, forged, huge}
    MessageMaxSize = 3
    OtherSize = 2
    MaxPages = 2
    BasicFits = TRUE
    ExitAfter = 0
    Faults = {}
    MaxFaults = 0
    MaxResets = 0
    CanTerm = TRUE
    CmdSize <- Sizes
PROPERTIES
    PublishesInOrder
    EventuallyPublished
    StopsOnRequest
CHECK_DEADLOCK FALSE
