SPECIFICATION TcpFairSpec
CONSTANTS
    good = good
    forged = forged
    NoCommand = NoCommand
    Commands = {good, forged}
    Signed = {good, forged}
    Mine = {good, forged}
    MessageMaxSize = 3
    OtherSize = 2
    MaxPages = 2
    BasicFits = TRUE
    ExitAfter = 0
    Faults = {}
    MaxFaults = 0
    MaxResets = 0
    CanTerm = FALSE
    MaxBreaks = 0
    MaxRefused = 1
    Monitor = FALSE
    CmdSize <- Sizes
PROPERTIES
    PacketsLeaveBuffer
CHECK_DEADLOCK FALSE
