SPECIFICATION TcpSpec
CONSTANTS
    good = good
    forged = forged
    NoCommand = NoCommand
    Commands = {}
    Signed = {good}
    Mine = {good, forged}
    MessageMaxSize = 3
    OtherSize = 2
    MaxPages = 1
    BasicFits = TRUE
    ExitAfter = 0
    Faults = {}
    MaxFaults = 0
    MaxResets = 0
    CanTerm = FALSE
    MaxBreaks = 1
    MaxRefused = 1
    Monitor = FALSE
    CmdSize <- Sizes
INVARIANTS
    FirstIsBasic
CHECK_DEADLOCK FALSE
