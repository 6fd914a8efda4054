SPECIFICATION TcpFairSpec
CONSTANTS
    good = good
    forged = forged
    NoCommand = NoCommand
    Commands = {good, forged}
    Signed = {good}
    Mine = {good, forged}
    MessageMaxSize = 3
    OtherSize = 2
    MaxPages = 2
    BasicFits = TRUE
    ExitAfter = 0
    Faults = {}
    MaxFaults = 0
    MaxResets = 0
    CanTerm = TRUE
    MaxBreaks = 2
    MaxRefused = 1
    Monitor = TRUE
    CmdSize <- Sizes
INVARIANTS
    TcpTypeOK
    ExecutionsPaidFor
    ConnectionInOrder
PROPERTIES
    EventuallyComplete
CHECK_DEADLOCK FALSE
