SPECIFICATION Spec
CONSTANTS
    good = good
    other = other
    forged = forged
    foreign = foreign
    huge = huge
    NoCommand = NoCommand
    Commands = {good, other}
    Signed = {good, other, foreign, huge}
    Mine = {good, other, forged, huge}
    MessageMaxSize = 3
    OtherSize = 2
    MaxPages = 2
    BasicFits = TRUE
    ExitAfter = 0
    Faults = {"zero", "error", "write"}
    MaxFaults = 2
    MaxResets = 1
    CanTerm = TRUE
    CmdSize <- Sizes
INVARIANTS
    TypeOK
    ExecutionsPaidFor
    CommandsAccountedFor
    UnreadLossBounded
    DeliveredInOrder
CHECK_DEADLOCK FALSE
