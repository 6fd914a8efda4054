SPECIFICATION Spec
CONSTANTS
    Files <- MCFiles
    Settings <- MCSettings
    Strings = {""}
    Ints <- MCInts
    Doubles <- MCDoubles
    Listeners = {"l"}
    MaxStarts = 2
    MaxChanges = 2
INVARIANTS ConfigTypeOK ReadBack ListenersCurrent
PROPERTY ImplementsStore
CHECK_DEADLOCK FALSE
