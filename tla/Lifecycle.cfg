SPECIFICATION Spec
CONSTANTS
    Setups <- TheSetups
    Headers <- TheHeaders
    SizeLimit = 1048576
    Slots <- TheSlots
    SensorSizes = {8, 90}
    Clients = {c1}
INVARIANTS
    LifecycleTypeOK
    ReleasedOnce
    CodeStaysLoaded
    ServerOutlived
    SegmentSafe
PROPERTIES
    FirstRegistrationWins
    TearDownEnds
CHECK_DEADLOCK FALSE
