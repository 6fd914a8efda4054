SPECIFICATION Spec
CONSTANTS
    SizeLimit = 65536
    Kinds = {"Adlink", "Congatec", "Dev", "TinyUSB", "Dummy"}
    MemorySize = 4
    HeaderBytes = 1
    SLOTS = 2
    mMaxBlockLen = 3
    UsbBuses = 2
    BusChanges = 1
    BusAccesses = 2
    Adapters = 3
    FileLimit = 2
    Clients = {c1, c2}
    OffsetLimit = 8
    Lengths = {0, 1, 5}
    Layouts <- SomeLayouts
    Unset = {0, 3}
    NodeCalls = 2
    NodeFaults = 1
    ignoreFirstBytes = 4
    MAX_RECEIVE_SIZE = 12
    TextLengths = {1, 3}
    Requests = 2
    ByteValues = 2
    Quantities = {0, 1, 3, 5, 17}
    Lanes = 8
    Updates = 2
    Bursts = {0, 17}
    Ticks = 3
INVARIANTS
    HandlesClosed
    AddressSettles
    TransfersTruthful
    AdaptersTold
    MonitoringAtChunk
    OwnAnswer
    KindKept
    ReadingFaithful
    RatesFaithful
PROPERTIES
    ChunkSearchEnds
CHECK_DEADLOCK FALSE
