SPECIFICATION Spec
CONSTANTS
    BufferSize = 153
    Sensors <- Pool
    Descriptions <- Texts
    PluginGroups = {"json"}
    TelnetClients = {1, 2}
    TelnetGroups = {"json", "telnet"}
    NoGroup = ""
    GroupLimit = 2
    MaxManual = 2
    MaxProviders = 1
INVARIANTS
    DescriptionComplete
    GroupIdsFaithful
    DataFitsDescription
    ValuesFromOwnField
CHECK_DEADLOCK FALSE
