SPECIFICATION Spec
CHECK_DEADLOCK FALSE
CONSTANTS
    ToolsLogs <- MCToolsLogs
    Ten = 2
    Second = 2
    DbgInputs <- MCDbgInputs
    MaxRotations = 2
    MaxFetches = 2
    PullInputs <- MCPullInputs
    DeleteLogs <- MCDeleteLogs
    MaxPullCalls = 2
    DeviceInputs <- MCDeviceInputs
    MaxKeepalives = 1
    MaxSsrc = 4
    MaxTalkCalls = 3
    Players = {1, 2}
    Deadline = 3
    Timeout = 1
    WatchedStreams = 3
    MaxObserved = 4
    Windows = 2
    Files = {"f", "g"}
    KubeNodes = {1, 2, 3}
    KubeInputs <- MCKubeInputs
    MaxChanges = 2
    MaxLowBwCalls = 4
    Namespaces = {1, 2, 3}
    Rtmp = {1, 3}
    NsStreams = {1, 2, 3, 4, 5}
    Active = {2, 3, 4, 5}
    NsLine = 1
    StreamsLine = 2
    NsAtStart <- MCNsAtStart
    StreamsAtStart <- MCStreamsAtStart
    MaxListChanges = 2
    Keywords = {1, 2}
    Dumps <- MCDumps
    TooLarge = 5
    MaxSearches = 2
    TableLogs <- MCTableLogs
    TableNodes <- MCTableNodes
    ListingInputs <- MCListingInputs
    DevicePage = 2
    RequestWindow = 2
    MaxDeviceChanges = 1
INVARIANTS
    NeverMixed ReportedAfter AnsweredOnce NoFailureHidden Gathered AllOrNothing NothingLeftOut
PROPERTY ToolsEnd
