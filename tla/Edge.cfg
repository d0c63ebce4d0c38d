SPECIFICATION EdgeSpec
CHECK_DEADLOCK FALSE
CONSTANTS
    v0 = v0
    v1 = v1
    Values = {v0, v1}
    Paths = {1, 2}
    RuntimePaths = {1}
    Baseline <- MCBaseline
    EventCapacity = 3
    NoValue = NoValue
    NoId = NoId
    Policies <- LeaseOnly
    PersistedOverlays <- CleanOnly
    PersistedMetadata = {}
    PullRequests <- EdgePulls
    WriteLists <- ClientWrites
    MaxTime = 2
    MaxEvents = 4
    MaxAudit = 2
    MaxRevision = 0
    ClockMayStepBack = FALSE
    AcceptedVersions <- MCAcceptedVersions
    InactivePolicies <- MCInactivePolicies
    NodeWrites <- MCNodeWrites
    Goals = {g1}
    MaxPoll = 2
    NoRequest = NoRequest
    MaxAttempts = 2
    InitialBackoff = 1
    MaxBackoff = 2
    MaxQueueDepth = 1
    AtMostOnce = FALSE
INVARIANTS
    NodeMirrorsRuntime
    
    DiagnosticsFollowEvents
    

    
