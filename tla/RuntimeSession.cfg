SPECIFICATION Spec
CONSTANTS
    v0 = v0
    v1 = v1
    Values = {v0, v1}
    Paths = {1, 2}
    RuntimePaths = {1, 2}
    Baseline <- MCBaseline
    EventCapacity = 8
    NoValue = NoValue
    NoId = NoId
    Policies <- MCPolicies
    PersistedOverlays <- MCPersistedOverlays
    PersistedMetadata <- MCPersistedMetadata
    PullRequests <- MCPullRequests
    WriteLists <- MCWriteLists
    MaxTime = 2
    MaxEvents = 6
    MaxAudit = 2
    MaxRevision = 1
    ClockMayStepBack = FALSE
INVARIANTS
    TypeOK
    DirtyEventsAgree
    ValueEventsChain
    AuditHeadIsCurrent
    AuditRecordsChain
    LogsInOrder
PROPERTIES
    LogsOnlyGrow
    
