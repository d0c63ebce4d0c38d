SPECIFICATION Spec
CONSTANTS
    v0 = v0
    v1 = v1
    Values = {v0, v1}
    Paths = {1}
    RuntimePaths = {1}
    Baseline <- MCBaseline
    EventCapacity = 20
    NoValue = NoValue
    NoId = NoId
    Policies <- MCPolicies
    PersistedOverlays <- MCPersistedOverlays
    PersistedMetadata <- OnePathMetadata
    PullRequests = {}
    WriteLists <- OnePathWrites
    MaxTime = 2
    MaxEvents = 5
    MaxAudit = 2
    MaxRevision = 1
    ClockMayStepBack = FALSE
INVARIANTS
    GenerationsIncrease
