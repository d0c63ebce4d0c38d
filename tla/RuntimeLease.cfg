SPECIFICATION Spec
CONSTANTS
    v0 = v0
    v1 = v1
    Values = {v0, v1}
    Paths = {1}
    RuntimePaths = {1}
    Baseline <- MCBaseline
    EventCapacity = 20
    NoValue = NoValue
    NoId = NoId
    Policies <- MCPolicies
    PersistedOverlays <- MCPersistedOverlays
    PersistedMetadata <- OnePathMetadata
    PullRequests = {}
    WriteLists <- OnePathWrites
    MaxTime = 3
    MaxEvents = 6
    MaxAudit = 2
    MaxRevision = 1
    ClockMayStepBack = TRUE
INVARIANTS
    DirtyMapsAgree
    TimersBelongToOverrides
    RefusedOnlyWhileClockBehind
PROPERTIES
    OnlyOwnDeadlineReverts
    DriverKeepsCompensating
