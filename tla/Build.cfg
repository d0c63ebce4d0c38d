SPECIFICATION Spec
CONSTANTS
    Names <- MCNames
    MAX_CHAIN_DEPTH = 2
    Chunks <- MCChunks
    UnitOf <- MCUnitOf
    ConfigOf <- MCConfigOf
    ClusterNames <- MCClusterNames
    PartitionNames <- MCPartitionNames
    chunk_order <- hash_order
    Decisions <- compiler_decisions
    Processes = {p1, p2}
    Unions <- MCUnions
    OneShots <- MCOneShots
    Links <- MCLinks
    Sources = {"a1", "b1"}
    Uses <- MCUses
    ClusterSizes = {4, 99}
    EarlierBuilds <- MCEarlierBuilds
    MaxRuns = 2
INVARIANTS
    
    OpenPackageIsWhole
    LoadedCcmIsOneEmission
    CompletedBuildAgrees
CHECK_DEADLOCK FALSE
SYMMETRY Symmetry
