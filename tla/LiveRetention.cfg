\* Live capture: Evict retention, all five timelines, ordered timestamps.
SPECIFICATION FairSpec
CONSTANTS
    Half = 4
    Endpoint <- MCEndpoint
    EndpointOrder <- MCEndpointOrder
    DeadAfter = 1
    ResetThreshold = 2
    ThroughputWindow = 2
    ReorderWindow = 1
    BpsScale = 8
    Window = 2
    MaxSamples = 7
    SeriesIds <- AllIds
    CollectState = TRUE
    CollectSeq = TRUE
    CollectInflight = TRUE
    CollectRtt = TRUE
    CollectThroughput = TRUE
    Segments <- LiveSegments
    MaxTime = 5
    MaxSegs = 3
    Jitter = 0
INVARIANTS
    TypeOK
    InstancesOrdered
    LiveIsNewest
    CollectedExact
    CurrentStateRetained
    NoStaleSamples
PROPERTIES
    LiveNeverRegresses
    EventuallyEvicted
CHECK_DEADLOCK FALSE
