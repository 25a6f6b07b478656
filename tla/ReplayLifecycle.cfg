\* Replay: FailFast retention, timestamps that may step back by one.
SPECIFICATION Spec
CONSTANTS
    Half = 4
    Endpoint <- MCEndpoint
    EndpointOrder <- MCEndpointOrder
    DeadAfter = 1
    ResetThreshold = 2
    ThroughputWindow = 2
    ReorderWindow = 1
    BpsScale = 8
    Window <- FailFast
    MaxSamples = 3
    SeriesIds <- NoIds
    CollectState = TRUE
    CollectSeq = FALSE
    CollectInflight = FALSE
    CollectRtt = FALSE
    CollectThroughput = FALSE
    Segments <- LifecycleSegments
    MaxTime = 3
    MaxSegs = 4
    Jitter = 1
INVARIANTS
    ClosedExactly
    EverySegmentAttributed
    CeilingHolds
    ReplayResolvesAsOf
    EventSteps
PROPERTIES
    LifecycleMonotone
    TargetFound
CHECK_DEADLOCK FALSE
