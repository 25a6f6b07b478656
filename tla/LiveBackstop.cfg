\* The Evict backstop when new connections keep appearing.
SPECIFICATION Spec
CONSTANTS
    Half = 4
    Endpoint <- MCEndpoint
    EndpointOrder <- MCEndpointOrder
    DeadAfter = 1
    ResetThreshold = 2
    ThroughputWindow = 2
    ReorderWindow = 1
    BpsScale = 8
    Window = 2
    MaxSamples = 3
    SeriesIds <- AllIds
    CollectState = TRUE
    CollectSeq = TRUE
    CollectInflight = TRUE
    CollectRtt = TRUE
    CollectThroughput = TRUE
    Segments <- LiveSegments
    MaxTime = 5
    MaxSegs = 3
    Jitter = 0
INVARIANT BackstopHolds
CHECK_DEADLOCK FALSE
