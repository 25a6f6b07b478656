\* A 4-tuple is evicted and opened again between two frames.
SPECIFICATION AppSpec
CONSTANTS
    Half = 4
    Endpoint <- AppEndpoint
    DeadAfter = 1
    ResetThreshold = 2
    ThroughputWindow = 2
    ReorderWindow = 1
    BpsScale = 8
    Window = 1
    MaxSamples = 9
    SeriesIds <- NoIds
    CollectState = TRUE
    CollectSeq = FALSE
    CollectInflight = FALSE
    CollectRtt = FALSE
    CollectThroughput = FALSE
    Segments <- AppSegments
    MaxTime = 3
    MaxSegs = 2
    Jitter = 0
    Ip <- AppEndpoint
    NameCap = 1
    EndpointOrder <- AppEndpointOrder
    Services <- AppServices
    Heard <- AppHeard
    Word <- AppWord
    Dts <- AppDts
    MIN_W = 2
    MIN_H = 2
    PlotW = 3
    PlotH = 3
    MaxKeys = 2
    MaxHeard = 1
INVARIANT MetasCurrent
