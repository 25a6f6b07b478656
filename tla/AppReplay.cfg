\* The replay loop over the timeline of a file.
SPECIFICATION AppFairSpec
CONSTANTS
    Half = 4
    Endpoint <- AppEndpoint
    DeadAfter = 1
    ResetThreshold = 2
    ThroughputWindow = 2
    ReorderWindow = 1
    BpsScale = 8
    Window <- FailFast
    MaxSamples = 20
    SeriesIds <- NoIds
    CollectState = TRUE
    CollectSeq = TRUE
    CollectInflight = TRUE
    CollectRtt = TRUE
    CollectThroughput = TRUE
    Segments <- ReplaySegments
    MaxTime = 2
    MaxSegs = 2
    Jitter = 1
    Ip <- AppEndpoint
    NameCap = 1
    EndpointOrder <- AppEndpointOrder
    Services <- AppServices
    Heard <- AppHeard
    Word <- AppWord
    Dts <- AppDts
    MIN_W = 2
    MIN_H = 2
    PlotW = 3
    PlotH = 3
    MaxKeys = 3
    MaxHeard = 0
INVARIANTS
    PanesAgree
    NothingAhead
    ResendsVisible
PROPERTIES
    PlaybackEnds
    RevealMonotone
