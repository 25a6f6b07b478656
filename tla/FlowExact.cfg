\* Timestamps may step back by one, and a re-send may be soon enough for reordering.
SPECIFICATION SeqSpec
CONSTANTS
    Half = 3
    Endpoint <- MCEndpoint
    DeadAfter = 1
    ResetThreshold = 2
    ThroughputWindow = 1
    ReorderWindow = 1
    BpsScale = 8
    MaxOutstanding = 2
    MaxLen = 2
    MaxPos = 7
    MaxEvents = 4
    MaxTime = 1
    Jitter = 1
    Window = 0
    MaxSamples = 0
    SeriesIds = {}
    CollectState = FALSE
    CollectSeq = TRUE
    CollectInflight = FALSE
    CollectRtt = FALSE
    CollectThroughput = FALSE
INVARIANTS
    InFlightExact
    ResendsFlagged
    DataRttUnambiguous
    ThroughputExact
    PointsOnStream
CHECK_DEADLOCK FALSE
