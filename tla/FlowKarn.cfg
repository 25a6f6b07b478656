\* The default reorder window is not 0: a quick re-send counts as reordering.
SPECIFICATION SeqSpec
CONSTANTS
    Half = 4
    Endpoint <- MCEndpoint
    DeadAfter = 1
    ResetThreshold = 2
    ThroughputWindow = 2
    ReorderWindow = 1
    BpsScale = 8
    MaxOutstanding = 3
    MaxLen = 2
    MaxPos = 7
    MaxEvents = 4
    MaxTime = 3
    Jitter = 0
    Window = 0
    MaxSamples = 0
    SeriesIds = {}
    CollectState = FALSE
    CollectSeq = TRUE
    CollectInflight = FALSE
    CollectRtt = FALSE
    CollectThroughput = FALSE
INVARIANT RttNeverAmbiguous
CHECK_DEADLOCK FALSE
