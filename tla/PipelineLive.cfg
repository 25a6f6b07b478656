\* Both threads, a channel of two events, bursts of two names.
SPECIFICATION FairSpec
CONSTANTS
    Cap = 2
    MaxNames = 2
    MaxPackets = 2
    MaxEvents = 4
    Micro = 2
    MaxClock = 2
INVARIANT FrameHonest
PROPERTIES
    OneTimeAxis
    ImplementsFeed
    QuitReleases
