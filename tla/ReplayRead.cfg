\* A file of up to three blocks, at most two of them packets, cut in every header.
SPECIFICATION CmdSpec
CONSTANTS
    NS_PER_SEC = 4
    MICRO_TICK_NS = 2
    U64Max = 7
    MAX_HOST_LEN = 2
    Dlt <- MCDlt
    TicksPerSec <- MCTicksPerSec
    Ticks = {0, 3}
    Packets <- MCPackets
    Snaplens = {1, 3, 5, 9}
    MaxBlocks = 3
    MaxPackets = 2
    Ip <- MCIp
    NameCap = 2
    Rooms = {1, 3}
INVARIANTS
    TimesFaithful
    HeadersSuffice
    ParseHonest
    LatestNameWins
    FirstIpsHeld
    FaucetParity
CHECK_DEADLOCK FALSE
