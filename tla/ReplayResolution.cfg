\* Interfaces of different resolution in one pcapng.
SPECIFICATION CmdSpec
CONSTANTS
    NS_PER_SEC = 4
    MICRO_TICK_NS = 2
    U64Max = 7
    Dlt <- MCDlt
    TicksPerSec <- MCTicksPerSec
    Ticks = {0, 3}
    Packets <- MCPackets
    Snaplens = {9}
    MaxBlocks = 4
    MaxPackets = 2
    MAX_HOST_LEN = 2
    Ip <- MCIp
    NameCap = 2
    Rooms = {3}
INVARIANT ResolutionHonored
CHECK_DEADLOCK FALSE
