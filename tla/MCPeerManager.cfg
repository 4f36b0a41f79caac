SPECIFICATION PeersSpec
CONSTANTS
    w_latency = 20
    w_uptime = 10
    w_invalid = 96
    invalid_full_weight = 1
    w_violation = 85
    violation_full_weight = 1
    warn_threshold = 40
    temp_ban_threshold = 20
    persistent_ban_threshold = 5
    temp_ban_duration = 1
    persistent_ban_duration = 2
    rate_ban_duration = 1
    Peers = {p1, p2}
    Sessions = {1, 2}
    Ranges = {r1}
    Limits <- MCLimits
    Samples = {1000}
    BanLengths = {1}
    MaxLatency = 0
    NoPeer = NoPeer
    NoRange = NoRange
    NoSession = 0
INVARIANTS
    PoolWithinCaps
    BannedStayOut
    NoZombies
PROPERTIES
    
    ResponsiveNeverBanned
CHECK_DEADLOCK FALSE
