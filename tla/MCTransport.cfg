SPECIFICATION MCSpec
CONSTANTS
    alice = alice
    bob = bob
    carol = carol
    Identities = {alice, bob, carol}
    NoNode = NoNode
    Capabilities = {compact}
    NetworkIds = {1, 2}
    Versions = {1, 2}
    MIN_PROTO_VERSION = 2
    Senders = {gossip, announcer}
    Parts <- MCParts
    MaxSends = 3
    SocketCapacity = 3
    SHUTDOWN_POLL = 1
    FIRST_READ_TIMEOUT = 2
    IDLE_READ_TIMEOUT = 3
    Chains <- MCChains
    TotalWork <- MCTotalWork
    Timestamp <- MCTimestamp
    Defect <- MCDefect
    GenesisBlock = 1
    Remotes <- MCRemotes
    MAX_HEADERS_BATCH = 2
    MAX_BLOCKS_BATCH = 1
    SYNC_INBOX_CAP = 1
    MaxTimeouts = 1
INVARIANTS
    CandidatesSound
    SessionsAgree
PROPERTIES
    
    KeepsChannelPromise
    PayloadsArrive
    NoHalfOpenSession
CHECK_DEADLOCK FALSE
