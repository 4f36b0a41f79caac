SPECIFICATION Spec
CONSTANTS
    c1 = c1
    c2 = c2
    puller = puller
    NoMessage = NoMessage
    Connection = {c1, c2}
    Puller = {puller}
    Message <- MCMessage
    Block <- MCBlock
    Root = 1
    Parent <- MCParent
    MinerBlock = {5}
    BLOCKS_INBOX_CAP = 1
    SEEN_CAP = 2
CHECK_DEADLOCK FALSE
INVARIANT ForksReported
