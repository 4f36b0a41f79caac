SPECIFICATION DurableFairSpec
CONSTANTS
    n1 = n1
    n2 = n2
    Nodes = {n1, n2}
    holder = holder
    bob = bob
    minerAddr = minerAddr
    Sender = {holder, bob}
    Addr = {holder, bob, minerAddr}
    Transaction <- MCOnePayment
    NoTx = NoTx
    ChainId = 1
    U64Max = 3
    MAX_PENDING_TXS = 3
    MAX_RBF_REPLACEMENTS = 1
    BalanceMax = 9
    Regtest = FALSE
    INITIAL_REWARD = 1
    HALVING_INTERVAL = 10
    TAIL_RATE_NUMERATOR = 0
    TAIL_RATE_DIVISOR = 1
    GenesisAmount = 3
    BlockCapacity = 1
    MAX_FUTURE_TIME = 2
    FreshNodes = {}
    DbNodes = {n1}
    MaxHeight = 3
    MaxBlocks = 2
    MaxTime = 2
    MaxCrashes = 2
INVARIANTS
    RunningCacheMatchesChain
    SavedChainSurvives
PROPERTIES
    RecoveredConvergence
CHECK_DEADLOCK FALSE
