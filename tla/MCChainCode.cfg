SPECIFICATION ChainSpec
CONSTANTS
    n1 = n1
    n2 = n2
    Nodes = {n1, n2}
    holder = holder
    bob = bob
    minerAddr = minerAddr
    Sender = {holder, bob}
    Addr = {holder, bob, minerAddr}
    Transaction <- MCTransaction
    NoTx = NoTx
    ChainId = 1
    U64Max = 3
    MAX_PENDING_TXS = 3
    MAX_RBF_REPLACEMENTS = 1
    BalanceMax = 9
    Regtest = FALSE
    INITIAL_REWARD = 1
    HALVING_INTERVAL = 10
    TAIL_RATE_NUMERATOR = 0
    TAIL_RATE_DIVISOR = 1
    GenesisAmount = 3
    BlockCapacity = 1
    MAX_FUTURE_TIME = 2
    FreshNodes = {}
    MaxHeight = 2
    MaxBlocks = 3
    MaxTime = 2

    alice = alice
    p1 = p1
    k1 = k1
    k2 = k2
    Users = {alice}
    Precompiles = {p1}
    Mentioned <- MCMentioned
    NonReentrant <- MCNonReentrant
    Keys = {k1, k2}
    Lengths = {1, 2}
    Amounts = {1}
    Endowed = 2
    MaxGas = 3
    GasLimits = {1, 3}
    MAX_CALL_DEPTH = 2
    MAX_STORAGE_PER_CONTRACT = 3
    MaxTxs = 3
    MaxContractBlocks = 2
SYMMETRY Interchangeable
INVARIANT CodeForEveryContract
CHECK_DEADLOCK FALSE
