SPECIFICATION RulesSpec
CONSTANTS
    alice = alice
    bob = bob
    Sender = {alice, bob}
    Transaction <- MCTransaction
    NoTx = NoTx
    ChainId = 1
    U64Max = 3
    MAX_PENDING_TXS = 3
    MAX_RBF_REPLACEMENTS = 1
    Balance = {2, 3}
    BlockCapacity = 2

    holder = holder
    miner = miner
    carol = carol
    Addr = {holder, miner, carol}
    BlockBody <- MCBlockBody
    GenesisBody <- MCGenesisBody
    MaxHeight = 3
    BalanceMax = 8
    Regtest = FALSE
    INITIAL_REWARD = 2
    HALVING_INTERVAL = 2
    TAIL_RATE_NUMERATOR = 1
    TAIL_RATE_DIVISOR = 3

    DEPTH = 3
    KeyHash <- MCKeyHash
    WitnessBody <- MCWitnessBody

    TxIds <- MCTxIds
    SlotKeys <- MCSlotKeys
    Outcomes = {0, 1}
    Words = {1, 2}
    MaxReceipts = 3

    Node = {n1, n2}
    Genesis <- MCGenesis
    Candidate <- MCCandidate
    MaxOffers = 3

    LimbBits = 2
    RETARGET_INTERVAL = 3
    MEDIAN_TIME_WINDOW = 3
    TARGET_BLOCK_TIME = 2
    MAX_TARGET_CHANGE_FACTOR = 4
    Operands = {0, 1, 2, 3, 5, 16, 63, 128, 200, 255}
    MaxHeaders = 6
    MaxTimestamp = 17

    Addrs = {a1}
    RateSpecs <- MCRateSpecs
    Kinds = {"Inv", "Other"}
    Ticks = 2
    MaxTime = 4
    MaxLag = 1
    ban_threshold = 2
    ban_window = 2
    ban_duration = 2
    Never = Never

    p1 = p1
    p2 = p2
    Peers = {p1, p2}
    Ids = {1, 2, 3}
    Sockets = {0, 1, 2, 3}
    Undialable = {0}
    OnWire <- MCOnWire
    Encounters <- MCEncounters
    max_count = 3
    MAX_ADDR_ENTRIES = 2
    MIN_BOOTSTRAP_PEERS = 3
    SeedConfigs <- MCSeedConfigs
    Resolutions <- MCResolutions
    MaxFrames = 2
INVARIANTS
    IndexConsistent
    
    
    SupplyAccounted
    StatelessAgrees
    CommitmentsBinding
    SameCandidatesSameTip
    U256Exact
    WithinRate
    BootstrapSound
PROPERTIES
    
    RefusalsJustified
CHECK_DEADLOCK FALSE
