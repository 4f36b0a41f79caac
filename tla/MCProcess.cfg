SPECIFICATION ProcessSpec
CONSTANTS
    n1 = n1
    n2 = n2
    t1 = t1
    t2 = t2
    b1 = b1
    b2 = b2
    Root = Root
    Nodes = {n1, n2}
    Txs = {t1, t2}
    Blocks = {b1, b2}
    Parent <- MCParent
    Body <- MCBody
    ShortId <- MCShortId
    Scenarios <- MCScenarios
    KNOWN_SET_CAP = 3
    INBOX_CAP = 2
    INITIAL_SKETCH_CAPACITY = 1
    MAX_SKETCH_CAPACITY = 2
    CAPACITY_GROW_FAILURES = 2
    new_tx_trigger = 2
    MAX_ATTEMPTS = 2
    MaxTransfers = 3
    MaxDisturbances = 1
    Direct = {viewer}
    Bridged = {announcer}
    Capacity = 1
    MaxEvents = 3
INVARIANTS
    
    EventsInOrder
PROPERTIES
    
    SendAnswered
    ProcessEnds
CHECK_DEADLOCK FALSE
