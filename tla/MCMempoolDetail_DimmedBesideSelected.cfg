SPECIFICATION Spec
CONSTANTS
    NRanges = 2
    TxCounts <- MCTxCounts
    m_mempool_max_samples = 2
    ADD_FEE_RECTS = TRUE
    MaxConnections = 2
    MaxQueued = 2
    NoModel = NoModel
    Model = Model
    NoThread = NoThread
    Collector = Collector
INVARIANT
    DimmedBesideSelected
