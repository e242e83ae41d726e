SPECIFICATION ProcessSpec
CONSTANTS
    w1 = w1
    w2 = w2
    k1 = k1
    k2 = k2
    e1 = e1
    e2 = e2
    e3 = e3
    Workers = {w1, w2}
    Keys = {k1, k2}
    Entries = {e1, e2, e3}
    Volatile = {e3}
    Scenarios <- ProcessScenarios
    BucketsCount = 6
    BlockSize = 2
    ChunkSlots = 3
    QueueLimit = 1
    Interval = 1
    NoEntry = NoEntry
    NoKey = NoKey
    NoWorker = NoWorker
    None = None
INVARIANTS
    ProcessTypeOK
    
    ProgramSound
    
    
    RequestsAnswered

    
    
