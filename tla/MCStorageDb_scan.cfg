SPECIFICATION Spec
CONSTANTS
    f1 = f1
    f2 = f2
    w1 = w1
    w2 = w2
    k1 = k1
    k2 = k2
    v1 = v1
    e1 = e1
    e2 = e2
    e3 = e3
    e4 = e4
    Fibers = {f1, f2}
    Workers = {w1, w2}
    WorkerOf <- TwoWorkers
    Keys = {k1, k2}
    Values = {v1}
    Entries = {e1, e2, e3, e4}
    RingSize = 3
    Operations = {"rmw", "scan"}
    NoEntry = NoEntry
    NoValue = NoValue
    NoKey = NoKey
    NoReply = NoReply
    Failed = Failed
SYMMETRY Symmetry
INVARIANTS
    EntriesSound
    ScansAreSafe
