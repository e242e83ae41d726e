SPECIFICATION Spec
CONSTANTS
    t1 = t1
    t2 = t2
    k1 = k1
    k2 = k2
    k3 = k3
    v1 = v1
    v2 = v2
    Transactions = {t1, t2}
    Keys = {k1, k2}
    Values = {v1}
    HomeChunks = 1
    SearchMax = 2
    SlotsCount = 1
    HomeOf <- HomeShared
    QuarterOf <- QuarterShared
    DatabaseOf <- DatabasesShared
    MaxOps = 2
    Operations = {"get", "delete", "set", "rmw", "get_by_index", "delete_by_index", "get_key"}
    RepeatedKeys = TRUE
    NoTransaction = NoTransaction
    NoKey = NoKey
    NoValue = NoValue
    NoReply = NoReply
    Failed = Failed
PROPERTY DeleteRemovesKey
