SPECIFICATION Spec
CONSTANTS
    t1 = t1
    t2 = t2
    k1 = k1
    k2 = k2
    k3 = k3
    v1 = v1
    v2 = v2
    Transactions = {t1, t2}
    Keys = {k1, k2, k3}
    Values = {v1}
    HomeChunks = 2
    SearchMax = 2
    SlotsCount = 1
    HomeOf <- HomeTwo
    QuarterOf <- QuarterTwo
    DatabaseOf <- DatabasesTwo
    MaxOps = 2
    Operations = {"delete", "set"}
    RepeatedKeys = FALSE
    NoTransaction = NoTransaction
    NoKey = NoKey
    NoValue = NoValue
    NoReply = NoReply
    Failed = Failed
SYMMETRY TransactionSymmetry
INVARIANTS KeysFindable
