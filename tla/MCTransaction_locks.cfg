CONSTANTS
    t1 = t1
    t2 = t2
    t3 = t3
    l1 = l1
    l2 = l2
    Spinlocks = {l1}
    Transactions = {t1, t2, t3}
    Workers = {0, 1}
    WorkerOf <- TwoFibersAndAThread
    IndexModulus = 3
    MaxReaders = 6
    MaxSpins = 1
    Reserved = {0, 1}
    MaxLocks = 2
    NoSpinlock = NoSpinlock
SPECIFICATION FairSpec
INVARIANTS TypeOK MutualExclusion ReadersCountExact OwnerHasEntry
PROPERTIES ImplementsRWLocks CallsReturn
