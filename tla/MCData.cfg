SPECIFICATION DataSpec
CONSTANTS
    k1 = k1
    k2 = k2
    None = None
    Threads = {1, 2, 3}
    ShardsCount = 2
    ShardSize = 2
    Takes = 4
INVARIANTS
    DataTypeOK
    Exclusive
    CountsExact
    CommandsGiveBack
    KeysAccounted
    CountersExact
    

    
