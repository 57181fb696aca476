CONSTANTS
    Tables = {"a", "b"}
    Keys = {"x", "y"}
    Vals = {1, 2}
    MaxId = 2
    MaxBlocks = 2
    Variants = {"RocksDB"}
    TableOrder <- MCTableOrder
    GetStatuses <- MCGetStatuses
    WriteStatuses <- MCWriteStatuses
    NotLoaded = NotLoaded
SPECIFICATION Spec
INVARIANT TransientIsRetryable
