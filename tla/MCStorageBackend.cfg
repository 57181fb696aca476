CONSTANTS
    Tables = {"a", "b"}
    Keys = {"x"}
    Vals = {1, 2}
    MaxId = 3
    MaxBlocks = 2
    Variants = {"LevelDB2", "RocksDB"}
    TableOrder <- MCTableOrder
    GetStatuses <- MCGetStatuses
    WriteStatuses <- MCWriteStatuses
    NotLoaded = NotLoaded
SPECIFICATION Spec
INVARIANTS
    TypeOK
    UniqueLiveIds
PROPERTY RefinesTables
