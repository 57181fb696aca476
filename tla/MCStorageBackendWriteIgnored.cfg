CONSTANTS
    Tables = {"a", "b"}
    Keys = {"x", "y"}
    Vals = {1, 2}
    MaxId = 2
    MaxBlocks = 2
    Variants = {"LevelDB2", "RocksDB"}
    TableOrder <- MCTableOrder
    GetStatuses <- MCGetOk
    WriteStatuses <- MCWriteFails
    NotLoaded = NotLoaded
SPECIFICATION Spec
PROPERTY RefinesTables
