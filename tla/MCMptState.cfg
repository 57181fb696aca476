CONSTANTS
    Addr = {a1, a2}
    Keys = {}
    Codes = {}
    Vals = {0, 1}
    NoCode = NoCode
    Absent = Absent
    NoKey = NoKey
    Null = Null
    BalMod = 2
    Amounts = {1}
    StartNonce = 0
    MaxNonce = 1
    CacheLimit = 0
    GenesisRecs <- MCGenesisRecs
SPECIFICATION MCSpec
SYMMETRY AddrSymmetry
CONSTRAINT StateBound
INVARIANTS
    TypeOK
    NonExistingCacheSound
    LogTargetsCached
    CleanEntriesEvictable
