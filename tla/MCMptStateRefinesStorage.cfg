CONSTANTS
    Addr = {a1}
    Keys = {k1}
    Codes = {c1}
    Vals = {0, 1}
    NoCode = NoCode
    Absent = Absent
    NoKey = NoKey
    Null = Null
    BalMod = 2
    Amounts = {1}
    StartNonce = 0
    MaxNonce = 1
    CacheLimit = 1
    GenesisRecs <- MCGenesisRecs
SPECIFICATION CallerSpec
SYMMETRY AddrSymmetry
CONSTRAINT StateBound
INVARIANT StorageEnumerationAgrees
PROPERTY RefinesAbstract
