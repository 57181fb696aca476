CONSTANTS
    Addr = {a1, a2}
    Keys = {}
    Codes = {}
    Vals = {0, 1}
    NoCode = NoCode
    Absent = Absent
    NoKey = NoKey
    Null = Null
    BalMod = 2
    Amounts = {1}
    StartNonce = 0
    MaxNonce = 1
    CacheLimit = 1
    GenesisRecs <- MCGenesisRecs
SPECIFICATION CallerSpec
SYMMETRY AddrSymmetry
CONSTRAINT StateBound
PROPERTY RefinesAbstract
