CONSTANTS
    k1 = k1
    k2 = k2
    k3 = k3
    p1 = p1
    Keys = {k1, k2, k3}
    Data <- MCData
    Encrypting = TRUE
    MaxBusy = 3
    Requests = {"valid", "invalid"}
    NoValue = NoValue
SPECIFICATION Spec
CHECK_DEADLOCK FALSE
INVARIANT RoundTrip
