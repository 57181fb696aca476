CONSTANTS
    Programs = {"mini-para", "para-node"}
    MaxUsers = 3
    MaxTxs = 2
    Groups <- MCGroups
SPECIFICATION Spec
CHECK_DEADLOCK FALSE
INVARIANT WorkloadWellFormed
