CONSTANTS
    N = 3
    MaxResults = {1, 2}
SPECIFICATION Spec
CHECK_DEADLOCK FALSE
INVARIANT PagingComplete
