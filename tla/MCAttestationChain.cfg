SPECIFICATION Spec
CONSTANTS
    Devices = {d1}
    Submissions = {r1, r2}
    Pems <- MCPems
    Requests <- MCRequests
    None = None
    MaxTime = 0
    MaxMishaps = 0
INVARIANT IncompleteChainRejected
CHECK_DEADLOCK FALSE
