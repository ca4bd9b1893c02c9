SPECIFICATION Spec
CONSTANTS
    Devices = {d1}
    Submissions = {r1, r2}
    Pems <- MCPems
    Requests <- MCRequests
    None = None
    MaxTime = 1
    MaxMishaps = 1
INVARIANTS
    TypeOK
    VerifiedHasChain
    ProofMissingExplained
PROPERTIES
    VerdictFinal
    ChainNeverRenewed
    PendingSettles
CHECK_DEADLOCK FALSE
