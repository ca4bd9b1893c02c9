SPECIFICATION Spec
CONSTANTS
    ProofFlows = {p1}
    OnboardFlows = {o1}
    Threads = 1
    None = None
INVARIANT ResultFitsResponse
CHECK_DEADLOCK FALSE
