SPECIFICATION Spec
CONSTANTS
    ProofFlows = {p1, p2}
    OnboardFlows = {o1}
    Threads = 1
    None = None
INVARIANTS
    VerifiedMeansAllPassed
    ErrorIffFailed
    CrewsAreUnderWay
PROPERTIES
    PublishedOnce
    Settles
CHECK_DEADLOCK FALSE
