SPECIFICATION Spec
CONSTANTS
    Ops = {o1, o2, o3}
    Proofs = {p1, p2}
    Direct = {d1}
    None = None
INVARIANTS
    VerdictsAccounted
    NothingFromNoir
    BackendsReleased
CHECK_DEADLOCK FALSE
