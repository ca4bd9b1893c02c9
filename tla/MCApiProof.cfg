SPECIFICATION Spec
CONSTANTS
    Requests = {r1, r2}
    Clients = {c1}
    Serials = {s1}
    UpdateStatuses = {"suspended"}
    Limit = 2
    None = None
    MaxFaults = 0
PROPERTY ProofCompletes
CHECK_DEADLOCK FALSE
