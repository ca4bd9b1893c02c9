SPECIFICATION Spec
CONSTANTS
    Requests = {r1, r2, r3}
    Clients = {c1}
    Serials = {s1}
    UpdateStatuses = {"suspended"}
    Limit = 2
    None = None
    MaxFaults = 1
INVARIANTS
    QuotaKept
    ImmortalExplained
    WritesAudited
PROPERTIES
    QuotaRecovers
    AuditSettles
    DeletedStaysDeleted
CHECK_DEADLOCK FALSE
