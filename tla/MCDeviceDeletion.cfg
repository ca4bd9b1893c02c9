SPECIFICATION Spec
CONSTANTS
    Handlers = {h1, h2}
    Devices = {d1}
    Serials = {s1}
    Tenants = {t1}
    UpdateStatuses = {"suspended"}
    None = None
    MaxFaults = 0
PROPERTY DeletedStaysDeleted
