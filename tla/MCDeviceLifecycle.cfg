SPECIFICATION Spec
CONSTANTS
    Handlers = {h1, h2, h3}
    Devices = {d1, d2}
    Serials = {s1}
    Tenants = {t1, t2}
    UpdateStatuses = {"provisioned", "enrolled"}
    None = None
    MaxFaults = 2
SYMMETRY Symmetry
INVARIANTS
    TypeOK
    SerialUnique
    ProvisionedByOwner
    StrandedExplained
    PendingExplained
    KeysRegistered
PROPERTIES
    RevivedOnlyByStaleSave
    RegistryImplemented
    FingerprintOutlivesRow
