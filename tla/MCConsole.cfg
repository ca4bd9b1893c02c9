SPECIFICATION Spec
CONSTANTS
    Rows <- MCRows
    Terms = {"sensor"}
    SortKeys = {"last_seen"}
    PageSize = 2
    Emails = {"e1"}
    NoEmail = "no-email"
    Devices = {"d1", "d2"}
    NoDevice = "no-device"
    MaxTasks = 2
    MaxProofs = 2
    MaxKeys = 1
INVARIANTS
    TypeOK
    TablePagesCover
    RegisteredMeansAccount
    BusyWhilePending
    ProofsPageConsistent
PROPERTIES
    FormsSettle
