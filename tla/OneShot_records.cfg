CONSTANTS
    Calls = {c1, c2, c3}
    Keys = {k1, k2, k3, k4}
    Offered <- SomeOrders
    None = None
    MaxCrashes = 1
    k1 = k1
    k2 = k2
    k3 = k3
    k4 = k4

SPECIFICATION Spec
SYMMETRY Symmetry

INVARIANTS
    TypeOK
    OpenedOncePerKey
    RetriesNameOneReference
    OneRecordPerKey
    FinalStatusIsTrue
    ReportedCancelIsDone
