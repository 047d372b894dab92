CONSTANTS
    Calls = {c1, c2, c3, c4}
    Keys = {k1, k2, k3, k4}
    Amount = 2
    Offered <- OneOrderEach
    None = None
    k1 = k1
    k2 = k2
    k3 = k3
    k4 = k4

SPECIFICATION Spec
SYMMETRY Symmetry

INVARIANTS
    TypeOK
    NeverOverstated
    ReleasedIsSettled
    TracksGateway
    PatientCallersEndNothing
