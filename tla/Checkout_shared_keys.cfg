CONSTANTS
    Calls = {c1, c2, c3, c4}
    Keys = {k1, k2, k3}
    Offered <- SharedKeys
    None = None
    Gateway = "stripe"
    SerialCallers = FALSE
    Durable = TRUE
    MaxCrashes = 0
    k1 = k1
    k2 = k2
    k3 = k3
    k4 = k4

SPECIFICATION Spec
SYMMETRY Symmetry

INVARIANTS
    TypeOK
    ChargedOncePerKey
    CommittedOutputsAgree
    RetriesNameOneCharge
    RefundedOncePerKey
    RefundsOnlyCaptured
    StatusBackedByGateway
    FailedIsFinal
    RetriesAgreeOnRefund
