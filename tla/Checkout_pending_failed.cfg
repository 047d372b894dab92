CONSTANTS
    Calls = {c1, c2}
    Keys = {k1, k2, k3, k4}
    Offered <- OneKeyEach
    None = None
    Gateway = "onvopay"
    SerialCallers = TRUE
    Durable = FALSE
    MaxCrashes = 0
    k1 = k1
    k2 = k2
    k3 = k3
    k4 = k4

SPECIFICATION Spec
SYMMETRY Symmetry

INVARIANTS
    FailedIsFinal
