CONSTANTS
    Calls = {c1, c2, c3}
    Keys = {k1, k2, k3, k4}
    Plans = {p1, p2}
    Offered <- OneOrderEach
    None = None
    Gateway = "onvopay"
    Words = {"created", "active", "paused", "canceled"}
    k1 = k1
    k2 = k2
    k3 = k3
    k4 = k4
    p1 = p1
    p2 = p2

SPECIFICATION Spec
SYMMETRY Symmetry

INVARIANTS
    ConfirmedCancelsReported
