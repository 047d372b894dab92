CONSTANTS
    Deliveries = {d1, d2}
    StripeEvents = {s1}
    OnvoEvents = {}
    Keys = {k1, k2}
    None = None
    MaxCrashes = 0

SPECIFICATION Spec
SYMMETRY Symmetry

INVARIANTS
    RemembersSummaries
