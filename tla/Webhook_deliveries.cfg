CONSTANTS
    Deliveries = {d1, d2, d3}
    StripeEvents = {s1}
    OnvoEvents = {o1}
    Keys = {k1, k2}
    None = None
    MaxCrashes = 1

SPECIFICATION FairSpec

INVARIANTS
    TypeOK
    HandledOncePerEpoch
    RememberedWasHandled
    AcceptedWasHandled

PROPERTIES
    EveryDeliverySettles
