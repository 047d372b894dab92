CONSTANTS
    Calls = {c1, c2}
    Keys = {k1}
    Offered <- SomeOrders
    MaxRetries = 1
    Timeout = 1
    Deadline = 2
    MaxSignals = 2
    Impatient = {c1}
    Limit = 8
    Units <- PowersOfTwo
    Currencies = {"CRC", "USD"}
    None = None
    k1 = k1

SPECIFICATION Spec

INVARIANT
    KeyReuseRefused
