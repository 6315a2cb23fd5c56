SPECIFICATION Spec
CONSTANTS
    Handlers = {h1, h2}
    Persons = {alice, bob}
    Subscribers = {alice}
    Links = {k1, k2}
    Sessions = {s1, s2}
    Burst = 1
    MaxBuckets = 1
    MaxRefills = 1
    MaxToggles = 2
    MaxFaults = 1
    Nobody = Nobody
    NoLink = NoLink
SYMMETRY MCSymmetry
INVARIANTS LockdownHolds SpentLinkIsSpent CapKept
\* At its bounds the instance has nothing left to do; the system does not stop.
CHECK_DEADLOCK FALSE
