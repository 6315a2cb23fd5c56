SPECIFICATION Spec
CONSTANTS
    Instances = {i1, i2}
    Posts = {p1, p2}
    Members = {m1, m2}
    Savers = {s1}
    Periods = {2, 3}
    MaxTime = 5
    MaxFaults = 1
    MaxChanges = 1
SYMMETRY MCSymmetry
INVARIANTS NoDoubleSend CompiledUnlessLate DigestDelivered
PROPERTIES WindowsSpaced
\* At its bounds the instance has nothing left to do; the system does not stop.
CHECK_DEADLOCK FALSE
