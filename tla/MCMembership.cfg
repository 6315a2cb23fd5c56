SPECIFICATION Spec
CONSTANTS
    Members = {m1}
    Handlers = {h1, h2}
    Tokens = {t1, t2}
    Threshold = 2
    MaxRows = 2
    MaxPosts = 2
    MaxFaults = 1
    MaxChanges = 1
    None = None
SYMMETRY MCSymmetry
INVARIANTS ApprovedUnlessBounced DisabledByOwnBounces PendingCanConfirm
\* At its bounds the instance has nothing left to do; the system does not stop.
CHECK_DEADLOCK FALSE
