SPECIFICATION FairSpec
CONSTANTS
    Members = {m1}
    Handlers = {h1, h2}
    Tokens = {t1, t2}
    Threshold = 1
    MaxRows = 1
    MaxPosts = 1
    MaxFaults = 1
    MaxChanges = 1
    None = None
PROPERTIES JoinNotBlocked
\* At its bounds the instance has nothing left to do; the system does not stop.
CHECK_DEADLOCK FALSE
