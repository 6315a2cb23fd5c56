SPECIFICATION Spec
CONSTANTS
    Instances = {i1}
    Posts = {p1}
    Members = {m1}
    Savers = {s1}
    Periods = {2}
    MaxTime = 4
    MaxFaults = 0
    MaxChanges = 1
INVARIANTS SentOnce
CHECK_DEADLOCK FALSE
