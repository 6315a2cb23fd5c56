SPECIFICATION FairSpec
CONSTANTS
    Posts = {p1}
    Recipients = {r1, r2}
    SenderRoles <- MCSubscribers
    Handlers = {h1, h2}
    MaxHeld = 2
    MaxFaults = 1
    MaxChanges = 1
    None = None
INVARIANTS NoPostLost ArchivedIsDelivered AuditIsTruthful
PROPERTIES ImplementsPostFate EveryPostSettles
\* When every post has met its fate nothing is left to do; the daemon waits.
CHECK_DEADLOCK FALSE
