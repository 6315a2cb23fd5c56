SPECIFICATION FairSpec
CONSTANTS
    m1 = m1
    m2 = m2
    Msgs = {m1, m2}
    Scenarios <- MCScenarios
    Conns = {c1, c2}
    Lists <- MCLists
    Owners = {ann, olga, otto}
    Sender = ann
    MaxFaults = 2
    None = None
INVARIANTS HandledOncePerAttempt TakenWasHandled RefusedForCause
INVARIANTS RoutedAsPrinted NothingCutShort RedeliveryHarmless
PROPERTIES EveryMailSettles
\* When the MTA has an answer for everything the daemon waits.
CHECK_DEADLOCK FALSE
