SPECIFICATION Spec
CONSTANTS
    ann = ann
    bob = bob
    dev = dev
    news = news
    h1 = h1
    h2 = h2
    Handlers = {h1, h2}
    Persons = {ann, bob}
    Addrs = {dev, news}
    Rows <- MCRows
    FiledIn <- MCFiled
    SenderOf <- MCSender
    Asks <- MCAsks
    Start <- MCStart
    MaxLists = 3
    MaxSubs = 4
    MaxEvents = 1
INVARIANTS CTypeOK SeesWithinRights NoneDeniedWrongly ChangesRecorded FormIsWhole
PROPERTIES ActsWithinRights
\* At its bounds the instance has nothing left to do; the system does not stop.
CHECK_DEADLOCK FALSE
