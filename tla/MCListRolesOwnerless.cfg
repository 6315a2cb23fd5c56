SPECIFICATION Spec
CONSTANTS
    Handlers = {h1, h2}
    Persons = {p1, p2}
    Roles = {"owner"}
    Ops = {"grant", "revoke", "create"}
    Vias = {"web"}
    MaxLists = 1
    MaxDomains = 1
    MaxFaults = 0
PROPERTIES NeverOwnerless
CHECK_DEADLOCK FALSE
