SPECIFICATION Spec
CONSTANTS
    Handlers = {h1, h2}
    Persons = {p1, p2}
    Roles = {"owner", "moderator"}
    Ops = {"grant", "revoke", "save", "create", "delete"}
    Vias = {"web", "command"}
    MaxLists = 2
    MaxDomains = 1
    MaxFaults = 1
SYMMETRY MCSymmetry
INVARIANTS LTypeOK NothingOrphaned
PROPERTIES LastOwnerGuarded NewListHasNoRoles CreatedWithOwner
\* At its bounds the instance has nothing left to do; the system does not stop.
CHECK_DEADLOCK FALSE
