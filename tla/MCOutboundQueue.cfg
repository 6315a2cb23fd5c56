SPECIFICATION FairSpec
CONSTANTS
    Ids <- MCIds
    Lists = {l1}
    MaxRetries = 2
    MaxSubmitted = 2
    MaxFaults = 1
    None = None
INVARIANTS AttemptsBounded NoticesAreFinal NothingVanishes
PROPERTIES NeverResent ImplementsMailFate EverythingSettles
