SPECIFICATION FairSpec
CONSTANTS
    Ids <- MCIds
    Lists = {l1}
    MaxRetries = 2
    MaxSubmitted = 1
    MaxFaults = 1
    None = None
PROPERTIES SurvivesRestarts
