\* One match, one fault of the database, nothing else goes wrong.
CONSTANTS
    Codes = {c1}
    Urls = {u1}
    None = None
    MaxParser = 1
    MaxDetector = 1
    MaxFaults = 1
    MaxCrashes = 0
    MaxRetries = 1
SPECIFICATION FairSpec
PROPERTIES
    AttemptIsRecorded
