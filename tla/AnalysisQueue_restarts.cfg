\* One match through three crashes, two upgrades and two store faults.
CONSTANTS
    Codes = {c1}
    Urls = {u1, u2}
    None = None
    MaxParser = 2
    MaxDetector = 3
    MaxFaults = 2
    MaxCrashes = 3
    MaxRetries = 1
SPECIFICATION FairSpec
INVARIANTS
    StrandedByFaults
    TempFilesBounded
PROPERTIES
    KeepsPromise
    HighlightsOnlyImprove
    AskedIsAnswered
    StaleIsRefreshed
