\* Two matches, two URLs, one upgrade of each version, a fault, a crash
\* and a retry: see the README for why these bounds are enough.
CONSTANTS
    Codes = {c1, c2}
    Urls = {u1, u2}
    None = None
    MaxParser = 2
    MaxDetector = 2
    MaxFaults = 1
    MaxCrashes = 1
    MaxRetries = 1
SPECIFICATION Spec
SYMMETRY MCSymmetry
INVARIANTS
    TypeOK
    JobIsRunning
    DoneIsWhole
    RederivesStoredEvents
    JobCarriesItsResults
    BlobBehindPath
PROPERTIES
    DoneIsFinal
