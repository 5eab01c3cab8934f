\* One match, two calls under way at once, one of which may fail.
CONSTANTS
    Key = k
    Requests = {k}
    Demos = {u1, u2}
    Parsers = {1}
    Detectors = {1, 2}
    None = None
    Calls = {g1, g2}
    MaxErrors = 1
SPECIFICATION FairSpec
INVARIANTS
    TypeOK
    ShownIsWhole
PROPERTIES
    WorkingSettles
