\* One press for each of two matches; nothing breaks but the coordinator being
\* slow once.
CONSTANTS
    a = a
    b = b
    r1 = r1
    r2 = r2
    r3 = r3
    None = None
    Manual = Manual
    ByHand = {}
    Requests = {r1, r2}
    CodeOf <- PressedOnce
    Expired = {}
    Gap = 1
    RequestTimeout = 2
    ClientTimeout = 4
    MaxTrouble = 0
SPECIFICATION ASpec
INVARIANTS
    AnalysedIsOwn
