\* One player, one walk, and an onboarding in the middle of it.
CONSTANTS
    p1 = p1
    p2 = p2
    None = None
    Players = {p1}
    Walks = {w1}
    Codes <- ThreeCodes
    History <- OneHistory
    Length = 4
    Chars = 4
    Base = 3
    Byte = 2
    MatchBytes = 3
    ReservationBytes = 2
    PortBytes = 1
    MaxSetups = 2
SPECIFICATION Spec
INVARIANTS
    DiscoveryStartsThere
