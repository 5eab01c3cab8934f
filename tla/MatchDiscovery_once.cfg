\* Two players with a shared past, two overlapping walks, onboarded up to
\* twice each at any moment.
CONSTANTS
    p1 = p1
    p2 = p2
    None = None
    Players = {p1, p2}
    Walks = {w1, w2}
    Codes <- AllCodes
    History <- SharedHistory
    Length = 4
    Chars = 4
    Base = 3
    Byte = 2
    MatchBytes = 3
    ReservationBytes = 2
    PortBytes = 1
    MaxSetups = 2
SPECIFICATION Spec
SYMMETRY MCSymmetry
INVARIANTS
    TypeOK
    FoundIsSegment
    NothingSkipped
    StoredOnce
PROPERTIES
    OwnerIsForever
