\* Two players who met in one match, one walk at a time.
CONSTANTS
    p1 = p1
    p2 = p2
    None = None
    Players = {p1, p2}
    Walks = {w1}
    Codes <- ThreeCodes
    History <- MeetingHistory
    Length = 4
    Chars = 4
    Base = 3
    Byte = 2
    MatchBytes = 3
    ReservationBytes = 2
    PortBytes = 1
    MaxSetups = 1
SPECIFICATION Spec
INVARIANTS
    NobodyLosesAMatch
