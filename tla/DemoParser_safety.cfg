\* Four events: in a demo that begins mid-round a second round begins and sees
\* a kill.
CONSTANTS
    NoPlayer = NoPlayer
    TeamA = {t1, t2}
    TeamB = {c1, c2}
    Bots = {t1, t2, c2}
    Zero = Zero
    MultiKillSize = 2
    PreRoll = 1
    PostRoll = 1
    Tight = 4
    Horizon = 6
    Narrow <- MCNarrow
    Ulp = 1
    C4Timer = 3
    Shots = {TRUE}
    MaxEvents = 4
    At <- MCAt
SPECIFICATION Spec
SYMMETRY MCSymmetry
INVARIANTS
    TypeOK
    RederivesTheSame
    OneClutchEach
PROPERTIES
    SurvivorIsAlone
    NobodyVanishes
CHECK_DEADLOCK FALSE
