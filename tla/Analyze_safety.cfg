\* Two calls through the sidecar, one for an expired demo, and one with a URL for
\* the match of the first; every timer at its smallest useful length.
CONSTANTS
    a = a
    b = b
    r1 = r1
    r2 = r2
    r3 = r3
    None = None
    Manual = Manual
    ByHand = {r3}
    Requests = {r1, r2, r3}
    CodeOf <- PressedTwice
    Expired = {b}
    Gap = 1
    RequestTimeout = 1
    ClientTimeout = 1
    MaxTrouble = 2
SPECIFICATION AFairSpec
INVARIANTS
    ATypeOK
    ChainIsSerial
    RightUntilTimeout
    QueuedIsOwnUntilTimeout
PROPERTIES
    RequestIsAnswered
    ChainMovesOn
    AskKeepsGap
    AnsweredOnce
