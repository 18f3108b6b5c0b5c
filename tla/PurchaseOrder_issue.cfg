\* Two requests at once, two negotiations and two keys, one actor.
SPECIFICATION FairSpec
CONSTANTS
    Negotiations = {n1, n2}
    Actors = {a1}
    Keys = {k1, k2}
    Requests = {r1, r2}
    Lifetime = 0
    OfferExpiry = 2
    MaxTime = 2
    MaxTokens = 2
    NoCall = NoCall
INVARIANTS
    OneOrderPerCommitment
    NumbersGapless
    KeyNamesOneOrder
    ConfirmedInTime
PROPERTIES
    ImplementsLedger
    EveryRequestEnds
CHECK_DEADLOCK FALSE
