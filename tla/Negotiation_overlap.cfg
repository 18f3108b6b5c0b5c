\* Two turn handlers and the decision handler at once: two worker processes, or
\* one whose handler outlives its job's expiry.
SPECIFICATION Spec
CONSTANTS
    Suppliers = {S1, S2, S3}
    S2 = S2
    TurnSlots = {t1, t2}
    DecisionSlots = {d1}
    MaxAttempts = 2
    MaxFaults = 1
    Overrun = TRUE
    NoJob = NoJob
    NoOffer = NoOffer
SYMMETRY Symmetry
INVARIANTS
    TypeOK
    CurveballBetweenRounds
    CapacityReachesEveryS2Offer
    WinnerCanFulfil
    VersionCountsTransitions
    JobsMatchState
    ClaimedExactlyWithEffect
PROPERTIES
    FrozenAfterEvaluation
    ImplementsContract
CHECK_DEADLOCK FALSE
