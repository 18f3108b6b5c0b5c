\* Two worker processes, nothing fails.
SPECIFICATION FairSpec
CONSTANTS
    Suppliers = {S1, S2}
    S2 = S2
    TurnSlots = {t1, t2}
    DecisionSlots = {d1}
    MaxAttempts = 2
    MaxFaults = 0
    Overrun = FALSE
    NoJob = NoJob
    NoOffer = NoOffer
PROPERTIES
    FirstRoundHandled
CHECK_DEADLOCK FALSE
