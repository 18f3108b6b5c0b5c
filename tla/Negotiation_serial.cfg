\* One worker process whose handlers finish before their jobs expire.
SPECIFICATION FairSpec
CONSTANTS
    Suppliers = {S1, S2}
    S2 = S2
    TurnSlots = {t1}
    DecisionSlots = {d1}
    MaxAttempts = 2
    MaxFaults = 2
    Overrun = FALSE
    NoJob = NoJob
    NoOffer = NoOffer
INVARIANTS
    RoundCloses
PROPERTIES
    NegotiationConcludes
CHECK_DEADLOCK FALSE
