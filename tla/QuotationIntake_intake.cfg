\* Two requests at once, a handler for each queue, one fault and one reset.
SPECIFICATION Spec
CONSTANTS
    h1 = h1
    h2 = h2
    o1 = o1
    o2 = o2
    o3 = o3
    k1 = k1
    k2 = k2
    n1 = n1
    n2 = n2
    f1 = f1
    p1 = p1
    Hashes = {h1, h2}
    Objects = {o1, o2, o3}
    Declared <- MCDeclared
    Stored <- MCStored
    Keys = {k1, k2}
    Notes = {n1, n2}
    Bodies <- OneWorkbook
    Requests = {r1, r2}
    MaxCalls = 2
    MaxQuotations = 2
    Workers = {f1, p1}
    Queue <- MCQueue
    MaxAttempts = 2
    MaxFaults = 1
    NoBody = NoBody
    NoJob = NoJob
INVARIANTS
    AnswersAgree
    JobsMatchState
    ParsedOnceAsDeclared
    RemovedAfterCleared
PROPERTIES
    EveryQuotationSettles
CHECK_DEADLOCK FALSE
