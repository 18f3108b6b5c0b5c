\* One command after another.
SPECIFICATION Spec
CONSTANTS
    s1 = s1
    s2 = s2
    l1 = l1
    l2 = l2
    l3 = l3
    p1 = p1
    p2 = p2
    TierLineQuantity = 2
    Scenarios = {s1, s2}
    Lines = {l1, l2, l3}
    Products = {p1, p2}
    NoProduct = NoProduct
    Excluded = Excluded
    Undecided = Undecided
    ScenarioOf <- MCScenarioOf
    Sheet <- MCSheet
    Certain <- MCCertain
    Top <- MCTop
    Quantities = {3}
    Requests = {r1}
    MaxBegun = 3
    NoScenario = NoScenario
    NoCall = NoCall
INVARIANTS
    AllResolvedIsReady
CHECK_DEADLOCK FALSE
