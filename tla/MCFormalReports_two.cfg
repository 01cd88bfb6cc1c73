SPECIFICATION Spec
CONSTANTS
    s1 = s1
    s2 = s2
    d1 = d1
    p1 = p1
    p2 = p2
    x1 = x1
    x2 = x2
    bank = bank
    Grid = 24
    Halvings = 2
    Session <- TwoSessions
    Doc = {d1}
    Product = {p1, p2}
    Context = {x1}
    Category = {"corp"}
    Rate = {6}
    Code = {"license"}
    Signing = {2}
    LastDay = 2
    RuleBook <- Rules1
    LprBook <- Rates
    TemplateBook <- Templates
    FirstEntries = {"early"}
    FirstProduct = p1
    Lender = bank
    MaxFlushes = 3
    MaxChanges = 1
INVARIANTS
    TypeOK
    CurrentReportsHold
PROPERTIES
    SignOffHolds
SYMMETRY Sessions
