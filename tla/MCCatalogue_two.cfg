SPECIFICATION Spec
CONSTANTS
    a1 = a1
    a2 = a2
    Admin <- TwoAdmins
    RuleCode = {"d", "c"}
    TemplateCode = {"t", "u"}
    RuleInput <- Inputs
    TemplateInput <- Items
    CsvRow <- Csv
    DemoRules <- Demo
    DemoItems <- DemoChecklist
    DemoEntries <- DemoRates
    Product <- Products
    Category = {"corp", "deed"}
    LastDay = 3
    MaxRows = 3
    MaxImports = 2
    MaxWrites = 5
    Grid = 32
    Halvings = 4
    Calculation <- Calculations
    Checklist <- Checklists
    Amount = {0, 2, 4}
    Term = {0, 1, 2}
    LoanRate = {0, 1, 4, 6, 8, 20}
    Fee = {0, 1, 2}
    OverdueRate = {0, 4}
    LprValue = {0, 1, 2}
    Material = {"m1", "m2"}
INVARIANTS
    TypeOK
    OneRuleADay
    OneTemplate
    HashedContent
    NoForesight
    StartsUnlessTemplateRetired
    CostBracketed
    CostIsRate
    DearerIsNeverMilder
    OverdueOnlyWarns
    ReferencesOnlyWarn
    AskedIsEnough
    ClassificationsProveNothing
    EveryDocumentProves
PROPERTIES
    FinalContent
SYMMETRY Admins
CHECK_DEADLOCK FALSE
