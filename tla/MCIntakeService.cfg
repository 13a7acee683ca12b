SPECIFICATION FairServiceSpec
CONSTANTS
    g1 = g1
    g2 = g2
    c1 = c1
    Goroutine = {g1, g2}
    Client = {c1}
    Declared <- Lengths
    MaxConcurrent = 1
    MaxRequests = 2
    Window = 1
    ByteWindow = 1
    MaxUpload = 2
    Overhead = 1
    BodyOverhead = 1
    Environment <- Budgets
    Unset = Unset
    DefaultBudget = 7
    BudgetCeiling = 9
    MaxTime = 2
    RestartPossible = TRUE
    Total = 8
    RootReserve = 1
    MinFree = {2}
    MaxUsedPercent = {70}
    RecordSize = 1
INVARIANTS ServiceTypeOK StoredIsCharged InvalidBudgetClosesIntake OnlyAdmittedPay
PROPERTIES ImplementsCapacityGuard SlotsComeBack
