SPECIFICATION Spec
CONSTANTS
    g1 = g1
    g2 = g2
    g3 = g3
    c1 = c1
    Goroutine = {g1, g2, g3}
    Client = {c1}
    Declared <- Lengths
    MaxConcurrent = 2
    MaxRequests = 2
    Window = 2
    ByteWindow = 2
    MaxUpload = 1
    Overhead = 1
    Environment <- ValidBudgets
    Unset = Unset
    DefaultBudget = 20
    BudgetCeiling = 5
    MaxTime = 5
    RestartPossible = TRUE
SYMMETRY Symmetry
INVARIANTS TypeOK SlotsAreHeld WithinQuota BytesOverAnyWindow UploadsOverAnyWindow FreshWindowServesAnyone
