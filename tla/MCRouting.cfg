SPECIFICATION Spec
CONSTANTS
    s1 = s1
    s2 = s2
    o1 = o1
    o2 = o2
    Submission = {s1, s2}
    Operator = {o1, o2}
    Command = {"route", "export"}
SYMMETRY Symmetry
INVARIANTS TypeOK RoutedPairIsWhole ReportedIsKept ReportedOnce NothingHalfDone
