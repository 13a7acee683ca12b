SPECIFICATION Spec
CONSTANTS
    r1 = r1
    r2 = r2
    Request = {r1, r2}
    Slots = 2
    Total = 30
    RootReserve = 2
    MinFree = {10}
    MaxUsedPercent = {95}
    MaxUpload = 3
    RecordSize = 2
SYMMETRY Symmetry
INVARIANTS FloorIsKept
