SPECIFICATION Spec
CONSTANTS
    r1 = r1
    r2 = r2
    r3 = r3
    Request = {r1, r2, r3}
    Slots = 2
    Total = 40
    RootReserve = 2
    MinFree = {1, 10}
    MaxUsedPercent = {50, 95}
    MaxUpload = 3
    RecordSize = 2
SYMMETRY Symmetry
INVARIANTS FloorMargin WatermarkMargin
