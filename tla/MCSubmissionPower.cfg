SPECIFICATION Spec
CONSTANTS
    r1 = r1
    r2 = r2
    doc = doc
    Torn = Torn
    Request = {r1, r2}
    Platform = {"amiga", "mac68k"}
    DefaultPlatform = "amiga"
    Payload = {doc}
    Size = {1, 2}
    MaxUpload = 1
    WriteDeadline = 0
    ReadDeadline = 1
    PowerLossPossible = TRUE
    DirSyncMayFail = FALSE
    RemoveMayFail = FALSE
SYMMETRY Symmetry
INVARIANTS TypeOK PublishedPairIsWhole PublishedWithConsent ReceiptIsDurable
PROPERTIES ImplementsLedger ImplementsQuarantine
CHECK_DEADLOCK FALSE
