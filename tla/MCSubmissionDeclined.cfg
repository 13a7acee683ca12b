SPECIFICATION Spec
CONSTANTS
    r1 = r1
    doc = doc
    Torn = Torn
    Request = {r1}
    Platform = {"amiga", "mac68k"}
    DefaultPlatform = "amiga"
    Payload = {doc}
    Size = {1, 2}
    MaxUpload = 1
    WriteDeadline = 1
    ReadDeadline = 2
    PowerLossPossible = FALSE
    DirSyncMayFail = TRUE
    RemoveMayFail = TRUE
INVARIANTS PublishedNeverDeclined
CHECK_DEADLOCK FALSE
