SPECIFICATION Spec
CONSTANTS
    r1 = r1
    r2 = r2
    doc = doc
    exe = exe
    Torn = Torn
    Request = {r1, r2}
    Platform = {"amiga", "mac68k"}
    DefaultPlatform = "amiga"
    Payload = {doc, exe}
    Size = {1, 2, 3}
    MaxUpload = 1
    WriteDeadline = 1
    ReadDeadline = 2
    PowerLossPossible = FALSE
    DirSyncMayFail = TRUE
    RemoveMayFail = FALSE
SYMMETRY Symmetry
INVARIANTS RefusedLeavesNothing OrphansOnlyFromCrashes
PROPERTIES PublishedIsImmutable
CHECK_DEADLOCK FALSE
