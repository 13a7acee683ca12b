SPECIFICATION InventorySpec
CONSTANTS
    r1 = r1
    r2 = r2
    Request = {r1, r2}
    Platform = {"amiga", "mac68k"}
    PowerLossPossible = TRUE
    RemoveMayFail = TRUE
SYMMETRY Symmetry
INVARIANTS InventoryTypeOK AcceptedIsPublished SoundIsVerified DamageIsReported FailureHasACause ListingNeverFails
CHECK_DEADLOCK FALSE
