SPECIFICATION BundleSpec
CONSTANTS
    s1 = s1
    s2 = s2
    amiga = amiga
    atari = atari
    Submission = {s1, s2}
    Operator = {1}
    Command = {"route"}
    Namespace = {amiga, atari}
    NamespaceOf <- Apart
INVARIANTS BundleTypeOK PreparedIsWhole PreparedIsComplete QuietPrepareSucceeds AcceptedIsGenuine
