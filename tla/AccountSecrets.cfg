SPECIFICATION Spec
CONSTANTS
    a1 = a1
    a2 = a2
    t1 = t1
    p1 = p1
    None = None
    Plain = Plain
    Accounts <- MCAccounts
    Threads <- MCThreads
    Passphrases <- MCPassphrases
    MaxSaves = 1
    MaxKeys = 2
    MaxRotations = 2
    MaxCrashes = 1
SYMMETRY Symmetry
INVARIANTS RotationKeepsCaptures CapturesReadable
CHECK_DEADLOCK FALSE
