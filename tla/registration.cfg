SPECIFICATION Spec
CONSTANTS
    Names = {a, b}
    Dirs = {d}
    Tasks = {t1, t2}
    Deleters = {}
    Preexisting <- MCPreexisting
    MaxVaults = 2
    MaxCrashes = 0
    MaxTime = 1
    AutoLockWindow = 0
    DBFaults = FALSE
    Closed = Closed
    Orphan = Orphan
    Free = Free
    Sweeper = Sweeper
SYMMETRY Symmetric
INVARIANTS
    OneRecordPerImage
PROPERTIES
    NoDoomedRegistration
