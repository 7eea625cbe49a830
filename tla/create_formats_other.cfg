SPECIFICATION Spec
CONSTANTS
    Names = {a}
    Dirs = {d1, d2}
    Tasks = {t1, t2}
    Deleters = {}
    Preexisting <- MCPreexisting
    MaxVaults = 1
    MaxCrashes = 0
    MaxTime = 1
    AutoLockWindow = 0
    DBFaults = FALSE
    Closed = Closed
    Orphan = Orphan
    Free = Free
    Sweeper = Sweeper
PROPERTIES
    CreateFormatsOnlyItsOwnImage
