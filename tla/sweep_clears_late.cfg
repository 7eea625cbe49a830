SPECIFICATION Spec
CONSTANTS
    Names = {a}
    Dirs = {d}
    Tasks = {t1, t2}
    Deleters = {}
    Preexisting <- MCPreexisting
    MaxVaults = 1
    MaxCrashes = 0
    MaxTime = 2
    AutoLockWindow = 1
    DBFaults = FALSE
    Closed = Closed
    Orphan = Orphan
    Free = Free
    Sweeper = Sweeper
PROPERTIES
    WindowEndsWithLock
