SPECIFICATION Spec
CONSTANTS
    Names = {a}
    Dirs = {d}
    Tasks = {t1, t2, t3}
    Deleters = {t1, t2}
    Preexisting <- MCPreexisting
    MaxVaults = 2
    MaxCrashes = 0
    MaxTime = 1
    AutoLockWindow = 0
    DBFaults = FALSE
    Closed = Closed
    Orphan = Orphan
    Free = Free
    Sweeper = Sweeper
INVARIANTS
    NoGhostRecord
